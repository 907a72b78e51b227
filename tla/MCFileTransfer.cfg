\* A download of a directory with an empty one in it, and an upload of files that
\* change between the sessions.
SPECIFICATION FileFairSpec
CONSTANTS
  Transfers <- MCTransfers
  OffsetLimit = 2
  Absent = Absent
  NoJob = NoJob
  MaxJobs = 2
INVARIANTS
  FileTypeOK
  Resumable
PROPERTIES
  FinalReplaced
  Delivered
  JobEnds
\* Without files to send, nothing happens.
CHECK_DEADLOCK FALSE
