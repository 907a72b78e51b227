\* Do reader and writer seek together?
SPECIFICATION FileSpec
CONSTANTS
  Transfers <- TwoFiles
  OffsetLimit = 3
  Absent = Absent
  NoJob = NoJob
  MaxJobs = 2
INVARIANT SoughtTogether
\* Without files to send, nothing happens.
CHECK_DEADLOCK FALSE
