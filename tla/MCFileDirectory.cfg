\* Does an empty directory leave the file before it alone?
SPECIFICATION FileSpec
CONSTANTS
  Transfers <- MCTransfers
  OffsetLimit = 3
  Absent = Absent
  NoJob = NoJob
  MaxJobs = 2
PROPERTY DeliveredBeforeMarker
\* Without files to send, nothing happens.
CHECK_DEADLOCK FALSE
