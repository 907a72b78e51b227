\* A connection whose peer asks for refreshes beside one whose peer may never
\* acknowledge; one display.
SPECIFICATION FairSpec
CONSTANTS
  Conns = {c1, c2}
  AckConns = {c2}
  Askers = {c1}
  NeedSnapshot = TRUE
  Interference = FALSE
  Churn = FALSE
  MaxQueue = 1
  MaxReports = 1
PROPERTIES
  Decodable
  NoNeedlessTimeout
  RefreshIsServed
