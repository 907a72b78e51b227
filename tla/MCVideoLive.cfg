\* Liveness: a connection beside one whose peer may never acknowledge, while
\* another display is captured for both.
SPECIFICATION FairSpec
CONSTANTS
  Conns = {c1, c2}
  AckConns = {c2}
  Askers = {}
  NeedSnapshot = TRUE
  Interference = TRUE
  Churn = FALSE
  MaxQueue = 1
  MaxReports = 1
PROPERTIES
  FramesKeepComing
