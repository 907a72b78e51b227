\* The claim of the comment on the wait for reports, on the safety instance.
SPECIFICATION Spec
CONSTANTS
  Conns = {c1, c2}
  AckConns = {c2}
  Askers = {}
  NeedSnapshot = TRUE
  Interference = FALSE
  Churn = TRUE
  MaxQueue = 2
  MaxReports = 2
PROPERTIES
  AllReceived
