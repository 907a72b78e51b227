\* A desktop with two displays, a camera connection and their user.
SPECIFICATION Spec
CONSTANTS
  Conns = {"desk", "cam"}
  Kind <- MCKind
  Displays = {"d0", "d1"}
  Primary = "d0"
  Grants <- AllGranted
  Switches <- MCSwitches
  Messages <- MCMessages
  Callers = {"cam"}
  OldPeers = {}
  MaxChoices = 1
INVARIANTS
  Follows
  CameraHears
  Attended
  CallsSettled
  ToldOfEnd
PROPERTIES
  RefinesAccess
\* Every connection may end.
CHECK_DEADLOCK FALSE
