\* Two connections, two changes of the displays, one privacy mode.
SPECIFICATION FairSpec
CONSTANTS
  Conns = {c1, c2}
  NeedSnapshot = TRUE
  Lists = {"one", "two"}
  NoDisplays = "none"
  MaxChanges = 2
  MaxIgnores = 1
INVARIANTS
  InSync
PROPERTY AllLearn
\* Without subscribers, connections to come and changes, nothing happens.
CHECK_DEADLOCK FALSE
