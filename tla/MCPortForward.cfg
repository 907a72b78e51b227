\* Two pieces each way; two TestDelays, two typed passwords, one notice.
SPECIFICATION FairSpec
CONSTANTS
  MaxPieces = 2
  MaxTests = 2
  MaxTyped = 2
  MaxNotices = 1
INVARIANTS
  Tunnelled
  Understood
PROPERTY Carried
\* Both ends may close.
CHECK_DEADLOCK FALSE
