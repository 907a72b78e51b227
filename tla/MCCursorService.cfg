\* Two connections, two cursors.
SPECIFICATION FairSpec
CONSTANTS
  Conns = {c1, c2}
  Cursors = {arrow, beam}
  NoCursor = NoCursor
  Nobody = Nobody
  NeedSnapshot = TRUE
INVARIANTS
  Informed
PROPERTIES
  NothingAfterRemoval
  CallTakesEffect
  CatchesUp
  JoinReturns
