\* The claim of the comment on the TestDelay, on a smaller instance.
SPECIFICATION Spec
CONSTANTS
  MaxPieces = 1
  MaxTests = 1
  MaxTyped = 1
  MaxNotices = 0
INVARIANT NoReplyInData
\* Both ends may close.
CHECK_DEADLOCK FALSE
