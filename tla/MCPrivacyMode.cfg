\* Two connections and two calls, on both kinds of Windows.
SPECIFICATION Spec
CONSTANTS
  Conns = {c1, c2}
  Threads = {t1, t2}
  NoConn = NoConn
  NoThread = NoThread
  Free = Free
  Platforms = {"x64", "x86"}
  MaxCalls = 3
  MaxCrashes = 1
SYMMETRY Symmetric
INVARIANTS
  Accounted
PROPERTIES
  HandedOver
\* Every connection may be gone.
CHECK_DEADLOCK FALSE
