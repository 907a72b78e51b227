\* A claim of a comment in restore_resolutions, on the safety instance.
SPECIFICATION Spec
CONSTANTS
  r1 = r1
  r2 = r2
  f1 = f1
  k1 = k1
  Conns <- MCConns
  Remotes <- MCRemotes
  Keys = {k1}
  Key <- MCKey
  MaxCounts = 2
PROPERTIES
  RestoredAlone
