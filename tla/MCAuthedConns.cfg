\* Safety: two remote sessions and a file transfer of one peer and session.
SPECIFICATION Spec
CONSTANTS
  r1 = r1
  r2 = r2
  f1 = f1
  k1 = k1
  Conns <- MCConns
  Remotes <- MCRemotes
  Keys = {k1}
  Key <- MCKey
  MaxCounts = 2
INVARIANTS
  AuthedAlive
  WallpaperRestored
  ResolutionRestored
  WakeLockFollows
SYMMETRY Symmetry
