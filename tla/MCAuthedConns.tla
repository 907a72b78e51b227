---------------------------- MODULE MCAuthedConns ----------------------------
(* Small instances of AuthedConns for TLC: two remote sessions and a file  *)
(* transfer, of one peer and session.                                      *)
EXTENDS AuthedConns, TLC

CONSTANTS r1, r2, f1, k1

MCConns == {r1, r2, f1}
MCRemotes == {r1, r2}
Symmetry == Permutations(MCRemotes)
MCKey == [c \in MCConns |-> k1]
=============================================================================
