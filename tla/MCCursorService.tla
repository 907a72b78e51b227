--------------------------- MODULE MCCursorService ---------------------------
(* Small instances of CursorService for TLC: the cfg gives the constants.  *)
EXTENDS CursorService
=============================================================================
