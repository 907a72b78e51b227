-------------------------- MODULE MCDisplayService --------------------------
(* Small instances of DisplayService for TLC: the cfg gives the constants. *)
EXTENDS DisplayService
=============================================================================
