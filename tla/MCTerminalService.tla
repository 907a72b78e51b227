-------------------------- MODULE MCTerminalService --------------------------
(* Small instances of TerminalService for TLC.                             *)
EXTENDS TerminalService, TLC
=============================================================================
