---------------------------- MODULE MCTerminalSync ----------------------------
(* Model-checking instance of TerminalSync. *)
EXTENDS TerminalSync
===============================================================================
