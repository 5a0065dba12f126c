--------------------------- MODULE MCBridgeSession ---------------------------
(* Model-checking instance of BridgeSession. *)
EXTENDS BridgeSession
===============================================================================
