-------------------------- MODULE MCEmergencyStop --------------------------
(***************************************************************************)
(* EmergencyStop for TLC.  Rows are numbers, so only the calls in flight    *)
(* are interchangeable.                                                     *)
(***************************************************************************)
EXTENDS EmergencyStop, TLC

Interchangeable == Permutations(Operator) \cup Permutations(Beat)

=============================================================================
