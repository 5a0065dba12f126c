------------------------- MODULE MCCommandLifecycle -------------------------
(***************************************************************************)
(* CommandLifecycle for TLC.  The .cfg files give the sets of rows, keys   *)
(* and concurrent calls; members of one set are interchangeable.           *)
(***************************************************************************)
EXTENDS CommandLifecycle, TLC

Interchangeable ==
  Permutations(Cmd) \cup Permutations(Key) \cup Permutations(Creator)
    \cup Permutations(Poster) \cup Permutations(Run)

=============================================================================
