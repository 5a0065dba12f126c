--------------------------- MODULE SnapshotContract ---------------------------
(***************************************************************************)
(* What the synchronisation of one table of tickets promises, whatever the  *)
(* statements it is made of: a snapshot that is applied replaces what the   *)
(* table shows by what it lists.  The one exception is the price of READ    *)
(* COMMITTED: what another snapshot put in the table after this one had     *)
(* compared itself with the table may stay beside it.                       *)
(***************************************************************************)
CONSTANTS
  Ticket,   \* the tickets of the table
  Call      \* synchronisation calls in flight at once

VARIABLES
  shown,    \* the tickets the table shows as live
  request   \* per call: how far it is, what it lists, what it could not see

vars == <<shown, request>>

Request == [phase : {"none", "sent", "comparing", "applied"}, lists : SUBSET Ticket, late : SUBSET Ticket]

NoRequest == [phase |-> "none", lists |-> {}, late |-> {}]

(* What the client was told of an applied snapshot. *)
Applied == [phase |-> "applied", lists |-> {}, late |-> {}]

TypeOK ==
  /\ shown \subseteq Ticket
  /\ request \in [Call -> Request]

Init ==
  /\ shown = {}
  /\ request = [c \in Call |-> NoRequest]

Send(c, tickets) ==
  /\ request[c].phase \in {"none", "applied"}
  /\ request' = [request EXCEPT ![c] = [phase |-> "sent", lists |-> tickets, late |-> {}]]
  /\ UNCHANGED shown

Compare(c) ==
  /\ request[c].phase = "sent"
  /\ request' = [request EXCEPT ![c].phase = "comparing"]
  /\ UNCHANGED shown

Apply(c) ==
  /\ request[c].phase = "comparing"
  /\ \E beside \in SUBSET request[c].late : shown' = request[c].lists \cup beside
  /\ request' = [d \in Call |->
       IF d = c THEN Applied
       ELSE IF request[d].phase = "comparing"
            THEN [request[d] EXCEPT !.late = @ \cup request[c].lists]
            ELSE request[d]]

(* A call that fails, or whose answer was taken. *)
Drop(c) ==
  /\ request[c].phase # "none"
  /\ request' = [request EXCEPT ![c] = NoRequest]
  /\ UNCHANGED shown

Next ==
  \E c \in Call :
    \/ \E tickets \in SUBSET Ticket : Send(c, tickets)
    \/ Compare(c)
    \/ Apply(c)
    \/ Drop(c)

Spec == Init /\ [][Next]_vars
===============================================================================
