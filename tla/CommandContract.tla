--------------------------- MODULE CommandContract ---------------------------
(***************************************************************************)
(* What the handlers of a command promise their callers, each as one       *)
(* indivisible step whose guard is the handler's own check: the statuses   *)
(* only move forward, except that a delivery nobody acknowledged is queued *)
(* again, at most MaxRetry times.  What follows from the contract alone    *)
(* is proved here; its implementations inherit it.                         *)
(***************************************************************************)
EXTENDS Naturals, TLAPS

CONSTANTS Cmd, MaxRetry

VARIABLES status, retryCount, due

vars == <<status, retryCount, due>>

Terminal  == {"COMPLETED", "FAILED", "REJECTED", "CANCELLED", "EXPIRED"}
Expirable == {"QUEUED", "DELIVERED", "ACKNOWLEDGED"}

(* Every row of cs goes from one of the statuses in "from" to "to". *)
Move(cs, from, to) ==
  /\ \A c \in cs : status[c] \in from
  /\ status' = [c \in Cmd |-> IF c \in cs THEN to ELSE status[c]]

Init ==
  /\ status = [c \in Cmd |-> "ABSENT"]
  /\ retryCount = [c \in Cmd |-> 0]
  /\ due = [c \in Cmd |-> FALSE]

Create(c) ==
  /\ \E outcome \in {"QUEUED", "REJECTED"} : Move({c}, {"ABSENT"}, outcome)
  /\ UNCHANGED <<retryCount, due>>

Deliver(cs) ==
  /\ \A c \in cs : ~due[c]
  /\ Move(cs, {"QUEUED"}, "DELIVERED")
  /\ UNCHANGED <<retryCount, due>>

Acknowledge(c) ==
  /\ Move({c}, {"DELIVERED"}, "ACKNOWLEDGED")
  /\ UNCHANGED <<retryCount, due>>

MarkExecuting(c) ==
  /\ Move({c}, {"DELIVERED", "ACKNOWLEDGED"}, "EXECUTING")
  /\ UNCHANGED <<retryCount, due>>

ReportResult(c) ==
  /\ \E outcome \in {"COMPLETED", "FAILED"} :
       Move({c}, Expirable \cup {"VALIDATING", "EXECUTING"}, outcome)
  /\ UNCHANGED <<retryCount, due>>

Requeue(cs) ==
  /\ \A c \in cs : retryCount[c] < MaxRetry
  /\ Move(cs, {"DELIVERED"}, "QUEUED")
  /\ retryCount' = [c \in Cmd |-> IF c \in cs THEN retryCount[c] + 1 ELSE retryCount[c]]
  /\ UNCHANGED due

Expire(cs) ==
  /\ \A c \in cs : due[c]
  /\ Move(cs, Expirable, "EXPIRED")
  /\ UNCHANGED <<retryCount, due>>

PassExpiry(c) ==
  /\ status[c] # "ABSENT"
  /\ due' = [due EXCEPT ![c] = TRUE]
  /\ UNCHANGED <<status, retryCount>>

Next ==
  \/ \E c \in Cmd : \/ Create(c)
                    \/ Acknowledge(c)
                    \/ MarkExecuting(c)
                    \/ ReportResult(c)
                    \/ PassExpiry(c)
  \/ \E cs \in SUBSET Cmd : Deliver(cs) \/ Requeue(cs) \/ Expire(cs)

Spec == Init /\ [][Next]_vars

-----------------------------------------------------------------------------
(* A command that came to its end stays there. *)
EndIsFinal == [][\A c \in Cmd : status[c] \in Terminal => status'[c] = status[c]]_vars

(* A row is requeued MaxRetry times at most. *)
RetriesWithinLimit == \A c \in Cmd : retryCount[c] <= MaxRetry

LEMMA MoveKeepsEnds ==
  ASSUME NEW cs, NEW from, NEW to, Move(cs, from, to), from \cap Terminal = {},
         NEW c \in Cmd, status[c] \in Terminal
  PROVE  status'[c] = status[c]
BY DEF Move

(* Whoever implements the contract never moves a finished command.         *)
THEOREM EndsAreFinal == Spec => EndIsFinal
<1>1. [Next]_vars => [\A c \in Cmd : status[c] \in Terminal => status'[c] = status[c]]_vars
  <2> SUFFICES ASSUME Next, NEW c \in Cmd, status[c] \in Terminal
               PROVE  status'[c] = status[c]
    OBVIOUS
  <2>1. ASSUME NEW d \in Cmd,
               Create(d) \/ Acknowledge(d) \/ MarkExecuting(d) \/ ReportResult(d)
        PROVE  status'[c] = status[c]
    <3>1. PICK from, to : Move({d}, from, to) /\ from \cap Terminal = {}
      BY <2>1 DEF Create, Acknowledge, MarkExecuting, ReportResult, Expirable, Terminal
    <3> QED BY <3>1, MoveKeepsEnds
  <2>2. ASSUME NEW cs \in SUBSET Cmd, Deliver(cs) \/ Requeue(cs) \/ Expire(cs)
        PROVE  status'[c] = status[c]
    <3>1. PICK from, to : Move(cs, from, to) /\ from \cap Terminal = {}
      BY <2>2 DEF Deliver, Requeue, Expire, Expirable, Terminal
    <3> QED BY <3>1, MoveKeepsEnds
  <2>3. ASSUME NEW d \in Cmd, PassExpiry(d) PROVE status'[c] = status[c]
    BY <2>3 DEF PassExpiry
  <2> QED BY <2>1, <2>2, <2>3 DEF Next
<1> QED BY <1>1, PTL DEF Spec, EndIsFinal

(* Whoever implements the contract requeues a command MaxRetry times at    *)
(* most.                                                                   *)
THEOREM RetriesStayWithinLimit == MaxRetry \in Nat /\ Spec => []RetriesWithinLimit
<1> DEFINE Counted == MaxRetry \in Nat /\ retryCount \in [Cmd -> 0..MaxRetry]
<1>1. MaxRetry \in Nat /\ Init => Counted
  BY DEF Init
<1>2. Counted /\ [Next]_vars => Counted'
  <2> SUFFICES ASSUME Counted, [Next]_vars PROVE Counted'
    OBVIOUS
  <2>1. ASSUME NEW cs \in SUBSET Cmd, Requeue(cs) PROVE Counted'
    BY <2>1 DEF Requeue
  <2>2. CASE UNCHANGED retryCount
    BY <2>2
  <2> QED BY <2>1, <2>2
          DEF Next, vars, Create, Deliver, Acknowledge, MarkExecuting, ReportResult, Expire,
              PassExpiry
<1>3. Counted => RetriesWithinLimit
  BY DEF RetriesWithinLimit
<1> QED BY <1>1, <1>2, <1>3, PTL DEF Spec

=============================================================================
