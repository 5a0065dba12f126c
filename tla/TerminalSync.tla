----------------------------- MODULE TerminalSync -----------------------------
(***************************************************************************)
(* The synchronisation of positions, pending orders and closed trades: what *)
(* the broker holds, the snapshots the terminal sends of it, and the tables *)
(* OpenPosition, PendingOrder and ClosedTrade of one robot.                 *)
(*                                                                         *)
(* A snapshot call is one transaction at READ COMMITTED, modelled statement *)
(* by statement: an upsert per item, which takes the lock of its row, then  *)
(* the update that marks the other rows STALE.  That update fixes the rows  *)
(* it looks at when it starts, waits for the locks of other transactions on *)
(* them and, after the wait, looks at their status again; rows another      *)
(* transaction inserted meanwhile are not among them.  A snapshot carries   *)
(* no number: the last transaction to commit wins.                          *)
(*                                                                         *)
(* PENDING, the live status of an order row, is written "OPEN" here.  Each  *)
(* ticket lives once, the terminal lists tickets in increasing order, and   *)
(* the deal that closed a position has the number of the position.          *)
(***************************************************************************)
EXTENDS Naturals, FiniteSets

CONSTANTS
  Position,   \* tickets of positions, which are the names of deals too
  Order,      \* tickets of pending orders
  Call        \* synchronisation calls that can be in flight at once

ASSUME ConstantsAssumption ==
  /\ Position \subseteq Nat
  /\ Order \subseteq Nat
  /\ Position \cap Order = {}

VARIABLES
  \* The broker.
  live,       \* tickets that exist now
  gone,       \* tickets that existed
  \* The tables.
  row,        \* status of the row of each ticket
  trades,     \* deals with a ClosedTrade row
  \* The transactions in flight.
  call,
  \* History.
  overtaken   \* a snapshot was committed after a newer one of its table

broker  == <<live, gone>>
tables  == <<row, trades>>
vars    == <<broker, tables, call, overtaken>>

-----------------------------------------------------------------------------
Ticket == Position \cup Order
Table  == {"position", "order"}

(* A closed trade is filed under its deal. *)
Deal == Position

(* The tickets of one table. *)
Tickets(k) == IF k = "order" THEN Order ELSE Position

RowStatus == {"ABSENT", "OPEN", "STALE"}

Idle == [pc |-> "idle", kind |-> "position", items |-> {}, written |-> {}, seen |-> {},
         late |-> {}, older |-> {}, outdated |-> FALSE]

(* The snapshot was applied and the client told so. *)
Done(k) == [Idle EXCEPT !.pc = "done", !.kind = k]

CallState == [pc : {"idle", "upserting", "sweeping", "done"}, kind : Table, items : SUBSET Ticket,
              written : SUBSET Ticket, seen : SUBSET Ticket, late : SUBSET Ticket,
              older : SUBSET Call, outdated : BOOLEAN]

OpenRows(k) == {t \in Tickets(k) : row[t] = "OPEN"}

Flying(c) == call[c].pc \in {"upserting", "sweeping"}

InFlight(k) == {c \in Call : Flying(c) /\ call[c].kind = k}

Init ==
  /\ live = {}
  /\ gone = {}
  /\ row = [t \in Ticket |-> "ABSENT"]
  /\ trades = {}
  /\ call = [c \in Call |-> Idle]
  /\ overtaken = FALSE

-----------------------------------------------------------------------------
(* The broker: orders are placed, cancelled or filled; positions are opened *)
(* and closed.                                                              *)

Fresh(t) == t \notin live \cup gone

BrokerMoves(appear, vanish) ==
  /\ live' = (live \ vanish) \cup appear
  /\ gone' = gone \cup vanish
  /\ UNCHANGED <<tables, call, overtaken>>

Broker ==
  \/ \E t \in Ticket : Fresh(t) /\ BrokerMoves({t}, {})
  \/ \E t \in live : BrokerMoves({}, {t})
  \/ \E o \in Order \cap live, p \in Position : Fresh(p) /\ BrokerMoves({p}, {o})

-----------------------------------------------------------------------------
(* The calls. *)

(* What the terminal sends: everything it holds, an empty list too. *)
Snapshot(k) == Tickets(k) \cap live

(* The array is parsed, the robot found, and the transaction begun.  The    *)
(* terminal reads the broker as it sends.                                    *)
Receive(c, k) ==
  /\ ~Flying(c)
  /\ call' = [call EXCEPT ![c] = [Idle EXCEPT !.pc = "upserting", !.kind = k,
                                              !.items = Snapshot(k), !.older = InFlight(k)]]
  /\ UNCHANGED <<broker, tables, overtaken>>

(* The items are written in the order of the array. *)
NextItem(c, t) ==
  /\ t \in call[c].items \ call[c].written
  /\ \A u \in call[c].items \ call[c].written : t <= u

(* The lock of a row is held by the transaction that wrote it. *)
Locked(c, k, t) == \E d \in Call \ {c} : call[d].kind = k /\ t \in call[d].written

Upsert(c, t) ==
  /\ call[c].pc = "upserting"
  /\ NextItem(c, t)
  /\ ~Locked(c, call[c].kind, t)
  /\ call' = [call EXCEPT ![c].written = @ \cup {t}]
  /\ UNCHANGED <<broker, tables, overtaken>>

UnlistedOfAll(k, items) == {t \in Ticket : row[t] = "OPEN"} \ items
UnlistedSkipsEmpty(k, items) == IF items = {} THEN {} ELSE OpenRows(k) \ items
UnlistedSkipsOrders(k, items) == IF k = "order" THEN {} ELSE OpenRows(k) \ items

(* status: live, brokerPositionId: notIn ids; without ids every live row.   *)
(* The transaction sees what it wrote itself.                               *)
Unlisted(k, items) == (OpenRows(k) \cup items) \ items

Sweep(c) ==
  /\ call[c].pc = "upserting"
  /\ call[c].written = call[c].items
  /\ call' = [call EXCEPT ![c].pc = "sweeping",
                          ![c].seen = Unlisted(call[c].kind, call[c].items)]
  /\ UNCHANGED <<broker, tables, overtaken>>

(* Call c ends and is answered; the others learn what it committed. *)
Ends(c, committed) ==
  call' = [d \in Call |->
    IF d = c THEN IF committed THEN Done(call[c].kind) ELSE Idle
    ELSE [call[d] EXCEPT
            !.late = IF committed /\ call[d].pc = "sweeping" /\ call[d].kind = call[c].kind
                     THEN @ \cup call[c].items ELSE @,
            !.older = @ \ {c},
            !.outdated = @ \/ (committed /\ d \in call[c].older)]]

Swept(c) ==
  [t \in Ticket |-> IF t \in call[c].seen THEN "STALE"
                    ELSE IF t \in call[c].items THEN "OPEN"
                    ELSE row[t]]

Commit(c) ==
  /\ call[c].pc = "sweeping"
  /\ \A t \in call[c].seen : ~Locked(c, call[c].kind, t)
  /\ row' = Swept(c)
  /\ Ends(c, TRUE)
  /\ overtaken' = (overtaken \/ call[c].outdated)
  /\ UNCHANGED <<broker, trades>>

(* The deals that closed a position, which the terminal lists. *)
Deals == Deal \cap gone

(* syncTrades has no sweep: a deal stays.  Nothing of the transaction shows *)
(* before it commits and a second one finds the deals as they are, so it is *)
(* one step.  The deals the terminal saw accepted are left out of a list:   *)
(* they are stored, so listing them again makes no difference here.         *)
StoreTradesOfAll(deals) == trades' = trades \cup gone
StoreTrades(deals) == trades' = trades \cup deals

SyncTrades ==
  /\ Deals # {}
  /\ StoreTrades(Deals)
  /\ UNCHANGED <<broker, row, call, overtaken>>

(* A deadlock, the transaction's time limit, a lost connection: all of it   *)
(* is undone.                                                               *)
Abort(c) ==
  /\ Flying(c)
  /\ Ends(c, FALSE)
  /\ UNCHANGED <<broker, tables, overtaken>>

-----------------------------------------------------------------------------
(* A transaction that waits too long for a lock is undone. *)
Waits(c) ==
  \/ /\ call[c].pc = "upserting"
     /\ \E t \in Ticket : NextItem(c, t) /\ Locked(c, call[c].kind, t)
  \/ /\ call[c].pc = "sweeping"
     /\ \E t \in call[c].seen : Locked(c, call[c].kind, t)

GivesUp(c) == Waits(c) /\ Abort(c)

(* A transaction goes on. *)
Progress(c) ==
  \/ \E t \in Ticket : Upsert(c, t)
  \/ Sweep(c)
  \/ Commit(c)

Next ==
  \/ Broker
  \/ SyncTrades
  \/ \E c \in Call, k \in Table : Receive(c, k)
  \/ \E c \in Call : Progress(c) \/ Abort(c)

(* The terminal's timer sends each list again and again, and a transaction  *)
(* goes on or gives up waiting.  Strong fairness, for it may wait for locks: *)
(* PostgreSQL serves the waiters of a row in turn.  The broker owes nothing. *)
Fairness ==
  /\ WF_vars(SyncTrades)
  /\ \A c \in Call : SF_vars(Progress(c)) /\ WF_vars(GivesUp(c))
  /\ \A k \in Table : SF_vars(\E c \in Call : Receive(c, k))

Spec == Init /\ [][Next]_vars

FairSpec == Spec /\ Fairness

-----------------------------------------------------------------------------
(* Every variable keeps its type. *)
TypeOK ==
  /\ live \subseteq Ticket
  /\ gone \subseteq Ticket
  /\ row \in [Ticket -> RowStatus]
  /\ trades \subseteq Deal
  /\ call \in [Call -> CallState]
  /\ overtaken \in BOOLEAN

(* As long as snapshots commit in the order in which they were taken, a row *)
(* of a ticket that is gone does not come back once it is STALE, and the    *)
(* row of a ticket that lives is not marked STALE: only an overtaken        *)
(* snapshot (no sequence number, position.repository.ts:18,                 *)
(* order.repository.ts:18) tells the dashboard something false.             *)
OrderedSnapshotsNeverLie ==
  [][~overtaken' =>
       \A t \in Ticket :
         /\ (t \in gone /\ row[t] = "STALE") => row'[t] = "STALE"
         /\ (t \in live /\ row[t] = "OPEN") => row'[t] = "OPEN"]_vars

(* Once the broker is at rest and transactions are no longer undone without *)
(* a reason of their own, the tables come to show exactly what it holds and *)
(* keep doing so, whatever overlapped, was overtaken or undone before; and  *)
(* every deal comes to be stored.                                           *)
TablesCatchUp ==
  (<>[][\A c \in Call : Abort(c) => Waits(c)]_vars) =>
    <>[](/\ \A k \in Table : OpenRows(k) = Tickets(k) \cap live
         /\ trades = Deals)

(* Table k shows what the broker holds, and no call that is still to commit *)
(* says otherwise.                                                          *)
Exact(k) ==
  /\ OpenRows(k) = Tickets(k) \cap live
  /\ \A c \in InFlight(k) : call[c].items = Tickets(k) \cap live

(* What the tables catch up to lasts: while the broker rests, no statement, *)
(* no commit of either table and no undone transaction takes an exact table *)
(* away from the broker again (position.repository.ts:7-20,                 *)
(* order.repository.ts:7-20).                                               *)
ExactTablesStay ==
  [][UNCHANGED broker => \A k \in Table : Exact(k) => Exact(k)']_vars

-----------------------------------------------------------------------------
(* Each of the two tables implements the contract of a snapshot table. *)

(* What table k sees of a call. *)
Seen(k, r) ==
  IF r.kind # k \/ r.pc = "idle"
  THEN [phase |-> "none", lists |-> {}, late |-> {}]
  ELSE [phase |-> IF r.pc = "upserting" THEN "sent"
                  ELSE IF r.pc = "sweeping" THEN "comparing" ELSE "applied",
        lists |-> r.items, late |-> r.late]

Positions == INSTANCE SnapshotContract WITH
               Ticket <- Position, shown <- OpenRows("position"),
               request <- [c \in Call |-> Seen("position", call[c])]

Orders == INSTANCE SnapshotContract WITH
            Ticket <- Order, shown <- OpenRows("order"),
            request <- [c \in Call |-> Seen("order", call[c])]

(* The position table implements the snapshot contract: the statements of a *)
(* transaction are invisible until it commits (position.repository.ts:7-20).*)
PositionsKeepContract == Positions!Spec

(* So does the table of pending orders (order.repository.ts:7-20). *)
OrdersKeepContract == Orders!Spec
===============================================================================
