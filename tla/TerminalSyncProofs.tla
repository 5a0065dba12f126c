-------------------------- MODULE TerminalSyncProofs --------------------------
(***************************************************************************)
(* Proofs about TerminalSync: type correctness, that each table implements  *)
(* the snapshot contract, that snapshots committed in the order in which    *)
(* they were taken never show what was false when they were taken, and that *)
(* a table that shows what the broker holds goes on to while it rests.      *)
(***************************************************************************)
EXTENDS TerminalSync, TLAPS

(* What a call lists belongs to its table; while it sweeps, whatever is     *)
(* live in the table is listed, seen, or was committed late.                *)
Covers(r, rows) ==
  /\ r.items \subseteq Tickets(r.kind)
  /\ r.seen \subseteq Tickets(r.kind) \ r.items
  /\ r.late \subseteq Tickets(r.kind)
  /\ r.pc = "sweeping" =>
       \A t \in Tickets(r.kind) : rows[t] = "OPEN" => t \in r.seen \cup r.items \cup r.late
  /\ r.pc = "upserting" => r.late = {} /\ r.seen = {}

SweepCovers == \A c \in Call : Covers(call[c], row)

CoverInv == TypeOK /\ SweepCovers

(* Tickets live once, and whatever the back end knows of was live once. *)
Existed ==
  /\ live \cap gone = {}
  /\ \A t \in Ticket : row[t] # "ABSENT" => t \in live \cup gone
  /\ \A c \in Call : call[c].items \subseteq live \cup gone
  /\ \A c \in Call : \A t \in call[c].seen : row[t] # "ABSENT"

(* Of two calls of a table in flight, one was received before the other. *)
Received ==
  /\ \A c, d \in Call : d \in call[c].older => /\ Flying(c) /\ Flying(d) /\ c # d
                                               /\ call[c].kind = call[d].kind
  /\ \A c, d \in Call : Flying(c) /\ Flying(d) /\ c # d /\ call[c].kind = call[d].kind
                          => d \in call[c].older \/ c \in call[d].older

(* What an older call lists and a newer one does not is gone, and is in no  *)
(* list received after that.                                                *)
Vanished ==
  /\ \A c, d \in Call : d \in call[c].older => call[d].items \ call[c].items \subseteq gone
  /\ \A c, d, e \in Call : d \in call[c].older /\ e \in call[d].older
                             => call[e].items \cap call[c].items \subseteq call[d].items

(* As long as nothing was overtaken: no live ticket is STALE; a call no     *)
(* newer one has committed before lists nothing STALE, and what is live or  *)
(* listed by a newer call, but not by it, has no row yet.                    *)
InOrder ==
  ~overtaken =>
    /\ \A t \in live : row[t] # "STALE"
    /\ \A c \in Call : Flying(c) /\ ~call[c].outdated =>
         /\ \A t \in live \cap Tickets(call[c].kind) : t \notin call[c].items => row[t] = "ABSENT"
         /\ \A t \in call[c].items : row[t] # "STALE"
    /\ \A c, d \in Call : d \in call[c].older /\ ~call[d].outdated =>
         \A t \in call[c].items : t \notin call[d].items => row[t] = "ABSENT"

OrderInv == CoverInv /\ Existed /\ Received /\ Vanished /\ InOrder

-----------------------------------------------------------------------------
(* Type correctness. *)

LEMMA TableTickets == \A k \in Table : Tickets(k) \subseteq Ticket
  BY DEF Tickets, Ticket

LEMMA IdleType == Idle \in CallState /\ \A k \in Table : Done(k) \in CallState
  BY DEF Idle, Done, CallState, Table

(* The state after the end of a call is one of calls again. *)
LEMMA EndsType ==
  ASSUME TypeOK, NEW c \in Call, NEW committed \in BOOLEAN, Ends(c, committed)
  PROVE  call' \in [Call -> CallState]
<1> SUFFICES ASSUME NEW d \in Call, d # c
             PROVE  [call[d] EXCEPT
                       !.late = IF committed /\ call[d].pc = "sweeping" /\ call[d].kind = call[c].kind
                                THEN @ \cup call[c].items ELSE @,
                       !.older = @ \ {c},
                       !.outdated = @ \/ (committed /\ d \in call[c].older)] \in CallState
  <2>1. call[c].kind \in Table
    BY DEF TypeOK, CallState
  <2> QED BY <2>1, IdleType DEF Ends
<1>1. call[d] \in CallState /\ call[c] \in CallState
  BY DEF TypeOK
<1>2. (call[d].outdated \/ (committed /\ d \in call[c].older)) \in BOOLEAN
  OBVIOUS
<1> QED
  BY <1>1, <1>2 DEF CallState


LEMMA TypeInit == Init => TypeOK
<1> SUFFICES ASSUME Init PROVE TypeOK
  OBVIOUS
<1>1. call \in [Call -> CallState]
  BY IdleType DEF Init
<1>2. row \in [Ticket -> RowStatus]
  BY DEF Init, RowStatus
<1> QED BY <1>1, <1>2 DEF Init, TypeOK

LEMMA TypeStep == TypeOK /\ [Next]_vars => TypeOK'
<1> SUFFICES ASSUME TypeOK, [Next]_vars PROVE TypeOK'
  OBVIOUS
<1>1. CASE Broker
  BY <1>1 DEF Broker, BrokerMoves, TypeOK, Ticket, tables
<1>2. CASE SyncTrades
  BY <1>2 DEF SyncTrades, StoreTrades, Deals, Deal, TypeOK, broker
<1>3. ASSUME NEW c \in Call, NEW k \in Table, Receive(c, k) PROVE TypeOK'
  <2>1. [Idle EXCEPT !.pc = "upserting", !.kind = k, !.items = Snapshot(k),
                     !.older = InFlight(k)] \in CallState
    BY TableTickets DEF Idle, CallState, Snapshot, InFlight, Tickets, Ticket
  <2> QED BY <1>3, <2>1 DEF Receive, TypeOK, broker, tables
<1>4. ASSUME NEW c \in Call, NEW t \in Ticket, Upsert(c, t) PROVE TypeOK'
  <2>1. [call[c] EXCEPT !.written = @ \cup {t}] \in CallState
    BY DEF TypeOK, CallState
  <2> QED BY <1>4, <2>1 DEF Upsert, TypeOK, broker, tables
<1>5. ASSUME NEW c \in Call, Sweep(c) PROVE TypeOK'
  <2>1. call[c] \in CallState
    BY DEF TypeOK
  <2>2. Unlisted(call[c].kind, call[c].items) \subseteq Ticket
    BY <2>1, TableTickets DEF Unlisted, OpenRows, CallState
  <2>3. [call[c] EXCEPT !.pc = "sweeping", !.seen = Unlisted(call[c].kind, call[c].items)]
          \in CallState
    BY <2>1, <2>2 DEF CallState
  <2>4. call' = [call EXCEPT ![c] = [call[c] EXCEPT !.pc = "sweeping",
                                       !.seen = Unlisted(call[c].kind, call[c].items)]]
    BY <1>5 DEF Sweep
  <2> QED BY <1>5, <2>3, <2>4 DEF Sweep, TypeOK, broker, tables
<1>6. ASSUME NEW c \in Call, Commit(c) PROVE TypeOK'
  <2>1. call' \in [Call -> CallState]
    BY <1>6, EndsType DEF Commit
  <2>2. row' \in [Ticket -> RowStatus]
    BY <1>6 DEF Commit, Swept, TypeOK, RowStatus
  <2>3. overtaken' \in BOOLEAN
    BY <1>6 DEF Commit, TypeOK, CallState
  <2> QED BY <1>6, <2>1, <2>2, <2>3 DEF Commit, TypeOK, broker
<1>7. ASSUME NEW c \in Call, Abort(c) PROVE TypeOK'
  <2>1. call' \in [Call -> CallState]
    BY <1>7, EndsType DEF Abort
  <2> QED BY <1>7, <2>1 DEF Abort, TypeOK, broker, tables
<1>8. CASE UNCHANGED vars
  BY <1>8 DEF vars, broker, tables, TypeOK
<1> QED BY <1>1, <1>2, <1>3, <1>4, <1>5, <1>6, <1>7, <1>8 DEF Next, Progress

(* Every reachable state is well typed, for any tickets and any calls. *)
THEOREM TypeCorrect == Spec => []TypeOK
  BY TypeInit, TypeStep, PTL DEF Spec

-----------------------------------------------------------------------------
(* The sweep overlooks only what is committed while it waits. *)

LEMMA IdleCovers == \A rows : Covers(Idle, rows) /\ \A k \in Table : Covers(Done(k), rows)
  BY DEF Covers, Idle, Done, Tickets, Table

LEMMA CoverInit == Init => CoverInv
  BY TypeInit, IdleCovers DEF Init, CoverInv, SweepCovers

(* A call that ends: what it committed is late for the calls that sweep. *)
LEMMA EndsCovers ==
  ASSUME CoverInv, NEW c \in Call, NEW committed \in BOOLEAN, Ends(c, committed),
         IF committed THEN call[c].pc = "sweeping" /\ row' = Swept(c) ELSE row' = row
  PROVE  SweepCovers'
<1> SUFFICES ASSUME NEW d \in Call, d # c PROVE Covers(call'[d], row')
  <2>1. call[c].kind \in Table
    BY DEF CoverInv, TypeOK, CallState
  <2> QED BY <2>1, IdleCovers DEF Ends, SweepCovers
<1> DEFINE r == call[d]  s == call'[d]  o == call[c]
<1>1. r \in CallState /\ o \in CallState /\ Covers(r, row) /\ Covers(o, row)
  BY DEF CoverInv, TypeOK, SweepCovers
<1>2. s = [r EXCEPT !.late = IF committed /\ r.pc = "sweeping" /\ r.kind = o.kind
                             THEN @ \cup o.items ELSE @,
                    !.older = @ \ {c},
                    !.outdated = @ \/ (committed /\ d \in o.older)]
  BY DEF Ends
<1> HIDE DEF s, r, o
<1>3. /\ s.items = r.items /\ s.seen = r.seen /\ s.pc = r.pc /\ s.kind = r.kind
      /\ s.late = IF committed /\ r.pc = "sweeping" /\ r.kind = o.kind
                  THEN r.late \cup o.items ELSE r.late
  BY <1>1, <1>2 DEF CallState
<1>4. \A t \in Ticket : row'[t] = "OPEN" => row[t] = "OPEN" \/ (committed /\ t \in o.items)
  BY DEF Swept, o, CoverInv
<1>5. \A t \in Tickets(r.kind) : t \in o.items => r.kind = o.kind
  BY <1>1, ConstantsAssumption DEF Covers, Tickets, Table, CallState
<1>6. Tickets(r.kind) \subseteq Ticket
  BY <1>1, TableTickets DEF CallState
<1> QED
  BY <1>1, <1>3, <1>4, <1>5, <1>6 DEF Covers, s

LEMMA CoverStep == CoverInv /\ [Next]_vars => CoverInv'
<1> SUFFICES ASSUME CoverInv, [Next]_vars PROVE SweepCovers'
  BY TypeStep DEF CoverInv
<1>0. \A c \in Call : call[c] \in CallState /\ Covers(call[c], row)
  BY DEF CoverInv, TypeOK, SweepCovers
<1>1. CASE UNCHANGED <<row, call>>
  BY <1>0, <1>1 DEF SweepCovers
<1>2. ASSUME NEW c \in Call, NEW k \in Table, Receive(c, k) PROVE SweepCovers'
  <2> DEFINE r == [Idle EXCEPT !.pc = "upserting", !.kind = k,
                               !.items = Snapshot(k), !.older = InFlight(k)]
  <2>1. Covers(r, row)
    BY DEF Covers, Idle, Snapshot
  <2>2. \A d \in Call : call'[d] = IF d = c THEN r ELSE call[d]
    BY <1>2 DEF Receive, CoverInv, TypeOK
  <2>3. row' = row
    BY <1>2 DEF Receive, tables
  <2> QED BY <1>0, <2>1, <2>2, <2>3 DEF SweepCovers
<1>3. ASSUME NEW c \in Call, NEW t \in Ticket, Upsert(c, t) PROVE SweepCovers'
  <2>1. Covers([call[c] EXCEPT !.written = @ \cup {t}], row)
    BY <1>0 DEF Covers, CallState
  <2>2. \A d \in Call : call'[d] = IF d = c THEN [call[c] EXCEPT !.written = @ \cup {t}]
                                            ELSE call[d]
    BY <1>3 DEF Upsert, CoverInv, TypeOK
  <2>3. row' = row
    BY <1>3 DEF Upsert, tables
  <2> QED BY <1>0, <2>1, <2>2, <2>3 DEF SweepCovers
<1>4. ASSUME NEW c \in Call, Sweep(c) PROVE SweepCovers'
  <2> DEFINE r == call[c]
             s == [r EXCEPT !.pc = "sweeping", !.seen = Unlisted(r.kind, r.items)]
  <2>1. r \in CallState /\ Covers(r, row)
    BY <1>0
  <2>2. Unlisted(r.kind, r.items) = OpenRows(r.kind) \ r.items
    BY DEF Unlisted
  <2> HIDE DEF r
  <2>3. s.pc = "sweeping" /\ s.kind = r.kind /\ s.items = r.items /\ s.late = r.late
        /\ s.seen = OpenRows(r.kind) \ r.items
    BY <2>1, <2>2 DEF CallState
  <2> HIDE DEF s
  <2>4. Covers(s, row)
    BY <2>1, <2>3 DEF Covers, OpenRows
  <2>5. \A d \in Call : call'[d] = IF d = c THEN s ELSE call[d]
    BY <1>4 DEF Sweep, CoverInv, TypeOK, s, r
  <2>6. row' = row
    BY <1>4 DEF Sweep, tables
  <2> QED BY <1>0, <2>4, <2>5, <2>6 DEF SweepCovers
<1>5. ASSUME NEW c \in Call, Commit(c) PROVE SweepCovers'
  BY <1>5, EndsCovers DEF Commit
<1>6. ASSUME NEW c \in Call, Abort(c) PROVE SweepCovers'
  BY <1>6, EndsCovers DEF Abort, tables
<1> QED BY <1>1, <1>2, <1>3, <1>4, <1>5, <1>6
        DEF Next, Progress, Broker, BrokerMoves, SyncTrades, vars, tables

(* The strengthened invariant of the refinement. *)
LEMMA CoverAlways == Spec => []CoverInv
  BY CoverInit, CoverStep, PTL DEF Spec
-----------------------------------------------------------------------------
(* Each table implements the snapshot contract. *)

(* The contract of either table. *)
Contract(k) == INSTANCE SnapshotContract WITH
                 Ticket <- Tickets(k), shown <- OpenRows(k),
                 request <- [c \in Call |-> Seen(k, call[c])]

LEMMA RefinesInit == \A k \in Table : Init => Contract(k)!Init
<1> SUFFICES ASSUME NEW k \in Table, Init PROVE Contract(k)!Init
  OBVIOUS
<1>1. OpenRows(k) = {}
  BY TableTickets DEF Init, OpenRows
<1>2. \A c \in Call : Seen(k, call[c]) = [phase |-> "none", lists |-> {}, late |-> {}]
  BY DEF Init, Seen, Idle
<1> QED BY <1>1, <1>2 DEF Contract!Init, Contract!NoRequest

(* What a table sees of the other calls when one ends. *)
LEMMA EndsSeen ==
  ASSUME CoverInv, NEW k \in Table, NEW c \in Call, NEW committed \in BOOLEAN,
         Ends(c, committed), NEW d \in Call, d # c
  PROVE  Seen(k, call'[d]) =
           IF committed /\ call[c].kind = k /\ Seen(k, call[d]).phase = "comparing"
           THEN [Seen(k, call[d]) EXCEPT !.late = @ \cup call[c].items]
           ELSE Seen(k, call[d])
<1> DEFINE r == call[d]  s == call'[d]  o == call[c]
<1>1. r \in CallState
  BY DEF CoverInv, TypeOK
<1>2. s = [r EXCEPT !.late = IF committed /\ r.pc = "sweeping" /\ r.kind = o.kind
                             THEN @ \cup o.items ELSE @,
                    !.older = @ \ {c},
                    !.outdated = @ \/ (committed /\ d \in o.older)]
  BY DEF Ends
<1> HIDE DEF s, r, o
<1>3. /\ s.items = r.items /\ s.pc = r.pc /\ s.kind = r.kind
      /\ s.late = IF committed /\ r.pc = "sweeping" /\ r.kind = o.kind
                  THEN r.late \cup o.items ELSE r.late
  BY <1>1, <1>2 DEF CallState
<1>4. CASE r.kind # k \/ r.pc = "idle"
  BY <1>3, <1>4 DEF Seen, r, s, o
<1>5. CASE r.kind = k /\ r.pc # "idle"
  <2> DEFINE phase == IF r.pc = "upserting" THEN "sent"
                      ELSE IF r.pc = "sweeping" THEN "comparing" ELSE "applied"
  <2>1. Seen(k, r) = [phase |-> phase, lists |-> r.items, late |-> r.late]
    BY <1>5 DEF Seen
  <2>2. Seen(k, s) = [phase |-> phase, lists |-> r.items, late |-> s.late]
    BY <1>3, <1>5 DEF Seen
  <2>3. Seen(k, r).phase = "comparing" <=> r.pc = "sweeping"
    BY <2>1
  <2>4. CASE committed /\ o.kind = k /\ r.pc = "sweeping"
    BY <1>3, <1>5, <2>1, <2>2, <2>3, <2>4 DEF r, s, o
  <2>5. CASE ~(committed /\ o.kind = k /\ r.pc = "sweeping")
    <3>1. s.late = r.late
      BY <1>3, <1>5, <2>5
    <3> QED BY <2>1, <2>2, <2>3, <2>5, <3>1 DEF r, s, o
  <2> QED BY <2>4, <2>5
<1> QED BY <1>4, <1>5

LEMMA RefinesStep ==
  ASSUME CoverInv, NEW k \in Table, [Next]_vars
  PROVE  [Contract(k)!Next]_(Contract(k)!vars)
<1> DEFINE request == [c \in Call |-> Seen(k, call[c])]
<1>0. \A c \in Call : call[c] \in CallState /\ Covers(call[c], row)
  BY DEF CoverInv, TypeOK, SweepCovers
<1>1. CASE UNCHANGED <<row, call>>
  BY <1>1 DEF Contract!vars, OpenRows
<1>2. ASSUME NEW c \in Call, NEW j \in Table, Receive(c, j)
      PROVE  [Contract(k)!Next]_(Contract(k)!vars)
  <2> DEFINE r == [Idle EXCEPT !.pc = "upserting", !.kind = j,
                               !.items = Snapshot(j), !.older = InFlight(j)]
  <2>1. \A d \in Call : call'[d] = IF d = c THEN r ELSE call[d]
    BY <1>2 DEF Receive, CoverInv, TypeOK
  <2>2. OpenRows(k)' = OpenRows(k)
    BY <1>2 DEF Receive, tables, OpenRows
  <2>3. Seen(k, call[c]).phase \in {"none", "applied"}
    BY <1>0, <1>2 DEF Receive, Flying, Seen, CallState
  <2>4. CASE j # k /\ (call[c].kind # k \/ call[c].pc = "idle")
    <3>1. Seen(k, r) = Seen(k, call[c])
      BY <2>4 DEF Seen, Idle
    <3>2. request' = request
      BY <2>1, <3>1
    <3> QED BY <2>2, <3>2 DEF Contract!vars
  <2>5. CASE j # k /\ ~(call[c].kind # k \/ call[c].pc = "idle")
    <3>1. Seen(k, r) = [phase |-> "none", lists |-> {}, late |-> {}]
      BY <2>5 DEF Seen, Idle
    <3>2. request' = [request EXCEPT ![c] = [phase |-> "none", lists |-> {}, late |-> {}]]
      BY <2>1, <3>1
    <3>3. request[c].phase # "none"
      BY <2>5 DEF Seen
    <3>4. Contract(k)!Drop(c)
      BY <2>2, <3>2, <3>3 DEF Contract!Drop, Contract!NoRequest
    <3> QED BY <3>4 DEF Contract!Next
  <2>6. CASE j = k
    <3>1. Seen(k, r) = [phase |-> "sent", lists |-> Snapshot(k), late |-> {}]
      BY <2>6 DEF Seen, Idle
    <3>2. request' = [request EXCEPT ![c] = [phase |-> "sent", lists |-> Snapshot(k), late |-> {}]]
      BY <2>1, <3>1
    <3>3. Snapshot(k) \in SUBSET Tickets(k)
      BY DEF Snapshot
    <3>4. Contract(k)!Send(c, Snapshot(k))
      BY <2>2, <2>3, <3>2 DEF Contract!Send
    <3> QED BY <3>3, <3>4 DEF Contract!Next
  <2> QED BY <2>4, <2>5, <2>6
<1>3. ASSUME NEW c \in Call, NEW t \in Ticket, Upsert(c, t)
      PROVE  [Contract(k)!Next]_(Contract(k)!vars)
  <2>1. Seen(k, [call[c] EXCEPT !.written = @ \cup {t}]) = Seen(k, call[c])
    BY <1>0 DEF Seen, CallState
  <2>2. \A d \in Call : call'[d] = IF d = c THEN [call[c] EXCEPT !.written = @ \cup {t}]
                                            ELSE call[d]
    BY <1>3 DEF Upsert, CoverInv, TypeOK
  <2>3. request' = request
    BY <2>1, <2>2
  <2>4. OpenRows(k)' = OpenRows(k)
    BY <1>3 DEF Upsert, tables, OpenRows
  <2> QED BY <2>3, <2>4 DEF Contract!vars
<1>4. ASSUME NEW c \in Call, Sweep(c)
      PROVE  [Contract(k)!Next]_(Contract(k)!vars)
  <2> DEFINE r == call[c]
             s == [r EXCEPT !.pc = "sweeping", !.seen = Unlisted(r.kind, r.items)]
  <2>1. \A d \in Call : call'[d] = IF d = c THEN s ELSE call[d]
    BY <1>4 DEF Sweep, CoverInv, TypeOK
  <2>2. OpenRows(k)' = OpenRows(k)
    BY <1>4 DEF Sweep, tables, OpenRows
  <2>3. r \in CallState /\ r.pc = "upserting" /\ Covers(r, row)
    BY <1>0, <1>4 DEF Sweep
  <2>4. s.pc = "sweeping" /\ s.kind = r.kind /\ s.items = r.items /\ s.late = r.late
    BY <2>3 DEF CallState
  <2>5. CASE r.kind # k
    <3>1. Seen(k, s) = Seen(k, r)
      BY <2>4, <2>5 DEF Seen
    <3>2. request' = request
      BY <2>1, <3>1
    <3> QED BY <2>2, <3>2 DEF Contract!vars
  <2>6. CASE r.kind = k
    <3>1. /\ Seen(k, r) = [phase |-> "sent", lists |-> r.items, late |-> r.late]
          /\ Seen(k, s) = [phase |-> "comparing", lists |-> r.items, late |-> r.late]
      BY <2>3, <2>4, <2>6 DEF Seen
    <3>2. request' = [request EXCEPT ![c] = [phase |-> "comparing", lists |-> r.items,
                                              late |-> r.late]]
      BY <2>1, <3>1
    <3>3. request[c] = [phase |-> "sent", lists |-> r.items, late |-> r.late]
      BY <3>1
    <3>4. [request[c] EXCEPT !.phase = "comparing"]
            = [phase |-> "comparing", lists |-> r.items, late |-> r.late]
      BY <3>3
    <3>5. request' = [request EXCEPT ![c] = [request[c] EXCEPT !.phase = "comparing"]]
      <4> HIDE DEF request, r
      <4> QED BY <3>2, <3>4
    <3>6. Contract(k)!Compare(c)
      BY <2>2, <3>3, <3>5 DEF Contract!Compare
    <3> QED BY <3>6 DEF Contract!Next
  <2> QED BY <2>5, <2>6
<1>5. ASSUME NEW c \in Call, Commit(c)
      PROVE  [Contract(k)!Next]_(Contract(k)!vars)
  <2> DEFINE r == call[c]
  <2>1. r \in CallState /\ r.pc = "sweeping" /\ Covers(r, row)
    BY <1>0, <1>5 DEF Commit
  <2>2. Ends(c, TRUE) /\ call'[c] = Done(r.kind)
    BY <1>5 DEF Commit, Ends
  <2>3. Seen(k, Done(r.kind)) = IF r.kind = k
                                THEN [phase |-> "applied", lists |-> {}, late |-> {}]
                                ELSE [phase |-> "none", lists |-> {}, late |-> {}]
    BY DEF Seen, Done, Idle
  <2>4. \A t \in Tickets(k) : row'[t] = IF t \in r.seen THEN "STALE"
                                       ELSE IF t \in r.items THEN "OPEN" ELSE row[t]
    BY <1>5, TableTickets DEF Commit, Swept
  <2>5. CASE r.kind # k
    <3>1. \A t \in Tickets(k) : t \notin r.seen /\ t \notin r.items
      BY <2>1, <2>5, ConstantsAssumption DEF Covers, Tickets, CallState, Table
    <3>2. OpenRows(k)' = OpenRows(k)
      BY <2>4, <3>1 DEF OpenRows
    <3>3. \A d \in Call : Seen(k, call'[d]) = Seen(k, call[d])
      <4>1. Seen(k, call[c]) = Seen(k, Done(r.kind))
        BY <2>3, <2>5 DEF Seen
      <4> QED BY <2>2, <2>5, <4>1, EndsSeen
    <3>4. request' = request
      BY <3>3
    <3> QED BY <3>2, <3>4 DEF Contract!vars
  <2>6. CASE r.kind = k
    <3>1. request[c] = [phase |-> "comparing", lists |-> r.items, late |-> r.late]
      BY <2>1, <2>6 DEF Seen
    <3> DEFINE beside == OpenRows(k)' \ r.items
    <3>2. beside \in SUBSET r.late
      BY <2>1, <2>4, <2>6 DEF OpenRows, Covers
    <3>3. r.items \subseteq OpenRows(k)'
      BY <2>1, <2>4, <2>6 DEF OpenRows, Covers
    <3>4. OpenRows(k)' = r.items \cup beside
      BY <3>3
    <3>5. request' = [d \in Call |->
             IF d = c THEN [phase |-> "applied", lists |-> {}, late |-> {}]
             ELSE IF request[d].phase = "comparing"
                  THEN [request[d] EXCEPT !.late = @ \cup r.items]
                  ELSE request[d]]
      <4>1. \A d \in Call : d # c => Seen(k, call'[d]) =
               IF Seen(k, call[d]).phase = "comparing"
               THEN [Seen(k, call[d]) EXCEPT !.late = @ \cup r.items]
               ELSE Seen(k, call[d])
        BY <2>2, <2>6, EndsSeen
      <4> QED BY <2>2, <2>3, <2>6, <4>1
    <3>6. Contract(k)!Apply(c)
      <4> HIDE DEF r, beside
      <4> QED BY <3>1, <3>2, <3>4, <3>5 DEF Contract!Apply, Contract!Applied
    <3> QED BY <3>6 DEF Contract!Next
  <2> QED BY <2>5, <2>6
<1>6. ASSUME NEW c \in Call, Abort(c)
      PROVE  [Contract(k)!Next]_(Contract(k)!vars)
  <2>1. Ends(c, FALSE) /\ call'[c] = Idle
    BY <1>6 DEF Abort, Ends
  <2>2. OpenRows(k)' = OpenRows(k)
    BY <1>6 DEF Abort, tables, OpenRows
  <2>3. \A d \in Call : d # c => Seen(k, call'[d]) = Seen(k, call[d])
    BY <2>1, EndsSeen
  <2>4. Seen(k, Idle) = [phase |-> "none", lists |-> {}, late |-> {}]
    BY DEF Seen, Idle
  <2>5. CASE call[c].kind # k
    <3>1. Seen(k, call[c]) = Seen(k, Idle)
      BY <2>4, <2>5 DEF Seen
    <3>2. request' = request
      BY <2>1, <2>3, <3>1
    <3> QED BY <2>2, <3>2 DEF Contract!vars
  <2>6. CASE call[c].kind = k
    <3>1. request[c].phase # "none"
      BY <1>6, <2>6 DEF Abort, Flying, Seen
    <3>2. request' = [request EXCEPT ![c] = [phase |-> "none", lists |-> {}, late |-> {}]]
      BY <2>1, <2>3, <2>4
    <3>3. Contract(k)!Drop(c)
      BY <2>2, <3>1, <3>2 DEF Contract!Drop, Contract!NoRequest
    <3> QED BY <3>3 DEF Contract!Next
  <2> QED BY <2>5, <2>6
<1> QED BY <1>1, <1>2, <1>3, <1>4, <1>5, <1>6
        DEF Next, Progress, Broker, BrokerMoves, SyncTrades, vars, tables

(* The position table implements its contract, for any tickets and calls:   *)
(* a snapshot that commits replaces what the table shows.                   *)
THEOREM PositionsRefine == Spec => PositionsKeepContract
<1>1. "position" \in Table /\ Tickets("position") = Position
  BY DEF Table, Tickets
<1>2. Init => Positions!Init
  <2>1. Init => Contract("position")!Init
    BY <1>1, RefinesInit
  <2> QED BY <2>1 DEF Contract!Init, Positions!Init, Contract!NoRequest, Positions!NoRequest
<1>3. CoverInv /\ [Next]_vars => [Positions!Next]_(Positions!vars)
  <2>1. CoverInv /\ [Next]_vars => [Contract("position")!Next]_(Contract("position")!vars)
    BY <1>1, RefinesStep
  <2> QED BY <1>1, <2>1
             DEF Contract!Next, Contract!Send, Contract!Compare, Contract!Apply, Contract!Drop,
                 Contract!NoRequest, Contract!Applied, Contract!vars, Positions!Next, Positions!Send,
                 Positions!Compare, Positions!Apply, Positions!Drop, Positions!NoRequest,
                 Positions!Applied, Positions!vars
<1> QED BY <1>2, <1>3, CoverAlways, PTL DEF Spec, PositionsKeepContract, Positions!Spec

(* So does the table of pending orders. *)
THEOREM OrdersRefine == Spec => OrdersKeepContract
<1>1. "order" \in Table /\ Tickets("order") = Order
  BY DEF Table, Tickets
<1>2. Init => Orders!Init
  <2>1. Init => Contract("order")!Init
    BY <1>1, RefinesInit
  <2> QED BY <2>1 DEF Contract!Init, Orders!Init, Contract!NoRequest, Orders!NoRequest
<1>3. CoverInv /\ [Next]_vars => [Orders!Next]_(Orders!vars)
  <2>1. CoverInv /\ [Next]_vars => [Contract("order")!Next]_(Contract("order")!vars)
    BY <1>1, RefinesStep
  <2> QED BY <1>1, <2>1
             DEF Contract!Next, Contract!Send, Contract!Compare, Contract!Apply, Contract!Drop,
                 Contract!NoRequest, Contract!Applied, Contract!vars, Orders!Next, Orders!Send,
                 Orders!Compare, Orders!Apply, Orders!Drop, Orders!NoRequest,
                 Orders!Applied, Orders!vars
<1> QED BY <1>2, <1>3, CoverAlways, PTL DEF Spec, OrdersKeepContract, Orders!Spec
-----------------------------------------------------------------------------
(* Snapshots that commit in the order in which they were taken. *)

(* What a step of a call may leave alone of it. *)
Same(d) == /\ call'[d].kind = call[d].kind /\ call'[d].items = call[d].items
           /\ call'[d].older = call[d].older /\ call'[d].outdated = call[d].outdated
           /\ Flying(d)' <=> Flying(d)

LEMMA ReceiveFields ==
  ASSUME TypeOK, NEW c \in Call, NEW k \in Table, Receive(c, k)
  PROVE  /\ ~Flying(c) /\ Flying(c)'
         /\ call'[c].kind = k /\ call'[c].items = Tickets(k) \cap live /\ call'[c].seen = {}
         /\ call'[c].older = InFlight(k) /\ call'[c].outdated = FALSE
         /\ \A d \in Call : d # c => call'[d] = call[d] /\ Same(d)
<1> DEFINE r == [Idle EXCEPT !.pc = "upserting", !.kind = k, !.items = Snapshot(k),
                             !.older = InFlight(k)]
<1>1. \A d \in Call : call'[d] = IF d = c THEN r ELSE call[d]
  BY DEF Receive, TypeOK
<1>2. /\ r.pc = "upserting" /\ r.kind = k /\ r.items = Snapshot(k) /\ r.seen = {}
      /\ r.older = InFlight(k) /\ r.outdated = FALSE
  BY DEF Idle
<1> HIDE DEF r
<1> QED BY <1>1, <1>2 DEF Receive, Flying, Same, Snapshot

LEMMA UpsertFields ==
  ASSUME TypeOK, NEW c \in Call, NEW t \in Ticket, Upsert(c, t)
  PROVE  \A d \in Call : Same(d) /\ call'[d].seen = call[d].seen
<1> DEFINE r == call[c]
           s == [r EXCEPT !.written = @ \cup {t}]
<1>1. \A d \in Call : call'[d] = IF d = c THEN s ELSE call[d]
  BY DEF Upsert, TypeOK
<1>2. r \in CallState
  BY DEF TypeOK
<1> HIDE DEF r
<1>3. /\ s.pc = r.pc /\ s.kind = r.kind /\ s.items = r.items /\ s.seen = r.seen
      /\ s.older = r.older /\ s.outdated = r.outdated
  BY <1>2 DEF CallState
<1> HIDE DEF s
<1> QED BY <1>1, <1>3 DEF Flying, Same, r

LEMMA SweepFields ==
  ASSUME TypeOK, NEW c \in Call, Sweep(c)
  PROVE  \A d \in Call : /\ Same(d)
                         /\ call'[d].seen = IF d = c THEN Unlisted(call[c].kind, call[c].items)
                                             ELSE call[d].seen
<1> DEFINE r == call[c]
           s == [r EXCEPT !.pc = "sweeping", !.seen = Unlisted(r.kind, r.items)]
<1>1. \A d \in Call : call'[d] = IF d = c THEN s ELSE call[d]
  BY DEF Sweep, TypeOK
<1>2. r \in CallState /\ r.pc = "upserting"
  BY DEF TypeOK, Sweep
<1> HIDE DEF r
<1>3. /\ s.pc = "sweeping" /\ s.kind = r.kind /\ s.items = r.items
      /\ s.seen = Unlisted(r.kind, r.items)
      /\ s.older = r.older /\ s.outdated = r.outdated
  BY <1>2 DEF CallState
<1> HIDE DEF s
<1> QED BY <1>1, <1>2, <1>3 DEF Flying, Same, r

LEMMA EndsFields ==
  ASSUME TypeOK, NEW c \in Call, NEW committed \in BOOLEAN, Ends(c, committed)
  PROVE  /\ ~Flying(c)' /\ call'[c].items = {} /\ call'[c].seen = {} /\ call'[c].older = {}
         /\ \A d \in Call : d # c =>
              /\ call'[d].kind = call[d].kind /\ call'[d].items = call[d].items
              /\ call'[d].seen = call[d].seen /\ call'[d].older = call[d].older \ {c}
              /\ call'[d].outdated = (call[d].outdated \/ (committed /\ d \in call[c].older))
              /\ Flying(d)' <=> Flying(d)
<1>1. call'[c] = IF committed THEN Done(call[c].kind) ELSE Idle
  BY DEF Ends
<1>2. ~Flying(c)' /\ call'[c].items = {} /\ call'[c].seen = {} /\ call'[c].older = {}
  BY <1>1 DEF Flying, Done, Idle
<1>3. ASSUME NEW d \in Call, d # c
      PROVE  /\ call'[d].kind = call[d].kind /\ call'[d].items = call[d].items
             /\ call'[d].seen = call[d].seen /\ call'[d].older = call[d].older \ {c}
             /\ call'[d].outdated = (call[d].outdated \/ (committed /\ d \in call[c].older))
             /\ Flying(d)' <=> Flying(d)
  <2> DEFINE r == call[d]  s == call'[d]  o == call[c]
  <2>1. s = [r EXCEPT !.late = IF committed /\ r.pc = "sweeping" /\ r.kind = o.kind
                               THEN @ \cup o.items ELSE @,
                      !.older = @ \ {c},
                      !.outdated = @ \/ (committed /\ d \in o.older)]
    BY <1>3 DEF Ends
  <2>2. r \in CallState
    BY DEF TypeOK
  <2> HIDE DEF s, r, o
  <2>3. /\ s.items = r.items /\ s.seen = r.seen /\ s.pc = r.pc /\ s.kind = r.kind
        /\ s.older = r.older \ {c} /\ s.outdated = (r.outdated \/ (committed /\ d \in o.older))
    BY <2>1, <2>2 DEF CallState
  <2> QED BY <2>3 DEF s, r, o, Flying
<1> QED BY <1>2, <1>3

LEMMA BrokerFacts ==
  ASSUME TypeOK, Existed, Broker
  PROVE  /\ UNCHANGED <<row, call, overtaken>>
         /\ live' \cap gone' = {} /\ gone \subseteq gone' /\ live \subseteq live' \cup gone'
         /\ \A t \in live' : t \in live \/ (t \in Ticket /\ t \notin live \cup gone)
<1>1. CASE \E t \in Ticket : Fresh(t) /\ BrokerMoves({t}, {})
  BY <1>1 DEF BrokerMoves, Fresh, Existed, tables
<1>2. CASE \E t \in live : BrokerMoves({}, {t})
  BY <1>2 DEF BrokerMoves, Existed, tables
<1>3. CASE \E o \in Order \cap live, p \in Position : Fresh(p) /\ BrokerMoves({p}, {o})
  BY <1>3 DEF BrokerMoves, Fresh, Existed, tables, Ticket
<1> QED BY <1>1, <1>2, <1>3 DEF Broker

LEMMA ExistedStep == OrderInv /\ [Next]_vars => Existed'
<1> SUFFICES ASSUME OrderInv, [Next]_vars PROVE Existed'
  OBVIOUS
<1>0. TypeOK /\ Existed /\ SweepCovers
  BY DEF OrderInv, CoverInv
<1>1. CASE Broker
  BY <1>0, <1>1, BrokerFacts DEF Existed
<1>2. CASE SyncTrades \/ UNCHANGED vars
  BY <1>0, <1>2 DEF SyncTrades, vars, tables, broker, Existed
<1>3. ASSUME NEW c \in Call, NEW k \in Table, Receive(c, k) PROVE Existed'
  <2>1. UNCHANGED <<live, gone, row>>
    BY <1>3 DEF Receive, broker, tables
  <2>2. /\ call'[c].items \subseteq live /\ call'[c].seen = {}
        /\ \A d \in Call : d # c => call'[d] = call[d]
    BY <1>0, <1>3, ReceiveFields
  <2>3. \A d \in Call : call'[d].items \subseteq live \cup gone
    BY <1>0, <2>2 DEF Existed
  <2>4. \A d \in Call : \A t \in call'[d].seen : row[t] # "ABSENT"
    BY <1>0, <2>2 DEF Existed
  <2> QED BY <1>0, <2>1, <2>3, <2>4 DEF Existed
<1>4. ASSUME NEW c \in Call, NEW t \in Ticket, Upsert(c, t) PROVE Existed'
  <2>1. UNCHANGED <<live, gone, row>>
    BY <1>4 DEF Upsert, broker, tables
  <2> QED BY <1>0, <1>4, <2>1, UpsertFields DEF Existed, Same
<1>5. ASSUME NEW c \in Call, Sweep(c) PROVE Existed'
  <2>1. UNCHANGED <<live, gone, row>>
    BY <1>5 DEF Sweep, broker, tables
  <2>2. \A t \in Unlisted(call[c].kind, call[c].items) : row[t] # "ABSENT"
    BY DEF Unlisted, OpenRows
  <2> QED BY <1>0, <1>5, <2>1, <2>2, SweepFields DEF Existed, Same
<1>6. ASSUME NEW c \in Call, Commit(c) PROVE Existed'
  <2>1. UNCHANGED <<live, gone>> /\ Ends(c, TRUE)
    BY <1>6 DEF Commit, broker
  <2>2. \A t \in Ticket : row'[t] = IF t \in call[c].seen THEN "STALE"
                                    ELSE IF t \in call[c].items THEN "OPEN" ELSE row[t]
    BY <1>6 DEF Commit, Swept
  <2>3. \A t \in Ticket : row[t] # "ABSENT" => row'[t] # "ABSENT"
    BY <2>2
  <2>4. \A t \in Ticket : row'[t] # "ABSENT" => t \in live \cup gone
    BY <1>0, <2>2 DEF Existed
  <2>5. \A d \in Call : call[d].seen \subseteq Ticket
    BY <1>0 DEF TypeOK, CallState
  <2> HIDE DEF Existed
  <2>6. \A d \in Call : call'[d].items \subseteq call[d].items /\ call'[d].seen \subseteq call[d].seen
    BY <1>0, <2>1, EndsFields
  <2> QED BY <1>0, <2>1, <2>3, <2>4, <2>5, <2>6 DEF Existed
<1>7. ASSUME NEW c \in Call, Abort(c) PROVE Existed'
  <2>1. UNCHANGED <<live, gone, row>> /\ Ends(c, FALSE)
    BY <1>7 DEF Abort, broker, tables
  <2>2. \A d \in Call : call'[d].items \subseteq call[d].items /\ call'[d].seen \subseteq call[d].seen
    BY <1>0, <2>1, EndsFields
  <2> QED BY <1>0, <2>1, <2>2 DEF Existed
<1> QED BY <1>1, <1>2, <1>3, <1>4, <1>5, <1>6, <1>7 DEF Next, Progress

(* A call that ends takes itself out of the order and leaves the rest of it. *)
LEMMA EndsOrder ==
  ASSUME TypeOK, Received, Vanished, NEW c \in Call, NEW committed \in BOOLEAN,
         Ends(c, committed), UNCHANGED gone
  PROVE  Received' /\ Vanished'
<1>1. \A d \in Call : Flying(d)' => d # c /\ Flying(d)
  BY EndsFields
<1>2. \A d, e \in Call : e \in call'[d].older <=> d # c /\ e # c /\ e \in call[d].older
  BY EndsFields
<1>3. \A d \in Call : d # c => /\ call'[d].kind = call[d].kind /\ call'[d].items = call[d].items
                               /\ Flying(d)' <=> Flying(d)
  BY EndsFields
<1>4. Received'
  BY <1>1, <1>2, <1>3 DEF Received
<1>5. Vanished'
  BY <1>2, <1>3 DEF Vanished
<1> QED BY <1>4, <1>5

LEMMA ReceivedStep == OrderInv /\ [Next]_vars => Received' /\ Vanished'
<1> SUFFICES ASSUME OrderInv, [Next]_vars PROVE Received' /\ Vanished'
  OBVIOUS
<1>0. TypeOK /\ Existed /\ Received /\ Vanished
  BY DEF OrderInv, CoverInv
<1>1. CASE Broker
  <2>1. UNCHANGED call /\ gone \subseteq gone'
    BY <1>0, <1>1, BrokerFacts
  <2>2. \A d \in Call : Flying(d)' <=> Flying(d)
    BY <2>1 DEF Flying
  <2> QED BY <1>0, <2>1, <2>2 DEF Received, Vanished
<1>2. CASE SyncTrades \/ UNCHANGED vars
  <2>1. UNCHANGED <<call, gone>>
    BY <1>2 DEF SyncTrades, vars, broker
  <2>2. \A d \in Call : Flying(d)' <=> Flying(d)
    BY <2>1 DEF Flying
  <2> QED BY <1>0, <2>1, <2>2 DEF Received, Vanished
<1>3. ASSUME NEW c \in Call, NEW k \in Table, Receive(c, k) PROVE Received' /\ Vanished'
  <2>1. UNCHANGED <<live, gone>>
    BY <1>3 DEF Receive, broker
  <2>2. \A d \in Call : d # c => /\ call'[d].kind = call[d].kind /\ call'[d].items = call[d].items
                                 /\ call'[d].older = call[d].older /\ (Flying(d)' <=> Flying(d))
    BY <1>0, <1>3, ReceiveFields DEF Same
  <2>3. /\ ~Flying(c) /\ Flying(c)' /\ call'[c].kind = k /\ call'[c].items = Tickets(k) \cap live
        /\ \A d \in Call : d \in call'[c].older <=> Flying(d) /\ call[d].kind = k
    <3>1. /\ ~Flying(c) /\ Flying(c)' /\ call'[c].kind = k
          /\ call'[c].items = Tickets(k) \cap live /\ call'[c].older = InFlight(k)
      BY <1>0, <1>3, ReceiveFields
    <3> QED BY <3>1 DEF InFlight
  <2>4. \A d \in Call : c \notin call[d].older
    BY <1>0, <2>3 DEF Received
  <2>5. Received'
    <3>1. \A a, d \in Call : d \in call'[a].older =>
            /\ Flying(a)' /\ Flying(d)' /\ a # d /\ call'[a].kind = call'[d].kind
      BY <1>0, <2>2, <2>3, <2>4 DEF Received
    <3>2. \A a, d \in Call : Flying(a)' /\ Flying(d)' /\ a # d /\ call'[a].kind = call'[d].kind
            => d \in call'[a].older \/ a \in call'[d].older
      BY <1>0, <2>2, <2>3, <2>4 DEF Received
    <3> QED BY <3>1, <3>2 DEF Received
  <2>6. \A d \in Call : Flying(d) /\ call[d].kind = k => call[d].items \subseteq Tickets(k) \cap (live \cup gone)
    BY <1>0 DEF OrderInv, CoverInv, SweepCovers, Covers, Existed
  <2>7. ASSUME NEW a \in Call, NEW d \in Call, d \in call'[a].older
        PROVE  call'[d].items \ call'[a].items \subseteq gone'
    <3>1. CASE a = c
      <4>1. Flying(d) /\ call[d].kind = k /\ d # c
        BY <2>3, <2>7, <3>1
      <4>2. call'[d].items \subseteq Tickets(k) \cap (live \cup gone)
        BY <2>2, <2>6, <4>1
      <4> QED BY <2>1, <2>3, <3>1, <4>2
    <3>2. CASE a # c
      <4>1. d \in call[a].older /\ d # c /\ call'[a].items = call[a].items
        BY <2>2, <2>4, <2>7, <3>2
      <4>2. call'[d].items = call[d].items
        BY <2>2, <4>1
      <4> QED BY <1>0, <2>1, <4>1, <4>2 DEF Vanished
    <3> QED BY <3>1, <3>2
  <2>8. ASSUME NEW a \in Call, NEW d \in Call, NEW e \in Call, d \in call'[a].older, e \in call'[d].older
        PROVE  call'[e].items \cap call'[a].items \subseteq call'[d].items
    <3>1. d # c /\ e # c /\ e \in call[d].older
      <4>1. d # c
        BY <2>2, <2>3, <2>4, <2>8
      <4>2. call'[d].older = call[d].older
        BY <2>2, <4>1
      <4> QED BY <2>4, <2>8, <4>1, <4>2
    <3>2. call'[d].items = call[d].items /\ call'[e].items = call[e].items
      BY <2>2, <3>1
    <3>3. CASE a # c
      <4>1. d \in call[a].older /\ call'[a].items = call[a].items
        BY <2>2, <2>8, <3>3
      <4> QED BY <1>0, <3>1, <3>2, <4>1 DEF Vanished
    <3>4. CASE a = c
      <4>1. call[e].items \ call[d].items \subseteq gone
        BY <1>0, <3>1 DEF Vanished
      <4>2. live \cap gone = {}
        BY <1>0 DEF Existed
      <4> QED BY <2>3, <3>2, <3>4, <4>1, <4>2
    <3> QED BY <3>3, <3>4
  <2>9. Vanished'
    BY <2>7, <2>8 DEF Vanished
  <2> QED BY <2>5, <2>9
<1>4. ASSUME NEW c \in Call, NEW t \in Ticket, Upsert(c, t) PROVE Received' /\ Vanished'
  <2>1. \A d \in Call : Same(d)
    BY <1>0, <1>4, UpsertFields
  <2>2. UNCHANGED gone
    BY <1>4 DEF Upsert, broker
  <2> QED BY <1>0, <2>1, <2>2 DEF Received, Vanished, Same
<1>5. ASSUME NEW c \in Call, Sweep(c) PROVE Received' /\ Vanished'
  <2>1. \A d \in Call : Same(d)
    BY <1>0, <1>5, SweepFields
  <2>2. UNCHANGED gone
    BY <1>5 DEF Sweep, broker
  <2> QED BY <1>0, <2>1, <2>2 DEF Received, Vanished, Same
<1>6. ASSUME NEW c \in Call, Commit(c) PROVE Received' /\ Vanished'
  BY <1>0, <1>6, EndsOrder DEF Commit, broker
<1>7. ASSUME NEW c \in Call, Abort(c) PROVE Received' /\ Vanished'
  BY <1>0, <1>7, EndsOrder DEF Abort, broker
<1> QED BY <1>1, <1>2, <1>3, <1>4, <1>5, <1>6, <1>7 DEF Next, Progress

(* The parts of InOrder, for the steps that keep the order. *)
LEMMA InOrderParts ==
  ASSUME InOrder, ~overtaken
  PROVE  /\ \A t \in live : row[t] # "STALE"
         /\ \A c \in Call : Flying(c) /\ ~call[c].outdated =>
              /\ \A t \in live \cap Tickets(call[c].kind) : t \notin call[c].items => row[t] = "ABSENT"
              /\ \A t \in call[c].items : row[t] # "STALE"
         /\ \A c, d \in Call : d \in call[c].older /\ ~call[d].outdated =>
              \A t \in call[c].items : t \notin call[d].items => row[t] = "ABSENT"
  BY DEF InOrder

(* What a commit does to the rows. *)
LEMMA CommitRows ==
  ASSUME OrderInv, NEW c \in Call, Commit(c)
  PROVE  \A t \in Ticket :
           /\ t \notin Tickets(call[c].kind) => row'[t] = row[t]
           /\ t \in call[c].items => row'[t] = "OPEN"
           /\ (t \notin call[c].items /\ row[t] = "ABSENT") => row'[t] = "ABSENT"
           /\ row'[t] = "STALE" => row[t] = "STALE" \/ (t \notin call[c].items /\ row[t] # "ABSENT")
<1>1. \A t \in Ticket : row'[t] = IF t \in call[c].seen THEN "STALE"
                                  ELSE IF t \in call[c].items THEN "OPEN" ELSE row[t]
  BY DEF Commit, Swept
<1>2. /\ call[c].items \subseteq Tickets(call[c].kind)
      /\ call[c].seen \subseteq Tickets(call[c].kind) \ call[c].items
      /\ \A t \in call[c].seen : row[t] # "ABSENT"
  BY DEF OrderInv, CoverInv, SweepCovers, Covers, Existed
<1> QED BY <1>1, <1>2

(* A commit that keeps the order marks no live ticket STALE. *)
LEMMA CommitInOrder ==
  ASSUME OrderInv, NEW c \in Call, Commit(c), ~overtaken'
  PROVE  /\ ~overtaken /\ ~call[c].outdated /\ Flying(c)
         /\ \A t \in live : row'[t] # "STALE"
<1>1. ~overtaken /\ ~call[c].outdated /\ Flying(c)
  BY DEF Commit, Flying
<1>2. /\ \A t \in live : row[t] # "STALE" /\ t \in Ticket
      /\ \A t \in live \cap Tickets(call[c].kind) : t \notin call[c].items => row[t] = "ABSENT"
  BY <1>1, InOrderParts DEF OrderInv, CoverInv, TypeOK
<1> HIDE DEF OrderInv
<1>3. \A t \in live : row'[t] # "STALE"
  BY <1>2, CommitRows
<1> QED BY <1>1, <1>3

LEMMA InOrderStep == OrderInv /\ [Next]_vars => InOrder'
<1> SUFFICES ASSUME OrderInv, [Next]_vars, ~overtaken' PROVE InOrder'
  BY DEF InOrder
<1>0. TypeOK /\ Existed /\ Received /\ Vanished /\ InOrder
  BY DEF OrderInv, CoverInv
<1>1. CASE Broker
  <2>1. /\ UNCHANGED <<row, call, overtaken>>
        /\ \A t \in live' : t \in live \/ (t \in Ticket /\ t \notin live \cup gone)
    BY <1>0, <1>1, BrokerFacts
  <2>2. \A t \in live' : t \in live \/ row[t] = "ABSENT"
    BY <1>0, <2>1 DEF Existed
  <2>3. \A d \in Call : Flying(d)' <=> Flying(d)
    BY <2>1 DEF Flying
  <2> QED BY <1>0, <2>1, <2>2, <2>3 DEF InOrder
<1>2. CASE SyncTrades \/ UNCHANGED vars
  <2>1. UNCHANGED <<live, gone, row, call, overtaken>>
    BY <1>2 DEF SyncTrades, vars, broker, tables
  <2>2. \A d \in Call : Flying(d)' <=> Flying(d)
    BY <2>1 DEF Flying
  <2> QED BY <1>0, <2>1, <2>2 DEF InOrder
<1>3. ASSUME NEW c \in Call, NEW k \in Table, Receive(c, k) PROVE InOrder'
  <2>1. UNCHANGED <<live, gone, row, overtaken>>
    BY <1>3 DEF Receive, broker, tables
  <2>2. \A d \in Call : d # c => call'[d] = call[d] /\ (Flying(d)' <=> Flying(d))
    BY <1>0, <1>3, ReceiveFields DEF Same
  <2>3. /\ ~Flying(c) /\ call'[c].kind = k /\ call'[c].items = Tickets(k) \cap live
        /\ call'[c].older = InFlight(k)
    BY <1>0, <1>3, ReceiveFields
  <2>4. /\ \A t \in live : row[t] # "STALE"
        /\ \A d \in Call : Flying(d) /\ ~call[d].outdated =>
             /\ \A t \in live \cap Tickets(call[d].kind) : t \notin call[d].items => row[t] = "ABSENT"
             /\ \A t \in call[d].items : row[t] # "STALE"
        /\ \A a, d \in Call : d \in call[a].older /\ ~call[d].outdated =>
             \A t \in call[a].items : t \notin call[d].items => row[t] = "ABSENT"
    BY <1>0, <2>1, InOrderParts
  <2>5. \A d \in Call : Flying(d)' /\ ~call'[d].outdated =>
          /\ \A t \in live \cap Tickets(call'[d].kind) : t \notin call'[d].items => row[t] = "ABSENT"
          /\ \A t \in call'[d].items : row[t] # "STALE"
    BY <2>2, <2>3, <2>4
  <2>6. ASSUME NEW a \in Call, NEW d \in Call, d \in call'[a].older, ~call'[d].outdated,
               NEW t \in call'[a].items, t \notin call'[d].items
        PROVE  row[t] = "ABSENT"
    <3>1. CASE a = c
      <4>1. Flying(d) /\ call[d].kind = k /\ d # c
        BY <2>3, <2>6, <3>1 DEF InFlight
      <4> QED BY <2>2, <2>3, <2>4, <2>6, <3>1, <4>1
    <3>2. CASE a # c
      <4>1. d \in call[a].older /\ d # c
        BY <1>0, <2>2, <2>3, <2>6, <3>2 DEF Received
      <4> QED BY <2>2, <2>4, <2>6, <3>2, <4>1
    <3> QED BY <3>1, <3>2
  <2> QED BY <2>1, <2>4, <2>5, <2>6 DEF InOrder
<1>4. ASSUME UNCHANGED <<live, gone, row, overtaken>>, \A d \in Call : Same(d) PROVE InOrder'
  BY <1>0, <1>4 DEF InOrder, Same
<1>5. ASSUME NEW c \in Call, Commit(c) PROVE InOrder'
  <2> DEFINE k == call[c].kind
  <2>1. /\ ~overtaken /\ ~call[c].outdated /\ Flying(c)
        /\ UNCHANGED <<live, gone>> /\ Ends(c, TRUE)
    BY <1>5, CommitInOrder DEF Commit, broker
  <2>1a. \A t \in live : row'[t] # "STALE"
    BY <1>5, CommitInOrder
  <2>1b. \A t \in Ticket : /\ t \notin Tickets(k) => row'[t] = row[t]
                           /\ t \in call[c].items => row'[t] = "OPEN"
                           /\ (t \notin call[c].items /\ row[t] = "ABSENT") => row'[t] = "ABSENT"
    BY <1>5, CommitRows
  <2>2. ~Flying(c)' /\ \A d \in Call : d # c =>
          /\ call'[d].kind = call[d].kind /\ call'[d].items = call[d].items
          /\ call'[d].older = call[d].older \ {c}
          /\ call'[d].outdated = (call[d].outdated \/ d \in call[c].older)
          /\ Flying(d)' <=> Flying(d)
    BY <1>0, <2>1, EndsFields
  <2>3. /\ \A d \in Call : Flying(d) /\ ~call[d].outdated =>
             /\ \A t \in live \cap Tickets(call[d].kind) : t \notin call[d].items => row[t] = "ABSENT"
             /\ \A t \in call[d].items : row[t] # "STALE"
        /\ \A a, d \in Call : d \in call[a].older /\ ~call[d].outdated =>
             \A t \in call[a].items : t \notin call[d].items => row[t] = "ABSENT"
    BY <1>0, <2>1, InOrderParts
  <2>4. \A d \in Call : call[d].items \subseteq Tickets(call[d].kind) /\ call[d].items \subseteq Ticket
                       /\ call[d].kind \in Table
    BY <1>0 DEF OrderInv, CoverInv, SweepCovers, Covers, TypeOK, CallState
  <2>5. ASSUME NEW d \in Call, Flying(d)', ~call'[d].outdated
        PROVE  /\ d # c /\ Flying(d) /\ ~call[d].outdated
               /\ call'[d].kind = call[d].kind /\ call'[d].items = call[d].items
               /\ call[d].kind = k => c \in call[d].older
    BY <1>0, <2>1, <2>2, <2>5 DEF Received
  <2>6. ASSUME NEW d \in Call, Flying(d)', ~call'[d].outdated,
               NEW t \in live \cap Tickets(call[d].kind), t \notin call[d].items
        PROVE  row'[t] = "ABSENT"
    <3>1. row[t] = "ABSENT" /\ t \in Ticket
      BY <1>0, <2>3, <2>5, <2>6 DEF TypeOK
    <3>2. t \notin call[c].items
      <4>1. CASE call[d].kind = k
        BY <1>0, <2>5, <2>6, <4>1 DEF Vanished, Existed
      <4>2. CASE call[d].kind # k
        BY <2>4, <2>6, <4>2, ConstantsAssumption DEF Tickets, Table
      <4> QED BY <4>1, <4>2
    <3> QED BY <2>1b, <3>1, <3>2
  <2>7. ASSUME NEW d \in Call, Flying(d)', ~call'[d].outdated, NEW t \in call[d].items
        PROVE  row'[t] # "STALE"
    <3>1. row[t] # "STALE" /\ t \in Ticket
      BY <2>3, <2>4, <2>5, <2>7
    <3>2. CASE call[d].kind = k /\ t \notin call[c].items
      <4>1. row[t] = "ABSENT"
        BY <2>1, <2>3, <2>5, <2>7, <3>2
      <4> QED BY <2>1b, <3>1, <3>2, <4>1
    <3>3. CASE t \in call[c].items
      BY <2>1b, <3>1, <3>3
    <3>4. CASE call[d].kind # k
      <4>1. t \notin Tickets(k)
        BY <2>4, <2>7, <3>4, ConstantsAssumption DEF Tickets, Table
      <4> QED BY <2>1b, <3>1, <4>1
    <3> QED BY <3>2, <3>3, <3>4
  <2>8. ASSUME NEW a \in Call, NEW d \in Call, d \in call'[a].older, ~call'[d].outdated,
               NEW t \in call'[a].items, t \notin call'[d].items
        PROVE  row'[t] = "ABSENT"
    <3>1. a # c /\ d # c /\ d \in call[a].older /\ Flying(d)
      <4>1. call'[c].older = {}
        BY <1>0, <2>1, EndsFields
      <4>2. a # c
        BY <2>8, <4>1
      <4>3. d # c /\ d \in call[a].older
        BY <2>2, <2>8, <4>2
      <4> QED BY <1>0, <4>2, <4>3 DEF Received
    <3>2. Flying(d)' /\ call'[d].items = call[d].items /\ call'[a].items = call[a].items
      BY <2>2, <3>1
    <3>3. ~call[d].outdated /\ (call[d].kind = k => c \in call[d].older)
      BY <2>5, <2>8, <3>2
    <3>4. row[t] = "ABSENT" /\ t \in Ticket
      BY <2>3, <2>4, <2>8, <3>1, <3>2, <3>3
    <3>5. t \notin call[c].items
      <4>1. CASE call[d].kind = k
        BY <1>0, <2>8, <3>1, <3>2, <3>3, <4>1 DEF Vanished
      <4>2. CASE call[d].kind # k
        <5>1. call[a].kind = call[d].kind /\ t \in Tickets(call[a].kind)
          BY <1>0, <2>4, <2>8, <3>1, <3>2 DEF Received
        <5> QED BY <2>4, <4>2, <5>1, ConstantsAssumption DEF Tickets, Table
      <4> QED BY <4>1, <4>2
    <3> QED BY <2>1b, <3>4, <3>5
  <2>9. \A d \in Call : Flying(d)' /\ ~call'[d].outdated =>
          /\ \A t \in live' \cap Tickets(call'[d].kind) : t \notin call'[d].items => row'[t] = "ABSENT"
          /\ \A t \in call'[d].items : row'[t] # "STALE"
    BY <2>1, <2>5, <2>6, <2>7
  <2> QED BY <2>1, <2>1a, <2>8, <2>9 DEF InOrder
<1>6. ASSUME NEW c \in Call, Abort(c) PROVE InOrder'
  <2>1. UNCHANGED <<live, gone, row, overtaken>> /\ Ends(c, FALSE)
    BY <1>6 DEF Abort, broker, tables
  <2>2. \A d \in Call : Flying(d)' => d # c /\ Flying(d)
    BY <1>0, <2>1, EndsFields
  <2>3. \A d \in Call : d # c => /\ call'[d].kind = call[d].kind /\ call'[d].items = call[d].items
                                 /\ call'[d].older \subseteq call[d].older
                                 /\ call'[d].outdated = call[d].outdated
    <3>1. \A d \in Call : call[d].outdated \in BOOLEAN
      BY <1>0 DEF TypeOK, CallState
    <3> QED BY <1>0, <2>1, <3>1, EndsFields, ZenonT(30)
  <2>4. ASSUME NEW a \in Call, NEW d \in Call, d \in call'[a].older PROVE a # c /\ d # c
    <3>1. call'[c].older = {} /\ (a # c => call'[a].older = call[a].older \ {c})
      BY <1>0, <2>1, EndsFields
    <3> QED BY <2>4, <3>1
  <2>5. /\ \A d \in Call : Flying(d)' /\ ~call'[d].outdated =>
             /\ \A t \in live \cap Tickets(call'[d].kind) : t \notin call'[d].items => row[t] = "ABSENT"
             /\ \A t \in call'[d].items : row[t] # "STALE"
        /\ \A a, d \in Call : d \in call'[a].older /\ ~call'[d].outdated =>
             \A t \in call'[a].items : t \notin call'[d].items => row[t] = "ABSENT"
    BY <1>0, <2>1, <2>2, <2>3, <2>4, InOrderParts
  <2> QED BY <1>0, <2>1, <2>5 DEF InOrder
<1>7. ASSUME NEW c \in Call, NEW t \in Ticket, Upsert(c, t) PROVE InOrder'
  BY <1>0, <1>4, <1>7, UpsertFields DEF Upsert, broker, tables
<1>8. ASSUME NEW c \in Call, Sweep(c) PROVE InOrder'
  BY <1>0, <1>4, <1>8, SweepFields DEF Sweep, broker, tables
<1> QED BY <1>1, <1>2, <1>3, <1>5, <1>6, <1>7, <1>8 DEF Next, Progress

LEMMA OrderInit == Init => OrderInv
<1> SUFFICES ASSUME Init PROVE OrderInv
  OBVIOUS
<1>1. \A c \in Call : /\ ~Flying(c) /\ call[c].items = {} /\ call[c].seen = {} /\ call[c].older = {}
  BY DEF Init, Idle, Flying
<1>2. live = {} /\ gone = {} /\ \A t \in Ticket : row[t] = "ABSENT"
  BY DEF Init
<1>3. Existed /\ Received /\ Vanished /\ InOrder
  BY <1>1, <1>2 DEF Existed, Received, Vanished, InOrder
<1> QED BY <1>3, CoverInit DEF OrderInv

(* The strengthened invariant of the order. *)
LEMMA OrderAlways == Spec => []OrderInv
<1>1. OrderInv /\ [Next]_vars => OrderInv'
  BY CoverStep, ExistedStep, ReceivedStep, InOrderStep DEF OrderInv
<1> QED BY <1>1, OrderInit, PTL DEF Spec

(* For any tickets and any number of calls in flight: until a snapshot is   *)
(* committed after a newer one, no row of a ticket that is gone comes back  *)
(* and no row of a live ticket is marked STALE.                             *)
THEOREM OrderedNeverLie == Spec => OrderedSnapshotsNeverLie
<1> DEFINE Honest == ~overtaken' =>
                       \A t \in Ticket :
                         /\ (t \in gone /\ row[t] = "STALE") => row'[t] = "STALE"
                         /\ (t \in live /\ row[t] = "OPEN") => row'[t] = "OPEN"
<1>1. OrderInv /\ [Next]_vars => [Honest]_vars
  <2> SUFFICES ASSUME OrderInv, Next, ~overtaken', NEW t \in Ticket
               PROVE  /\ (t \in gone /\ row[t] = "STALE") => row'[t] = "STALE"
                      /\ (t \in live /\ row[t] = "OPEN") => row'[t] = "OPEN"
    OBVIOUS
  <2>1. CASE UNCHANGED row
    BY <2>1
  <2>2. ASSUME NEW c \in Call, Commit(c)
        PROVE  /\ (t \in gone /\ row[t] = "STALE") => row'[t] = "STALE"
               /\ (t \in live /\ row[t] = "OPEN") => row'[t] = "OPEN"
    <3>1. row'[t] = IF t \in call[c].seen THEN "STALE"
                    ELSE IF t \in call[c].items THEN "OPEN" ELSE row[t]
      BY <2>2 DEF Commit, Swept
    <3>2. ASSUME t \in gone, row[t] = "STALE" PROVE row'[t] = "STALE"
      <4>1. t \notin call[c].items
        BY <2>2, <3>2, CommitInOrder, InOrderParts DEF OrderInv
      <4> QED BY <3>1, <3>2, <4>1
    <3>3. ASSUME t \in live, row[t] = "OPEN" PROVE row'[t] = "OPEN"
      BY <2>2, <3>1, <3>3, CommitInOrder
    <3> QED BY <3>2, <3>3
  <2>3. UNCHANGED row \/ \E c \in Call : Commit(c)
    BY DEF Next, Progress, Broker, BrokerMoves, SyncTrades, Receive, Upsert, Sweep, Abort, tables
  <2> QED BY <2>1, <2>2, <2>3
<1> QED BY <1>1, OrderAlways, PTL DEF Spec, OrderedSnapshotsNeverLie

(* A commit over an exact table writes what it shows already. *)
LEMMA CommitExact ==
  ASSUME OrderInv, NEW k \in Table, NEW c \in Call, Commit(c), Exact(k)
  PROVE  OpenRows(k)' = OpenRows(k)
<1>1. /\ call[c].kind \in Table /\ call[c].items \subseteq Tickets(call[c].kind)
      /\ call[c].seen \subseteq Tickets(call[c].kind) \ call[c].items
  BY DEF OrderInv, CoverInv, SweepCovers, Covers, TypeOK, CallState
<1>2. \A t \in Ticket : row'[t] = IF t \in call[c].seen THEN "STALE"
                                  ELSE IF t \in call[c].items THEN "OPEN" ELSE row[t]
  BY DEF Commit, Swept
<1>3. CASE call[c].kind # k
  <2>1. \A t \in Tickets(k) : t \in Ticket /\ t \notin Tickets(call[c].kind)
    BY <1>1, <1>3, TableTickets, ConstantsAssumption DEF Tickets, Table
  <2>2. \A t \in Tickets(k) : row'[t] = row[t]
    BY <1>1, <1>2, <2>1
  <2> QED BY <2>2 DEF OpenRows
<1>4. CASE call[c].kind = k
  <2>1. call[c].items = Tickets(k) \cap live /\ OpenRows(k) = Tickets(k) \cap live
    BY <1>4 DEF Exact, InFlight, Flying, Commit
  <2>2. \A t \in Tickets(k) : row'[t] = "OPEN" <=> t \in call[c].items
    <3> SUFFICES ASSUME NEW t \in Tickets(k) PROVE row'[t] = "OPEN" <=> t \in call[c].items
      OBVIOUS
    <3>1. t \in Ticket /\ (row[t] = "OPEN" <=> t \in call[c].items)
      BY <2>1, TableTickets DEF OpenRows
    <3> QED BY <1>1, <1>2, <3>1
  <2> QED BY <2>1, <2>2 DEF OpenRows
<1> QED BY <1>3, <1>4

(* The safety half of catching up, for any tickets and any number of calls: *)
(* while the broker rests, a table that shows what it holds, with every     *)
(* call in flight listing just that, goes on to.                            *)
THEOREM ExactStays == Spec => ExactTablesStay
<1> DEFINE Stays == UNCHANGED broker => \A k \in Table : Exact(k) => Exact(k)'
<1>1. OrderInv /\ [Next]_vars => [Stays]_vars
  <2> SUFFICES ASSUME OrderInv, Next, UNCHANGED broker, NEW k \in Table, Exact(k)
               PROVE  Exact(k)'
    OBVIOUS
  <2>0. TypeOK /\ UNCHANGED <<live, gone>>
    BY DEF OrderInv, CoverInv, broker
  <2>1. OpenRows(k) = Tickets(k) \cap live
        /\ \A d \in Call : Flying(d) /\ call[d].kind = k => call[d].items = Tickets(k) \cap live
    BY DEF Exact, InFlight
  <2>2. OpenRows(k)' = OpenRows(k)
    <3>1. CASE UNCHANGED row
      BY <3>1 DEF OpenRows
    <3>2. UNCHANGED row \/ \E c \in Call : Commit(c)
      BY DEF Next, Progress, Broker, BrokerMoves, SyncTrades, Receive, Upsert, Sweep, Abort, tables
    <3> QED BY <3>1, <3>2, CommitExact
  <2>3. \A d \in Call : Flying(d)' /\ call'[d].kind = k => call'[d].items = Tickets(k) \cap live
    <3>1. CASE Broker \/ SyncTrades
      <4>1. UNCHANGED call
        BY <3>1 DEF Broker, BrokerMoves, SyncTrades
      <4> QED BY <2>1, <4>1 DEF Flying
    <3>2. ASSUME NEW c \in Call, NEW l \in Table, Receive(c, l)
          PROVE  \A d \in Call : Flying(d)' /\ call'[d].kind = k => call'[d].items = Tickets(k) \cap live
      <4>1. call'[c].kind = l /\ call'[c].items = Tickets(l) \cap live
        BY <2>0, <3>2, ReceiveFields
      <4>2. \A d \in Call : d # c => call'[d] = call[d]
        BY <2>0, <3>2, ReceiveFields
      <4> QED BY <2>1, <4>1, <4>2 DEF Flying
    <3>3. ASSUME NEW c \in Call, (\E t \in Ticket : Upsert(c, t)) \/ Sweep(c)
          PROVE  \A d \in Call : Flying(d)' /\ call'[d].kind = k => call'[d].items = Tickets(k) \cap live
      BY <2>0, <2>1, <3>3, UpsertFields, SweepFields DEF Same
    <3>4. ASSUME NEW c \in Call, Commit(c) \/ Abort(c)
          PROVE  \A d \in Call : Flying(d)' /\ call'[d].kind = k => call'[d].items = Tickets(k) \cap live
      <4>1. Ends(c, TRUE) \/ Ends(c, FALSE)
        BY <3>4 DEF Commit, Abort
      <4> QED BY <2>0, <2>1, <4>1, EndsFields
    <3> QED BY <3>1, <3>2, <3>3, <3>4 DEF Next, Progress
  <2> QED BY <2>0, <2>1, <2>2, <2>3 DEF Exact, InFlight, Tickets
<1> QED BY <1>1, OrderAlways, PTL DEF Spec, ExactTablesStay

(* Whatever a table has ever shown, also out of an overtaken snapshot, was  *)
(* a ticket of the broker: RiskGate counts positions of such lists only.    *)
THEOREM RowsExisted == Spec => [](\A t \in Ticket : row[t] # "ABSENT" => t \in live \cup gone)
<1>1. OrderInv => \A t \in Ticket : row[t] # "ABSENT" => t \in live \cup gone
  BY DEF OrderInv, Existed
<1> QED BY <1>1, OrderAlways, PTL

===============================================================================
