----------------------- MODULE CommandLifecycleProofs -----------------------
(***************************************************************************)
(* What CommandLifecycle guarantees for every number of rows, keys, calls  *)
(* and job runs, and every interleaving of them.                           *)
(***************************************************************************)
EXTENDS CommandLifecycle, FiniteSetTheorems, TLAPS

-----------------------------------------------------------------------------
(* The inductive invariant. *)

(* A call that owes a history row owes it to the row it has just refused. *)
RejectionInFlight ==
  \A p \in Creator : creating[p].pc = "history" =>
    /\ creating[p].cmd \in Cmd
    /\ status[creating[p].cmd] = "REJECTED"
    /\ key[creating[p].cmd] = creating[p].key

(* Before its first delivery nobody can refer to a row: the terminal does   *)
(* not know it, and the jobs select only rows that were queued.             *)
Untouched(c) ==
  /\ c \notin received
  /\ deliveries[c] = 0
  /\ \A p \in Poster : posting[p].cmd # c
  /\ \A r \in Run : c \notin running[r].held

RefusedUntouched ==
  \A c \in Cmd : status[c] \in {"ABSENT", "REJECTED"} => Untouched(c)

Inv == TypeOK /\ RejectionInFlight /\ RefusedUntouched

LEMMA InvInit == Init => Inv
  BY ConstantsAssumption DEF Init, Inv, TypeOK, RejectionInFlight, RefusedUntouched, Untouched,
     NotCreating, NoRun, Idle, Status

LEMMA TypeStep == Inv /\ [Next]_vars => TypeOK'
  <1> SUFFICES ASSUME Inv, [Next]_vars PROVE TypeOK'
    OBVIOUS
  <1>1. ASSUME NEW p \in Creator, CreateStep(p)
       PROVE  TypeOK'
    <2>1. ASSUME NEW k \in Key, CreateFindsExisting(p, k)
          PROVE  TypeOK'
      BY <2>1, ConstantsAssumption
         DEF CreateFindsExisting, Holders, Answer, Inv, TypeOK, table, inFlight,
             clients, Status, Terminal, Expirable, Calls, Idle
    <2>2. ASSUME NEW k \in Key \cup {NoKey}, NEW allowed \in BOOLEAN, CreateValidates(p, k, allowed)
          PROVE  TypeOK'
      BY <2>2, ConstantsAssumption
         DEF CreateValidates, Inv, TypeOK, table, inFlight, clients, Status,
             Terminal, Expirable, Calls, Idle
    <2>3. ASSUME NEW c \in Cmd, CreateInserts(p, c)
          PROVE  TypeOK'
      <3>1. /\ status' \in [Cmd -> Status \cup {"ABSENT"}]
            /\ key' \in [Cmd -> Key \cup {NoKey}]
            /\ answers' \in [Key -> SUBSET Cmd]
        BY <2>3, ConstantsAssumption
           DEF CreateInserts, Answer, Inv, TypeOK, table, inFlight, clients,
               Status, Terminal, Expirable, Calls, Idle
      <3>2. creating' \in [Creator -> [pc : {"idle", "insert", "history"},
                                      key : Key \cup {NoKey}, allowed : BOOLEAN,
                                      cmd : Cmd \cup {NoCmd}]]
        <4>1. CASE creating[p].allowed
          <5>1. NotCreating \in [pc : {"idle", "insert", "history"},
                                  key : Key \cup {NoKey}, allowed : BOOLEAN,
                                  cmd : Cmd \cup {NoCmd}]
            BY DEF NotCreating
          <5> QED
            BY <2>3, ConstantsAssumption, <4>1, <5>1
               DEF CreateInserts, Inv, TypeOK, table, inFlight, clients,
                   Status, Terminal, Expirable, Calls, Idle
        <4>2. CASE ~creating[p].allowed
          BY <2>3, ConstantsAssumption, <4>2
             DEF CreateInserts, Inv, TypeOK, table, inFlight, clients, Status,
                 Terminal, Expirable, Calls, Idle
        <4> QED
          BY <4>1, <4>2
      <3> QED
        BY <2>3, ConstantsAssumption, <3>1, <3>2
           DEF CreateInserts, Inv, TypeOK, table, inFlight, clients, Status,
               Terminal, Expirable, Calls, Idle
    <2>4. CASE CreateCollides(p)
      BY <2>4, ConstantsAssumption
         DEF CreateCollides, Holders, Answer, NotCreating, Inv, TypeOK, table,
             inFlight, clients, Status, Terminal, Expirable, Calls, Idle
    <2>5. CASE CreateRecordsRejection(p)
      <3>1. creating[p].cmd \in Cmd
        BY <2>5, ConstantsAssumption DEF CreateRecordsRejection, RejectionInFlight, Inv
      <3> QED
        BY <2>5, ConstantsAssumption, <3>1
           DEF CreateRecordsRejection, Answer, NotCreating, Inv, TypeOK, table,
               inFlight, clients, Status, Terminal, Expirable, Calls, Idle
    <2>6. CASE KillCreate(p)
      BY <2>6, ConstantsAssumption
         DEF KillCreate, NotCreating, Inv, TypeOK, table, inFlight, clients,
             Status, Terminal, Expirable, Calls, Idle
    <2> QED
      BY <1>1, <2>1, <2>2, <2>3, <2>4, <2>5, <2>6 DEF CreateStep
  <1>2. ASSUME NEW batch \in SUBSET Cmd, NEW arrives \in BOOLEAN, Deliver(batch, arrives)
       PROVE  TypeOK'
    BY <1>2, ConstantsAssumption
       DEF Deliver, Stamp, Deliverable, Inv, TypeOK, table, inFlight, clients,
           Status, Terminal, Expirable, Calls, Idle
  <1>3. ASSUME NEW p \in Poster, PostStep(p)
       PROVE  TypeOK'
    <2>1. ASSUME NEW c \in Cmd, AcknowledgeReads(p, c)
          PROVE  TypeOK'
      BY <2>1, ConstantsAssumption
         DEF AcknowledgeReads, PostReads, Inv, TypeOK, table, inFlight, clients,
             Status, Terminal, Expirable, Calls, Idle
    <2>2. CASE AcknowledgeCommits(p)
      BY <2>2, ConstantsAssumption
         DEF AcknowledgeCommits, UpdateStatus, SetStatus, Inv, TypeOK, table,
             inFlight, clients, Status, Terminal, Expirable, Calls, Idle
    <2>3. ASSUME NEW c \in Cmd, MarkExecutingReads(p, c)
          PROVE  TypeOK'
      BY <2>3, ConstantsAssumption
         DEF MarkExecutingReads, PostReads, Inv, TypeOK, table, inFlight, clients,
             Status, Terminal, Expirable, Calls, Idle
    <2>4. CASE MarkExecutingCommits(p)
      BY <2>4, ConstantsAssumption
         DEF MarkExecutingCommits, UpdateStatus, SetStatus, Inv, TypeOK, table,
             inFlight, clients, Status, Terminal, Expirable, Calls, Idle
    <2>5. ASSUME NEW c \in Cmd, NEW result \in {"success", "failure"}, ReportResultReads(p, c, result)
          PROVE  TypeOK'
      BY <2>5, ConstantsAssumption
         DEF ReportResultReads, PostReads, Inv, TypeOK, table, inFlight, clients,
             Status, Terminal, Expirable, Calls, Idle
    <2>6. CASE ReportResultCommits(p)
      BY <2>6, ConstantsAssumption
         DEF ReportResultCommits, UpdateStatus, SetStatus, UpsertExecution, Inv,
             TypeOK, table, inFlight, clients, Status, Terminal, Expirable, Calls,
             Idle
    <2>7. CASE KillPost(p)
      BY <2>7, ConstantsAssumption
         DEF KillPost, Inv, TypeOK, table, inFlight, clients, Status, Terminal,
             Expirable, Calls, Idle
    <2> QED
      BY <1>3, <2>1, <2>2, <2>3, <2>4, <2>5, <2>6, <2>7 DEF PostStep
  <1>4. ASSUME NEW r \in Run, RunStep(r)
       PROVE  TypeOK'
    <2>1. CASE RetryReads(r)
      BY <2>1, ConstantsAssumption
         DEF RetryReads, RunReads, Abandoned, Inv, TypeOK, table, inFlight,
             clients, Status, Terminal, Expirable, Calls, Idle
    <2>2. CASE RetryCommits(r)
      BY <2>2, ConstantsAssumption
         DEF RetryCommits, SetStatus, CountRetry, Stamp, NoRun, Inv, TypeOK,
             table, inFlight, clients, Status, Terminal, Expirable, Calls, Idle
    <2>3. CASE ExpireReads(r)
      BY <2>3, ConstantsAssumption
         DEF ExpireReads, RunReads, Stale, Inv, TypeOK, table, inFlight, clients,
             Status, Terminal, Expirable, Calls, Idle
    <2>4. CASE ExpireCommits(r)
      BY <2>4, ConstantsAssumption
         DEF ExpireCommits, SetStatus, NoRun, Inv, TypeOK, table, inFlight,
             clients, Status, Terminal, Expirable, Calls, Idle
    <2>5. CASE KillRun(r)
      BY <2>5, ConstantsAssumption
         DEF KillRun, NoRun, Inv, TypeOK, table, inFlight, clients, Status,
             Terminal, Expirable, Calls, Idle
    <2> QED
      BY <1>4, <2>1, <2>2, <2>3, <2>4, <2>5 DEF RunStep
  <1>5. ASSUME NEW c \in Cmd, PassExpiry(c) \/ PassDeliveryTimeout(c)
       PROVE  TypeOK'
    <2>1. CASE PassExpiry(c)
      BY <2>1, ConstantsAssumption
         DEF PassExpiry, Inv, TypeOK, table, inFlight, clients, Status, Terminal,
             Expirable, Calls, Idle
    <2>2. CASE PassDeliveryTimeout(c)
      BY <2>2, ConstantsAssumption
         DEF PassDeliveryTimeout, Inv, TypeOK, table, inFlight, clients, Status,
             Terminal, Expirable, Calls, Idle
    <2> QED
      BY <1>5, <2>1, <2>2
  <1>6. CASE UNCHANGED vars
    BY <1>6, ConstantsAssumption
       DEF vars, Inv, TypeOK, table, inFlight, clients, Status, Terminal, Expirable,
           Calls, Idle
  <1> QED
    BY <1>1, <1>2, <1>3, <1>4, <1>5, <1>6 DEF Next

LEMMA UntouchedStep == Inv /\ [Next]_vars => RefusedUntouched'
  <1> SUFFICES ASSUME Inv, [Next]_vars PROVE RefusedUntouched'
    OBVIOUS
  <1>1. ASSUME NEW p \in Creator, CreateStep(p)
       PROVE  RefusedUntouched'
    <2>1. ASSUME NEW k \in Key, CreateFindsExisting(p, k)
          PROVE  RefusedUntouched'
      BY <2>1, ConstantsAssumption
         DEF CreateFindsExisting, Holders, Answer, Inv, TypeOK, RefusedUntouched,
             Untouched, table, inFlight, clients, Idle, Expirable
    <2>2. ASSUME NEW k \in Key \cup {NoKey}, NEW allowed \in BOOLEAN, CreateValidates(p, k, allowed)
          PROVE  RefusedUntouched'
      BY <2>2, ConstantsAssumption
         DEF CreateValidates, Inv, TypeOK, RefusedUntouched, Untouched, table,
             inFlight, clients, Idle, Expirable
    <2>3. ASSUME NEW c \in Cmd, CreateInserts(p, c)
          PROVE  RefusedUntouched'
      BY <2>3, ConstantsAssumption
         DEF CreateInserts, Answer, NotCreating, Inv, TypeOK, RefusedUntouched,
             Untouched, table, inFlight, clients, Idle, Expirable
    <2>4. CASE CreateCollides(p)
      BY <2>4, ConstantsAssumption
         DEF CreateCollides, Holders, Answer, NotCreating, Inv, TypeOK,
             RefusedUntouched, Untouched, table, inFlight, clients, Idle,
             Expirable
    <2>5. CASE CreateRecordsRejection(p)
      BY <2>5, ConstantsAssumption
         DEF CreateRecordsRejection, Answer, NotCreating, Inv, TypeOK,
             RefusedUntouched, Untouched, table, inFlight, clients, Idle,
             Expirable
    <2>6. CASE KillCreate(p)
      BY <2>6, ConstantsAssumption
         DEF KillCreate, NotCreating, Inv, TypeOK, RefusedUntouched, Untouched,
             table, inFlight, clients, Idle, Expirable
    <2> QED
      BY <1>1, <2>1, <2>2, <2>3, <2>4, <2>5, <2>6 DEF CreateStep
  <1>2. ASSUME NEW batch \in SUBSET Cmd, NEW arrives \in BOOLEAN, Deliver(batch, arrives)
       PROVE  RefusedUntouched'
    BY <1>2, ConstantsAssumption
       DEF Deliver, Stamp, Deliverable, Inv, TypeOK, RefusedUntouched, Untouched,
           table, inFlight, clients, Idle, Expirable
  <1>3. ASSUME NEW p \in Poster, PostStep(p)
       PROVE  RefusedUntouched'
    <2>1. ASSUME NEW c \in Cmd, AcknowledgeReads(p, c)
          PROVE  RefusedUntouched'
      BY <2>1, ConstantsAssumption
         DEF AcknowledgeReads, PostReads, Inv, TypeOK, RefusedUntouched,
             Untouched, table, inFlight, clients, Idle, Expirable
    <2>2. CASE AcknowledgeCommits(p)
      BY <2>2, ConstantsAssumption
         DEF AcknowledgeCommits, UpdateStatus, SetStatus, Inv, TypeOK,
             RefusedUntouched, Untouched, table, inFlight, clients, Idle,
             Expirable
    <2>3. ASSUME NEW c \in Cmd, MarkExecutingReads(p, c)
          PROVE  RefusedUntouched'
      BY <2>3, ConstantsAssumption
         DEF MarkExecutingReads, PostReads, Inv, TypeOK, RefusedUntouched,
             Untouched, table, inFlight, clients, Idle, Expirable
    <2>4. CASE MarkExecutingCommits(p)
      BY <2>4, ConstantsAssumption
         DEF MarkExecutingCommits, UpdateStatus, SetStatus, Inv, TypeOK,
             RefusedUntouched, Untouched, table, inFlight, clients, Idle,
             Expirable
    <2>5. ASSUME NEW c \in Cmd, NEW result \in {"success", "failure"}, ReportResultReads(p, c, result)
          PROVE  RefusedUntouched'
      BY <2>5, ConstantsAssumption
         DEF ReportResultReads, PostReads, Inv, TypeOK, RefusedUntouched,
             Untouched, table, inFlight, clients, Idle, Expirable
    <2>6. CASE ReportResultCommits(p)
      BY <2>6, ConstantsAssumption
         DEF ReportResultCommits, UpdateStatus, SetStatus, UpsertExecution, Inv,
             TypeOK, RefusedUntouched, Untouched, table, inFlight, clients, Idle,
             Expirable
    <2>7. CASE KillPost(p)
      BY <2>7, ConstantsAssumption
         DEF KillPost, Inv, TypeOK, RefusedUntouched, Untouched, table, inFlight,
             clients, Idle, Expirable
    <2> QED
      BY <1>3, <2>1, <2>2, <2>3, <2>4, <2>5, <2>6, <2>7 DEF PostStep
  <1>4. ASSUME NEW r \in Run, RunStep(r)
       PROVE  RefusedUntouched'
    <2>1. CASE RetryReads(r)
      BY <2>1, ConstantsAssumption
         DEF RetryReads, RunReads, Abandoned, Inv, TypeOK, RefusedUntouched,
             Untouched, table, inFlight, clients, Idle, Expirable
    <2>2. CASE RetryCommits(r)
      BY <2>2, ConstantsAssumption
         DEF RetryCommits, SetStatus, CountRetry, Stamp, NoRun, Inv, TypeOK,
             RefusedUntouched, Untouched, table, inFlight, clients, Idle,
             Expirable
    <2>3. CASE ExpireReads(r)
      BY <2>3, ConstantsAssumption
         DEF ExpireReads, RunReads, Stale, Inv, TypeOK, RefusedUntouched,
             Untouched, table, inFlight, clients, Idle, Expirable
    <2>4. CASE ExpireCommits(r)
      BY <2>4, ConstantsAssumption
         DEF ExpireCommits, SetStatus, NoRun, Inv, TypeOK, RefusedUntouched,
             Untouched, table, inFlight, clients, Idle, Expirable
    <2>5. CASE KillRun(r)
      BY <2>5, ConstantsAssumption
         DEF KillRun, NoRun, Inv, TypeOK, RefusedUntouched, Untouched, table,
             inFlight, clients, Idle, Expirable
    <2> QED
      BY <1>4, <2>1, <2>2, <2>3, <2>4, <2>5 DEF RunStep
  <1>5. ASSUME NEW c \in Cmd, PassExpiry(c) \/ PassDeliveryTimeout(c)
       PROVE  RefusedUntouched'
    <2>1. CASE PassExpiry(c)
      BY <2>1, ConstantsAssumption
         DEF PassExpiry, Inv, TypeOK, RefusedUntouched, Untouched, table,
             inFlight, clients, Idle, Expirable
    <2>2. CASE PassDeliveryTimeout(c)
      BY <2>2, ConstantsAssumption
         DEF PassDeliveryTimeout, Inv, TypeOK, RefusedUntouched, Untouched, table,
             inFlight, clients, Idle, Expirable
    <2> QED
      BY <1>5, <2>1, <2>2
  <1>6. CASE UNCHANGED vars
    BY <1>6, ConstantsAssumption
       DEF vars, Inv, TypeOK, RefusedUntouched, Untouched, table, inFlight, clients,
           Idle, Expirable
  <1> QED
    BY <1>1, <1>2, <1>3, <1>4, <1>5, <1>6 DEF Next

LEMMA RejectionStep == Inv /\ [Next]_vars => RejectionInFlight'
  <1> SUFFICES ASSUME Inv, [Next]_vars PROVE RejectionInFlight'
    OBVIOUS
  <1>1. ASSUME NEW p \in Creator, CreateStep(p)
       PROVE  RejectionInFlight'
    <2>1. ASSUME NEW k \in Key, CreateFindsExisting(p, k)
          PROVE  RejectionInFlight'
      BY <2>1, ConstantsAssumption
         DEF CreateFindsExisting, Holders, Answer, Inv, TypeOK, RejectionInFlight,
             RefusedUntouched, Untouched, table, inFlight, clients
    <2>2. ASSUME NEW k \in Key \cup {NoKey}, NEW allowed \in BOOLEAN, CreateValidates(p, k, allowed)
          PROVE  RejectionInFlight'
      BY <2>2, ConstantsAssumption
         DEF CreateValidates, Inv, TypeOK, RejectionInFlight, RefusedUntouched,
             Untouched, table, inFlight, clients
    <2>3. ASSUME NEW c \in Cmd, CreateInserts(p, c)
          PROVE  RejectionInFlight'
      BY <2>3, ConstantsAssumption, SMTT(30)
         DEF CreateInserts, Answer, NotCreating, Inv, TypeOK, RejectionInFlight,
             RefusedUntouched, Untouched, table, inFlight, clients
    <2>4. CASE CreateCollides(p)
      BY <2>4, ConstantsAssumption
         DEF CreateCollides, Holders, Answer, NotCreating, Inv, TypeOK,
             RejectionInFlight, RefusedUntouched, Untouched, table, inFlight,
             clients
    <2>5. CASE CreateRecordsRejection(p)
      BY <2>5, ConstantsAssumption
         DEF CreateRecordsRejection, Answer, NotCreating, Inv, TypeOK,
             RejectionInFlight, RefusedUntouched, Untouched, table, inFlight,
             clients
    <2>6. CASE KillCreate(p)
      BY <2>6, ConstantsAssumption
         DEF KillCreate, NotCreating, Inv, TypeOK, RejectionInFlight,
             RefusedUntouched, Untouched, table, inFlight, clients
    <2> QED
      BY <1>1, <2>1, <2>2, <2>3, <2>4, <2>5, <2>6 DEF CreateStep
  <1>2. ASSUME NEW batch \in SUBSET Cmd, NEW arrives \in BOOLEAN, Deliver(batch, arrives)
       PROVE  RejectionInFlight'
    BY <1>2, ConstantsAssumption
       DEF Deliver, Stamp, Deliverable, Inv, TypeOK, RejectionInFlight,
           RefusedUntouched, Untouched, table, inFlight, clients
  <1>3. ASSUME NEW p \in Poster, PostStep(p)
       PROVE  RejectionInFlight'
    <2>1. ASSUME NEW c \in Cmd, AcknowledgeReads(p, c)
          PROVE  RejectionInFlight'
      BY <2>1, ConstantsAssumption
         DEF AcknowledgeReads, PostReads, Inv, TypeOK, RejectionInFlight,
             RefusedUntouched, Untouched, table, inFlight, clients
    <2>2. CASE AcknowledgeCommits(p)
      BY <2>2, ConstantsAssumption
         DEF AcknowledgeCommits, UpdateStatus, SetStatus, Inv, TypeOK,
             RejectionInFlight, RefusedUntouched, Untouched, table, inFlight,
             clients
    <2>3. ASSUME NEW c \in Cmd, MarkExecutingReads(p, c)
          PROVE  RejectionInFlight'
      BY <2>3, ConstantsAssumption
         DEF MarkExecutingReads, PostReads, Inv, TypeOK, RejectionInFlight,
             RefusedUntouched, Untouched, table, inFlight, clients
    <2>4. CASE MarkExecutingCommits(p)
      BY <2>4, ConstantsAssumption
         DEF MarkExecutingCommits, UpdateStatus, SetStatus, Inv, TypeOK,
             RejectionInFlight, RefusedUntouched, Untouched, table, inFlight,
             clients
    <2>5. ASSUME NEW c \in Cmd, NEW result \in {"success", "failure"}, ReportResultReads(p, c, result)
          PROVE  RejectionInFlight'
      BY <2>5, ConstantsAssumption
         DEF ReportResultReads, PostReads, Inv, TypeOK, RejectionInFlight,
             RefusedUntouched, Untouched, table, inFlight, clients
    <2>6. CASE ReportResultCommits(p)
      BY <2>6, ConstantsAssumption
         DEF ReportResultCommits, UpdateStatus, SetStatus, UpsertExecution, Inv,
             TypeOK, RejectionInFlight, RefusedUntouched, Untouched, table,
             inFlight, clients
    <2>7. CASE KillPost(p)
      BY <2>7, ConstantsAssumption
         DEF KillPost, Inv, TypeOK, RejectionInFlight, RefusedUntouched,
             Untouched, table, inFlight, clients
    <2> QED
      BY <1>3, <2>1, <2>2, <2>3, <2>4, <2>5, <2>6, <2>7 DEF PostStep
  <1>4. ASSUME NEW r \in Run, RunStep(r)
       PROVE  RejectionInFlight'
    <2>1. CASE RetryReads(r)
      BY <2>1, ConstantsAssumption
         DEF RetryReads, RunReads, Abandoned, Inv, TypeOK, RejectionInFlight,
             RefusedUntouched, Untouched, table, inFlight, clients
    <2>2. CASE RetryCommits(r)
      BY <2>2, ConstantsAssumption
         DEF RetryCommits, SetStatus, CountRetry, Stamp, NoRun, Inv, TypeOK,
             RejectionInFlight, RefusedUntouched, Untouched, table, inFlight,
             clients
    <2>3. CASE ExpireReads(r)
      BY <2>3, ConstantsAssumption
         DEF ExpireReads, RunReads, Stale, Inv, TypeOK, RejectionInFlight,
             RefusedUntouched, Untouched, table, inFlight, clients
    <2>4. CASE ExpireCommits(r)
      BY <2>4, ConstantsAssumption
         DEF ExpireCommits, SetStatus, NoRun, Inv, TypeOK, RejectionInFlight,
             RefusedUntouched, Untouched, table, inFlight, clients
    <2>5. CASE KillRun(r)
      BY <2>5, ConstantsAssumption
         DEF KillRun, NoRun, Inv, TypeOK, RejectionInFlight, RefusedUntouched,
             Untouched, table, inFlight, clients
    <2> QED
      BY <1>4, <2>1, <2>2, <2>3, <2>4, <2>5 DEF RunStep
  <1>5. ASSUME NEW c \in Cmd, PassExpiry(c) \/ PassDeliveryTimeout(c)
       PROVE  RejectionInFlight'
    <2>1. CASE PassExpiry(c)
      BY <2>1, ConstantsAssumption
         DEF PassExpiry, Inv, TypeOK, RejectionInFlight, RefusedUntouched,
             Untouched, table, inFlight, clients
    <2>2. CASE PassDeliveryTimeout(c)
      BY <2>2, ConstantsAssumption
         DEF PassDeliveryTimeout, Inv, TypeOK, RejectionInFlight,
             RefusedUntouched, Untouched, table, inFlight, clients
    <2> QED
      BY <1>5, <2>1, <2>2
  <1>6. CASE UNCHANGED vars
    BY <1>6, ConstantsAssumption
       DEF vars, Inv, TypeOK, RejectionInFlight, RefusedUntouched, Untouched, table,
           inFlight, clients
  <1> QED
    BY <1>1, <1>2, <1>3, <1>4, <1>5, <1>6 DEF Next

THEOREM InvHolds == Spec => []Inv
  <1>1. Inv /\ [Next]_vars => Inv'
    BY TypeStep, UntouchedStep, RejectionStep DEF Inv
  <1> QED
    BY InvInit, <1>1, PTL DEF Spec

(* Every variable keeps its type: no call or job ever writes a row that      *)
(* does not exist or a status that is not one.                               *)
THEOREM TypeCorrect == Spec => []TypeOK
  <1>1. Inv => TypeOK
    BY DEF Inv
  <1> QED
    BY InvHolds, <1>1, PTL

-----------------------------------------------------------------------------
(* A refused command stays refused.                                         *)
LEMMA RejectedStep ==
  Inv /\ [Next]_vars =>
    \A c \in Cmd : status[c] = "REJECTED" => status'[c] = "REJECTED" /\ deliveries'[c] = 0
  <1> DEFINE Stays(c) == status'[c] = "REJECTED" /\ deliveries'[c] = 0
  <1> SUFFICES ASSUME Inv, [Next]_vars, NEW x \in Cmd, status[x] = "REJECTED"
               PROVE  Stays(x)
    OBVIOUS
  <1>a. Untouched(x)
    BY DEF Inv, RefusedUntouched

  <1>1. ASSUME NEW p \in Creator, CreateStep(p)
       PROVE  Stays(x)
    <2>1. ASSUME NEW k \in Key, CreateFindsExisting(p, k)
          PROVE  Stays(x)
      BY <2>1, <1>a
         DEF CreateFindsExisting, Holders, Answer, Inv, TypeOK, Untouched, table,
             inFlight, clients
    <2>2. ASSUME NEW k \in Key \cup {NoKey}, NEW allowed \in BOOLEAN, CreateValidates(p, k, allowed)
          PROVE  Stays(x)
      BY <2>2, <1>a DEF CreateValidates, Inv, TypeOK, Untouched, table, inFlight, clients
    <2>3. ASSUME NEW c \in Cmd, CreateInserts(p, c)
          PROVE  Stays(x)
      BY <2>3, <1>a
         DEF CreateInserts, Answer, NotCreating, Inv, TypeOK, Untouched, table,
             inFlight, clients
    <2>4. CASE CreateCollides(p)
      BY <2>4, <1>a
         DEF CreateCollides, Holders, Answer, NotCreating, Inv, TypeOK, Untouched,
             table, inFlight, clients
    <2>5. CASE CreateRecordsRejection(p)
      BY <2>5, <1>a
         DEF CreateRecordsRejection, Answer, NotCreating, Inv, TypeOK, Untouched,
             table, inFlight, clients
    <2>6. CASE KillCreate(p)
      BY <2>6, <1>a DEF KillCreate, NotCreating, Inv, TypeOK, Untouched, table, inFlight, clients
    <2> QED
      BY <1>1, <2>1, <2>2, <2>3, <2>4, <2>5, <2>6 DEF CreateStep
  <1>2. ASSUME NEW batch \in SUBSET Cmd, NEW arrives \in BOOLEAN, Deliver(batch, arrives)
       PROVE  Stays(x)
    BY <1>2, <1>a DEF Deliver, Stamp, Deliverable, Inv, TypeOK, Untouched, table, inFlight, clients
  <1>3. ASSUME NEW p \in Poster, PostStep(p)
       PROVE  Stays(x)
    <2>1. ASSUME NEW c \in Cmd, AcknowledgeReads(p, c)
          PROVE  Stays(x)
      BY <2>1, <1>a
         DEF AcknowledgeReads, PostReads, Inv, TypeOK, Untouched, table, inFlight,
             clients
    <2>2. CASE AcknowledgeCommits(p)
      BY <2>2, <1>a
         DEF AcknowledgeCommits, UpdateStatus, SetStatus, Inv, TypeOK, Untouched,
             table, inFlight, clients
    <2>3. ASSUME NEW c \in Cmd, MarkExecutingReads(p, c)
          PROVE  Stays(x)
      BY <2>3, <1>a
         DEF MarkExecutingReads, PostReads, Inv, TypeOK, Untouched, table,
             inFlight, clients
    <2>4. CASE MarkExecutingCommits(p)
      BY <2>4, <1>a
         DEF MarkExecutingCommits, UpdateStatus, SetStatus, Inv, TypeOK,
             Untouched, table, inFlight, clients
    <2>5. ASSUME NEW c \in Cmd, NEW result \in {"success", "failure"}, ReportResultReads(p, c, result)
          PROVE  Stays(x)
      BY <2>5, <1>a
         DEF ReportResultReads, PostReads, Inv, TypeOK, Untouched, table,
             inFlight, clients
    <2>6. CASE ReportResultCommits(p)
      BY <2>6, <1>a
         DEF ReportResultCommits, UpdateStatus, SetStatus, UpsertExecution, Inv,
             TypeOK, Untouched, table, inFlight, clients
    <2>7. CASE KillPost(p)
      BY <2>7, <1>a DEF KillPost, Inv, TypeOK, Untouched, table, inFlight, clients
    <2> QED
      BY <1>3, <2>1, <2>2, <2>3, <2>4, <2>5, <2>6, <2>7 DEF PostStep
  <1>4. ASSUME NEW r \in Run, RunStep(r)
       PROVE  Stays(x)
    <2>1. CASE RetryReads(r)
      BY <2>1, <1>a
         DEF RetryReads, RunReads, Abandoned, Inv, TypeOK, Untouched, table,
             inFlight, clients
    <2>2. CASE RetryCommits(r)
      BY <2>2, <1>a
         DEF RetryCommits, SetStatus, CountRetry, Stamp, NoRun, Inv, TypeOK,
             Untouched, table, inFlight, clients
    <2>3. CASE ExpireReads(r)
      BY <2>3, <1>a
         DEF ExpireReads, RunReads, Stale, Inv, TypeOK, Untouched, table,
             inFlight, clients
    <2>4. CASE ExpireCommits(r)
      BY <2>4, <1>a
         DEF ExpireCommits, SetStatus, NoRun, Inv, TypeOK, Untouched, table,
             inFlight, clients
    <2>5. CASE KillRun(r)
      BY <2>5, <1>a DEF KillRun, NoRun, Inv, TypeOK, Untouched, table, inFlight, clients
    <2> QED
      BY <1>4, <2>1, <2>2, <2>3, <2>4, <2>5 DEF RunStep
  <1>5. ASSUME NEW c \in Cmd, PassExpiry(c) \/ PassDeliveryTimeout(c)
       PROVE  Stays(x)
    <2>1. CASE PassExpiry(c)
      BY <2>1, <1>a DEF PassExpiry, Inv, TypeOK, Untouched, table, inFlight, clients
    <2>2. CASE PassDeliveryTimeout(c)
      BY <2>2, <1>a DEF PassDeliveryTimeout, Inv, TypeOK, Untouched, table, inFlight, clients
    <2> QED
      BY <1>5, <2>1, <2>2
  <1>6. CASE UNCHANGED vars
    BY <1>6, <1>a DEF vars, Inv, TypeOK, Untouched, table, inFlight, clients
  <1> QED
    BY <1>1, <1>2, <1>3, <1>4, <1>5, <1>6 DEF Next

(* The risk gate's refusal is final: no delivery, job or late post moves a   *)
(* REJECTED row, and it is never handed out.                                 *)
THEOREM RejectionIsFinal == Spec => RejectedIsFinal
  BY InvHolds, RejectedStep, PTL DEF Spec, RejectedIsFinal

-----------------------------------------------------------------------------
(* A row is handed out once per requeue, and once more.                     *)
HandOutBudget ==
  \A c \in Cmd :
    deliveries[c] <= retryCount[c] + IF status[c] \in {"ABSENT", "QUEUED"} THEN 0 ELSE 1

LEMMA HandOutStep == Inv /\ HandOutBudget /\ [Next]_vars => HandOutBudget'
  <1> SUFFICES ASSUME Inv, HandOutBudget, [Next]_vars PROVE HandOutBudget'
    OBVIOUS
  <1>1. ASSUME NEW p \in Creator, CreateStep(p)
       PROVE  HandOutBudget'
    <2>1. ASSUME NEW k \in Key, CreateFindsExisting(p, k)
          PROVE  HandOutBudget'
      BY <2>1
         DEF CreateFindsExisting, Holders, Answer, Inv, TypeOK, HandOutBudget,
             RefusedUntouched, Untouched, table, inFlight, clients
    <2>2. ASSUME NEW k \in Key \cup {NoKey}, NEW allowed \in BOOLEAN, CreateValidates(p, k, allowed)
          PROVE  HandOutBudget'
      BY <2>2
         DEF CreateValidates, Inv, TypeOK, HandOutBudget, RefusedUntouched,
             Untouched, table, inFlight, clients
    <2>3. ASSUME NEW c \in Cmd, CreateInserts(p, c)
          PROVE  HandOutBudget'
      BY <2>3
         DEF CreateInserts, Answer, NotCreating, Inv, TypeOK, HandOutBudget,
             RefusedUntouched, Untouched, table, inFlight, clients
    <2>4. CASE CreateCollides(p)
      BY <2>4
         DEF CreateCollides, Holders, Answer, NotCreating, Inv, TypeOK,
             HandOutBudget, RefusedUntouched, Untouched, table, inFlight, clients
    <2>5. CASE CreateRecordsRejection(p)
      BY <2>5
         DEF CreateRecordsRejection, Answer, NotCreating, Inv, TypeOK,
             HandOutBudget, RefusedUntouched, Untouched, table, inFlight, clients
    <2>6. CASE KillCreate(p)
      BY <2>6
         DEF KillCreate, NotCreating, Inv, TypeOK, HandOutBudget,
             RefusedUntouched, Untouched, table, inFlight, clients
    <2> QED
      BY <1>1, <2>1, <2>2, <2>3, <2>4, <2>5, <2>6 DEF CreateStep
  <1>2. ASSUME NEW batch \in SUBSET Cmd, NEW arrives \in BOOLEAN, Deliver(batch, arrives)
       PROVE  HandOutBudget'
    BY <1>2
       DEF Deliver, Stamp, Deliverable, Inv, TypeOK, HandOutBudget,
           RefusedUntouched, Untouched, table, inFlight, clients
  <1>3. ASSUME NEW p \in Poster, PostStep(p)
       PROVE  HandOutBudget'
    <2>1. ASSUME NEW c \in Cmd, AcknowledgeReads(p, c)
          PROVE  HandOutBudget'
      BY <2>1
         DEF AcknowledgeReads, PostReads, Inv, TypeOK, HandOutBudget,
             RefusedUntouched, Untouched, table, inFlight, clients
    <2>2. CASE AcknowledgeCommits(p)
      BY <2>2
         DEF AcknowledgeCommits, UpdateStatus, SetStatus, Inv, TypeOK,
             HandOutBudget, RefusedUntouched, Untouched, table, inFlight, clients
    <2>3. ASSUME NEW c \in Cmd, MarkExecutingReads(p, c)
          PROVE  HandOutBudget'
      BY <2>3
         DEF MarkExecutingReads, PostReads, Inv, TypeOK, HandOutBudget,
             RefusedUntouched, Untouched, table, inFlight, clients
    <2>4. CASE MarkExecutingCommits(p)
      BY <2>4
         DEF MarkExecutingCommits, UpdateStatus, SetStatus, Inv, TypeOK,
             HandOutBudget, RefusedUntouched, Untouched, table, inFlight, clients
    <2>5. ASSUME NEW c \in Cmd, NEW result \in {"success", "failure"}, ReportResultReads(p, c, result)
          PROVE  HandOutBudget'
      BY <2>5
         DEF ReportResultReads, PostReads, Inv, TypeOK, HandOutBudget,
             RefusedUntouched, Untouched, table, inFlight, clients
    <2>6. CASE ReportResultCommits(p)
      BY <2>6
         DEF ReportResultCommits, UpdateStatus, SetStatus, UpsertExecution, Inv,
             TypeOK, HandOutBudget, RefusedUntouched, Untouched, table, inFlight,
             clients
    <2>7. CASE KillPost(p)
      BY <2>7
         DEF KillPost, Inv, TypeOK, HandOutBudget, RefusedUntouched, Untouched,
             table, inFlight, clients
    <2> QED
      BY <1>3, <2>1, <2>2, <2>3, <2>4, <2>5, <2>6, <2>7 DEF PostStep
  <1>4. ASSUME NEW r \in Run, RunStep(r)
       PROVE  HandOutBudget'
    <2>1. CASE RetryReads(r)
      BY <2>1
         DEF RetryReads, RunReads, Abandoned, Inv, TypeOK, HandOutBudget,
             RefusedUntouched, Untouched, table, inFlight, clients
    <2>2. CASE RetryCommits(r)
      BY <2>2
         DEF RetryCommits, SetStatus, CountRetry, Stamp, NoRun, Inv, TypeOK,
             HandOutBudget, RefusedUntouched, Untouched, table, inFlight, clients
    <2>3. CASE ExpireReads(r)
      BY <2>3
         DEF ExpireReads, RunReads, Stale, Inv, TypeOK, HandOutBudget,
             RefusedUntouched, Untouched, table, inFlight, clients
    <2>4. CASE ExpireCommits(r)
      BY <2>4
         DEF ExpireCommits, SetStatus, NoRun, Inv, TypeOK, HandOutBudget,
             RefusedUntouched, Untouched, table, inFlight, clients
    <2>5. CASE KillRun(r)
      BY <2>5
         DEF KillRun, NoRun, Inv, TypeOK, HandOutBudget, RefusedUntouched,
             Untouched, table, inFlight, clients
    <2> QED
      BY <1>4, <2>1, <2>2, <2>3, <2>4, <2>5 DEF RunStep
  <1>5. ASSUME NEW c \in Cmd, PassExpiry(c) \/ PassDeliveryTimeout(c)
       PROVE  HandOutBudget'
    <2>1. CASE PassExpiry(c)
      BY <2>1
         DEF PassExpiry, Inv, TypeOK, HandOutBudget, RefusedUntouched, Untouched,
             table, inFlight, clients
    <2>2. CASE PassDeliveryTimeout(c)
      BY <2>2
         DEF PassDeliveryTimeout, Inv, TypeOK, HandOutBudget, RefusedUntouched,
             Untouched, table, inFlight, clients
    <2> QED
      BY <1>5, <2>1, <2>2
  <1>6. CASE UNCHANGED vars
    BY <1>6
       DEF vars, Inv, TypeOK, HandOutBudget, RefusedUntouched, Untouched, table,
           inFlight, clients
  <1> QED
    BY <1>1, <1>2, <1>3, <1>4, <1>5, <1>6 DEF Next

(* However polls, posts and job runs overlap, a row is handed to the         *)
(* terminal at most once more than it was requeued.                          *)
THEOREM HandOutsBounded == Spec => []HandedOutOncePerRequeue
  <1>1. Init => HandOutBudget
    BY DEF Init, HandOutBudget
  <1>2. Inv /\ HandOutBudget => HandedOutOncePerRequeue
    BY DEF Inv, TypeOK, HandOutBudget, HandedOutOncePerRequeue
  <1> QED
    BY InvHolds, <1>1, <1>2, HandOutStep, PTL DEF Spec

-----------------------------------------------------------------------------
(* The requeue count.  A run that read a row at retryCount < MaxRetry adds   *)
(* one to it even if others did so in between; each run holds the row once.  *)
Requeuers(c) == {r \in Run : running[r].job = "requeue" /\ c \in running[r].held}

WithinBudget(c) ==
  \/ retryCount[c] = 0 /\ Requeuers(c) = {}
  \/ retryCount[c] + Cardinality(Requeuers(c)) < MaxRetry + Cardinality(Run)

RetryBudget == \A c \in Cmd : WithinBudget(c)

LEMMA RequeuersFinite ==
  ASSUME NEW c \in Cmd
  PROVE  /\ IsFiniteSet(Requeuers(c))
         /\ Cardinality(Requeuers(c)) \in Nat
         /\ Cardinality(Run) \in Nat
         /\ Cardinality(Requeuers(c)) <= Cardinality(Run)
  <1>1. Requeuers(c) \subseteq Run
    BY DEF Requeuers
  <1> QED
    BY <1>1, ConstantsAssumption, FS_Subset, FS_CardinalityType

LEMMA RequeuersFiniteNext ==
  ASSUME NEW c \in Cmd
  PROVE  /\ IsFiniteSet(Requeuers(c)')
         /\ Cardinality(Requeuers(c)') \in Nat
         /\ Cardinality(Requeuers(c)') <= Cardinality(Run)
  <1>1. Requeuers(c)' \subseteq Run
    BY DEF Requeuers
  <1> QED
    BY <1>1, ConstantsAssumption, FS_Subset, FS_CardinalityType

(* Everything but a job run leaves the counts and the runs alone. *)
LEMMA OnlyRunsRequeue ==
  [Next]_vars => \/ \E r \in Run : RunStep(r)
                 \/ UNCHANGED <<running, retryCount>>
  BY DEF Next, CreateStep, PostStep, vars, table, inFlight, CreateFindsExisting, CreateValidates,
         CreateInserts, CreateCollides, CreateRecordsRejection, KillCreate, Deliver,
         AcknowledgeReads, AcknowledgeCommits, MarkExecutingReads, MarkExecutingCommits,
         ReportResultReads, ReportResultCommits, PostReads, UpdateStatus, KillPost,
         PassExpiry, PassDeliveryTimeout

LEMMA RetryBudgetStep == Inv /\ RetryBudget /\ [Next]_vars => RetryBudget'
  <1> SUFFICES ASSUME Inv, RetryBudget, [Next]_vars, NEW c \in Cmd
               PROVE  WithinBudget(c)'
    BY DEF RetryBudget
  <1>a. WithinBudget(c) /\ retryCount[c] \in Nat /\ MaxRetry \in Nat
    BY ConstantsAssumption DEF RetryBudget, Inv, TypeOK
  <1>b. /\ IsFiniteSet(Requeuers(c))
        /\ Cardinality(Requeuers(c)) \in Nat
        /\ Cardinality(Run) \in Nat
    BY RequeuersFinite
  <1>c. /\ IsFiniteSet(Requeuers(c)')
        /\ Cardinality(Requeuers(c)') \in Nat
        /\ Cardinality(Requeuers(c)') <= Cardinality(Run)
    BY RequeuersFiniteNext
  <1>1. ASSUME Requeuers(c)' \subseteq Requeuers(c), retryCount'[c] = retryCount[c]
        PROVE  WithinBudget(c)'
    <2>1. Cardinality(Requeuers(c)') <= Cardinality(Requeuers(c))
      BY <1>1, <1>b, FS_Subset
    <2>2. CASE retryCount[c] = 0 /\ Requeuers(c) = {}
      BY <1>1, <2>2 DEF WithinBudget
    <2>3. CASE retryCount[c] + Cardinality(Requeuers(c)) < MaxRetry + Cardinality(Run)
      <3>1. retryCount'[c] + Cardinality(Requeuers(c)') < MaxRetry + Cardinality(Run)
        BY <1>1, <1>a, <1>b, <1>c, <2>1, <2>3
      <3> QED
        BY <3>1 DEF WithinBudget
    <2> QED
      BY <1>a, <2>2, <2>3 DEF WithinBudget
  <1>2. ASSUME NEW r \in Run, RunStep(r)
        PROVE  WithinBudget(c)'
    <2>1. CASE RetryReads(r)
      <3>1. CASE retryCount[c] < MaxRetry
        <4>1. retryCount'[c] = retryCount[c]
          BY <2>1 DEF RetryReads, RunReads, table
        <4>2. retryCount'[c] + Cardinality(Requeuers(c)') < MaxRetry + Cardinality(Run)
          BY <1>a, <1>b, <1>c, <3>1, <4>1
        <4> QED
          BY <4>2 DEF WithinBudget
      <3>2. CASE ~(retryCount[c] < MaxRetry)
        BY <1>1, <2>1, <3>2
           DEF RetryReads, RunReads, Abandoned, Requeuers, Inv, TypeOK, table, NoRun
      <3> QED
        BY <3>1, <3>2
    <2>2. CASE RetryCommits(r)
      <3>1. CASE c \in running[r].held
        <4>1. r \in Requeuers(c) /\ Requeuers(c)' = Requeuers(c) \ {r}
          BY <2>2, <3>1 DEF RetryCommits, Requeuers, Inv, TypeOK, NoRun
        <4>2. Cardinality(Requeuers(c)') = Cardinality(Requeuers(c)) - 1
          BY <4>1, <1>b, FS_RemoveElement
        <4>3. retryCount'[c] = retryCount[c] + 1
          BY <2>2, <3>1 DEF RetryCommits, CountRetry
        <4>4. retryCount[c] + Cardinality(Requeuers(c)) < MaxRetry + Cardinality(Run)
          BY <1>a, <4>1 DEF WithinBudget
        <4>5. retryCount'[c] + Cardinality(Requeuers(c)') < MaxRetry + Cardinality(Run)
          BY <1>a, <1>b, <4>2, <4>3, <4>4
        <4> QED
          BY <4>5 DEF WithinBudget
      <3>2. CASE c \notin running[r].held
        BY <1>1, <2>2, <3>2 DEF RetryCommits, CountRetry, Requeuers, Inv, TypeOK, NoRun
      <3> QED
        BY <3>1, <3>2
    <2>3. CASE ExpireReads(r)
      BY <1>1, <2>3 DEF ExpireReads, RunReads, Requeuers, Inv, TypeOK, table
    <2>4. CASE ExpireCommits(r)
      BY <1>1, <2>4 DEF ExpireCommits, Requeuers, Inv, TypeOK, NoRun
    <2>5. CASE KillRun(r)
      BY <1>1, <2>5 DEF KillRun, Requeuers, Inv, TypeOK, table, NoRun
    <2> QED
      BY <1>2, <2>1, <2>2, <2>3, <2>4, <2>5 DEF RunStep
  <1>3. CASE UNCHANGED <<running, retryCount>>
    BY <1>1, <1>3 DEF Requeuers
  <1> QED
    BY <1>2, <1>3, OnlyRunsRequeue

(* Overlapping requeue runs overshoot MAX_COMMAND_RETRY_COUNT by at most one *)
(* per extra run; with one run at a time the limit is exact.                 *)
THEOREM RetriesAreBounded == Spec => []RetriesBounded
  <1>1. Init => RetryBudget
    BY DEF Init, RetryBudget, WithinBudget, Requeuers, NoRun
  <1>2. ASSUME Inv, RetryBudget PROVE RetriesBounded
    <2> SUFFICES ASSUME NEW c \in Cmd, retryCount[c] # 0
                 PROVE  retryCount[c] < MaxRetry + Cardinality(Run)
      BY DEF RetriesBounded
    <2>1. retryCount[c] + Cardinality(Requeuers(c)) < MaxRetry + Cardinality(Run)
      BY <1>2 DEF RetryBudget, WithinBudget
    <2>2. retryCount[c] \in Nat /\ MaxRetry \in Nat
      BY <1>2, ConstantsAssumption DEF Inv, TypeOK
    <2> QED
      BY <2>1, <2>2, RequeuersFinite
  <1> QED
    BY InvHolds, <1>1, <1>2, RetryBudgetStep, PTL DEF Spec

-----------------------------------------------------------------------------
(* Columns of one row that different handlers write.                        *)
RowsConsistent ==
  \A c \in Cmd :
    /\ status[c] = "ABSENT" => history[c] = "none"
    /\ status[c] \in {"ABSENT", "QUEUED", "REJECTED"} => deliveredAt[c] = "null"
    /\ status[c] = "DELIVERED" => deliveredAt[c] # "null"
    /\ status[c] = "COMPLETED" => execution[c] = "success"
    /\ status[c] = "FAILED" => execution[c] = "failure"
    /\ status[c] \in {"QUEUED", "DELIVERED"} => history[c] \in {"none", "QUEUED"}
    /\ status[c] = "REJECTED" => history[c] \in {"none", "REJECTED"}
    /\ status[c] \notin {"ABSENT", "QUEUED", "DELIVERED", "REJECTED"} => history[c] = status[c]

LEMMA RowsStep == Inv /\ RowsConsistent /\ [Next]_vars => RowsConsistent'
  <1> SUFFICES ASSUME Inv, RowsConsistent, [Next]_vars PROVE RowsConsistent'
    OBVIOUS
  <1>1. ASSUME NEW p \in Creator, CreateStep(p)
       PROVE  RowsConsistent'
    <2>1. ASSUME NEW k \in Key, CreateFindsExisting(p, k)
          PROVE  RowsConsistent'
      BY <2>1
         DEF CreateFindsExisting, Holders, Answer, Inv, TypeOK, RowsConsistent,
             table, inFlight, clients
    <2>2. ASSUME NEW k \in Key \cup {NoKey}, NEW allowed \in BOOLEAN, CreateValidates(p, k, allowed)
          PROVE  RowsConsistent'
      BY <2>2 DEF CreateValidates, Inv, TypeOK, RowsConsistent, table, inFlight, clients
    <2>3. ASSUME NEW c \in Cmd, CreateInserts(p, c)
          PROVE  RowsConsistent'
      BY <2>3
         DEF CreateInserts, Answer, NotCreating, Inv, TypeOK, RowsConsistent,
             table, inFlight, clients
    <2>4. CASE CreateCollides(p)
      BY <2>4
         DEF CreateCollides, Holders, Answer, NotCreating, Inv, TypeOK,
             RowsConsistent, table, inFlight, clients
    <2>5. CASE CreateRecordsRejection(p)
      BY <2>5
         DEF CreateRecordsRejection, RejectionInFlight, RefusedUntouched,
             Untouched, Inv, TypeOK, RowsConsistent, table, inFlight, clients
    <2>6. CASE KillCreate(p)
      BY <2>6 DEF KillCreate, NotCreating, Inv, TypeOK, RowsConsistent, table, inFlight, clients
    <2> QED
      BY <1>1, <2>1, <2>2, <2>3, <2>4, <2>5, <2>6 DEF CreateStep
  <1>2. ASSUME NEW batch \in SUBSET Cmd, NEW arrives \in BOOLEAN, Deliver(batch, arrives)
       PROVE  RowsConsistent'
    BY <1>2 DEF Deliver, Stamp, Deliverable, Inv, TypeOK, RowsConsistent, table, inFlight, clients
  <1>3. ASSUME NEW p \in Poster, PostStep(p)
       PROVE  RowsConsistent'
    <2>1. ASSUME NEW c \in Cmd, AcknowledgeReads(p, c)
          PROVE  RowsConsistent'
      BY <2>1 DEF AcknowledgeReads, PostReads, Inv, TypeOK, RowsConsistent, table, inFlight, clients
    <2>2. CASE AcknowledgeCommits(p)
      BY <2>2
         DEF AcknowledgeCommits, UpdateStatus, SetStatus, RefusedUntouched,
             Untouched, Idle, Inv, TypeOK, RowsConsistent, table, inFlight,
             clients
    <2>3. ASSUME NEW c \in Cmd, MarkExecutingReads(p, c)
          PROVE  RowsConsistent'
      BY <2>3
         DEF MarkExecutingReads, PostReads, Inv, TypeOK, RowsConsistent, table,
             inFlight, clients
    <2>4. CASE MarkExecutingCommits(p)
      BY <2>4
         DEF MarkExecutingCommits, UpdateStatus, SetStatus, RefusedUntouched,
             Untouched, Idle, Inv, TypeOK, RowsConsistent, table, inFlight,
             clients
    <2>5. ASSUME NEW c \in Cmd, NEW result \in {"success", "failure"}, ReportResultReads(p, c, result)
          PROVE  RowsConsistent'
      BY <2>5
         DEF ReportResultReads, PostReads, Inv, TypeOK, RowsConsistent, table,
             inFlight, clients
    <2>6. CASE ReportResultCommits(p)
      BY <2>6
         DEF ReportResultCommits, UpdateStatus, SetStatus, UpsertExecution,
             RefusedUntouched, Untouched, Idle, Inv, TypeOK, RowsConsistent,
             table, inFlight, clients
    <2>7. CASE KillPost(p)
      BY <2>7 DEF KillPost, Inv, TypeOK, RowsConsistent, table, inFlight, clients
    <2> QED
      BY <1>3, <2>1, <2>2, <2>3, <2>4, <2>5, <2>6, <2>7 DEF PostStep
  <1>4. ASSUME NEW r \in Run, RunStep(r)
       PROVE  RowsConsistent'
    <2>1. CASE RetryReads(r)
      BY <2>1
         DEF RetryReads, RunReads, Abandoned, Inv, TypeOK, RowsConsistent, table,
             inFlight, clients
    <2>2. CASE RetryCommits(r)
      BY <2>2
         DEF RetryCommits, SetStatus, Stamp, RejectionInFlight, RefusedUntouched,
             Untouched, Inv, TypeOK, RowsConsistent, table, inFlight, clients
    <2>3. CASE ExpireReads(r)
      BY <2>3
         DEF ExpireReads, RunReads, Stale, Inv, TypeOK, RowsConsistent, table,
             inFlight, clients
    <2>4. CASE ExpireCommits(r)
      BY <2>4
         DEF ExpireCommits, SetStatus, RejectionInFlight, RefusedUntouched,
             Untouched, Inv, TypeOK, RowsConsistent, table, inFlight, clients
    <2>5. CASE KillRun(r)
      BY <2>5 DEF KillRun, NoRun, Inv, TypeOK, RowsConsistent, table, inFlight, clients
    <2> QED
      BY <1>4, <2>1, <2>2, <2>3, <2>4, <2>5 DEF RunStep
  <1>5. ASSUME NEW c \in Cmd, PassExpiry(c) \/ PassDeliveryTimeout(c)
       PROVE  RowsConsistent'
    <2>1. CASE PassExpiry(c)
      BY <2>1 DEF PassExpiry, Inv, TypeOK, RowsConsistent, table, inFlight, clients
    <2>2. CASE PassDeliveryTimeout(c)
      BY <2>2 DEF PassDeliveryTimeout, Inv, TypeOK, RowsConsistent, table, inFlight, clients
    <2> QED
      BY <1>5, <2>1, <2>2
  <1>6. CASE UNCHANGED vars
    BY <1>6 DEF vars, Inv, TypeOK, RowsConsistent, table, inFlight, clients
  <1> QED
    BY <1>1, <1>2, <1>3, <1>4, <1>5, <1>6 DEF Next

LEMMA RowsAlwaysConsistent == Spec => []RowsConsistent
  <1>1. Init => RowsConsistent
    BY DEF Init, RowsConsistent
  <1> QED
    BY InvHolds, <1>1, RowsStep, PTL DEF Spec

(* A queued row has no delivery stamp and a delivered one has, so the        *)
(* requeue job finds every abandoned delivery.                               *)
THEOREM StampsFollowDeliveries == Spec => []StampFollowsDelivery
  <1>1. RowsConsistent => StampFollowsDelivery
    BY DEF RowsConsistent, StampFollowsDelivery
  <1> QED
    BY RowsAlwaysConsistent, <1>1, PTL

(* The status of a finished command and its TradeExecution row agree,        *)
(* whatever reports race.                                                    *)
THEOREM ResultsMatchExecutions == Spec => []ResultMatchesExecution
  <1>1. RowsConsistent => ResultMatchesExecution
    BY DEF RowsConsistent, ResultMatchesExecution
  <1> QED
    BY RowsAlwaysConsistent, <1>1, PTL

(* The latest history row of a command explains its status.                  *)
THEOREM HistoryExplains == Spec => []HistoryExplainsStatus
  <1>1. RowsConsistent => HistoryExplainsStatus
    <2> SUFFICES ASSUME RowsConsistent, NEW c \in Cmd, Exists(c)
                 PROVE  CASE status[c] \in {"QUEUED", "DELIVERED"} -> history[c] \in {"none", "QUEUED"}
                          [] status[c] = "REJECTED" -> history[c] \in {"none", "REJECTED"}
                          [] OTHER -> history[c] = status[c]
      BY DEF HistoryExplainsStatus
    <2>1. CASE status[c] \in {"QUEUED", "DELIVERED"}
      BY <2>1 DEF RowsConsistent
    <2>2. CASE status[c] = "REJECTED"
      BY <2>2 DEF RowsConsistent
    <2>3. CASE status[c] \notin {"QUEUED", "DELIVERED", "REJECTED"}
      BY <2>3 DEF RowsConsistent, Exists
    <2> QED
      BY <2>1, <2>2, <2>3
  <1> QED
    BY RowsAlwaysConsistent, <1>1, PTL

-----------------------------------------------------------------------------
(* Idempotent creation. *)
AnswersAreHolders == \A k \in Key : answers[k] \subseteq Holders(k)

OneHolder == \A k \in Key : \A c, d \in Holders(k) : c = d

KeyInv == AnswersAreHolders /\ OneHolder

(* A row once inserted keeps its key and never becomes absent; only          *)
(* createCommand answers callers.                                            *)
LEMMA OnlyCreationTouchesKeys ==
  Inv /\ [Next]_vars =>
    \/ \E p \in Creator : CreateStep(p)
    \/ /\ UNCHANGED <<key, answers>>
       /\ \A c \in Cmd : Exists(c)' <=> Exists(c)
  <1> DEFINE Kept == /\ UNCHANGED <<key, answers>>
                     /\ \A c \in Cmd : Exists(c)' <=> Exists(c)
  <1> SUFFICES ASSUME Inv, [Next]_vars, ~ \E p \in Creator : CreateStep(p)
               PROVE  Kept
    OBVIOUS
  <1>2. ASSUME NEW batch \in SUBSET Cmd, NEW arrives \in BOOLEAN, Deliver(batch, arrives)
       PROVE  Kept
    BY <1>2
       DEF Deliver, Stamp, Deliverable, Inv, TypeOK, RefusedUntouched, Untouched,
           Exists, Idle, table, inFlight, clients
  <1>3. ASSUME NEW p \in Poster, PostStep(p)
       PROVE  Kept
    <2>1. ASSUME NEW c \in Cmd, AcknowledgeReads(p, c)
          PROVE  Kept
      BY <2>1
         DEF AcknowledgeReads, PostReads, Inv, TypeOK, RefusedUntouched,
             Untouched, Exists, Idle, table, inFlight, clients
    <2>2. CASE AcknowledgeCommits(p)
      BY <2>2
         DEF AcknowledgeCommits, UpdateStatus, SetStatus, Inv, TypeOK,
             RefusedUntouched, Untouched, Exists, Idle, table, inFlight, clients
    <2>3. ASSUME NEW c \in Cmd, MarkExecutingReads(p, c)
          PROVE  Kept
      BY <2>3
         DEF MarkExecutingReads, PostReads, Inv, TypeOK, RefusedUntouched,
             Untouched, Exists, Idle, table, inFlight, clients
    <2>4. CASE MarkExecutingCommits(p)
      BY <2>4
         DEF MarkExecutingCommits, UpdateStatus, SetStatus, Inv, TypeOK,
             RefusedUntouched, Untouched, Exists, Idle, table, inFlight, clients
    <2>5. ASSUME NEW c \in Cmd, NEW result \in {"success", "failure"}, ReportResultReads(p, c, result)
          PROVE  Kept
      BY <2>5
         DEF ReportResultReads, PostReads, Inv, TypeOK, RefusedUntouched,
             Untouched, Exists, Idle, table, inFlight, clients
    <2>6. CASE ReportResultCommits(p)
      BY <2>6
         DEF ReportResultCommits, UpdateStatus, SetStatus, UpsertExecution, Inv,
             TypeOK, RefusedUntouched, Untouched, Exists, Idle, table, inFlight,
             clients
    <2>7. CASE KillPost(p)
      BY <2>7
         DEF KillPost, Inv, TypeOK, RefusedUntouched, Untouched, Exists, Idle,
             table, inFlight, clients
    <2> QED
      BY <1>3, <2>1, <2>2, <2>3, <2>4, <2>5, <2>6, <2>7 DEF PostStep
  <1>4. ASSUME NEW r \in Run, RunStep(r)
       PROVE  Kept
    <2>1. CASE RetryReads(r)
      BY <2>1
         DEF RetryReads, RunReads, Abandoned, Inv, TypeOK, RefusedUntouched,
             Untouched, Exists, Idle, table, inFlight, clients
    <2>2. CASE RetryCommits(r)
      BY <2>2
         DEF RetryCommits, SetStatus, CountRetry, Stamp, NoRun, Inv, TypeOK,
             RefusedUntouched, Untouched, Exists, Idle, table, inFlight, clients
    <2>3. CASE ExpireReads(r)
      BY <2>3
         DEF ExpireReads, RunReads, Stale, Inv, TypeOK, RefusedUntouched,
             Untouched, Exists, Idle, table, inFlight, clients
    <2>4. CASE ExpireCommits(r)
      BY <2>4
         DEF ExpireCommits, SetStatus, NoRun, Inv, TypeOK, RefusedUntouched,
             Untouched, Exists, Idle, table, inFlight, clients
    <2>5. CASE KillRun(r)
      BY <2>5
         DEF KillRun, NoRun, Inv, TypeOK, RefusedUntouched, Untouched, Exists,
             Idle, table, inFlight, clients
    <2> QED
      BY <1>4, <2>1, <2>2, <2>3, <2>4, <2>5 DEF RunStep
  <1>5. ASSUME NEW c \in Cmd, PassExpiry(c) \/ PassDeliveryTimeout(c)
       PROVE  Kept
    <2>1. CASE PassExpiry(c)
      BY <2>1
         DEF PassExpiry, Inv, TypeOK, RefusedUntouched, Untouched, Exists, Idle,
             table, inFlight, clients
    <2>2. CASE PassDeliveryTimeout(c)
      BY <2>2
         DEF PassDeliveryTimeout, Inv, TypeOK, RefusedUntouched, Untouched,
             Exists, Idle, table, inFlight, clients
    <2> QED
      BY <1>5, <2>1, <2>2
  <1>6. CASE UNCHANGED vars
    BY <1>6
       DEF vars, Inv, TypeOK, RefusedUntouched, Untouched, Exists, Idle, table,
           inFlight, clients
  <1> QED
    BY <1>2, <1>3, <1>4, <1>5, <1>6 DEF Next

LEMMA KeyStep == Inv /\ KeyInv /\ [Next]_vars => KeyInv'
  <1> SUFFICES ASSUME Inv, KeyInv, [Next]_vars PROVE KeyInv'
    OBVIOUS
  <1>1. ASSUME NEW p \in Creator, CreateStep(p)
        PROVE  KeyInv'
    <2>1. ASSUME NEW k \in Key, CreateFindsExisting(p, k) PROVE KeyInv'
      BY <2>1 DEF CreateFindsExisting, Answer, KeyInv, AnswersAreHolders, OneHolder,
                  Holders, Exists, Inv, TypeOK, table
    <2>2. ASSUME NEW k \in Key \cup {NoKey}, NEW allowed \in BOOLEAN,
                 CreateValidates(p, k, allowed)
          PROVE  KeyInv'
      BY <2>2 DEF CreateValidates, KeyInv, AnswersAreHolders, OneHolder, Holders, Exists,
                  table, clients
    <2>3. ASSUME NEW c \in Cmd, CreateInserts(p, c) PROVE KeyInv'
      <3>1. \A k \in Key : Holders(k)' =
              IF k = creating[p].key THEN {c} ELSE Holders(k)
        BY <2>3, ConstantsAssumption
           DEF CreateInserts, KeyIsFree, Holders, Exists, Inv, TypeOK
      <3>2. \A k \in Key : k = creating[p].key => Holders(k) = {}
        BY <2>3 DEF CreateInserts, KeyIsFree
      <3>3. \A k \in Key : answers'[k] \subseteq
              answers[k] \cup IF k = creating[p].key THEN {c} ELSE {}
        BY <2>3 DEF CreateInserts, Answer, Inv, TypeOK
      <3> QED
        BY <3>1, <3>2, <3>3 DEF KeyInv, AnswersAreHolders, OneHolder
    <2>4. CASE CreateCollides(p)
      BY <2>4 DEF CreateCollides, Answer, KeyInv, AnswersAreHolders, OneHolder, Holders,
                  Exists, Inv, TypeOK, table
    <2>5. CASE CreateRecordsRejection(p)
      <3>1. \A k \in Key : Holders(k)' = Holders(k)
        BY <2>5 DEF CreateRecordsRejection, Holders, Exists
      <3>2. creating[p].key \in Key => creating[p].cmd \in Holders(creating[p].key)
        BY <2>5 DEF CreateRecordsRejection, Inv, RejectionInFlight, Holders, Exists
      <3>3. \A k \in Key : answers'[k] \subseteq
              answers[k] \cup IF k = creating[p].key THEN {creating[p].cmd} ELSE {}
        BY <2>5 DEF CreateRecordsRejection, Answer, Inv, TypeOK
      <3> QED
        BY <3>1, <3>2, <3>3 DEF KeyInv, AnswersAreHolders, OneHolder
    <2>6. CASE KillCreate(p)
      BY <2>6 DEF KillCreate, KeyInv, AnswersAreHolders, OneHolder, Holders, Exists,
                  table, clients
    <2> QED
      BY <1>1, <2>1, <2>2, <2>3, <2>4, <2>5, <2>6 DEF CreateStep
  <1>2. CASE UNCHANGED <<key, answers>> /\ \A c \in Cmd : Exists(c)' <=> Exists(c)
    BY <1>2 DEF KeyInv, AnswersAreHolders, OneHolder, Holders
  <1> QED
    BY <1>1, <1>2, OnlyCreationTouchesKeys

(* However calls with one idempotency key interleave, and whichever of them  *)
(* die, one row carries the key and it is the answer to all of them.         *)
THEOREM CreationIsIdempotent == Spec => []IdempotentCreation
  <1>1. Init => KeyInv
    BY DEF Init, KeyInv, AnswersAreHolders, OneHolder, Holders, Exists
  <1>2. KeyInv => IdempotentCreation
    BY DEF KeyInv, AnswersAreHolders, OneHolder, IdempotentCreation, Holders
  <1> QED
    BY InvHolds, <1>1, <1>2, KeyStep, PTL DEF Spec

=============================================================================
