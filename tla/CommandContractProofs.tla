------------------------ MODULE CommandContractProofs ------------------------
(***************************************************************************)
(* The handlers implement CommandContract in every behaviour in which no   *)
(* two calls in flight hold the same row: what a call read is then still   *)
(* true when it commits.                                                   *)
(***************************************************************************)
EXTENDS CommandLifecycleProofs

(* What a post read of its row, and a run of its rows, still holds. *)
PostRead(p) ==
  LET c == posting[p].cmd IN
  /\ posting[p].call = "acknowledge" => status[c] = "DELIVERED"
  /\ posting[p].call = "executing" => status[c] \in {"DELIVERED", "ACKNOWLEDGED"}
  /\ posting[p].call \in {"success", "failure"} =>
       status[c] \in Expirable \cup {"VALIDATING", "EXECUTING"}

RunRead(r) ==
  /\ running[r].job = "requeue" =>
       \A c \in running[r].held : status[c] = "DELIVERED" /\ retryCount[c] < MaxRetry
  /\ running[r].job = "expire" =>
       \A c \in running[r].held : status[c] \in Expirable /\ due[c]

ReadsStillHold == /\ \A p \in Poster : PostRead(p)
                  /\ \A r \in Run : RunRead(r)

ExclusiveInv == Inv /\ Exclusive /\ ReadsStillHold

LEMMA ReadsStep ==
  ExclusiveInv /\ [Next]_vars /\ Exclusive' => ReadsStillHold'
  <1> SUFFICES ASSUME ExclusiveInv, [Next]_vars, Exclusive' PROVE ReadsStillHold'
    OBVIOUS
  <1>1. ASSUME NEW p \in Creator, CreateStep(p)
       PROVE  ReadsStillHold'
    <2>1. ASSUME NEW k \in Key, CreateFindsExisting(p, k)
          PROVE  ReadsStillHold'
      BY <2>1
         DEF CreateFindsExisting, Holders, Answer, ExclusiveInv, Inv, TypeOK,
             Exclusive, ReadsStillHold, PostRead, RunRead, RefusedUntouched,
             Untouched, Status, Terminal, Expirable, Idle, table, inFlight,
             clients
    <2>2. ASSUME NEW k \in Key \cup {NoKey}, NEW allowed \in BOOLEAN, CreateValidates(p, k, allowed)
          PROVE  ReadsStillHold'
      BY <2>2
         DEF CreateValidates, ExclusiveInv, Inv, TypeOK, Exclusive,
             ReadsStillHold, PostRead, RunRead, RefusedUntouched, Untouched,
             Status, Terminal, Expirable, Idle, table, inFlight, clients
    <2>3. ASSUME NEW c \in Cmd, CreateInserts(p, c)
          PROVE  ReadsStillHold'
      BY <2>3
         DEF CreateInserts, Answer, NotCreating, ExclusiveInv, Inv, TypeOK,
             Exclusive, ReadsStillHold, PostRead, RunRead, RefusedUntouched,
             Untouched, Status, Terminal, Expirable, Idle, table, inFlight,
             clients
    <2>4. CASE CreateCollides(p)
      BY <2>4
         DEF CreateCollides, Holders, Answer, NotCreating, ExclusiveInv, Inv,
             TypeOK, Exclusive, ReadsStillHold, PostRead, RunRead,
             RefusedUntouched, Untouched, Status, Terminal, Expirable, Idle,
             table, inFlight, clients
    <2>5. CASE CreateRecordsRejection(p)
      BY <2>5
         DEF CreateRecordsRejection, Answer, NotCreating, ExclusiveInv, Inv,
             TypeOK, Exclusive, ReadsStillHold, PostRead, RunRead,
             RefusedUntouched, Untouched, Status, Terminal, Expirable, Idle,
             table, inFlight, clients
    <2>6. CASE KillCreate(p)
      BY <2>6
         DEF KillCreate, NotCreating, ExclusiveInv, Inv, TypeOK, Exclusive,
             ReadsStillHold, PostRead, RunRead, RefusedUntouched, Untouched,
             Status, Terminal, Expirable, Idle, table, inFlight, clients
    <2> QED
      BY <1>1, <2>1, <2>2, <2>3, <2>4, <2>5, <2>6 DEF CreateStep
  <1>2. ASSUME NEW batch \in SUBSET Cmd, NEW arrives \in BOOLEAN, Deliver(batch, arrives)
       PROVE  ReadsStillHold'
    BY <1>2
       DEF Deliver, Stamp, Deliverable, ExclusiveInv, Inv, TypeOK, Exclusive,
           ReadsStillHold, PostRead, RunRead, RefusedUntouched, Untouched, Status,
           Terminal, Expirable, Idle, table, inFlight, clients
  <1>3. ASSUME NEW p \in Poster, PostStep(p)
       PROVE  ReadsStillHold'
    <2>1. ASSUME NEW c \in Cmd, AcknowledgeReads(p, c)
          PROVE  ReadsStillHold'
      BY <2>1
         DEF AcknowledgeReads, PostReads, ExclusiveInv, Inv, TypeOK, Exclusive,
             ReadsStillHold, PostRead, RunRead, RefusedUntouched, Untouched,
             Status, Terminal, Expirable, Idle, table, inFlight, clients
    <2>2. CASE AcknowledgeCommits(p)
      BY <2>2
         DEF AcknowledgeCommits, UpdateStatus, SetStatus, ExclusiveInv, Inv,
             TypeOK, Exclusive, ReadsStillHold, PostRead, RunRead,
             RefusedUntouched, Untouched, Status, Terminal, Expirable, Idle,
             table, inFlight, clients
    <2>3. ASSUME NEW c \in Cmd, MarkExecutingReads(p, c)
          PROVE  ReadsStillHold'
      BY <2>3
         DEF MarkExecutingReads, PostReads, ExclusiveInv, Inv, TypeOK, Exclusive,
             ReadsStillHold, PostRead, RunRead, RefusedUntouched, Untouched,
             Status, Terminal, Expirable, Idle, table, inFlight, clients
    <2>4. CASE MarkExecutingCommits(p)
      BY <2>4
         DEF MarkExecutingCommits, UpdateStatus, SetStatus, ExclusiveInv, Inv,
             TypeOK, Exclusive, ReadsStillHold, PostRead, RunRead,
             RefusedUntouched, Untouched, Status, Terminal, Expirable, Idle,
             table, inFlight, clients
    <2>5. ASSUME NEW c \in Cmd, NEW result \in {"success", "failure"}, ReportResultReads(p, c, result)
          PROVE  ReadsStillHold'
      BY <2>5
         DEF ReportResultReads, PostReads, ExclusiveInv, Inv, TypeOK, Exclusive,
             ReadsStillHold, PostRead, RunRead, RefusedUntouched, Untouched,
             Status, Terminal, Expirable, Idle, table, inFlight, clients
    <2>6. CASE ReportResultCommits(p)
      BY <2>6
         DEF ReportResultCommits, UpdateStatus, SetStatus, UpsertExecution,
             ExclusiveInv, Inv, TypeOK, Exclusive, ReadsStillHold, PostRead,
             RunRead, RefusedUntouched, Untouched, Status, Terminal, Expirable,
             Idle, table, inFlight, clients
    <2>7. CASE KillPost(p)
      BY <2>7
         DEF KillPost, ExclusiveInv, Inv, TypeOK, Exclusive, ReadsStillHold,
             PostRead, RunRead, RefusedUntouched, Untouched, Status, Terminal,
             Expirable, Idle, table, inFlight, clients
    <2> QED
      BY <1>3, <2>1, <2>2, <2>3, <2>4, <2>5, <2>6, <2>7 DEF PostStep
  <1>4. ASSUME NEW r \in Run, RunStep(r)
       PROVE  ReadsStillHold'
    <2>1. CASE RetryReads(r)
      BY <2>1
         DEF RetryReads, RunReads, Abandoned, ExclusiveInv, Inv, TypeOK,
             Exclusive, ReadsStillHold, PostRead, RunRead, RefusedUntouched,
             Untouched, Status, Terminal, Expirable, Idle, table, inFlight,
             clients
    <2>2. CASE RetryCommits(r)
      BY <2>2
         DEF RetryCommits, SetStatus, CountRetry, Stamp, NoRun, ExclusiveInv, Inv,
             TypeOK, Exclusive, ReadsStillHold, PostRead, RunRead,
             RefusedUntouched, Untouched, Status, Terminal, Expirable, Idle,
             table, inFlight, clients
    <2>3. CASE ExpireReads(r)
      BY <2>3
         DEF ExpireReads, RunReads, Stale, ExclusiveInv, Inv, TypeOK, Exclusive,
             ReadsStillHold, PostRead, RunRead, RefusedUntouched, Untouched,
             Status, Terminal, Expirable, Idle, table, inFlight, clients
    <2>4. CASE ExpireCommits(r)
      BY <2>4
         DEF ExpireCommits, SetStatus, NoRun, ExclusiveInv, Inv, TypeOK,
             Exclusive, ReadsStillHold, PostRead, RunRead, RefusedUntouched,
             Untouched, Status, Terminal, Expirable, Idle, table, inFlight,
             clients
    <2>5. CASE KillRun(r)
      BY <2>5
         DEF KillRun, NoRun, ExclusiveInv, Inv, TypeOK, Exclusive, ReadsStillHold,
             PostRead, RunRead, RefusedUntouched, Untouched, Status, Terminal,
             Expirable, Idle, table, inFlight, clients
    <2> QED
      BY <1>4, <2>1, <2>2, <2>3, <2>4, <2>5 DEF RunStep
  <1>5. ASSUME NEW c \in Cmd, PassExpiry(c) \/ PassDeliveryTimeout(c)
       PROVE  ReadsStillHold'
    <2>1. CASE PassExpiry(c)
      BY <2>1
         DEF PassExpiry, ExclusiveInv, Inv, TypeOK, Exclusive, ReadsStillHold,
             PostRead, RunRead, RefusedUntouched, Untouched, Status, Terminal,
             Expirable, Idle, table, inFlight, clients
    <2>2. CASE PassDeliveryTimeout(c)
      BY <2>2
         DEF PassDeliveryTimeout, ExclusiveInv, Inv, TypeOK, Exclusive,
             ReadsStillHold, PostRead, RunRead, RefusedUntouched, Untouched,
             Status, Terminal, Expirable, Idle, table, inFlight, clients
    <2> QED
      BY <1>5, <2>1, <2>2
  <1>6. CASE UNCHANGED vars
    BY <1>6
       DEF vars, ExclusiveInv, Inv, TypeOK, Exclusive, ReadsStillHold, PostRead,
           RunRead, RefusedUntouched, Untouched, Status, Terminal, Expirable, Idle,
           table, inFlight, clients
  <1> QED
    BY <1>1, <1>2, <1>3, <1>4, <1>5, <1>6 DEF Next

(* Every step is a step of the contract or leaves its variables alone. *)
LEMMA ContractStep == ExclusiveInv /\ [Next]_vars => [Contract!Next]_(Contract!vars)
  <1> SUFFICES ASSUME ExclusiveInv, [Next]_vars PROVE [Contract!Next]_(Contract!vars)
    OBVIOUS
  <1>1. ASSUME NEW p \in Creator, CreateStep(p)
       PROVE  [Contract!Next]_(Contract!vars)
    <2>1. ASSUME NEW k \in Key, CreateFindsExisting(p, k)
          PROVE  [Contract!Next]_(Contract!vars)
      BY <2>1
         DEF CreateFindsExisting, Holders, Answer, ExclusiveInv, Inv, TypeOK,
             ReadsStillHold, PostRead, RunRead, Expirable, Idle, Contract!Next,
             Contract!PassExpiry, Contract!vars, Exists, table, inFlight, clients
    <2>2. ASSUME NEW k \in Key \cup {NoKey}, NEW allowed \in BOOLEAN, CreateValidates(p, k, allowed)
          PROVE  [Contract!Next]_(Contract!vars)
      BY <2>2
         DEF CreateValidates, ExclusiveInv, Inv, TypeOK, ReadsStillHold, PostRead,
             RunRead, Expirable, Idle, Contract!Next, Contract!PassExpiry,
             Contract!vars, Exists, table, inFlight, clients
    <2>3. ASSUME NEW c \in Cmd, CreateInserts(p, c)
          PROVE  [Contract!Next]_(Contract!vars)
      <3>1. Contract!Create(c)
        BY <2>3
           DEF CreateInserts, Contract!Create, Contract!Move,
               Contract!Expirable, ExclusiveInv, Inv, TypeOK, ReadsStillHold,
               PostRead, RunRead, Expirable, Idle, Contract!Next,
               Contract!PassExpiry, Contract!vars, Exists, table, inFlight,
               clients
      <3> QED
        BY <2>3, <3>1 DEF CreateInserts, Contract!Next, Inv, TypeOK, Idle, ExclusiveInv
    <2>4. CASE CreateCollides(p)
      BY <2>4
         DEF CreateCollides, Holders, Answer, NotCreating, ExclusiveInv, Inv,
             TypeOK, ReadsStillHold, PostRead, RunRead, Expirable, Idle,
             Contract!Next, Contract!PassExpiry, Contract!vars, Exists, table,
             inFlight, clients
    <2>5. CASE CreateRecordsRejection(p)
      BY <2>5
         DEF CreateRecordsRejection, Answer, NotCreating, ExclusiveInv, Inv,
             TypeOK, ReadsStillHold, PostRead, RunRead, Expirable, Idle,
             Contract!Next, Contract!PassExpiry, Contract!vars, Exists, table,
             inFlight, clients
    <2>6. CASE KillCreate(p)
      BY <2>6
         DEF KillCreate, NotCreating, ExclusiveInv, Inv, TypeOK, ReadsStillHold,
             PostRead, RunRead, Expirable, Idle, Contract!Next,
             Contract!PassExpiry, Contract!vars, Exists, table, inFlight, clients
    <2> QED
      BY <1>1, <2>1, <2>2, <2>3, <2>4, <2>5, <2>6 DEF CreateStep
  <1>2. ASSUME NEW batch \in SUBSET Cmd, NEW arrives \in BOOLEAN, Deliver(batch, arrives)
       PROVE  [Contract!Next]_(Contract!vars)
    <2>1. Contract!Deliver(batch)
      BY <1>2 DEF Deliver, Deliverable, Contract!Deliver, Contract!Move
    <2> QED
      BY <2>1 DEF Contract!Next
  <1>3. ASSUME NEW p \in Poster, PostStep(p)
       PROVE  [Contract!Next]_(Contract!vars)
    <2>1. ASSUME NEW c \in Cmd, AcknowledgeReads(p, c)
          PROVE  [Contract!Next]_(Contract!vars)
      BY <2>1
         DEF AcknowledgeReads, PostReads, ExclusiveInv, Inv, TypeOK,
             ReadsStillHold, PostRead, RunRead, Expirable, Idle, Contract!Next,
             Contract!PassExpiry, Contract!vars, Exists, table, inFlight, clients
    <2>2. CASE AcknowledgeCommits(p)
      <3>1. Contract!Acknowledge(posting[p].cmd)
        BY <2>2
           DEF AcknowledgeCommits, UpdateStatus, SetStatus,
               Contract!Acknowledge, Contract!Move, Contract!Expirable,
               ExclusiveInv, Inv, TypeOK, ReadsStillHold, PostRead, RunRead,
               Expirable, Idle, Contract!Next, Contract!PassExpiry,
               Contract!vars, Exists, table, inFlight, clients
      <3> QED
        BY <2>2, <3>1
           DEF AcknowledgeCommits, UpdateStatus, SetStatus, Contract!Next, Inv,
               TypeOK, Idle, ExclusiveInv
    <2>3. ASSUME NEW c \in Cmd, MarkExecutingReads(p, c)
          PROVE  [Contract!Next]_(Contract!vars)
      BY <2>3
         DEF MarkExecutingReads, PostReads, ExclusiveInv, Inv, TypeOK,
             ReadsStillHold, PostRead, RunRead, Expirable, Idle, Contract!Next,
             Contract!PassExpiry, Contract!vars, Exists, table, inFlight, clients
    <2>4. CASE MarkExecutingCommits(p)
      <3>1. Contract!MarkExecuting(posting[p].cmd)
        BY <2>4
           DEF MarkExecutingCommits, UpdateStatus, SetStatus,
               Contract!MarkExecuting, Contract!Move, Contract!Expirable,
               ExclusiveInv, Inv, TypeOK, ReadsStillHold, PostRead, RunRead,
               Expirable, Idle, Contract!Next, Contract!PassExpiry,
               Contract!vars, Exists, table, inFlight, clients
      <3> QED
        BY <2>4, <3>1
           DEF MarkExecutingCommits, UpdateStatus, SetStatus, Contract!Next,
               Inv, TypeOK, Idle, ExclusiveInv
    <2>5. ASSUME NEW c \in Cmd, NEW result \in {"success", "failure"}, ReportResultReads(p, c, result)
          PROVE  [Contract!Next]_(Contract!vars)
      BY <2>5
         DEF ReportResultReads, PostReads, ExclusiveInv, Inv, TypeOK,
             ReadsStillHold, PostRead, RunRead, Expirable, Idle, Contract!Next,
             Contract!PassExpiry, Contract!vars, Exists, table, inFlight, clients
    <2>6. CASE ReportResultCommits(p)
      <3>1. Contract!ReportResult(posting[p].cmd)
        BY <2>6
           DEF ReportResultCommits, UpdateStatus, SetStatus,
               Contract!ReportResult, Contract!Move, Contract!Expirable,
               ExclusiveInv, Inv, TypeOK, ReadsStillHold, PostRead, RunRead,
               Expirable, Idle, Contract!Next, Contract!PassExpiry,
               Contract!vars, Exists, table, inFlight, clients
      <3> QED
        BY <2>6, <3>1
           DEF ReportResultCommits, UpdateStatus, SetStatus, Contract!Next, Inv,
               TypeOK, Idle, ExclusiveInv
    <2>7. CASE KillPost(p)
      BY <2>7
         DEF KillPost, ExclusiveInv, Inv, TypeOK, ReadsStillHold, PostRead,
             RunRead, Expirable, Idle, Contract!Next, Contract!PassExpiry,
             Contract!vars, Exists, table, inFlight, clients
    <2> QED
      BY <1>3, <2>1, <2>2, <2>3, <2>4, <2>5, <2>6, <2>7 DEF PostStep
  <1>4. ASSUME NEW r \in Run, RunStep(r)
       PROVE  [Contract!Next]_(Contract!vars)
    <2>1. CASE RetryReads(r)
      BY <2>1
         DEF RetryReads, RunReads, Abandoned, ExclusiveInv, Inv, TypeOK,
             ReadsStillHold, PostRead, RunRead, Expirable, Idle, Contract!Next,
             Contract!PassExpiry, Contract!vars, Exists, table, inFlight, clients
    <2>2. CASE RetryCommits(r)
      <3>1. Contract!Requeue(running[r].held)
        BY <2>2
           DEF RetryCommits, SetStatus, CountRetry, Contract!Requeue,
               Contract!Move, Contract!Expirable, ExclusiveInv, Inv, TypeOK,
               ReadsStillHold, PostRead, RunRead, Expirable, Idle,
               Contract!Next, Contract!PassExpiry, Contract!vars, Exists, table,
               inFlight, clients
      <3> QED
        BY <2>2, <3>1
           DEF RetryCommits, SetStatus, CountRetry, Contract!Next, Inv, TypeOK,
               Idle, ExclusiveInv
    <2>3. CASE ExpireReads(r)
      BY <2>3
         DEF ExpireReads, RunReads, Stale, ExclusiveInv, Inv, TypeOK,
             ReadsStillHold, PostRead, RunRead, Expirable, Idle, Contract!Next,
             Contract!PassExpiry, Contract!vars, Exists, table, inFlight, clients
    <2>4. CASE ExpireCommits(r)
      <3>1. Contract!Expire(running[r].held)
        BY <2>4
           DEF ExpireCommits, SetStatus, Contract!Expire, Contract!Move,
               Contract!Expirable, ExclusiveInv, Inv, TypeOK, ReadsStillHold,
               PostRead, RunRead, Expirable, Idle, Contract!Next,
               Contract!PassExpiry, Contract!vars, Exists, table, inFlight,
               clients
      <3> QED
        BY <2>4, <3>1 DEF ExpireCommits, SetStatus, Contract!Next, Inv, TypeOK, Idle, ExclusiveInv
    <2>5. CASE KillRun(r)
      BY <2>5
         DEF KillRun, NoRun, ExclusiveInv, Inv, TypeOK, ReadsStillHold, PostRead,
             RunRead, Expirable, Idle, Contract!Next, Contract!PassExpiry,
             Contract!vars, Exists, table, inFlight, clients
    <2> QED
      BY <1>4, <2>1, <2>2, <2>3, <2>4, <2>5 DEF RunStep
  <1>5. ASSUME NEW c \in Cmd, PassExpiry(c) \/ PassDeliveryTimeout(c)
       PROVE  [Contract!Next]_(Contract!vars)
    <2>1. CASE PassExpiry(c)
      BY <2>1
         DEF PassExpiry, ExclusiveInv, Inv, TypeOK, ReadsStillHold, PostRead,
             RunRead, Expirable, Idle, Contract!Next, Contract!PassExpiry,
             Contract!vars, Exists, table, inFlight, clients
    <2>2. CASE PassDeliveryTimeout(c)
      BY <2>2
         DEF PassDeliveryTimeout, ExclusiveInv, Inv, TypeOK, ReadsStillHold,
             PostRead, RunRead, Expirable, Idle, Contract!Next,
             Contract!PassExpiry, Contract!vars, Exists, table, inFlight, clients
    <2> QED
      BY <1>5, <2>1, <2>2
  <1>6. CASE UNCHANGED vars
    BY <1>6
       DEF vars, ExclusiveInv, Inv, TypeOK, ReadsStillHold, PostRead, RunRead,
           Expirable, Idle, Contract!Next, Contract!PassExpiry, Contract!vars,
           Exists, table, inFlight, clients
  <1> QED
    BY <1>1, <1>2, <1>3, <1>4, <1>5, <1>6 DEF Next

(* With the rows of a call locked from its read to its commit, the handlers  *)
(* keep the contract of their own checks for every number of rows, calls     *)
(* and job runs: the overlap on a row is the only way to break it.           *)
THEOREM ExclusiveKeepsContract == ExclusiveSpec => KeepsContract
  <1>1. Init => ExclusiveInv
    <2>1. Init => Exclusive /\ ReadsStillHold
      BY ConstantsAssumption
         DEF Init, Exclusive, ReadsStillHold, PostRead, RunRead, Idle, NoRun
    <2> QED
      BY <2>1, InvInit DEF ExclusiveInv
  <1>2. ExclusiveInv /\ [Next /\ Exclusive']_vars => ExclusiveInv'
    <2> SUFFICES ASSUME ExclusiveInv, [Next /\ Exclusive']_vars PROVE ExclusiveInv'
      OBVIOUS
    <2>1. Exclusive'
      BY DEF ExclusiveInv, Exclusive, vars, inFlight
    <2>2. Inv'
      BY TypeStep, UntouchedStep, RejectionStep DEF ExclusiveInv, Inv
    <2>3. ReadsStillHold'
      BY <2>1, ReadsStep
    <2> QED
      BY <2>1, <2>2, <2>3 DEF ExclusiveInv
  <1>3. Init => Contract!Init
    BY DEF Init, Contract!Init
  <1>4. ExclusiveInv /\ [Next /\ Exclusive']_vars => [Contract!Next]_(Contract!vars)
    BY ContractStep
  <1> QED
    BY <1>1, <1>2, <1>3, <1>4, PTL DEF ExclusiveSpec, KeepsContract, Contract!Spec

(* What the contract guarantees is inherited: without overlap on a row a    *)
(* finished command stays as it is ...                                      *)
THEOREM ExclusiveEndsAreFinal == ExclusiveSpec => TerminalIsFinal
  <1>1. [\A c \in Cmd : status[c] \in Contract!Terminal => status'[c] = status[c]]_(Contract!vars)
          => [\A c \in Cmd : status[c] \in Terminal => status'[c] = status[c]]_vars
    BY DEF Terminal, Contract!Terminal, Contract!vars
  <1> QED
    BY <1>1, ExclusiveKeepsContract, Contract!EndsAreFinal, PTL
       DEF KeepsContract, Contract!EndIsFinal, TerminalIsFinal

(* ... and no row is requeued more often than the limit.                    *)
THEOREM ExclusiveRetriesWithinLimit == ExclusiveSpec => []RetriesWithinLimit
  <1>1. MaxRetry \in Nat
    BY ConstantsAssumption
  <1>2. Contract!RetriesWithinLimit => RetriesWithinLimit
    BY DEF RetriesWithinLimit, Contract!RetriesWithinLimit
  <1> QED
    BY <1>1, <1>2, ExclusiveKeepsContract, Contract!RetriesStayWithinLimit, PTL DEF KeepsContract

=============================================================================
