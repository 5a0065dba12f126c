-------------------------- MODULE CommandLifecycle --------------------------
(***************************************************************************)
(* The life of the TradeCommand rows of one robot: createCommand and its   *)
(* idempotency keys, the delivery to the terminal, the posts of the        *)
(* terminal, the requeue job and the expiration job.                       *)
(*                                                                         *)
(* The backend is a cluster of Node processes over one PostgreSQL at READ  *)
(* COMMITTED.  A handler is therefore split at its awaits: a "Reads" step  *)
(* takes what the handler decides on, a later "Commits" step applies the   *)
(* writes of its transaction to whatever the rows have become.  A row lock *)
(* is held from an UPDATE to the COMMIT, so the writes of one transaction  *)
(* are one step.                                                           *)
(*                                                                         *)
(* Clocks are latches: due[c] closes when expiresAt passes, deliveredAt[c] *)
(* turns "overdue" when it is older than the 30 s of the requeue job.      *)
(***************************************************************************)
EXTENDS Naturals, FiniteSets

CONSTANTS
  Cmd,        \* rows that can be created: a bound on the length of the run
  NoCmd,      \* "no row"
  Key,        \* idempotency keys clients use
  NoKey,      \* a request without an idempotency key
  Creator,    \* createCommand calls that can be in flight at once
  Poster,     \* posts of the terminal that can be in flight at once
  Run,        \* job runs that can be in flight at once, over all instances
  MaxRetry,   \* MAX_COMMAND_RETRY_COUNT
  BatchLimit  \* the largest batch one poll returns

ASSUME ConstantsAssumption ==
  /\ NoCmd \notin Cmd
  /\ NoKey \notin Key
  /\ IsFiniteSet(Cmd)
  /\ IsFiniteSet(Run)
  /\ MaxRetry \in Nat
  /\ BatchLimit \in Nat \ {0}

VARIABLES
  \* The TradeCommand table, its latest history row and its TradeExecution.
  status,
  key,
  retryCount,
  deliveredAt,  \* deliveryOwner is written and cleared with it
  due,
  history,      \* toStatus of the latest TradeCommandStatusHistory row
  execution,
  \* Calls in flight.
  creating,
  posting,
  running,
  \* What the clients know, and how often a row was handed out.
  received,
  answers,
  deliveries

table    == <<status, key, retryCount, deliveredAt, due, history, execution>>
inFlight == <<creating, posting, running>>
clients  == <<received, answers, deliveries>>
vars     == <<table, inFlight, clients>>

-----------------------------------------------------------------------------
Terminal  == {"COMPLETED", "FAILED", "REJECTED", "CANCELLED", "EXPIRED"}
Expirable == {"QUEUED", "DELIVERED", "ACKNOWLEDGED"}
Status    == Terminal \cup Expirable \cup {"VALIDATING", "EXECUTING"}

Calls   == {"acknowledge", "executing", "success", "failure"}
Idle    == [call |-> "idle", cmd |-> NoCmd]
NoRun   == [job |-> "idle", held |-> {}]
NotCreating == [pc |-> "idle", key |-> NoKey, allowed |-> FALSE, cmd |-> NoCmd]

Exists(c)  == status[c] # "ABSENT"
Holders(k) == {c \in Cmd : Exists(c) /\ key[c] = k}

SetStatusSilently(cs, s) ==
  /\ status'  = [c \in Cmd |-> IF c \in cs THEN s ELSE status[c]]
  /\ UNCHANGED history

(* The rows cs get the status s and a history row each. *)
SetStatus(cs, s) ==
  /\ status'  = [c \in Cmd |-> IF c \in cs THEN s ELSE status[c]]
  /\ history' = [c \in Cmd |-> IF c \in cs THEN s ELSE history[c]]

Init ==
  /\ status = [c \in Cmd |-> "ABSENT"]
  /\ key = [c \in Cmd |-> NoKey]
  /\ retryCount = [c \in Cmd |-> 0]
  /\ deliveredAt = [c \in Cmd |-> "null"]
  /\ due = [c \in Cmd |-> FALSE]
  /\ history = [c \in Cmd |-> "none"]
  /\ execution = [c \in Cmd |-> "none"]
  /\ creating = [p \in Creator |-> NotCreating]
  /\ posting = [p \in Poster |-> Idle]
  /\ running = [r \in Run |-> NoRun]
  /\ received = {}
  /\ answers = [k \in Key |-> {}]
  /\ deliveries = [c \in Cmd |-> 0]

-----------------------------------------------------------------------------
(* createCommand: look the key up, validate, insert.  The decision of the *)
(* risk gate is free here: it depends on tables of other components.       *)

(* A caller that used a key is told which row answers it. *)
Answer(k, c) ==
  answers' = [j \in Key |-> IF j = k THEN answers[j] \cup {c} ELSE answers[j]]

CreateFindsExisting(p, k) ==
  /\ creating[p].pc = "idle"
  /\ \E c \in Holders(k) : Answer(k, c)
  /\ UNCHANGED <<table, inFlight, received, deliveries>>

KeyUnchecked(k) == TRUE

(* @@unique([robotId, idempotencyKey]); NULL keys never collide. *)
KeyIsFree(k) == k \in Key => Holders(k) = {}

CreateValidates(p, k, allowed) ==
  /\ creating[p].pc = "idle"
  /\ KeyIsFree(k)
  /\ creating' = [creating EXCEPT ![p] =
       [pc |-> "insert", key |-> k, allowed |-> allowed, cmd |-> NoCmd]]
  /\ UNCHANGED <<table, posting, running, clients>>

CreateInserts(p, c) ==
  /\ creating[p].pc = "insert"
  /\ KeyIsFree(creating[p].key)
  /\ status[c] = "ABSENT"
  /\ status' = [status EXCEPT ![c] =
                  IF creating[p].allowed THEN "QUEUED" ELSE "REJECTED"]
  /\ key' = [key EXCEPT ![c] = creating[p].key]
  /\ IF creating[p].allowed
     THEN /\ Answer(creating[p].key, c)
          /\ creating' = [creating EXCEPT ![p] = NotCreating]
     ELSE /\ creating' = [creating EXCEPT ![p].pc = "history", ![p].cmd = c]
          /\ UNCHANGED answers
  /\ UNCHANGED <<retryCount, deliveredAt, due, history, execution, posting,
                 running, received, deliveries>>

(* P2002: another call inserted the key first; answer with its row. *)
CreateCollides(p) ==
  /\ creating[p].pc = "insert"
  /\ \E c \in Holders(creating[p].key) : Answer(creating[p].key, c)
  /\ creating[p].key \in Key
  /\ creating' = [creating EXCEPT ![p] = NotCreating]
  /\ UNCHANGED <<table, posting, running, received, deliveries>>

(* The history row of a rejection is a statement of its own. *)
CreateRecordsRejection(p) ==
  /\ creating[p].pc = "history"
  /\ history' = [history EXCEPT ![creating[p].cmd] = "REJECTED"]
  /\ Answer(creating[p].key, creating[p].cmd)
  /\ creating' = [creating EXCEPT ![p] = NotCreating]
  /\ UNCHANGED <<status, key, retryCount, deliveredAt, due, execution, posting,
                 running, received, deliveries>>

-----------------------------------------------------------------------------
(* deliverCommands: FOR UPDATE SKIP LOCKED LIMIT takes some of the rows    *)
(* that are queued and not expired, never one another poll holds.  The     *)
(* response may be lost on its way to the terminal.                        *)

DeliverableInAnyStatus == {c \in Cmd : Exists(c) /\ ~due[c]}
DeliverableWhenDue     == {c \in Cmd : status[c] = "QUEUED"}

Deliverable == {c \in Cmd : status[c] = "QUEUED" /\ ~due[c]}

StampNever(cs, stamp) == UNCHANGED deliveredAt

(* deliveredAt and deliveryOwner of the rows cs. *)
Stamp(cs, stamp) ==
  deliveredAt' = [c \in Cmd |-> IF c \in cs THEN stamp ELSE deliveredAt[c]]

Deliver(batch, arrives) ==
  /\ batch # {}
  /\ batch \subseteq Deliverable
  /\ Cardinality(batch) <= BatchLimit
  /\ status' = [c \in Cmd |-> IF c \in batch THEN "DELIVERED" ELSE status[c]]
  /\ Stamp(batch, "recent")
  /\ deliveries' = [c \in Cmd |-> IF c \in batch THEN deliveries[c] + 1 ELSE deliveries[c]]
  /\ received' = IF arrives THEN received \cup batch ELSE received
  /\ UNCHANGED <<key, retryCount, due, history, execution, inFlight, answers>>

-----------------------------------------------------------------------------
(* The terminal posts about commands it received, in any order and as often *)
(* as its connection repeats them.                                          *)

PostReads(p, call, c) ==
  /\ posting[p] = Idle
  /\ c \in received
  /\ posting' = [posting EXCEPT ![p] = [call |-> call, cmd |-> c]]
  /\ UNCHANGED <<table, creating, running, clients>>

(* repositories/command.repository.updateStatus *)
UpdateStatus(p, s) ==
  /\ SetStatus({posting[p].cmd}, s)
  /\ posting' = [posting EXCEPT ![p] = Idle]
  /\ UNCHANGED <<key, retryCount, deliveredAt, due, creating, running, clients>>

AcknowledgeReads(p, c) ==
  /\ status[c] = "DELIVERED"
  /\ PostReads(p, "acknowledge", c)

AcknowledgeCommits(p) ==
  /\ posting[p].call = "acknowledge"
  /\ UpdateStatus(p, "ACKNOWLEDGED")
  /\ UNCHANGED execution

MarkExecutingReads(p, c) ==
  /\ status[c] \in {"DELIVERED", "ACKNOWLEDGED"}
  /\ PostReads(p, "executing", c)

MarkExecutingCommits(p) ==
  /\ posting[p].call = "executing"
  /\ UpdateStatus(p, "EXECUTING")
  /\ UNCHANGED execution

ReportResultReads(p, c, result) ==
  /\ status[c] \notin Terminal
  /\ PostReads(p, result, c)

CreateExecution(c, result) ==
  execution' = [execution EXCEPT ![c] = IF @ = "none" THEN result ELSE @]

(* The TradeExecution row is upserted by the update of the status. *)
UpsertExecution(c, result) == execution' = [execution EXCEPT ![c] = result]

ReportResultCommits(p) ==
  /\ posting[p].call \in {"success", "failure"}
  /\ UpdateStatus(p, IF posting[p].call = "success" THEN "COMPLETED" ELSE "FAILED")
  /\ UpsertExecution(posting[p].cmd, posting[p].call)

-----------------------------------------------------------------------------
(* retryAbandonedDeliveries and expireStaleCommands: each run selects, then *)
(* updates the selected ids whatever their status has become.               *)

AbandonedAtLimit == {c \in Cmd : /\ status[c] = "DELIVERED"
                                 /\ deliveredAt[c] = "overdue"
                                 /\ retryCount[c] <= MaxRetry}

Abandoned == {c \in Cmd : /\ status[c] = "DELIVERED"
                          /\ deliveredAt[c] = "overdue"
                          /\ retryCount[c] < MaxRetry}

StaleUnlessAcknowledged == {c \in Cmd : status[c] \in {"QUEUED", "DELIVERED"} /\ due[c]}

Stale == {c \in Cmd : status[c] \in Expirable /\ due[c]}

RunReads(r, job, cs) ==
  /\ running[r] = NoRun
  /\ cs # {}
  /\ running' = [running EXCEPT ![r] = [job |-> job, held |-> cs]]
  /\ UNCHANGED <<table, creating, posting, clients>>

RetryReads(r)  == RunReads(r, "requeue", Abandoned)
ExpireReads(r) == RunReads(r, "expire", Stale)

UseUpRetry(held) ==
  retryCount' = [c \in Cmd |-> IF c \in held THEN retryCount[c] - 1 ELSE retryCount[c]]

CountRetry(held) ==
  retryCount' = [c \in Cmd |-> IF c \in held THEN retryCount[c] + 1 ELSE retryCount[c]]

RetryCommits(r) ==
  LET held == running[r].held IN
  /\ running[r].job = "requeue"
  /\ SetStatus(held, "QUEUED")
  /\ CountRetry(held)
  /\ Stamp(held, "null")
  /\ running' = [running EXCEPT ![r] = NoRun]
  /\ UNCHANGED <<key, due, execution, creating, posting, clients>>

ExpireCommits(r) ==
  /\ running[r].job = "expire"
  /\ SetStatus(running[r].held, "EXPIRED")
  /\ running' = [running EXCEPT ![r] = NoRun]
  /\ UNCHANGED <<key, retryCount, deliveredAt, due, execution, creating,
                 posting, clients>>

-----------------------------------------------------------------------------
(* Time passes; a process dies or a transaction is rolled back. *)

PassExpiry(c) ==
  /\ Exists(c) /\ ~due[c]
  /\ due' = [due EXCEPT ![c] = TRUE]
  /\ UNCHANGED <<status, key, retryCount, deliveredAt, history, execution,
                 inFlight, clients>>

PassDeliveryTimeout(c) ==
  /\ deliveredAt[c] = "recent"
  /\ deliveredAt' = [deliveredAt EXCEPT ![c] = "overdue"]
  /\ UNCHANGED <<status, key, retryCount, due, history, execution, inFlight, clients>>

KillCreate(p) ==
  /\ creating[p].pc # "idle"
  /\ creating' = [creating EXCEPT ![p] = NotCreating]
  /\ UNCHANGED <<table, posting, running, clients>>

KillPost(p) ==
  /\ posting[p] # Idle
  /\ posting' = [posting EXCEPT ![p] = Idle]
  /\ UNCHANGED <<table, creating, running, clients>>

KillRun(r) ==
  /\ running[r] # NoRun
  /\ running' = [running EXCEPT ![r] = NoRun]
  /\ UNCHANGED <<table, creating, posting, clients>>

-----------------------------------------------------------------------------
CreateStep(p) ==
  \/ \E k \in Key : CreateFindsExisting(p, k)
  \/ \E k \in Key \cup {NoKey}, allowed \in BOOLEAN : CreateValidates(p, k, allowed)
  \/ \E c \in Cmd : CreateInserts(p, c)
  \/ CreateCollides(p)
  \/ CreateRecordsRejection(p)
  \/ KillCreate(p)

PostStep(p) ==
  \/ \E c \in Cmd : AcknowledgeReads(p, c)
  \/ AcknowledgeCommits(p)
  \/ \E c \in Cmd : MarkExecutingReads(p, c)
  \/ MarkExecutingCommits(p)
  \/ \E c \in Cmd, result \in {"success", "failure"} : ReportResultReads(p, c, result)
  \/ ReportResultCommits(p)
  \/ KillPost(p)

RunStep(r) ==
  \/ RetryReads(r)
  \/ RetryCommits(r)
  \/ ExpireReads(r)
  \/ ExpireCommits(r)
  \/ KillRun(r)

Next ==
  \/ \E p \in Creator : CreateStep(p)
  \/ \E batch \in SUBSET Cmd, arrives \in BOOLEAN : Deliver(batch, arrives)
  \/ \E p \in Poster : PostStep(p)
  \/ \E r \in Run : RunStep(r)
  \/ \E c \in Cmd : PassExpiry(c) \/ PassDeliveryTimeout(c)

Spec == Init /\ [][Next]_vars

(* Timers and transactions make progress: every live process runs each job  *)
(* again and again (setInterval), a transaction that started ends, and      *)
(* clocks advance.  Runs may be killed, but not every one of them forever.  *)
(* Nothing is assumed of clients or of the terminal.                        *)
Fairness ==
  /\ \A r \in Run : /\ SF_vars(RetryCommits(r))
                    /\ SF_vars(ExpireCommits(r))
                    /\ WF_vars(ExpireReads(r))
  /\ \A c \in Cmd : WF_vars(PassExpiry(c))

FairSpec == Spec /\ Fairness

(* The behaviours in which no two calls in flight hold the same row, as they *)
(* would if the selects took row locks.                                      *)
Exclusive ==
  /\ \A p, q \in Poster : p # q /\ posting[p] # Idle => posting[p].cmd # posting[q].cmd
  /\ \A r, s \in Run : r # s => running[r].held \cap running[s].held = {}
  /\ \A p \in Poster, r \in Run : posting[p].cmd \notin running[r].held

ExclusiveSpec == Init /\ [][Next /\ Exclusive']_vars

-----------------------------------------------------------------------------
(* Every variable stays in its type; the rows a call or a run holds are    *)
(* rows of the table.                                                      *)
TypeOK ==
  /\ status \in [Cmd -> Status \cup {"ABSENT"}]
  /\ key \in [Cmd -> Key \cup {NoKey}]
  /\ retryCount \in [Cmd -> Nat]
  /\ deliveredAt \in [Cmd -> {"null", "recent", "overdue"}]
  /\ due \in [Cmd -> BOOLEAN]
  /\ history \in [Cmd -> Status \cup {"none"}]
  /\ execution \in [Cmd -> {"none", "success", "failure"}]
  /\ creating \in [Creator -> [pc : {"idle", "insert", "history"},
                               key : Key \cup {NoKey}, allowed : BOOLEAN,
                               cmd : Cmd \cup {NoCmd}]]
  /\ posting \in [Poster -> [call : Calls, cmd : Cmd] \cup {Idle}]
  /\ running \in [Run -> [job : {"requeue", "expire", "idle"}, held : SUBSET Cmd]]
  /\ received \subseteq Cmd
  /\ answers \in [Key -> SUBSET Cmd]
  /\ deliveries \in [Cmd -> Nat]

(* createCommand is idempotent: whatever the interleaving of calls with one *)
(* key, at most one row carries it and every caller is answered with that   *)
(* row (command.service.ts:12-15 and 23-24).                                *)
IdempotentCreation ==
  \A k \in Key : \A c, d \in Holders(k) \cup answers[k] : c = d /\ key[c] = k

(* A row is handed to the terminal at most once per requeue, and once more: *)
(* two polls never both take it (command-queue.ts:7-15).                    *)
HandedOutOncePerRequeue == \A c \in Cmd : deliveries[c] <= retryCount[c] + 1

(* Overlapping requeue runs overshoot maximumRetryCount by at most one per *)
(* extra run (command-retry.ts:6-9: the count is compared when it is read,  *)
(* incremented when the update runs).                                      *)
RetriesBounded ==
  \A c \in Cmd : retryCount[c] # 0 => retryCount[c] < MaxRetry + Cardinality(Run)

(* A queued row has no delivery stamp and a delivered one has: without it  *)
(* the requeue job would never find an abandoned delivery again, whatever  *)
(* the job runs did in between (command-queue.ts:14, command-retry.ts:9).  *)
StampFollowsDelivery ==
  \A c \in Cmd : /\ status[c] = "QUEUED" => deliveredAt[c] = "null"
                 /\ status[c] = "DELIVERED" => deliveredAt[c] # "null"

(* The status of a finished command and its TradeExecution row agree, even *)
(* when two reports of different outcomes race (command.service.ts:56-69). *)
ResultMatchesExecution ==
  \A c \in Cmd : /\ status[c] = "COMPLETED" => execution[c] = "success"
                 /\ status[c] = "FAILED" => execution[c] = "failure"

(* The latest history row explains the status of the row.  Creation and    *)
(* delivery write no history row, and the one of a rejection is lost when  *)
(* the process dies between the two statements (command.service.ts:20-21). *)
HistoryExplainsStatus ==
  \A c \in Cmd : Exists(c) =>
    CASE status[c] \in {"QUEUED", "DELIVERED"} -> history[c] \in {"none", "QUEUED"}
      [] status[c] = "REJECTED" -> history[c] \in {"none", "REJECTED"}
      [] OTHER -> history[c] = status[c]

(* What the risk gate refused stays refused: no delivery, job or late post *)
(* ever moves it (command.service.ts:18, command-queue.ts:9).              *)
RejectedIsFinal ==
  [][\A c \in Cmd : status[c] = "REJECTED" =>
       status'[c] = "REJECTED" /\ deliveries'[c] = 0]_vars

(* Every command leaves the statuses a job watches over for good: it is    *)
(* finished, refused, expired or executing from some time on               *)
(* (command-expiration.ts:4-8, command-retry.ts:5-11).                     *)
Settled(c) == status[c] \in Terminal \cup {"EXECUTING"}
EverySettles == \A c \in Cmd : [](Exists(c) => <>[]Settled(c))

(* Without overlap on a row the handlers keep the contract their checks     *)
(* state; every breach of it below is due to overlap alone                  *)
(* (command.service.ts:28-70, command-retry.ts, command-expiration.ts).     *)
Contract == INSTANCE CommandContract

KeepsContract == Contract!Spec

(* What no caller could break then: however many runs are in flight, a row   *)
(* is requeued maximumRetryCount times at most.  Two runs that may hold one  *)
(* row exceed it: both compare before either increments                      *)
(* (command-retry.ts:6, 8).                                                  *)
RetriesWithinLimit == \A c \in Cmd : retryCount[c] <= MaxRetry

-----------------------------------------------------------------------------
(* What the source says, and overlapping calls alone break.                 *)

(* 'Command is already terminal': nothing moves a finished command          *)
(* (command.service.ts:53-54).                                              *)
TerminalIsFinal ==
  [][\A c \in Cmd : status[c] \in Terminal => status'[c] = status[c]]_vars

=============================================================================
