# Flouba backend: a TLA+ verification project

The system is a trading back end (`src/src/`, TypeScript on PostgreSQL through
Prisma) between a dashboard (Base44) and MetaTrader 5 terminals that run an
Expert Advisor (`src/mt5/FloubaLiteEliteEA.mq5`). The dashboard creates
commands; a terminal polls for them, executes them and posts what happened;
heartbeats tell the back end what the terminal is doing. There is no shared
clock, no connection that stays open, and no lock around any of it: the back
end is a cluster of Node processes (`deployment/ecosystem.config.cjs`) whose
handlers read a row, decide, and update it some awaits later. This directory
holds the models of that protocol, the TLC runs over them, and the proofs.

Paths below are relative to the repository, line numbers are at the commit the
models were written from.

## 1. Inventory

| Component | State it keeps | Operations | Talks to |
|---|---|---|---|
| Command lifecycle (`services/command.service.ts`, `repositories/command.repository.ts`, `queue/`) | `TradeCommand` (status, retryCount, deliveredAt, deliveryOwner, expiresAt, idempotencyKey), `TradeCommandStatusHistory`, `TradeExecution` | createCommand, deliverCommands, acknowledge, markExecuting, reportResult, retryAbandonedDeliveries, expireStaleCommands | risk gate (call), terminal (poll and posts), jobs |
| Emergency stop (`services/emergency.service.ts`) | `Robot.emergencyStopActive`, its copy `RobotSettings.emergencyStopActive` | activate, clear | createCommand, status, terminal (through a command) |
| Robot status and heartbeats (`services/heartbeat.service.ts`, `robot-offline.job.ts`) | `Robot.status`, `lastHeartbeatAt`, `RobotHeartbeat` rows | processHeartbeat, markOfflineStale | emergency flag (reads), account (writes), risk gate (is read by) |
| Registration and settings (`services/robot.service.ts`, `settings.service.ts`) | `Robot`, `RobotSettings`, token hash | registerRobot, getOrCreateDefaults, updateSettings | authentication, terminal |
| Risk gate (`services/risk.service.ts`) | none: reads five tables | validateCommand | createCommand |
| Job scheduler (`jobs/index.ts`, `internal.routes.ts`) | `JobLock` | startJobs, acquireLock, trigger | every job |
| Terminal, bridge (`mt5/FloubaLiteEliteEA.mq5` 158-228, 481-763, 858-861) | g_emergencyStop, g_paused, g_robotRunning, g_registered, g_robotToken, g_commandIds (200), g_sentDeals (300) | OnInit, OnTimer, SendHeartbeat, PollCommands, ExecuteBackendCommand, Sync* | back end over HTTP, broker |
| Terminal, local strategy (same file, 230-470, 766-835) | g_losses, daily baseline (global variables), positions and their stops | OnTick, EvaluateLocalSignal, ManagePosition, AccountProtectionOK | broker |
| Position and order snapshots (`repositories/position.repository.ts`, `order.repository.ts`) | `OpenPosition`, `PendingOrder` | syncPositions, syncOrders | risk gate (counts open positions) |
| Account, closed trades, statistics | `TradingAccount`, `ClosedTrade`, `DailyAccountStatistic` | upserts | risk gate |
| Robot token (`middleware/mt5-auth.middleware.ts`, `services/robot.service.ts`) | `robotTokenHash`, the terminal's token and its file | registration, comparison | every request of the terminal |
| Other authentication, controllers, validators, WebSocket, audit, webhooks, idempotency records | request-local, append-only, or tables no code uses | | |

What is hard here, and what makes each component correct:

- **Command lifecycle.** Every handler is check-then-update with no condition
  on the update; two jobs update by id whatever they find; a poll's response
  can be lost after the rows are marked; the job lock
  (`jobs/index.ts:19`) never refuses anybody, so runs overlap. Correct means:
  a key makes one command; a command is handed out once per requeue; the
  number of requeues is bounded; what the risk gate refused is never handed
  out; a finished status, its execution row and its history agree; every
  command comes to rest.
- **Emergency stop.** One transaction for two flags and the status, then the
  command, then a terminal that may be mid-batch, restarted, or fed an older
  command after a newer one. Correct means: the two flags agree; when
  everything has been executed the terminal is in the state the back end
  shows; the status shows the stop; no entry is executed behind a stop that
  has arrived; a cleared robot stays stopped.
- **Status.** Three writers (operators, heartbeats, the offline job) write one
  column from rows they read earlier.
- **Terminal.** One thread, memory-only journal, no use of `expiresAt` nor of
  the `emergencyStopActive` the responses carry, and no look at what a post was
  answered. Correct means: no command is executed twice while its id is
  remembered; what was executed is recorded as executed; a terminal that
  believes it is registered is accepted, and is heard again after a fault.
- **Snapshots.** A transaction of many statements and no sequence number: a late
  snapshot undoes a newer one. Correct means: each snapshot replaces the table as
  if it were one step; without an overtaking nothing false is shown; the tables
  catch up with the broker.
- **Risk gate.** Five reads and an insert, while heartbeats, jobs, operators and
  snapshots write the rows in between. Correct means: what stood the whole time
  refuses the entry; the limits are exceeded only by what could not be counted.

`PROJECT.json` lists every hazard at its line, with the property that covers it
or the reason why none does.

## 2. Modules

| Module | What it is |
|---|---|
| `CommandLifecycle` | The `TradeCommand` rows of one robot, all handlers and jobs, each split where the code awaits |
| `CommandContract` | The abstract specification: each handler as one atomic step guarded by its own check; two theorems that every implementation inherits |
| `MCCommandLifecycle` | Symmetry for TLC |
| `CommandLifecycleProofs`, `CommandContractProofs` | Invariants, the refinement of the contract, and what follows from it |
| `EmergencyStop` | The stop from the dashboard to the terminal's flags, with heartbeats and the offline job |
| `MCEmergencyStop`, `EmergencyStopProofs` | Symmetry; type correctness, agreement of the flags, obedience of the terminal and of its entries |
| `RiskGate` | validateCommand check by check and read by read, with every writer of the rows it reads, and the exposure that results |
| `MCRiskGate`, `RiskGateProofs` | Settings, requests and reports for TLC; what the gate guarantees for all of them |
| `BridgeSession` | The token, the EA's timer, its journal, and the fate of each command it takes, over a network that loses and delays |
| `MCBridgeSession`, `BridgeSessionProofs` | The instance; executions per memory, restart and requeue, the record of outcomes, the token |
| `TerminalSync` | The broker, the snapshots the terminal sends, and the statements that apply them |
| `SnapshotContract` | The abstract specification of a snapshot table: a snapshot is applied in one step |
| `MCTerminalSync`, `TerminalSyncProofs` | The instance; the refinement of both tables, ordered snapshots, and tables that stay exact |

The modules meet where one leaves a choice open that another decides. The
verdict of the gate is free in `CommandLifecycle` and computed in `RiskGate`; a
command is requeued at any time in `EmergencyStop` and `BridgeSession`, and
`CommandLifecycle` says when; a snapshot is any set of tickets that existed in
`RiskGate`, and `TerminalSync` says which (`RowsExisted`). `CommandContract` is
implemented by the split handlers of `CommandLifecycle` as long as no two calls
hold one row, and only then. `BridgeSession` splits the same handlers and jobs
and does not implement it: a post the EA gave up on overlaps its next post, and a
requeue that read the row overlaps the result. So the session promises nothing
about the status an executed command ends in, only about its execution row.

### CommandLifecycle

State: the columns of the row that decide anything (`status`, `key`,
`retryCount`, `deliveredAt`, with `deliveryOwner` written and cleared beside
it), the `toStatus` of the latest history row, the outcome in the execution
row, and per call in flight what it read. `due[c]` latches when `expiresAt` has
passed; `deliveredAt[c]` goes null, recent, overdue against the 30 s cutoff.
`received`, `answers` and `deliveries` record what clients were told.

PostgreSQL runs at READ COMMITTED. An UPDATE locks its rows until the COMMIT,
so the writes of one transaction are one step (`...Commits`), and a SELECT
without a lock is another (`...Reads`), even inside the same transaction. The
poll's SELECT takes `FOR UPDATE SKIP LOCKED`, so it and its UPDATE are one
step; the rows it skips are why `Deliver` may take any subset. A step of
`createCommand` is: look up the key, validate, insert, write the history of a
refusal. The verdict of the risk gate is a free Boolean: it depends on tables
of other components. `Kill...` is a process that dies or a transaction rolled
back. A `Run` is one run of a job anywhere: each of the instances on its timer,
or the internal trigger, which takes no lock at all (`internal.routes.ts:42`).

`VALIDATING` and `CANCELLED` are statuses no code writes; `atomicDeliver` has
no caller and is left out.

### EmergencyStop

A row of commands is an index 1..MaxCommands in the order of `createdAt`; of its
life only queued, handed out, taken and expired matter here, and a row is
requeued or expired at any time (CommandLifecycle has when). An operator's call
sets flags and status in one step and creates its command in another. A
heartbeat is read when it is sent (`Reported`), reads the robot row, and writes
the status later. The EA is one thread: it polls and sends heartbeats only
between batches, executes a batch in the order of the response, and skips ids
it has seen. `Restart` is `OnInit`. `Execute`'s `posted` says whether the posts
arrived: an unposted command stays delivered and is requeued.

An entry (`OPEN`) is two steps, `EntryAllowed` on the row as it is and the
insert later; the other checks of the gate can refuse at any time, which the
model has by not taking the step. The model's terminal has `Allow_Backend_Trades`
on and `Dry_Run` off. `disturbed` is history: it records that an operator
overtook another, a command was lost, late or forgotten, or a stop command was
created without the flag (`POST /commands` accepts any type). `awaitingStart`
is history too: an active stop was cleared and no start issued since.

### RiskGate

A step of a call is one read of `validateCommand` with the checks made of it, in
the order robot, account, settings, newest heartbeat, count of positions, count
of the symbol, insert. The checks of a read are a list in the order of the code;
the code a refusal carries is that of the first one that fails. Only entries are
judged: every other type goes straight to the insert. `Request`, `Setting` and
`Report` are constants with types, so the theorems hold for any prices, lots and
limits. The command and the position it opens have the call's name; `Local`
positions are the EA's own and the trader's. A queued entry is filled, fails or
waits; a snapshot lists any positions that existed, also late ones.

A heartbeat has its three statements (insert, account, robot). The other
writers (account call, registration, offline job, stop, clear, settings) are one
step each, for the gate reads one row of theirs at a time. `standing` and
`unseen` are history: which conditions have held since a call began, and
what was exposed without being in the list a call counted.

The code's own peculiarities are kept: `enabled` of a reported account is not
copied, so that `ACCOUNT_DISABLED` cannot occur; the direction is not compared
with the type of the command; without `entryPrice` the sides and the ratio
of stop and target are not checked; an entry without a symbol is not counted per
symbol; orders to be placed pass the gate and are refused by the EA as
unsupported; `minimumMarginLevel`, 150 by default (`schema.prisma:296`), is
compared with a level that MT5 reports as 0 when nothing is open.

### BridgeSession

The timer is a program: register unless registered, heartbeat, poll, then for
each command of the batch journal, acknowledge, executing, execute, result
(`doing`). A request is answered, or lost, or handled without its answer coming
back, or given up and handled later (`late`); everything but the first costs one
of `MaxFaults`, and so do a restart and a registration from elsewhere under
the same robot id. A restart keeps the token file and nothing else. Tokens are
numbers in the order in which they are stored. A heartbeat is refused after the
first signal, for `lastSignal` is then an object where the schema wants a string
(`heartbeat.validators.ts:33`, EA 535). `heard` says that a heartbeat was stored
since the robot was last marked OFFLINE, whatever status it reported.

A post is two steps of the back end: `PassesChecks` reads the token and the
status, `CommitPost` overwrites the status later, whatever it is by then, and for
a result upserts the `TradeExecution` row (`recorded`) in the same transaction.
Between the two the EA waits (`accepted`), or has given up: the request is then in
`late`, accepted or not, and goes on by itself beside whatever the EA sends next
(`LateArrives`, `LateCommits`). A run of the requeue or the expiration job selects
rows in one step (`running`) and updates them by id in another. So a requeue that
selected a delivered row can queue it again after its result was committed: the
command is delivered once more, skipped by the EA, which has seen it, and ends
EXPIRED or waits, although it was executed and recorded. `FINISHED` stands for COMPLETED
and FAILED; which of them a result makes, and that it agrees with the execution
row when results race, is `ResultMatchesExecution` of `CommandLifecycle`. Between
the EA's three posts, what it does next does not depend on their answers (`After`).

`executions`, `forgot`, `restarts` and `unreported` are history: how often each
command was executed and lost from the journal, how often the terminal started
again, and whose results were refused for their token or given up. The EA executes
what it took whether it is due or not.

### TerminalSync and SnapshotContract

The broker opens and closes positions, places and cancels orders, and turns an
order into a position. `Receive` takes what the broker holds at that moment;
`Upsert` writes one item and takes its row's lock; `Sweep` fixes the rows the
update to STALE looks at; `Commit` waits for their locks, looks at them again
and shows everything at once; `Abort` undoes it. The refinement mapping of a
table is the set of its live rows and, of the calls of its kind, the phase, the
list, and what others committed while the call was sweeping. That last part
is the price of READ COMMITTED the contract names: two first snapshots that
overlap can leave the union of their lists, until the next one.

The terminal here is any client of the endpoints that sends arrays, as
`docs/MT5_INTEGRATION_GUIDE.md` describes. The EA in the repository wraps its
lists in an object (EA 658, 668, 682), which the array schemas refuse: with
that EA the three tables stay empty, and no property here is about it.

## 3. Runs

| Run | Instance | Shows |
|---|---|---|
| `lifecycle_overlap` | 1 row, 1 key, 2 creators, 2 posts, 3 job runs, MaxRetry 2 | type, hand-outs, retries, stamps, results, history, rejection, under every overlap |
| `lifecycle_exclusive` | 2 rows, 1 key, 2 creators, 2 posts, 2 runs, MaxRetry 1, batches of 2, `ExclusiveSpec` | idempotent creation; when no two calls hold the same row, the handlers implement `CommandContract`, terminal is final and two runs keep the retry limit |
| `lifecycle_settles` | 1 row, 2 posts, 2 runs, `FairSpec` | every command comes to rest |
| `lifecycle_terminal` (violation) | 1 row, 1 post, 1 run | a terminal status is left again |
| `stop_reaches_terminal` | 2 operators, 3 rows, START_ROBOT | flags agree; the terminal obeys |
| `stop_shows` | 1 operator, 1 trader, 1 heartbeat, 2 rows, `FairSpec` | the status does not stay ONLINE under a stop; no entry created under a stop is executed |
| `stop_cleared` (violation) | 1 operator, 1 heartbeat, 2 rows | a cleared robot is ONLINE without a start |
| `stop_entries` (violation) | 1 operator, 1 trader, 2 rows | an entry is executed before the stop of its own batch |
| `gate_holds` | 2 calls, 1 local position, 3 requests, 2 settings, 2 reports, 3 writes | a standing bar refuses; the overshoot of the limits is what was not counted; the first position is not the back end's |
| `session_holds` | 2 commands, 1 job run at a time, a journal of 1, 1 requeue, 1 fault, `FairSpec` | one execution per memory, per requeue and, with a journal that holds what was executed, per start of the terminal; what was executed has its execution row, unless its result was lost or it was due; a registered terminal is accepted; it is heard again |
| `session_twice` (violation) | 1 command, 1 job run at a time, a journal of 2, 1 fault | a command is executed twice |
| `sync_tables` | 1 position, 2 orders, 2 calls, `FairSpec` | both tables implement `SnapshotContract`; ordered snapshots do not lie; the tables catch up and then stay exact |

Why the bounds are enough. The handlers of one row never look at another row
(a batch only takes the union of what it would do to each), so one row carries
every interleaving of posts and jobs on it; two rows are there where a batch or
exclusion matters or keys collide. Two posts are the smallest number
that race; three runs are what it takes for two of them to overshoot the retry
limit behind a third, which separates the bound `MaxRetry + runs - 1` from
`MaxRetry`. Under exclusion two runs are enough: without it two already exceed
`MaxRetry`, so the run shows what exclusion buys. Three rows of commands hold stop, clear and stop again, or a start
between them, all redelivered. In the gate two calls are what it takes for one to
fill the place the other counted as free, three writes for a bar to rise, fall and
rise within a call, and each check is compared with a value on either side of it
only where a property tells them apart (loss, drawdown, margin, age, flags,
counts, symbols). A journal of one forgets with the second command; one fault is
any single loss, delay, restart or foreign registration at any point. One job run
overlaps every post, one in flight and one given up; the same configuration has
also been run with two faults and two overlapping runs on one command (3.1 million
states, no error). `stop_shows` has two rows, since an entry and a stop must share a
batch, and one heartbeat, which is what it takes to write a status read before
the stop; with two overlapping heartbeats it has also been run (4.3 million
states, no error). Two snapshot
calls are the smallest number that overtake; two orders let a transaction
hold one row while it waits for another, which is where two of them deadlock and
one is undone. The theorems lift the safety properties to all bounds.

`CHECK_DEADLOCK FALSE` stands where the system may come to rest: all commands
settled, every write and fault spent, every ticket gone.

Fairness (`FairSpec`). Job runs are `setInterval` timers of every live process
(`jobs/index.ts:71`), so a run that can read does (weak), and is not killed
every time before it commits (strong on the commits, since a kill disables
them); clocks advance. The offline job and the passing of its timeout are
weakly fair. Nothing is assumed of clients, operators, heartbeats, polls or the
network. In `BridgeSession` the EA's timer goes on (`EventSetTimer`), weakly fair:
a request it waits for is answered or times out (`Http_Timeout_MS`).
`HeardAgain` speaks of executions whose faults end. In `TerminalSync` the timer
sends each list again (strong, because a slot may be taken at times), a
transaction goes on when it can (strong, because PostgreSQL serves the waiters
of a lock in turn) or is undone when it waits too long (weak: Prisma closes an
interactive transaction after five seconds, and PostgreSQL detects deadlocks). `TablesCatchUp` speaks
of executions in which transactions are not undone for other reasons for ever.

`EverySettles` counts `EXECUTING` as rest, because the code does: no job selects
it, and a terminal that dies there leaves the row for good.

## 4. Findings

- `lifecycle_terminal`: 'Command is already terminal'
  (`command.service.ts:53-54`) is compared before the transaction, and no
  UPDATE repeats the condition. Counterexample: a result is posted and
  committed between the read and the update of a second call or of a job; the
  finished command becomes EXPIRED, QUEUED again, or the other outcome. The run
  `lifecycle_exclusive` shows that overlap on one row is the only cause, and
  `ExclusiveEndsAreFinal` proves it.
- `stop_cleared`: "robot remains stopped until explicitly started"
  (`emergency.service.ts:22`). The EA's clear leaves `g_robotRunning` true
  (`FloubaLiteEliteEA.mq5:604`) and its heartbeat rewrites the status.
- `stop_entries`: "When `EMERGENCY_STOP` arrives, immediately disable new
  entries" (`docs/MT5_INTEGRATION_GUIDE.md:60`). The batch is chosen by
  priority and returned by age (`command-queue.ts:11,16`). The order by age is not
  a loss only: because of it an entry created after the stop is not executed, even
  if the gate judged it before the stop (`EntriesObeyOlderStops`, undisturbed).
- `session_twice`: "The EA must durably deduplicate command IDs"
  (`docs/SECURITY_GUIDE.md:24`). `g_commandIds` is an array of the running program
  (`FloubaLiteEliteEA.mq5:142, 858-859`). Counterexample: a restart between the
  execution and the acceptance of its result; the row is requeued and delivered
  to a terminal that has forgotten it. `ExecutedOncePerMemory` and
  `RepeatsNeedRestarts`, which hold, say that this and the overflow of the journal
  are the only causes, and `ExecutedOncePerRequeue` that the back end's retry limit
  bounds the damage whatever the terminal forgets.

## 5. Proofs

All theorems assume only the named assumptions on the constants of their module,
which TLC evaluates in every run.

- `CommandLifecycleProofs`. `InvHolds` establishes the inductive invariant
  `Inv`: the types; a call that still owes a history row owes it to the row it
  has just refused, whose key is the call's own (`RejectionInFlight`); and a row
  that is absent or refused has never been delivered and no post or run holds
  it (`RefusedUntouched`). `RejectionIsFinal` follows from it directly. The other
  theorems add one invariant each, inductive relative to `Inv`: the bound on
  retries needs that the count of a row and the number of runs that still hold it
  stay together under `MaxRetry + |Run|`, a run past the comparison owning one
  future increment (`RetryBudget`); the bound on deliveries `HandOutBudget`; the
  stamps, results and history `RowsConsistent`; idempotent creation that every
  answer to a key holds that key and no two rows hold the same (`KeyInv`).
- `CommandContractProofs`. `ExclusiveKeepsContract`: the refinement mapping is
  the identity on `status`, `retryCount` and `due`. Its invariant says that what
  a call read is still true when it commits, which exclusion preserves, because
  only calls and polls write the row, and a poll takes QUEUED rows only, which
  no post holds and the expiration job may hold only when they are due.
- `CommandContract` has two theorems of its own, without any assumption but that
  the limit is a number: `EndsAreFinal`, since every step moves rows from statuses
  that are not final, and `RetriesStayWithinLimit`. They are theorems about
  whatever implements the contract: `ExclusiveEndsAreFinal` and
  `ExclusiveRetriesWithinLimit` follow from them and `ExclusiveKeepsContract`.
  Both properties are false of `CommandLifecycle` without exclusion (`lifecycle_terminal`; the bound
  `RetriesBounded` is larger).
- `EmergencyStopProofs`. `StopTypeCorrect` and `FlagsAlwaysAgree` are inductive
  as they stand. `TerminalAlwaysObeys` uses `disturbed \/ InOrder`: while nothing
  is disturbed at most one operator is between its flags and its command, what
  the terminal has seen is a prefix of the rows, a batch precedes all unseen
  rows outside it, no unseen row is anywhere but in the batch or queued, the
  terminal's flag is what that prefix says (`StopAfter`) and the back end's flag
  is what all rows say, or what the pending operator is about to. `OrderAlways`
  is that invariant; `EntriesAlwaysObey` follows from it too, for a terminal that
  trades has seen exactly the rows before the entry, and a stop among them that
  is not taken back leaves its flag set.
- `TerminalSyncProofs`. `PositionsRefine` and `OrdersRefine` are one proof for
  any table `k`, from `CoverInv`: while a call sweeps, every live row of the table
  is one it saw, one it lists, or one committed late. `OrderedNeverLie` needs
  `OrderInv` on top: tickets live once (`Existed`); of two calls in flight one
  was received first (`Received`); what an older call lists and a newer does not
  is gone (`Vanished`); and, while nothing was overtaken, a call no newer one has
  passed lists nothing STALE, and what it misses has no row yet (`InOrder`).
  `RowsExisted` is a line of that invariant. `ExactStays` is the part of
  `TablesCatchUp` that needs no fairness: a commit over an exact table writes what
  the table shows already (`CommitExact`).
- `RiskGateProofs`. `GateInv` says what a call in progress knows of the bars that
  have stood since it began: those it has checked do not stand, and what it has
  read of the others will refuse it (`Knows`); `StandingBarsRefuse` is its last line.
  `FirstPositionElsewhere` follows a margin level other than 0 from the terminal
  through the heartbeat and the account row into the call (`FirstInv`).
  `ExposureIsBounded` uses `BoundInv`: the exposure a call did see stays under the
  limit it counted against, since whatever becomes exposed later joins what it
  did not see; the rest is cardinalities of finite sets.
- `BridgeSessionProofs`. `WorkInv` is the types and what the timer's place says of
  `current`. `ExecutedOnceWhileRemembered` uses `MemoryInv`: every execution, begun
  or done, is paid for by an id that is in the journal or was lost.
  `ExecutedIsRecorded` uses `RecordInv`: a finished row has its execution row, only
  due rows expire, since an expiration run holds due rows only, and what the EA
  holds exists; so a result can be refused only for its token, which makes it
  unreported, or because another result was recorded or the command was due,
  and no overwriting of the status takes these three back. `RegisteredStaysAccepted` is inductive relative to `WorkInv`.
  `ExecutionsBounded` uses `BudgetInv`: executions done, the one begun, the command
  in the batch and the row that waits to be handed out all draw on one budget of
  a row, `retries + 1`; a requeue pays for the wait it causes even when it
  overwrites a row that had moved on. `RepeatsAreRestarts` uses `JournalInv`: the ids in the
  journal are distinct and belong to executed or current commands, so an id can
  only be pushed out by as many others as the journal holds (`PushedOut`, a
  cardinality argument).

Besides `ConstantsAssumption`, `RiskGate` has five assumptions: the types of
requests, settings and reports, that the write bound is a number, and that calls
and local positions are finitely many and have different names.

`CommandContract` and `SnapshotContract` have none. Every safety invariant and
action property of the passing runs is stated by a theorem.

Only model-checked: the liveness properties (`EverySettles`, `StopShows`,
`TablesCatchUp`, `HeardAgain`), which are out of the prover's reach, and the four
violations.

## 6. Not modelled

- The EA's local strategy and protection (EA 230-470, 766-835): signals, lots,
  the daily-loss lock, the equity floor, break-even and trailing. One thread,
  arithmetic over prices and indicators that MetaTrader supplies, and no effect on
  the protocol but positions the back end did not ask for, which `RiskGate` has.
- The parameters of an execution: how the EA reads lot, stop, target and ticket
  from a command, and what the broker answers. The model has success or failure.
- Authentication beyond the robot token (API keys, signatures, rate limits):
  decisions about one request, without state another request could disturb. A
  timestamp out of tolerance is a lost request in `BridgeSession`.
- The aliases and defaults of the heartbeat normalizer, validators and response
  formatting: functions of one request.
- WebSocket events and audit, security and log records: no state depends on them.
- The webhook queue and the idempotency records: tables no code uses.
- The job lock's row, which refuses nobody (`jobs/index.ts:19`); the
  daily statistics, which copy the account row into a row nothing reads.
- The Base44 examples, which are callers only, and the two other Expert Advisors,
  one superseded, one that never calls the back end.

## 7. Running

    tlc -config LifecycleOverlap.cfg MCCommandLifecycle.tla     # Lifecycle*.cfg
    tlc -config StopReachesTerminal.cfg MCEmergencyStop.tla     # Stop*.cfg
    tlc -config GateHolds.cfg MCRiskGate.tla
    tlc -config SessionHolds.cfg MCBridgeSession.tla            # Session*.cfg
    tlc -config SyncTables.cfg MCTerminalSync.tla
    tlapm CommandContract.tla
    tlapm CommandLifecycleProofs.tla                            # each *Proofs.tla
