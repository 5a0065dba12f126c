----------------------------- MODULE BridgeSession -----------------------------
(***************************************************************************)
(* The session of one terminal with the back end: the robot token that      *)
(* every registration renews, the EA's timer (register, heartbeat, poll),   *)
(* its journal of command ids, and what becomes of the commands it takes.   *)
(*                                                                         *)
(* The EA is one thread.  Each of its requests is answered, lost, handled   *)
(* without its answer coming back, or given up and handled later; the EA    *)
(* looks at the answers of registrations and polls only.  A request whose   *)
(* timestamp is outside the tolerance is refused, which is losing it here.  *)
(* A post and a job run of the back end read the rows in one step and write *)
(* them in a later one, whatever they have become; what goes on in between  *)
(* may be another post, the one of a request given up, or another run.      *)
(* EmergencyStop has the order in which a batch is executed.                *)
(***************************************************************************)
EXTENDS Naturals, Sequences, FiniteSets

CONSTANTS
  Command,      \* the entries and other commands that clients create
  Run,          \* job runs that can be in flight at once, over all instances
  JournalSize,  \* MAX_COMMAND_IDS
  MaxRetries,   \* maximumRetryCount
  MaxFaults     \* bound on lost requests, restarts and other registrations

Nobody == "nobody"

ASSUME ConstantsAssumption ==
  /\ JournalSize \in Nat \ {0}
  /\ MaxRetries \in Nat
  /\ MaxFaults \in Nat
  /\ Nobody \notin Command

VARIABLES
  \* The back end.
  hash,        \* robotTokenHash: the number of its token, 0 without a row
  heard,       \* a heartbeat was stored since the robot was last marked OFFLINE
  status,      \* of the TradeCommand rows
  retries,
  due,         \* commands whose expiresAt has passed
  recorded,    \* commands with a TradeExecution row
  running,     \* the job runs in flight and the rows they selected
  \* The terminal.
  registered,  \* g_registered
  token,       \* g_robotToken
  file,        \* the token on disk
  signalled,   \* g_lastSignal is not empty
  journal,     \* g_commandIds
  doing,       \* what the timer does next
  batch,       \* commands of the last poll still to be looked at
  current,     \* the command being executed
  accepted,    \* the post the EA waits for has passed its checks
  \* The network.
  late,        \* requests given up that the back end may still handle
  \* History.
  faults,      \* bounded by MaxFaults
  executions,  \* per command: how often it was executed
  forgot,      \* per command: how often the journal lost it
  restarts,
  unreported,  \* commands whose result did not come through
  overtaken    \* a token was stored after the one the terminal registered with

robot   == <<hash, heard>>
rows    == <<status, retries, due, recorded, running>>
session == <<registered, token, file, signalled>>
work    == <<journal, doing, batch, current, accepted>>
history == <<executions, forgot, restarts, unreported>>
vars    == <<robot, rows, session, work, late, faults, history, overtaken>>

-----------------------------------------------------------------------------
(* FINISHED stands for COMPLETED and FAILED: CommandLifecycle has which of   *)
(* the two a result makes it.                                               *)
Status == {"ABSENT", "QUEUED", "DELIVERED", "ACKNOWLEDGED", "EXECUTING", "FINISHED", "EXPIRED"}

Doing == {"register", "heartbeat", "poll", "next", "acknowledge", "executing", "execute",
          "result"}

Posting == {"acknowledge", "executing", "result"}

Registration == [kind : {"register"}]
Poll         == [kind : {"poll"}, token : Nat]

(* The bodies of the posts: who acts on what.  Outcomes, prices, ids and    *)
(* times beside them are data.                                              *)
Post == [kind : Posting, command : Command, token : Nat]

(* A request given up: whether a handler has accepted it and is about to    *)
(* write, and by which fault the EA lost sight of it.                       *)
GivenUp ==
  [request : Registration \cup Poll, accepted : {FALSE}, fault : Nat]
    \cup [request : Post, accepted : BOOLEAN, fault : Nat]

(* A poll returns the names of commands; what they ask for is data. *)
Batch == SUBSET Command

Remembered == {journal[i] : i \in DOMAIN journal}

NoRun == [job |-> "idle", held |-> {}]

Init ==
  /\ hash = 0 /\ heard = FALSE
  /\ status = [c \in Command |-> "ABSENT"]
  /\ retries = [c \in Command |-> 0]
  /\ due = {} /\ recorded = {}
  /\ running = [r \in Run |-> NoRun]
  /\ registered = FALSE /\ token = 0 /\ file = 0 /\ signalled = FALSE
  /\ journal = << >>
  /\ doing = "register" /\ batch = {} /\ current = Nobody
  /\ accepted = FALSE
  /\ late = {}
  /\ faults = 0
  /\ executions = [c \in Command |-> 0]
  /\ forgot = [c \in Command |-> 0]
  /\ restarts = 0
  /\ unreported = {}
  /\ overtaken = FALSE

Fault ==
  /\ faults < MaxFaults
  /\ faults' = faults + 1

(* No answer comes back; the back end has the request or never gets it. *)
GiveUp(m, passed) ==
  /\ Fault
  /\ late' \in {late, late \cup {[request |-> m, accepted |-> passed, fault |-> faults]}}

-----------------------------------------------------------------------------
(* The handlers of the back end. *)

(* A new token is different from every other: the tokens are numbered in    *)
(* the order in which they are stored.                                      *)
NewToken == hash + 1

(* A registration makes a token, stores its hash and returns the token.     *)
StoreRegistration ==
  /\ hash' = NewToken
  /\ UNCHANGED heard

(* mt5AuthMiddleware: the robot is there and the token is its newest one.   *)
(* Different tokens have different hashes.                                  *)
Accepts(t) == hash # 0 /\ t = hash

(* A heartbeat is stored if its body is well formed: lastSignal is an       *)
(* object once there was a signal, and a string in the schema.              *)
StoreHeartbeat(t) == heard' = (heard \/ (Accepts(t) /\ ~signalled))

DeliverableUntilFinished ==
  {c \in Command : status[c] \notin {"ABSENT", "EXPIRED", "FINISHED"} /\ c \notin due}

(* Rows another transaction has locked and rows beyond the limit stay.      *)
Deliverable == {c \in Command : status[c] = "QUEUED" /\ c \notin due}

SetStatus(commands, s) ==
  status' = [c \in Command |-> IF c \in commands THEN s ELSE status[c]]

DeliverTo(commands) == SetStatus(commands, "DELIVERED")

Acknowledgeable == {"DELIVERED"}

Executable == {"DELIVERED", "ACKNOWLEDGED"}

ReportableWhileExecuting == {"EXECUTING"}

(* Whatever the row had come to, unless it is terminal. *)
Reportable == {"QUEUED", "DELIVERED", "ACKNOWLEDGED", "EXECUTING"}

(* The token, then the status the handler reads. *)
PassesChecks(m) ==
  /\ Accepts(m.token)
  /\ \/ m.kind = "acknowledge" /\ status[m.command] \in Acknowledgeable
     \/ m.kind = "executing" /\ status[m.command] \in Executable
     \/ m.kind = "result" /\ status[m.command] \in Reportable

(* updateStatus: the status is overwritten whatever it is by now; a result  *)
(* upserts its TradeExecution row in the same transaction.                  *)
CommitPost(m) ==
  /\ SetStatus({m.command},
       IF m.kind = "acknowledge" THEN "ACKNOWLEDGED"
       ELSE IF m.kind = "executing" THEN "EXECUTING"
       ELSE "FINISHED")
  /\ recorded' = IF m.kind = "result" THEN recorded \cup {m.command} ELSE recorded

-----------------------------------------------------------------------------
(* Clients and jobs. *)

Outside == UNCHANGED <<session, work, late, history>>

Create(c) ==
  /\ status[c] = "ABSENT"
  /\ status' = [status EXCEPT ![c] = "QUEUED"]
  /\ Outside /\ UNCHANGED <<robot, retries, due, recorded, running, faults, overtaken>>

(* Of no matter to a row while it is terminal. *)
PassExpiry(c) ==
  /\ status[c] \notin {"ABSENT", "FINISHED", "EXPIRED"} /\ c \notin due
  /\ due' = due \cup {c}
  /\ Outside /\ UNCHANGED <<robot, status, retries, recorded, running, faults, overtaken>>

Abandoned == {c \in Command : status[c] = "DELIVERED" /\ retries[c] < MaxRetries}

Stale == {c \in due : status[c] \in {"QUEUED", "DELIVERED", "ACKNOWLEDGED"}}

RunReads(r, job, selected) ==
  /\ running[r] = NoRun
  /\ selected # {}
  /\ running' = [running EXCEPT ![r] = [job |-> job, held |-> selected]]
  /\ Outside /\ UNCHANGED <<robot, status, retries, due, recorded, faults, overtaken>>

(* retryAbandonedDeliveries: those of half a minute without an              *)
(* acknowledgement, then an update of the ids whatever the rows became.     *)
RequeueReads(r) == \E selected \in SUBSET Abandoned : RunReads(r, "requeue", selected)

RequeueCommits(r) ==
  /\ running[r].job = "requeue"
  /\ SetStatus(running[r].held, "QUEUED")
  /\ retries' = [c \in Command |-> IF c \in running[r].held THEN retries[c] + 1 ELSE retries[c]]
  /\ running' = [running EXCEPT ![r] = NoRun]
  /\ Outside /\ UNCHANGED <<robot, due, recorded, faults, overtaken>>

(* expireStaleCommands, likewise. *)
ExpireReads(r) == RunReads(r, "expire", Stale)

ExpireCommits(r) ==
  /\ running[r].job = "expire"
  /\ SetStatus(running[r].held, "EXPIRED")
  /\ running' = [running EXCEPT ![r] = NoRun]
  /\ Outside /\ UNCHANGED <<robot, retries, due, recorded, faults, overtaken>>

(* The process dies or the transaction is rolled back. *)
KillRun(r) ==
  /\ running[r] # NoRun
  /\ running' = [running EXCEPT ![r] = NoRun]
  /\ Outside /\ UNCHANGED <<robot, status, retries, due, recorded, faults, overtaken>>

MarkOffline ==
  /\ heard
  /\ heard' = FALSE
  /\ Outside /\ UNCHANGED <<hash, rows, faults, overtaken>>

(* Another chart or terminal with the same Robot_Id. *)
OtherRegisters ==
  /\ Fault
  /\ StoreRegistration
  /\ overtaken' = (overtaken \/ registered)
  /\ Outside /\ UNCHANGED rows

(* A request the terminal has given up comes to be handled; a post is       *)
(* accepted in one step and written in another.                             *)
LateArrives(r) ==
  /\ ~r.accepted
  /\ \/ /\ r.request \in Registration
        /\ StoreRegistration
        /\ overtaken' = (overtaken \/ registered)
        /\ late' = late \ {r}
        /\ UNCHANGED status
     \/ /\ r.request \in Poll /\ Accepts(r.request.token)
        /\ \E commands \in SUBSET Deliverable : DeliverTo(commands)
        /\ late' = late \ {r}
        /\ UNCHANGED <<robot, overtaken>>
     \/ /\ r.request \in Post /\ PassesChecks(r.request)
        /\ late' = (late \ {r}) \cup {[r EXCEPT !.accepted = TRUE]}
        /\ UNCHANGED <<status, robot, overtaken>>
     \/ /\ \/ r.request \in Poll /\ ~Accepts(r.request.token)
           \/ r.request \in Post /\ ~PassesChecks(r.request)
        /\ late' = late \ {r}
        /\ UNCHANGED <<status, robot, overtaken>>
  /\ UNCHANGED <<retries, due, recorded, running, session, work, faults, history>>

LateCommits(r) ==
  /\ r.accepted
  /\ CommitPost(r.request)
  /\ late' = late \ {r}
  /\ UNCHANGED <<robot, retries, due, running, session, work, faults, history, overtaken>>

-----------------------------------------------------------------------------
(* The EA's timer. *)

SkipRegister ==
  /\ doing = "register" /\ registered
  /\ doing' = "heartbeat"
  /\ UNCHANGED <<robot, rows, session, journal, batch, current, accepted, late, faults, history,
                 overtaken>>

AdoptIfEmpty == token' = IF token = 0 THEN NewToken ELSE token

(* The answer always holds a token, which replaces the one in use. *)
Adopt == token' = NewToken

(* RegisterRobot.  Writing the file may fail unnoticed. *)
RegisterRobot ==
  /\ doing = "register" /\ ~registered
  /\ \/ /\ StoreRegistration
        /\ registered' = TRUE
        /\ Adopt
        /\ file' \in {file, token'}
        /\ overtaken' = FALSE
        /\ UNCHANGED <<late, faults>>
     \/ /\ Fault
        /\ StoreRegistration
        /\ UNCHANGED <<registered, token, file, overtaken, late>>
     \/ /\ GiveUp([kind |-> "register"], FALSE)
        /\ UNCHANGED <<robot, registered, token, file, overtaken>>
  /\ doing' = "heartbeat"
  /\ UNCHANGED <<rows, signalled, journal, batch, current, accepted, history>>

(* A late heartbeat is EmergencyStop's subject. *)
SendHeartbeat ==
  /\ doing = "heartbeat"
  /\ \/ StoreHeartbeat(token) /\ UNCHANGED faults
     \/ Fault /\ UNCHANGED heard
  /\ doing' = IF registered THEN "poll" ELSE "register"
  /\ UNCHANGED <<hash, rows, session, journal, batch, current, accepted, late, history,
                 overtaken>>

PollCommands ==
  /\ doing = "poll"
  /\ \/ /\ Accepts(token)
        /\ \E commands \in SUBSET Deliverable :
             /\ DeliverTo(commands)
             /\ batch' = commands
        /\ doing' = "next"
        /\ UNCHANGED <<late, faults>>
     \/ /\ Accepts(token) /\ Fault
        /\ \E commands \in SUBSET Deliverable : DeliverTo(commands)
        /\ doing' = "register"
        /\ UNCHANGED <<batch, late>>
     \/ /\ ~Accepts(token)
        /\ doing' = "register"
        /\ UNCHANGED <<status, batch, late, faults>>
     \/ /\ GiveUp([kind |-> "poll", token |-> token], FALSE)
        /\ doing' = "register"
        /\ UNCHANGED <<status, batch>>
  /\ UNCHANGED <<robot, retries, due, recorded, running, session, journal, current,
                 accepted, history, overtaken>>

EndPoll ==
  /\ doing = "next" /\ batch = {}
  /\ doing' = "register"
  /\ UNCHANGED <<robot, rows, session, journal, batch, current, accepted, late, faults, history,
                 overtaken>>

SeenBeforeNewest(c) == \E i \in DOMAIN journal : i < Len(journal) /\ journal[i] = c

CommandSeen(c) == c \in Remembered

SkipSeen(c) ==
  /\ doing = "next" /\ c \in batch
  /\ CommandSeen(c)
  /\ batch' = batch \ {c}
  /\ UNCHANGED <<robot, rows, session, journal, doing, current, accepted, late, faults, history,
                 overtaken>>

MarkWithoutLimit(c) == journal' = Append(journal, c) /\ UNCHANGED forgot

MarkUntilFull(c) ==
  IF Len(journal) < JournalSize
  THEN journal' = Append(journal, c) /\ UNCHANGED forgot
  ELSE UNCHANGED <<journal, forgot>>

(* A full journal loses its oldest id. *)
MarkCommand(c) ==
  IF Len(journal) < JournalSize
  THEN journal' = Append(journal, c) /\ UNCHANGED forgot
  ELSE /\ journal' = Append(Tail(journal), c)
       /\ forgot' = [forgot EXCEPT ![Head(journal)] = @ + 1]

TakeCommand(c) ==
  /\ doing = "next" /\ c \in batch
  /\ ~CommandSeen(c)
  /\ MarkCommand(c)
  /\ batch' = batch \ {c}
  /\ current' = c
  /\ doing' = "acknowledge"
  /\ UNCHANGED <<robot, rows, session, accepted, late, faults, executions, restarts,
                 unreported, overtaken>>

(* The post the EA is at, if doing is one. *)
CurrentPost == [kind |-> doing, command |-> current, token |-> token]

After == [acknowledge |-> "executing", executing |-> "execute", result |-> "next"]

(* The EA does not look at the answer of a post. *)
GoOn ==
  /\ doing' = After[doing]
  /\ current' = IF doing = "result" THEN Nobody ELSE current
  /\ accepted' = FALSE
  /\ UNCHANGED <<robot, retries, due, running, session, journal, batch, executions, forgot,
                 restarts, overtaken>>

PostAccepted ==
  /\ doing \in Posting /\ ~accepted
  /\ PassesChecks(CurrentPost)
  /\ accepted' = TRUE
  /\ UNCHANGED <<robot, rows, session, journal, doing, batch, current, late, faults,
                 history, overtaken>>

PostRefused ==
  /\ doing \in Posting /\ ~accepted
  /\ ~PassesChecks(CurrentPost)
  /\ unreported' = IF doing = "result" /\ ~Accepts(token) THEN unreported \cup {current}
                   ELSE unreported
  /\ GoOn
  /\ UNCHANGED <<status, recorded, late, faults>>

PostCommitted ==
  /\ doing \in Posting /\ accepted
  /\ CommitPost(CurrentPost)
  /\ GoOn
  /\ UNCHANGED <<late, faults, unreported>>

Unanswered ==
  /\ GiveUp(CurrentPost, accepted)
  /\ unreported' = IF doing = "result" THEN unreported \cup {current} ELSE unreported

PostGivenUp ==
  /\ doing \in Posting
  /\ Unanswered
  /\ GoOn
  /\ UNCHANGED <<status, recorded>>

(* expiresAt is not looked at, and the broker decides. *)
Execute ==
  /\ doing = "execute"
  /\ executions' = [executions EXCEPT ![current] = @ + 1]
  /\ doing' = "result"
  /\ UNCHANGED <<robot, rows, session, journal, batch, current, accepted, late, faults, forgot,
                 restarts, unreported, overtaken>>

(* A tick with enough velocity. *)
Signal ==
  /\ ~signalled
  /\ signalled' = TRUE
  /\ UNCHANGED <<robot, rows, registered, token, file, work, late, faults, history, overtaken>>

(* OnInit after the terminal went away at any point, also before the answer *)
(* of a post.                                                               *)
Restart ==
  /\ \/ doing \in Posting /\ Unanswered
     \/ doing \notin Posting /\ Fault /\ UNCHANGED <<late, unreported>>
  /\ registered' = FALSE /\ token' = file /\ signalled' = FALSE
  /\ journal' = << >>
  /\ forgot' = [c \in Command |-> IF c \in Remembered THEN forgot[c] + 1 ELSE forgot[c]]
  /\ restarts' = restarts + 1
  /\ doing' = "register" /\ batch' = {} /\ current' = Nobody
  /\ accepted' = FALSE
  /\ UNCHANGED <<robot, rows, file, executions, overtaken>>

-----------------------------------------------------------------------------
PostStep ==
  \/ PostAccepted
  \/ PostRefused
  \/ PostCommitted
  \/ PostGivenUp

OnTimer ==
  \/ SkipRegister
  \/ RegisterRobot
  \/ SendHeartbeat
  \/ PollCommands
  \/ EndPoll
  \/ \E c \in Command : SkipSeen(c) \/ TakeCommand(c)
  \/ PostStep
  \/ Execute

RunStep(r) ==
  \/ RequeueReads(r)
  \/ RequeueCommits(r)
  \/ ExpireReads(r)
  \/ ExpireCommits(r)
  \/ KillRun(r)

Next ==
  \/ \E c \in Command : Create(c) \/ PassExpiry(c)
  \/ \E r \in Run : RunStep(r)
  \/ MarkOffline
  \/ OtherRegisters
  \/ \E r \in late : LateArrives(r) \/ LateCommits(r)
  \/ OnTimer
  \/ Signal
  \/ Restart

Spec == Init /\ [][Next]_vars

(* The terminal's timer goes on: the request it waits for is answered or     *)
(* times out.                                                               *)
FairSpec == Spec /\ WF_vars(OnTimer)

-----------------------------------------------------------------------------
(* Every variable keeps its type. *)
TypeOK ==
  /\ hash \in Nat /\ heard \in BOOLEAN
  /\ status \in [Command -> Status]
  /\ retries \in [Command -> Nat]
  /\ due \subseteq Command /\ recorded \subseteq Command
  /\ running \in [Run -> [job : {"requeue", "expire", "idle"}, held : SUBSET Command]]
  /\ registered \in BOOLEAN /\ token \in Nat /\ file \in Nat /\ signalled \in BOOLEAN
  /\ journal \in Seq(Command) /\ Len(journal) <= JournalSize
  /\ doing \in Doing
  /\ batch \in Batch
  /\ current \in Command \cup {Nobody}
  /\ accepted \in BOOLEAN
  /\ late \subseteq GivenUp
  /\ faults \in 0..MaxFaults
  /\ executions \in [Command -> Nat]
  /\ forgot \in [Command -> Nat]
  /\ restarts \in Nat
  /\ unreported \subseteq Command
  /\ overtaken \in BOOLEAN

(* However often the back end hands a command out, the EA executes it once, *)
(* and once more for each time its journal lost the command: a restart, or  *)
(* JournalSize younger commands (FloubaLiteEliteEA.mq5:587, 593, 858-859).  *)
ExecutedOncePerMemory == \A c \in Command : executions[c] <= 1 + forgot[c]

(* Lost and late requests never make the EA execute a command again: what   *)
(* exceeds one execution is a restart's doing, or the journal had to hold   *)
(* more commands than MAX_COMMAND_IDS (FloubaLiteEliteEA.mq5:142, 858-859).  *)
Executed == {c \in Command : executions[c] > 0}
RepeatsNeedRestarts ==
  Cardinality(Executed) <= JournalSize => \A c \in Executed : executions[c] <= 1 + restarts

(* Nor does the terminal ever execute a command more often than the back    *)
(* end meant it to: once, and once per requeue, whatever was restarted or   *)
(* forgotten (command-queue.ts:7-15, command-retry.ts:6-9).                 *)
ExecutedOncePerRequeue == \A c \in Command : executions[c] <= retries[c] + 1

(* What the EA executed leaves a TradeExecution row in the back end, though *)
(* posts are lost and the row is requeued or expired while the EA works on  *)
(* it.  A post or a job run that read the row earlier may overwrite its     *)
(* status (command-retry.ts:8), but a result is refused only when another   *)
(* was written or the command was due, and what one wrote is never taken    *)
(* back (command.service.ts:51-69).                                         *)
EveryOutcomeRecorded ==
  \A c \in Command :
    executions[c] > 0 /\ c # current => c \in recorded \cup unreported \cup due

(* A terminal that believes to be registered holds the token the back end   *)
(* accepts, whichever answers of earlier registrations were lost, unless a  *)
(* registration was handled after its own (robot.service.ts:14-18).         *)
RegisteredIsAccepted == registered => Accepts(token) \/ overtaken

(* Once requests come through and the terminal stays up, its heartbeats are *)
(* heard again and again; only an overtaken registration and a signal,      *)
(* after which heartbeats are refused (heartbeat.validators.ts:33), silence *)
(* it for good.                                                             *)
HeardAgain ==
  (<>[][faults' = faults]_vars) =>
    ([]<>heard \/ <>[](overtaken \/ signalled))

(* "The EA must durably deduplicate command IDs" (SECURITY_GUIDE.md:24). *)
ExecutedOnce == \A c \in Command : executions[c] <= 1
===============================================================================
