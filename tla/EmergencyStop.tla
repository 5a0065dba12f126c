---------------------------- MODULE EmergencyStop ----------------------------
(***************************************************************************)
(* The emergency stop of one robot, from the dashboard to the terminal: the *)
(* flags and the status of the Robot row, the heartbeats and the offline    *)
(* job that rewrite the status, the control commands on their way to the    *)
(* terminal, and the three flags of the EA that decide whether it trades.   *)
(*                                                                         *)
(* A command row is one of 1..MaxCommands, numbered in the order of         *)
(* createdAt; CommandLifecycle has the whole life of a row, here a row is   *)
(* queued, handed out, taken by the terminal or expired.  The EA is one     *)
(* thread: it sends no heartbeat and no poll while it executes a batch.  A  *)
(* request it gives up on (Http_Timeout_MS) goes on in the backend.         *)
(***************************************************************************)
EXTENDS Naturals

CONSTANTS
  Operator,     \* activate and clear calls that can be in flight at once
  Trader,       \* createCommand calls for an entry that can be in flight
  Beat,         \* heartbeats that can be in flight at once
  Control,      \* the other control commands that are issued
  MaxCommands   \* rows that can be created: a bound on the length of the run

StopKinds == {"EMERGENCY_STOP", "CLEAR_EMERGENCY_STOP"}

ControlKinds == StopKinds \cup {"START_ROBOT", "STOP_ROBOT", "PAUSE_ROBOT", "RESUME_ROBOT"}

ASSUME ConstantsAssumption ==
  /\ Control \subseteq ControlKinds
  /\ MaxCommands \in Nat

VARIABLES
  \* The Robot row, and the copy of its flag in RobotSettings.
  status,
  stopActive,
  heard,         \* age of lastHeartbeatAt, or of registeredAt before the first
  settingsStop,
  \* The TradeCommand rows of the robot.
  created,
  kind,
  place,
  \* Calls in flight in the backend.
  operating,     \* the command an operator's call has yet to create
  entering,
  beating,
  \* The terminal.
  emergencyStop, \* g_emergencyStop
  paused,        \* g_paused
  robotRunning,  \* g_robotRunning
  seen,          \* g_commandIds
  batch,         \* rows of the last poll not executed yet
  \* History.
  disturbed,     \* a command was lost, late, killed, forgotten or overtaken
  awaitingStart  \* the stop was cleared and no start issued since

robot    == <<status, stopActive, heard, settingsStop>>
rows     == <<created, kind, place>>
calls    == <<operating, entering, beating>>
terminal == <<emergencyStop, paused, robotRunning, seen, batch>>
vars     == <<robot, rows, calls, terminal, disturbed, awaitingStart>>

-----------------------------------------------------------------------------
Row    == 1..MaxCommands

(* ERROR and DISCONNECTED are never written by this terminal or backend. *)
Status == {"REGISTERING", "ONLINE", "OFFLINE", "PAUSED", "STOPPED", "EMERGENCY_STOPPED"}

NoBeat == [pc |-> "idle", reported |-> "ONLINE", sawStop |-> FALSE]

Registered == status # "ABSENT"
NoOperator == \A p \in Operator : operating[p] = "none"

Init ==
  /\ status = "ABSENT"
  /\ stopActive = FALSE
  /\ heard = "recent"
  /\ settingsStop = "absent"
  /\ created = 0
  /\ kind = [i \in Row |-> "none"]
  /\ place = [i \in Row |-> "none"]
  /\ operating = [p \in Operator |-> "none"]
  /\ entering = [t \in Trader |-> FALSE]
  /\ beating = [b \in Beat |-> NoBeat]
  /\ emergencyStop = FALSE
  /\ paused = FALSE
  /\ robotRunning = TRUE
  /\ seen = {}
  /\ batch = {}
  /\ disturbed = FALSE
  /\ awaitingStart = FALSE

EnqueueTwice(k) ==
  /\ created < MaxCommands
  /\ created' = created + 2
  /\ kind' = [kind EXCEPT ![created + 1] = k, ![created + 2] = k]
  /\ place' = [place EXCEPT ![created + 1] = "QUEUED", ![created + 2] = "QUEUED"]

(* commands.create *)
Enqueue(k) ==
  /\ created < MaxCommands
  /\ created' = created + 1
  /\ kind' = [kind EXCEPT ![created + 1] = k]
  /\ place' = [place EXCEPT ![created + 1] = "QUEUED"]

-----------------------------------------------------------------------------
(* registerRobot: the settings are a statement of their own.  A second      *)
(* registration leaves the status and the flags of the row as they are.     *)

Register ==
  /\ ~Registered
  /\ status' = "REGISTERING"
  /\ UNCHANGED <<stopActive, heard, settingsStop, rows, calls, terminal, disturbed,
                 awaitingStart>>

OverwriteDefaults == settingsStop' = "clear"

(* getOrCreateDefaults: an existing row is left alone. *)
KeepOrCreate == settingsStop' = IF settingsStop = "absent" THEN "clear" ELSE settingsStop

GetOrCreateDefaults ==
  /\ Registered
  /\ KeepOrCreate
  /\ UNCHANGED <<status, stopActive, heard, rows, calls, terminal, disturbed, awaitingStart>>

-----------------------------------------------------------------------------
(* activateEmergencyStop and clearEmergencyStop: one transaction for the    *)
(* two flags and the status, then the command.                              *)

SetFlags(active) ==
  /\ stopActive' = active
  /\ settingsStop' = IF active THEN "stopped" ELSE "clear"

Activate(p) ==
  /\ Registered
  /\ operating[p] = "none"
  /\ SetFlags(TRUE)
  /\ status' = "EMERGENCY_STOPPED"
  /\ operating' = [operating EXCEPT ![p] = "EMERGENCY_STOP"]
  /\ disturbed' = (disturbed \/ ~NoOperator)
  /\ UNCHANGED <<heard, rows, entering, beating, terminal, awaitingStart>>

Clear(p) ==
  /\ Registered
  /\ operating[p] = "none"
  /\ SetFlags(FALSE)
  /\ status' = "STOPPED"
  /\ operating' = [operating EXCEPT ![p] = "CLEAR_EMERGENCY_STOP"]
  /\ disturbed' = (disturbed \/ ~NoOperator)
  /\ awaitingStart' = (awaitingStart \/ stopActive)
  /\ UNCHANGED <<heard, rows, entering, beating, terminal>>

QueueStopCommand(p) ==
  /\ operating[p] # "none"
  /\ Enqueue(operating[p])
  /\ operating' = [operating EXCEPT ![p] = "none"]
  /\ UNCHANGED <<robot, entering, beating, terminal, disturbed, awaitingStart>>

KillOperator(p) ==
  /\ operating[p] # "none"
  /\ operating' = [operating EXCEPT ![p] = "none"]
  /\ disturbed' = TRUE
  /\ UNCHANGED <<robot, rows, entering, beating, terminal, awaitingStart>>

(* start, stop, pause, resume, and any type through POST /commands: the row *)
(* of the robot is not touched.                                             *)
QueueControl(k) ==
  /\ Registered
  /\ Enqueue(k)
  /\ disturbed' = (disturbed \/ k \in StopKinds)
  /\ awaitingStart' = (awaitingStart /\ k # "START_ROBOT")
  /\ UNCHANGED <<robot, calls, terminal>>

-----------------------------------------------------------------------------
(* createCommand for OPEN_BUY or OPEN_SELL: the gate reads the row once,    *)
(* the insert comes later.  A refused entry never reaches the terminal, so  *)
(* only allowed ones are kept; the rest of the gate can refuse at any time. *)

EntryAllowed == ~stopActive /\ status = "ONLINE"

ValidateEntry(t) ==
  /\ ~entering[t]
  /\ EntryAllowed
  /\ entering' = [entering EXCEPT ![t] = TRUE]
  /\ UNCHANGED <<robot, rows, operating, beating, terminal, disturbed, awaitingStart>>

QueueEntry(t) ==
  /\ entering[t]
  /\ Enqueue("OPEN")
  /\ entering' = [entering EXCEPT ![t] = FALSE]
  /\ UNCHANGED <<robot, operating, beating, terminal, disturbed, awaitingStart>>

-----------------------------------------------------------------------------
(* The heartbeat reads the row, stores the heartbeat and the account, and   *)
(* then writes the status the terminal reported or the stop it read.        *)

Reported ==
  CASE emergencyStop -> "EMERGENCY_STOPPED"
    [] ~emergencyStop /\ paused -> "PAUSED"
    [] ~emergencyStop /\ ~paused /\ robotRunning -> "ONLINE"
    [] OTHER -> "STOPPED"

SendHeartbeat(b) ==
  /\ batch = {}
  /\ beating[b] = NoBeat
  /\ beating' = [beating EXCEPT ![b] =
       [pc |-> "sent", reported |-> Reported, sawStop |-> FALSE]]
  /\ UNCHANGED <<robot, rows, operating, entering, terminal, disturbed, awaitingStart>>

HeartbeatReads(b) ==
  /\ Registered
  /\ beating[b].pc = "sent"
  /\ beating' = [beating EXCEPT ![b].pc = "read", ![b].sawStop = stopActive]
  /\ UNCHANGED <<robot, rows, operating, entering, terminal, disturbed, awaitingStart>>

StatusAsReported(beat) == beat.reported

StatusAfter(beat) == IF beat.sawStop THEN "EMERGENCY_STOPPED" ELSE beat.reported

HeartbeatCommits(b) ==
  /\ beating[b].pc = "read"
  /\ status' = StatusAfter(beating[b])
  /\ heard' = "recent"
  /\ beating' = [beating EXCEPT ![b] = NoBeat]
  /\ UNCHANGED <<stopActive, settingsStop, rows, operating, entering, terminal,
                 disturbed, awaitingStart>>

(* The payload is refused, the connection breaks or the process dies. *)
LoseHeartbeat(b) ==
  /\ beating[b].pc # "idle"
  /\ beating' = [beating EXCEPT ![b] = NoBeat]
  /\ UNCHANGED <<robot, rows, operating, entering, terminal, disturbed, awaitingStart>>

Silence ==
  /\ Registered
  /\ heard = "recent"
  /\ heard' = "stale"
  /\ UNCHANGED <<status, stopActive, settingsStop, rows, calls, terminal, disturbed,
                 awaitingStart>>

(* runRobotOfflineJob *)
MarkOfflineStale ==
  /\ status \in {"ONLINE", "REGISTERING"}
  /\ heard = "stale"
  /\ status' = "OFFLINE"
  /\ UNCHANGED <<stopActive, heard, settingsStop, rows, calls, terminal, disturbed,
                 awaitingStart>>

-----------------------------------------------------------------------------
(* A poll takes the queued rows no other transaction holds.  The response   *)
(* lists them by createdAt, whatever their priority, or is lost.            *)

Queued == {i \in Row : place[i] = "QUEUED"}

Deliver(taken, arrives) ==
  /\ batch = {}
  /\ taken # {} /\ taken \subseteq Queued
  /\ place' = [i \in Row |-> IF i \in taken THEN "DELIVERED" ELSE place[i]]
  /\ batch' = IF arrives THEN taken ELSE {}
  /\ disturbed' = (disturbed \/ ~arrives \/ taken # Queued)
  /\ UNCHANGED <<robot, created, kind, calls, emergencyStop, paused, robotRunning,
                 seen, awaitingStart>>

Requeue(i) ==
  /\ place[i] = "DELIVERED"
  /\ place' = [place EXCEPT ![i] = "QUEUED"]
  /\ UNCHANGED <<robot, created, kind, calls, terminal, disturbed, awaitingStart>>

Expire(i) ==
  /\ place[i] \in {"QUEUED", "DELIVERED"}
  /\ place' = [place EXCEPT ![i] = "EXPIRED"]
  /\ disturbed' = TRUE
  /\ UNCHANGED <<robot, created, kind, calls, terminal, awaitingStart>>

-----------------------------------------------------------------------------
(* PollCommands goes through the batch in order; ExecuteBackendCommand      *)
(* marks the id, acts and posts.  Its posts arrive or not; a row that has   *)
(* expired refuses them.                                                    *)

AnyIsNext(i) == i \in batch

IsNext(i) == i \in batch /\ \A j \in batch : i <= j

SkipSeen(i) ==
  /\ IsNext(i) /\ i \in seen
  /\ batch' = batch \ {i}
  /\ UNCHANGED <<robot, rows, calls, emergencyStop, paused, robotRunning, seen,
                 disturbed, awaitingStart>>

(* What a command does to the three flags; an entry does nothing to them.   *)
Obeys(k) ==
  /\ emergencyStop' = (k = "EMERGENCY_STOP" \/ (emergencyStop /\ k # "CLEAR_EMERGENCY_STOP"))
  /\ paused' = ((paused \/ k = "PAUSE_ROBOT") /\ k \notin {"START_ROBOT", "RESUME_ROBOT"})
  /\ robotRunning' = ((robotRunning \/ k = "START_ROBOT") /\ k # "STOP_ROBOT")

Execute(i, posted) ==
  /\ IsNext(i) /\ i \notin seen
  /\ batch' = batch \ {i}
  /\ seen' = seen \cup {i}
  /\ Obeys(kind[i])
  /\ place' = IF posted /\ place[i] \in {"QUEUED", "DELIVERED"}
              THEN [place EXCEPT ![i] = "TAKEN"] ELSE place
  /\ UNCHANGED <<robot, created, kind, calls, disturbed, awaitingStart>>

(* OnInit: the flags start over and no id is remembered. *)
Restart ==
  /\ emergencyStop' = FALSE
  /\ paused' = FALSE
  /\ robotRunning' = TRUE
  /\ seen' = {}
  /\ batch' = {}
  /\ disturbed' = TRUE
  /\ UNCHANGED <<robot, rows, calls, awaitingStart>>

CanBridgeTrade == ~emergencyStop /\ ~paused /\ robotRunning

-----------------------------------------------------------------------------
OperatorStep(p) == Activate(p) \/ Clear(p) \/ QueueStopCommand(p) \/ KillOperator(p)

TraderStep(t) == ValidateEntry(t) \/ QueueEntry(t)

BeatStep(b) == SendHeartbeat(b) \/ HeartbeatReads(b) \/ HeartbeatCommits(b) \/ LoseHeartbeat(b)

Next ==
  \/ Register
  \/ GetOrCreateDefaults
  \/ \E p \in Operator : OperatorStep(p)
  \/ \E k \in Control : QueueControl(k)
  \/ \E t \in Trader : TraderStep(t)
  \/ \E b \in Beat : BeatStep(b)
  \/ Silence
  \/ MarkOfflineStale
  \/ \E taken \in SUBSET Row, arrives \in BOOLEAN : Deliver(taken, arrives)
  \/ \E i \in Row : Requeue(i) \/ Expire(i) \/ SkipSeen(i)
  \/ \E i \in Row, posted \in BOOLEAN : Execute(i, posted)
  \/ Restart

Spec == Init /\ [][Next]_vars

(* The offline job runs every JOB_INTERVAL_SECONDS and clocks advance.      *)
(* Nothing is assumed of operators, of the terminal or of the network.      *)
Fairness == WF_vars(Silence) /\ WF_vars(MarkOfflineStale)

FairSpec == Spec /\ Fairness

-----------------------------------------------------------------------------
(* Every variable stays in its type. *)
TypeOK ==
  /\ status \in Status \cup {"ABSENT"}
  /\ stopActive \in BOOLEAN
  /\ heard \in {"recent", "stale"}
  /\ settingsStop \in {"absent", "stopped", "clear"}
  /\ created \in 0..MaxCommands
  /\ kind \in [Row -> ControlKinds \cup {"OPEN", "none"}]
  /\ place \in [Row -> {"none", "QUEUED", "DELIVERED", "TAKEN", "EXPIRED"}]
  /\ operating \in [Operator -> StopKinds \cup {"none"}]
  /\ entering \in [Trader -> BOOLEAN]
  /\ beating \in [Beat -> [pc : {"idle", "sent", "read"}, reported : Status,
                           sawStop : BOOLEAN]]
  /\ emergencyStop \in BOOLEAN
  /\ paused \in BOOLEAN
  /\ robotRunning \in BOOLEAN
  /\ seen \subseteq Row
  /\ batch \subseteq Row
  /\ disturbed \in BOOLEAN
  /\ awaitingStart \in BOOLEAN

(* The flag of the robot and its copy in the settings agree, in whatever    *)
(* order registrations, reads of the settings and operators run             *)
(* (emergency.service.ts:11 and 20, settings.repository.ts:8-12).           *)
FlagsAgree ==
  IF settingsStop = "absent" THEN ~stopActive ELSE stopActive = (settingsStop = "stopped")

(* When every command has been executed, the terminal is stopped exactly    *)
(* when the backend says so, as long as no operator overtakes another and   *)
(* no command is lost, late or forgotten; lost posts and redeliveries are   *)
(* allowed (emergency.service.ts:12 and 21, command-queue.ts:16,            *)
(* FloubaLiteEliteEA.mq5:587-604).                                          *)
Drained == NoOperator /\ seen = 1..created
TerminalObeys == ~disturbed /\ Drained => emergencyStop = stopActive

(* The stop is in force before row i: some older row asks for it and no     *)
(* later one of them takes it back.                                         *)
StopBefore(i) ==
  \E j \in 1..(i - 1) : /\ kind[j] = "EMERGENCY_STOP"
                        /\ \A l \in (j + 1)..(i - 1) : kind[l] # "CLEAR_EMERGENCY_STOP"

(* No entry created under a stop is ever executed, though it was judged     *)
(* before the stop and inserted after it, is delivered again, or comes in   *)
(* one batch with the stop: undisturbed, the terminal is through with every *)
(* older command when it trades (command.service.ts:16-18,                  *)
(* FloubaLiteEliteEA.mq5:583-589).                                          *)
EntriesObeyOlderStops ==
  [][\A i \in Row : i \in seen' \ seen /\ kind[i] = "OPEN" /\ CanBridgeTrade /\ ~disturbed
       => ~StopBefore(i)]_vars

(* A stop that stays active ends up never shown as ONLINE again: heartbeats *)
(* that read the row before it are overtaken or go stale                    *)
(* (heartbeat.service.ts:9-13, robot.repository.ts:45-57).                  *)
StopShows == <>[]stopActive => <>[](status # "ONLINE")

-----------------------------------------------------------------------------
(* What the source and the docs say and the code does not keep. *)

(* 'Emergency stop cleared; robot remains stopped until explicitly started' *)
(* (emergency.service.ts:22).                                               *)
ClearedStaysStopped == awaitingStart => status # "ONLINE"

(* "When EMERGENCY_STOP arrives, immediately disable new entries": no entry *)
(* is executed while a received batch holds a stop that is not executed yet *)
(* (MT5_INTEGRATION_GUIDE.md:60, FloubaLiteEliteEA.mq5:583-589).            *)
StopDisablesEntries ==
  [][\A i \in Row : /\ i \in seen' \ seen
                    /\ kind[i] = "OPEN"
                    /\ CanBridgeTrade
       => \A j \in batch : kind[j] = "EMERGENCY_STOP" => j \in seen]_vars

=============================================================================
