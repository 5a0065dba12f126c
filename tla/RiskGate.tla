------------------------------- MODULE RiskGate -------------------------------
(***************************************************************************)
(* The risk gate of one robot: what an entry command has to pass before it  *)
(* is queued, and how exposed the account becomes through it.               *)
(*                                                                         *)
(* A call of createCommand judges the request against rows it reads one     *)
(* after the other (robot, account, settings, newest heartbeat, counts of   *)
(* positions) and inserts the command at last; heartbeats, the offline job, *)
(* snapshots, stops and changes of the settings write those rows meanwhile. *)
(* A call and the command it creates share a name: a queued command is      *)
(* executed by the terminal, which opens the position of the same name.     *)
(*                                                                         *)
(* Absent numbers of a request are 0 (its schema wants positive ones); null *)
(* columns are Null.  The settings row exists from registration on; whether *)
(* its creation can fail is EmergencyStop's subject, idempotency keys are   *)
(* CommandLifecycle's, overlapping heartbeats EmergencyStop's, and the      *)
(* statements of a snapshot TerminalSync's.                                 *)
(***************************************************************************)
EXTENDS Integers, Sequences, FiniteSets

CONSTANTS
  Call,      \* calls of createCommand, one request each
  Local,     \* positions the back end did not ask for: the EA's own, the trader's
  Symbol,
  Chart,     \* the symbol the EA trades when a command names none
  Request,   \* the requests clients make
  Setting,   \* the settings operators choose
  Report,    \* what the terminal may report of itself and of the account
  MaxWrites  \* bound on the writes of the rows but the positions'

Null == -1

NoSymbol == "no symbol"

EntryType == {"OPEN_BUY", "OPEN_SELL", "PLACE_BUY_LIMIT", "PLACE_SELL_LIMIT",
              "PLACE_BUY_STOP", "PLACE_SELL_STOP"}

CloseType == {"CLOSE_POSITION", "CLOSE_PARTIAL", "CLOSE_ALL_POSITIONS",
              "CANCEL_PENDING_ORDER", "CANCEL_ALL_PENDING_ORDERS"}

ControlType == {"START_ROBOT", "STOP_ROBOT", "PAUSE_ROBOT", "RESUME_ROBOT", "EMERGENCY_STOP",
                "CLEAR_EMERGENCY_STOP", "UPDATE_ROBOT_SETTINGS", "SYNC_ACCOUNT",
                "SYNC_POSITIONS", "SYNC_ORDERS", "SYNC_TRADES", "MOVE_TO_BREAKEVEN",
                "ENABLE_TRAILING_STOP", "DISABLE_TRAILING_STOP", "MODIFY_POSITION",
                "MODIFY_PENDING_ORDER"}

RequestType ==
  [type : EntryType \cup CloseType \cup ControlType, symbol : Symbol \cup {NoSymbol},
   direction : {"BUY", "SELL", "none"}, lot : Nat, risk : Nat,
   entry : Nat, stop : Nat, target : Nat]

SettingType ==
  [allowed : SUBSET Symbol, blocked : SUBSET Symbol, minimumLot : Nat, maximumLot : Nat,
   maximumRisk : Nat, maximumPositions : Nat, maximumPerSymbol : Nat,
   maximumLoss : Nat \cup {Null}, maximumLossPercent : Nat, maximumDrawdown : Nat,
   minimumFreeMargin : Nat, minimumMarginLevel : Nat, maximumSpread : Nat \cup {Null},
   requireStop : BOOLEAN, minimumRewardRisk : Nat \cup {Null}]

Status == {"REGISTERING", "ONLINE", "OFFLINE", "PAUSED", "STOPPED", "EMERGENCY_STOPPED"}

(* marginUsed is the margin level while the account holds positions: MT5    *)
(* reports 0 when no margin is in use.                                      *)
ReportType ==
  [status : Status, auto : BOOLEAN, terminal : BOOLEAN, broker : BOOLEAN,
   balance : Int, loss : Int, drawdown : Int, freeMargin : Int, marginUsed : Int,
   session : BOOLEAN, news : BOOLEAN, spreadPassed : BOOLEAN, spread : Nat \cup {Null}]

ASSUME RequestAssumption == Request \subseteq RequestType
ASSUME SettingAssumption == Setting \subseteq SettingType /\ Setting # {}
ASSUME ReportAssumption  == Report \subseteq ReportType
ASSUME WritesAssumption  == MaxWrites \in Nat
ASSUME NameAssumption ==
  /\ Call \cap Local = {} /\ IsFiniteSet(Call \cup Local)
  /\ Chart \in Symbol
  /\ NoSymbol \notin Symbol

VARIABLES
  \* The rows the gate reads.
  robot,      \* status and flags
  account,
  settings,
  newest,     \* the newest heartbeat
  stale,      \* it is older than a minute
  listed,     \* the positions whose row is OPEN
  \* Who writes and reads them.
  beat,       \* the heartbeat being processed
  call,       \* the calls, and the commands they create
  \* The broker.
  position,   \* of each name: none, held or closed
  \* Bookkeeping.
  writes,     \* how often the rows were written, bounded by MaxWrites
  standing,   \* per call: the bars that have stood since it began
  unseen      \* per call: the exposure its counts did not see

rows == <<robot, account, settings, newest, stale>>
vars == <<rows, listed, beat, call, position, writes, standing, unseen>>

-----------------------------------------------------------------------------
Ticket == Call \cup Local

RobotRow == [status : Status, stop : BOOLEAN, auto : BOOLEAN, terminal : BOOLEAN,
             broker : BOOLEAN]

AccountRow == [known : BOOLEAN, enabled : BOOLEAN, auto : BOOLEAN, balance : Int, loss : Int,
               drawdown : Int, freeMargin : Int, marginLevel : Int]

BeatRow == [known : BOOLEAN, session : BOOLEAN, news : BOOLEAN, spreadPassed : BOOLEAN,
            spread : Nat \cup {Null}]

NoAccount == [known |-> FALSE, enabled |-> FALSE, auto |-> FALSE, balance |-> 0, loss |-> 0,
              drawdown |-> 0, freeMargin |-> 0, marginLevel |-> 0]

NoBeat == [known |-> FALSE, session |-> FALSE, news |-> FALSE, spreadPassed |-> FALSE,
           spread |-> Null]

NoRequest == [type |-> "SYNC_ORDERS", symbol |-> NoSymbol, direction |-> "none", lot |-> 0,
              risk |-> 0, entry |-> 0, stop |-> 0, target |-> 0]

AnySetting == CHOOSE s \in Setting : TRUE

(* A call that has read nothing. *)
Idle == [pc |-> "idle", request |-> NoRequest, code |-> "none", auto |-> FALSE,
         account |-> NoAccount, rules |-> AnySetting]

Code == {"EMERGENCY_STOP_ACTIVE", "ROBOT_PAUSED", "ROBOT_STOPPED", "ROBOT_OFFLINE",
         "TERMINAL_DISCONNECTED", "BROKER_DISCONNECTED", "ACCOUNT_NOT_FOUND",
         "ACCOUNT_DISABLED", "AUTOTRADING_DISABLED", "SYMBOL_BLOCKED", "SYMBOL_NOT_ALLOWED",
         "INVALID_DIRECTION", "LOT_TOO_SMALL", "LOT_TOO_LARGE", "RISK_PERCENT_TOO_HIGH",
         "STOP_LOSS_REQUIRED", "INVALID_STOP_DISTANCE", "INVALID_TAKE_PROFIT_DISTANCE",
         "REWARD_RISK_TOO_LOW", "DRAWDOWN_LIMIT_REACHED", "DAILY_LOSS_LIMIT_REACHED",
         "FREE_MARGIN_TOO_LOW", "MARGIN_LEVEL_TOO_LOW", "STALE_MARKET_DATA",
         "SESSION_NOT_ALLOWED", "NEWS_FILTER_BLOCKED", "SPREAD_TOO_HIGH",
         "MAX_OPEN_POSITIONS_REACHED", "MAX_SYMBOL_POSITIONS_REACHED"}

CallState == [pc : {"idle", "account", "settings", "beat", "count", "symbol", "inserting",
                    "queued", "filled"},
              request : Request \cup {NoRequest}, code : Code \cup {"none"}, auto : BOOLEAN,
              account : AccountRow, rules : Setting]

NoBeatCall == [pc |-> "idle"]

BeatState == {NoBeatCall} \cup
  [pc : {"insert", "account", "robot"}, report : Report, level : Int, stop : BOOLEAN]

Init ==
  /\ robot = [status |-> "REGISTERING", stop |-> FALSE, auto |-> FALSE, terminal |-> FALSE,
               broker |-> FALSE]
  /\ account = NoAccount
  /\ settings \in Setting
  /\ newest = NoBeat
  /\ stale = FALSE
  /\ listed = {}
  /\ beat = NoBeatCall
  /\ call = [c \in Call |-> Idle]
  /\ position = [t \in Ticket |-> "none"]
  /\ writes = 0
  /\ standing = [c \in Call |-> {}]
  /\ unseen = [c \in Call |-> {}]

-----------------------------------------------------------------------------
(* The checks, in the order of the code.  A request is refused with the     *)
(* code of the first check that fails.                                      *)

Check(fails, code) == [fails |-> fails, code |-> code]

Passes(checks) == \A i \in DOMAIN checks : ~checks[i].fails

Refuses(checks, code) ==
  \E i \in DOMAIN checks :
    /\ checks[i].fails
    /\ checks[i].code = code
    /\ \A j \in 1..(i - 1) : ~checks[j].fails

RobotChecksByStatus(r) ==
  << Check(r.status # "ONLINE", "ROBOT_OFFLINE"),
     Check(~r.terminal, "TERMINAL_DISCONNECTED"),
     Check(~r.broker, "BROKER_DISCONNECTED") >>

RobotChecks(r) ==
  << Check(r.stop, "EMERGENCY_STOP_ACTIVE"),
     Check(r.status = "PAUSED", "ROBOT_PAUSED"),
     Check(r.status = "STOPPED", "ROBOT_STOPPED"),
     Check(r.status # "ONLINE", "ROBOT_OFFLINE"),
     Check(~r.terminal, "TERMINAL_DISCONNECTED"),
     Check(~r.broker, "BROKER_DISCONNECTED") >>

AccountChecks(auto, a) ==
  << Check(~a.known, "ACCOUNT_NOT_FOUND"),
     Check(~a.enabled, "ACCOUNT_DISABLED"),
     Check(~auto \/ ~a.auto, "AUTOTRADING_DISABLED") >>

(* A buyer wants a below b, a seller above. *)
Wrong(direction, a, b) ==
  \/ direction = "BUY" /\ b <= a
  \/ direction = "SELL" /\ b >= a

Distance(a, b) == IF a < b THEN b - a ELSE a - b

RequestChecks(q, s) ==
  LET priced == q.entry # 0 IN
  << Check(q.symbol \in s.blocked, "SYMBOL_BLOCKED"),
     Check(q.symbol # NoSymbol /\ s.allowed # {} /\ q.symbol \notin s.allowed,
           "SYMBOL_NOT_ALLOWED"),
     Check(q.direction = "none", "INVALID_DIRECTION"),
     Check(q.lot = 0 \/ q.lot < s.minimumLot, "LOT_TOO_SMALL"),
     Check(q.lot > s.maximumLot, "LOT_TOO_LARGE"),
     Check(q.risk > s.maximumRisk, "RISK_PERCENT_TOO_HIGH"),
     Check(s.requireStop /\ q.stop = 0, "STOP_LOSS_REQUIRED"),
     Check(priced /\ q.stop # 0 /\ Wrong(q.direction, q.stop, q.entry),
           "INVALID_STOP_DISTANCE"),
     Check(priced /\ q.target # 0 /\ Wrong(q.direction, q.entry, q.target),
           "INVALID_TAKE_PROFIT_DISTANCE"),
     Check(/\ priced /\ q.stop # 0 /\ q.target # 0 /\ s.minimumRewardRisk # Null
           /\ Distance(q.target, q.entry) < s.minimumRewardRisk * Distance(q.entry, q.stop),
           "REWARD_RISK_TOO_LOW") >>

LossReached(a, s) ==
  IF s.maximumLoss # Null
  THEN a.loss >= s.maximumLoss
  ELSE a.balance > 0 /\ a.loss * 100 >= s.maximumLossPercent * a.balance

DrawdownReached(a, s) == a.drawdown >= s.maximumDrawdown

AccountLimitsInUse(a, s) ==
  << Check(DrawdownReached(a, s), "DRAWDOWN_LIMIT_REACHED"),
     Check(LossReached(a, s), "DAILY_LOSS_LIMIT_REACHED"),
     Check(a.freeMargin < s.minimumFreeMargin, "FREE_MARGIN_TOO_LOW"),
     Check(a.marginLevel # 0 /\ a.marginLevel < s.minimumMarginLevel, "MARGIN_LEVEL_TOO_LOW") >>

AccountLimits(a, s) ==
  << Check(DrawdownReached(a, s), "DRAWDOWN_LIMIT_REACHED"),
     Check(LossReached(a, s), "DAILY_LOSS_LIMIT_REACHED"),
     Check(a.freeMargin < s.minimumFreeMargin, "FREE_MARGIN_TOO_LOW"),
     Check(a.marginLevel < s.minimumMarginLevel, "MARGIN_LEVEL_TOO_LOW") >>

(* A limit of 0 is a limit: the columns are objects, which are never falsy. *)
MarketChecks(b, old, s) ==
  << Check(~b.known \/ old, "STALE_MARKET_DATA"),
     Check(~b.session, "SESSION_NOT_ALLOWED"),
     Check(b.news, "NEWS_FILTER_BLOCKED"),
     Check(\/ ~b.spreadPassed
           \/ s.maximumSpread # Null /\ b.spread # Null /\ b.spread > s.maximumSpread,
           "SPREAD_TOO_HIGH") >>

-----------------------------------------------------------------------------
(* A call of createCommand.  What it read is in the record seen.            *)

Judge(c, seen, checks, next) ==
  \/ /\ Passes(checks)
     /\ call' = [call EXCEPT ![c] = [seen EXCEPT !.pc = next]]
  \/ \E code \in Code :
       /\ Refuses(checks, code)
       /\ call' = [call EXCEPT ![c] = [seen EXCEPT !.pc = "inserting", !.code = code]]

Untouched == UNCHANGED <<rows, listed, beat, position, writes>>

(* Only entries are judged. *)
ReadRobot(c, q) ==
  /\ call[c].pc = "idle"
  /\ \/ /\ q.type \in EntryType
        /\ Judge(c, [Idle EXCEPT !.request = q, !.auto = robot.auto], RobotChecks(robot), "account")
     \/ /\ q.type \notin EntryType
        /\ call' = [call EXCEPT ![c] = [Idle EXCEPT !.request = q, !.pc = "inserting"]]
  /\ Untouched

(* The relations of the robot are further statements. *)
ReadAccount(c) ==
  /\ call[c].pc = "account"
  /\ Judge(c, [call[c] EXCEPT !.account = account], AccountChecks(call[c].auto, account),
           "settings")
  /\ Untouched

ReadSettings(c) ==
  /\ call[c].pc = "settings"
  /\ Judge(c, [call[c] EXCEPT !.rules = settings, !.auto = FALSE, !.account = NoAccount],
           RequestChecks(call[c].request, settings) \o AccountLimits(call[c].account, settings),
           "beat")
  /\ Untouched

ReadBeat(c) ==
  /\ call[c].pc = "beat"
  /\ Judge(c, call[c], MarketChecks(newest, stale, call[c].rules), "count")
  /\ Untouched

Exceeded(tickets, limit) == Cardinality(tickets) > limit
Reached(tickets, limit) == Cardinality(tickets) >= limit

Count(c) ==
  /\ call[c].pc = "count"
  /\ Judge(c, call[c],
           << Check(Reached(listed, call[c].rules.maximumPositions),
                    "MAX_OPEN_POSITIONS_REACHED") >>,
           IF call[c].request.symbol = NoSymbol THEN "inserting" ELSE "symbol")
  /\ Untouched

(* The symbol of a position: the EA trades the chart when none is named. *)
SymbolOf(t) ==
  IF t \in Call /\ call[t].request.symbol # NoSymbol THEN call[t].request.symbol ELSE Chart

CountSymbol(c) ==
  /\ call[c].pc = "symbol"
  /\ Judge(c, call[c],
           << Check(Reached({t \in listed : SymbolOf(t) = call[c].request.symbol},
                            call[c].rules.maximumPerSymbol), "MAX_SYMBOL_POSITIONS_REACHED") >>,
           "inserting")
  /\ Untouched

IsEntry(c) == call[c].request.type \in EntryType

(* QUEUED or REJECTED; what is not an entry leaves no exposure behind. *)
Insert(c) ==
  /\ call[c].pc = "inserting"
  /\ call' = [call EXCEPT ![c] = IF call[c].code = "none" /\ IsEntry(c)
                                 THEN [call[c] EXCEPT !.pc = "queued"] ELSE Idle]
  /\ Untouched

-----------------------------------------------------------------------------
(* The terminal and the broker. *)

(* Pending orders are refused by the EA as unsupported. *)
Fill(c) ==
  /\ call[c].pc = "queued"
  /\ call[c].request.type \in {"OPEN_BUY", "OPEN_SELL"}
  /\ call' = [call EXCEPT ![c].pc = "filled"]
  /\ position' = [position EXCEPT ![c] = "held"]
  /\ UNCHANGED <<rows, listed, beat, writes>>

(* Refused by the terminal or the broker, or expired. *)
Fail(c) ==
  /\ call[c].pc = "queued"
  /\ call' = [call EXCEPT ![c] = Idle]
  /\ Untouched

OpenLocal(t) ==
  /\ position[t] = "none"
  /\ position' = [position EXCEPT ![t] = "held"]
  /\ UNCHANGED <<rows, listed, beat, call, writes>>

Close(t) ==
  /\ position[t] = "held"
  /\ position' = [position EXCEPT ![t] = "closed"]
  /\ UNCHANGED <<rows, listed, beat, call, writes>>

(* A snapshot, of this moment or one that was overtaken. *)
Snapshot(tickets) ==
  /\ \A t \in tickets : position[t] # "none"
  /\ tickets # listed
  /\ listed' = tickets
  /\ UNCHANGED <<rows, beat, call, position, writes>>

-----------------------------------------------------------------------------
(* What else writes the rows. *)

Writes ==
  /\ writes < MaxWrites
  /\ writes' = writes + 1

(* The margin level the terminal reports of account and positions. *)
Level(r) == IF \A t \in Ticket : position[t] # "held" THEN 0 ELSE r.marginUsed

AccountOfUpdate(r, level) ==
  [known |-> TRUE, auto |-> r.auto, balance |-> r.balance, loss |-> r.loss,
   drawdown |-> r.drawdown, freeMargin |-> r.freeMargin, marginLevel |-> level]

AccountOf(r, level) ==
  [known |-> TRUE, enabled |-> TRUE, auto |-> r.auto, balance |-> r.balance, loss |-> r.loss,
   drawdown |-> r.drawdown, freeMargin |-> r.freeMargin, marginLevel |-> level]

(* The payload passed its schema. *)
BeatReads(r) ==
  /\ beat.pc = "idle"
  /\ beat' = [pc |-> "insert", report |-> r, level |-> Level(r), stop |-> robot.stop]
  /\ Writes
  /\ UNCHANGED <<rows, listed, call, position>>

BeatInserts ==
  /\ beat.pc = "insert"
  /\ newest' = [known |-> TRUE, session |-> beat.report.session, news |-> beat.report.news,
                spreadPassed |-> beat.report.spreadPassed, spread |-> beat.report.spread]
  /\ stale' = FALSE
  /\ beat' = [beat EXCEPT !.pc = "account"]
  /\ UNCHANGED <<robot, account, settings, listed, call, position, writes>>

BeatSyncsAccount ==
  /\ beat.pc = "account"
  /\ account' = AccountOf(beat.report, beat.level)
  /\ beat' = [beat EXCEPT !.pc = "robot"]
  /\ UNCHANGED <<robot, settings, newest, stale, listed, call, position, writes>>

BeatUpdatesRobot ==
  /\ beat.pc = "robot"
  /\ robot' = [robot EXCEPT
                 !.status = IF beat.stop THEN "EMERGENCY_STOPPED" ELSE beat.report.status,
                 !.auto = beat.report.auto, !.terminal = beat.report.terminal,
                 !.broker = beat.report.broker]
  /\ beat' = NoBeatCall
  /\ UNCHANGED <<account, settings, newest, stale, listed, call, position, writes>>

BeatFails ==
  /\ beat.pc # "idle"
  /\ beat' = NoBeatCall
  /\ UNCHANGED <<rows, listed, call, position, writes>>

Elsewhere == UNCHANGED <<listed, beat, call, position>>

(* The account synchronisation of its own, /api/mt5/account. *)
SyncAccount(r) ==
  /\ account' = AccountOf(r, Level(r))
  /\ Writes
  /\ Elsewhere /\ UNCHANGED <<robot, settings, newest, stale>>

(* A registration writes the flags and keeps the status. *)
Register(r) ==
  /\ robot' = [robot EXCEPT !.auto = r.auto, !.terminal = r.terminal, !.broker = r.broker]
  /\ Writes
  /\ Elsewhere /\ UNCHANGED <<account, settings, newest, stale>>

(* The robot was silent for longer than the offline timeout. *)
MarkOffline ==
  /\ robot.status \in {"ONLINE", "REGISTERING"}
  /\ robot' = [robot EXCEPT !.status = "OFFLINE", !.terminal = FALSE, !.broker = FALSE]
  /\ Writes
  /\ Elsewhere /\ UNCHANGED <<account, settings, newest, stale>>

Activate ==
  /\ robot' = [robot EXCEPT !.stop = TRUE, !.status = "EMERGENCY_STOPPED"]
  /\ Writes
  /\ Elsewhere /\ UNCHANGED <<account, settings, newest, stale>>

Clear ==
  /\ robot' = [robot EXCEPT !.stop = FALSE, !.status = "STOPPED"]
  /\ Writes
  /\ Elsewhere /\ UNCHANGED <<account, settings, newest, stale>>

UpdateSettings(s) ==
  /\ settings' = s
  /\ Writes
  /\ Elsewhere /\ UNCHANGED <<robot, account, newest, stale>>

(* A minute without a new heartbeat. *)
GrowStale ==
  /\ newest.known /\ ~stale
  /\ stale' = TRUE
  /\ Writes
  /\ Elsewhere /\ UNCHANGED <<robot, account, settings, newest>>

-----------------------------------------------------------------------------
(* What a reader of the gate relies on: a condition that stands from the    *)
(* first read of a call to its last refuses it.                             *)

Bar == {"stop", "offline", "robot auto", "account auto", "loss", "margin", "stale", "full"}

(* The bars that stand now. *)
Bars ==
  {b \in Bar :
     \/ b = "stop" /\ robot.stop
     \/ b = "offline" /\ robot.status # "ONLINE"
     \/ b = "robot auto" /\ ~robot.auto
     \/ b = "account auto" /\ ~account.auto
     \/ b = "loss" /\ (LossReached(account, settings) \/ DrawdownReached(account, settings))
     \/ b = "margin" /\ account.marginLevel < settings.minimumMarginLevel
     \/ b = "stale" /\ (stale \/ ~newest.known)
     \/ b = "full" /\ Cardinality(listed) >= settings.maximumPositions}

(* The bars that compare a row with the settings. *)
Ruled == {"loss", "margin", "full"}

(* Entries in the pipeline and positions at the broker. *)
Exposure == {c \in Call : call[c].pc = "queued"} \cup {t \in Ticket : position[t] = "held"}

(* A call that has not refused its entry. *)
Open(c) == call[c].pc \notin {"idle", "queued", "filled"} /\ call[c].code = "none" /\ IsEntry(c)

Counted(c) == Open(c) /\ call[c].pc \in {"symbol", "inserting"}

(* History: a call starts with the bars of its first read and keeps those   *)
(* that go on standing; a change of the settings lifts the ruled ones.      *)
(* What is exposed and not listed when a call counts is unseen by it, and   *)
(* what becomes exposed later.                                              *)
Watch ==
  /\ standing' = [c \in Call |->
       IF ~Open(c)' THEN {}
       ELSE IF ~Open(c) THEN Bars
       ELSE (standing[c] \cap Bars') \ (IF settings' # settings THEN Ruled ELSE {})]
  /\ unseen' = [c \in Call |->
       IF ~Counted(c)' THEN {}
       ELSE IF call'[c] # call[c] THEN unseen[c] \cup (Exposure \ listed)
       ELSE unseen[c] \cup (Exposure' \ Exposure)]

Step ==
  \/ \E c \in Call :
       \/ \E q \in Request : ReadRobot(c, q)
       \/ ReadAccount(c)
       \/ ReadSettings(c)
       \/ ReadBeat(c)
       \/ Count(c)
       \/ CountSymbol(c)
       \/ Insert(c)
       \/ Fill(c)
       \/ Fail(c)
  \/ \E t \in Local : OpenLocal(t)
  \/ \E t \in Ticket : Close(t)
  \/ \E tickets \in SUBSET Ticket : Snapshot(tickets)
  \/ \E r \in Report : BeatReads(r) \/ SyncAccount(r) \/ Register(r)
  \/ BeatInserts
  \/ BeatSyncsAccount
  \/ BeatUpdatesRobot
  \/ BeatFails
  \/ MarkOffline
  \/ Activate
  \/ Clear
  \/ \E s \in Setting : UpdateSettings(s)
  \/ GrowStale

Next == Step /\ Watch

Spec == Init /\ [][Next]_vars

-----------------------------------------------------------------------------
(* Every variable keeps its type. *)
TypeOK ==
  /\ robot \in RobotRow
  /\ account \in AccountRow
  /\ settings \in Setting
  /\ newest \in BeatRow
  /\ stale \in BOOLEAN
  /\ listed \subseteq Ticket
  /\ beat \in BeatState
  /\ call \in [Call -> CallState]
  /\ position \in [Ticket -> {"none", "held", "closed"}]
  /\ writes \in 0..MaxWrites
  /\ standing \in [Call -> SUBSET Bar]
  /\ unseen \in [Call -> SUBSET Ticket]

(* A call about to insert an entry as QUEUED. *)
Admits(c) == Open(c) /\ call[c].pc = "inserting"

(* Although its reads are spread over time and heartbeats, stops and jobs   *)
(* write in between, a call admits no entry while a condition has stood     *)
(* since it began: an emergency stop, an offline robot, a reached loss      *)
(* limit, stale data, a full account (risk.service.ts:10-52).               *)
StandingBarRefuses == \A c \in Call : Admits(c) => standing[c] = {}

(* The limits on positions are exceeded by what the counts could not see    *)
(* and by nothing else: entries queued or not yet synchronised when the     *)
(* call counted, and what came after (risk.service.ts:48-50).               *)
ExposureBounded ==
  \A c \in Call : Admits(c) =>
    LET of(tickets) == {t \in tickets : SymbolOf(t) = call[c].request.symbol} IN
    /\ Cardinality(Exposure) < call[c].rules.maximumPositions + Cardinality(unseen[c])
    /\ call[c].request.symbol # NoSymbol =>
         Cardinality(of(Exposure)) < call[c].rules.maximumPerSymbol + Cardinality(of(unseen[c]))

(* Under a margin requirement, 150 by default, the first position of an     *)
(* account never comes from the back end: without positions the margin      *)
(* level the terminal reports is 0 (risk.service.ts:42).                    *)
FirstPositionIsNotOurs ==
  \A c \in Call :
    call[c].pc \in {"queued", "filled"} /\ call[c].rules.minimumMarginLevel > 0 =>
      \E t \in Ticket \ {c} : position[t] # "none"
=============================================================================
