--------------------------- MODULE RiskGateProofs ---------------------------
(***************************************************************************)
(* Proofs about RiskGate, for any calls, positions, requests, settings and  *)
(* reports.                                                                 *)
(***************************************************************************)
EXTENDS RiskGate, FiniteSetTheorems, SequenceTheorems, TLAPS

-----------------------------------------------------------------------------
(* Type correctness. *)

LEMMA RowTypes ==
  ASSUME NEW r \in Report, TypeOK
  PROVE  /\ Level(r) \in Int
         /\ \A level \in Int : AccountOf(r, level) \in AccountRow
         /\ r.status \in Status /\ r.auto \in BOOLEAN /\ r.terminal \in BOOLEAN
         /\ r.broker \in BOOLEAN /\ r.session \in BOOLEAN /\ r.news \in BOOLEAN
         /\ r.spreadPassed \in BOOLEAN /\ r.spread \in Nat \cup {Null}
<1>1. r \in ReportType
  BY ReportAssumption
<1> QED BY <1>1 DEF ReportType, Level, AccountOf, AccountRow

LEMMA IdleType == Idle \in CallState /\ \A q \in Request : [Idle EXCEPT !.request = q] \in CallState
<1>1. AnySetting \in Setting
  BY SettingAssumption DEF AnySetting
<1>2. NoAccount \in AccountRow
  BY DEF NoAccount, AccountRow
<1> QED BY <1>1, <1>2 DEF Idle, CallState

(* What a judgement comes to. *)
LEMMA Judged ==
  ASSUME TypeOK, NEW c \in Call, NEW seen \in CallState, NEW checks,
         NEW next \in {"account", "settings", "beat", "count", "symbol", "inserting"},
         Judge(c, seen, checks, next)
  PROVE  /\ call' \in [Call -> CallState]
         /\ \A d \in Call : d # c => call'[d] = call[d]
         /\ \/ Passes(checks) /\ call'[c] = [seen EXCEPT !.pc = next]
            \/ call'[c].pc = "inserting" /\ call'[c].code # "none"
<1>1. CASE Passes(checks) /\ call' = [call EXCEPT ![c] = [seen EXCEPT !.pc = next]]
  <2>1. [seen EXCEPT !.pc = next] \in CallState
    BY DEF CallState
  <2> QED BY <1>1, <2>1 DEF TypeOK
<1>2. ASSUME NEW code \in Code,
             call' = [call EXCEPT ![c] = [seen EXCEPT !.pc = "inserting", !.code = code]]
      PROVE  /\ call' \in [Call -> CallState]
             /\ \A d \in Call : d # c => call'[d] = call[d]
             /\ call'[c].pc = "inserting" /\ call'[c].code # "none"
  <2>1. [seen EXCEPT !.pc = "inserting", !.code = code] \in CallState
    BY DEF CallState
  <2>2. code # "none"
    BY DEF Code
  <2>3. call'[c] = [seen EXCEPT !.pc = "inserting", !.code = code]
    BY <1>2 DEF TypeOK
  <2>4. call'[c].pc = "inserting" /\ call'[c].code = code
    BY <2>3 DEF CallState
  <2> QED BY <1>2, <2>1, <2>2, <2>4 DEF TypeOK
<1> QED BY <1>1, <1>2 DEF Judge

LEMMA WatchTypes == TypeOK /\ Watch => /\ standing' \in [Call -> SUBSET Bar]
                                       /\ unseen' \in [Call -> SUBSET Ticket]
<1> SUFFICES ASSUME TypeOK, Watch
             PROVE  /\ standing' \in [Call -> SUBSET Bar]
                    /\ unseen' \in [Call -> SUBSET Ticket]
  OBVIOUS
<1>1. Bars \subseteq Bar /\ Bars' \subseteq Bar
  BY DEF Bars
<1>2. Exposure \subseteq Ticket /\ Exposure' \subseteq Ticket
  BY DEF Exposure, Ticket
<1>3. standing \in [Call -> SUBSET Bar] /\ unseen \in [Call -> SUBSET Ticket]
  BY DEF TypeOK
<1>4. standing' \in [Call -> SUBSET Bar]
  BY <1>1, <1>3 DEF Watch
<1>5. unseen' \in [Call -> SUBSET Ticket]
  BY <1>2, <1>3 DEF Watch
<1> QED BY <1>4, <1>5

LEMMA GateTypeInit == Init => TypeOK
<1> SUFFICES ASSUME Init PROVE TypeOK
  OBVIOUS
<1>1. call \in [Call -> CallState]
  BY IdleType DEF Init
<1>2. robot \in RobotRow /\ account \in AccountRow /\ newest \in BeatRow
  BY DEF Init, RobotRow, AccountRow, BeatRow, NoAccount, NoBeat, Status
<1>3. beat \in BeatState
  BY DEF Init, BeatState
<1>4. /\ position \in [Ticket -> {"none", "held", "closed"}]
      /\ standing \in [Call -> SUBSET Bar] /\ unseen \in [Call -> SUBSET Ticket]
  BY DEF Init
<1>5. settings \in Setting /\ stale \in BOOLEAN /\ listed \subseteq Ticket
  BY DEF Init
<1>6. writes \in 0..MaxWrites
  BY WritesAssumption DEF Init
<1> QED BY <1>1, <1>2, <1>3, <1>4, <1>5, <1>6 DEF TypeOK

LEMMA CallStepTypes ==
  ASSUME TypeOK, NEW c \in Call,
         \/ \E q \in Request : ReadRobot(c, q)
         \/ ReadAccount(c) \/ ReadSettings(c) \/ ReadBeat(c) \/ Count(c) \/ CountSymbol(c)
         \/ Insert(c) \/ Fill(c) \/ Fail(c)
  PROVE  call' \in [Call -> CallState] /\ \A d \in Call : d # c => call'[d] = call[d]
<1> DEFINE Goal == call' \in [Call -> CallState] /\ \A d \in Call : d # c => call'[d] = call[d]
<1>1. call[c] \in CallState /\ robot \in RobotRow /\ account \in AccountRow /\ settings \in Setting
      /\ call \in [Call -> CallState]
  BY DEF TypeOK
<1>2. ASSUME NEW q \in Request, ReadRobot(c, q) PROVE Goal
  <2>1. [Idle EXCEPT !.request = q, !.auto = robot.auto] \in CallState
        /\ [Idle EXCEPT !.request = q, !.pc = "inserting"] \in CallState
    BY <1>1, IdleType DEF CallState, RobotRow
  <2>2. CASE Judge(c, [Idle EXCEPT !.request = q, !.auto = robot.auto], RobotChecks(robot),
                   "account")
    BY <2>1, <2>2, Judged
  <2>3. CASE call' = [call EXCEPT ![c] = [Idle EXCEPT !.request = q, !.pc = "inserting"]]
    BY <1>1, <2>1, <2>3
  <2> QED BY <1>2, <2>2, <2>3 DEF ReadRobot
<1>3. CASE ReadAccount(c)
  <2>1. [call[c] EXCEPT !.account = account] \in CallState
    BY <1>1 DEF CallState
  <2> QED BY <1>3, <2>1, Judged DEF ReadAccount
<1>4. CASE ReadSettings(c)
  <2>1. [call[c] EXCEPT !.rules = settings, !.auto = FALSE, !.account = NoAccount] \in CallState
    <3>1. NoAccount \in AccountRow
      BY DEF NoAccount, AccountRow
    <3> QED BY <1>1, <3>1 DEF CallState
  <2> QED BY <1>4, <2>1, Judged DEF ReadSettings
<1>5. CASE ReadBeat(c)
  BY <1>1, <1>5, Judged DEF ReadBeat
<1>6. CASE Count(c)
  BY <1>1, <1>6, Judged DEF Count
<1>7. CASE CountSymbol(c)
  BY <1>1, <1>7, Judged DEF CountSymbol
<1>8. CASE Insert(c)
  <2>1. [call[c] EXCEPT !.pc = "queued"] \in CallState
    BY <1>1 DEF CallState
  <2> QED BY <1>1, <1>8, <2>1, IdleType DEF Insert
<1>9. CASE Fill(c)
  <2>1. [call[c] EXCEPT !.pc = "filled"] \in CallState
    BY <1>1 DEF CallState
  <2> QED BY <1>1, <1>9, <2>1 DEF Fill
<1>10. CASE Fail(c)
  BY <1>1, <1>10, IdleType DEF Fail
<1> QED BY <1>2, <1>3, <1>4, <1>5, <1>6, <1>7, <1>8, <1>9, <1>10

(* The steps that are no call's. *)
Other ==
  \/ \E t \in Local : OpenLocal(t)
  \/ \E t \in Ticket : Close(t)
  \/ \E tickets \in SUBSET Ticket : Snapshot(tickets)
  \/ \E r \in Report : BeatReads(r) \/ SyncAccount(r) \/ Register(r)
  \/ BeatInserts \/ BeatSyncsAccount \/ BeatUpdatesRobot \/ BeatFails
  \/ MarkOffline \/ Activate \/ Clear
  \/ \E s \in Setting : UpdateSettings(s)
  \/ GrowStale

CallStep(c) ==
  \/ \E q \in Request : ReadRobot(c, q)
  \/ ReadAccount(c) \/ ReadSettings(c) \/ ReadBeat(c) \/ Count(c) \/ CountSymbol(c)
  \/ Insert(c) \/ Fill(c) \/ Fail(c)

LEMMA StepSplit == Step => Other \/ \E c \in Call : CallStep(c)
  BY DEF Step, Other, CallStep

LEMMA OtherKeepsCalls == Other => call' = call
  BY DEF Other, OpenLocal, Close, Snapshot, BeatReads, SyncAccount, Register, BeatInserts,
     BeatSyncsAccount, BeatUpdatesRobot, BeatFails, MarkOffline, Activate, Clear, UpdateSettings,
     GrowStale, Elsewhere

LEMMA CallKeepsRows ==
  ASSUME NEW c \in Call, CallStep(c)
  PROVE  UNCHANGED <<robot, account, settings, newest, stale, listed, beat, writes>>
  BY DEF CallStep, ReadRobot, ReadAccount, ReadSettings, ReadBeat, Count, CountSymbol, Insert,
     Fill, Fail, Untouched, rows

LEMMA WritesType == TypeOK /\ (Writes \/ UNCHANGED writes) => writes' \in 0..MaxWrites
  BY WritesAssumption DEF TypeOK, Writes

LEMMA OtherTypes ==
  ASSUME TypeOK, Other
  PROVE  /\ robot' \in RobotRow /\ account' \in AccountRow /\ settings' \in Setting
         /\ newest' \in BeatRow /\ stale' \in BOOLEAN /\ listed' \subseteq Ticket
         /\ beat' \in BeatState /\ position' \in [Ticket -> {"none", "held", "closed"}]
         /\ writes' \in 0..MaxWrites
<1> DEFINE Goal ==
      /\ robot' \in RobotRow /\ account' \in AccountRow /\ settings' \in Setting
      /\ newest' \in BeatRow /\ stale' \in BOOLEAN /\ listed' \subseteq Ticket
      /\ beat' \in BeatState /\ position' \in [Ticket -> {"none", "held", "closed"}]
      /\ writes' \in 0..MaxWrites
<1>1. ASSUME NEW t \in Ticket, OpenLocal(t) \/ Close(t) PROVE Goal
  BY <1>1 DEF OpenLocal, Close, TypeOK, rows
<1>2. ASSUME NEW tickets \in SUBSET Ticket, Snapshot(tickets) PROVE Goal
  BY <1>2 DEF Snapshot, TypeOK, rows
<1>3. ASSUME NEW r \in Report, BeatReads(r) PROVE Goal
  <2>1. Level(r) \in Int /\ robot.stop \in BOOLEAN
    BY RowTypes DEF TypeOK, RobotRow
  <2>2. beat' \in BeatState
    BY <1>3, <2>1 DEF BeatReads, BeatState
  <2> QED BY <1>3, <2>2, WritesType DEF BeatReads, TypeOK, rows
<1>4. ASSUME NEW r \in Report, SyncAccount(r) PROVE Goal
  <2>1. account' \in AccountRow
    BY <1>4, RowTypes DEF SyncAccount
  <2> QED BY <1>4, <2>1, WritesType DEF SyncAccount, Elsewhere, TypeOK
<1>5. ASSUME NEW r \in Report, Register(r) PROVE Goal
  <2>1. robot' \in RobotRow
    BY <1>5, RowTypes DEF Register, RobotRow, TypeOK
  <2> QED BY <1>5, <2>1, WritesType DEF Register, Elsewhere, TypeOK
<1>6. beat.pc # "idle" =>
        /\ beat.report \in Report /\ beat.level \in Int /\ beat.stop \in BOOLEAN
        /\ \A pc \in {"account", "robot"} : [beat EXCEPT !.pc = pc] \in BeatState
  BY DEF TypeOK, BeatState, NoBeatCall
<1>7. CASE BeatInserts
  <2>1. beat.pc = "insert"
    BY <1>7 DEF BeatInserts
  <2>2. newest' \in BeatRow /\ beat' \in BeatState /\ stale' \in BOOLEAN
    BY <1>6, <1>7, <2>1, RowTypes DEF BeatInserts, BeatRow
  <2> QED BY <1>7, <2>2 DEF BeatInserts, TypeOK
<1>8. CASE BeatSyncsAccount
  <2>1. beat.pc = "account"
    BY <1>8 DEF BeatSyncsAccount
  <2>2. account' \in AccountRow /\ beat' \in BeatState
    BY <1>6, <1>8, <2>1, RowTypes DEF BeatSyncsAccount
  <2> QED BY <1>8, <2>2 DEF BeatSyncsAccount, TypeOK
<1>9. CASE BeatUpdatesRobot
  <2>1. beat.pc = "robot"
    BY <1>9 DEF BeatUpdatesRobot
  <2>2. robot' \in RobotRow
    BY <1>6, <1>9, <2>1, RowTypes DEF BeatUpdatesRobot, RobotRow, Status, TypeOK
  <2> QED BY <1>9, <2>2 DEF BeatUpdatesRobot, TypeOK, BeatState
<1>10. CASE BeatFails
  BY <1>10 DEF BeatFails, BeatState, TypeOK, rows
<1>11. CASE MarkOffline \/ Activate \/ Clear
  <2>1. robot' \in RobotRow
    BY <1>11 DEF MarkOffline, Activate, Clear, RobotRow, Status, TypeOK
  <2> QED BY <1>11, <2>1, WritesType DEF MarkOffline, Activate, Clear, Elsewhere, TypeOK
<1>12. ASSUME NEW s \in Setting, UpdateSettings(s) PROVE Goal
  BY <1>12, WritesType DEF UpdateSettings, Elsewhere, TypeOK
<1>13. CASE GrowStale
  BY <1>13, WritesType DEF GrowStale, Elsewhere, TypeOK
<1> QED
  BY <1>1, <1>2, <1>3, <1>4, <1>5, <1>7, <1>8, <1>9, <1>10, <1>11, <1>12, <1>13 DEF Other, Ticket

LEMMA CallPositions ==
  ASSUME TypeOK, NEW c \in Call, CallStep(c)
  PROVE  \/ position' = position
         \/ /\ call[c].pc = "queued" /\ call' = [call EXCEPT ![c].pc = "filled"]
            /\ position' = [position EXCEPT ![c] = "held"]
  BY DEF CallStep, ReadRobot, ReadAccount, ReadSettings, ReadBeat, Count, CountSymbol, Insert,
     Fill, Fail, Untouched

LEMMA GateTypeStep == TypeOK /\ [Next]_vars => TypeOK'
<1> SUFFICES ASSUME TypeOK, [Next]_vars PROVE TypeOK'
  OBVIOUS
<1>1. CASE UNCHANGED vars
  BY <1>1 DEF vars, rows, TypeOK
<1>2. CASE Step /\ Watch
  <2>1. standing' \in [Call -> SUBSET Bar] /\ unseen' \in [Call -> SUBSET Ticket]
    BY <1>2, WatchTypes
  <2>2. CASE Other
    <3>1. call' \in [Call -> CallState]
      BY <2>2, OtherKeepsCalls DEF TypeOK
    <3> QED BY <2>1, <2>2, <3>1, OtherTypes DEF TypeOK
  <2>3. ASSUME NEW c \in Call, CallStep(c) PROVE TypeOK'
    <3>1. call' \in [Call -> CallState]
      BY <2>3, CallStepTypes DEF CallStep
    <3>2. position' \in [Ticket -> {"none", "held", "closed"}]
      BY <2>3, CallPositions DEF TypeOK
    <3> QED BY <2>1, <2>3, <3>1, <3>2, CallKeepsRows DEF TypeOK
  <2> QED BY <1>2, <2>2, <2>3, StepSplit
<1> QED BY <1>1, <1>2 DEF Next

(* Every reachable state is well typed. *)
THEOREM GateTypeCorrect == Spec => []TypeOK
  BY GateTypeInit, GateTypeStep, PTL DEF Spec
-----------------------------------------------------------------------------
(* A condition that stands from the first read of a call refuses it.        *)

(* What a call in progress knows of the bars that have stood since it       *)
(* began: those it has checked do not stand, and what it read of the others *)
(* will refuse it.                                                          *)
Knows(c) ==
  /\ "stop" \notin standing[c] /\ "offline" \notin standing[c]
  /\ call[c].pc = "account" =>
       ("robot auto" \in standing[c] => ~call[c].auto)
  /\ call[c].pc # "account" =>
       "robot auto" \notin standing[c] /\ "account auto" \notin standing[c]
  /\ call[c].pc = "settings" =>
       /\ "loss" \in standing[c] =>
            LossReached(call[c].account, settings) \/ DrawdownReached(call[c].account, settings)
       /\ "margin" \in standing[c] =>
            call[c].account.marginLevel < settings.minimumMarginLevel
  /\ call[c].pc \in {"beat", "count", "symbol", "inserting"} =>
       "loss" \notin standing[c] /\ "margin" \notin standing[c]
  /\ call[c].pc \in {"count", "symbol", "inserting"} => "stale" \notin standing[c]
  /\ call[c].pc \in {"beat", "count"} =>
       ("full" \in standing[c] => call[c].rules = settings)
  /\ call[c].pc \in {"symbol", "inserting"} => "full" \notin standing[c]

(* A call is past its first read only with an entry it has not refused.     *)
Shape(c) == call[c].pc \notin {"idle", "inserting"} => call[c].code = "none" /\ IsEntry(c)

GateInv ==
  /\ TypeOK
  /\ \A c \in Call : Shape(c)
  /\ \A c \in Call : Open(c) => Knows(c)

LEMMA Fields ==
  ASSUME NEW seen \in CallState, NEW pc
  PROVE  LET new == [seen EXCEPT !.pc = pc] IN
         /\ new.pc = pc /\ new.request = seen.request /\ new.code = seen.code
         /\ new.auto = seen.auto /\ new.account = seen.account /\ new.rules = seen.rules
  BY DEF CallState

LEMMA ShapeMoved ==
  ASSUME NEW c \in Call, NEW seen \in CallState, NEW pc,
         call'[c] = [seen EXCEPT !.pc = pc] \/ call'[c].pc = "inserting",
         seen.code = "none", seen.request.type \in EntryType
  PROVE  Shape(c)'
<1>1. CASE call'[c] = [seen EXCEPT !.pc = pc]
  <2>1. call'[c].request = seen.request /\ call'[c].code = seen.code
    BY <1>1, Fields
  <2> QED BY <2>1 DEF Shape, IsEntry
<1>2. CASE call'[c].pc = "inserting"
  BY <1>2 DEF Shape
<1> QED BY <1>1, <1>2

LEMMA ShapeStep ==
  ASSUME TypeOK, TypeOK', NEW c \in Call, Shape(c), CallStep(c)
  PROVE  Shape(c)'
<1>1. /\ call[c] \in CallState /\ call \in [Call -> CallState] /\ robot \in RobotRow
      /\ account \in AccountRow /\ settings \in Setting
  BY DEF TypeOK
<1>2. ASSUME NEW q \in Request, ReadRobot(c, q) PROVE Shape(c)'
  <2> DEFINE seen == [Idle EXCEPT !.request = q, !.auto = robot.auto]
  <2>1. seen \in CallState /\ seen.request = q /\ seen.code = "none"
    BY <1>1, IdleType DEF CallState, RobotRow, Idle
  <2>2. CASE call' = [call EXCEPT ![c] = [Idle EXCEPT !.request = q, !.pc = "inserting"]]
    <3>1. call'[c].pc = "inserting"
      BY <1>1, <2>2 DEF Idle
    <3> QED BY <3>1 DEF Shape
  <2> HIDE DEF seen
  <2>3. CASE q.type \in EntryType /\ Judge(c, seen, RobotChecks(robot), "account")
    <3>1. call'[c] = [seen EXCEPT !.pc = "account"] \/ call'[c].pc = "inserting"
      BY <2>1, <2>3, Judged
    <3> QED BY <2>1, <2>3, <3>1, ShapeMoved
  <2> QED BY <1>2, <2>2, <2>3 DEF ReadRobot, seen
<1>3. CASE ReadAccount(c)
  <2> DEFINE seen == [call[c] EXCEPT !.account = account]
  <2>1. seen \in CallState /\ seen.request = call[c].request /\ seen.code = call[c].code
    BY <1>1 DEF CallState
  <2> HIDE DEF seen
  <2>2. call'[c] = [seen EXCEPT !.pc = "settings"] \/ call'[c].pc = "inserting"
    BY <1>3, <2>1, Judged DEF ReadAccount, seen
  <2>3. call[c].code = "none" /\ call[c].request.type \in EntryType
    BY <1>3 DEF Shape, IsEntry, ReadAccount
  <2> QED BY <2>1, <2>2, <2>3, ShapeMoved
<1>4. CASE ReadSettings(c)
  <2> DEFINE seen == [call[c] EXCEPT !.rules = settings, !.auto = FALSE, !.account = NoAccount]
  <2>1. seen \in CallState /\ seen.request = call[c].request /\ seen.code = call[c].code
    <3>1. NoAccount \in AccountRow
      BY DEF NoAccount, AccountRow
    <3> QED BY <1>1, <3>1 DEF CallState
  <2> HIDE DEF seen
  <2>2. call'[c] = [seen EXCEPT !.pc = "beat"] \/ call'[c].pc = "inserting"
    BY <1>4, <2>1, Judged DEF ReadSettings, seen
  <2>3. call[c].code = "none" /\ call[c].request.type \in EntryType
    BY <1>4 DEF Shape, IsEntry, ReadSettings
  <2> QED BY <2>1, <2>2, <2>3, ShapeMoved
<1>5. CASE ReadBeat(c)
  <2>1. call'[c] = [call[c] EXCEPT !.pc = "count"] \/ call'[c].pc = "inserting"
    BY <1>1, <1>5, Judged DEF ReadBeat
  <2>2. call[c].code = "none" /\ call[c].request.type \in EntryType
    BY <1>5 DEF Shape, IsEntry, ReadBeat
  <2> QED BY <1>1, <2>1, <2>2, ShapeMoved
<1>6. CASE Count(c)
  <2>1. \/ call'[c] = [call[c] EXCEPT !.pc = "symbol"]
        \/ call'[c].pc = "inserting"
    <3>1. CASE call[c].request.symbol = NoSymbol
      <4>1. call'[c] = [call[c] EXCEPT !.pc = "inserting"] \/ call'[c].pc = "inserting"
        BY <1>1, <1>6, <3>1, Judged DEF Count
      <4> QED BY <1>1, <4>1, Fields
    <3>2. CASE call[c].request.symbol # NoSymbol
      BY <1>1, <1>6, <3>2, Judged DEF Count
    <3> QED BY <3>1, <3>2
  <2>2. call[c].code = "none" /\ call[c].request.type \in EntryType
    BY <1>6 DEF Shape, IsEntry, Count
  <2> QED BY <1>1, <2>1, <2>2, ShapeMoved
<1>7. CASE CountSymbol(c)
  <2>1. call'[c] = [call[c] EXCEPT !.pc = "inserting"] \/ call'[c].pc = "inserting"
    BY <1>1, <1>7, Judged DEF CountSymbol
  <2>2. call[c].code = "none" /\ call[c].request.type \in EntryType
    BY <1>7 DEF Shape, IsEntry, CountSymbol
  <2> QED BY <1>1, <2>1, <2>2, ShapeMoved
<1>8. CASE Insert(c)
  <2>1. \/ /\ call[c].code = "none" /\ IsEntry(c)
           /\ call'[c] = [call[c] EXCEPT !.pc = "queued"]
        \/ call'[c] = Idle
    BY <1>1, <1>8 DEF Insert
  <2>2. CASE call'[c] = Idle
    BY <2>2 DEF Shape, Idle
  <2> QED BY <1>1, <2>1, <2>2, ShapeMoved DEF IsEntry
<1>9. CASE Fill(c)
  <2>1. call[c].pc = "queued" /\ call'[c] = [call[c] EXCEPT !.pc = "filled"]
    BY <1>1, <1>9 DEF Fill
  <2> QED BY <1>1, <2>1, Fields DEF Shape, IsEntry
<1>10. CASE Fail(c)
  <2>1. call'[c] = Idle
    BY <1>1, <1>10 DEF Fail
  <2> QED BY <2>1 DEF Shape, Idle
<1> QED BY <1>2, <1>3, <1>4, <1>5, <1>6, <1>7, <1>8, <1>9, <1>10 DEF CallStep

(* What Watch does to the bars of one call. *)
LEMMA StandingStep ==
  ASSUME TypeOK, Watch, NEW c \in Call, Open(c)'
  PROVE  /\ ~Open(c) => standing'[c] = Bars
         /\ Open(c) => /\ standing'[c] \subseteq standing[c] /\ standing'[c] \subseteq Bars'
                       /\ settings' # settings => standing'[c] \cap Ruled = {}
  BY DEF Watch

(* A step of somebody else leaves a call as wise as it was. *)
LEMMA KnowsKept ==
  ASSUME GateInv, Watch, NEW c \in Call, call'[c] = call[c], Open(c)'
  PROVE  Knows(c)'
<1>1. Open(c)
  BY DEF Open, IsEntry
<1>2. Knows(c)
  BY <1>1 DEF GateInv
<1>3. standing'[c] \subseteq standing[c]
      /\ (settings' # settings =>
            /\ "loss" \notin standing'[c] /\ "margin" \notin standing'[c]
            /\ "full" \notin standing'[c])
  BY <1>1, StandingStep DEF GateInv, Ruled
<1>4. CASE settings' = settings
  BY <1>2, <1>3, <1>4 DEF Knows, LossReached, DrawdownReached
<1>5. CASE settings' # settings
  BY <1>2, <1>3, <1>5 DEF Knows
<1> QED BY <1>4, <1>5

(* The first failing check of a list decides, so that passing a list means  *)
(* that none of its checks fails.                                           *)
LEMMA RobotPasses ==
  ASSUME NEW r, Passes(RobotChecks(r))
  PROVE  ~r.stop /\ r.status = "ONLINE"
<1>1. RobotChecks(r)[1].fails = r.stop /\ RobotChecks(r)[4].fails = (r.status # "ONLINE")
      /\ 1 \in DOMAIN RobotChecks(r) /\ 4 \in DOMAIN RobotChecks(r)
  BY DEF RobotChecks, Check
<1> QED BY <1>1 DEF Passes

LEMMA AccountPasses ==
  ASSUME NEW auto, NEW a, Passes(AccountChecks(auto, a))
  PROVE  auto /\ a.auto
<1>1. AccountChecks(auto, a)[3].fails = (~auto \/ ~a.auto) /\ 3 \in DOMAIN AccountChecks(auto, a)
  BY DEF AccountChecks, Check
<1> QED BY <1>1 DEF Passes

LEMMA LimitsPass ==
  ASSUME NEW q, NEW a, NEW s, Passes(RequestChecks(q, s) \o AccountLimits(a, s))
  PROVE  ~DrawdownReached(a, s) /\ ~LossReached(a, s) /\ ~(a.marginLevel < s.minimumMarginLevel)
<1> DEFINE R == RequestChecks(q, s)
           L == AccountLimits(a, s)
           S == {R[i] : i \in 1..10} \cup {L[i] : i \in 1..4}
           W == R \o L
<1>1. Len(R) = 10 /\ R \in Seq(S)
  <2>1. /\ R[1] \in S /\ R[2] \in S /\ R[3] \in S /\ R[4] \in S /\ R[5] \in S /\ R[6] \in S
        /\ R[7] \in S /\ R[8] \in S /\ R[9] \in S /\ R[10] \in S
    OBVIOUS
  <2>2. R = << R[1], R[2], R[3], R[4], R[5], R[6], R[7], R[8], R[9], R[10] >>
    BY DEF RequestChecks
  <2> HIDE DEF S, R
  <2>3. << R[1], R[2], R[3], R[4], R[5], R[6], R[7], R[8], R[9], R[10] >> \in Seq(S)
        /\ Len(<< R[1], R[2], R[3], R[4], R[5], R[6], R[7], R[8], R[9], R[10] >>) = 10
    BY <2>1
  <2> QED BY <2>2, <2>3, Zenon
<1>2. Len(L) = 4 /\ L \in Seq(S)
  <2>1. L[1] \in S /\ L[2] \in S /\ L[3] \in S /\ L[4] \in S
    OBVIOUS
  <2>2. L = << L[1], L[2], L[3], L[4] >>
    BY DEF AccountLimits
  <2> HIDE DEF S, L
  <2>3. << L[1], L[2], L[3], L[4] >> \in Seq(S) /\ Len(<< L[1], L[2], L[3], L[4] >>) = 4
    BY <2>1
  <2> QED BY <2>2, <2>3, Zenon
<1>3. /\ L[1].fails = DrawdownReached(a, s) /\ L[2].fails = LossReached(a, s)
      /\ L[4].fails = (a.marginLevel < s.minimumMarginLevel)
  BY DEF AccountLimits, Check
<1>4. \A i \in DOMAIN W : ~W[i].fails
  BY DEF Passes
<1> HIDE DEF R, L, S
<1>5. /\ Len(W) = Len(R) + Len(L) /\ W \in Seq(S)
      /\ \A i \in 1..(Len(R) + Len(L)) : W[i] = IF i <= Len(R) THEN R[i] ELSE L[i - Len(R)]
  BY <1>1, <1>2, ConcatProperties, Zenon
<1> HIDE DEF W
<1>6. W[11] = L[1] /\ W[12] = L[2] /\ W[14] = L[4] /\ DOMAIN W = 1..14
  BY <1>1, <1>2, <1>5
<1>7. ~L[1].fails /\ ~L[2].fails /\ ~L[4].fails
  BY <1>4, <1>6
<1> QED BY <1>3, <1>7

LEMMA MarketPasses ==
  ASSUME NEW b, NEW old, NEW s, Passes(MarketChecks(b, old, s))
  PROVE  b.known /\ ~old
<1>1. MarketChecks(b, old, s)[1].fails = (~b.known \/ old) /\ 1 \in DOMAIN MarketChecks(b, old, s)
  BY DEF MarketChecks, Check
<1> QED BY <1>1 DEF Passes

LEMMA CountPasses ==
  ASSUME NEW fails, NEW code, Passes(<< Check(fails, code) >>)
  PROVE  ~fails
<1>1. << Check(fails, code) >>[1].fails = fails /\ 1 \in DOMAIN << Check(fails, code) >>
  BY DEF Check
<1> QED BY <1>1 DEF Passes

(* A judgement that does not refuse. *)
LEMMA Allowed ==
  ASSUME TypeOK, NEW c \in Call, NEW seen \in CallState, NEW checks,
         NEW next \in {"account", "settings", "beat", "count", "symbol", "inserting"},
         Judge(c, seen, checks, next), call'[c].code = "none"
  PROVE  /\ Passes(checks)
         /\ call'[c].pc = next /\ call'[c].rules = seen.rules
         /\ call'[c].request = seen.request
<1>1. ASSUME NEW code \in Code,
             call' = [call EXCEPT ![c] = [seen EXCEPT !.pc = "inserting", !.code = code]]
      PROVE  FALSE
  <2>1. call'[c] = [seen EXCEPT !.pc = "inserting", !.code = code]
    BY <1>1 DEF TypeOK
  <2>2. call'[c].code = code
    BY <2>1 DEF CallState
  <2> QED BY <2>2 DEF Code
<1>2. Passes(checks) /\ call' = [call EXCEPT ![c] = [seen EXCEPT !.pc = next]]
  BY <1>1 DEF Judge
<1>3. call'[c] = [seen EXCEPT !.pc = next]
  BY <1>2 DEF TypeOK
<1>4. call'[c].pc = next /\ call'[c].rules = seen.rules /\ call'[c].request = seen.request
  BY <1>3 DEF CallState
<1> QED BY <1>2, <1>4

LEMMA KnowsOwnStep ==
  ASSUME GateInv, TypeOK', Watch, NEW c \in Call, CallStep(c), Open(c)'
  PROVE  Knows(c)'
<1>1. /\ call[c] \in CallState /\ call \in [Call -> CallState] /\ robot \in RobotRow
      /\ account \in AccountRow /\ settings \in Setting /\ TypeOK
  BY DEF GateInv, TypeOK
<1>2. UNCHANGED <<robot, account, settings, newest, stale, listed>>
  BY CallKeepsRows
<1>3. Bars' = Bars
  BY <1>2 DEF Bars, LossReached, DrawdownReached
<1>4. call'[c].code = "none" /\ call'[c].pc \notin {"idle", "queued", "filled"}
      /\ call'[c].request.type \in EntryType
  BY DEF Open, IsEntry
<1>5. CASE call[c].pc = "idle"
  <2>1. PICK q \in Request : ReadRobot(c, q)
    BY <1>5 DEF CallStep, ReadAccount, ReadSettings, ReadBeat, Count, CountSymbol, Insert, Fill,
       Fail
  <2> DEFINE seen == [Idle EXCEPT !.request = q, !.auto = robot.auto]
  <2>2. seen \in CallState /\ seen.auto = robot.auto
        /\ [seen EXCEPT !.pc = "account"].pc = "account"
        /\ [seen EXCEPT !.pc = "account"].auto = robot.auto
    BY <1>1, IdleType DEF CallState, RobotRow, Idle
  <2>3. Judge(c, seen, RobotChecks(robot), "account")
    <3>1. CASE call' = [call EXCEPT ![c] = [Idle EXCEPT !.request = q, !.pc = "inserting"]]
                 /\ q.type \notin EntryType
      <4>1. call'[c].request = q
        BY <1>1, <3>1 DEF Idle
      <4> QED BY <1>4, <3>1, <4>1
    <3> QED BY <2>1, <3>1 DEF ReadRobot
  <2> HIDE DEF seen
  <2>4. Passes(RobotChecks(robot)) /\ call'[c] = [seen EXCEPT !.pc = "account"]
    BY <1>1, <1>4, <2>2, <2>3, Judged
  <2>5. standing'[c] = Bars
    BY <1>1, <1>5, StandingStep DEF Open
  <2>6. "stop" \notin Bars /\ "offline" \notin Bars /\ ("robot auto" \in Bars => ~robot.auto)
    BY <2>4, RobotPasses DEF Bars
  <2> QED BY <2>2, <2>4, <2>5, <2>6 DEF Knows
<1>6. ASSUME call[c].pc \in {"account", "settings", "beat", "count", "symbol"}
      PROVE  /\ Open(c) /\ Knows(c)
             /\ standing'[c] \subseteq standing[c] /\ standing'[c] \subseteq Bars
  <2>1. Open(c)
    BY <1>6 DEF GateInv, Shape, Open
  <2> QED BY <1>1, <1>3, <2>1, StandingStep DEF GateInv
<1>7. CASE call[c].pc = "account"
  <2> DEFINE seen == [call[c] EXCEPT !.account = account]
  <2>1. seen \in CallState /\ seen.account = account
    BY <1>1 DEF CallState
  <2> HIDE DEF seen
  <2>2. ReadAccount(c)
    BY <1>7 DEF CallStep, ReadRobot, ReadSettings, ReadBeat, Count, CountSymbol, Insert, Fill, Fail
  <2>3. Passes(AccountChecks(call[c].auto, account)) /\ call'[c] = [seen EXCEPT !.pc = "settings"]
    BY <1>1, <1>4, <2>1, <2>2, Judged DEF ReadAccount, seen
  <2>4. call[c].auto /\ account.auto
    BY <2>3, AccountPasses
  <2>5. "account auto" \notin Bars
    BY <2>4 DEF Bars
  <2>6. call'[c].pc = "settings" /\ call'[c].account = account
    BY <2>1, <2>3, Fields
  <2>7. /\ "stop" \notin standing'[c] /\ "offline" \notin standing'[c]
        /\ "robot auto" \notin standing'[c] /\ "account auto" \notin standing'[c]
    BY <1>6, <1>7, <2>4, <2>5 DEF Knows
  <2>8. /\ "loss" \in standing'[c] =>
             LossReached(account, settings) \/ DrawdownReached(account, settings)
        /\ "margin" \in standing'[c] => account.marginLevel < settings.minimumMarginLevel
    BY <1>6, <1>7 DEF Bars
  <2> QED BY <1>2, <2>6, <2>7, <2>8 DEF Knows, LossReached, DrawdownReached
<1>8. CASE call[c].pc = "settings"
  <2> DEFINE seen == [call[c] EXCEPT !.rules = settings, !.auto = FALSE, !.account = NoAccount]
  <2>1. seen \in CallState /\ seen.rules = settings
    <3>1. NoAccount \in AccountRow
      BY DEF NoAccount, AccountRow
    <3> QED BY <1>1, <3>1 DEF CallState
  <2> HIDE DEF seen
  <2>2. ReadSettings(c)
    BY <1>8 DEF CallStep, ReadRobot, ReadAccount, ReadBeat, Count, CountSymbol, Insert, Fill, Fail
  <2>3. /\ Passes(RequestChecks(call[c].request, settings)
                    \o AccountLimits(call[c].account, settings))
        /\ call'[c] = [seen EXCEPT !.pc = "beat"]
    BY <1>1, <1>4, <2>1, <2>2, Judged DEF ReadSettings, seen
  <2>4. /\ ~DrawdownReached(call[c].account, settings) /\ ~LossReached(call[c].account, settings)
        /\ ~(call[c].account.marginLevel < settings.minimumMarginLevel)
    BY <2>3, LimitsPass
  <2>5. call'[c].pc = "beat" /\ call'[c].rules = settings
    BY <2>1, <2>3, Fields
  <2> QED BY <1>2, <1>6, <1>8, <2>4, <2>5 DEF Knows
<1>9. CASE call[c].pc = "beat"
  <2>1. ReadBeat(c)
    BY <1>9 DEF CallStep, ReadRobot, ReadAccount, ReadSettings, Count, CountSymbol, Insert, Fill,
       Fail
  <2>2. /\ Passes(MarketChecks(newest, stale, call[c].rules))
        /\ call'[c] = [call[c] EXCEPT !.pc = "count"]
    BY <1>1, <1>4, <2>1, Judged DEF ReadBeat
  <2>3. "stale" \notin Bars
    BY <2>2, MarketPasses DEF Bars
  <2>4. call'[c].pc = "count" /\ call'[c].rules = call[c].rules
    BY <1>1, <2>2, Fields
  <2> QED BY <1>2, <1>6, <1>9, <2>3, <2>4 DEF Knows
<1>10. CASE call[c].pc = "count"
  <2>1. Count(c)
    BY <1>10 DEF CallStep, ReadRobot, ReadAccount, ReadSettings, ReadBeat, CountSymbol, Insert,
       Fill, Fail
  <2> DEFINE full == Reached(listed, call[c].rules.maximumPositions)
  <2>2. ASSUME NEW checks, NEW next \in {"symbol", "inserting"},
               Judge(c, call[c], checks, next)
        PROVE  Passes(checks) /\ call'[c].pc = next
    BY <1>1, <1>4, <2>2, Allowed
  <2>3. \E next \in {"symbol", "inserting"} :
          Judge(c, call[c], << Check(full, "MAX_OPEN_POSITIONS_REACHED") >>, next)
    BY <2>1 DEF Count
  <2>4. ~full /\ call'[c].pc \in {"symbol", "inserting"}
    <3>1. Passes(<< Check(full, "MAX_OPEN_POSITIONS_REACHED") >>)
          /\ call'[c].pc \in {"symbol", "inserting"}
      BY <2>2, <2>3
    <3> HIDE DEF full
    <3> QED BY <3>1, CountPasses
  <2>5. "full" \notin standing'[c]
    <3> SUFFICES ASSUME "full" \in standing'[c] PROVE FALSE
      OBVIOUS
    <3>1. call[c].rules = settings
      BY <1>6, <1>10 DEF Knows
    <3>2. Cardinality(listed) >= settings.maximumPositions
      BY <1>6, <1>10 DEF Bars
    <3> QED BY <2>4, <3>1, <3>2 DEF Reached
  <2> QED BY <1>6, <1>10, <2>4, <2>5 DEF Knows
<1>11. CASE call[c].pc = "symbol"
  <2>1. CountSymbol(c)
    BY <1>11 DEF CallStep, ReadRobot, ReadAccount, ReadSettings, ReadBeat, Count, Insert, Fill,
       Fail
  <2>2. call'[c] = [call[c] EXCEPT !.pc = "inserting"]
    BY <1>1, <1>4, <2>1, Judged DEF CountSymbol
  <2>3. call'[c].pc = "inserting"
    BY <1>1, <2>2, Fields
  <2> QED BY <1>6, <1>11, <2>3 DEF Knows
<1>12. CASE call[c].pc \in {"inserting", "queued", "filled"}
  <2>1. Insert(c) \/ Fill(c) \/ Fail(c)
    BY <1>12 DEF CallStep, ReadRobot, ReadAccount, ReadSettings, ReadBeat, Count, CountSymbol
  <2>2. \/ call'[c] = [call[c] EXCEPT !.pc = "queued"]
        \/ call'[c] = [call[c] EXCEPT !.pc = "filled"]
        \/ call'[c] = Idle
    BY <1>1, <2>1 DEF Insert, Fill, Fail
  <2>3. [call[c] EXCEPT !.pc = "queued"].pc = "queued"
        /\ [call[c] EXCEPT !.pc = "filled"].pc = "filled" /\ Idle.pc = "idle"
    BY <1>1 DEF CallState, Idle
  <2> QED BY <1>4, <2>2, <2>3
<1> QED BY <1>1, <1>5, <1>7, <1>8, <1>9, <1>10, <1>11, <1>12 DEF CallState

LEMMA GateInit == Init => GateInv
<1> SUFFICES ASSUME Init PROVE GateInv
  OBVIOUS
<1>1. \A c \in Call : call[c].pc = "idle"
  BY DEF Init, Idle
<1> QED BY <1>1, GateTypeInit DEF GateInv, Shape, Open

LEMMA GateStep == GateInv /\ [Next]_vars => GateInv'
<1> SUFFICES ASSUME GateInv, [Next]_vars PROVE GateInv'
  OBVIOUS
<1>1. TypeOK /\ TypeOK'
  BY GateTypeStep DEF GateInv
<1>2. CASE UNCHANGED vars
  <2>1. \A c \in Call : Shape(c)' = Shape(c) /\ Open(c)' = Open(c) /\ Knows(c)' = Knows(c)
    BY <1>2 DEF vars, rows, Shape, Open, IsEntry, Knows, LossReached, DrawdownReached
  <2> QED BY <1>1, <2>1 DEF GateInv
<1>3. CASE Step /\ Watch
  <2>1. ASSUME NEW c \in Call, call'[c] = call[c]
        PROVE  Shape(c)' /\ (Open(c)' => Knows(c)')
    BY <1>3, <2>1, KnowsKept DEF Shape, IsEntry, GateInv
  <2>2. ASSUME NEW c \in Call, CallStep(c)
        PROVE  Shape(c)' /\ (Open(c)' => Knows(c)')
    BY <1>1, <1>3, <2>2, ShapeStep, KnowsOwnStep DEF GateInv
  <2>3. \A c \in Call : CallStep(c) \/ call'[c] = call[c]
    <3>1. CASE Other
      BY <3>1, OtherKeepsCalls
    <3>2. ASSUME NEW d \in Call, CallStep(d) PROVE \A c \in Call : c = d \/ call'[c] = call[c]
      BY <1>1, <3>2, CallStepTypes DEF CallStep
    <3> QED BY <1>3, <3>1, <3>2, StepSplit
  <2> QED BY <1>1, <2>1, <2>2, <2>3 DEF GateInv
<1> QED BY <1>2, <1>3 DEF Next

LEMMA GateAlways == Spec => []GateInv
  BY GateInit, GateStep, PTL DEF Spec

(* For any calls, requests, settings and reports: an entry is admitted only *)
(* by a call during which no bar stood all the time.                        *)
THEOREM StandingBarsRefuse == Spec => []StandingBarRefuses
<1>1. GateInv => StandingBarRefuses
  <2> SUFFICES ASSUME GateInv, NEW c \in Call, Admits(c) PROVE standing[c] = {}
    BY DEF StandingBarRefuses
  <2>1. Knows(c) /\ call[c].pc = "inserting"
    BY DEF GateInv, Admits
  <2>2. standing[c] \subseteq Bar
    BY DEF GateInv, TypeOK
  <2> QED BY <2>1, <2>2 DEF Knows, Bar
<1> QED BY <1>1, GateAlways, PTL
-----------------------------------------------------------------------------
(* Under a margin requirement the first position comes from elsewhere.      *)

Traded == \E t \in Ticket : position[t] # "none"

(* An entry that passed the checks of the account. *)
Past(c) ==
  \/ call[c].pc \in {"beat", "count", "symbol", "queued", "filled"}
  \/ call[c].pc = "inserting" /\ call[c].code = "none" /\ IsEntry(c)

(* A margin level other than 0, wherever it was copied to, was reported     *)
(* when a position was held, and only a filled command has a position.      *)
FirstInv ==
  /\ GateInv
  /\ account.marginLevel # 0 => Traded
  /\ beat.pc # "idle" /\ beat.level # 0 => Traded
  /\ \A c \in Call : call[c].account.marginLevel # 0 => Traded
  /\ \A c \in Call : call[c].pc # "filled" => position[c] = "none"
  /\ \A c \in Call : Past(c) /\ call[c].rules.minimumMarginLevel > 0 =>
       \E t \in Ticket \ {c} : position[t] # "none"

LEMMA JudgedAccount ==
  ASSUME TypeOK, NEW c \in Call, NEW seen \in CallState, NEW checks,
         NEW next \in {"account", "settings", "beat", "count", "symbol", "inserting"},
         Judge(c, seen, checks, next)
  PROVE  call'[c].account = seen.account /\ call'[c].pc # "filled"
<1>1. CASE call' = [call EXCEPT ![c] = [seen EXCEPT !.pc = next]]
  <2>1. call'[c] = [seen EXCEPT !.pc = next]
    BY <1>1 DEF TypeOK
  <2> QED BY <2>1 DEF CallState
<1>2. ASSUME NEW code \in Code,
             call' = [call EXCEPT ![c] = [seen EXCEPT !.pc = "inserting", !.code = code]]
      PROVE  call'[c].account = seen.account /\ call'[c].pc # "filled"
  <2>1. call'[c] = [seen EXCEPT !.pc = "inserting", !.code = code]
    BY <1>2 DEF TypeOK
  <2> QED BY <2>1 DEF CallState
<1> QED BY <1>1, <1>2 DEF Judge

LEMMA NoMargin == NoAccount.marginLevel = 0 /\ Idle.account = NoAccount
  BY DEF NoAccount, Idle

(* The account a call holds is one it held, the row, or none. *)
LEMMA AccountHeld ==
  ASSUME TypeOK, NEW c \in Call, CallStep(c)
  PROVE  call'[c].account \in {call[c].account, account, NoAccount}
<1>1. /\ call[c] \in CallState /\ call \in [Call -> CallState] /\ robot \in RobotRow
      /\ account \in AccountRow /\ settings \in Setting /\ NoAccount \in AccountRow
  BY DEF TypeOK, NoAccount, AccountRow
<1>2. ASSUME NEW q \in Request, ReadRobot(c, q) PROVE call'[c].account = NoAccount
  <2> DEFINE seen == [Idle EXCEPT !.request = q, !.auto = robot.auto]
  <2>1. seen \in CallState /\ seen.account = NoAccount
    BY <1>1, IdleType DEF CallState, RobotRow, Idle
  <2>2. CASE call' = [call EXCEPT ![c] = [Idle EXCEPT !.request = q, !.pc = "inserting"]]
    BY <1>1, <2>2 DEF Idle
  <2> HIDE DEF seen
  <2>3. CASE Judge(c, seen, RobotChecks(robot), "account")
    BY <2>1, <2>3, JudgedAccount
  <2> QED BY <1>2, <2>2, <2>3 DEF ReadRobot, seen
<1>3. CASE ReadAccount(c)
  <2> DEFINE seen == [call[c] EXCEPT !.account = account]
  <2>1. seen \in CallState /\ seen.account = account
    BY <1>1 DEF CallState
  <2> HIDE DEF seen
  <2> QED BY <1>3, <2>1, JudgedAccount DEF ReadAccount, seen
<1>4. CASE ReadSettings(c)
  <2> DEFINE seen == [call[c] EXCEPT !.rules = settings, !.auto = FALSE, !.account = NoAccount]
  <2>1. seen \in CallState /\ seen.account = NoAccount
    BY <1>1 DEF CallState
  <2> HIDE DEF seen
  <2> QED BY <1>4, <2>1, JudgedAccount DEF ReadSettings, seen
<1>5. CASE ReadBeat(c)
  BY <1>1, <1>5, JudgedAccount DEF ReadBeat
<1>6. CASE Count(c)
  BY <1>1, <1>6, JudgedAccount DEF Count
<1>7. CASE CountSymbol(c)
  BY <1>1, <1>7, JudgedAccount DEF CountSymbol
<1>8. CASE Insert(c)
  <2>1. call'[c] = [call[c] EXCEPT !.pc = "queued"] \/ call'[c] = Idle
    BY <1>1, <1>8 DEF Insert
  <2>2. [call[c] EXCEPT !.pc = "queued"].account = call[c].account /\ Idle.account = NoAccount
    BY <1>1 DEF CallState, Idle
  <2> QED BY <2>1, <2>2
<1>9. CASE Fill(c)
  <2>1. call'[c] = [call[c] EXCEPT !.pc = "filled"]
    BY <1>1, <1>9 DEF Fill
  <2> QED BY <1>1, <2>1 DEF CallState
<1>10. CASE Fail(c)
  <2>1. call'[c] = Idle
    BY <1>1, <1>10 DEF Fail
  <2> QED BY <2>1 DEF Idle
<1> QED BY <1>2, <1>3, <1>4, <1>5, <1>6, <1>7, <1>8, <1>9, <1>10 DEF CallStep

(* A call passes the checks of the account in ReadSettings only, and keeps  *)
(* the settings it passed them with.                                        *)
LEMMA PastStep ==
  ASSUME TypeOK, NEW c \in Call, Shape(c), CallStep(c), Past(c)'
  PROVE  \/ Past(c) /\ call'[c].rules = call[c].rules
         \/ /\ call'[c].rules = settings
            /\ ~(call[c].account.marginLevel < settings.minimumMarginLevel)
            /\ call[c].pc = "settings"
<1>1. /\ call[c] \in CallState /\ call \in [Call -> CallState] /\ robot \in RobotRow
      /\ account \in AccountRow /\ settings \in Setting /\ NoAccount \in AccountRow
  BY DEF TypeOK, NoAccount, AccountRow
<1>2. call'[c].pc # "idle" /\ call'[c].pc # "account" /\ call'[c].pc # "settings"
      /\ (call'[c].pc = "inserting" => call'[c].code = "none" /\ call'[c].request.type \in EntryType)
  BY DEF Past, IsEntry
<1>3. ASSUME NEW q \in Request, ReadRobot(c, q) PROVE FALSE
  <2> DEFINE seen == [Idle EXCEPT !.request = q, !.auto = robot.auto]
  <2>1. seen \in CallState
    BY <1>1, IdleType DEF CallState, RobotRow
  <2>2. CASE call' = [call EXCEPT ![c] = [Idle EXCEPT !.request = q, !.pc = "inserting"]]
             /\ q.type \notin EntryType
    <3>1. call'[c].pc = "inserting" /\ call'[c].request = q
      BY <1>1, <2>2 DEF Idle
    <3> QED BY <1>2, <2>2, <3>1
  <2> HIDE DEF seen
  <2>3. CASE Judge(c, seen, RobotChecks(robot), "account")
    <3>1. call'[c] = [seen EXCEPT !.pc = "account"]
      BY <1>2, <2>1, <2>3, Judged
    <3> QED BY <1>2, <2>1, <3>1, Fields
  <2> QED BY <1>3, <2>2, <2>3 DEF ReadRobot, seen
<1>4. CASE ReadAccount(c)
  <2> DEFINE seen == [call[c] EXCEPT !.account = account]
  <2>1. seen \in CallState
    BY <1>1 DEF CallState
  <2> HIDE DEF seen
  <2>2. call'[c] = [seen EXCEPT !.pc = "settings"]
    BY <1>2, <1>4, <2>1, Judged DEF ReadAccount, seen
  <2> QED BY <1>2, <2>1, <2>2, Fields
<1>5. CASE ReadSettings(c)
  <2> DEFINE seen == [call[c] EXCEPT !.rules = settings, !.auto = FALSE, !.account = NoAccount]
  <2>1. seen \in CallState /\ seen.rules = settings
    BY <1>1 DEF CallState
  <2> HIDE DEF seen
  <2>2. /\ Passes(RequestChecks(call[c].request, settings)
                    \o AccountLimits(call[c].account, settings))
        /\ call'[c] = [seen EXCEPT !.pc = "beat"]
    BY <1>2, <1>5, <2>1, Judged DEF ReadSettings, seen
  <2>3. call'[c].rules = settings
    BY <2>1, <2>2, Fields
  <2> QED BY <1>5, <2>2, <2>3, LimitsPass DEF ReadSettings
<1>6. CASE ReadBeat(c) \/ Count(c) \/ CountSymbol(c)
  <2>1. Past(c)
    BY <1>6 DEF Past, ReadBeat, Count, CountSymbol
  <2>2. call'[c].code = "none"
    <3>1. call'[c].pc # "inserting" \/ call'[c].code = "none"
      BY <1>2
    <3>2. CASE ReadBeat(c)
      <4>1. call'[c] = [call[c] EXCEPT !.pc = "count"]
        BY <1>1, <1>2, <3>2, Judged DEF ReadBeat
      <4> QED BY <1>1, <3>2, <4>1, Fields DEF Shape, ReadBeat
    <3>3. CASE CountSymbol(c)
      <4>1. call'[c] = [call[c] EXCEPT !.pc = "inserting"]
        BY <1>1, <1>2, <3>3, Judged DEF CountSymbol
      <4> QED BY <1>1, <3>3, <4>1, Fields DEF Shape, CountSymbol
    <3>4. CASE Count(c) /\ call[c].request.symbol = NoSymbol
      <4>1. call'[c] = [call[c] EXCEPT !.pc = "inserting"]
        BY <1>1, <1>2, <3>4, Judged DEF Count
      <4> QED BY <1>1, <3>4, <4>1, Fields DEF Shape, Count
    <3>5. CASE Count(c) /\ call[c].request.symbol # NoSymbol
      <4>1. call'[c] = [call[c] EXCEPT !.pc = "symbol"]
        BY <1>1, <1>2, <3>5, Judged DEF Count
      <4> QED BY <1>1, <3>5, <4>1, Fields DEF Shape, Count
    <3> QED BY <1>6, <3>2, <3>3, <3>4, <3>5
  <2>3. \E checks : \E next \in {"count", "symbol", "inserting"} : Judge(c, call[c], checks, next)
    BY <1>6 DEF ReadBeat, Count, CountSymbol
  <2>4. ASSUME NEW checks, NEW next \in {"count", "symbol", "inserting"},
               Judge(c, call[c], checks, next)
        PROVE  call'[c].rules = call[c].rules
    BY <1>1, <2>2, <2>4, Allowed
  <2> QED BY <2>1, <2>3, <2>4
<1>7. CASE Insert(c)
  <2>1. \/ /\ call[c].code = "none" /\ IsEntry(c) /\ call[c].pc = "inserting"
           /\ call'[c] = [call[c] EXCEPT !.pc = "queued"]
        \/ call'[c] = Idle
    BY <1>1, <1>7 DEF Insert
  <2>2. call'[c] # Idle
    BY <1>2 DEF Idle
  <2>3. [call[c] EXCEPT !.pc = "queued"].rules = call[c].rules
    BY <1>1 DEF CallState
  <2> QED BY <2>1, <2>2, <2>3 DEF Past
<1>8. CASE Fill(c)
  <2>1. call[c].pc = "queued" /\ call'[c] = [call[c] EXCEPT !.pc = "filled"]
    BY <1>1, <1>8 DEF Fill
  <2> QED BY <1>1, <2>1, Fields DEF Past
<1>9. CASE Fail(c)
  BY <1>1, <1>2, <1>9 DEF Fail, Idle
<1> QED BY <1>3, <1>4, <1>5, <1>6, <1>7, <1>8, <1>9 DEF CallStep

(* What has been opened is never again as if it had not been. *)
LEMMA PositionsGrow ==
  ASSUME TypeOK, Step
  PROVE  /\ \A t \in Ticket : position[t] # "none" => position'[t] # "none"
         /\ \A c \in Call : position[c] = "none" /\ position'[c] # "none" =>
              call[c].pc = "queued" /\ call'[c].pc = "filled"
<1>1. position \in [Ticket -> {"none", "held", "closed"}]
      /\ call \in [Call -> CallState] /\ Call \subseteq Ticket /\ Local \subseteq Ticket
  BY DEF TypeOK, Ticket
<1>2. ASSUME NEW t \in Local, OpenLocal(t)
      PROVE  /\ \A u \in Ticket : position[u] # "none" => position'[u] # "none"
             /\ \A c \in Call : position'[c] = position[c]
  BY <1>1, <1>2, NameAssumption DEF OpenLocal
<1>3. ASSUME NEW t \in Ticket, Close(t)
      PROVE  /\ \A u \in Ticket : position[u] # "none" => position'[u] # "none"
             /\ \A c \in Call : position[c] = "none" => position'[c] = "none"
  BY <1>1, <1>3 DEF Close
<1>4. ASSUME Other, ~\E t \in Local : OpenLocal(t), ~\E t \in Ticket : Close(t)
      PROVE  position' = position
  BY <1>4 DEF Other, Snapshot, BeatReads, SyncAccount, Register, BeatInserts, BeatSyncsAccount,
     BeatUpdatesRobot, BeatFails, MarkOffline, Activate, Clear, UpdateSettings, GrowStale,
     Elsewhere
<1>5. ASSUME NEW c \in Call, CallStep(c)
      PROVE  /\ \A t \in Ticket : position[t] # "none" => position'[t] # "none"
             /\ \A d \in Call : position[d] = "none" /\ position'[d] # "none" =>
                  call[d].pc = "queued" /\ call'[d].pc = "filled"
  <2>1. CASE position' = position
    BY <2>1
  <2>2. CASE /\ call[c].pc = "queued" /\ call' = [call EXCEPT ![c].pc = "filled"]
             /\ position' = [position EXCEPT ![c] = "held"]
    <3>1. call'[c].pc = "filled"
      BY <1>1, <2>2 DEF CallState
    <3> QED BY <1>1, <2>2, <3>1
  <2> QED BY <1>5, <2>1, <2>2, CallPositions
<1> QED BY <1>2, <1>3, <1>4, <1>5, StepSplit

(* A position opened from the back end stays with its command. *)
LEMMA FilledStays ==
  ASSUME TypeOK, NEW c \in Call, Step, call[c].pc = "filled"
  PROVE  call'[c] = call[c]
<1>1. ~CallStep(c)
  BY DEF CallStep, ReadRobot, ReadAccount, ReadSettings, ReadBeat, Count, CountSymbol, Insert,
     Fill, Fail
<1>2. ASSUME NEW d \in Call, CallStep(d) PROVE call'[c] = call[c]
  <2>1. d # c
    BY <1>1, <1>2
  <2> QED BY <1>2, <2>1, CallStepTypes DEF CallStep
<1> QED BY <1>2, OtherKeepsCalls, StepSplit

LEMMA LevelMeansTraded ==
  ASSUME NEW r \in Report, Level(r) # 0 PROVE Traded
  BY DEF Level, Traded

LEMMA FirstStep == FirstInv /\ [Next]_vars => FirstInv'
<1> SUFFICES ASSUME FirstInv, [Next]_vars PROVE FirstInv'
  OBVIOUS
<1>1. GateInv /\ GateInv' /\ TypeOK /\ TypeOK'
  BY GateStep DEF FirstInv, GateInv
<1>2. CASE UNCHANGED vars
  <2>1. \A c \in Call : Past(c)' = Past(c)
    BY <1>2 DEF vars, Past, IsEntry
  <2> QED BY <1>1, <1>2, <2>1 DEF vars, rows, FirstInv, Traded
<1>3. CASE Step /\ Watch
  <2>1. /\ \A t \in Ticket : position[t] # "none" => position'[t] # "none"
        /\ \A c \in Call : position[c] = "none" /\ position'[c] # "none" => call'[c].pc = "filled"
        /\ Traded => Traded'
    BY <1>1, <1>3, PositionsGrow DEF Traded
  <2>2. account'.marginLevel # 0 => Traded'
    <3>1. CASE account' = account
      BY <2>1, <3>1 DEF FirstInv
    <3>2. ASSUME NEW r \in Report, SyncAccount(r) PROVE account'.marginLevel # 0 => Traded'
      <4>1. account'.marginLevel = Level(r)
        BY <3>2 DEF SyncAccount, AccountOf
      <4> QED BY <2>1, <4>1, LevelMeansTraded
    <3>3. CASE BeatSyncsAccount
      <4>1. account'.marginLevel = beat.level /\ beat.pc # "idle"
        BY <3>3 DEF BeatSyncsAccount, AccountOf
      <4> QED BY <2>1, <4>1 DEF FirstInv
    <3>4. account' = account \/ BeatSyncsAccount \/ \E r \in Report : SyncAccount(r)
      <4>1. ASSUME Other PROVE account' = account \/ BeatSyncsAccount \/ \E r \in Report : SyncAccount(r)
        BY <4>1 DEF Other, OpenLocal, Close, Snapshot, BeatReads, Register, BeatInserts,
           BeatUpdatesRobot, BeatFails, MarkOffline, Activate, Clear, UpdateSettings, GrowStale, rows
      <4> QED BY <1>3, <4>1, StepSplit, CallKeepsRows
    <3> QED BY <3>1, <3>2, <3>3, <3>4
  <2>3. beat'.pc # "idle" /\ beat'.level # 0 => Traded'
    <3>1. CASE beat' = NoBeatCall
      BY <3>1 DEF NoBeatCall
    <3>2. ASSUME NEW r \in Report, BeatReads(r) PROVE beat'.level # 0 => Traded'
      <4>1. beat'.level = Level(r)
        BY <3>2 DEF BeatReads
      <4> QED BY <2>1, <4>1, LevelMeansTraded
    <3>3. ASSUME beat.pc # "idle", beat' = beat \/ \E pc : beat' = [beat EXCEPT !.pc = pc]
          PROVE  beat'.level # 0 => Traded'
      <4>1. beat'.level = beat.level
        BY <1>1, <3>3 DEF TypeOK, BeatState, NoBeatCall
      <4> QED BY <2>1, <3>3, <4>1 DEF FirstInv
    <3>4. beat' = beat \/ beat' = NoBeatCall \/ (\E r \in Report : BeatReads(r))
          \/ (beat.pc # "idle" /\ \E pc : beat' = [beat EXCEPT !.pc = pc])
      <4>1. ASSUME Other
            PROVE  beat' = beat \/ beat' = NoBeatCall \/ (\E r \in Report : BeatReads(r))
                   \/ (beat.pc # "idle" /\ \E pc : beat' = [beat EXCEPT !.pc = pc])
        BY <4>1 DEF Other, OpenLocal, Close, Snapshot, SyncAccount, Register, BeatInserts,
           BeatSyncsAccount, BeatUpdatesRobot, BeatFails, MarkOffline, Activate, Clear,
           UpdateSettings, GrowStale, Elsewhere
      <4> QED BY <1>3, <4>1, StepSplit, CallKeepsRows
    <3>5. CASE beat' = beat /\ beat.pc = "idle"
      BY <3>5
    <3> QED BY <3>1, <3>2, <3>3, <3>4, <3>5
  <2>4. \A c \in Call : CallStep(c) \/ call'[c] = call[c]
    <3>1. CASE Other
      BY <3>1, OtherKeepsCalls
    <3>2. ASSUME NEW d \in Call, CallStep(d) PROVE \A c \in Call : c = d \/ call'[c] = call[c]
      BY <1>1, <3>2, CallStepTypes DEF CallStep
    <3> QED BY <1>3, <3>1, <3>2, StepSplit
  <2>5. ASSUME NEW c \in Call PROVE call'[c].account.marginLevel # 0 => Traded'
    <3>1. call'[c].account \in {call[c].account, account, NoAccount}
      BY <1>1, <2>4, AccountHeld
    <3> QED BY <2>1, <3>1, NoMargin DEF FirstInv
  <2>6. ASSUME NEW c \in Call, call'[c].pc # "filled" PROVE position'[c] = "none"
    <3>1. call[c].pc # "filled"
      BY <1>1, <1>3, <2>6, FilledStays
    <3> QED BY <2>1, <2>6, <3>1 DEF FirstInv
  <2>7. ASSUME NEW c \in Call, Past(c)', call'[c].rules.minimumMarginLevel > 0
        PROVE  \E t \in Ticket \ {c} : position'[t] # "none"
    <3>1. CASE Past(c) /\ call'[c].rules = call[c].rules
      BY <2>1, <2>7, <3>1 DEF FirstInv
    <3>2. CASE call'[c] = call[c]
      <4>1. Past(c)
        BY <2>7, <3>2 DEF Past, IsEntry
      <4> QED BY <3>1, <3>2, <4>1
    <3>3. CASE /\ call'[c].rules = settings
               /\ ~(call[c].account.marginLevel < settings.minimumMarginLevel)
               /\ call[c].pc = "settings"
      <4>1. settings.minimumMarginLevel \in Nat /\ call[c].account.marginLevel \in Int
        BY <1>1, SettingAssumption DEF TypeOK, CallState, AccountRow, SettingType
      <4>2. call[c].account.marginLevel # 0
        BY <2>7, <3>3, <4>1
      <4>3. Traded /\ position[c] = "none"
        BY <3>3, <4>2 DEF FirstInv
      <4> QED BY <2>1, <4>3 DEF Traded
    <3> QED BY <1>1, <2>4, <2>7, <3>1, <3>2, <3>3, PastStep DEF GateInv
  <2> QED BY <1>1, <2>2, <2>3, <2>5, <2>6, <2>7 DEF FirstInv
<1> QED BY <1>2, <1>3 DEF Next

(* For any settings with a margin requirement and any reports: whenever an  *)
(* entry is queued, a position of another origin has been opened before.    *)
THEOREM FirstPositionElsewhere == Spec => []FirstPositionIsNotOurs
<1>1. Init => FirstInv
  <2> SUFFICES ASSUME Init PROVE FirstInv
    OBVIOUS
  <2>1. \A c \in Call : call[c].pc = "idle" /\ call[c].account = NoAccount /\ position[c] = "none"
    BY DEF Init, Idle, Ticket
  <2>2. account = NoAccount /\ beat.pc = "idle"
    BY DEF Init, NoBeatCall
  <2> QED BY <2>1, <2>2, GateInit, NoMargin DEF FirstInv, Past
<1>2. FirstInv => FirstPositionIsNotOurs
  BY DEF FirstInv, FirstPositionIsNotOurs, Past
<1> QED BY <1>1, <1>2, FirstStep, PTL DEF Spec
-----------------------------------------------------------------------------
(* The limits on positions are exceeded by what the counts did not see.     *)

OfSymbol(c, tickets) == {t \in tickets : SymbolOf(t) = call[c].request.symbol}

(* What is exposed and was seen when the call counted stays below the limit.*)
Bounded(c) ==
  /\ Cardinality(Exposure \ unseen[c]) < call[c].rules.maximumPositions
  /\ call[c].pc = "inserting" /\ call[c].request.symbol # NoSymbol =>
       Cardinality(OfSymbol(c, Exposure \ unseen[c])) < call[c].rules.maximumPerSymbol

BoundInv ==
  /\ FirstInv
  /\ \A c \in Call : Counted(c) => Bounded(c)

LEMMA Finite ==
  ASSUME TypeOK
  PROVE  /\ IsFiniteSet(Ticket) /\ IsFiniteSet(Exposure) /\ IsFiniteSet(listed)
         /\ \A c \in Call : IsFiniteSet(unseen[c]) /\ unseen[c] \subseteq Ticket
<1>1. IsFiniteSet(Ticket)
  BY NameAssumption DEF Ticket
<1>2. Exposure \subseteq Ticket /\ listed \subseteq Ticket
      /\ \A c \in Call : unseen[c] \subseteq Ticket
  BY DEF Exposure, Ticket, TypeOK
<1> QED BY <1>1, <1>2, FS_Subset

LEMMA Smaller ==
  ASSUME NEW S, IsFiniteSet(S), NEW T \in SUBSET S, NEW n \in Nat, Cardinality(S) < n
  PROVE  Cardinality(T) < n
<1>1. IsFiniteSet(T) /\ Cardinality(T) <= Cardinality(S)
  BY FS_Subset
<1>2. Cardinality(S) \in Nat /\ Cardinality(T) \in Nat
  BY <1>1, FS_CardinalityType
<1> QED BY <1>1, <1>2

LEMMA Limits ==
  ASSUME TypeOK, NEW c \in Call
  PROVE  /\ call[c].rules.maximumPositions \in Nat /\ call[c].rules.maximumPerSymbol \in Nat
         /\ call[c] \in CallState /\ call \in [Call -> CallState]
<1>1. call[c].rules \in SettingType
  BY SettingAssumption DEF TypeOK, CallState
<1> QED BY <1>1 DEF SettingType, TypeOK

(* What stays exposed keeps its symbol. *)
LEMMA SymbolStays ==
  ASSUME FirstInv, Step, NEW t \in Exposure, t \in Exposure'
  PROVE  SymbolOf(t)' = SymbolOf(t)
<1>1. TypeOK /\ call \in [Call -> CallState] /\ position \in [Ticket -> {"none", "held", "closed"}]
  BY DEF FirstInv, GateInv, TypeOK
<1>2. CASE t \notin Call
  BY <1>2 DEF SymbolOf
<1>3. CASE t \in Call /\ call'[t] = call[t]
  BY <1>3 DEF SymbolOf
<1>4. CASE t \in Call /\ CallStep(t)
  <2>1. call[t].pc = "queued"
    <3>1. call[t].pc = "queued" \/ call[t].pc = "filled"
      BY <1>4 DEF Exposure, FirstInv
    <3>2. call[t].pc # "filled"
      BY <1>4 DEF CallStep, ReadRobot, ReadAccount, ReadSettings, ReadBeat, Count, CountSymbol,
         Insert, Fill, Fail
    <3> QED BY <3>1, <3>2
  <2>2. position[t] = "none"
    BY <1>4, <2>1 DEF FirstInv
  <2>3. CASE Fill(t)
    <3>1. call'[t] = [call[t] EXCEPT !.pc = "filled"]
      BY <1>1, <1>4, <2>3 DEF Fill
    <3>2. call'[t].request = call[t].request
      BY <1>1, <1>4, <3>1 DEF CallState
    <3> QED BY <3>2 DEF SymbolOf
  <2>4. CASE Fail(t)
    <3>1. call'[t] = Idle /\ position' = position
      BY <1>1, <1>4, <2>4 DEF Fail, Untouched
    <3>2. call'[t].pc = "idle" /\ position'[t] = "none"
      BY <2>2, <3>1 DEF Idle
    <3> QED BY <3>2 DEF Exposure
  <2> QED BY <1>4, <2>1, <2>3, <2>4
          DEF CallStep, ReadRobot, ReadAccount, ReadSettings, ReadBeat, Count, CountSymbol, Insert
<1>5. ASSUME t \in Call PROVE CallStep(t) \/ call'[t] = call[t]
  <2>1. CASE Other
    BY <2>1, OtherKeepsCalls
  <2>2. ASSUME NEW d \in Call, CallStep(d) PROVE t = d \/ call'[t] = call[t]
    BY <1>1, <1>5, <2>2, CallStepTypes DEF CallStep
  <2> QED BY <2>1, <2>2, StepSplit
<1> QED BY <1>2, <1>3, <1>4, <1>5

(* While the others act, what a call did not see grows by what they expose. *)
LEMMA BoundKept ==
  ASSUME BoundInv, Step, Watch, NEW c \in Call, call'[c] = call[c], Counted(c)'
  PROVE  Bounded(c)'
<1>1. Counted(c) /\ TypeOK /\ FirstInv
  BY DEF Counted, Open, IsEntry, BoundInv, FirstInv, GateInv
<1>2. Bounded(c)
  BY <1>1 DEF BoundInv
<1>3. unseen'[c] = unseen[c] \cup (Exposure' \ Exposure)
  BY DEF Watch
<1>4. Exposure' \ unseen'[c] \subseteq Exposure \ unseen[c]
  BY <1>3
<1>5. IsFiniteSet(Exposure \ unseen[c])
  BY <1>1, Finite, FS_Subset
<1>6. Cardinality(Exposure' \ unseen'[c]) < call'[c].rules.maximumPositions
  BY <1>1, <1>2, <1>4, <1>5, Limits, Smaller DEF Bounded
<1>7. ASSUME call'[c].pc = "inserting", call'[c].request.symbol # NoSymbol
      PROVE  Cardinality(OfSymbol(c, Exposure \ unseen[c])') < call'[c].rules.maximumPerSymbol
  <2> DEFINE S == OfSymbol(c, Exposure \ unseen[c])
  <2>1. IsFiniteSet(S)
    BY <1>5, FS_Subset DEF OfSymbol
  <2>2. S' \subseteq S
    BY <1>1, <1>4, SymbolStays DEF OfSymbol
  <2>3. Cardinality(S) < call[c].rules.maximumPerSymbol
    BY <1>2, <1>7 DEF Bounded
  <2> HIDE DEF S
  <2>4. Cardinality(S') < call[c].rules.maximumPerSymbol
    BY <1>1, <2>1, <2>2, <2>3, Limits, Smaller
  <2> QED BY <2>4 DEF S
<1> QED BY <1>6, <1>7 DEF Bounded

(* The step by which a call comes to be counted, or counts its symbol.      *)
LEMMA Counts ==
  ASSUME TypeOK, NEW c \in Call, Shape(c), CallStep(c), Counted(c)'
  PROVE  /\ \/ /\ Count(c) /\ Cardinality(listed) < call[c].rules.maximumPositions
               /\ call'[c].pc = "inserting" => call[c].request.symbol = NoSymbol
            \/ /\ CountSymbol(c) /\ Open(c)
               /\ Cardinality(OfSymbol(c, listed)) < call[c].rules.maximumPerSymbol
         /\ call'[c].pc # call[c].pc
         /\ call'[c].rules = call[c].rules /\ call'[c].request = call[c].request
         /\ Exposure' = Exposure
<1>1. /\ call[c] \in CallState /\ call \in [Call -> CallState]
      /\ call[c].rules.maximumPositions \in Nat /\ call[c].rules.maximumPerSymbol \in Nat
      /\ Cardinality(listed) \in Nat /\ IsFiniteSet(listed)
  BY Limits, Finite, FS_CardinalityType DEF TypeOK
<1>2. call'[c].pc \in {"symbol", "inserting"} /\ call'[c].code = "none"
      /\ call'[c].request.type \in EntryType
  BY DEF Counted, Open, IsEntry
<1>3. Past(c)'
  BY <1>2 DEF Past, IsEntry
<1>4. CASE Count(c)
  <2> DEFINE full == Reached(listed, call[c].rules.maximumPositions)
  <2>1. ASSUME NEW checks, NEW next \in {"symbol", "inserting"},
               Judge(c, call[c], checks, next)
        PROVE  /\ Passes(checks) /\ call'[c].pc = next
               /\ call'[c].rules = call[c].rules /\ call'[c].request = call[c].request
    BY <1>1, <1>2, <2>1, Allowed
  <2>2. /\ Passes(<< Check(full, "MAX_OPEN_POSITIONS_REACHED") >>)
        /\ call'[c].pc = "inserting" => call[c].request.symbol = NoSymbol
        /\ call'[c].rules = call[c].rules /\ call'[c].request = call[c].request
    <3>1. CASE call[c].request.symbol = NoSymbol
      <4>1. Judge(c, call[c], << Check(full, "MAX_OPEN_POSITIONS_REACHED") >>, "inserting")
        BY <1>4, <3>1 DEF Count
      <4>2. Passes(<< Check(full, "MAX_OPEN_POSITIONS_REACHED") >>)
            /\ call'[c].rules = call[c].rules /\ call'[c].request = call[c].request
        BY <2>1, <4>1
      <4> QED BY <3>1, <4>2
    <3>2. CASE call[c].request.symbol # NoSymbol
      <4>1. Judge(c, call[c], << Check(full, "MAX_OPEN_POSITIONS_REACHED") >>, "symbol")
        BY <1>4, <3>2 DEF Count
      <4>2. Passes(<< Check(full, "MAX_OPEN_POSITIONS_REACHED") >>) /\ call'[c].pc = "symbol"
            /\ call'[c].rules = call[c].rules /\ call'[c].request = call[c].request
        BY <2>1, <4>1
      <4> QED BY <4>2
    <3> QED BY <3>1, <3>2
  <2>3. ~full
    <3> HIDE DEF full
    <3> QED BY <2>2, CountPasses
  <2>4. Cardinality(listed) < call[c].rules.maximumPositions
    BY <1>1, <2>3 DEF Reached
  <2>5. call[c].pc = "count" /\ position' = position
    BY <1>4 DEF Count, Untouched
  <2>6. \A d \in Call : d # c => call'[d] = call[d]
    BY CallStepTypes DEF CallStep
  <2>7. Exposure' = Exposure
    BY <1>2, <2>5, <2>6 DEF Exposure
  <2> HIDE DEF full
  <2> QED BY <1>2, <1>4, <2>2, <2>4, <2>5, <2>7
<1>5. CASE CountSymbol(c)
  <2> DEFINE S == {t \in listed : SymbolOf(t) = call[c].request.symbol}
             full == Reached(S, call[c].rules.maximumPerSymbol)
  <2>1. Judge(c, call[c], << Check(full, "MAX_SYMBOL_POSITIONS_REACHED") >>, "inserting")
    BY <1>5 DEF CountSymbol
  <2>2. ASSUME NEW checks, Judge(c, call[c], checks, "inserting")
        PROVE  /\ Passes(checks)
               /\ call'[c].rules = call[c].rules /\ call'[c].request = call[c].request
               /\ call'[c].pc = "inserting"
    BY <1>1, <1>2, <2>2, Allowed
  <2>3. /\ Passes(<< Check(full, "MAX_SYMBOL_POSITIONS_REACHED") >>)
        /\ call'[c].rules = call[c].rules /\ call'[c].request = call[c].request
    BY <2>1, <2>2
  <2>4. ~full
    <3> HIDE DEF full
    <3> QED BY <2>3, CountPasses
  <2>5. IsFiniteSet(S) /\ Cardinality(S) \in Nat
    BY <1>1, FS_Subset, FS_CardinalityType
  <2>6. Cardinality(S) < call[c].rules.maximumPerSymbol
    <3> HIDE DEF S
    <3> QED BY <1>1, <2>4, <2>5 DEF Reached
  <2>7. call[c].pc = "symbol" /\ position' = position
    BY <1>5 DEF CountSymbol, Untouched
  <2>8. \A d \in Call : d # c => call'[d] = call[d]
    BY CallStepTypes DEF CallStep
  <2>9. Exposure' = Exposure
    BY <1>2, <2>7, <2>8 DEF Exposure
  <2>10. Open(c)
    BY <2>7 DEF Open, Shape
  <2>11. call'[c].pc = "inserting"
    BY <2>1, <2>2
  <2> HIDE DEF full
  <2> QED BY <1>5, <2>3, <2>6, <2>7, <2>9, <2>10, <2>11 DEF OfSymbol
<1>6. ASSUME NEW q \in Request, ReadRobot(c, q) PROVE FALSE
  <2> DEFINE seen == [Idle EXCEPT !.request = q, !.auto = robot.auto]
  <2>1. seen \in CallState
    BY IdleType DEF CallState, RobotRow, TypeOK
  <2>2. CASE call' = [call EXCEPT ![c] = [Idle EXCEPT !.request = q, !.pc = "inserting"]]
             /\ q.type \notin EntryType
    <3>1. call'[c].request = q
      BY <1>1, <2>2 DEF Idle
    <3> QED BY <1>2, <2>2, <3>1
  <2> HIDE DEF seen
  <2>3. CASE Judge(c, seen, RobotChecks(robot), "account")
    <3>1. call'[c].pc = "account"
      BY <1>2, <2>1, <2>3, Allowed
    <3> QED BY <1>2, <3>1
  <2> QED BY <1>6, <2>2, <2>3 DEF ReadRobot, seen
<1>7. CASE ReadAccount(c)
  <2> DEFINE seen == [call[c] EXCEPT !.account = account]
  <2>1. seen \in CallState
    BY <1>1 DEF CallState, TypeOK
  <2> HIDE DEF seen
  <2>2. call'[c].pc = "settings"
    BY <1>2, <1>7, <2>1, Allowed DEF ReadAccount, seen
  <2> QED BY <1>2, <2>2
<1>8. CASE ReadSettings(c)
  <2> DEFINE seen == [call[c] EXCEPT !.rules = settings, !.auto = FALSE, !.account = NoAccount]
  <2>1. seen \in CallState
    <3>1. NoAccount \in AccountRow
      BY DEF NoAccount, AccountRow
    <3> QED BY <1>1, <3>1 DEF CallState, TypeOK
  <2> HIDE DEF seen
  <2>2. call'[c].pc = "beat"
    BY <1>2, <1>8, <2>1, Allowed DEF ReadSettings, seen
  <2> QED BY <1>2, <2>2
<1>9. CASE ReadBeat(c)
  <2>1. call'[c].pc = "count"
    BY <1>1, <1>2, <1>9, Allowed DEF ReadBeat
  <2> QED BY <1>2, <2>1
<1>10. CASE Insert(c) \/ Fill(c) \/ Fail(c)
  <2>1. \/ call'[c] = [call[c] EXCEPT !.pc = "queued"]
        \/ call'[c] = [call[c] EXCEPT !.pc = "filled"]
        \/ call'[c] = Idle
    BY <1>1, <1>10 DEF Insert, Fill, Fail
  <2>2. [call[c] EXCEPT !.pc = "queued"].pc = "queued"
        /\ [call[c] EXCEPT !.pc = "filled"].pc = "filled" /\ Idle.pc = "idle"
    BY <1>1 DEF CallState, Idle
  <2> QED BY <1>2, <2>1, <2>2
<1> QED BY <1>4, <1>5, <1>6, <1>7, <1>8, <1>9, <1>10 DEF CallStep

LEMMA BoundOwnStep ==
  ASSUME BoundInv, Step, Watch, NEW c \in Call, CallStep(c), Counted(c)'
  PROVE  Bounded(c)'
<1>1. TypeOK /\ FirstInv /\ Shape(c)
  BY DEF BoundInv, FirstInv, GateInv
<1>2. /\ Exposure' = Exposure /\ call'[c] # call[c]
      /\ call'[c].rules = call[c].rules /\ call'[c].request = call[c].request
      /\ unseen'[c] = unseen[c] \cup (Exposure \ listed)
  BY <1>1, Counts DEF Watch
<1> DEFINE D == Exposure \ unseen[c]
           E == D'
<1>3. IsFiniteSet(listed) /\ IsFiniteSet(D)
  BY <1>1, Finite, FS_Subset
<1>4. E \subseteq listed /\ E \subseteq D
  BY <1>2
<1>5. OfSymbol(c, D)' \subseteq OfSymbol(c, listed)
  <2>1. ASSUME NEW t \in Exposure PROVE SymbolOf(t)' = SymbolOf(t)
    BY <1>1, <1>2, <2>1, SymbolStays
  <2> QED BY <1>2, <1>4, <2>1 DEF OfSymbol
<1>6. CASE /\ Count(c) /\ Cardinality(listed) < call[c].rules.maximumPositions
           /\ call'[c].pc = "inserting" => call[c].request.symbol = NoSymbol
  <2>1. Cardinality(E) < call[c].rules.maximumPositions
    <3> HIDE DEF D
    <3> QED BY <1>1, <1>3, <1>4, <1>6, Limits, Smaller
  <2> QED BY <1>2, <1>6, <2>1 DEF Bounded
<1>7. CASE /\ CountSymbol(c) /\ Open(c)
           /\ Cardinality(OfSymbol(c, listed)) < call[c].rules.maximumPerSymbol
  <2>1. Cardinality(D) < call[c].rules.maximumPositions
    BY <1>7 DEF Counted, CountSymbol, BoundInv, Bounded
  <2>2. Cardinality(E) < call[c].rules.maximumPositions
    <3> HIDE DEF D
    <3> QED BY <1>1, <1>3, <1>4, <2>1, Limits, Smaller
  <2>3. IsFiniteSet(OfSymbol(c, listed))
    BY <1>3, FS_Subset DEF OfSymbol
  <2>4. Cardinality(OfSymbol(c, D)') < call[c].rules.maximumPerSymbol
    <3> DEFINE A == OfSymbol(c, D)'
               B == OfSymbol(c, listed)
    <3>1. A \subseteq B /\ IsFiniteSet(B) /\ Cardinality(B) < call[c].rules.maximumPerSymbol
      BY <1>5, <1>7, <2>3
    <3> HIDE DEF A, B
    <3>2. Cardinality(A) < call[c].rules.maximumPerSymbol
      BY <1>1, <3>1, Limits, Smaller
    <3> QED BY <3>2 DEF A
  <2> QED BY <1>2, <2>2, <2>4 DEF Bounded
<1> QED BY <1>1, <1>6, <1>7, Counts

LEMMA BoundStep == BoundInv /\ [Next]_vars => BoundInv'
<1> SUFFICES ASSUME BoundInv, [Next]_vars PROVE BoundInv'
  OBVIOUS
<1>1. FirstInv /\ FirstInv' /\ TypeOK
  BY FirstStep DEF BoundInv, FirstInv, GateInv
<1>2. CASE UNCHANGED vars
  <2>1. ASSUME NEW c \in Call PROVE Counted(c)' = Counted(c) /\ Bounded(c)' = Bounded(c)
    BY <1>2 DEF vars, Counted, Open, IsEntry, Bounded, Exposure, OfSymbol, SymbolOf
  <2> QED BY <1>1, <2>1 DEF BoundInv
<1>3. CASE Step /\ Watch
  <2>1. \A c \in Call : CallStep(c) \/ call'[c] = call[c]
    <3>1. CASE Other
      BY <3>1, OtherKeepsCalls
    <3>2. ASSUME NEW d \in Call, CallStep(d) PROVE \A c \in Call : c = d \/ call'[c] = call[c]
      BY <1>1, <3>2, CallStepTypes DEF CallStep
    <3> QED BY <1>3, <3>1, <3>2, StepSplit
  <2> QED BY <1>1, <1>3, <2>1, BoundKept, BoundOwnStep DEF BoundInv
<1> QED BY <1>2, <1>3 DEF Next

(* For any settings and any number of calls: an entry is admitted over a    *)
(* limit on positions by no more than what its counts could not see.        *)
THEOREM ExposureIsBounded == Spec => []ExposureBounded
<1>1. Init => BoundInv
  <2> SUFFICES ASSUME Init PROVE BoundInv
    OBVIOUS
  <2>1. \A c \in Call : call[c].pc = "idle" /\ call[c].account = NoAccount /\ position[c] = "none"
    BY DEF Init, Idle, Ticket
  <2>2. account = NoAccount /\ beat.pc = "idle"
    BY DEF Init, NoBeatCall
  <2>3. FirstInv
    BY <2>1, <2>2, GateInit, NoMargin DEF FirstInv, Past
  <2> QED BY <2>1, <2>3 DEF BoundInv, Counted
<1>2. BoundInv => ExposureBounded
  <2> SUFFICES ASSUME BoundInv, NEW c \in Call, Admits(c)
               PROVE  /\ Cardinality(Exposure)
                           < call[c].rules.maximumPositions + Cardinality(unseen[c])
                      /\ call[c].request.symbol # NoSymbol =>
                           Cardinality(OfSymbol(c, Exposure))
                             < call[c].rules.maximumPerSymbol + Cardinality(OfSymbol(c, unseen[c]))
    BY DEF ExposureBounded, OfSymbol
  <2>1. TypeOK /\ Bounded(c) /\ call[c].pc = "inserting"
    BY DEF BoundInv, FirstInv, GateInv, Admits, Counted
  <2>2. ASSUME NEW S, NEW U, IsFiniteSet(S), IsFiniteSet(U), NEW n \in Nat,
               Cardinality(S \ U) < n
        PROVE  Cardinality(S) < n + Cardinality(U)
    <3>1. IsFiniteSet(S \ U)
      BY <2>2, FS_Subset
    <3>2. IsFiniteSet((S \ U) \cup U)
          /\ Cardinality((S \ U) \cup U) = Cardinality(S \ U) + Cardinality(U)
                                             - Cardinality((S \ U) \cap U)
      BY <2>2, <3>1, FS_Union
    <3>3. S \subseteq (S \ U) \cup U /\ (S \ U) \cap U = {}
      OBVIOUS
    <3>4. Cardinality(S) <= Cardinality((S \ U) \cup U) /\ Cardinality({}) = 0
      BY <3>2, <3>3, FS_Subset, FS_EmptySet
    <3>5. Cardinality(S) \in Nat /\ Cardinality(S \ U) \in Nat /\ Cardinality(U) \in Nat
      BY <2>2, <3>1, FS_CardinalityType
    <3>6. Cardinality((S \ U) \cup U) = Cardinality(S \ U) + Cardinality(U)
      BY <3>2, <3>3, <3>4, <3>5
    <3> QED BY <2>2, <3>4, <3>5, <3>6
  <2>3. Cardinality(Exposure) < call[c].rules.maximumPositions + Cardinality(unseen[c])
    BY <2>1, <2>2, Finite, Limits DEF Bounded
  <2>4. ASSUME call[c].request.symbol # NoSymbol
        PROVE  Cardinality(OfSymbol(c, Exposure))
                 < call[c].rules.maximumPerSymbol + Cardinality(OfSymbol(c, unseen[c]))
    <3> DEFINE S == OfSymbol(c, Exposure)
               U == OfSymbol(c, unseen[c])
    <3>1. IsFiniteSet(S) /\ IsFiniteSet(U)
      BY <2>1, Finite, FS_Subset DEF OfSymbol
    <3>2. S \ U = OfSymbol(c, Exposure \ unseen[c])
      BY DEF OfSymbol
    <3>3. Cardinality(S \ U) < call[c].rules.maximumPerSymbol
      BY <2>1, <2>4, <3>2 DEF Bounded
    <3> HIDE DEF S, U
    <3>4. Cardinality(S) < call[c].rules.maximumPerSymbol + Cardinality(U)
      BY <2>1, <2>2, <3>1, <3>3, Limits
    <3> QED BY <3>4 DEF S, U
  <2> QED BY <2>3, <2>4
<1> QED BY <1>1, <1>2, BoundStep, PTL DEF Spec
=============================================================================
