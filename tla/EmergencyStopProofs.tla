------------------------ MODULE EmergencyStopProofs ------------------------
(***************************************************************************)
(* What EmergencyStop guarantees for every number of operators, traders,   *)
(* heartbeats and commands.                                                *)
(***************************************************************************)
EXTENDS EmergencyStop, TLAPS

LEMMA TypeStep == TypeOK /\ [Next]_vars => TypeOK'
  <1> SUFFICES ASSUME TypeOK, [Next]_vars PROVE TypeOK'
    OBVIOUS
  <1>1. CASE Register
    BY <1>1, ConstantsAssumption
       DEF Register, TypeOK, Row, Status, ControlKinds, StopKinds, NoBeat, robot,
           rows, calls, terminal
  <1>2. CASE GetOrCreateDefaults
    BY <1>2, ConstantsAssumption
       DEF GetOrCreateDefaults, KeepOrCreate, TypeOK, Row, Status, ControlKinds,
           StopKinds, NoBeat, robot, rows, calls, terminal
  <1>3. ASSUME NEW p \in Operator, OperatorStep(p)
       PROVE  TypeOK'
    <2>1. CASE Activate(p)
      BY <2>1, ConstantsAssumption
         DEF Activate, SetFlags, TypeOK, Row, Status, ControlKinds, StopKinds,
             NoBeat, robot, rows, calls, terminal
    <2>2. CASE Clear(p)
      BY <2>2, ConstantsAssumption
         DEF Clear, SetFlags, TypeOK, Row, Status, ControlKinds, StopKinds,
             NoBeat, robot, rows, calls, terminal
    <2>3. CASE QueueStopCommand(p)
      BY <2>3, ConstantsAssumption
         DEF QueueStopCommand, Enqueue, TypeOK, Row, Status, ControlKinds,
             StopKinds, NoBeat, robot, rows, calls, terminal
    <2>4. CASE KillOperator(p)
      BY <2>4, ConstantsAssumption
         DEF KillOperator, TypeOK, Row, Status, ControlKinds, StopKinds, NoBeat,
             robot, rows, calls, terminal
    <2> QED
      BY <1>3, <2>1, <2>2, <2>3, <2>4 DEF OperatorStep
  <1>4. ASSUME NEW k \in Control, QueueControl(k)
       PROVE  TypeOK'
    BY <1>4, ConstantsAssumption
       DEF QueueControl, Enqueue, TypeOK, Row, Status, ControlKinds, StopKinds,
           NoBeat, robot, rows, calls, terminal
  <1>5. ASSUME NEW t \in Trader, TraderStep(t)
       PROVE  TypeOK'
    <2>1. CASE ValidateEntry(t)
      BY <2>1, ConstantsAssumption
         DEF ValidateEntry, TypeOK, Row, Status, ControlKinds, StopKinds, NoBeat,
             robot, rows, calls, terminal
    <2>2. CASE QueueEntry(t)
      BY <2>2, ConstantsAssumption
         DEF QueueEntry, Enqueue, TypeOK, Row, Status, ControlKinds, StopKinds,
             NoBeat, robot, rows, calls, terminal
    <2> QED
      BY <1>5, <2>1, <2>2 DEF TraderStep
  <1>6. ASSUME NEW b \in Beat, BeatStep(b)
       PROVE  TypeOK'
    <2>1. CASE SendHeartbeat(b)
      BY <2>1, ConstantsAssumption
         DEF SendHeartbeat, Reported, TypeOK, Row, Status, ControlKinds,
             StopKinds, NoBeat, robot, rows, calls, terminal
    <2>2. CASE HeartbeatReads(b)
      BY <2>2, ConstantsAssumption, ZenonT(30)
         DEF HeartbeatReads, TypeOK, Row, Status, ControlKinds, StopKinds, NoBeat,
             robot, rows, calls, terminal
    <2>3. CASE HeartbeatCommits(b)
      BY <2>3, ConstantsAssumption
         DEF HeartbeatCommits, StatusAfter, TypeOK, Row, Status, ControlKinds,
             StopKinds, NoBeat, robot, rows, calls, terminal
    <2>4. CASE LoseHeartbeat(b)
      BY <2>4, ConstantsAssumption
         DEF LoseHeartbeat, TypeOK, Row, Status, ControlKinds, StopKinds, NoBeat,
             robot, rows, calls, terminal
    <2> QED
      BY <1>6, <2>1, <2>2, <2>3, <2>4 DEF BeatStep
  <1>7. CASE Silence
    BY <1>7, ConstantsAssumption
       DEF Silence, TypeOK, Row, Status, ControlKinds, StopKinds, NoBeat, robot,
           rows, calls, terminal
  <1>8. CASE MarkOfflineStale
    BY <1>8, ConstantsAssumption
       DEF MarkOfflineStale, TypeOK, Row, Status, ControlKinds, StopKinds, NoBeat,
           robot, rows, calls, terminal
  <1>9. ASSUME NEW taken \in SUBSET Row, NEW arrives \in BOOLEAN, Deliver(taken, arrives)
       PROVE  TypeOK'
    BY <1>9, ConstantsAssumption
       DEF Deliver, Queued, TypeOK, Row, Status, ControlKinds, StopKinds, NoBeat,
           robot, rows, calls, terminal
  <1>10. ASSUME NEW i \in Row, Requeue(i)
       PROVE  TypeOK'
    BY <1>10, ConstantsAssumption
       DEF Requeue, TypeOK, Row, Status, ControlKinds, StopKinds, NoBeat, robot,
           rows, calls, terminal
  <1>11. ASSUME NEW i \in Row, Expire(i)
       PROVE  TypeOK'
    BY <1>11, ConstantsAssumption
       DEF Expire, TypeOK, Row, Status, ControlKinds, StopKinds, NoBeat, robot,
           rows, calls, terminal
  <1>12. ASSUME NEW i \in Row, SkipSeen(i)
       PROVE  TypeOK'
    BY <1>12, ConstantsAssumption
       DEF SkipSeen, IsNext, TypeOK, Row, Status, ControlKinds, StopKinds, NoBeat,
           robot, rows, calls, terminal
  <1>13. ASSUME NEW i \in Row, NEW posted \in BOOLEAN, Execute(i, posted)
       PROVE  TypeOK'
    BY <1>13, ConstantsAssumption
       DEF Execute, IsNext, Obeys, TypeOK, Row, Status, ControlKinds, StopKinds,
           NoBeat, robot, rows, calls, terminal
  <1>14. CASE Restart
    BY <1>14, ConstantsAssumption
       DEF Restart, TypeOK, Row, Status, ControlKinds, StopKinds, NoBeat, robot,
           rows, calls, terminal
  <1>15. CASE UNCHANGED vars
    BY <1>15, ConstantsAssumption
       DEF vars, TypeOK, Row, Status, ControlKinds, StopKinds, NoBeat, robot, rows,
           calls, terminal
  <1> QED
    BY <1>1, <1>2, <1>3, <1>4, <1>5, <1>6, <1>7, <1>8,
       <1>9, <1>10, <1>11, <1>12, <1>13, <1>14, <1>15 DEF Next

(* Every variable of EmergencyStop stays in its type. *)
THEOREM StopTypeCorrect == Spec => []TypeOK
  <1>1. Init => TypeOK
    <2> SUFFICES ASSUME Init PROVE TypeOK
      OBVIOUS
    <2>1. /\ created \in 0..MaxCommands
          /\ seen \subseteq Row
          /\ batch \subseteq Row
      BY ConstantsAssumption DEF Init
    <2>2. /\ beating \in [Beat -> [pc : {"idle", "sent", "read"}, reported : Status,
                                   sawStop : BOOLEAN]]
          /\ operating \in [Operator -> StopKinds \cup {"none"}]
          /\ entering \in [Trader -> BOOLEAN]
      BY DEF Init, Status, NoBeat
    <2> QED
      BY <2>1, <2>2 DEF Init, TypeOK, Status
  <1> QED
    BY <1>1, TypeStep, PTL DEF Spec

-----------------------------------------------------------------------------
LEMMA FlagsStep == TypeOK /\ FlagsAgree /\ [Next]_vars => FlagsAgree'
  <1> SUFFICES ASSUME TypeOK, FlagsAgree, [Next]_vars PROVE FlagsAgree'
    OBVIOUS
  <1>1. CASE Register
    BY <1>1 DEF Register, TypeOK, FlagsAgree, robot, rows, calls, terminal
  <1>2. CASE GetOrCreateDefaults
    BY <1>2
       DEF GetOrCreateDefaults, KeepOrCreate, TypeOK, FlagsAgree, robot, rows,
           calls, terminal
  <1>3. ASSUME NEW p \in Operator, OperatorStep(p)
       PROVE  FlagsAgree'
    <2>1. CASE Activate(p)
      BY <2>1 DEF Activate, SetFlags, TypeOK, FlagsAgree, robot, rows, calls, terminal
    <2>2. CASE Clear(p)
      BY <2>2 DEF Clear, SetFlags, TypeOK, FlagsAgree, robot, rows, calls, terminal
    <2>3. CASE QueueStopCommand(p)
      BY <2>3 DEF QueueStopCommand, Enqueue, TypeOK, FlagsAgree, robot, rows, calls, terminal
    <2>4. CASE KillOperator(p)
      BY <2>4 DEF KillOperator, TypeOK, FlagsAgree, robot, rows, calls, terminal
    <2> QED
      BY <1>3, <2>1, <2>2, <2>3, <2>4 DEF OperatorStep
  <1>4. ASSUME NEW k \in Control, QueueControl(k)
       PROVE  FlagsAgree'
    BY <1>4 DEF QueueControl, Enqueue, TypeOK, FlagsAgree, robot, rows, calls, terminal
  <1>5. ASSUME NEW t \in Trader, TraderStep(t)
       PROVE  FlagsAgree'
    <2>1. CASE ValidateEntry(t)
      BY <2>1 DEF ValidateEntry, TypeOK, FlagsAgree, robot, rows, calls, terminal
    <2>2. CASE QueueEntry(t)
      BY <2>2 DEF QueueEntry, Enqueue, TypeOK, FlagsAgree, robot, rows, calls, terminal
    <2> QED
      BY <1>5, <2>1, <2>2 DEF TraderStep
  <1>6. ASSUME NEW b \in Beat, BeatStep(b)
       PROVE  FlagsAgree'
    <2>1. CASE SendHeartbeat(b)
      BY <2>1 DEF SendHeartbeat, Reported, TypeOK, FlagsAgree, robot, rows, calls, terminal
    <2>2. CASE HeartbeatReads(b)
      BY <2>2 DEF HeartbeatReads, TypeOK, FlagsAgree, robot, rows, calls, terminal
    <2>3. CASE HeartbeatCommits(b)
      BY <2>3 DEF HeartbeatCommits, StatusAfter, TypeOK, FlagsAgree, robot, rows, calls, terminal
    <2>4. CASE LoseHeartbeat(b)
      BY <2>4 DEF LoseHeartbeat, TypeOK, FlagsAgree, robot, rows, calls, terminal
    <2> QED
      BY <1>6, <2>1, <2>2, <2>3, <2>4 DEF BeatStep
  <1>7. CASE Silence
    BY <1>7 DEF Silence, TypeOK, FlagsAgree, robot, rows, calls, terminal
  <1>8. CASE MarkOfflineStale
    BY <1>8 DEF MarkOfflineStale, TypeOK, FlagsAgree, robot, rows, calls, terminal
  <1>9. ASSUME NEW taken \in SUBSET Row, NEW arrives \in BOOLEAN, Deliver(taken, arrives)
       PROVE  FlagsAgree'
    BY <1>9 DEF Deliver, Queued, TypeOK, FlagsAgree, robot, rows, calls, terminal
  <1>10. ASSUME NEW i \in Row, Requeue(i)
       PROVE  FlagsAgree'
    BY <1>10 DEF Requeue, TypeOK, FlagsAgree, robot, rows, calls, terminal
  <1>11. ASSUME NEW i \in Row, Expire(i)
       PROVE  FlagsAgree'
    BY <1>11 DEF Expire, TypeOK, FlagsAgree, robot, rows, calls, terminal
  <1>12. ASSUME NEW i \in Row, SkipSeen(i)
       PROVE  FlagsAgree'
    BY <1>12 DEF SkipSeen, IsNext, TypeOK, FlagsAgree, robot, rows, calls, terminal
  <1>13. ASSUME NEW i \in Row, NEW posted \in BOOLEAN, Execute(i, posted)
       PROVE  FlagsAgree'
    BY <1>13 DEF Execute, IsNext, Obeys, TypeOK, FlagsAgree, robot, rows, calls, terminal
  <1>14. CASE Restart
    BY <1>14 DEF Restart, TypeOK, FlagsAgree, robot, rows, calls, terminal
  <1>15. CASE UNCHANGED vars
    BY <1>15 DEF vars, TypeOK, FlagsAgree, robot, rows, calls, terminal
  <1> QED
    BY <1>1, <1>2, <1>3, <1>4, <1>5, <1>6, <1>7, <1>8,
       <1>9, <1>10, <1>11, <1>12, <1>13, <1>14, <1>15 DEF Next

(* The flag of the robot and its copy in the settings agree, whatever the   *)
(* number and the order of registrations, reads of the settings and calls   *)
(* of operators.                                                            *)
THEOREM FlagsAlwaysAgree == Spec => []FlagsAgree
  <1>1. Init => FlagsAgree
    BY DEF Init, FlagsAgree
  <1> QED
    BY <1>1, StopTypeCorrect, FlagsStep, PTL DEF Spec


-----------------------------------------------------------------------------
(* Why the terminal follows the backend: commands reach it in the order in  *)
(* which the operators changed the flag, so that what it has obeyed so far  *)
(* is what a prefix of the rows says, and the flag is what all rows say.    *)

Rows == 1..created

(* The stop is on after the rows S, of the kinds "of", obeyed in order. *)
StopAfter(of, S) ==
  \E i \in S : /\ of[i] = "EMERGENCY_STOP"
               /\ \A j \in S : j > i => of[j] # "CLEAR_EMERGENCY_STOP"

OneOperator ==
  \A p, q \in Operator : operating[p] # "none" /\ operating[q] # "none" => p = q

SeenIsPrefix ==
  /\ seen \subseteq Rows
  /\ \A i \in seen, j \in Rows : j < i => j \in seen

BatchIsFirst ==
  /\ batch \subseteq Rows
  /\ \A i \in batch, j \in Rows :
       i \notin seen /\ j \notin seen /\ j \notin batch => i < j

NothingLost ==
  /\ \A i \in Rows : i \in seen \/ i \in batch \/ place[i] = "QUEUED"
  /\ \A i \in Row \ Rows : place[i] = "none"

TerminalFollows == emergencyStop <=> StopAfter(kind, seen)

BackendFollows ==
  stopActive <=> IF NoOperator THEN StopAfter(kind, Rows)
                 ELSE \E p \in Operator : operating[p] = "EMERGENCY_STOP"

InOrder ==
  /\ OneOperator
  /\ SeenIsPrefix
  /\ BatchIsFirst
  /\ NothingLost
  /\ TerminalFollows
  /\ BackendFollows

(* One more row, later than all of S, decides by its kind. *)
LEMMA StopAfterOneMore ==
  ASSUME NEW S \in SUBSET Nat, NEW n \in Nat, NEW of, NEW before,
         \A i \in S : i < n /\ of[i] = before[i]
  PROVE  StopAfter(of, S \cup {n}) <=>
           \/ of[n] = "EMERGENCY_STOP"
           \/ StopAfter(before, S) /\ of[n] # "CLEAR_EMERGENCY_STOP"
  <1>1. CASE of[n] = "EMERGENCY_STOP"
    BY <1>1 DEF StopAfter
  <1>2. CASE of[n] # "EMERGENCY_STOP" /\ of[n] = "CLEAR_EMERGENCY_STOP"
    BY <1>2 DEF StopAfter
  <1>3. CASE of[n] # "EMERGENCY_STOP" /\ of[n] # "CLEAR_EMERGENCY_STOP"
    BY <1>3 DEF StopAfter
  <1> QED
    BY <1>1, <1>2, <1>3

(* Rows of the same kinds leave the stop as it is. *)
LEMMA StopAfterSame ==
  ASSUME NEW S, NEW of, NEW before, \A i \in S : of[i] = before[i]
  PROVE  StopAfter(of, S) <=> StopAfter(before, S)
  BY DEF StopAfter

(* A new row is queued behind the others, and does not change what the      *)
(* terminal has obeyed.                                                     *)
LEMMA EnqueueKeepsOrder ==
  ASSUME TypeOK, InOrder, NEW k, Enqueue(k), UNCHANGED terminal
  PROVE  /\ SeenIsPrefix' /\ BatchIsFirst' /\ NothingLost' /\ TerminalFollows'
         /\ StopAfter(kind', Rows') <=>
              \/ k = "EMERGENCY_STOP"
              \/ StopAfter(kind, Rows) /\ k # "CLEAR_EMERGENCY_STOP"
  <1>1. /\ created \in Nat /\ created + 1 \in Row
        /\ Rows' = Rows \cup {created + 1}
        /\ kind'[created + 1] = k
        /\ \A i \in Rows : i < created + 1 /\ kind'[i] = kind[i] /\ place'[i] = place[i]
        /\ place'[created + 1] = "QUEUED"
    BY ConstantsAssumption DEF TypeOK, Row, Rows, Enqueue
  <1>2. /\ seen \subseteq Rows /\ seen' = seen
        /\ batch \subseteq Rows /\ batch' = batch
        /\ emergencyStop' = emergencyStop
    BY DEF InOrder, SeenIsPrefix, BatchIsFirst, terminal
  <1>3. SeenIsPrefix'
    BY <1>1, <1>2 DEF InOrder, SeenIsPrefix, Rows
  <1>4. BatchIsFirst'
    BY <1>1, <1>2 DEF InOrder, BatchIsFirst, Rows
  <1>5. NothingLost'
    BY <1>1, <1>2 DEF InOrder, NothingLost, Enqueue, TypeOK, Row
  <1>6. StopAfter(kind', seen) <=> StopAfter(kind, seen)
    BY <1>1, <1>2, StopAfterSame
  <1>7. TerminalFollows'
    BY <1>2, <1>6 DEF InOrder, TerminalFollows
  <1>8. StopAfter(kind', Rows \cup {created + 1}) <=>
          \/ k = "EMERGENCY_STOP"
          \/ StopAfter(kind, Rows) /\ k # "CLEAR_EMERGENCY_STOP"
    <2>1. Rows \in SUBSET Nat /\ created + 1 \in Nat
      BY <1>1 DEF Rows
    <2>2. StopAfter(kind', Rows \cup {created + 1}) <=>
            \/ kind'[created + 1] = "EMERGENCY_STOP"
            \/ StopAfter(kind, Rows) /\ kind'[created + 1] # "CLEAR_EMERGENCY_STOP"
      BY <1>1, <2>1, StopAfterOneMore
    <2> QED
      BY <1>1, <2>2
  <1>9. StopAfter(kind', Rows') <=> StopAfter(kind', Rows \cup {created + 1})
    BY <1>1
  <1> QED
    BY <1>3, <1>4, <1>5, <1>7, <1>8, <1>9

(* A step that leaves rows, operators and the terminal alone. *)
LEMMA OrderFrame ==
  ASSUME InOrder,
         UNCHANGED <<stopActive, rows, operating, emergencyStop, seen, batch>>
  PROVE  InOrder'
  BY DEF InOrder, OneOperator, SeenIsPrefix, BatchIsFirst, NothingLost, Row,
         TerminalFollows, BackendFollows, NoOperator, Rows, StopAfter, rows

(* Nothing undoes a disturbance. *)
LEMMA DisturbedStep == disturbed /\ [Next]_vars => disturbed'
  BY DEF Next, vars, Register, GetOrCreateDefaults, OperatorStep, Activate, Clear,
         QueueStopCommand, KillOperator, QueueControl, TraderStep, ValidateEntry,
         QueueEntry, BeatStep, SendHeartbeat, HeartbeatReads, HeartbeatCommits,
         LoseHeartbeat, Silence, MarkOfflineStale, Deliver, Requeue, Expire, SkipSeen,
         Execute, Restart

LEMMA OrderStep ==
  TypeOK /\ InOrder /\ ~disturbed' /\ [Next]_vars => InOrder'
  <1> SUFFICES ASSUME TypeOK, InOrder, ~disturbed', [Next]_vars PROVE InOrder'
    OBVIOUS
  <1>1. CASE Register
    BY <1>1, OrderFrame DEF Register, rows, calls, terminal
  <1>2. CASE GetOrCreateDefaults
    BY <1>2, OrderFrame DEF GetOrCreateDefaults, rows, calls, terminal
  <1>3. ASSUME NEW p \in Operator, OperatorStep(p)
       PROVE  InOrder'
    <2>1. CASE Activate(p)
      <3>1. SeenIsPrefix' /\ BatchIsFirst' /\ NothingLost' /\ TerminalFollows'
        BY <2>1
           DEF Activate, InOrder, SeenIsPrefix, BatchIsFirst, NothingLost,
               TerminalFollows, Rows, rows, terminal
      <3>2. NoOperator /\ ~NoOperator'
        BY <2>1 DEF Activate, TypeOK, NoOperator, StopKinds
      <3>3. OneOperator' /\ BackendFollows'
        BY <2>1, <3>2 DEF Activate, TypeOK, OneOperator, BackendFollows, NoOperator, SetFlags
      <3> QED
        BY <3>1, <3>3 DEF InOrder
    <2>2. CASE Clear(p)
      <3>1. SeenIsPrefix' /\ BatchIsFirst' /\ NothingLost' /\ TerminalFollows'
        BY <2>2
           DEF Clear, InOrder, SeenIsPrefix, BatchIsFirst, NothingLost,
               TerminalFollows, Rows, rows, terminal
      <3>2. NoOperator /\ ~NoOperator'
        BY <2>2 DEF Clear, TypeOK, NoOperator, StopKinds
      <3>3. OneOperator' /\ BackendFollows'
        BY <2>2, <3>2 DEF Clear, TypeOK, OneOperator, BackendFollows, NoOperator, SetFlags
      <3> QED
        BY <3>1, <3>3 DEF InOrder
    <2>3. CASE QueueStopCommand(p)
      <3>1. Enqueue(operating[p]) /\ UNCHANGED terminal
        BY <2>3 DEF QueueStopCommand
      <3>2. OneOperator' /\ NoOperator'
        BY <2>3 DEF QueueStopCommand, TypeOK, InOrder, OneOperator, NoOperator
      <3>3. stopActive' <=> operating[p] = "EMERGENCY_STOP"
        BY <2>3 DEF QueueStopCommand, robot, TypeOK, InOrder, OneOperator, NoOperator,
                    BackendFollows
      <3>4. operating[p] \in StopKinds
        BY <2>3 DEF QueueStopCommand, TypeOK
      <3>5. BackendFollows'
        BY <3>1, <3>2, <3>3, <3>4, EnqueueKeepsOrder DEF BackendFollows, StopKinds
      <3> QED
        BY <3>1, <3>2, <3>5, EnqueueKeepsOrder DEF InOrder
    <2>4. CASE KillOperator(p)
      BY <2>4 DEF KillOperator
    <2> QED
      BY <1>3, <2>1, <2>2, <2>3, <2>4 DEF OperatorStep
  <1>4. ASSUME NEW k \in Control, QueueControl(k)
       PROVE  InOrder'
    <2>1. Enqueue(k) /\ UNCHANGED terminal /\ k \notin StopKinds
      BY <1>4 DEF QueueControl
    <2>2. StopAfter(kind', Rows') <=> StopAfter(kind, Rows)
      BY <2>1, EnqueueKeepsOrder DEF StopKinds
    <2>3. OneOperator' /\ BackendFollows'
      BY <1>4, <2>2 DEF QueueControl, robot, calls, InOrder, OneOperator, BackendFollows,
                        NoOperator
    <2> QED
      BY <2>1, <2>3, EnqueueKeepsOrder DEF InOrder
  <1>5. ASSUME NEW t \in Trader, TraderStep(t)
       PROVE  InOrder'
    <2>1. CASE ValidateEntry(t)
      BY <2>1, OrderFrame DEF ValidateEntry, robot, rows, terminal
    <2>2. CASE QueueEntry(t)
      <3>1. Enqueue("OPEN") /\ UNCHANGED terminal
        BY <2>2 DEF QueueEntry
      <3>2. StopAfter(kind', Rows') <=> StopAfter(kind, Rows)
        BY <3>1, EnqueueKeepsOrder
      <3>3. OneOperator' /\ BackendFollows'
        BY <2>2, <3>2 DEF QueueEntry, robot, InOrder, OneOperator, BackendFollows,
                          NoOperator
      <3> QED
        BY <3>1, <3>3, EnqueueKeepsOrder DEF InOrder
    <2> QED
      BY <1>5, <2>1, <2>2 DEF TraderStep
  <1>6. ASSUME NEW b \in Beat, BeatStep(b)
       PROVE  InOrder'
    <2>1. CASE SendHeartbeat(b)
      BY <2>1, OrderFrame DEF SendHeartbeat, robot, rows, terminal
    <2>2. CASE HeartbeatReads(b)
      BY <2>2, OrderFrame DEF HeartbeatReads, robot, rows, terminal
    <2>3. CASE HeartbeatCommits(b)
      BY <2>3, OrderFrame DEF HeartbeatCommits, robot, rows, terminal
    <2>4. CASE LoseHeartbeat(b)
      BY <2>4, OrderFrame DEF LoseHeartbeat, robot, rows, terminal
    <2> QED
      BY <1>6, <2>1, <2>2, <2>3, <2>4 DEF BeatStep
  <1>7. CASE Silence
    BY <1>7, OrderFrame DEF Silence, rows, calls, terminal
  <1>8. CASE MarkOfflineStale
    BY <1>8, OrderFrame DEF MarkOfflineStale, rows, calls, terminal
  <1>9. ASSUME NEW taken \in SUBSET Row, NEW arrives \in BOOLEAN, Deliver(taken, arrives)
       PROVE  InOrder'
    <2>1. /\ batch = {} /\ batch' = Queued
          /\ \A i \in Row : place'[i] = IF i \in Queued THEN "DELIVERED" ELSE place[i]
      BY <1>9 DEF Deliver
    <2>2. \A i \in Rows : i \in seen \/ i \in Queued
      BY ConstantsAssumption, <2>1 DEF InOrder, NothingLost, Queued, Rows, Row, TypeOK
    <2>3. Queued \subseteq Rows
      BY DEF InOrder, NothingLost, Queued
    <2>4. BatchIsFirst' /\ NothingLost'
      BY <1>9, <2>1, <2>2, <2>3 DEF Deliver, InOrder, BatchIsFirst, NothingLost, Rows, Row
    <2>5. OneOperator' /\ SeenIsPrefix' /\ TerminalFollows' /\ BackendFollows'
      BY <1>9 DEF Deliver, robot, calls, InOrder, OneOperator, SeenIsPrefix, Rows,
                  TerminalFollows, BackendFollows, NoOperator
    <2> QED
      BY <2>4, <2>5 DEF InOrder
  <1>10. ASSUME NEW i \in Row, Requeue(i)
       PROVE  InOrder'
    <2>1. NothingLost'
      BY <1>10 DEF Requeue, TypeOK, InOrder, NothingLost, Rows, Row, terminal
    <2>2. OneOperator' /\ SeenIsPrefix' /\ BatchIsFirst' /\ TerminalFollows' /\ BackendFollows'
      BY <1>10 DEF Requeue, robot, calls, terminal, InOrder, OneOperator, SeenIsPrefix,
                  BatchIsFirst, Rows, TerminalFollows, BackendFollows, NoOperator
    <2> QED
      BY <2>1, <2>2 DEF InOrder
  <1>11. ASSUME NEW i \in Row, Expire(i)
       PROVE  InOrder'
    BY <1>11 DEF Expire
  <1>12. ASSUME NEW i \in Row, SkipSeen(i)
       PROVE  InOrder'
    <2>1. BatchIsFirst' /\ NothingLost'
      BY <1>12 DEF SkipSeen, IsNext, InOrder, BatchIsFirst, NothingLost, Rows, rows
    <2>2. OneOperator' /\ SeenIsPrefix' /\ TerminalFollows' /\ BackendFollows'
      BY <1>12 DEF SkipSeen, robot, rows, calls, InOrder, OneOperator, SeenIsPrefix, Rows,
                  TerminalFollows, BackendFollows, NoOperator
    <2> QED
      BY <2>1, <2>2 DEF InOrder
  <1>13. ASSUME NEW i \in Row, NEW posted \in BOOLEAN, Execute(i, posted)
       PROVE  InOrder'
    <2>1. /\ i \in batch /\ i \in Rows /\ i \notin seen /\ i \in Nat
          /\ seen' = seen \cup {i} /\ batch' = batch \ {i} /\ Rows' = Rows
          /\ kind' = kind /\ stopActive' = stopActive /\ operating' = operating
      BY <1>13 DEF Execute, IsNext, InOrder, BatchIsFirst, Rows, Row, robot, calls
    <2>2. \A j \in Rows : j < i => j \in seen
      BY <1>13, <2>1 DEF Execute, IsNext, InOrder, BatchIsFirst, Rows
    <2>3. \A j \in seen : j \in Nat /\ j < i
      BY <1>13, <2>1 DEF InOrder, SeenIsPrefix, Rows
    <2>4. SeenIsPrefix'
      BY <2>1, <2>2 DEF InOrder, SeenIsPrefix
    <2>5. BatchIsFirst'
      BY <2>1 DEF InOrder, BatchIsFirst
    <2>6. NothingLost'
      BY <1>13, <2>1 DEF Execute, TypeOK, InOrder, NothingLost, Row
    <2>7. StopAfter(kind, seen \cup {i}) <=>
            \/ kind[i] = "EMERGENCY_STOP"
            \/ StopAfter(kind, seen) /\ kind[i] # "CLEAR_EMERGENCY_STOP"
      BY <2>1, <2>3, StopAfterOneMore
    <2>8. TerminalFollows'
      BY <1>13, <2>1, <2>7 DEF Execute, Obeys, InOrder, TerminalFollows
    <2>9. OneOperator' /\ BackendFollows'
      BY <2>1 DEF InOrder, OneOperator, BackendFollows, NoOperator
    <2> QED
      BY <2>4, <2>5, <2>6, <2>8, <2>9 DEF InOrder
  <1>14. CASE Restart
    BY <1>14 DEF Restart
  <1>15. CASE UNCHANGED vars
    BY <1>15, OrderFrame DEF vars, robot, calls, terminal
  <1> QED
    BY <1>1, <1>2, <1>3, <1>4, <1>5, <1>6, <1>7, <1>8,
       <1>9, <1>10, <1>11, <1>12, <1>13, <1>14, <1>15 DEF Next

LEMMA OrderInit == Init => InOrder
  <1> SUFFICES ASSUME Init PROVE InOrder
    OBVIOUS
  <1>1. Rows = {} /\ NoOperator
    BY DEF Init, Rows, NoOperator
  <1>2. ~StopAfter(kind, {})
    BY DEF StopAfter
  <1>3. OneOperator /\ SeenIsPrefix /\ BatchIsFirst /\ NothingLost
    BY <1>1 DEF Init, OneOperator, SeenIsPrefix, BatchIsFirst, NothingLost
  <1>4. TerminalFollows /\ BackendFollows
    BY <1>1, <1>2 DEF Init, TerminalFollows, BackendFollows
  <1> QED
    BY <1>3, <1>4 DEF InOrder

LEMMA OrderAlways == Spec => [](disturbed \/ InOrder)
  BY OrderInit, OrderStep, DisturbedStep, StopTypeCorrect, PTL DEF Spec

(* When every command has been executed, the terminal is stopped exactly    *)
(* when the backend says so, for any number of rows, redeliveries and lost  *)
(* posts, as long as no operator overtakes another and no command is lost,  *)
(* late or forgotten.                                                       *)
THEOREM TerminalAlwaysObeys == Spec => []TerminalObeys
  <1>1. TypeOK /\ InOrder => TerminalObeys
    BY DEF TypeOK, InOrder, TerminalFollows, BackendFollows, TerminalObeys, Drained, Rows
  <1>2. disturbed => TerminalObeys
    BY DEF TerminalObeys
  <1> QED
    BY <1>1, <1>2, OrderAlways, StopTypeCorrect, PTL

(* No entry is executed under an older stop, for any number of commands,    *)
(* however the batches are cut by redeliveries and whatever posts are lost. *)
THEOREM EntriesAlwaysObey == Spec => EntriesObeyOlderStops
  <1> DEFINE Obedient == \A i \in Row :
        i \in seen' \ seen /\ kind[i] = "OPEN" /\ CanBridgeTrade /\ ~disturbed => ~StopBefore(i)
  <1>1. TypeOK /\ (disturbed \/ InOrder) /\ [Next]_vars => [Obedient]_vars
    <2> SUFFICES ASSUME TypeOK, disturbed \/ InOrder, Next, NEW i \in Row,
                        i \in seen' \ seen, CanBridgeTrade, ~disturbed, StopBefore(i)
                 PROVE  FALSE
      OBVIOUS
    <2>1. PICK posted \in BOOLEAN : Execute(i, posted)
      BY DEF Next, Register, GetOrCreateDefaults, OperatorStep, Activate, Clear,
             QueueStopCommand, KillOperator, QueueControl, TraderStep, ValidateEntry,
             QueueEntry, BeatStep, SendHeartbeat, HeartbeatReads, HeartbeatCommits,
             LoseHeartbeat, Silence, MarkOfflineStale, Deliver, Requeue, Expire, SkipSeen,
             Execute, Restart, calls, terminal
    <2>2. i \in batch /\ i \in Rows /\ i \notin seen /\ i \in Nat /\ created \in Nat
      BY <2>1 DEF Execute, IsNext, InOrder, BatchIsFirst, Rows, Row, TypeOK
    <2>3. \A j \in Rows : j < i => j \in seen
      BY <2>1, <2>2 DEF Execute, IsNext, InOrder, BatchIsFirst, Rows
    <2>4. \A j \in seen : j \in Nat /\ 1 <= j /\ j < i
      BY <2>2 DEF InOrder, SeenIsPrefix, Rows
    <2>5. PICK j \in 1..(i - 1) :
            kind[j] = "EMERGENCY_STOP" /\ \A l \in (j + 1)..(i - 1) : kind[l] # "CLEAR_EMERGENCY_STOP"
      BY DEF StopBefore
    <2>6. j \in seen
      BY <2>2, <2>3, <2>5 DEF Rows
    <2>7. StopAfter(kind, seen)
      BY <2>2, <2>4, <2>5, <2>6 DEF StopAfter
    <2> QED
      BY <2>7 DEF InOrder, TerminalFollows, CanBridgeTrade
  <1> QED
    BY <1>1, OrderAlways, StopTypeCorrect, PTL DEF Spec, EntriesObeyOlderStops

=============================================================================
