-------------------------- MODULE BridgeSessionProofs --------------------------
(***************************************************************************)
(* Proofs about BridgeSession: type correctness, that a registered terminal *)
(* is accepted, that a command is executed at most once per memory, per     *)
(* requeue and, while the journal is large enough, per restart, and that    *)
(* what was executed is recorded unless its result was lost or refused.     *)
(***************************************************************************)
EXTENDS BridgeSession, FiniteSetTheorems, TLAPS

(* The EA works on a command from the moment it is marked. *)
Working == {"acknowledge", "executing", "execute", "result"}

WorkInv ==
  /\ TypeOK
  /\ current \in Command <=> doing \in Working

-----------------------------------------------------------------------------
(* Type correctness. *)

LEMMA CurrentPostType ==
  ASSUME WorkInv, doing \in Posting
  PROVE  CurrentPost \in Post /\ CurrentPost.command = current /\ CurrentPost.kind = doing
  BY DEF WorkInv, TypeOK, CurrentPost, Post, Posting, Working

LEMMA SetStatusType ==
  ASSUME TypeOK, NEW commands, NEW s \in Status, SetStatus(commands, s)
  PROVE  /\ status' \in [Command -> Status]
         /\ \A c \in Command : status'[c] = IF c \in commands THEN s ELSE status[c]
  BY DEF TypeOK, SetStatus

LEMMA CommitPostType ==
  ASSUME TypeOK, NEW m \in Post, CommitPost(m)
  PROVE  /\ status' \in [Command -> Status]
         /\ recorded' \subseteq Command /\ recorded \subseteq recorded'
         /\ m.kind = "result" => m.command \in recorded'
         /\ \A c \in Command : status'[c] # status[c] =>
              \/ status'[c] \in {"ACKNOWLEDGED", "EXECUTING"}
              \/ status'[c] = "FINISHED" /\ c \in recorded'
<1>1. m.command \in Command /\ m.kind \in {"acknowledge", "executing", "result"}
  BY DEF Post, Posting
<1>2. recorded' = IF m.kind = "result" THEN recorded \cup {m.command} ELSE recorded
  BY DEF CommitPost
<1>3. PICK s \in {"ACKNOWLEDGED", "EXECUTING", "FINISHED"} :
        SetStatus({m.command}, s) /\ (s = "FINISHED" => m.kind = "result")
  BY <1>1 DEF CommitPost
<1>4. s \in Status
  BY DEF Status
<1>5. /\ status' \in [Command -> Status]
      /\ \A c \in Command : status'[c] = IF c \in {m.command} THEN s ELSE status[c]
  BY <1>3, <1>4, SetStatusType
<1> QED BY <1>1, <1>2, <1>3, <1>5 DEF TypeOK

LEMMA DeliverType ==
  ASSUME TypeOK, NEW commands \in SUBSET Deliverable, DeliverTo(commands)
  PROVE  /\ status' \in [Command -> Status]
         /\ \A c \in Command : status'[c] # status[c] =>
              status[c] = "QUEUED" /\ status'[c] = "DELIVERED"
<1>1. "DELIVERED" \in Status
  BY DEF Status
<1> QED BY <1>1, SetStatusType DEF DeliverTo, Deliverable

(* What the steps of a post leave alone, and where the EA goes after it.    *)
LEMMA PostMoves ==
  ASSUME PostStep
  PROVE  /\ UNCHANGED <<hash, heard, retries, due, running, registered, token, file, signalled,
                        journal, batch, executions, forgot, restarts, overtaken>>
         /\ doing \in Posting
         /\ \/ doing' = doing /\ current' = current
            \/ doing = "acknowledge" /\ doing' = "executing" /\ current' = current
            \/ doing = "executing" /\ doing' = "execute" /\ current' = current
            \/ doing = "result" /\ doing' = "next" /\ current' = Nobody
         /\ CommitPost(CurrentPost) \/ UNCHANGED <<status, recorded>>
<1>1. CASE PostAccepted
  BY <1>1 DEF PostAccepted, robot, rows, session, history
<1>2. CASE GoOn /\ doing \in Posting
  <2>1. UNCHANGED <<hash, heard, retries, due, running, registered, token, file, signalled,
                    journal, batch, executions, forgot, restarts, overtaken>>
    BY <1>2 DEF GoOn, robot, session
  <2>2. \/ doing = "acknowledge" /\ doing' = "executing" /\ current' = current
        \/ doing = "executing" /\ doing' = "execute" /\ current' = current
        \/ doing = "result" /\ doing' = "next" /\ current' = Nobody
    BY <1>2 DEF GoOn, After, Posting
  <2>3. PostRefused \/ PostCommitted \/ PostGivenUp =>
          CommitPost(CurrentPost) \/ UNCHANGED <<status, recorded>>
    BY DEF PostRefused, PostCommitted, PostGivenUp
  <2>4. PostAccepted => CommitPost(CurrentPost) \/ UNCHANGED <<status, recorded>>
    BY DEF PostAccepted, rows
  <2> QED BY <1>2, <2>1, <2>2, <2>3, <2>4 DEF PostStep
<1> QED BY <1>1, <1>2 DEF PostStep, PostRefused, PostCommitted, PostGivenUp

LEMMA GiveUpType ==
  ASSUME TypeOK, NEW m, NEW passed,
         \/ m \in Registration \cup Poll /\ passed = FALSE
         \/ m \in Post /\ passed \in BOOLEAN,
         GiveUp(m, passed)
  PROVE  late' \subseteq GivenUp
<1> DEFINE r == [request |-> m, accepted |-> passed, fault |-> faults]
<1>1. faults \in Nat
  BY ConstantsAssumption DEF TypeOK
<1>2. r \in GivenUp
  BY <1>1 DEF GivenUp
<1> HIDE DEF r
<1>3. late' \in {late, late \cup {r}}
  BY DEF GiveUp, r
<1> QED BY <1>2, <1>3 DEF TypeOK

LEMMA PostLate ==
  ASSUME WorkInv, PostStep
  PROVE  late' \subseteq GivenUp
<1>1. doing \in Posting /\ TypeOK
  BY PostMoves DEF WorkInv
<1>2. CurrentPost \in Post /\ accepted \in BOOLEAN
  BY <1>1, CurrentPostType DEF TypeOK
<1>3. CASE PostGivenUp
  BY <1>1, <1>2, <1>3, GiveUpType DEF PostGivenUp, Unanswered
<1> QED BY <1>1, <1>3 DEF PostStep, PostAccepted, PostRefused, PostCommitted, TypeOK

LEMMA MarkType ==
  ASSUME TypeOK, NEW c \in Command, MarkCommand(c)
  PROVE  /\ journal' \in Seq(Command) /\ Len(journal') <= JournalSize
         /\ forgot' \in [Command -> Nat]
<1>1. CASE Len(journal) < JournalSize
  <2>1. journal' = Append(journal, c) /\ forgot' = forgot
    BY <1>1 DEF MarkCommand
  <2> QED BY <1>1, <2>1, ConstantsAssumption DEF TypeOK
<1>2. CASE ~(Len(journal) < JournalSize)
  <2>1. journal' = Append(Tail(journal), c)
        /\ forgot' = [forgot EXCEPT ![Head(journal)] = @ + 1]
    BY <1>2 DEF MarkCommand
  <2>2. journal \in Seq(Command) /\ journal # << >>
    BY <1>2, ConstantsAssumption DEF TypeOK
  <2>3. Tail(journal) \in Seq(Command) /\ Len(Tail(journal)) = Len(journal) - 1
        /\ Head(journal) \in Command /\ Len(journal) \in Nat
    BY <2>2
  <2> QED BY <2>1, <2>3, ConstantsAssumption DEF TypeOK
<1> QED BY <1>1, <1>2

LEMMA WorkInit == Init => WorkInv
<1> SUFFICES ASSUME Init PROVE WorkInv
  OBVIOUS
<1>1. << >> \in Seq(Command) /\ Len(<< >>) = 0
  OBVIOUS
<1>2. /\ [c \in Command |-> "ABSENT"] \in [Command -> Status]
      /\ [c \in Command |-> 0] \in [Command -> Nat]
      /\ [r \in Run |-> NoRun] \in [Run -> [job : {"requeue", "expire", "idle"}, held : SUBSET Command]]
  BY DEF Status, NoRun
<1> QED
  <2>1. current \notin Command /\ doing \notin Working /\ doing \in Doing
    BY ConstantsAssumption DEF Init, Doing, Working
  <2>2. faults \in 0..MaxFaults
    BY ConstantsAssumption DEF Init
  <2>3. journal \in Seq(Command) /\ Len(journal) <= JournalSize
    BY <1>1, ConstantsAssumption DEF Init
  <2> QED BY <1>2, <2>1, <2>2, <2>3 DEF Init, WorkInv, TypeOK, Batch

LEMMA FaultType == TypeOK /\ (Fault \/ UNCHANGED faults) => faults' \in 0..MaxFaults
  BY ConstantsAssumption DEF Fault, TypeOK

(* What a step of a job run leaves alone, and what it does to the rows.     *)
LEMMA RunMoves ==
  ASSUME TypeOK, NEW r \in Run, RunStep(r)
  PROVE  /\ UNCHANGED <<hash, heard, due, recorded, registered, token, file, signalled, journal,
                        doing, batch, current, accepted, late, faults, executions, forgot,
                        restarts, unreported, overtaken>>
         /\ running' \in [Run -> [job : {"requeue", "expire", "idle"}, held : SUBSET Command]]
         /\ \A q \in Run : running'[q].job = "expire" => running'[q] = running[q]
                                                        \/ running'[q].held = Stale
         /\ \/ UNCHANGED <<status, retries>>
            \/ /\ SetStatus(running[r].held, "QUEUED")
               /\ retries' = [c \in Command |->
                                IF c \in running[r].held THEN retries[c] + 1 ELSE retries[c]]
            \/ /\ running[r].job = "expire" /\ SetStatus(running[r].held, "EXPIRED")
               /\ UNCHANGED retries
<1>1. UNCHANGED <<hash, heard, due, recorded, registered, token, file, signalled, journal, doing,
                  batch, current, accepted, late, faults, executions, forgot, restarts,
                  unreported, overtaken>>
  BY DEF RunStep, RequeueReads, RequeueCommits, ExpireReads, ExpireCommits, KillRun, RunReads,
         Outside, robot, session, work, history
<1>2. \/ \E selected \in SUBSET Abandoned : RunReads(r, "requeue", selected)
      \/ RunReads(r, "expire", Stale)
      \/ running' = [running EXCEPT ![r] = NoRun]
  BY DEF RunStep, RequeueReads, RequeueCommits, ExpireReads, ExpireCommits, KillRun
<1>3. Abandoned \subseteq Command /\ Stale \subseteq Command
  BY DEF Abandoned, Stale, TypeOK
<1>4. PICK new \in [job : {"requeue", "expire", "idle"}, held : SUBSET Command] :
        /\ running' = [running EXCEPT ![r] = new]
        /\ new.job = "expire" => new.held = Stale
  <2>1. ASSUME NEW selected \in SUBSET Command, RunReads(r, "requeue", selected)
        PROVE  running' = [running EXCEPT ![r] = [job |-> "requeue", held |-> selected]]
    BY <2>1 DEF RunReads
  <2>2. RunReads(r, "expire", Stale) =>
          running' = [running EXCEPT ![r] = [job |-> "expire", held |-> Stale]]
    BY DEF RunReads
  <2> DEFINE Type == [job : {"requeue", "expire", "idle"}, held : SUBSET Command]
  <2>3. CASE \E selected \in SUBSET Abandoned : RunReads(r, "requeue", selected)
    <3>1. PICK selected \in SUBSET Abandoned : RunReads(r, "requeue", selected)
      BY <2>3
    <3>2. [job |-> "requeue", held |-> selected] \in Type
      BY <1>3, <3>1
    <3> QED BY <1>3, <2>1, <3>1, <3>2
  <2>4. CASE RunReads(r, "expire", Stale)
    <3>1. [job |-> "expire", held |-> Stale] \in Type
      BY <1>3
    <3> QED BY <2>2, <2>4, <3>1
  <2>5. CASE running' = [running EXCEPT ![r] = NoRun]
    <3>1. NoRun \in Type /\ NoRun.job # "expire"
      BY DEF NoRun
    <3> QED BY <2>5, <3>1
  <2> QED BY <1>2, <2>3, <2>4, <2>5
<1>5. running' \in [Run -> [job : {"requeue", "expire", "idle"}, held : SUBSET Command]]
  BY <1>4 DEF TypeOK
<1>6. \A q \in Run : running'[q] = running[q] \/ running'[q] = new
  BY <1>4 DEF TypeOK
<1>7. \/ UNCHANGED <<status, retries>>
      \/ /\ SetStatus(running[r].held, "QUEUED")
         /\ retries' = [c \in Command |->
                          IF c \in running[r].held THEN retries[c] + 1 ELSE retries[c]]
      \/ /\ running[r].job = "expire" /\ SetStatus(running[r].held, "EXPIRED")
         /\ UNCHANGED retries
  BY DEF RunStep, RequeueReads, RequeueCommits, ExpireReads, ExpireCommits, KillRun, RunReads
<1> QED BY <1>1, <1>4, <1>5, <1>6, <1>7

(* What a request given up does when it is handled after all.               *)
LEMMA LateMoves ==
  ASSUME TypeOK, NEW r \in late, LateArrives(r) \/ LateCommits(r)
  PROVE  /\ UNCHANGED <<retries, due, running, registered, token, file, signalled, journal,
                        doing, batch, current, accepted, faults, executions, forgot, restarts,
                        unreported>>
         /\ late' \subseteq GivenUp
         /\ hash' \in Nat /\ heard' \in BOOLEAN /\ overtaken' \in BOOLEAN
         /\ overtaken' = (overtaken \/ registered) \/ UNCHANGED <<hash, overtaken>>
         /\ status' \in [Command -> Status]
         /\ recorded' \subseteq Command /\ recorded \subseteq recorded'
         /\ \A c \in Command : status'[c] # status[c] =>
              \/ status'[c] \in {"DELIVERED", "ACKNOWLEDGED", "EXECUTING"}
              \/ status'[c] = "FINISHED" /\ c \in recorded'
<1>1. r \in GivenUp /\ late \subseteq GivenUp /\ hash \in Nat /\ heard \in BOOLEAN
      /\ overtaken \in BOOLEAN /\ registered \in BOOLEAN /\ recorded \subseteq Command
      /\ status \in [Command -> Status]
  BY DEF TypeOK
<1>2. CASE LateArrives(r)
  <2>1. UNCHANGED <<retries, due, recorded, running, registered, token, file, signalled, journal,
                    doing, batch, current, accepted, faults, executions, forgot, restarts,
                    unreported>>
    BY <1>2 DEF LateArrives, session, work, history
  <2>2. late' \subseteq GivenUp
    <3>1. r.request \in Post => [r EXCEPT !.accepted = TRUE] \in GivenUp
      BY <1>1 DEF GivenUp
    <3>2. \/ late' = late \ {r}
          \/ r.request \in Post /\ late' = (late \ {r}) \cup {[r EXCEPT !.accepted = TRUE]}
      BY <1>2 DEF LateArrives
    <3> QED BY <1>1, <3>1, <3>2
  <2>3. /\ hash' \in Nat /\ heard' \in BOOLEAN /\ overtaken' \in BOOLEAN
        /\ overtaken' = (overtaken \/ registered) \/ UNCHANGED <<hash, overtaken>>
    BY <1>1, <1>2 DEF LateArrives, StoreRegistration, NewToken, robot
  <2>4. \/ UNCHANGED status
        \/ \E commands \in SUBSET Deliverable : DeliverTo(commands)
    BY <1>2 DEF LateArrives
  <2>5. status' \in [Command -> Status]
        /\ \A c \in Command : status'[c] # status[c] => status'[c] = "DELIVERED"
    BY <1>1, <2>4, DeliverType
  <2> QED BY <1>1, <2>1, <2>2, <2>3, <2>5
<1>3. CASE LateCommits(r)
  <2>1. r.request \in Post /\ CommitPost(r.request) /\ late' = late \ {r}
    BY <1>1, <1>3 DEF LateCommits, GivenUp
  <2>2. UNCHANGED <<hash, heard, overtaken, retries, due, running, registered, token, file,
                    signalled, journal, doing, batch, current, accepted, faults, executions,
                    forgot, restarts, unreported>>
    BY <1>3 DEF LateCommits, robot, session, work, history
  <2> QED BY <1>1, <2>1, <2>2, CommitPostType
<1> QED BY <1>2, <1>3

(* What a call of RegisterRobot comes to. *)
LEMMA RegisterOutcome ==
  ASSUME RegisterRobot
  PROVE  /\ doing = "register" /\ ~registered /\ doing' = "heartbeat" /\ heard' = heard
         /\ \/ /\ hash' = hash + 1 /\ registered' = TRUE /\ token' = hash + 1
               /\ file' = file \/ file' = hash + 1
               /\ overtaken' = FALSE
            \/ hash' \in {hash, hash + 1} /\ UNCHANGED <<registered, token, file, overtaken>>
<1>1. doing = "register" /\ ~registered /\ doing' = "heartbeat"
  BY DEF RegisterRobot
<1>2. \/ /\ StoreRegistration /\ registered' = TRUE /\ Adopt /\ file' \in {file, token'}
         /\ overtaken' = FALSE
      \/ StoreRegistration /\ UNCHANGED <<registered, token, file, overtaken>>
      \/ UNCHANGED <<robot, registered, token, file, overtaken>>
  BY DEF RegisterRobot
<1>3. StoreRegistration => hash' = hash + 1 /\ heard' = heard
  BY DEF StoreRegistration, NewToken
<1>4. UNCHANGED robot => hash' = hash /\ heard' = heard
  BY DEF robot
<1>5. Adopt => token' = hash + 1
  BY DEF Adopt, NewToken
<1> QED BY <1>1, <1>2, <1>3, <1>4, <1>5

LEMMA WorkStep == WorkInv /\ [Next]_vars => WorkInv'
<1> SUFFICES ASSUME WorkInv, [Next]_vars PROVE WorkInv'
  OBVIOUS
<1> USE DEF WorkInv
<1>1. ASSUME NEW c \in Command, Create(c) \/ PassExpiry(c) PROVE WorkInv'
  <2>1. CASE Create(c)
    BY <2>1 DEF Create, Outside, TypeOK, session, work, history, robot, Status
  <2>2. CASE PassExpiry(c)
    BY <2>2 DEF PassExpiry, Outside, TypeOK, session, work, history, robot
  <2> QED BY <1>1, <2>1, <2>2
<1>2. CASE MarkOffline
  BY <1>2 DEF MarkOffline, Outside, TypeOK, session, work, history, rows
<1>3. CASE OtherRegisters
  BY <1>3, FaultType DEF OtherRegisters, StoreRegistration, NewToken, Outside, TypeOK, session, work,
     history, rows
<1>4. ASSUME NEW r \in late, LateArrives(r) \/ LateCommits(r) PROVE WorkInv'
  BY <1>4, LateMoves DEF TypeOK
<1>5. CASE SkipRegister
  BY <1>5 DEF SkipRegister, TypeOK, robot, rows, session, history, Doing, Working
<1>6. CASE RegisterRobot
  <2>1. faults' \in 0..MaxFaults
    BY <1>6, FaultType DEF RegisterRobot, GiveUp
  <2>2. late' \subseteq GivenUp
    <3>1. [kind |-> "register"] \in Registration
      BY DEF Registration
    <3>2. GiveUp([kind |-> "register"], FALSE) => late' \subseteq GivenUp
      BY <3>1, GiveUpType
    <3> QED BY <1>6, <3>2 DEF RegisterRobot, TypeOK
  <2>3. hash' \in Nat /\ heard' \in BOOLEAN /\ registered' \in BOOLEAN /\ token' \in Nat
        /\ file' \in Nat /\ overtaken' \in BOOLEAN
    <3>1. hash \in Nat /\ hash + 1 \in Nat /\ heard \in BOOLEAN /\ registered \in BOOLEAN
          /\ token \in Nat /\ file \in Nat /\ overtaken \in BOOLEAN
      BY DEF TypeOK
    <3> QED BY <1>6, <3>1, RegisterOutcome
  <2>4. UNCHANGED <<rows, signalled, journal, batch, current, accepted, history>>
        /\ doing = "register" /\ doing' = "heartbeat"
    BY <1>6 DEF RegisterRobot
  <2> QED BY <2>1, <2>2, <2>3, <2>4 DEF TypeOK, rows, history, Doing, Working
<1>7. CASE SendHeartbeat
  <2>1. heard' \in BOOLEAN
    BY <1>7 DEF SendHeartbeat, StoreHeartbeat, TypeOK
  <2> QED BY <1>7, <2>1, FaultType
          DEF SendHeartbeat, TypeOK, rows, session, history, Doing, Working
<1>8. CASE PollCommands
  <2>1. faults' \in 0..MaxFaults
    BY <1>8, FaultType DEF PollCommands, GiveUp
  <2>2. late' \subseteq GivenUp
    <3>1. [kind |-> "poll", token |-> token] \in Poll
      BY DEF Poll, TypeOK
    <3>2. GiveUp([kind |-> "poll", token |-> token], FALSE) => late' \subseteq GivenUp
      BY <3>1, GiveUpType
    <3> QED BY <1>8, <3>2 DEF PollCommands, TypeOK
  <2>3. status' \in [Command -> Status]
    BY <1>8, DeliverType DEF PollCommands, TypeOK
  <2>4. batch' \subseteq Command
    BY <1>8 DEF PollCommands, TypeOK, Batch, Deliverable
  <2> QED BY <1>8, <2>1, <2>2, <2>3, <2>4
          DEF PollCommands, TypeOK, Batch, robot, session, history, Doing, Working
<1>9. CASE EndPoll
  BY <1>9 DEF EndPoll, TypeOK, robot, rows, session, history, Doing, Working
<1>10. ASSUME NEW c \in Command, SkipSeen(c) PROVE WorkInv'
  BY <1>10 DEF SkipSeen, TypeOK, Batch, robot, rows, session, history
<1>11. ASSUME NEW c \in Command, TakeCommand(c) PROVE WorkInv'
  BY <1>11, MarkType DEF TakeCommand, TypeOK, Batch, robot, rows, session, Doing, Working
<1>12. CASE PostStep
  <2>1. status' \in [Command -> Status] /\ recorded' \subseteq Command
    <3>1. CurrentPost \in Post
      BY <1>12, PostMoves, CurrentPostType
    <3> QED BY <1>12, <3>1, PostMoves, CommitPostType DEF TypeOK
  <2>2. late' \subseteq GivenUp
    BY <1>12, PostLate
  <2>3. faults' \in 0..MaxFaults
    BY <1>12, FaultType
       DEF PostStep, PostAccepted, PostRefused, PostCommitted, PostGivenUp, Unanswered, GiveUp
  <2>4. accepted' \in BOOLEAN
    BY <1>12 DEF PostStep, PostAccepted, PostRefused, PostCommitted, PostGivenUp, GoOn
  <2>5. unreported' \subseteq Command
    <3>1. current \in Command
      BY <1>12, PostMoves DEF Posting, Working
    <3> QED BY <1>12, <3>1
            DEF PostStep, PostAccepted, PostRefused, PostCommitted, PostGivenUp, Unanswered,
                history, TypeOK
  <2>6. /\ doing' \in Doing /\ current' \in Command \cup {Nobody}
        /\ current' \in Command <=> doing' \in Working
    BY <1>12, PostMoves, ConstantsAssumption DEF Posting, Working, Doing
  <2> QED BY <1>12, <2>1, <2>2, <2>3, <2>4, <2>5, <2>6, PostMoves DEF TypeOK
<1>13. CASE Execute
  BY <1>13 DEF Execute, TypeOK, robot, rows, session, Doing, Working
<1>14. ASSUME NEW r \in Run, RunStep(r) PROVE WorkInv'
  <2>1. status' \in [Command -> Status] /\ retries' \in [Command -> Nat]
    <3>1. "QUEUED" \in Status /\ "EXPIRED" \in Status
      BY DEF Status
    <3>2. /\ SetStatus(running[r].held, "QUEUED") => status' \in [Command -> Status]
          /\ SetStatus(running[r].held, "EXPIRED") => status' \in [Command -> Status]
      BY <3>1, SetStatusType
    <3> QED BY <1>14, <3>2, RunMoves DEF TypeOK
  <2> QED BY <1>14, <2>1, RunMoves DEF TypeOK
<1>15. CASE Signal
  BY <1>15 DEF Signal, TypeOK, robot, rows, work, history
<1>16. CASE Restart
  <2>1. << >> \in Seq(Command) /\ Len(<< >>) = 0
    OBVIOUS
  <2>2. forgot' \in [Command -> Nat]
    BY <1>16 DEF Restart, TypeOK
  <2>3. unreported' \subseteq Command
    BY <1>16 DEF Restart, Unanswered, TypeOK, Working
  <2>4. journal' \in Seq(Command) /\ Len(journal') <= JournalSize
    BY <1>16, <2>1, ConstantsAssumption DEF Restart
  <2>5. current' \notin Command /\ doing' \notin Working /\ doing' \in Doing
        /\ current' = Nobody
    BY <1>16, ConstantsAssumption DEF Restart, Doing, Working
  <2>6. faults' \in 0..MaxFaults
    BY <1>16, FaultType DEF Restart, Unanswered, GiveUp
  <2>7. UNCHANGED <<robot, rows, file, executions, overtaken>> /\ batch' = {}
        /\ accepted' = FALSE /\ registered' = FALSE /\ token' = file /\ signalled' = FALSE
    BY <1>16 DEF Restart
  <2>8. restarts' \in Nat
    BY <1>16 DEF Restart, TypeOK
  <2>9. late' \subseteq GivenUp
    <3>1. doing \in Posting => CurrentPost \in Post
      BY CurrentPostType
    <3>2. doing \in Posting /\ GiveUp(CurrentPost, accepted) => late' \subseteq GivenUp
      BY <3>1, GiveUpType DEF TypeOK
    <3> QED BY <1>16, <3>2 DEF Restart, Unanswered, TypeOK
  <2> QED BY <2>2, <2>3, <2>4, <2>5, <2>6, <2>7, <2>8, <2>9 DEF TypeOK, Batch, robot, rows
<1>17. CASE UNCHANGED vars
  BY <1>17 DEF vars, TypeOK, robot, rows, session, work, history
<1> QED BY <1>1, <1>2, <1>3, <1>4, <1>5, <1>6, <1>7, <1>8, <1>9, <1>10, <1>11, <1>12, <1>13,
           <1>14, <1>15, <1>16, <1>17 DEF Next, OnTimer, Working

LEMMA WorkAlways == Spec => []WorkInv
  BY WorkInit, WorkStep, PTL DEF Spec

(* Every reachable state is well typed, for any commands and bounds. *)
THEOREM SessionTypeCorrect == Spec => []TypeOK
<1>1. WorkInv => TypeOK
  BY DEF WorkInv
<1> QED BY <1>1, WorkAlways, PTL

-----------------------------------------------------------------------------
(* A registered terminal is accepted unless it was overtaken. *)

LEMMA AcceptedStep == WorkInv /\ RegisteredIsAccepted /\ [Next]_vars => RegisteredIsAccepted'
<1> SUFFICES ASSUME WorkInv, RegisteredIsAccepted, [Next]_vars PROVE RegisteredIsAccepted'
  OBVIOUS
<1>1. CASE UNCHANGED <<hash, registered, token, overtaken>>
  BY <1>1 DEF RegisteredIsAccepted, Accepts
<1>2. CASE OtherRegisters
  BY <1>2 DEF OtherRegisters, Outside, session, RegisteredIsAccepted
<1>3. ASSUME NEW r \in late, LateArrives(r) \/ LateCommits(r) PROVE RegisteredIsAccepted'
  <2>1. UNCHANGED <<registered, token>>
    BY <1>3, LateMoves DEF WorkInv
  <2>2. overtaken' = (overtaken \/ registered) \/ UNCHANGED <<hash, overtaken>>
    BY <1>3, LateMoves DEF WorkInv
  <2> QED BY <2>1, <2>2 DEF RegisteredIsAccepted, Accepts
<1>4. CASE RegisterRobot
  <2>1. hash \in Nat
    BY DEF WorkInv, TypeOK
  <2>2. hash + 1 # 0
    BY <2>1
  <2>3. ~registered /\ (registered' => hash' = hash + 1 /\ token' = hash + 1)
    <3>1. ~registered
      BY <1>4, RegisterOutcome
    <3>2. \/ hash' = hash + 1 /\ token' = hash + 1
          \/ registered' = registered
      BY <1>4, RegisterOutcome
    <3> QED BY <3>1, <3>2
  <2> QED BY <2>2, <2>3 DEF RegisteredIsAccepted, Accepts
<1>5. CASE Restart
  BY <1>5 DEF Restart, RegisteredIsAccepted
<1>6. CASE PostStep
  BY <1>1, <1>6, PostMoves
<1>7. ASSUME NEW r \in Run, RunStep(r) PROVE RegisteredIsAccepted'
  BY <1>1, <1>7, RunMoves DEF WorkInv
<1> QED
  BY <1>1, <1>2, <1>3, <1>4, <1>5, <1>6, <1>7
     DEF Next, OnTimer, Create, PassExpiry, MarkOffline, Outside, SkipRegister,
         SendHeartbeat, PollCommands, EndPoll, SkipSeen, TakeCommand, Execute, Signal, vars,
         robot, session

(* Whatever answers of registrations are lost or late, a terminal that      *)
(* believes to be registered holds the accepted token or was overtaken.     *)
THEOREM RegisteredStaysAccepted == Spec => []RegisteredIsAccepted
<1>1. Init => RegisteredIsAccepted
  BY DEF Init, RegisteredIsAccepted
<1> QED BY <1>1, AcceptedStep, WorkAlways, PTL DEF Spec

-----------------------------------------------------------------------------
(* A command is executed once, and once more per loss of its id. *)

Begun(c) == IF current = c /\ doing \in {"acknowledge", "executing", "execute"} THEN 1 ELSE 0

Known(c) == IF c \in Remembered THEN 1 ELSE 0

(* Each execution, the one under way included, was paid for by an id that   *)
(* is in the journal or was lost.                                           *)
MemoryInv ==
  /\ WorkInv
  /\ \A c \in Command : executions[c] + Begun(c) <= forgot[c] + Known(c)

LEMMA MemoryKept ==
  ASSUME MemoryInv, UNCHANGED <<executions, forgot, journal>>,
         doing' \in {"acknowledge", "executing", "execute"} =>
           current' = current /\ doing \in {"acknowledge", "executing", "execute"}
  PROVE  \A c \in Command : executions'[c] + Begun(c)' <= forgot'[c] + Known(c)'
<1> SUFFICES ASSUME NEW c \in Command
             PROVE  executions'[c] + Begun(c)' <= forgot'[c] + Known(c)'
  OBVIOUS
<1>1. executions'[c] = executions[c] /\ forgot'[c] = forgot[c] /\ Known(c)' = Known(c)
  BY DEF Known, Remembered
<1>2. Begun(c)' = Begun(c) \/ Begun(c)' = 0
  BY DEF Begun
<1>3. executions[c] \in Nat /\ forgot[c] \in Nat /\ Known(c) \in Nat /\ Begun(c) \in Nat
  BY DEF MemoryInv, WorkInv, TypeOK, Known, Begun
<1>4. executions[c] + Begun(c) <= forgot[c] + Known(c)
  BY DEF MemoryInv
<1> QED BY <1>1, <1>2, <1>3, <1>4

LEMMA MemoryTaken ==
  ASSUME MemoryInv, NEW c \in Command, TakeCommand(c)
  PROVE  \A d \in Command : executions'[d] + Begun(d)' <= forgot'[d] + Known(d)'
<1>1. c \notin Remembered /\ MarkCommand(c) /\ current' = c /\ executions' = executions
  BY DEF TakeCommand, CommandSeen
<1>2. journal \in Seq(Command) /\ forgot \in [Command -> Nat] /\ executions \in [Command -> Nat]
  BY DEF MemoryInv, WorkInv, TypeOK
<1> SUFFICES ASSUME NEW d \in Command
             PROVE  executions'[d] + Begun(d)' <= forgot'[d] + Known(d)'
  OBVIOUS
<1>3. d = c => d \in Remembered'
  <2>1. journal' = Append(journal, c) \/ journal' = Append(Tail(journal), c)
    BY <1>1 DEF MarkCommand
  <2>2. ASSUME NEW s \in Seq(Command) PROVE \E i \in DOMAIN Append(s, c) : Append(s, c)[i] = c
    <3>1. Len(s) + 1 \in DOMAIN Append(s, c) /\ Append(s, c)[Len(s) + 1] = c
      OBVIOUS
    <3> QED BY <3>1
  <2>3. CASE journal' = Append(journal, c)
    BY <1>2, <2>2, <2>3 DEF Remembered
  <2>4. CASE journal # << >> /\ journal' = Append(Tail(journal), c)
    <3>1. Tail(journal) \in Seq(Command)
      BY <1>2, <2>4
    <3> QED BY <2>2, <2>4, <3>1 DEF Remembered
  <2>5. journal = << >> => journal' = Append(journal, c)
    BY <1>1, ConstantsAssumption DEF MarkCommand
  <2> QED BY <2>1, <2>3, <2>4, <2>5
<1>4. d \in Remembered => d \in Remembered' \/ forgot'[d] = forgot[d] + 1
  <2> SUFFICES ASSUME d \in Remembered PROVE d \in Remembered' \/ forgot'[d] = forgot[d] + 1
    OBVIOUS
  <2>1. PICK i \in DOMAIN journal : journal[i] = d
    BY DEF Remembered
  <2>2. CASE Len(journal) < JournalSize
    <3>1. journal' = Append(journal, c)
      BY <1>1, <2>2 DEF MarkCommand
    <3>2. i \in DOMAIN journal' /\ journal'[i] = d
      BY <1>2, <2>1, <3>1
    <3> QED BY <3>2 DEF Remembered
  <2>3. CASE ~(Len(journal) < JournalSize)
    <3>1. journal' = Append(Tail(journal), c)
          /\ forgot' = [forgot EXCEPT ![Head(journal)] = forgot[Head(journal)] + 1]
      BY <1>1, <2>3 DEF MarkCommand
    <3>2. i \in 1..Len(journal) /\ Len(journal) \in Nat /\ journal # << >>
      BY <1>2, <2>1
    <3>3. CASE i = 1
      <4>1. d = Head(journal)
        BY <1>2, <2>1, <3>2, <3>3
      <4> QED BY <1>2, <3>1, <4>1
    <3>4. CASE i # 1
      <4>1. i - 1 \in 1..Len(Tail(journal)) /\ Tail(journal)[i - 1] = d
            /\ Tail(journal) \in Seq(Command)
        BY <1>2, <2>1, <3>2, <3>4
      <4>2. i - 1 \in DOMAIN journal' /\ journal'[i - 1] = d
        BY <3>1, <4>1
      <4> QED BY <4>2 DEF Remembered
    <3> QED BY <3>3, <3>4
  <2> QED BY <2>2, <2>3
<1>5. forgot'[d] = forgot[d] \/ forgot'[d] = forgot[d] + 1
  BY <1>1, <1>2 DEF MarkCommand
<1>6. Begun(d)' = 0 \/ d = c
  BY <1>1 DEF Begun
<1>7. /\ executions[d] \in Nat /\ forgot[d] \in Nat /\ Begun(d) \in {0, 1} /\ Begun(d)' \in {0, 1}
      /\ executions[d] + Begun(d) <= forgot[d] + Known(d)
  BY <1>2 DEF Begun, MemoryInv
<1>8. CASE d = c
  <2>1. Known(d) = 0 /\ Known(d)' = 1
    BY <1>1, <1>3, <1>8 DEF Known
  <2> QED BY <1>1, <1>5, <1>7, <2>1
<1>9. CASE d # c
  <2>1. Begun(d)' = 0
    BY <1>6, <1>9
  <2>2. CASE d \in Remembered
    <3>1. Known(d) = 1 /\ Known(d)' \in {0, 1}
      BY <2>2 DEF Known
    <3>2. Known(d)' = 1 \/ forgot'[d] = forgot[d] + 1
      BY <1>4, <2>2 DEF Known
    <3> QED BY <1>1, <1>5, <1>7, <2>1, <3>1, <3>2
  <2>3. CASE d \notin Remembered
    <3>1. Known(d) = 0 /\ Known(d)' \in {0, 1}
      BY <2>3 DEF Known
    <3> QED BY <1>1, <1>5, <1>7, <2>1, <3>1
  <2> QED BY <2>2, <2>3
<1> QED BY <1>8, <1>9

LEMMA MemoryStep == MemoryInv /\ [Next]_vars => MemoryInv'
<1> SUFFICES ASSUME MemoryInv, [Next]_vars PROVE MemoryInv'
  OBVIOUS
<1>1. WorkInv /\ WorkInv'
  BY WorkStep DEF MemoryInv
<1> SUFFICES \A c \in Command : executions'[c] + Begun(c)' <= forgot'[c] + Known(c)'
  BY <1>1 DEF MemoryInv
<1>2. CASE UNCHANGED <<executions, forgot, journal, doing, current>>
  BY <1>2, MemoryKept
<1>3. CASE SkipRegister \/ RegisterRobot \/ SendHeartbeat \/ PollCommands \/ EndPoll
  <2>1. UNCHANGED <<executions, forgot, journal>>
    BY <1>3 DEF SkipRegister, RegisterRobot, SendHeartbeat, PollCommands, EndPoll, history
  <2>2. doing' \notin {"acknowledge", "executing", "execute"}
    BY <1>3 DEF SkipRegister, RegisterRobot, SendHeartbeat, PollCommands, EndPoll
  <2> QED BY <2>1, <2>2, MemoryKept
<1>4. ASSUME NEW c \in Command, TakeCommand(c) \/ SkipSeen(c)
      PROVE  \A d \in Command : executions'[d] + Begun(d)' <= forgot'[d] + Known(d)'
  <2>1. CASE TakeCommand(c)
    BY <2>1, MemoryTaken
  <2>2. CASE SkipSeen(c)
    BY <1>2, <2>2 DEF SkipSeen, history
  <2> QED BY <1>4, <2>1, <2>2
<1>5. CASE PostStep
  BY <1>5, PostMoves, MemoryKept DEF Posting
<1>6. CASE Execute
  <2>1. doing = "execute" /\ doing' = "result" /\ UNCHANGED <<current, journal, forgot>>
        /\ executions' = [executions EXCEPT ![current] = executions[current] + 1]
    BY <1>6 DEF Execute
  <2> SUFFICES ASSUME NEW c \in Command
               PROVE  executions'[c] + Begun(c)' <= forgot'[c] + Known(c)'
    OBVIOUS
  <2>2. executions \in [Command -> Nat] /\ forgot[c] \in Nat /\ Known(c) \in {0, 1} /\ current \in Command
    BY <1>1, <2>1 DEF WorkInv, TypeOK, Working, Known
  <2>3. forgot'[c] = forgot[c] /\ Known(c)' = Known(c) /\ Begun(c)' = 0
    BY <2>1 DEF Known, Remembered, Begun
  <2>4. Begun(c) = (IF c = current THEN 1 ELSE 0)
    BY <2>1 DEF Begun
  <2>5. executions'[c] = IF c = current THEN executions[c] + 1 ELSE executions[c]
    BY <2>1, <2>2
  <2>6. executions[c] + Begun(c) <= forgot[c] + Known(c)
    BY DEF MemoryInv
  <2> QED BY <2>2, <2>3, <2>4, <2>5, <2>6
<1>7. ASSUME NEW r \in Run, RunStep(r) PROVE UNCHANGED <<executions, forgot, journal, doing, current>>
  BY <1>1, <1>7, RunMoves DEF WorkInv
<1>8. CASE Restart
  <2> SUFFICES ASSUME NEW c \in Command
               PROVE  executions'[c] + Begun(c)' <= forgot'[c] + Known(c)'
    OBVIOUS
  <2>1. executions'[c] = executions[c] /\ journal' = << >> /\ doing' = "register"
        /\ forgot'[c] = IF c \in Remembered THEN forgot[c] + 1 ELSE forgot[c]
    BY <1>8 DEF Restart
  <2>2. Begun(c)' = 0 /\ Known(c)' = 0
    BY <2>1 DEF Begun, Known, Remembered
  <2>3. forgot'[c] = forgot[c] + Known(c)
    BY <1>1, <2>1 DEF Known, WorkInv, TypeOK
  <2>4. executions[c] \in Nat /\ forgot[c] \in Nat /\ Known(c) \in {0, 1} /\ Begun(c) \in {0, 1}
        /\ executions[c] + Begun(c) <= forgot[c] + Known(c)
    BY <1>1 DEF MemoryInv, WorkInv, TypeOK, Known, Begun
  <2> QED BY <2>1, <2>2, <2>3, <2>4
<1>9. ASSUME NEW r \in late, LateArrives(r) \/ LateCommits(r)
      PROVE  UNCHANGED <<executions, forgot, journal, doing, current>>
  BY <1>1, <1>9, LateMoves DEF WorkInv
<1> QED
  BY <1>2, <1>3, <1>4, <1>5, <1>6, <1>7, <1>8, <1>9
     DEF Next, OnTimer, Create, PassExpiry, MarkOffline, OtherRegisters, Outside,
         Signal, vars, work, history

(* For any journal size, retry count and number of faults: no command is    *)
(* executed again unless the journal lost its id.                           *)
THEOREM ExecutedOnceWhileRemembered == Spec => []ExecutedOncePerMemory
<1>1. Init => MemoryInv
  <2> SUFFICES ASSUME Init, NEW c \in Command
               PROVE  executions[c] + Begun(c) <= forgot[c] + Known(c)
    BY WorkInit DEF MemoryInv
  <2>1. executions[c] = 0 /\ forgot[c] = 0 /\ Begun(c) = 0 /\ Known(c) = 0
    BY DEF Init, Begun, Known, Remembered
  <2> QED BY <2>1
<1>2. MemoryInv => ExecutedOncePerMemory
  <2> SUFFICES ASSUME MemoryInv, NEW c \in Command PROVE executions[c] <= 1 + forgot[c]
    BY DEF ExecutedOncePerMemory
  <2>1. executions[c] \in Nat /\ forgot[c] \in Nat /\ Known(c) \in {0, 1} /\ Begun(c) \in {0, 1}
        /\ executions[c] + Begun(c) <= forgot[c] + Known(c)
    BY DEF MemoryInv, WorkInv, TypeOK, Known, Begun
  <2> QED BY <2>1
<1> QED BY <1>1, <1>2, MemoryStep, PTL DEF Spec

-----------------------------------------------------------------------------
(* An executed command leaves a row of its outcome. *)

(* A finished row was recorded, only a due one expires, and what the EA     *)
(* holds is there: so a result is refused for a reason that shows.          *)
RecordInv ==
  /\ WorkInv
  /\ \A c \in Command : c \in batch \/ c = current => status[c] # "ABSENT"
  /\ \A c \in Command : status[c] = "FINISHED" => c \in recorded
  /\ \A c \in Command : status[c] = "EXPIRED" => c \in due
  /\ \A r \in Run : running[r].job = "expire" => running[r].held \subseteq due
  /\ \A c \in Command :
       executions[c] > 0 /\ ~(c = current /\ doing = "result") =>
         c \in recorded \cup unreported \cup due

(* Nothing is taken back, and the EA lets go of a result that shows.        *)
LEMMA RecordKept ==
  ASSUME RecordInv, WorkInv', executions' = executions,
         recorded \subseteq recorded', unreported \subseteq unreported', due \subseteq due',
         \A c \in Command : c \in batch' \/ c = current' =>
           c \in batch \/ c = current \/ status'[c] # "ABSENT",
         \A c \in Command : status'[c] # status[c] =>
           \/ status'[c] \in {"QUEUED", "DELIVERED", "ACKNOWLEDGED", "EXECUTING"}
           \/ status'[c] = "FINISHED" /\ c \in recorded'
           \/ status'[c] = "EXPIRED" /\ c \in due,
         \A r \in Run : running'[r].job = "expire" =>
           running'[r] = running[r] \/ running'[r].held \subseteq due,
         \A c \in Command : c = current /\ doing = "result" =>
           \/ current' = current /\ doing' = "result"
           \/ c \in recorded' \cup unreported' \cup due'
  PROVE  RecordInv'
<1>1. \A c \in Command : c \in batch' \/ c = current' => status'[c] # "ABSENT"
  BY DEF RecordInv
<1>2. \A c \in Command : status'[c] = "FINISHED" => c \in recorded'
  BY DEF RecordInv
<1>3. \A c \in Command : status'[c] = "EXPIRED" => c \in due'
  BY DEF RecordInv
<1>4. \A r \in Run : running'[r].job = "expire" => running'[r].held \subseteq due'
  BY DEF RecordInv
<1>5. ASSUME NEW c \in Command, executions'[c] > 0, ~(c = current' /\ doing' = "result")
      PROVE  c \in recorded' \cup unreported' \cup due'
  BY <1>5 DEF RecordInv
<1> QED BY <1>1, <1>2, <1>3, <1>4, <1>5 DEF RecordInv

LEMMA RecordPosted ==
  ASSUME RecordInv, WorkInv', PostStep
  PROVE  RecordInv'
<1>1. WorkInv /\ TypeOK
  BY DEF RecordInv, WorkInv
<1>2. /\ UNCHANGED <<executions, due, running, batch>> /\ doing \in Posting
      /\ current' = current \/ current' = Nobody
      /\ CommitPost(CurrentPost) \/ UNCHANGED <<status, recorded>>
  BY PostMoves
<1>3. /\ CurrentPost \in Post /\ CurrentPost.command = current /\ CurrentPost.kind = doing
      /\ current \in Command
  BY <1>1, <1>2, CurrentPostType DEF WorkInv, Working, Posting
<1>4. unreported \subseteq unreported'
  BY DEF PostStep, PostAccepted, PostRefused, PostCommitted, PostGivenUp, Unanswered, history
<1>5. recorded \subseteq recorded'
  BY <1>1, <1>2, <1>3, CommitPostType
<1>6. \A c \in Command : status'[c] # status[c] =>
        \/ status'[c] \in {"ACKNOWLEDGED", "EXECUTING"}
        \/ status'[c] = "FINISHED" /\ c \in recorded'
  BY <1>1, <1>2, <1>3, CommitPostType
<1>7. doing = "result" =>
        \/ current' = current /\ doing' = "result"
        \/ current \in recorded' \cup unreported' \cup due'
  <2> SUFFICES ASSUME doing = "result"
               PROVE  \/ current' = current /\ doing' = "result"
                      \/ current \in recorded' \cup unreported' \cup due'
    OBVIOUS
  <2>1. CASE PostAccepted
    BY <2>1 DEF PostAccepted
  <2>2. CASE PostRefused
    <3>1. CASE ~Accepts(token)
      BY <2>2, <3>1 DEF PostRefused
    <3>2. CASE Accepts(token)
      <4>1. status[current] \notin Reportable
        BY <2>2, <3>2 DEF PostRefused, PassesChecks, CurrentPost
      <4>2. status[current] \in {"ABSENT", "FINISHED", "EXPIRED"}
        BY <1>1, <1>3, <4>1 DEF TypeOK, Status, Reportable
      <4>3. current \in recorded \/ current \in due
        BY <1>3, <4>2 DEF RecordInv
      <4> QED BY <1>2, <1>5, <4>3
    <3> QED BY <3>1, <3>2
  <2>3. CASE PostCommitted
    BY <1>1, <1>3, <2>3, CommitPostType DEF PostCommitted
  <2>4. CASE PostGivenUp
    BY <2>4 DEF PostGivenUp, Unanswered
  <2> QED BY <2>1, <2>2, <2>3, <2>4 DEF PostStep
<1>8. \A c \in Command : c \in batch' \/ c = current' => c \in batch \/ c = current
  BY <1>2, ConstantsAssumption
<1> QED BY <1>2, <1>4, <1>5, <1>6, <1>7, <1>8, RecordKept

LEMMA RecordStep == RecordInv /\ [Next]_vars => RecordInv'
<1> SUFFICES ASSUME RecordInv, [Next]_vars PROVE RecordInv'
  OBVIOUS
<1>1. WorkInv /\ WorkInv' /\ TypeOK
  BY WorkStep DEF RecordInv, WorkInv
<1>2. CASE UNCHANGED <<status, due, recorded, running, executions, unreported, doing, batch, current>>
  BY <1>1, <1>2, RecordKept
<1>3. ASSUME NEW c \in Command, Create(c) \/ PassExpiry(c) PROVE RecordInv'
  <2>1. UNCHANGED <<recorded, running, executions, unreported, doing, batch, current>>
        /\ due \subseteq due'
    BY <1>3 DEF Create, PassExpiry, Outside, work, history
  <2>2. \A d \in Command : status'[d] # status[d] => status'[d] = "QUEUED"
    BY <1>1, <1>3 DEF Create, PassExpiry, TypeOK
  <2> QED BY <1>1, <2>1, <2>2, RecordKept
<1>4. ASSUME NEW r \in Run, RunStep(r) PROVE RecordInv'
  <2>1. UNCHANGED <<recorded, due, executions, unreported, doing, batch, current>>
    BY <1>1, <1>4, RunMoves
  <2>2. \A q \in Run : running'[q].job = "expire" =>
          running'[q] = running[q] \/ running'[q].held \subseteq due
    BY <1>1, <1>4, RunMoves DEF Stale
  <2>3. \A d \in Command : status'[d] # status[d] =>
          status'[d] = "QUEUED" \/ (status'[d] = "EXPIRED" /\ d \in due)
    <3>1. running[r].job = "expire" => running[r].held \subseteq due
      BY DEF RecordInv
    <3> QED BY <1>1, <1>4, <3>1, RunMoves DEF SetStatus
  <2> QED BY <1>1, <2>1, <2>2, <2>3, RecordKept
<1>5. ASSUME NEW r \in late, LateArrives(r) \/ LateCommits(r) PROVE RecordInv'
  <2>1. UNCHANGED <<due, running, executions, unreported, doing, batch, current>>
        /\ recorded \subseteq recorded'
    BY <1>1, <1>5, LateMoves
  <2>2. \A d \in Command : status'[d] # status[d] =>
          \/ status'[d] \in {"DELIVERED", "ACKNOWLEDGED", "EXECUTING"}
          \/ status'[d] = "FINISHED" /\ d \in recorded'
    BY <1>1, <1>5, LateMoves
  <2> QED BY <1>1, <2>1, <2>2, RecordKept
<1>6. CASE PollCommands
  <2>1. UNCHANGED <<due, recorded, running, executions, unreported, current>> /\ doing # "result"
    BY <1>6 DEF PollCommands, history
  <2>2. \A d \in Command : status'[d] # status[d] => status'[d] = "DELIVERED"
    BY <1>1, <1>6, DeliverType DEF PollCommands
  <2>3. \A d \in Command : d \in batch' => d \in batch \/ status'[d] # "ABSENT"
    BY <1>6 DEF PollCommands, DeliverTo, SetStatus
  <2> QED BY <1>1, <2>1, <2>2, <2>3, RecordKept
<1>7. CASE PostStep
  BY <1>1, <1>7, RecordPosted
<1>8. CASE Execute
  <2>1. doing = "execute" /\ doing' = "result"
        /\ UNCHANGED <<current, batch, status, due, recorded, running, unreported>>
        /\ executions' = [executions EXCEPT ![current] = executions[current] + 1]
    BY <1>8 DEF Execute, rows
  <2>2. \A c \in Command : c # current => executions'[c] = executions[c]
    BY <1>1, <2>1 DEF TypeOK
  <2> QED BY <1>1, <2>1, <2>2 DEF RecordInv
<1>9. CASE Restart
  <2>1. UNCHANGED <<executions, status, due, recorded, running>> /\ batch' = {}
        /\ current' \notin Command
    BY <1>9, ConstantsAssumption DEF Restart, rows
  <2>2. /\ unreported \subseteq unreported'
        /\ doing = "result" => current \in unreported'
    BY <1>9 DEF Restart, Unanswered, Posting
  <2> QED BY <1>1, <2>1, <2>2, RecordKept
<1>10. CASE SkipRegister \/ RegisterRobot \/ SendHeartbeat \/ EndPoll
  <2>1. UNCHANGED <<executions, unreported, status, due, recorded, running, batch, current>>
        /\ doing # "result"
    BY <1>10 DEF SkipRegister, RegisterRobot, SendHeartbeat, EndPoll, history, rows
  <2> QED BY <1>1, <2>1, RecordKept
<1>11. ASSUME NEW c \in Command, SkipSeen(c) \/ TakeCommand(c) PROVE RecordInv'
  <2>1. UNCHANGED <<executions, unreported, status, due, recorded, running>> /\ doing # "result"
        /\ \A d \in Command : d \in batch' \/ d = current' => d \in batch \/ d = current
    BY <1>11 DEF SkipSeen, TakeCommand, history, rows
  <2> QED BY <1>1, <2>1, RecordKept
<1> QED
  BY <1>2, <1>3, <1>4, <1>5, <1>6, <1>7, <1>8, <1>9, <1>10, <1>11
     DEF Next, OnTimer, MarkOffline, OtherRegisters, Outside, Signal, vars, work, history, rows

(* Whatever is lost, late, requeued or overwritten: an executed command has *)
(* a row of its outcome unless its result did not come through or it was    *)
(* due.                                                                     *)
THEOREM ExecutedIsRecorded == Spec => []EveryOutcomeRecorded
<1>1. Init => RecordInv
  <2> SUFFICES ASSUME Init PROVE RecordInv
    OBVIOUS
  <2>1. WorkInv
    BY WorkInit
  <2>2. batch = {} /\ current = Nobody /\ \A r \in Run : running[r].job = "idle"
    BY DEF Init, NoRun
  <2> QED BY <2>1, <2>2, ConstantsAssumption DEF RecordInv, Init
<1>2. RecordInv => EveryOutcomeRecorded
  BY DEF RecordInv, EveryOutcomeRecorded
<1> QED BY <1>1, <1>2, RecordStep, PTL DEF Spec

-----------------------------------------------------------------------------
(* A command is executed once, and once more per requeue. *)

Before == {"acknowledge", "executing", "execute"}

(* The EA holds c and has not executed it. *)
Ahead(c) == IF c \in batch \/ (c = current /\ doing \in Before) THEN 1 ELSE 0

(* A poll may still take c. *)
Waiting(c) == IF status[c] \in {"ABSENT", "QUEUED"} THEN 1 ELSE 0

(* A delivery turns a waiting row into one the EA holds, an execution uses  *)
(* that up, and only a requeue makes the row wait again.                    *)
BudgetInv ==
  /\ WorkInv
  /\ doing \in {"register", "heartbeat", "poll"} => batch = {}
  /\ current \notin batch
  /\ \A c \in Command : executions[c] + Ahead(c) + Waiting(c) <= retries[c] + 1

LEMMA BudgetTypes ==
  ASSUME WorkInv, NEW c \in Command
  PROVE  /\ executions[c] \in Nat /\ retries[c] \in Nat
         /\ Ahead(c) \in {0, 1} /\ Waiting(c) \in {0, 1}
BY ConstantsAssumption DEF WorkInv, TypeOK, Ahead, Waiting

LEMMA BudgetKept ==
  ASSUME BudgetInv, WorkInv', UNCHANGED <<executions, retries>>,
         doing' \in {"register", "heartbeat", "poll"} => batch' = {},
         current' \notin batch',
         \A c \in Command : Ahead(c)' <= Ahead(c) /\ Waiting(c)' <= Waiting(c)
  PROVE  BudgetInv'
<1> SUFFICES ASSUME NEW c \in Command
             PROVE  executions'[c] + Ahead(c)' + Waiting(c)' <= retries'[c] + 1
  BY DEF BudgetInv
<1>1. Ahead(c)' \in {0, 1} /\ Waiting(c)' \in {0, 1}
  BY DEF Ahead, Waiting
<1>2. WorkInv
  BY DEF BudgetInv
<1>3. executions[c] + Ahead(c) + Waiting(c) <= retries[c] + 1
  BY DEF BudgetInv
<1> QED BY <1>1, <1>2, <1>3, BudgetTypes

LEMMA BudgetStep == BudgetInv /\ [Next]_vars => BudgetInv'
<1> SUFFICES ASSUME BudgetInv, [Next]_vars PROVE BudgetInv'
  OBVIOUS
<1>1. WorkInv /\ WorkInv' /\ TypeOK
  BY WorkStep DEF BudgetInv, WorkInv
<1> DEFINE Ordered == /\ doing' \in {"register", "heartbeat", "poll"} => batch' = {}
                      /\ current' \notin batch'
           NoMoreWait == \A c \in Command : Waiting(c)' <= Waiting(c)
<1>2. UNCHANGED status => NoMoreWait
  BY DEF Waiting
<1>3. (\A c \in Command : status'[c] # status[c] => status'[c] \notin {"ABSENT", "QUEUED"})
        => NoMoreWait
  BY DEF Waiting
<1>4. ASSUME UNCHANGED <<executions, retries, doing, batch, current>>, NoMoreWait PROVE BudgetInv'
  <2>1. Ordered /\ \A c \in Command : Ahead(c)' <= Ahead(c)
    BY <1>4 DEF BudgetInv, Ahead
  <2> QED BY <1>1, <1>4, <2>1, BudgetKept
<1> HIDE DEF NoMoreWait
<1>5. ASSUME NEW c \in Command, Create(c) \/ PassExpiry(c) PROVE BudgetInv'
  <2>1. UNCHANGED <<executions, retries, doing, batch, current>>
    BY <1>5 DEF Create, PassExpiry, Outside, work, history
  <2>2. NoMoreWait
    BY <1>1, <1>5 DEF Create, PassExpiry, TypeOK, NoMoreWait, Waiting
  <2> QED BY <1>4, <2>1, <2>2
<1>6. ASSUME NEW r \in Run, RunStep(r) PROVE BudgetInv'
  <2>1. UNCHANGED <<executions, doing, batch, current>>
    BY <1>1, <1>6, RunMoves
  <2>2. CASE UNCHANGED retries /\ (UNCHANGED status \/ SetStatus(running[r].held, "EXPIRED"))
    <3>1. NoMoreWait
      BY <1>2, <1>3, <2>2 DEF SetStatus
    <3> QED BY <1>4, <2>1, <2>2, <3>1
  <2>3. CASE /\ SetStatus(running[r].held, "QUEUED")
             /\ retries' = [c \in Command |->
                              IF c \in running[r].held THEN retries[c] + 1 ELSE retries[c]]
    <3> SUFFICES ASSUME NEW d \in Command
                 PROVE  executions'[d] + Ahead(d)' + Waiting(d)' <= retries'[d] + 1
      BY <1>1, <2>1 DEF BudgetInv
    <3>1. Ahead(d)' = Ahead(d) /\ executions'[d] = executions[d]
      BY <2>1 DEF Ahead
    <3>2. d \notin running[r].held => Waiting(d)' = Waiting(d) /\ retries'[d] = retries[d]
      BY <2>3 DEF SetStatus, Waiting
    <3>3. d \in running[r].held => Waiting(d)' = 1 /\ retries'[d] = retries[d] + 1
      BY <2>3 DEF SetStatus, Waiting
    <3>4. executions[d] + Ahead(d) + Waiting(d) <= retries[d] + 1
      BY DEF BudgetInv
    <3> QED BY <1>1, <3>1, <3>2, <3>3, <3>4, BudgetTypes
  <2> QED BY <1>1, <1>6, <2>2, <2>3, RunMoves
<1>7. ASSUME NEW r \in late, LateArrives(r) \/ LateCommits(r) PROVE BudgetInv'
  <2>1. UNCHANGED <<executions, retries, doing, batch, current>>
    BY <1>1, <1>7, LateMoves
  <2>2. NoMoreWait
    BY <1>1, <1>3, <1>7, LateMoves
  <2> QED BY <1>4, <2>1, <2>2
<1>8. CASE PollCommands
  <2>1. doing = "poll" /\ batch = {} /\ current \notin Command /\ UNCHANGED <<executions, retries, current>>
    BY <1>1, <1>8 DEF PollCommands, BudgetInv, WorkInv, Working, history
  <2>2. \A c \in Command : Ahead(c) = 0
    BY <2>1 DEF Ahead
  <2>3. CASE /\ \E commands \in SUBSET Deliverable : DeliverTo(commands) /\ batch' = commands
             /\ doing' = "next"
    <3>1. PICK commands \in SUBSET Deliverable : DeliverTo(commands) /\ batch' = commands
      BY <2>3
    <3>2. Ordered
      BY <2>1, <2>3, <3>1 DEF Deliverable
    <3> SUFFICES ASSUME NEW c \in Command
                 PROVE  executions'[c] + Ahead(c)' + Waiting(c)' <= retries'[c] + 1
      BY <1>1, <3>2 DEF BudgetInv
    <3>3. c \in commands => Waiting(c) = 1 /\ Waiting(c)' = 0 /\ Ahead(c)' = 1
      BY <3>1 DEF Deliverable, DeliverTo, SetStatus, Waiting, Ahead
    <3>4. c \notin commands => Waiting(c)' = Waiting(c) /\ Ahead(c)' = 0
      BY <2>3, <3>1 DEF DeliverTo, SetStatus, Waiting, Ahead, Before
    <3>5. executions[c] + Ahead(c) + Waiting(c) <= retries[c] + 1
      BY DEF BudgetInv
    <3> QED BY <1>1, <2>1, <2>2, <3>3, <3>4, <3>5, BudgetTypes
  <2>4. CASE /\ UNCHANGED status \/ \E commands \in SUBSET Deliverable : DeliverTo(commands)
             /\ UNCHANGED batch /\ doing' = "register"
    <3>1. NoMoreWait
      BY <1>1, <1>2, <1>3, <2>4, DeliverType
    <3>2. Ordered /\ \A c \in Command : Ahead(c)' <= Ahead(c)
      BY <2>1, <2>2, <2>4 DEF Ahead, Before
    <3> QED BY <1>1, <2>1, <3>1, <3>2, BudgetKept DEF NoMoreWait
  <2> QED BY <1>8, <2>3, <2>4 DEF PollCommands
<1>9. ASSUME NEW c \in Command, SkipSeen(c) \/ TakeCommand(c) PROVE BudgetInv'
  <2>1. UNCHANGED <<executions, retries, status>> /\ c \in batch /\ batch' = batch \ {c} /\ doing = "next"
    BY <1>9 DEF SkipSeen, TakeCommand, history, rows
  <2>2. \/ doing' = "next" /\ current' = current
        \/ doing' = "acknowledge" /\ current' = c
    BY <1>9, <2>1 DEF SkipSeen, TakeCommand
  <2>3. Ordered /\ \A d \in Command : Ahead(d)' <= Ahead(d)
    BY <2>1, <2>2 DEF BudgetInv, Ahead, Before
  <2> QED BY <1>1, <1>2, <2>1, <2>3, BudgetKept DEF NoMoreWait
<1>10. CASE PostStep
  <2>1. UNCHANGED <<executions, retries, batch>>
    BY <1>10, PostMoves
  <2>2. NoMoreWait
    <3>1. CurrentPost \in Post
      BY <1>1, <1>10, PostMoves, CurrentPostType
    <3>2. CommitPost(CurrentPost) => NoMoreWait
      BY <1>1, <1>3, <3>1, CommitPostType
    <3> QED BY <1>2, <1>10, <3>2, PostMoves
  <2>3. /\ doing' \notin {"register", "heartbeat", "poll"}
        /\ current' = current \/ current' = Nobody
        /\ doing' \in Before => doing \in Before /\ current' = current
    BY <1>10, PostMoves DEF Before, Posting
  <2>4. Nobody \notin batch /\ current \notin batch
    BY <1>1, ConstantsAssumption DEF BudgetInv, TypeOK, Batch
  <2>5. Ordered
    BY <2>1, <2>3, <2>4
  <2>6. \A d \in Command : Ahead(d)' <= Ahead(d)
    BY <2>1, <2>3 DEF Ahead
  <2> QED BY <1>1, <2>1, <2>2, <2>5, <2>6, BudgetKept DEF NoMoreWait
<1>11. CASE Execute
  <2>1. doing = "execute" /\ doing' = "result" /\ UNCHANGED <<current, batch, status, retries>>
        /\ executions' = [executions EXCEPT ![current] = executions[current] + 1] /\ current \in Command
    BY <1>1, <1>11 DEF Execute, rows, WorkInv, Working
  <2> SUFFICES ASSUME NEW c \in Command
               PROVE  executions'[c] + Ahead(c)' + Waiting(c)' <= retries'[c] + 1
    BY <1>1, <2>1 DEF BudgetInv
  <2>2. Waiting(c)' = Waiting(c) /\ retries'[c] = retries[c]
    BY <2>1 DEF Waiting
  <2>3. c # current => executions'[c] = executions[c] /\ Ahead(c)' = Ahead(c)
    BY <1>1, <2>1 DEF TypeOK, Ahead
  <2>4. c = current => executions'[c] = executions[c] + 1 /\ Ahead(c) = 1 /\ Ahead(c)' = 0
    BY <1>1, <2>1 DEF TypeOK, Ahead, Before, BudgetInv
  <2>5. executions[c] + Ahead(c) + Waiting(c) <= retries[c] + 1
    BY DEF BudgetInv
  <2> QED BY <1>1, <2>2, <2>3, <2>4, <2>5, BudgetTypes
<1>13. CASE Restart
  <2>1. UNCHANGED <<executions, retries, status>> /\ batch' = {} /\ doing' = "register"
    BY <1>13 DEF Restart, rows
  <2>2. Ordered /\ \A c \in Command : Ahead(c)' <= Ahead(c)
    BY <2>1 DEF Ahead, Before
  <2> QED BY <1>1, <1>2, <2>1, <2>2, BudgetKept DEF NoMoreWait
<1>14. CASE SkipRegister \/ RegisterRobot \/ SendHeartbeat \/ EndPoll
  <2>1. UNCHANGED <<executions, retries, status, batch, current>> /\ batch = {} /\ doing' \notin Before
    BY <1>14
       DEF SkipRegister, RegisterRobot, SendHeartbeat, EndPoll, history, rows, BudgetInv, Before
  <2>2. Ordered /\ \A c \in Command : Ahead(c)' <= Ahead(c)
    BY <2>1 DEF Ahead
  <2> QED BY <1>1, <1>2, <2>1, <2>2, BudgetKept DEF NoMoreWait
<1>15. CASE MarkOffline \/ OtherRegisters \/ Signal \/ UNCHANGED vars
  BY <1>2, <1>4, <1>15
     DEF MarkOffline, OtherRegisters, Signal, Outside, vars, work, history, rows
<1> QED
  BY <1>5, <1>6, <1>7, <1>8, <1>9, <1>10, <1>11, <1>13, <1>14, <1>15
     DEF Next, OnTimer

(* However often the terminal restarts or forgets, and whatever is lost or  *)
(* late: it executes a command no more often than it was queued.            *)
THEOREM ExecutionsBounded == Spec => []ExecutedOncePerRequeue
<1>1. Init => BudgetInv
  <2> SUFFICES ASSUME Init PROVE BudgetInv
    OBVIOUS
  <2>1. WorkInv /\ batch = {}
    BY WorkInit DEF Init
  <2>2. ASSUME NEW c \in Command PROVE executions[c] + Ahead(c) + Waiting(c) <= retries[c] + 1
    BY DEF Init, Ahead, Waiting, Before
  <2> QED BY <2>1, <2>2 DEF BudgetInv
<1>2. BudgetInv => ExecutedOncePerRequeue
  <2> SUFFICES ASSUME BudgetInv, NEW c \in Command PROVE executions[c] <= retries[c] + 1
    BY DEF ExecutedOncePerRequeue
  <2>1. WorkInv /\ executions[c] + Ahead(c) + Waiting(c) <= retries[c] + 1
    BY DEF BudgetInv
  <2> QED BY <2>1, BudgetTypes
<1> QED BY <1>1, <1>2, BudgetStep, PTL DEF Spec

-----------------------------------------------------------------------------
(* Without a restart only an overflow of the journal forgets. *)

Elements(s) == {s[i] : i \in DOMAIN s}

Distinct(s) == \A i, j \in DOMAIN s : s[i] = s[j] => i = j

LEMMA AppendDistinct ==
  ASSUME NEW S, NEW s \in Seq(S), NEW x \in S, Distinct(s), x \notin Elements(s)
  PROVE  /\ Distinct(Append(s, x))
         /\ Elements(Append(s, x)) = Elements(s) \cup {x}
<1>1. Len(s) \in Nat /\ DOMAIN s = 1..Len(s) /\ DOMAIN Append(s, x) = 1..(Len(s) + 1)
  OBVIOUS
<1>2. /\ \A i \in DOMAIN s : Append(s, x)[i] = s[i]
      /\ Append(s, x)[Len(s) + 1] = x
  OBVIOUS
<1>3. \A i \in DOMAIN Append(s, x) : i \in DOMAIN s \/ i = Len(s) + 1
  BY <1>1
<1>4. Distinct(Append(s, x))
  BY <1>2, <1>3 DEF Distinct, Elements
<1>5. Elements(Append(s, x)) \subseteq Elements(s) \cup {x}
  BY <1>2, <1>3 DEF Elements
<1>6. Elements(s) \cup {x} \subseteq Elements(Append(s, x))
  BY <1>1, <1>2 DEF Elements
<1> QED BY <1>4, <1>5, <1>6

LEMMA TailDistinct ==
  ASSUME NEW S, NEW s \in Seq(S), s # << >>, Distinct(s)
  PROVE  /\ Tail(s) \in Seq(S) /\ Distinct(Tail(s))
         /\ Elements(Tail(s)) = Elements(s) \ {Head(s)} /\ Head(s) \in Elements(s)
<1>1. Len(s) \in Nat \ {0} /\ DOMAIN s = 1..Len(s) /\ DOMAIN Tail(s) = 1..(Len(s) - 1)
      /\ Tail(s) \in Seq(S) /\ Head(s) = s[1]
  OBVIOUS
<1>2. \A i \in DOMAIN Tail(s) : i + 1 \in DOMAIN s /\ i + 1 # 1 /\ Tail(s)[i] = s[i + 1]
  BY <1>1
<1>3. \A i \in DOMAIN s : i # 1 => i - 1 \in DOMAIN Tail(s) /\ Tail(s)[i - 1] = s[i]
  BY <1>1
<1>4. Distinct(Tail(s))
  <2> SUFFICES ASSUME NEW i \in DOMAIN Tail(s), NEW j \in DOMAIN Tail(s), Tail(s)[i] = Tail(s)[j]
               PROVE  i = j
    BY DEF Distinct
  <2>1. i + 1 = j + 1
    BY <1>2 DEF Distinct
  <2> QED BY <1>1, <2>1
<1>5. 1 \in DOMAIN s
  BY <1>1
<1>6. Elements(Tail(s)) \subseteq Elements(s) \ {Head(s)}
  BY <1>1, <1>2, <1>5 DEF Elements, Distinct
<1>7. Elements(s) \ {Head(s)} \subseteq Elements(Tail(s))
  BY <1>1, <1>3 DEF Elements
<1> QED BY <1>1, <1>4, <1>5, <1>6, <1>7 DEF Elements

(* A command that was forgotten more often than the terminal restarted was  *)
(* the oldest of a full journal when the command the EA is about to execute *)
(* was marked.                                                              *)
PushedOut(c) ==
  /\ doing \in Before /\ current \notin Executed
  /\ Cardinality(Executed) >= JournalSize
  /\ c \notin Remembered
  /\ forgot[c] <= restarts + 1

JournalInv ==
  /\ MemoryInv
  /\ Distinct(journal)
  /\ \A c \in Remembered : c \in Executed \/ (c = current /\ doing \in Before)
  /\ doing \in Before => current \in Remembered
  /\ IsFiniteSet(Executed)
  /\ Cardinality(Executed) <= JournalSize =>
       \A c \in Command : forgot[c] <= restarts \/ PushedOut(c)

(* Between two executions each id in the journal is that of an executed     *)
(* command: the executed commands are no fewer than the ids.                *)
LEMMA JournalFits ==
  ASSUME JournalInv, doing \notin Before
  PROVE  /\ Len(journal) <= Cardinality(Executed)
         /\ Cardinality(Executed) = Len(journal) => Executed \subseteq Remembered
<1>1. journal \in Seq(Command) /\ Len(journal) \in Nat /\ DOMAIN journal = 1..Len(journal)
  BY DEF JournalInv, MemoryInv, WorkInv, TypeOK
<1>2. Remembered \subseteq Executed
  BY DEF JournalInv
<1>3. journal \in [1..Len(journal) -> Executed]
  BY <1>1, <1>2 DEF Remembered
<1>4. journal \in Injection(1..Len(journal), Executed)
  BY <1>1, <1>3 DEF JournalInv, Distinct, Injection, IsInjective
<1>5. Cardinality(1..Len(journal)) = Len(journal)
  BY <1>1, FS_Interval
<1>6. IsFiniteSet(Executed)
  BY DEF JournalInv
<1>7. /\ Cardinality(1..Len(journal)) <= Cardinality(Executed)
      /\ Cardinality(1..Len(journal)) = Cardinality(Executed)
           <=> journal \in Surjection(1..Len(journal), Executed)
  BY <1>4, <1>6, FS_Injection
<1>8. journal \in Surjection(1..Len(journal), Executed) => Executed \subseteq Remembered
  BY <1>1 DEF Surjection, Remembered
<1> QED BY <1>5, <1>7, <1>8

LEMMA JournalKept ==
  ASSUME JournalInv, MemoryInv', UNCHANGED <<executions, forgot, restarts, journal>>,
         \/ doing \in Before /\ doing' \in Before /\ current' = current
         \/ doing \notin Before /\ doing' \notin Before
  PROVE  JournalInv'
<1>1. Executed' = Executed /\ Remembered' = Remembered
  BY DEF Executed, Remembered
<1>2. \A c \in Command : PushedOut(c) => PushedOut(c)'
  BY <1>1 DEF PushedOut
<1> QED BY <1>1, <1>2 DEF JournalInv, Distinct

LEMMA JournalTaken ==
  ASSUME JournalInv, MemoryInv', NEW c \in Command, TakeCommand(c)
  PROVE  JournalInv'
<1>1. /\ doing = "next" /\ doing' \in Before /\ c \notin Remembered /\ MarkCommand(c)
      /\ current' = c /\ UNCHANGED <<executions, restarts>>
  BY DEF TakeCommand, CommandSeen, Before
<1>2. journal \in Seq(Command) /\ Len(journal) \in Nat /\ Len(journal) <= JournalSize
      /\ forgot \in [Command -> Nat] /\ restarts \in Nat /\ Distinct(journal)
  BY DEF JournalInv, MemoryInv, WorkInv, TypeOK
<1>3. Remembered = Elements(journal) /\ Remembered' = Elements(journal') /\ Executed' = Executed
      /\ JournalSize \in Nat \ {0}
  BY <1>1, ConstantsAssumption DEF Remembered, Elements, Executed
<1>4. doing \notin Before /\ Remembered \subseteq Executed
  BY <1>1 DEF JournalInv, Before
<1>5. CASE Len(journal) < JournalSize
  <2>1. journal' = Append(journal, c) /\ forgot' = forgot
    BY <1>1, <1>5 DEF MarkCommand
  <2>2. Distinct(journal') /\ Remembered' = Remembered \cup {c}
    BY <1>1, <1>2, <1>3, <2>1, AppendDistinct
  <2>3. Cardinality(Executed) <= JournalSize => \A d \in Command : forgot[d] <= restarts
    BY <1>4 DEF JournalInv, PushedOut
  <2> QED BY <1>1, <1>3, <1>4, <2>1, <2>2, <2>3 DEF JournalInv
<1>6. CASE ~(Len(journal) < JournalSize)
  <2>1. journal' = Append(Tail(journal), c)
        /\ forgot' = [forgot EXCEPT ![Head(journal)] = forgot[Head(journal)] + 1]
    BY <1>1, <1>6 DEF MarkCommand
  <2>2. journal # << >> /\ Len(journal) = JournalSize
    BY <1>2, <1>3, <1>6
  <2>3. Tail(journal) \in Seq(Command) /\ Distinct(Tail(journal))
        /\ Elements(Tail(journal)) = Remembered \ {Head(journal)} /\ Head(journal) \in Remembered
    BY <1>2, <1>3, <2>2, TailDistinct
  <2>4. Distinct(journal') /\ Remembered' = (Remembered \ {Head(journal)}) \cup {c}
    <3> DEFINE kept == Tail(journal)
    <3>1. kept \in Seq(Command) /\ Distinct(kept) /\ c \notin Elements(kept)
      BY <1>1, <2>3
    <3> HIDE DEF kept
    <3>2. Distinct(Append(kept, c)) /\ Elements(Append(kept, c)) = Elements(kept) \cup {c}
      BY <3>1, AppendDistinct
    <3> QED BY <1>3, <2>1, <2>3, <3>2 DEF kept
  <2>5. Head(journal) # c
    BY <1>1, <2>3
  <2>6. ASSUME Cardinality(Executed) <= JournalSize, NEW d \in Command
        PROVE  forgot'[d] <= restarts' \/ PushedOut(d)'
    <3>1. forgot[d] <= restarts
      BY <1>4, <2>6 DEF JournalInv, PushedOut
    <3>2. CASE d # Head(journal)
      BY <1>1, <1>2, <2>1, <3>1, <3>2
    <3>3. CASE d = Head(journal)
      <4>1. forgot'[d] <= restarts' + 1
        BY <1>1, <1>2, <2>1, <3>1, <3>3
      <4>2. Cardinality(Executed) \in Nat
        BY FS_CardinalityType DEF JournalInv
      <4>3. Cardinality(Executed) >= JournalSize /\ Executed \subseteq Remembered
        BY <1>2, <1>3, <1>4, <2>2, <2>6, <4>2, JournalFits
      <4>4. current' \notin Executed'
        BY <1>1, <1>3, <4>3
      <4> QED BY <1>1, <1>3, <2>4, <2>5, <3>3, <4>1, <4>3, <4>4 DEF PushedOut
    <3> QED BY <3>2, <3>3
  <2> QED BY <1>1, <1>3, <1>4, <2>4, <2>6 DEF JournalInv
<1> QED BY <1>5, <1>6

LEMMA JournalExecuted ==
  ASSUME JournalInv, MemoryInv', Execute
  PROVE  JournalInv'
<1>1. /\ doing = "execute" /\ doing' = "result" /\ UNCHANGED <<current, journal, forgot, restarts>>
      /\ executions' = [executions EXCEPT ![current] = executions[current] + 1]
  BY DEF Execute
<1>2. current \in Command /\ executions \in [Command -> Nat]
  BY <1>1 DEF JournalInv, MemoryInv, WorkInv, TypeOK, Working
<1>3. Executed' = Executed \cup {current} /\ Remembered' = Remembered
  BY <1>1, <1>2 DEF Executed, Remembered
<1>4. IsFiniteSet(Executed) /\ Cardinality(Executed) \in Nat
  BY FS_CardinalityType DEF JournalInv
<1>5. IsFiniteSet(Executed')
      /\ Cardinality(Executed') = IF current \in Executed THEN Cardinality(Executed)
                                  ELSE Cardinality(Executed) + 1
  BY <1>3, <1>4, FS_AddElement
<1>6. ASSUME Cardinality(Executed') <= JournalSize, NEW c \in Command
      PROVE  forgot'[c] <= restarts'
  <2>1. Cardinality(Executed) <= JournalSize
    BY <1>4, <1>5, <1>6, ConstantsAssumption
  <2>2. ~PushedOut(c)
    BY <1>4, <1>5, <1>6, ConstantsAssumption DEF PushedOut
  <2> QED BY <1>1, <2>1, <2>2 DEF JournalInv
<1>7. doing' \notin Before /\ Distinct(journal')
  BY <1>1 DEF Before, JournalInv
<1> QED BY <1>1, <1>3, <1>5, <1>6, <1>7 DEF JournalInv

LEMMA JournalLost ==
  ASSUME JournalInv, MemoryInv', Restart
  PROVE  JournalInv'
<1>1. /\ UNCHANGED executions /\ journal' = << >> /\ doing' = "register" /\ restarts' = restarts + 1
      /\ forgot' = [c \in Command |-> IF c \in Remembered THEN forgot[c] + 1 ELSE forgot[c]]
  BY DEF Restart
<1>2. Executed' = Executed /\ Remembered' = {} /\ Distinct(journal') /\ doing' \notin Before
  BY <1>1 DEF Executed, Remembered, Distinct, Before
<1>3. ASSUME Cardinality(Executed) <= JournalSize, NEW c \in Command
      PROVE  forgot'[c] <= restarts'
  <2>1. forgot[c] \in Nat /\ restarts \in Nat
    BY DEF JournalInv, MemoryInv, WorkInv, TypeOK
  <2>2. forgot[c] <= restarts \/ (c \notin Remembered /\ forgot[c] <= restarts + 1)
    BY <1>3 DEF JournalInv, PushedOut
  <2> QED BY <1>1, <2>1, <2>2
<1> QED BY <1>2, <1>3 DEF JournalInv

LEMMA JournalStep == JournalInv /\ [Next]_vars => JournalInv'
<1> SUFFICES ASSUME JournalInv, [Next]_vars PROVE JournalInv'
  OBVIOUS
<1>1. MemoryInv /\ MemoryInv'
  BY MemoryStep DEF JournalInv
<1>2. CASE UNCHANGED <<executions, forgot, restarts, journal, doing, current>>
  BY <1>1, <1>2, JournalKept
<1>3. CASE SkipRegister \/ RegisterRobot \/ SendHeartbeat \/ PollCommands \/ EndPoll
  <2>1. UNCHANGED <<executions, forgot, restarts, journal>> /\ doing \notin Before /\ doing' \notin Before
    BY <1>3 DEF SkipRegister, RegisterRobot, SendHeartbeat, PollCommands, EndPoll, history, Before
  <2> QED BY <1>1, <2>1, JournalKept
<1>4. ASSUME NEW c \in Command, SkipSeen(c) PROVE JournalInv'
  BY <1>2, <1>4 DEF SkipSeen, history
<1>5. ASSUME NEW c \in Command, TakeCommand(c) PROVE JournalInv'
  BY <1>1, <1>5, JournalTaken
<1>6. CASE PostStep
  BY <1>1, <1>6, PostMoves, JournalKept DEF Posting, Before
<1>7. CASE Execute
  BY <1>1, <1>7, JournalExecuted
<1>8. ASSUME NEW r \in Run, RunStep(r)
      PROVE  UNCHANGED <<executions, forgot, restarts, journal, doing, current>>
  BY <1>1, <1>8, RunMoves DEF MemoryInv, WorkInv
<1>9. CASE Restart
  BY <1>1, <1>9, JournalLost
<1>10. ASSUME NEW r \in late, LateArrives(r) \/ LateCommits(r)
       PROVE  UNCHANGED <<executions, forgot, restarts, journal, doing, current>>
  BY <1>1, <1>10, LateMoves DEF MemoryInv, WorkInv
<1> QED
  BY <1>2, <1>3, <1>4, <1>5, <1>6, <1>7, <1>8, <1>9, <1>10
     DEF Next, OnTimer, Create, PassExpiry, MarkOffline, OtherRegisters, Outside,
         Signal, vars, work, history

(* For any journal size and any faults: what goes beyond one execution is   *)
(* paid for by a restart, until more different commands were executed than  *)
(* the journal holds.                                                       *)
THEOREM RepeatsAreRestarts == Spec => []RepeatsNeedRestarts
<1>1. Init => JournalInv
  <2> SUFFICES ASSUME Init PROVE JournalInv
    OBVIOUS
  <2>1. WorkInv /\ \A c \in Command : executions[c] = 0 /\ forgot[c] = 0 /\ Begun(c) = 0 /\ Known(c) = 0
    BY WorkInit DEF Init, Begun, Known, Remembered
  <2>2. MemoryInv
    BY <2>1 DEF MemoryInv
  <2>3. Executed = {} /\ Remembered = {} /\ doing \notin Before /\ Distinct(journal)
    BY <2>1 DEF Init, Executed, Remembered, Before, Distinct
  <2>4. \A c \in Command : forgot[c] <= restarts
    BY <2>1 DEF Init
  <2> QED BY <2>2, <2>3, <2>4, FS_EmptySet DEF JournalInv
<1>2. JournalInv => RepeatsNeedRestarts
  <2> SUFFICES ASSUME JournalInv, Cardinality(Executed) <= JournalSize, NEW c \in Command
               PROVE  executions[c] <= 1 + restarts
    BY DEF RepeatsNeedRestarts, Executed
  <2>1. /\ executions[c] \in Nat /\ forgot[c] \in Nat /\ restarts \in Nat
        /\ Known(c) \in {0, 1} /\ Begun(c) \in {0, 1}
        /\ executions[c] + Begun(c) <= forgot[c] + Known(c)
    BY DEF JournalInv, MemoryInv, WorkInv, TypeOK, Known, Begun
  <2>2. forgot[c] <= restarts \/ (Known(c) = 0 /\ forgot[c] <= restarts + 1)
    BY DEF JournalInv, PushedOut, Known
  <2> QED BY <2>1, <2>2
<1> QED BY <1>1, <1>2, JournalStep, PTL DEF Spec
===============================================================================
