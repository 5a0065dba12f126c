\* One row, two creations that may have one key, two posts and three job runs.
SPECIFICATION Spec
CONSTANTS
  Cmd = {c1}
  NoCmd = NoCmd
  Key = {k1}
  NoKey = NoKey
  Creator = {p1, p2}
  Poster = {q1, q2}
  Run = {r1, r2, r3}
  MaxRetry = 2
  BatchLimit = 1
SYMMETRY Interchangeable
INVARIANTS
  TypeOK
  HandedOutOncePerRequeue
  RetriesBounded
  StampFollowsDelivery
  ResultMatchesExecution
  HistoryExplainsStatus
PROPERTIES
  RejectedIsFinal
