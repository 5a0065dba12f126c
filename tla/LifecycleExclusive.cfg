\* Two creations with one key, two posts and two job runs; no two of them hold one row at once.
SPECIFICATION ExclusiveSpec
CONSTANTS
  Cmd = {c1, c2}
  NoCmd = NoCmd
  Key = {k1}
  NoKey = NoKey
  Creator = {p1, p2}
  Poster = {q1, q2}
  Run = {r1, r2}
  MaxRetry = 1
  BatchLimit = 2
SYMMETRY Interchangeable
INVARIANTS
  IdempotentCreation
  RetriesWithinLimit
PROPERTIES
  KeepsContract
  TerminalIsFinal
