SPECIFICATION FairSpec
CONSTANTS
  Cmd = {c1}
  NoCmd = NoCmd
  Key = {}
  NoKey = NoKey
  Creator = {p1}
  Poster = {q1, q2}
  Run = {r1, r2}
  MaxRetry = 1
  BatchLimit = 1
PROPERTIES
  EverySettles
