SPECIFICATION Spec
CONSTANTS
  Cmd = {c1}
  NoCmd = NoCmd
  Key = {}
  NoKey = NoKey
  Creator = {p1}
  Poster = {q1}
  Run = {r1}
  MaxRetry = 1
  BatchLimit = 1
SYMMETRY Interchangeable
PROPERTIES
  TerminalIsFinal
