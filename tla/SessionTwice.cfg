\* A command executed twice after a restart.
SPECIFICATION Spec
CONSTANTS
  Command = {k1}
  Run = {r1}
  JournalSize = 2
  MaxRetries = 1
  MaxFaults = 1
CHECK_DEADLOCK FALSE
INVARIANTS
  ExecutedOnce
