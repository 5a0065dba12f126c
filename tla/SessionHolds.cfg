\* Two commands, a journal of one, and one fault of any kind.
SPECIFICATION FairSpec
CONSTANTS
  Command = {k1, k2}
  Run = {r1}
  JournalSize = 1
  MaxRetries = 1
  MaxFaults = 1
CHECK_DEADLOCK FALSE
INVARIANTS
  TypeOK
  ExecutedOncePerMemory
  RepeatsNeedRestarts
  ExecutedOncePerRequeue
  EveryOutcomeRecorded
  RegisteredIsAccepted
PROPERTIES
  HeardAgain
