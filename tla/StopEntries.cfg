SPECIFICATION Spec
CONSTANTS
  Operator = {p1}
  Trader = {t1}
  Beat = {b1}
  Control = {}
  MaxCommands = 2
PROPERTIES
  StopDisablesEntries
