SPECIFICATION Spec
CONSTANTS
  Operator = {p1}
  Trader = {}
  Beat = {b1}
  Control = {"START_ROBOT"}
  MaxCommands = 2
INVARIANTS
  ClearedStaysStopped
