SPECIFICATION Spec
CONSTANTS
  Operator = {p1, p2}
  Trader = {}
  Beat = {}
  Control = {"START_ROBOT"}
  MaxCommands = 3
SYMMETRY Interchangeable
INVARIANTS
  TypeOK
  FlagsAgree
  TerminalObeys
