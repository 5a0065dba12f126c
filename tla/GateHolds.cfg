\* Two calls, a position of another origin, every writer of the rows, three writes.
SPECIFICATION Spec
CONSTANTS
  Call = {c1, c2}
  Local = {l1}
  Gold = Gold
  Euro = Euro
  Symbol <- Symbols
  Chart = Gold
  Request <- Requests
  Setting <- Settings
  Report <- Reports
  MaxWrites = 3
CHECK_DEADLOCK FALSE
SYMMETRY Interchangeable
INVARIANTS
  TypeOK
  StandingBarRefuses
  ExposureBounded
  FirstPositionIsNotOurs
