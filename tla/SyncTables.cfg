\* Two calls at once, a position and two pending orders, one of which may become the position.
SPECIFICATION FairSpec
CONSTANTS
  Position = {1}
  Order = {2, 3}
  Call = {c1, c2}
CHECK_DEADLOCK FALSE
INVARIANTS
  TypeOK
PROPERTIES
  OrderedSnapshotsNeverLie
  PositionsKeepContract
  OrdersKeepContract
  TablesCatchUp
  ExactTablesStay
