SPECIFICATION Spec
CONSTANTS
  Games = {a, b}
  Requests = {r1, r2}
  Versions = {1, 2}
  NULL = NULL
  ORDER_GAP = 2
  MAX_ORDER = 4
SYMMETRY Symmetry
INVARIANTS
  TypeOK
  OrdersPositive
  QueueWithinLibrary
PROPERTIES
  RowsSurviveMoves
  RetriesOnce
