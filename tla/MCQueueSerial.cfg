SPECIFICATION SerialSpec
CONSTANTS
  Games = {a, b, c}
  Requests = {r1}
  Versions = {1, 2}
  NULL = NULL
  ORDER_GAP = 4
  MAX_ORDER = 16
INVARIANTS
  OneListing
PROPERTIES
  ImplementsQueueOrder
  RefusedOnlyAtTheLimit
