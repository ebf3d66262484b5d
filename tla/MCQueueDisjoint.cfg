SPECIFICATION DisjointSpec
CONSTANTS
  Games = {a, b, c, d}
  Requests = {r1, r2}
  Versions = {1, 2}
  NULL = NULL
  ORDER_GAP = 2
  MAX_ORDER = 8
SYMMETRY Symmetry
PROPERTIES
  LandsBetween
