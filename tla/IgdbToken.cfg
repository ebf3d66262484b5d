SPECIFICATION Spec
CONSTANTS
  Calls = {c1, c2, c3}
  Lifetimes = {0, 4, 6}
  MARGIN = 3
  MAX_ANSWER = 2
  MAX_QUERY = 1
  MAX_TIME = 9
  NULL = NULL
INVARIANTS
  TypeOK
  QueriesAreTaken
  ExpiryFits
