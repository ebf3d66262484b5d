SPECIFICATION Spec
CONSTANTS
  t1 = t1
  t2 = t2
  u1 = u1
  u2 = u2
  Users = {u1, u2}
  Titles = {t1, t2}
  Creations <- MCCreations
  Updates <- MCUpdates
  Ids = {g1, g2, g3}
  Calls = {c1, c2}
  NULL = NULL
SYMMETRY Symmetry
INVARIANTS
  TypeOK
  CopiesOverlapped
