SPECIFICATION RealtimeSpec
CONSTANTS
  Users = {u1, u2}
  Sockets = {s1, s2}
  Ids = {q1}
  NULL = NULL
  MAX_IN_FLIGHT = 2
SYMMETRY Symmetry
INVARIANTS
  RealtimeTypeOK
  LiveIsRegistered
  FriendsSeeTheTruth
  NotificationsArrive
PROPERTIES
  EachChangeOnce
