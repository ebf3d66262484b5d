SPECIFICATION FairSpec
CONSTANTS
  Users = {1, 2}
  Ids = {q1, q2}
  Calls = {c1, c2}
  NULL = NULL
INVARIANTS
  TypeOK
  OnePendingPerPair
  FriendshipsBacked
  NotifiesTheReceiver
PROPERTIES
  AcceptedIsFinal
  ImplementsBefriending
  RequestNotified
