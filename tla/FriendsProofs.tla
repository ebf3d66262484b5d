--------------------------- MODULE FriendsProofs ---------------------------
(***************************************************************************)
(* Theorems about Friends: its invariants, AcceptedIsFinal and that it     *)
(* implements Befriending, for any number of users, requests and           *)
(* overlapping calls.                                                      *)
(***************************************************************************)
EXTENDS Friends, TLAPS

-----------------------------------------------------------------------------
(* The inductive invariant.  What a handler writes last it knows from what *)
(* it read first, so the invariant says what its locals still mean.        *)

\* CHECK ("senderId" != "receiverId").
NobodyAsksHimself == \A id \in Known : requests[id].senderId # requests[id].receiverId

\* What the locals of the call in slot c mean.
LocalsOK(c) ==
  /\ call[c].step # "idle" => call[c].user \in Users /\ call[c].other \in Users
  /\ call[c].step \in {"friends?", "pending?", "insert"} => call[c].user # call[c].other
  /\ call[c].step \in {"sender", "notify"} =>
       call[c].id \in Known /\ requests[call[c].id].receiverId = call[c].other
  /\ call[c].step \in {"accept?", "accept"} =>
       /\ call[c].id \in Known
       /\ requests[call[c].id].senderId = call[c].other
       /\ requests[call[c].id].receiverId = call[c].user

Inv ==
  /\ TypeOK
  /\ OnePendingPerPair
  /\ FriendshipsBacked
  /\ NotifiesTheReceiver
  /\ NobodyAsksHimself
  /\ \A c \in Calls : LocalsOK(c)

\* A slot that is free again means nothing.
LEMMA IdleOK ==
  ASSUME call \in [Calls -> Call], NEW c \in Calls, Finish(c),
         NEW d \in Calls
  PROVE  /\ call'[d] \in Call
         /\ call'[d] = IF d = c THEN Idle ELSE call[d]
  BY DEF Finish, Idle, Call, Steps

\* The rows a call that ends leaves alone keep the invariant.
LEMMA FinishStep ==
  ASSUME Inv, NEW c \in Calls, Finish(c), UNCHANGED <<requests, friendships, notifications>>,
         lost' \subseteq Known
  PROVE  Inv'
<1>1. \A d \in Calls : call'[d] \in Call /\ call'[d] = IF d = c THEN Idle ELSE call[d]
  BY IdleOK DEF Inv, TypeOK
<1>2. call' \in [Calls -> Call]
  BY <1>1 DEF Finish, Inv, TypeOK
<1>3. \A d \in Calls : LocalsOK(d)'
  BY <1>1 DEF Inv, LocalsOK, Known, Idle
<1> QED
  BY <1>2, <1>3 DEF Inv, TypeOK, OnePendingPerPair, FriendshipsBacked,
     NotifiesTheReceiver, NobodyAsksHimself, Known, PairOf, IsPending

\* A call that goes on to a step which asks no more of its locals.
LEMMA GotoStep ==
  ASSUME Inv, NEW c \in Calls, NEW step, Goto(c, step),
         UNCHANGED <<requests, friendships, notifications, lost>>,
         \/ call[c].step = "friends?" /\ step = "pending?"
         \/ call[c].step = "pending?" /\ step = "insert"
         \/ call[c].step = "sender" /\ step = "notify"
         \/ call[c].step = "accept?" /\ step = "accept"
  PROVE  Inv'
<1>1. /\ call' = [d \in Calls |-> IF d = c THEN [call[c] EXCEPT !.step = step] ELSE call[d]]
      /\ [call[c] EXCEPT !.step = step] \in Call
  BY DEF Goto, Inv, TypeOK, Call, Steps
<1>2. call' \in [Calls -> Call]
  BY <1>1 DEF Inv, TypeOK
<1>3. \A d \in Calls : LocalsOK(d)'
  BY <1>1 DEF Inv, TypeOK, Call, LocalsOK, Known
<1> QED
  BY <1>2, <1>3 DEF Inv, TypeOK, OnePendingPerPair, FriendshipsBacked,
     NotifiesTheReceiver, NobodyAsksHimself, Known, PairOf, IsPending

\* A call that starts.
LEMMA ArriveStep ==
  ASSUME Inv, NEW c \in Calls, NEW u \in Users, NEW v, NEW id,
         \/ v \in Users /\ (SendRequest(c, u, v) \/ RemoveFriend(c, u, v))
         \/ id \in Ids /\ AcceptRequest(c, id, u)
  PROVE  Inv'
<1>1. PICK k \in Call : call' = [call EXCEPT ![c] = k] /\
        k.user \in Users /\ k.other \in Users /\
        ( \/ k.step = "friends?" /\ k.user # k.other
          \/ k.step = "remove"
          \/ /\ k.step = "accept?" /\ k.id = id /\ id \in Known
             /\ k.other = requests[id].senderId /\ k.user = requests[id].receiverId )
  <2>1. CASE v \in Users /\ SendRequest(c, u, v)
    <3> DEFINE k == [step |-> "friends?", user |-> u, other |-> v, id |-> NULL]
    <3>1. k \in Call
      BY <2>1 DEF Call, Steps
    <3> QED
      BY <2>1, <3>1 DEF SendRequest
  <2>2. CASE v \in Users /\ RemoveFriend(c, u, v)
    <3> DEFINE k == [step |-> "remove", user |-> u, other |-> v, id |-> NULL]
    <3>1. k \in Call
      BY <2>2 DEF Call, Steps
    <3> QED
      BY <2>2, <3>1 DEF RemoveFriend
  <2>3. CASE id \in Ids /\ AcceptRequest(c, id, u)
    <3> DEFINE k == [step |-> "accept?", user |-> u, other |-> requests[id].senderId,
                     id |-> id]
    <3>1. id \in Known /\ requests[id].receiverId = u /\ requests[id].senderId \in Users
      BY <2>3 DEF AcceptRequest, IsPending, Inv, TypeOK, Request
    <3>2. k \in Call
      BY <2>3, <3>1 DEF Call, Steps
    <3> QED
      BY <2>3, <3>1, <3>2 DEF AcceptRequest
  <2> QED
    BY <2>1, <2>2, <2>3
<1>2. UNCHANGED <<requests, friendships, notifications, lost>>
  BY DEF SendRequest, RemoveFriend, AcceptRequest
<1>3. call' = [d \in Calls |-> IF d = c THEN k ELSE call[d]]
  BY <1>1 DEF Inv, TypeOK
<1>4. call' \in [Calls -> Call]
  BY <1>3 DEF Inv, TypeOK
<1>5. \A d \in Calls : LocalsOK(d)'
  <2>1. call'[c] = k
    BY <1>3
  <2>2. LocalsOK(c)'
    BY <1>1, <1>2, <2>1 DEF LocalsOK, Known
  <2>3. ASSUME NEW d \in Calls, d # c PROVE LocalsOK(d)'
    BY <1>2, <1>3, <2>3 DEF Inv, LocalsOK, Known
  <2> QED
    BY <2>2, <2>3
<1> QED
  BY <1>2, <1>4, <1>5 DEF Inv, TypeOK, OnePendingPerPair, FriendshipsBacked,
     NotifiesTheReceiver, NobodyAsksHimself, Known, PairOf, IsPending

\* The row of a new request: the index keeps it the only pending one.
LEMMA InsertStep ==
  ASSUME Inv, NEW c \in Calls, SendInsert(c)
  PROVE  Inv'
<1> DEFINE s == call[c].user
           r == call[c].other
           row == [senderId |-> s, receiverId |-> r, status |-> "pending"]
<1>1. s \in Users /\ r \in Users /\ s # r
  BY DEF SendInsert, Inv, LocalsOK
<1>2. PICK id \in Ids \ Known :
        /\ requests' = [k \in Known \union {id} |-> IF k = id THEN row ELSE requests[k]]
        /\ call' = [call EXCEPT ![c].step = "sender", ![c].id = id]
  BY DEF SendInsert
<1>3. UNCHANGED <<friendships, notifications, lost>>
  BY DEF SendInsert
<1>4. row \in Request
  BY <1>1 DEF Request, Status
<1>5. Known' = Known \union {id} /\ requests' \in [Known' -> Request]
  BY <1>2, <1>4 DEF Inv, TypeOK, Known
<1>6. /\ requests'[id] = row
      /\ \A k \in Known : requests'[k] = requests[k] /\ k # id
  BY <1>2
<1>7. call' = [d \in Calls |-> IF d = c THEN [call[c] EXCEPT !.step = "sender", !.id = id]
                                        ELSE call[d]]
  BY <1>2 DEF Inv, TypeOK
<1>8. call' \in [Calls -> Call]
  BY <1>7 DEF Inv, TypeOK, Call, Steps
<1>9. TypeOK'
  BY <1>3, <1>5, <1>8 DEF Inv, TypeOK, Known
<1>10. OnePendingPerPair'
  <2>1. \A k \in Known : PairOf(k)' = PairOf(k) /\ (IsPending(k)' <=> IsPending(k))
    BY <1>5, <1>6 DEF PairOf, IsPending
  <2>2. PairOf(id)' = {s, r}
    BY <1>6 DEF PairOf
  <2>3. \A k \in Known : IsPending(k) => PairOf(k) # {s, r}
    BY DEF SendInsert, UniquePending
  <2> QED
    BY <1>5, <2>1, <2>2, <2>3 DEF Inv, OnePendingPerPair
<1>11. FriendshipsBacked'
  BY <1>3, <1>5, <1>6 DEF Inv, FriendshipsBacked, PairOf
<1>12. NotifiesTheReceiver' /\ NobodyAsksHimself'
  BY <1>1, <1>3, <1>5, <1>6 DEF Inv, NotifiesTheReceiver, NobodyAsksHimself
<1>13. \A d \in Calls : LocalsOK(d)'
  <2>1. call'[c].step = "sender" /\ call'[c].id = id
          /\ call'[c].user = s /\ call'[c].other = r
    BY <1>7 DEF Inv, TypeOK, Call
  <2>2. LocalsOK(c)'
    BY <1>1, <1>5, <1>6, <2>1 DEF LocalsOK
  <2>3. ASSUME NEW d \in Calls, d # c PROVE LocalsOK(d)'
    BY <1>5, <1>6, <1>7, <2>3 DEF Inv, LocalsOK
  <2> QED
    BY <2>2, <2>3
<1> QED
  BY <1>9, <1>10, <1>11, <1>12, <1>13 DEF Inv

\* The notification goes to the one who was asked.
LEMMA NotifyStep ==
  ASSUME Inv, NEW c \in Calls, OnFriendRequestSent(c)
  PROVE  Inv'
<1> DEFINE id == call[c].id
           row == [userId |-> call[c].other, read |-> FALSE]
<1>1. /\ id \in Known /\ requests[id].receiverId = call[c].other
      /\ call[c].other \in Users
  BY DEF OnFriendRequestSent, Inv, LocalsOK
<1>2. row \in Notification
  BY <1>1 DEF Notification
<1>3. /\ notifications' = [k \in DOMAIN notifications \union {id} |->
                             IF k = id THEN row ELSE notifications[k]]
      /\ UNCHANGED <<requests, friendships, lost>> /\ Finish(c)
  BY DEF OnFriendRequestSent
<1>4. /\ DOMAIN notifications' \subseteq Ids
      /\ notifications' \in [DOMAIN notifications' -> Notification]
  BY <1>1, <1>2, <1>3 DEF Inv, TypeOK
<1>5. \A d \in Calls : call'[d] \in Call /\ call'[d] = IF d = c THEN Idle ELSE call[d]
  BY <1>3, IdleOK DEF Inv, TypeOK
<1>6. call' \in [Calls -> Call]
  BY <1>3, <1>5 DEF Finish, Inv, TypeOK
<1>7. NotifiesTheReceiver'
  BY <1>1, <1>3 DEF Inv, NotifiesTheReceiver, Known
<1>8. \A d \in Calls : LocalsOK(d)'
  BY <1>3, <1>5 DEF Inv, LocalsOK, Known, Idle
<1> QED
  BY <1>3, <1>4, <1>6, <1>7, <1>8 DEF Inv, TypeOK, OnePendingPerPair, FriendshipsBacked,
     NobodyAsksHimself, Known, PairOf, IsPending

\* A decision changes the status of one request, and never to pending.
LEMMA DecideRequest ==
  ASSUME Inv, NEW id \in Known, NEW st \in {"accepted", "rejected"},
         requests' = [requests EXCEPT ![id].status = st]
  PROVE  /\ DOMAIN requests' = DOMAIN requests
         /\ \A k \in Known :
              /\ requests'[k].senderId = requests[k].senderId
              /\ requests'[k].receiverId = requests[k].receiverId
              /\ requests'[k].status = IF k = id THEN st ELSE requests[k].status
  BY DEF Inv, TypeOK, Known, Request, Status

\* It leaves rows of the same type.
LEMMA DecideType ==
  ASSUME Inv, NEW id \in Known, NEW st \in {"accepted", "rejected"},
         requests' = [requests EXCEPT ![id].status = st]
  PROVE  requests' \in [DOMAIN requests -> Request]
  BY DEF Inv, TypeOK, Known, Request, Status

\* A sorted pair satisfies the checks of the table.
LEMMA SortedPairOK ==
  ASSUME NEW a \in Users, NEW b \in Users, a # b
  PROVE  /\ SortedPair(a, b) \in Users \X Users
         /\ SortedPair(a, b)[1] < SortedPair(a, b)[2]
         /\ {SortedPair(a, b)[1], SortedPair(a, b)[2]} = {a, b}
<1>1. CASE a < b
  BY <1>1 DEF SortedPair
<1>2. CASE ~(a < b)
  <2>1. b < a
    BY <1>2, UsersAssumption
  <2> QED
    BY <1>2, <2>1 DEF SortedPair
<1> QED
  BY <1>1, <1>2

\* Friendship and status are written together.
LEMMA AcceptStep ==
  ASSUME Inv, NEW c \in Calls, AcceptTransaction(c)
  PROVE  Inv'
<1>1. PICK id \in Known, a \in Users, b \in Users :
        /\ id = call[c].id /\ a = call[c].other /\ b = call[c].user
        /\ requests[id].senderId = a /\ requests[id].receiverId = b /\ a # b
  BY DEF AcceptTransaction, Inv, LocalsOK, NobodyAsksHimself
<1>2. /\ friendships' = friendships \union {SortedPair(a, b)}
      /\ requests' = [requests EXCEPT ![id].status = "accepted"]
      /\ Finish(c) /\ UNCHANGED <<notifications, lost>>
  BY <1>1 DEF AcceptTransaction
<1>3. /\ DOMAIN requests' = DOMAIN requests
      /\ \A k \in Known :
           /\ requests'[k].senderId = requests[k].senderId
           /\ requests'[k].receiverId = requests[k].receiverId
           /\ requests'[k].status = IF k = id THEN "accepted" ELSE requests[k].status
  BY <1>2, DecideRequest
<1>4. \A d \in Calls : call'[d] \in Call /\ call'[d] = IF d = c THEN Idle ELSE call[d]
  BY <1>2, IdleOK DEF Inv, TypeOK
<1>5. call' \in [Calls -> Call]
  BY <1>2, <1>4 DEF Finish, Inv, TypeOK
<1>6. TypeOK'
  <2>1. requests' \in [DOMAIN requests -> Request]
    BY <1>2, DecideType
  <2>2. friendships' \subseteq Users \X Users
    BY <1>1, <1>2, SortedPairOK DEF Inv, TypeOK
  <2> QED
    BY <1>2, <1>3, <1>5, <2>1, <2>2 DEF Inv, TypeOK, Known
<1>7. OnePendingPerPair'
  <2>1. \A k \in Known : requests'[k].status = "pending" => requests[k].status = "pending"
    BY <1>3 DEF Known
  <2> QED
    BY <1>3, <2>1 DEF Inv, OnePendingPerPair, PairOf, IsPending, Known
<1>8. FriendshipsBacked'
  <2>1. {requests'[id].senderId, requests'[id].receiverId} = {a, b}
    BY <1>1, <1>3 DEF Known
  <2>2. ASSUME NEW p \in friendships'
        PROVE  /\ p[1] < p[2]
               /\ \E k \in Known : /\ requests'[k].status = "accepted"
                                    /\ {requests'[k].senderId, requests'[k].receiverId}
                                         = {p[1], p[2]}
    <3>1. CASE p \in friendships
      <4>1. PICK k \in Known : /\ requests[k].status = "accepted"
                                /\ {requests[k].senderId, requests[k].receiverId}
                                     = {p[1], p[2]}
        BY <3>1 DEF Inv, FriendshipsBacked, PairOf, Known
      <4>2. requests'[k].status = "accepted"
        BY <1>3, <4>1 DEF Known
      <4>3. p[1] < p[2]
        BY <3>1 DEF Inv, FriendshipsBacked
      <4> QED
        BY <1>3, <4>1, <4>2, <4>3 DEF Known
    <3>2. CASE p = SortedPair(a, b)
      BY <1>1, <1>3, <2>1, <3>2, SortedPairOK DEF Known
    <3> QED
      BY <1>2, <3>1, <3>2
  <2> QED
    BY <1>3, <2>2 DEF FriendshipsBacked, PairOf, Known
<1>9. NotifiesTheReceiver' /\ NobodyAsksHimself'
  BY <1>2, <1>3 DEF Inv, NotifiesTheReceiver, NobodyAsksHimself, PairOf, IsPending, Known
<1>10. \A d \in Calls : LocalsOK(d)'
  BY <1>3, <1>4 DEF Inv, LocalsOK, Idle, Known
<1> QED
  BY <1>6, <1>7, <1>8, <1>9, <1>10 DEF Inv

\* A rejection leaves accepted requests alone.
LEMMA RejectStep ==
  ASSUME Inv, NEW id \in Ids, NEW u \in Users, RejectRequest(id, u)
  PROVE  Inv'
<1>1. id \in Known /\ requests[id].status = "pending"
  BY DEF RejectRequest, IsPending
<1>2. /\ requests' = [requests EXCEPT ![id].status = "rejected"]
      /\ UNCHANGED <<friendships, notifications, call, lost>>
  BY DEF RejectRequest
<1>3. /\ DOMAIN requests' = DOMAIN requests
      /\ \A k \in Known :
           /\ requests'[k].senderId = requests[k].senderId
           /\ requests'[k].receiverId = requests[k].receiverId
           /\ requests'[k].status = IF k = id THEN "rejected" ELSE requests[k].status
  BY <1>1, <1>2, DecideRequest
<1>4. TypeOK' /\ OnePendingPerPair'
  <2>1. requests' \in [DOMAIN requests -> Request]
    BY <1>1, <1>2, DecideType
  <2>2. TypeOK'
    BY <1>2, <1>3, <2>1 DEF Inv, TypeOK, Known
  <2>3. \A k \in Known : requests'[k].status = "pending" => requests[k].status = "pending"
    BY <1>3
  <2>4. OnePendingPerPair'
    BY <1>3, <2>3 DEF Inv, OnePendingPerPair, PairOf, IsPending, Known
  <2> QED
    BY <2>2, <2>4
<1>5. FriendshipsBacked'
  <2>1. \A k \in Known : requests[k].status = "accepted" => requests'[k].status = "accepted"
    BY <1>1, <1>3
  <2>2. friendships' = friendships
    BY <1>2
  <2> QED
    BY <1>3, <2>1, <2>2 DEF Inv, FriendshipsBacked, PairOf, Known
<1>6. NotifiesTheReceiver' /\ NobodyAsksHimself' /\ \A c \in Calls : LocalsOK(c)'
  BY <1>2, <1>3 DEF Inv, NotifiesTheReceiver, NobodyAsksHimself, LocalsOK, PairOf, IsPending, Known
<1> QED
  BY <1>4, <1>5, <1>6 DEF Inv

\* The other writes: a friendship goes, a notification is read.
LEMMA OtherWrites ==
  ASSUME Inv,
         \/ \E c \in Calls : RemoveDelete(c)
         \/ \E id \in Ids, u \in Users : MarkAsRead(id, u)
  PROVE  Inv'
<1>1. ASSUME NEW c \in Calls, RemoveDelete(c)
      PROVE  Inv'
  <2>1. friendships' \subseteq friendships /\ Finish(c) /\ UNCHANGED <<requests, notifications, lost>>
    BY <1>1 DEF RemoveDelete
  <2>2. \A d \in Calls : call'[d] \in Call /\ call'[d] = IF d = c THEN Idle ELSE call[d]
    BY <2>1, IdleOK DEF Inv, TypeOK
  <2>3. call' \in [Calls -> Call]
    BY <2>1, <2>2 DEF Finish, Inv, TypeOK
  <2>4. \A d \in Calls : LocalsOK(d)'
    BY <2>1, <2>2 DEF Inv, LocalsOK, Known, Idle
  <2> QED
    BY <2>1, <2>3, <2>4 DEF Inv, TypeOK, OnePendingPerPair, FriendshipsBacked,
       NotifiesTheReceiver, NobodyAsksHimself, Known, PairOf, IsPending
<1>2. ASSUME NEW id \in Ids, NEW u \in Users, MarkAsRead(id, u)
      PROVE  Inv'
  <2>1. /\ id \in DOMAIN notifications
        /\ notifications' = [notifications EXCEPT ![id].read = TRUE]
        /\ UNCHANGED <<requests, friendships, call, lost>>
    BY <1>2 DEF MarkAsRead
  <2>2. notifications \in [DOMAIN notifications -> Notification]
    BY DEF Inv, TypeOK
  <2>3. /\ DOMAIN notifications' = DOMAIN notifications
        /\ \A k \in DOMAIN notifications :
             notifications'[k] = IF k = id THEN [notifications[k] EXCEPT !.read = TRUE]
                                           ELSE notifications[k]
    BY <2>1, <2>2
  <2>4. \A k \in DOMAIN notifications :
          /\ notifications'[k] \in Notification
          /\ notifications'[k].userId = notifications[k].userId
    BY <2>2, <2>3 DEF Notification
  <2>5. notifications' \in [DOMAIN notifications -> Notification]
    BY <2>1, <2>3, <2>4
  <2> QED
    BY <2>1, <2>3, <2>4, <2>5 DEF Inv, TypeOK, OnePendingPerPair, FriendshipsBacked,
       NotifiesTheReceiver, NobodyAsksHimself, LocalsOK, Known, PairOf, IsPending
<1> QED
  BY <1>1, <1>2

-----------------------------------------------------------------------------

\* The program starts with empty tables and no call in flight.
LEMMA InvInit == ASSUME Init PROVE Inv
<1>1. TypeOK
  BY DEF Init, TypeOK, Known, Idle, Call, Steps
<1> QED
  BY <1>1 DEF Init, Inv, OnePendingPerPair, FriendshipsBacked, NotifiesTheReceiver,
     NobodyAsksHimself, LocalsOK, Known, Idle

\* Every step keeps the invariant, one lemma above for each kind of write.
LEMMA InvStep == ASSUME Inv, [Next]_vars PROVE Inv'
<1>0. lost \subseteq Known
  BY DEF Inv, TypeOK
<1>1. ASSUME NEW c \in Calls, Proceed(c)
      PROVE  Inv'
  BY <1>0, <1>1, FinishStep, GotoStep, InsertStep, NotifyStep, AcceptStep, OtherWrites
     DEF Proceed, SendCheckFriends, SendCheckPending, SendRefused, SendAnnounce,
         AcceptCheckFriends, AcceptRefused
<1>2. ASSUME NEW c \in Calls, Abort(c)
      PROVE  Inv'
  <2>1. call[c].step \in {"sender", "notify"} => call[c].id \in Known
    BY DEF Inv, LocalsOK
  <2>2. lost' \subseteq Known
    BY <1>0, <1>2, <2>1 DEF Abort
  <2> QED
    BY <1>2, <2>2, FinishStep DEF Abort
<1>3. CASE Arrive
  BY <1>3, ArriveStep, RejectStep, OtherWrites DEF Arrive
<1>4. CASE UNCHANGED vars
  BY <1>4 DEF vars, Inv, TypeOK, OnePendingPerPair, FriendshipsBacked,
     NotifiesTheReceiver, NobodyAsksHimself, LocalsOK, Known, PairOf, IsPending
<1> QED
  BY <1>1, <1>2, <1>3, <1>4 DEF Next

\* No step takes a decision back.
LEMMA DecisionStep == ASSUME Inv, [Next]_vars PROVE KeepsDecisions \/ UNCHANGED vars
<1>1. CASE UNCHANGED requests
  BY <1>1 DEF KeepsDecisions, Known, PairOf
<1>2. ASSUME NEW c \in Calls, SendInsert(c)
      PROVE  KeepsDecisions
  <2>1. PICK id \in Ids \ Known :
          requests' = [k \in Known \union {id} |->
            IF k = id THEN [senderId |-> call[c].user, receiverId |-> call[c].other,
                            status |-> "pending"]
                      ELSE requests[k]]
    BY <1>2 DEF SendInsert
  <2>2. \A k \in Known : k \in DOMAIN requests' /\ requests'[k] = requests[k]
    BY <2>1
  <2> QED
    BY <2>2 DEF KeepsDecisions, Known, PairOf
<1>3. ASSUME NEW c \in Calls, AcceptTransaction(c)
      PROVE  KeepsDecisions
  <2>1. call[c].id \in Known /\ requests' = [requests EXCEPT ![call[c].id].status = "accepted"]
    BY <1>3 DEF AcceptTransaction, Inv, LocalsOK
  <2>2. /\ DOMAIN requests' = DOMAIN requests
        /\ \A k \in Known :
             /\ requests'[k].senderId = requests[k].senderId
             /\ requests'[k].receiverId = requests[k].receiverId
             /\ requests'[k].status = IF k = call[c].id THEN "accepted" ELSE requests[k].status
    BY <2>1, DecideRequest
  <2> QED
    BY <2>2 DEF KeepsDecisions, Known, PairOf
<1>4. ASSUME NEW id \in Ids, NEW u \in Users, RejectRequest(id, u)
      PROVE  KeepsDecisions
  <2>1. /\ id \in Known /\ requests[id].status = "pending"
        /\ requests' = [requests EXCEPT ![id].status = "rejected"]
    BY <1>4 DEF RejectRequest, IsPending
  <2>2. /\ DOMAIN requests' = DOMAIN requests
        /\ \A k \in Known :
             /\ requests'[k].senderId = requests[k].senderId
             /\ requests'[k].receiverId = requests[k].receiverId
             /\ requests'[k].status = IF k = id THEN "rejected" ELSE requests[k].status
    BY <2>1, DecideRequest
  <2>3. requests[id].status = "pending"
    BY <2>1
  <2> QED
    BY <2>2, <2>3 DEF KeepsDecisions, Known, PairOf
<1> QED
  BY <1>1, <1>2, <1>3, <1>4
     DEF Next, Arrive, Proceed, Abort, SendRequest, RemoveFriend, AcceptRequest, MarkAsRead,
         SendCheckFriends, SendCheckPending, SendRefused, SendAnnounce, OnFriendRequestSent,
         AcceptCheckFriends, AcceptRefused, RemoveDelete, vars

-----------------------------------------------------------------------------
(* The theorems. *)

\* The tables and the locals of every handler in flight agree, always.
THEOREM InvCorrect == Spec => []Inv
<1>1. Init => Inv
  BY InvInit
<1>2. Inv /\ [Next]_vars => Inv'
  BY InvStep
<1> QED
  BY <1>1, <1>2, PTL DEF Spec

(***************************************************************************)
(* The tables and the handlers' locals keep their types: a friendship      *)
(* joins two users, a notification names one.                              *)
(***************************************************************************)
THEOREM FriendsTypeCorrect == Spec => []TypeOK
<1>1. Inv => TypeOK
  BY DEF Inv
<1> QED
  BY <1>1, InvCorrect, PTL

(***************************************************************************)
(* For any number of users and of overlapping sendRequest calls, at most   *)
(* one request is pending between two users.                               *)
(***************************************************************************)
THEOREM OnePendingCorrect == Spec => []OnePendingPerPair
<1>1. Inv => OnePendingPerPair
  BY DEF Inv
<1> QED
  BY <1>1, InvCorrect, PTL

(***************************************************************************)
(* Every friendship rests on an accepted request between its two users,    *)
(* whatever acceptances, rejections and removals overlap.                  *)
(***************************************************************************)
THEOREM BackedCorrect == Spec => []FriendshipsBacked
<1>1. Inv => FriendshipsBacked
  BY DEF Inv
<1> QED
  BY <1>1, InvCorrect, PTL

(***************************************************************************)
(* A notification always goes to the receiver of a request that exists.    *)
(***************************************************************************)
THEOREM NotifiesCorrect == Spec => []NotifiesTheReceiver
<1>1. Inv => NotifiesTheReceiver
  BY DEF Inv
<1> QED
  BY <1>1, InvCorrect, PTL

(***************************************************************************)
(* No step of any handler takes an acceptance back, changes the users of a *)
(* request or makes it pending again.                                      *)
(***************************************************************************)
THEOREM FinalCorrect == Spec => AcceptedIsFinal
<1>1. Inv /\ [Next]_vars => [KeepsDecisions]_vars
  BY DecisionStep
<1> QED
  BY <1>1, InvCorrect, PTL DEF Spec, AcceptedIsFinal

-----------------------------------------------------------------------------
(***************************************************************************)
(* The refinement of Befriending.  A notification is written once, since   *)
(* the request a call is about to announce was inserted by that call alone *)
(* and is not notified of yet.                                             *)
(***************************************************************************)
Announces(c) == call[c].step \in {"sender", "notify"}

AnnouncesItsOwn ==
  \A c \in Calls : Announces(c) =>
    /\ call[c].id \notin DOMAIN notifications
    /\ \A d \in Calls : Announces(d) /\ call[d].id = call[c].id => d = c

\* No call comes to announce anything.
LEMMA AnnouncesKept ==
  ASSUME Inv, AnnouncesItsOwn, DOMAIN notifications' = DOMAIN notifications,
         \A c \in Calls : Announces(c)' => Announces(c) /\ call'[c].id = call[c].id
  PROVE  AnnouncesItsOwn'
  BY DEF AnnouncesItsOwn

\* A call that comes to announce a request has just inserted it.
LEMMA AnnouncesInsert ==
  ASSUME Inv, AnnouncesItsOwn, NEW c \in Calls, SendInsert(c)
  PROVE  AnnouncesItsOwn'
<1>1. PICK id \in Ids \ Known : call' = [call EXCEPT ![c].step = "sender", ![c].id = id]
  BY DEF SendInsert
<1>2. call'[c].step = "sender" /\ call'[c].id = id /\ \A d \in Calls \ {c} : call'[d] = call[d]
  BY <1>1 DEF Inv, TypeOK, Call
<1>3. id \notin DOMAIN notifications /\ notifications' = notifications
  BY DEF SendInsert, Inv, NotifiesTheReceiver
<1>4. \A d \in Calls : Announces(d) => call[d].id # id
  BY DEF Announces, Inv, LocalsOK
<1> QED
  BY <1>2, <1>3, <1>4 DEF AnnouncesItsOwn, Announces

\* A call that has notified announces nothing any more.
LEMMA AnnouncesNotify ==
  ASSUME Inv, AnnouncesItsOwn, NEW c \in Calls, OnFriendRequestSent(c)
  PROVE  AnnouncesItsOwn'
<1>1. /\ DOMAIN notifications' = DOMAIN notifications \union {call[c].id}
      /\ Announces(c)
      /\ \A d \in Calls : call'[d] = IF d = c THEN Idle ELSE call[d]
  BY IdleOK DEF OnFriendRequestSent, Announces, Inv, TypeOK
<1>2. \A d \in Calls : Announces(d)' => d # c /\ Announces(d)
  BY <1>1 DEF Announces, Idle
<1> QED
  BY <1>1, <1>2 DEF AnnouncesItsOwn

\* Every step keeps it.
LEMMA AnnouncesStep ==
  ASSUME Inv, AnnouncesItsOwn, [Next]_vars
  PROVE  AnnouncesItsOwn'
<1>1. ASSUME NEW c \in Calls, Finish(c), DOMAIN notifications' = DOMAIN notifications
      PROVE  AnnouncesItsOwn'
  <2>1. \A d \in Calls : call'[d] = IF d = c THEN Idle ELSE call[d]
    BY <1>1, IdleOK DEF Inv, TypeOK
  <2> QED
    BY <1>1, <2>1, AnnouncesKept DEF Announces, Idle
<1>2. ASSUME NEW c \in Calls, NEW step \in {"pending?", "insert", "accept"}, Goto(c, step),
             notifications' = notifications
      PROVE  AnnouncesItsOwn'
  <2>1. \A d \in Calls : d # c => call'[d] = call[d]
    BY <1>2 DEF Goto, Inv, TypeOK
  <2>2. call'[c].step = step
    BY <1>2 DEF Goto, Inv, TypeOK, Call
  <2> QED
    BY <1>2, <2>1, <2>2, AnnouncesKept DEF Announces
<1>3. ASSUME NEW c \in Calls, SendAnnounce(c)
      PROVE  AnnouncesItsOwn'
  <2>1. \A d \in Calls : d # c => call'[d] = call[d]
    BY <1>3 DEF SendAnnounce, Goto, Inv, TypeOK
  <2>2. call'[c].step = "notify" /\ call'[c].id = call[c].id /\ Announces(c)
    BY <1>3 DEF SendAnnounce, Goto, Inv, TypeOK, Call, Announces
  <2>3. notifications' = notifications
    BY <1>3 DEF SendAnnounce
  <2> QED
    BY <2>1, <2>2, <2>3, AnnouncesKept DEF Announces
<1>4. ASSUME NEW c \in Calls, NEW u, NEW v, NEW id,
             SendRequest(c, u, v) \/ RemoveFriend(c, u, v) \/ AcceptRequest(c, id, u)
      PROVE  AnnouncesItsOwn'
  <2>1. /\ \A d \in Calls : d # c => call'[d] = call[d]
        /\ call'[c].step \in {"friends?", "remove", "accept?"}
        /\ notifications' = notifications
    BY <1>4 DEF SendRequest, RemoveFriend, AcceptRequest, Inv, TypeOK
  <2> QED
    BY <2>1, AnnouncesKept DEF Announces
<1>5. ASSUME NEW id \in Ids, NEW u \in Users, RejectRequest(id, u) \/ MarkAsRead(id, u)
      PROVE  AnnouncesItsOwn'
  BY <1>5, AnnouncesKept DEF RejectRequest, MarkAsRead, Inv, TypeOK, Announces
<1>6. CASE UNCHANGED vars
  BY <1>6, AnnouncesKept DEF vars, Announces
<1>7. ASSUME NEW c \in Calls, Proceed(c)
      PROVE  AnnouncesItsOwn'
  BY <1>1, <1>2, <1>3, <1>7, AnnouncesInsert, AnnouncesNotify
     DEF Proceed, SendCheckFriends, SendCheckPending, SendRefused,
         AcceptCheckFriends, AcceptTransaction, AcceptRefused, RemoveDelete
<1>8. ASSUME NEW c \in Calls, Abort(c)
      PROVE  AnnouncesItsOwn'
  BY <1>1, <1>8 DEF Abort
<1>9. CASE Arrive
  BY <1>4, <1>5, <1>9 DEF Arrive
<1> QED
  BY <1>6, <1>7, <1>8, <1>9 DEF Next

-----------------------------------------------------------------------------
(* The abstract state, as Abstract sees it. *)

Asked == [id \in Known |-> [from |-> requests[id].senderId,
                            to   |-> requests[id].receiverId,
                            open |-> requests[id].status = "pending"]]
FriendPairs == {{p[1], p[2]} : p \in friendships}
Notified == {<<id, notifications[id].userId>> : id \in DOMAIN notifications}

\* A new row is a question asked.
LEMMA InsertAsks ==
  ASSUME Inv, NEW c \in Calls, SendInsert(c)
  PROVE  \E id \in Ids, a, b \in Users : Abstract!Ask(id, a, b)
<1>1. PICK a \in Users, b \in Users : a = call[c].user /\ b = call[c].other /\ a # b
  BY DEF SendInsert, Inv, LocalsOK
<1>2. PICK id \in Ids \ Known :
        requests' = [k \in Known \union {id} |->
            IF k = id THEN [senderId |-> a, receiverId |-> b, status |-> "pending"]
                      ELSE requests[k]]
  BY <1>1 DEF SendInsert
<1>3. /\ Known' = Known \union {id}
      /\ requests'[id] = [senderId |-> a, receiverId |-> b, status |-> "pending"]
      /\ \A k \in Known : requests'[k] = requests[k] /\ k # id
  BY <1>2 DEF Known
<1>4. Asked' = [k \in DOMAIN Asked \union {id} |->
                  IF k = id THEN [from |-> a, to |-> b, open |-> TRUE] ELSE Asked[k]]
  <2>1. DOMAIN Asked = Known
    BY DEF Asked
  <2>2. Asked'[id] = [from |-> a, to |-> b, open |-> TRUE]
    <3>1. Asked'[id] = [from |-> requests'[id].senderId, to |-> requests'[id].receiverId,
                        open |-> requests'[id].status = "pending"]
      BY <1>3 DEF Asked
    <3>2. (requests'[id].status = "pending") = TRUE
      BY <1>3
    <3>3. requests'[id].senderId = a /\ requests'[id].receiverId = b
      BY <1>3
    <3> QED
      BY <3>1, <3>2, <3>3, Zenon
  <2>3. \A k \in Known : Asked'[k] = Asked[k] /\ k # id
    BY <1>3 DEF Asked
  <2>4. Asked' = [k \in Known \union {id} |-> Asked'[k]]
    BY <1>3 DEF Asked
  <2> QED
    BY <2>1, <2>2, <2>3, <2>4
<1>5. \A k \in DOMAIN Asked : {Asked[k].from, Asked[k].to} = {a, b} => ~Asked[k].open
  BY <1>1 DEF Asked, SendInsert, UniquePending, IsPending, PairOf
<1>6. FriendPairs' = FriendPairs /\ Notified' = Notified
  BY DEF SendInsert, FriendPairs, Notified
<1>7. Abstract!Ask(id, a, b)
  BY <1>1, <1>2, <1>4, <1>5, <1>6 DEF Abstract!Ask, Abstract!Pair, Asked, FriendPairs, Notified
<1> QED
  BY <1>1, <1>7

\* The notification is written once.
LEMMA NotifyNotifies ==
  ASSUME Inv, AnnouncesItsOwn, NEW c \in Calls, OnFriendRequestSent(c)
  PROVE  \E id \in Ids : Abstract!Notify(id)
<1>1. PICK id \in Ids :
        /\ id = call[c].id /\ id \in Known /\ requests[id].receiverId = call[c].other
        /\ id \notin DOMAIN notifications
  BY DEF OnFriendRequestSent, Inv, TypeOK, LocalsOK, AnnouncesItsOwn, Announces
<1>2. /\ DOMAIN notifications' = DOMAIN notifications \union {id}
      /\ notifications'[id].userId = call[c].other
      /\ \A k \in DOMAIN notifications : notifications'[k] = notifications[k]
  BY <1>1 DEF OnFriendRequestSent
<1>3. Notified' = Notified \union {<<id, call[c].other>>}
  BY <1>2 DEF Notified
<1>4. \A u \in Users : <<id, u>> \notin Notified
  BY <1>1 DEF Notified
<1>5. Asked[id].to = call[c].other /\ id \in DOMAIN Asked
  BY <1>1 DEF Asked
<1>6. Asked' = Asked /\ FriendPairs' = FriendPairs
  BY DEF OnFriendRequestSent, Asked, FriendPairs, Known
<1>7. Abstract!Notify(id)
  BY <1>3, <1>4, <1>5, <1>6 DEF Abstract!Notify, Asked, FriendPairs, Notified
<1> QED
  BY <1>1, <1>7

\* A decision closes one question.
LEMMA DecideCloses ==
  ASSUME Inv, NEW id \in Known, NEW st \in {"accepted", "rejected"},
         requests' = [requests EXCEPT ![id].status = st]
  PROVE  Asked' = [Asked EXCEPT ![id].open = FALSE]
<1>1. /\ DOMAIN requests' = DOMAIN requests
      /\ \A k \in Known :
           /\ requests'[k].senderId = requests[k].senderId
           /\ requests'[k].receiverId = requests[k].receiverId
           /\ requests'[k].status = IF k = id THEN st ELSE requests[k].status
  BY DecideRequest
<1>2. \A k \in Known : Asked'[k] =
        IF k = id THEN [from |-> Asked[k].from, to |-> Asked[k].to, open |-> FALSE]
                  ELSE Asked[k]
  BY <1>1 DEF Asked, Known
<1>3. DOMAIN Asked' = Known /\ Asked' = [k \in Known |-> Asked'[k]]
  BY <1>1 DEF Asked, Known
<1>4. [Asked EXCEPT ![id].open = FALSE] = [k \in Known |->
        IF k = id THEN [from |-> Asked[k].from, to |-> Asked[k].to, open |-> FALSE]
                  ELSE Asked[k]]
  <2>1. [Asked[id] EXCEPT !.open = FALSE]
          = [from |-> Asked[id].from, to |-> Asked[id].to, open |-> FALSE]
    <3> DEFINE no == FALSE
    <3>1. [Asked[id] EXCEPT !.open = no]
            = [from |-> Asked[id].from, to |-> Asked[id].to, open |-> no]
      <4> HIDE DEF no
      <4> QED
        BY DEF Asked
    <3> QED
      BY <3>1
  <2>2. Asked = [k \in Known |-> Asked[k]]
    BY DEF Asked
  <2> QED
    BY <2>1, <2>2
<1> QED
  BY <1>2, <1>3, <1>4

\* Status and friendship change at once, in the abstract too.
LEMMA AcceptAccepts ==
  ASSUME Inv, NEW c \in Calls, AcceptTransaction(c)
  PROVE  \E id \in Ids : Abstract!Accept(id)
<1>1. PICK id \in Known, a \in Users, b \in Users :
        /\ id = call[c].id /\ a = call[c].other /\ b = call[c].user
        /\ requests[id].senderId = a /\ requests[id].receiverId = b /\ a # b
  BY DEF AcceptTransaction, Inv, LocalsOK, NobodyAsksHimself
<1>2. Asked' = [Asked EXCEPT ![id].open = FALSE]
  BY <1>1, DecideCloses DEF AcceptTransaction
<1>3. FriendPairs' = FriendPairs \union {{a, b}}
  <2>1. friendships' = friendships \union {SortedPair(a, b)}
    BY <1>1 DEF AcceptTransaction
  <2>2. {SortedPair(a, b)[1], SortedPair(a, b)[2]} = {a, b}
    BY <1>1, SortedPairOK
  <2> QED
    BY <2>1, <2>2 DEF FriendPairs
<1>4. {Asked[id].from, Asked[id].to} = {a, b} /\ id \in DOMAIN Asked
  BY <1>1 DEF Asked
<1>5. Notified' = Notified
  BY DEF AcceptTransaction, Notified
<1>6. Abstract!Accept(id)
  BY <1>2, <1>3, <1>4, <1>5 DEF Abstract!Accept, Abstract!Pair, Asked, FriendPairs, Notified
<1> QED
  BY <1>1, <1>6 DEF Inv, TypeOK

\* The one conditional update.
LEMMA RejectRejects ==
  ASSUME Inv, NEW id \in Ids, NEW u \in Users, RejectRequest(id, u)
  PROVE  Abstract!Reject(id)
<1>1. Asked' = [Asked EXCEPT ![id].open = FALSE]
  BY DecideCloses DEF RejectRequest, IsPending
<1>2. id \in DOMAIN Asked /\ Asked[id].open
  BY DEF RejectRequest, IsPending, Asked
<1>3. FriendPairs' = FriendPairs /\ Notified' = Notified
  BY DEF RejectRequest, FriendPairs, Notified
<1> QED
  BY <1>1, <1>2, <1>3 DEF Abstract!Reject, Asked, FriendPairs, Notified

\* The delete ends one friendship, or finds none.
LEMMA RemoveUnfriends ==
  ASSUME Inv, NEW c \in Calls, RemoveDelete(c)
  PROVE  (\E pair \in FriendPairs : Abstract!Unfriend(pair)) \/ UNCHANGED Abstract!vars
<1> DEFINE p == SortedPair(call[c].user, call[c].other)
<1>1. friendships' = friendships \ {p}
  BY DEF RemoveDelete
<1>2. Asked' = Asked /\ Notified' = Notified
  BY DEF RemoveDelete, Asked, Notified, Known
<1>3. CASE p \notin friendships
  <2>1. friendships' = friendships
    BY <1>1, <1>3
  <2>2. FriendPairs' = FriendPairs
    BY <2>1 DEF FriendPairs
  <2> QED
    BY <1>2, <2>2 DEF Abstract!vars, Asked, FriendPairs, Notified
<1>4. CASE p \in friendships
  <2>0. PICK pair \in FriendPairs : pair = {p[1], p[2]}
    BY <1>4 DEF FriendPairs
  <2>1. \A q \in friendships : {q[1], q[2]} = pair => q = p
    <3>1. \A q \in friendships : q \in Users \X Users /\ q[1] \in Nat /\ q[2] \in Nat /\ q[1] < q[2]
      BY UsersAssumption DEF Inv, TypeOK, FriendshipsBacked
    <3>2. ASSUME NEW q \in friendships, {q[1], q[2]} = pair PROVE q[1] = p[1] /\ q[2] = p[2]
      BY <1>4, <2>0, <3>1, <3>2
    <3> HIDE DEF p
    <3> QED
      BY <1>4, <3>1, <3>2
  <2>2. FriendPairs' = FriendPairs \ {pair}
    <3> HIDE DEF p
    <3>1. \A q \in friendships' : q \in friendships /\ q # p
      BY <1>1
    <3>2. \A q \in friendships : q # p => q \in friendships'
      BY <1>1
    <3> QED
      BY <1>4, <2>0, <2>1, <3>1, <3>2 DEF FriendPairs
  <2>3. Abstract!Unfriend(pair)
    BY <1>2, <2>2 DEF Abstract!Unfriend, Asked, FriendPairs, Notified
  <2> QED
    BY <2>3
<1> QED
  BY <1>3, <1>4

\* Reading a notification does not change whom it is for.
LEMMA ReadStutters ==
  ASSUME Inv, NEW id \in Ids, NEW u \in Users, MarkAsRead(id, u)
  PROVE  UNCHANGED Abstract!vars
<1>1. notifications \in [DOMAIN notifications -> Notification]
  BY DEF Inv, TypeOK
<1>2. /\ DOMAIN notifications' = DOMAIN notifications
      /\ \A k \in DOMAIN notifications : notifications'[k].userId = notifications[k].userId
  BY <1>1 DEF MarkAsRead, Notification
<1>3. Notified' = Notified
  BY <1>2 DEF Notified
<1>4. Asked' = Asked /\ FriendPairs' = FriendPairs
  BY DEF MarkAsRead, Asked, FriendPairs, Known
<1> QED
  BY <1>3, <1>4 DEF Abstract!vars, Asked, FriendPairs, Notified

\* Every step of a handler is one of Befriending, or none.
LEMMA RefinementStep ==
  ASSUME Inv, AnnouncesItsOwn, [Next]_vars
  PROVE  [Abstract!Next]_(Abstract!vars)
<1>1. CASE UNCHANGED <<requests, friendships, notifications>>
  BY <1>1 DEF Abstract!vars, Known
<1>2. ASSUME NEW c \in Calls, SendInsert(c) PROVE Abstract!Next
  BY <1>2, InsertAsks DEF Abstract!Next
<1>3. ASSUME NEW c \in Calls, OnFriendRequestSent(c) PROVE Abstract!Next
  BY <1>3, NotifyNotifies DEF Abstract!Next
<1>4. ASSUME NEW c \in Calls, AcceptTransaction(c) PROVE Abstract!Next
  BY <1>4, AcceptAccepts DEF Abstract!Next
<1>5. ASSUME NEW c \in Calls, RemoveDelete(c) PROVE Abstract!Next \/ UNCHANGED Abstract!vars
  BY <1>5, RemoveUnfriends DEF Abstract!Next, FriendPairs
<1>6. ASSUME NEW id \in Ids, NEW u \in Users, RejectRequest(id, u) PROVE Abstract!Next
  BY <1>6, RejectRejects DEF Abstract!Next
<1>7. ASSUME NEW c \in Calls, Proceed(c)
      PROVE  [Abstract!Next]_(Abstract!vars)
  BY <1>1, <1>2, <1>3, <1>4, <1>5, <1>7
     DEF Proceed, SendCheckFriends, SendCheckPending, SendRefused, SendAnnounce,
         AcceptCheckFriends, AcceptRefused
<1>8. CASE Arrive
  BY <1>1, <1>6, <1>8, ReadStutters DEF Arrive, SendRequest, RemoveFriend, AcceptRequest
<1> QED
  BY <1>1, <1>7, <1>8 DEF Next, Abort, vars

(***************************************************************************)
(* For any number of users, requests and overlapping calls, each handler   *)
(* of the friends' service is seen from outside as one step of Befriending *)
(* (friends.service.ts:30-134, notifications.service.ts:28-39).            *)
(***************************************************************************)
THEOREM FriendsImplements == Spec => ImplementsBefriending
<1>1. Init => Abstract!Init /\ AnnouncesItsOwn
  <2>1. ASSUME Init PROVE Abstract!Init
    BY <2>1 DEF Init, Abstract!Init, Known
  <2>2. ASSUME Init PROVE AnnouncesItsOwn
    BY <2>2 DEF Init, AnnouncesItsOwn, Announces, Idle
  <2> QED
    BY <2>1, <2>2
<1>2. Inv /\ AnnouncesItsOwn /\ [Next]_vars => AnnouncesItsOwn'
  BY AnnouncesStep
<1>3. Inv /\ AnnouncesItsOwn /\ [Next]_vars => [Abstract!Next]_(Abstract!vars)
  BY RefinementStep
<1> QED
  BY <1>1, <1>2, <1>3, InvCorrect, PTL DEF Spec, ImplementsBefriending, Abstract!Spec
=============================================================================
