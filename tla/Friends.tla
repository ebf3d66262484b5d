------------------------------ MODULE Friends ------------------------------
(***************************************************************************)
(* Friend requests, friendships and the notifications they cause: the     *)
(* tables friend_requests, friendships and notifications, the handlers of  *)
(* FriendsService, and NotificationsService, which hears of a request      *)
(* through the event emitter.                                              *)
(*                                                                         *)
(* Every handler checks first and writes later, in separate database       *)
(* calls, so calls of the two users of a pair interleave between the check *)
(* and the write.  An action is one database call with the code that runs  *)
(* after it up to the next call.                                           *)
(***************************************************************************)
EXTENDS Integers, FiniteSets

CONSTANTS
  Users,   \* user ids, compared as the code and PostgreSQL order their text
  Ids,     \* ids for the rows of friend_requests
  Calls,   \* slots for handlers in flight at the same time
  NULL     \* null and undefined

ASSUME UsersAssumption == Users \subseteq Nat
ASSUME NullAssumption  == NULL \notin Nat \union Ids

VARIABLES
  requests,       \* request id -> row
  friendships,    \* rows <<user1Id, user2Id>>
  notifications,  \* request that caused it -> row; the row has its own uuid
  call,           \* call -> where its handler stands, and its locals
  lost            \* requests whose sendRequest failed before the notification,
                  \* for properties

vars == <<requests, friendships, notifications, call, lost>>

-----------------------------------------------------------------------------
(* Data. *)

Status == {"pending", "accepted", "rejected"}
Request == [senderId : Users, receiverId : Users, status : Status]
Notification == [userId : Users, read : BOOLEAN]

Steps == {"idle",
          "friends?", "pending?", "insert", "sender", "notify",  \* sendRequest
          "accept?", "accept",                                   \* acceptRequest
          "remove"}                                              \* removeFriend

\* `user' is the caller, `other' the user the call is about.
Call == [step : Steps, user : Users \union {NULL}, other : Users \union {NULL},
         id : Ids \union {NULL}]
Idle == [step |-> "idle", user |-> NULL, other |-> NULL, id |-> NULL]

\* [a, b].sort(): what CHECK ("user1Id" < "user2Id") asks for.
SortedPair(a, b) == IF a < b THEN <<a, b>> ELSE <<b, a>>

AreFriends(a, b) == <<a, b>> \in friendships \/ <<b, a>> \in friendships

Known == DOMAIN requests
PairOf(id) == {requests[id].senderId, requests[id].receiverId}
IsPending(id) == id \in Known /\ requests[id].status = "pending"

\* A pending request in either direction.
PendingBetween(a, b) == \E id \in Known : IsPending(id) /\ PairOf(id) = {a, b}

\* Faulty variant: without the migration's index.
UniquePendingNone(a, b) == TRUE

\* unique_pending_request_pair: LEAST/GREATEST make it an index on the pair.
UniquePending(a, b) ==
  ~ \E id \in Known : IsPending(id) /\ PairOf(id) = {a, b}

-----------------------------------------------------------------------------

Goto(c, step) == call' = [call EXCEPT ![c].step = step]
Finish(c)     == call' = [call EXCEPT ![c] = Idle]

(***************************************************************************)
(* sendRequest.                                                            *)
(***************************************************************************)

\* The friend code names another user; one's own code ends in a 400.
SendRequest(c, s, r) ==
  /\ call[c].step = "idle" /\ s # r
  /\ call' = [call EXCEPT ![c] =
       [step |-> "friends?", user |-> s, other |-> r, id |-> NULL]]
  /\ UNCHANGED <<requests, friendships, notifications, lost>>

SendCheckFriends(c) ==
  /\ call[c].step = "friends?"
  /\ IF AreFriends(call[c].user, call[c].other) THEN Finish(c) ELSE Goto(c, "pending?")
  /\ UNCHANGED <<requests, friendships, notifications, lost>>

SendCheckPending(c) ==
  /\ call[c].step = "pending?"
  /\ IF PendingBetween(call[c].user, call[c].other) THEN Finish(c) ELSE Goto(c, "insert")
  /\ UNCHANGED <<requests, friendships, notifications, lost>>

\* Faulty variant: the id save() returned is not kept.
SendInsertNoId(c) ==
  LET s == call[c].user
      r == call[c].other IN
  /\ call[c].step = "insert" /\ UniquePending(s, r)
  /\ \E id \in Ids \ Known :
       requests' = [k \in Known \union {id} |->
            IF k = id THEN [senderId |-> s, receiverId |-> r, status |-> "pending"]
                      ELSE requests[k]]
  /\ Goto(c, "sender")
  /\ UNCHANGED <<friendships, notifications, lost>>

SendInsert(c) ==
  LET s == call[c].user
      r == call[c].other IN
  /\ call[c].step = "insert" /\ UniquePending(s, r)
  /\ \E id \in Ids \ Known :
       /\ requests' = [k \in Known \union {id} |->
            IF k = id THEN [senderId |-> s, receiverId |-> r, status |-> "pending"]
                      ELSE requests[k]]
       /\ call' = [call EXCEPT ![c].step = "sender", ![c].id = id]
  /\ UNCHANGED <<friendships, notifications, lost>>

\* The index refuses the second of two requests that both passed the checks.
SendRefused(c) ==
  /\ call[c].step = "insert" /\ ~UniquePending(call[c].user, call[c].other)
  /\ Finish(c)
  /\ UNCHANGED <<requests, friendships, notifications, lost>>

\* Faulty variant: the event is not emitted.
SendAnnounceSilent(c) ==
  /\ call[c].step = "sender"
  /\ Finish(c)
  /\ UNCHANGED <<requests, friendships, notifications, lost>>

\* getUserById; friend.request.sent goes out and the sender is answered.
SendAnnounce(c) ==
  /\ call[c].step = "sender"
  /\ Goto(c, "notify")
  /\ UNCHANGED <<requests, friendships, notifications, lost>>

\* Faulty variant: the sender is notified.
OnFriendRequestSentToSender(c) ==
  /\ call[c].step = "notify"
  /\ notifications' = [k \in DOMAIN notifications \union {call[c].id} |->
       IF k = call[c].id THEN [userId |-> call[c].user, read |-> FALSE]
                         ELSE notifications[k]]
  /\ Finish(c)
  /\ UNCHANGED <<requests, friendships, lost>>

\* NotificationsService.onFriendRequestSent saves the recipient's notification.
OnFriendRequestSent(c) ==
  /\ call[c].step = "notify"
  /\ notifications' = [k \in DOMAIN notifications \union {call[c].id} |->
       IF k = call[c].id THEN [userId |-> call[c].other, read |-> FALSE]
                         ELSE notifications[k]]
  /\ Finish(c)
  /\ UNCHANGED <<requests, friendships, lost>>

(***************************************************************************)
(* acceptRequest.  The first read finds the request pending; what the      *)
(* transaction writes at the end looks at neither status nor friendship.   *)
(***************************************************************************)

AcceptRequest(c, id, u) ==
  /\ call[c].step = "idle"
  /\ IsPending(id) /\ requests[id].receiverId = u
  /\ call' = [call EXCEPT ![c] =
       [step |-> "accept?", user |-> u, other |-> requests[id].senderId, id |-> id]]
  /\ UNCHANGED <<requests, friendships, notifications, lost>>

AcceptCheckFriends(c) ==
  /\ call[c].step = "accept?"
  /\ IF AreFriends(call[c].other, call[c].user) THEN Finish(c) ELSE Goto(c, "accept")
  /\ UNCHANGED <<requests, friendships, notifications, lost>>

\* Faulty variant: the update is forgotten, or left out of the transaction
\* and lost.
AcceptTransactionHalf(c) ==
  /\ call[c].step = "accept"
  /\ friendships' = friendships \union {SortedPair(call[c].other, call[c].user)}
  /\ Finish(c)
  /\ UNCHANGED <<requests, notifications, lost>>

\* save() of a row that is there already writes nothing; the update follows.
AcceptTransaction(c) ==
  /\ call[c].step = "accept"
  /\ friendships' = friendships \union {SortedPair(call[c].other, call[c].user)}
  /\ requests' = [requests EXCEPT ![call[c].id].status = "accepted"]
  /\ Finish(c)
  /\ UNCHANGED <<notifications, lost>>

\* Another transaction inserted the row after save() looked: the key refuses
\* it and nothing of this transaction stays.
AcceptRefused(c) ==
  /\ call[c].step = "accept"
  /\ SortedPair(call[c].other, call[c].user) \in friendships
  /\ Finish(c)
  /\ UNCHANGED <<requests, friendships, notifications, lost>>

\* Faulty variant: any request of the caller can be rejected.
RejectRequestAny(id, u) ==
  /\ id \in Known /\ requests[id].receiverId = u
  /\ requests' = [requests EXCEPT ![id].status = "rejected"]
  /\ UNCHANGED <<friendships, notifications, call, lost>>

\* rejectRequest is one conditional update.
RejectRequest(id, u) ==
  /\ IsPending(id) /\ requests[id].receiverId = u
  /\ requests' = [requests EXCEPT ![id].status = "rejected"]
  /\ UNCHANGED <<friendships, notifications, call, lost>>

(***************************************************************************)
(* removeFriend.                                                           *)
(***************************************************************************)

RemoveFriend(c, u, f) ==
  /\ call[c].step = "idle" /\ AreFriends(u, f)
  /\ call' = [call EXCEPT ![c] =
       [step |-> "remove", user |-> u, other |-> f, id |-> NULL]]
  /\ UNCHANGED <<requests, friendships, notifications, lost>>

RemoveDelete(c) ==
  /\ call[c].step = "remove"
  /\ friendships' = friendships \ {SortedPair(call[c].user, call[c].other)}
  /\ Finish(c)
  /\ UNCHANGED <<requests, notifications, lost>>

MarkAsRead(id, u) ==
  /\ id \in DOMAIN notifications /\ notifications[id].userId = u
  /\ notifications' = [notifications EXCEPT ![id].read = TRUE]
  /\ UNCHANGED <<requests, friendships, call, lost>>

\* A database call rejects, or the process dies.
Abort(c) ==
  /\ call[c].step # "idle"
  /\ Finish(c)
  /\ lost' = IF call[c].step \in {"sender", "notify"} THEN lost \union {call[c].id} ELSE lost
  /\ UNCHANGED <<requests, friendships, notifications>>

-----------------------------------------------------------------------------

Init ==
  /\ requests = [k \in {} |-> NULL]
  /\ friendships = {}
  /\ notifications = [k \in {} |-> NULL]
  /\ call = [c \in Calls |-> Idle]
  /\ lost = {}

\* A user's client calls the service.
Arrive ==
  \/ \E c \in Calls, u, v \in Users : SendRequest(c, u, v) \/ RemoveFriend(c, u, v)
  \/ \E c \in Calls, id \in Ids, u \in Users : AcceptRequest(c, id, u)
  \/ \E id \in Ids, u \in Users : RejectRequest(id, u) \/ MarkAsRead(id, u)

\* A handler that has started goes on.
Proceed(c) ==
  \/ SendCheckFriends(c) \/ SendCheckPending(c)
  \/ SendInsert(c) \/ SendRefused(c)
  \/ SendAnnounce(c) \/ OnFriendRequestSent(c)
  \/ AcceptCheckFriends(c) \/ AcceptTransaction(c) \/ AcceptRefused(c)
  \/ RemoveDelete(c)

Next == Arrive \/ \E c \in Calls : Proceed(c) \/ Abort(c)

Spec == Init /\ [][Next]_vars

\* The database answers every call, so a started handler goes on, or fails;
\* nothing obliges a client to call.
Fairness == \A c \in Calls : WF_vars(Proceed(c))

FairSpec == Spec /\ Fairness

-----------------------------------------------------------------------------
(* Properties. *)

TypeOK ==
  /\ Known \subseteq Ids /\ requests \in [Known -> Request]
  /\ friendships \subseteq Users \X Users
  /\ DOMAIN notifications \subseteq Ids
  /\ notifications \in [DOMAIN notifications -> Notification]
  /\ call \in [Calls -> Call]
  /\ lost \subseteq Known

(***************************************************************************)
(* Between two users at most one request is pending, in whatever order and *)
(* direction both send, although the check (friends.service.ts:43-50) and  *)
(* the insert (line 52) are two calls.                                     *)
(***************************************************************************)
OnePendingPerPair ==
  \A i, j \in Known :
    IsPending(i) /\ IsPending(j) /\ PairOf(i) = PairOf(j) => i = j

(***************************************************************************)
(* Every friendship is stored once, lower id first, and rests on a request *)
(* between its two users that its receiver accepted and nobody rejected    *)
(* since (friends.service.ts:77-83, 86-91): the transaction never leaves   *)
(* one half, and a rejection that comes late does not undo it.             *)
(***************************************************************************)
FriendshipsBacked ==
  \A p \in friendships :
    /\ p[1] < p[2]
    /\ \E id \in Known : requests[id].status = "accepted" /\ PairOf(id) = {p[1], p[2]}

\* A step that keeps the users of every request and the decision made on it.
KeepsDecisions ==
  \A id \in Known :
    /\ id \in Known' /\ PairOf(id)' = PairOf(id)
    /\ requests[id].status = "accepted" => requests'[id].status = "accepted"
    /\ requests'[id].status = "pending" => requests[id].status = "pending"

(***************************************************************************)
(* A request never changes hands, never becomes pending again, and once    *)
(* accepted stays accepted, whatever acceptances and rejections of it are  *)
(* still in flight (friends.service.ts:68-91).                             *)
(***************************************************************************)
AcceptedIsFinal == [][KeepsDecisions]_vars

(***************************************************************************)
(* Only somebody who was really asked is notified of a request             *)
(* (notifications.service.ts:28-39), and the notification outlives both    *)
(* the request's decision and the friendship.                              *)
(***************************************************************************)
NotifiesTheReceiver ==
  \A id \in DOMAIN notifications :
    id \in Known /\ notifications[id].userId = requests[id].receiverId

(***************************************************************************)
(* Seen from outside, each handler is one step, whatever it interleaves    *)
(* with between its checks and its write: Befriending says which.          *)
(***************************************************************************)
Abstract == INSTANCE Befriending WITH
  asked    <- [id \in Known |-> [from |-> requests[id].senderId,
                                 to   |-> requests[id].receiverId,
                                 open |-> requests[id].status = "pending"]],
  friends  <- {{p[1], p[2]} : p \in friendships},
  notified <- {<<id, notifications[id].userId>> : id \in DOMAIN notifications}

ImplementsBefriending == Abstract!Spec

(***************************************************************************)
(* Whoever is asked is notified in the end, even when the request has been *)
(* decided before the notification is written, unless the very call that   *)
(* asked has failed (friends.service.ts:52-55).                            *)
(***************************************************************************)
RequestNotified ==
  \A id \in Ids : id \in Known ~> id \in DOMAIN notifications \union lost

(***************************************************************************)
(* 'Already friends' (friends.service.ts:40-41): no request is pending     *)
(* between friends.                                                        *)
(***************************************************************************)
NoPendingBetweenFriends ==
  \A id \in Known : IsPending(id) =>
    ~AreFriends(requests[id].senderId, requests[id].receiverId)
=============================================================================
