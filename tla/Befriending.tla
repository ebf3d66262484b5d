---------------------------- MODULE Befriending ----------------------------
(***************************************************************************)
(* What the friends' service promises to the rest of the program, as if    *)
(* each of its handlers were one step: at most one request between two     *)
(* users is open, nobody becomes a friend who was not asked by the other,  *)
(* and only who was asked is notified of it, once.  Friends implements it. *)
(***************************************************************************)
CONSTANTS Users, Ids

VARIABLES
  asked,     \* request id -> who asked whom, and whether that is undecided
  friends,   \* pairs of users
  notified   \* notifications written: <<request, user>>

vars == <<asked, friends, notified>>

-----------------------------------------------------------------------------

Pair(id) == {asked[id].from, asked[id].to}

Ask(id, a, b) ==
  /\ id \notin DOMAIN asked /\ a # b
  /\ \A k \in DOMAIN asked : Pair(k) = {a, b} => ~asked[k].open
  /\ asked' = [k \in DOMAIN asked \union {id} |->
       IF k = id THEN [from |-> a, to |-> b, open |-> TRUE] ELSE asked[k]]
  /\ UNCHANGED <<friends, notified>>

Notify(id) ==
  /\ id \in DOMAIN asked /\ \A u \in Users : <<id, u>> \notin notified
  /\ notified' = notified \union {<<id, asked[id].to>>}
  /\ UNCHANGED <<asked, friends>>

\* An acceptance may come late: the request has been decided on already.
Accept(id) ==
  /\ id \in DOMAIN asked
  /\ asked' = [asked EXCEPT ![id].open = FALSE]
  /\ friends' = friends \union {Pair(id)}
  /\ UNCHANGED notified

Reject(id) ==
  /\ id \in DOMAIN asked /\ asked[id].open
  /\ asked' = [asked EXCEPT ![id].open = FALSE]
  /\ UNCHANGED <<friends, notified>>

Unfriend(pair) ==
  /\ pair \in friends
  /\ friends' = friends \ {pair}
  /\ UNCHANGED <<asked, notified>>

Init == asked = [k \in {} |-> {}] /\ friends = {} /\ notified = {}

Next ==
  \/ \E id \in Ids :
       \/ \E a, b \in Users : Ask(id, a, b)
       \/ Notify(id) \/ Accept(id) \/ Reject(id)
  \/ \E pair \in friends : Unfriend(pair)

Spec == Init /\ [][Next]_vars
=============================================================================
