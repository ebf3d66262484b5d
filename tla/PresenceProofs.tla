--------------------------- MODULE PresenceProofs ---------------------------
(***************************************************************************)
(* Theorems about Presence: for any users, sockets and announcements under *)
(* way a live socket is registered for its own user and nobody else, and   *)
(* every change of a user's status is announced once.                      *)
(***************************************************************************)
EXTENDS Presence, SequenceTheorems, TLAPS

(***************************************************************************)
(* The inductive invariant.  LiveIsRegistered needs to know that a socket  *)
(* is not opened before its token named a user.                            *)
(***************************************************************************)
OpenHasUser == \A s \in Sockets : phase[s] = "open" => token[s] \in Users

Inv == TypeOK /\ OpenHasUser /\ LiveIsRegistered

\* A status looked up is one that can be announced.
LEMMA StatusType ==
  ASSUME NEW u \in Users
  PROVE  GetStatus(u) \in PresenceStatus
  BY DEF GetStatus, PresenceStatus

\* An announcement composed is of the type of those under way.
LEMMA AnnounceType ==
  ASSUME TypeOK, NEW u \in Users, NEW status \in PresenceStatus, Announce(u, status)
  PROVE  announcing' \in [Users -> Seq(Announcement)]
<1>1. New(status) \in Announcement
  BY DEF New, Announcement
<1>2. Append(announcing[u], New(status)) \in Seq(Announcement)
  BY <1>1 DEF TypeOK
<1> QED
  BY <1>2 DEF Announce, TypeOK

\* A removed element leaves a sequence of the same elements.
LEMMA RemoveAtType ==
  ASSUME NEW S, NEW q \in Seq(S), NEW i \in 1 .. Len(q)
  PROVE  RemoveAt(q, i) \in Seq(S)
<1>1. \A k \in 1 .. Len(q) : q[k] \in S
  BY ElementOfSeq
<1>2. Len(q) \in Nat
  BY LenProperties
<1>3. SubSeq(q, 1, i - 1) \in Seq(S)
  <2>1. 1 \in Int /\ i - 1 \in Int /\ \A k \in 1 .. i - 1 : q[k] \in S
    BY <1>1, <1>2
  <2> QED BY <2>1, SubSeqProperties
<1>4. SubSeq(q, i + 1, Len(q)) \in Seq(S)
  <2>1. i + 1 \in Int /\ Len(q) \in Int /\ \A k \in i + 1 .. Len(q) : q[k] \in S
    BY <1>1, <1>2
  <2> QED BY <2>1, SubSeqProperties
<1> QED
  BY <1>3, <1>4, ConcatProperties DEF RemoveAt

-----------------------------------------------------------------------------
(* Steps that register or unregister a socket. *)

\* A verified socket is registered, whether its client is still there or not.
LEMMA VerifiedStep ==
  ASSUME Inv, NEW s \in Sockets, Verified(s)
  PROVE  Inv'
<1> DEFINE u == token[s]
<1>1. u \in Users /\ phase[s] \in {"verifying", "lost"}
  BY DEF Verified, Inv, TypeOK
<1>2. /\ token' = token
      /\ phase' = [phase EXCEPT ![s] = IF @ = "lost" THEN "closed" ELSE "open"]
      /\ connectionMap' = [connectionMap EXCEPT ![u] = @ \union {s}]
      /\ IF IsOnline(u) THEN Silent ELSE Announce(u, "online")
  BY DEF Verified, OnClientConnected, SetOnline
<1>3. announcing' \in [Users -> Seq(Announcement)]
  BY <1>1, <1>2, AnnounceType DEF Silent, Inv, TypeOK, PresenceStatus
<1>4. TypeOK'
  BY <1>1, <1>2, <1>3 DEF Inv, TypeOK, Phases, PresenceStatus
<1>5. OpenHasUser'
  BY <1>1, <1>2 DEF Inv, TypeOK, OpenHasUser
<1>6. LiveIsRegistered'
  BY <1>1, <1>2 DEF Inv, TypeOK, LiveIsRegistered
<1> QED
  BY <1>4, <1>5, <1>6 DEF Inv

\* A live socket that closes is unregistered; no other socket is touched.
LEMMA DisconnectStep ==
  ASSUME Inv, NEW s \in Sockets, HandleDisconnect(s)
  PROVE  Inv'
<1> DEFINE u == token[s]
<1>1. u \in Users /\ phase[s] = "open"
  BY DEF HandleDisconnect, Inv, OpenHasUser
<1>2. /\ token' = [token EXCEPT ![s] = NULL]
      /\ phase' = [phase EXCEPT ![s] = "closed"]
      /\ connectionMap' = [connectionMap EXCEPT ![u] = @ \ {s}]
      /\ IF connectionMap'[u] # {} THEN Silent ELSE Announce(u, "offline")
  BY DEF HandleDisconnect, OnClientDisconnected, SetOffline
<1>4. announcing' \in [Users -> Seq(Announcement)]
  BY <1>1, <1>2, AnnounceType DEF Silent, Inv, TypeOK, PresenceStatus
<1>5. TypeOK'
  BY <1>1, <1>2, <1>4 DEF Inv, TypeOK, Phases, PresenceStatus
<1>6. OpenHasUser'
  BY <1>1, <1>2 DEF Inv, TypeOK, OpenHasUser
<1>7. LiveIsRegistered'
  BY <1>1, <1>2 DEF Inv, TypeOK, LiveIsRegistered
<1> QED
  BY <1>5, <1>6, <1>7 DEF Inv

-----------------------------------------------------------------------------
(* Steps of sockets nobody knows the user of, and of announcements. *)

\* A socket connects, is turned away, or goes before it was verified.
LEMMA ConnectionStep ==
  ASSUME Inv, NEW s \in Sockets,
         \/ \E t \in Users \union {NULL} : HandleConnection(s, t)
         \/ NotVerified(s) \/ HandleDisconnectEarly(s)
  PROVE  Inv'
<1>1. UNCHANGED <<connectionMap, announcing>>
  BY DEF HandleConnection, NotVerified, HandleDisconnectEarly
<1>3. CASE \E t \in Users \union {NULL} : HandleConnection(s, t)
  BY <1>1, <1>3
     DEF HandleConnection, Inv, TypeOK, Phases, OpenHasUser, LiveIsRegistered
<1>4. CASE NotVerified(s)
  <2>1. token[s] \notin Users
    BY <1>4, NullAssumption DEF NotVerified
  <2>2. /\ token' = token
        /\ phase' = [phase EXCEPT ![s] = "closed"]
        /\ phase[s] \in {"verifying", "lost"}
    BY <1>4 DEF NotVerified
  <2> QED
    BY <1>1, <2>1, <2>2 DEF Inv, TypeOK, Phases, OpenHasUser, LiveIsRegistered
<1>5. CASE HandleDisconnectEarly(s)
  BY <1>1, <1>5
     DEF HandleDisconnectEarly, Inv, TypeOK, Phases, OpenHasUser, LiveIsRegistered
<1> QED BY <1>3, <1>4, <1>5

\* What happens to an announcement that has been composed changes no status.
LEMMA AnnouncementStep ==
  ASSUME Inv, NEW u \in Users, NEW i,
         \/ \E f \in SUBSET Users : FriendsRead(u, i, f)
         \/ Emit(u, i) \/ GetFriendsFails(u, i)
  PROVE  Inv'
<1>1. UNCHANGED <<phase, token, connectionMap>> /\ i \in 1 .. Len(announcing[u])
  BY DEF FriendsRead, Emit, GetFriendsFails, Leave
<1>2. announcing[u] \in Seq(Announcement)
  BY DEF Inv, TypeOK
<1>3. announcing' \in [Users -> Seq(Announcement)]
  <2>1. CASE \E f \in SUBSET Users : FriendsRead(u, i, f)
    <3>1. PICK f \in SUBSET Users : FriendsRead(u, i, f)
      BY <2>1
    <3> DEFINE a == [announcing[u][i] EXCEPT !.to = f]
    <3>2. announcing[u][i] \in Announcement
      BY <1>1, <1>2, ElementOfSeq
    <3>3. a \in Announcement
      BY <3>2 DEF Announcement
    <3>4. [announcing[u] EXCEPT ![i] = a] \in Seq(Announcement)
      BY <1>1, <1>2, <3>3, ExceptSeq
    <3>5. announcing' = [announcing EXCEPT ![u] = [announcing[u] EXCEPT ![i] = a]]
      BY <3>1 DEF FriendsRead
    <3> QED
      BY <3>4, <3>5 DEF Inv, TypeOK
  <2>2. CASE Emit(u, i) \/ GetFriendsFails(u, i)
    <3>1. announcing' = [announcing EXCEPT ![u] = RemoveAt(announcing[u], i)]
      BY <2>2 DEF Emit, GetFriendsFails, Leave
    <3>2. RemoveAt(announcing[u], i) \in Seq(Announcement)
      BY <1>1, <1>2, RemoveAtType
    <3> QED
      BY <3>1, <3>2 DEF Inv, TypeOK
  <2> QED BY <2>1, <2>2
<1> QED
  BY <1>1, <1>3 DEF Inv, TypeOK, OpenHasUser, LiveIsRegistered

-----------------------------------------------------------------------------

\* Nobody is connected at the start, nor after a restart.
LEMMA EmptyInv ==
  ASSUME phase = AllClosed, token = NoTokens, connectionMap = EmptyMap,
         announcing = NothingNew
  PROVE  Inv
<1>1. TypeOK
  BY EmptySeq DEF TypeOK, AllClosed, NoTokens, EmptyMap, NothingNew,
                  Phases, PresenceStatus
<1> QED
  BY <1>1 DEF Inv, OpenHasUser, LiveIsRegistered, AllClosed, EmptyMap

\* A restart closes every socket and empties the map.
LEMMA RestartStep ==
  ASSUME Restart
  PROVE  Inv'
<1>1. TypeOK'
  BY EmptySeq DEF Restart, TypeOK, AllClosed, NoTokens, EmptyMap, NothingNew,
                  Phases, PresenceStatus
<1> QED
  BY <1>1 DEF Restart, Inv, OpenHasUser, LiveIsRegistered, AllClosed, EmptyMap

\* Every step keeps the invariant.
LEMMA NextStep ==
  ASSUME Inv, [Next]_vars
  PROVE  Inv'
<1>1. CASE \E s \in Sockets : Verified(s)
  BY <1>1, VerifiedStep
<1>2. CASE \E s \in Sockets : HandleDisconnect(s)
  BY <1>2, DisconnectStep
<1>3. CASE \E s \in Sockets :
             \/ \E t \in Users \union {NULL} : HandleConnection(s, t)
             \/ NotVerified(s) \/ HandleDisconnectEarly(s)
  BY <1>3, ConnectionStep
<1>4. CASE \E u \in Users, i \in 1 .. MAX_IN_FLIGHT :
             \/ \E f \in SUBSET Users : FriendsRead(u, i, f)
             \/ Emit(u, i) \/ GetFriendsFails(u, i)
  BY <1>4, AnnouncementStep
<1>5. CASE Restart
  BY <1>5, RestartStep
<1>6. CASE UNCHANGED vars
  BY <1>6 DEF vars, Inv, TypeOK, OpenHasUser, LiveIsRegistered
<1> QED
  BY <1>1, <1>2, <1>3, <1>4, <1>5, <1>6 DEF Next, Handle

(***************************************************************************)
(* The connection map, the sockets and the announcements keep in step, for *)
(* any users and sockets (connection-registry.service.ts:13-26,            *)
(* presence.service.ts:17-55).                                             *)
(***************************************************************************)
THEOREM PresenceCorrect == Spec => []Inv
<1>1. Init => Inv
  BY EmptyInv DEF Init
<1>2. Inv /\ [Next]_vars => Inv'
  BY NextStep
<1> QED
  BY <1>1, <1>2, PTL DEF Spec

-----------------------------------------------------------------------------
(* What is announced. *)

\* A change of a user's status is announced to come, and nothing else.
Says(u) ==
  announcing'[u] = IF GetStatus(u)' # GetStatus(u)
                     THEN Append(announcing[u], New(GetStatus(u)'))
                     ELSE announcing[u]

\* The body of EachChangeOnce for one user.
OnceFor(u) ==
  Says(u) \/ (GetStatus(u)' = GetStatus(u) /\ Proceeds(announcing[u], announcing'[u]))

\* A user whose sockets and announcements stay the same needs none.
LEMMA NothingToSay ==
  ASSUME NEW u \in Users, connectionMap'[u] = connectionMap[u], announcing'[u] = announcing[u]
  PROVE  Says(u)
  BY DEF Says, GetStatus, IsOnline

\* The first socket of a user makes it online; no other does.
LEMMA VerifiedOnce ==
  ASSUME Inv, NEW s \in Sockets, Verified(s), NEW u \in Users
  PROVE  Says(u)
<1> DEFINE v == token[s]
<1>1. /\ v \in Users
      /\ connectionMap' = [connectionMap EXCEPT ![v] = @ \union {s}]
      /\ IF IsOnline(v) THEN Silent ELSE Announce(v, "online")
  BY DEF Verified, OnClientConnected, SetOnline, Inv, TypeOK
<1>2. CASE u # v
  <2>1. connectionMap'[u] = connectionMap[u] /\ announcing'[u] = announcing[u]
    BY <1>1, <1>2 DEF Silent, Announce, Inv, TypeOK
  <2> QED
    BY <2>1, NothingToSay
<1>3. CASE u = v
  <2>1. connectionMap'[u] # {}
    BY <1>1, <1>3 DEF Inv, TypeOK
  <2>2. CASE IsOnline(u)
    BY <1>1, <1>3, <2>1, <2>2 DEF Silent, Says, GetStatus, IsOnline
  <2>3. CASE ~IsOnline(u)
    BY <1>1, <1>3, <2>1, <2>3 DEF Announce, Says, GetStatus, IsOnline, Inv, TypeOK
  <2> QED
    BY <2>2, <2>3
<1> QED
  BY <1>2, <1>3

\* The last socket of a user makes it offline; no other does.
LEMMA DisconnectOnce ==
  ASSUME Inv, NEW s \in Sockets, HandleDisconnect(s), NEW u \in Users
  PROVE  Says(u)
<1> DEFINE v == token[s]
<1>1. /\ v \in Users /\ phase[s] = "open"
      /\ connectionMap' = [connectionMap EXCEPT ![v] = @ \ {s}]
      /\ IF connectionMap'[v] # {} THEN Silent ELSE Announce(v, "offline")
  BY DEF HandleDisconnect, OnClientDisconnected, SetOffline, Inv, OpenHasUser
<1>2. CASE u # v
  <2>1. connectionMap'[u] = connectionMap[u] /\ announcing'[u] = announcing[u]
    BY <1>1, <1>2 DEF Silent, Announce, Inv, TypeOK
  <2> QED
    BY <2>1, NothingToSay
<1>3. CASE u = v
  <2>1. IsOnline(u)
    BY <1>1, <1>3 DEF Inv, LiveIsRegistered, IsOnline
  <2>2. CASE connectionMap'[u] # {}
    BY <1>1, <1>3, <2>1, <2>2 DEF Silent, Says, GetStatus, IsOnline
  <2>3. CASE connectionMap'[u] = {}
    BY <1>1, <1>3, <2>1, <2>3 DEF Announce, Says, GetStatus, IsOnline, Inv, TypeOK
  <2> QED
    BY <2>2, <2>3
<1> QED
  BY <1>2, <1>3

\* What happens to an announcement makes no other.
LEMMA AnnouncementOnce ==
  ASSUME Inv, NEW v \in Users, NEW i,
         \/ \E f \in SUBSET Users : FriendsRead(v, i, f)
         \/ Emit(v, i) \/ GetFriendsFails(v, i),
         NEW u \in Users
  PROVE  OnceFor(u)
<1>1. UNCHANGED connectionMap /\ i \in 1 .. Len(announcing[v])
  BY DEF FriendsRead, Emit, GetFriendsFails, Leave
<1>2. CASE u # v
  <2>1. announcing'[u] = announcing[u]
    BY <1>2 DEF FriendsRead, Emit, GetFriendsFails, Leave, Inv, TypeOK
  <2> QED
    BY <1>1, <2>1, NothingToSay DEF OnceFor
<1>3. CASE u = v
  <2>1. Proceeds(announcing[u], announcing'[u])
    <3>1. CASE \E f \in SUBSET Users : FriendsRead(v, i, f)
      <4>1. PICK f \in SUBSET Users : FriendsRead(v, i, f)
        BY <3>1
      <4> DEFINE A == announcing[u]
                 B == announcing'[u]
      <4>2. i \in 1 .. Len(A) /\ A[i].to = NULL /\ B = [A EXCEPT ![i].to = f]
        BY <1>1, <1>3, <4>1 DEF FriendsRead, Inv, TypeOK
      <4> HIDE DEF A, B
      <4>3. Proceeds(A, B)
        BY <4>2, Zenon DEF Proceeds
      <4> QED
        BY <4>3 DEF A, B
    <3>2. CASE Emit(v, i) \/ GetFriendsFails(v, i)
      <4>1. announcing'[u] = RemoveAt(announcing[u], i)
        BY <1>3, <3>2 DEF Emit, GetFriendsFails, Leave, Inv, TypeOK
      <4> QED
        BY <1>1, <1>3, <4>1 DEF Proceeds
    <3> QED
      BY <3>1, <3>2
  <2> QED
    BY <1>1, <2>1 DEF OnceFor, GetStatus, IsOnline
<1> QED
  BY <1>2, <1>3

(***************************************************************************)
(* Each change of a user's status is announced, once, with the status it   *)
(* changed to, and nothing else is, for any number of tabs that overlap    *)
(* (presence.service.ts:21-24, 41-42).                                     *)
(***************************************************************************)
THEOREM OnceCorrect == Spec => EachChangeOnce
<1>1. ASSUME Inv, [Next]_vars, ~Restart, NEW u \in Users
      PROVE  OnceFor(u)
  <2>1. CASE \E s \in Sockets : Verified(s) \/ HandleDisconnect(s)
    BY <1>1, <2>1, VerifiedOnce, DisconnectOnce DEF OnceFor
  <2>2. CASE \/ UNCHANGED vars
             \/ \E s \in Sockets :
                  \/ \E t \in Users \union {NULL} : HandleConnection(s, t)
                  \/ NotVerified(s) \/ HandleDisconnectEarly(s)
    <3>1. UNCHANGED <<connectionMap, announcing>>
      BY <2>2 DEF vars, HandleConnection, NotVerified, HandleDisconnectEarly
    <3> QED
      BY <3>1, NothingToSay DEF OnceFor
  <2>3. CASE \E v \in Users, i \in 1 .. MAX_IN_FLIGHT :
               \/ \E f \in SUBSET Users : FriendsRead(v, i, f)
               \/ Emit(v, i) \/ GetFriendsFails(v, i)
    BY <1>1, <2>3, AnnouncementOnce
  <2> QED
    BY <1>1, <2>1, <2>2, <2>3 DEF Next, Handle
<1>2. Inv /\ [Next]_vars =>
        [~Restart => \A u \in Users :
           IF GetStatus(u)' # GetStatus(u)
             THEN announcing'[u] = Append(announcing[u], New(GetStatus(u)'))
             ELSE announcing'[u] = announcing[u] \/ Proceeds(announcing[u], announcing'[u])]_vars
  BY <1>1 DEF OnceFor, Says
<1> QED
  BY <1>2, PresenceCorrect, PTL DEF Spec, EachChangeOnce
=============================================================================
