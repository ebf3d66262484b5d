------------------------------ MODULE Presence ------------------------------
(***************************************************************************)
(* Who is online: AppGateway's connect and disconnect handlers, the        *)
(* in-memory map of ConnectionRegistryService, and PresenceService, which  *)
(* announces a user's first connection and last disconnection to friends.  *)
(*                                                                         *)
(* The event emitter calls its listeners in the same turn, so a handler    *)
(* runs without interruption up to its next await.  There are two of       *)
(* those: handleConnection awaits the token's verification before it       *)
(* registers the socket, and an announcement awaits getFriends before it   *)
(* goes out.  Who a user's friends are is the database's affair: here it   *)
(* may be anybody, and Realtime says who.                                  *)
(***************************************************************************)
EXTENDS Integers, Sequences, SequencesExt

CONSTANTS
  Users,
  Sockets,       \* socket ids; one is reused here when nothing refers to it
  NULL,          \* nothing; no user: the handshake's token does not verify
  MAX_IN_FLIGHT  \* bound of the model: announcements under way at a time

ASSUME BoundAssumption == MAX_IN_FLIGHT \in Nat /\ MAX_IN_FLIGHT >= 1
ASSUME NullAssumption  == NULL \notin Users \union {"online", "offline"}

VARIABLES
  phase,          \* socket -> where its connection and its handler stand
  token,          \* socket -> the user its handshake's token names, while it lives
  connectionMap,  \* user -> the sockets registered for it
  announcing      \* user -> announcements waiting for getFriends, oldest first

vars == <<phase, token, connectionMap, announcing>>

-----------------------------------------------------------------------------

\* "lost": the client went away while handleConnection was verifying.
Phases == {"closed", "verifying", "lost", "open"}
PresenceStatus == {"online", "offline"}

\* `to': the friends found, NULL as long as the query is under way.
Announcement == [status : PresenceStatus, to : {NULL} \union SUBSET Users]

IsOnline(u) == connectionMap[u] # {}
GetStatus(u) == IF IsOnline(u) THEN "online" ELSE "offline"

\* Faulty variant: an entry is dropped as a whole.
SetOfflineAll(u, s) == connectionMap' = [connectionMap EXCEPT ![u] = {}]

SetOnline(u, s)  == connectionMap' = [connectionMap EXCEPT ![u] = @ \union {s}]
SetOffline(u, s) == connectionMap' = [connectionMap EXCEPT ![u] = @ \ {s}]

New(status) == [status |-> status, to |-> NULL]

\* Faulty variant: the announcement carries the enum's key, not its value.
AnnounceKey(u, status) ==
  announcing' = [announcing EXCEPT ![u] =
    Append(@, New(IF status = "online" THEN "Online" ELSE "Offline"))]

\* The announcement is composed; getFriends is asked who is to hear it.
Announce(u, status) ==
  announcing' = [announcing EXCEPT ![u] = Append(@, New(status))]

Silent == UNCHANGED announcing

\* Faulty variant: isOnline is asked after the socket has been added.
OnClientConnectedLateCheck(u, s) ==
  /\ SetOnline(u, s)
  /\ IF connectionMap'[u] # {} THEN Silent ELSE Announce(u, "online")

\* onClientConnected: the first socket of a user is announced.
OnClientConnected(u, s) ==
  /\ SetOnline(u, s)
  /\ IF IsOnline(u) THEN Silent ELSE Announce(u, "online")

\* Faulty variant: isOnline is not asked.
OnClientDisconnectedAlways(u, s) == SetOffline(u, s) /\ Announce(u, "offline")

\* onClientDisconnected: the last one is.
OnClientDisconnected(u, s) ==
  /\ SetOffline(u, s)
  /\ IF connectionMap'[u] # {} THEN Silent ELSE Announce(u, "offline")

-----------------------------------------------------------------------------

\* The bound on announcements under way.
Room == MapThenSumSet(LAMBDA u : Len(announcing[u]), Users) < MAX_IN_FLIGHT

\* handleConnection starts; the socket has an id nobody has used.
HandleConnection(s, t) ==
  /\ phase[s] = "closed" /\ \A u \in Users : s \notin connectionMap[u]
  /\ phase' = [phase EXCEPT ![s] = "verifying"]
  /\ token' = [token EXCEPT ![s] = t]
  /\ UNCHANGED <<connectionMap, announcing>>

\* Verified: the socket is registered, also when its client is gone by now.
Verified(s) ==
  LET u == token[s] IN
  /\ phase[s] \in {"verifying", "lost"} /\ u # NULL /\ Room
  /\ phase' = [phase EXCEPT ![s] = IF @ = "lost" THEN "closed" ELSE "open"]
  /\ OnClientConnected(u, s)
  /\ UNCHANGED token

\* Not verified: the socket is disconnected and has no userId.
NotVerified(s) ==
  /\ phase[s] \in {"verifying", "lost"} /\ token[s] = NULL
  /\ phase' = [phase EXCEPT ![s] = "closed"]
  /\ UNCHANGED <<token, connectionMap, announcing>>

\* handleDisconnect of a socket that has its userId.
HandleDisconnect(s) ==
  LET u == token[s] IN
  /\ phase[s] = "open" /\ Room
  /\ phase' = [phase EXCEPT ![s] = "closed"]
  /\ token' = [token EXCEPT ![s] = NULL]
  /\ OnClientDisconnected(u, s)

\* handleDisconnect of a socket that has none yet: it returns.
HandleDisconnectEarly(s) ==
  /\ phase[s] = "verifying"
  /\ phase' = [phase EXCEPT ![s] = "lost"]
  /\ UNCHANGED <<token, connectionMap, announcing>>

\* getFriends reads the friends of u for the i-th announcement.
FriendsRead(u, i, friendsOfU) ==
  /\ i \in 1 .. Len(announcing[u]) /\ announcing[u][i].to = NULL
  /\ announcing' = [announcing EXCEPT ![u][i].to = friendsOfU]
  /\ UNCHANGED <<phase, token, connectionMap>>

\* The i-th announcement leaves the queue: it goes out, or its query failed.
Leave(u, i) ==
  /\ announcing' = [announcing EXCEPT ![u] = RemoveAt(@, i)]
  /\ UNCHANGED <<phase, token, connectionMap>>

\* friend.status.changed is emitted.
Emit(u, i) ==
  /\ i \in 1 .. Len(announcing[u]) /\ announcing[u][i].to # NULL
  /\ Leave(u, i)

\* getFriends has failed: the announcement is lost.
GetFriendsFails(u, i) == i \in 1 .. Len(announcing[u]) /\ Leave(u, i)

-----------------------------------------------------------------------------

AllClosed  == [s \in Sockets |-> "closed"]
NoTokens   == [s \in Sockets |-> NULL]
EmptyMap   == [u \in Users |-> {}]
NothingNew == [u \in Users |-> <<>>]

Init ==
  /\ phase = AllClosed /\ token = NoTokens /\ connectionMap = EmptyMap
  /\ announcing = NothingNew

\* The process dies and starts again; friends reconnect and ask afresh.
Restart ==
  /\ phase' = AllClosed /\ token' = NoTokens /\ connectionMap' = EmptyMap
  /\ announcing' = NothingNew

Handle(s) == Verified(s) \/ NotVerified(s)

Next ==
  \/ \E s \in Sockets :
       \/ \E t \in Users \union {NULL} : HandleConnection(s, t)
       \/ Handle(s) \/ HandleDisconnect(s) \/ HandleDisconnectEarly(s)
  \/ \E u \in Users, i \in 1 .. MAX_IN_FLIGHT :
       \/ \E f \in SUBSET Users : FriendsRead(u, i, f)
       \/ Emit(u, i) \/ GetFriendsFails(u, i)
  \/ Restart

Spec == Init /\ [][Next]_vars

-----------------------------------------------------------------------------
(* Properties. *)

TypeOK ==
  /\ phase \in [Sockets -> Phases]
  /\ token \in [Sockets -> Users \union {NULL}]
  /\ connectionMap \in [Users -> SUBSET Sockets]
  /\ announcing \in [Users -> Seq(Announcement)]

(***************************************************************************)
(* A live, verified socket is registered for its own user and no other:    *)
(* closing one tab never makes a user offline, or deaf to notifications,   *)
(* while another tab is open (connection-registry.service.ts:20-22).  A    *)
(* registered socket that is closed is one whose client went away while    *)
(* the token was being verified: nothing ever unregisters it.              *)
(***************************************************************************)
LiveIsRegistered ==
  \A s \in Sockets, u \in Users :
    /\ phase[s] = "open" /\ token[s] = u => s \in connectionMap[u]
    /\ s \in connectionMap[u] => token[s] = u /\ phase[s] \in {"open", "closed"}

\* The line of announcements of u goes from one to the other without a new one:
\* friends have been found for an announcement, or one has left.
Proceeds(before, after) ==
  \E i \in 1 .. Len(before) :
    \/ after = RemoveAt(before, i)
    \/ before[i].to = NULL /\ \E f \in SUBSET Users : after = [before EXCEPT ![i].to = f]

(***************************************************************************)
(* Each change of a user's status is announced, once, with the status it   *)
(* changed to and to the friends there are from then on, and nothing else  *)
(* is announced, however the tabs of a user overlap: isOnline is asked     *)
(* before setOnline and after setOffline, with no await in between         *)
(* (presence.service.ts:21-24, 41-42).  Only a restart makes users offline *)
(* without a word.                                                         *)
(***************************************************************************)
EachChangeOnce ==
  [][~Restart => \A u \in Users :
       IF GetStatus(u)' # GetStatus(u)
         THEN announcing'[u] = Append(announcing[u], New(GetStatus(u)'))
         ELSE announcing'[u] = announcing[u] \/ Proceeds(announcing[u], announcing'[u])]_vars
=============================================================================
