------------------------------ MODULE Realtime ------------------------------
(***************************************************************************)
(* What open tabs are sent: Presence and Befriending together, the gateway *)
(* that sends their events to sockets, and the answers of getFriends,      *)
(* getFriend and getNotifications.  The services' own state changes by the *)
(* actions of the two modules; Friends implements the second.              *)
(*                                                                         *)
(* An answer takes three steps, and any event may come between them: the   *)
(* query reads its rows; the answer is composed of them and, for friends,  *)
(* of the statuses of that moment; it reaches the tab.  For notifications  *)
(* the first two are one, as nothing is added to the rows.                 *)
(*                                                                         *)
(* Of the front end it is taken that a tab asks when its socket is         *)
(* registered; that it keeps the status it was told last of each friend in *)
(* its list, and passes by an event about anybody else; and that it keeps  *)
(* every notification it is sent.                                          *)
(***************************************************************************)
EXTENDS Presence, FiniteSets

CONSTANT Ids  \* ids of friend requests

VARIABLES
  asked, friends, notified,  \* the tables, as Befriending sees them
  emitting,  \* notifications saved whose event has not gone out yet
  tab,       \* socket -> what its tab was sent, and what is on its way
  \* For properties only:
  steady,    \* user -> of the announcements under way none has overtaken
             \* another or was lost and no friend has left
  doubt      \* socket -> friends of whom its tab may show an old status

F == INSTANCE Befriending

presence == <<phase, token, connectionMap, announcing>>
tables   == <<asked, friends, notified>>
ghosts   == <<steady, doubt>>
allvars  == <<presence, tables, emitting, tab, ghosts>>

-----------------------------------------------------------------------------

Statuses == [Users -> PresenceStatus \union {NULL}]  \* NULL: not among them

ASSUME AnswerAssumption == NULL \notin Statuses

Tab == [seen   : Statuses,                      \* shown
        found  : {NULL} \union SUBSET Users,    \* getFriend(s) under way: rows,
        answer : {NULL} \union Statuses,        \* and then the answer
        inbox  : SUBSET Ids,                    \* notifications sent to it
        listed : {NULL} \union SUBSET Ids,      \* getNotifications under way
        told   : BOOLEAN]                       \* it has answered before

Nobody == [u \in Users |-> NULL]
Blank  == [seen |-> Nobody, found |-> NULL, answer |-> NULL,
           inbox |-> {}, listed |-> NULL, told |-> FALSE]

FriendsOf(u) == {v \in Users : {u, v} \in friends}

\* The notifications of a user.
Own(u) == {id \in Ids : <<id, u>> \in notified}

\* resolveSocketIds.
ResolveSocketIds(users) == UNION {connectionMap[u] : u \in users}

\* Sockets of these users with a client at the other end.
Reached(users) == {s \in ResolveSocketIds(users) : phase[s] = "open"}

\* An answer that gives a status of u is on its way to the tab.
Answered(s, u) == tab[s].answer # NULL /\ tab[s].answer[u] # NULL

\* What a tab shows of u, or will as soon as the answer on its way is there.
Due(s, u) == IF Answered(s, u) THEN tab[s].answer[u] ELSE tab[s].seen[u]

-----------------------------------------------------------------------------
(* Sockets come and go. *)

SocketStep(s) ==
  /\ \/ \E t \in Users \union {NULL} : HandleConnection(s, t)
     \/ Handle(s) \/ HandleDisconnect(s) \/ HandleDisconnectEarly(s)
  /\ tab' = [tab EXCEPT ![s] = Blank]
  /\ doubt' = [doubt EXCEPT ![s] = {}]
  /\ UNCHANGED <<tables, emitting, steady>>

-----------------------------------------------------------------------------
(* Announcements. *)

\* getFriends reads who is to hear the i-th announcement of u.
FriendsFound(u, i) ==
  LET inOrder == \A j \in 1 .. i - 1 : announcing[u][j].to # NULL IN
  /\ FriendsRead(u, i, FriendsOf(u))
  /\ steady' = [steady EXCEPT ![u] = @ /\ inOrder]
  /\ UNCHANGED <<tables, emitting, tab, doubt>>

\* Faulty variant: only one of a user's tabs is told.
TellOneTab(u, status, users) ==
  tab' = [s \in Sockets |->
    IF s \in Reached(users) /\ s = (CHOOSE r \in Reached({token[s]}) : TRUE)
                            /\ tab[s].seen[u] # NULL
      THEN [tab[s] EXCEPT !.seen[u] = status]
      ELSE tab[s]]

\* The user's friends are sent the status.
Tell(u, status, users) ==
  tab' = [s \in Sockets |->
    IF s \in Reached(users) /\ tab[s].seen[u] # NULL
      THEN [tab[s] EXCEPT !.seen[u] = status]
      ELSE tab[s]]

\* From now on what these tabs show of u may be old.
Doubt(u, sockets) ==
  doubt' = [s \in Sockets |->
    IF s \in sockets /\ Due(s, u) # NULL THEN doubt[s] \union {u} ELSE doubt[s]]

\* One that overtakes another may be followed by it.  One that comes before an
\* answer composed earlier is undone by it.
OnFriendStatusChanged(u, i) ==
  LET to == announcing[u][i].to IN
  /\ Emit(u, i)
  /\ Tell(u, announcing[u][i].status, to)
  /\ Doubt(u, IF i = 1 THEN {s \in Reached(to) : Answered(s, u)} ELSE Sockets)
  /\ steady' = [steady EXCEPT ![u] = announcing'[u] = <<>> \/ (@ /\ i = 1)]
  /\ UNCHANGED <<tables, emitting>>

\* Nobody is told.
AnnouncementLost(u, i) ==
  /\ GetFriendsFails(u, i)
  /\ Doubt(u, Sockets)
  /\ steady' = [steady EXCEPT ![u] = announcing'[u] = <<>>]
  /\ UNCHANGED <<tables, emitting, tab>>

-----------------------------------------------------------------------------
(* Requests, friendships, notifications. *)

FriendsStep ==
  /\ \E id \in Ids :
       \/ \E u, v \in Users : F!Ask(id, u, v)
       \/ F!Accept(id) \/ F!Reject(id)
  /\ UNCHANGED <<presence, emitting, tab, ghosts>>

\* Faulty variant: no event is emitted.
NotificationSavedSilent(id) ==
  /\ F!Notify(id)
  /\ UNCHANGED <<presence, emitting, tab, ghosts>>

\* onFriendRequestSent has saved the notification.
NotificationSaved(id) ==
  /\ F!Notify(id)
  /\ emitting' = emitting \union {id}
  /\ UNCHANGED <<presence, tab, ghosts>>

\* It goes on: notification.created reaches the receiver's tabs.
OnNotificationCreated(id) ==
  /\ id \in emitting
  /\ emitting' = emitting \ {id}
  /\ tab' = [s \in Sockets |->
       IF s \in Reached({u \in Users : id \in Own(u)})
         THEN [tab[s] EXCEPT !.inbox = @ \union {id}]
         ELSE tab[s]]
  /\ UNCHANGED <<presence, tables, ghosts>>

\* Tabs are not told, and go on showing whom they show.
Unfriended(pair) ==
  /\ F!Unfriend(pair)
  /\ doubt' = [s \in Sockets |->
       IF token[s] \in pair
         THEN doubt[s] \union {u \in Users : u \in pair /\ Due(s, u) # NULL}
         ELSE doubt[s]]
  /\ steady' = [u \in Users |-> steady[u] /\ (u \in pair => announcing[u] = <<>>)]
  /\ UNCHANGED <<presence, emitting, tab>>

-----------------------------------------------------------------------------
(* A tab asks, one question at a time. *)

Asking(s) == tab[s].found # NULL \/ tab[s].answer # NULL \/ tab[s].listed # NULL

\* getFriends has read its rows, or getFriend the friend's.  (Of an empty list
\* there is nothing to answer.)
GetFriends(s) ==
  /\ phase[s] = "open" /\ ~Asking(s) /\ FriendsOf(token[s]) # {}
  /\ \E rows \in {FriendsOf(token[s])} \union {{u} : u \in FriendsOf(token[s])} :
       tab' = [tab EXCEPT ![s].found = rows]
  /\ UNCHANGED <<presence, tables, emitting, ghosts>>

\* It answers with the statuses of that moment.
GetStatuses(s) ==
  LET rows == tab[s].found IN
  /\ rows # NULL
  /\ tab' = [tab EXCEPT ![s].found = NULL, ![s].answer =
       [u \in Users |-> IF u \in rows THEN GetStatus(u) ELSE NULL]]
  /\ doubt' = [doubt EXCEPT ![s] =
       (@ \ rows) \union {u \in rows : ~steady[u] \/ u \notin FriendsOf(token[s])}]
  /\ UNCHANGED <<presence, tables, emitting, steady>>

StatusesArrive(s) ==
  /\ tab[s].answer # NULL
  /\ tab' = [tab EXCEPT ![s].answer = NULL, ![s].seen =
       [u \in Users |-> IF Answered(s, u) THEN tab[s].answer[u] ELSE @[u]]]
  /\ UNCHANGED <<presence, tables, emitting, ghosts>>

\* getNotifications has read its rows.
GetNotifications(s) ==
  /\ phase[s] = "open" /\ ~Asking(s)
  /\ tab' = [tab EXCEPT ![s].listed = Own(token[s])]
  /\ UNCHANGED <<presence, tables, emitting, ghosts>>

NotificationsListed(s) ==
  /\ tab[s].listed # NULL
  /\ tab' = [tab EXCEPT ![s].inbox = @ \union tab[s].listed, ![s].listed = NULL,
                        ![s].told = TRUE]
  /\ UNCHANGED <<presence, tables, emitting, ghosts>>

-----------------------------------------------------------------------------

AllBlank  == [s \in Sockets |-> Blank]
NoDoubt   == [s \in Sockets |-> {}]
AllSteady == [u \in Users |-> TRUE]

RealtimeInit ==
  /\ Init /\ F!Init
  /\ emitting = {} /\ tab = AllBlank /\ steady = AllSteady /\ doubt = NoDoubt

\* The tables outlive the process.
RealtimeRestart ==
  /\ Restart
  /\ emitting' = {} /\ tab' = AllBlank /\ steady' = AllSteady /\ doubt' = NoDoubt
  /\ UNCHANGED tables

RealtimeNext ==
  \/ \E s \in Sockets :
       \/ SocketStep(s)
       \/ GetFriends(s) \/ GetStatuses(s) \/ StatusesArrive(s)
       \/ GetNotifications(s) \/ NotificationsListed(s)
  \/ \E u \in Users, i \in 1 .. MAX_IN_FLIGHT :
       FriendsFound(u, i) \/ OnFriendStatusChanged(u, i) \/ AnnouncementLost(u, i)
  \/ FriendsStep
  \/ \E id \in Ids : NotificationSaved(id) \/ OnNotificationCreated(id)
  \/ \E pair \in friends : Unfriended(pair)
  \/ RealtimeRestart

RealtimeSpec == RealtimeInit /\ [][RealtimeNext]_allvars

-----------------------------------------------------------------------------
(* Properties. *)

RealtimeTypeOK ==
  /\ TypeOK
  /\ emitting \subseteq Ids /\ tab \in [Sockets -> Tab]
  /\ steady \in [Users -> BOOLEAN] /\ doubt \in [Sockets -> SUBSET Users]

(***************************************************************************)
(* A tab that has asked for its friends shows a user's status once no      *)
(* announcement of it is under way: no order of asking, befriending,       *)
(* looking up, announcing, answering, opening and closing tabs leaves it   *)
(* with an older one, but in the cases of `doubt', where the code does     *)
(* leave it: an announcement has overtaken another or was lost, or came    *)
(* between an answer's composition and its arrival, or the two are no      *)
(* friends any more.  Then the answer to the tab's next question, composed *)
(* after the announcements concerned have gone, puts it right.  The status *)
(* changes in the map before friends are looked up and is read from the    *)
(* map after (presence.service.ts:21-33, friends.service.ts:136-154).      *)
(***************************************************************************)
FriendsSeeTheTruth ==
  \A s \in Sockets, u \in Users :
    Due(s, u) # NULL /\ u \notin doubt[s] /\ announcing[u] = <<>> =>
      Due(s, u) = GetStatus(u)

(***************************************************************************)
(* A tab whose question for notifications has been answered was sent, in   *)
(* answers or events, all that are saved for its user but those whose      *)
(* event is just about to go out, and never another user's: one saved      *)
(* between the query and the answer's arrival, or while the tab was        *)
(* opening, is in the one or the other (notifications.service.ts:17-22,    *)
(* 28-39, gateway.gateway.ts:64-77).                                       *)
(***************************************************************************)
NotificationsArrive ==
  \A s \in Sockets :
    phase[s] = "open" =>
      /\ tab[s].inbox \subseteq Own(token[s])
      /\ tab[s].told => Own(token[s]) \ emitting \subseteq tab[s].inbox
=============================================================================
