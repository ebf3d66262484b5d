--------------------------- MODULE RealtimeProofs ---------------------------
(***************************************************************************)
(* Theorems about Realtime: its sockets and announcements behave as        *)
(* Presence says, whatever tabs and friendships do; and for any users,     *)
(* sockets and requests, tabs are sent the notifications there are, and    *)
(* show the statuses their users' friends have but where `doubt' says they *)
(* may not.                                                                *)
(***************************************************************************)
EXTENDS Realtime, PresenceProofs

\* What does not concern sockets and announcements leaves them alone.
LEMMA StepImplements ==
  ASSUME [RealtimeNext]_allvars
  PROVE  [Next]_vars
<1> USE DEF vars, presence
<1>1. CASE \E s \in Sockets : SocketStep(s)
  BY <1>1 DEF SocketStep, Next
<1>2. CASE \E u \in Users, i \in 1 .. MAX_IN_FLIGHT : FriendsFound(u, i)
  <2>1. \A u \in Users : FriendsOf(u) \in SUBSET Users
    BY DEF FriendsOf
  <2> QED
    BY <1>2, <2>1 DEF FriendsFound, Next
<1>3. CASE \E u \in Users, i \in 1 .. MAX_IN_FLIGHT :
             OnFriendStatusChanged(u, i) \/ AnnouncementLost(u, i)
  BY <1>3 DEF OnFriendStatusChanged, AnnouncementLost, Next
<1>4. CASE \E s \in Sockets : GetFriends(s) \/ GetStatuses(s) \/ StatusesArrive(s)
                              \/ GetNotifications(s) \/ NotificationsListed(s)
  BY <1>4 DEF GetFriends, GetStatuses, StatusesArrive, GetNotifications, NotificationsListed
<1>5. CASE \/ FriendsStep
           \/ \E id \in Ids : NotificationSaved(id) \/ OnNotificationCreated(id)
           \/ \E pair \in friends : Unfriended(pair)
  BY <1>5 DEF FriendsStep, NotificationSaved, OnNotificationCreated, Unfriended
<1>6. CASE RealtimeRestart
  BY <1>6 DEF RealtimeRestart, Next
<1>7. CASE UNCHANGED allvars
  BY <1>7 DEF allvars
<1> QED
  BY <1>1, <1>2, <1>3, <1>4, <1>5, <1>6, <1>7 DEF RealtimeNext

(***************************************************************************)
(* The composition adds nothing to what Presence allows.                   *)
(***************************************************************************)
THEOREM RealtimeImplementsPresence == RealtimeSpec => Spec
<1>1. RealtimeInit => Init
  BY DEF RealtimeInit
<1>2. [RealtimeNext]_allvars => [Next]_vars
  BY StepImplements
<1> QED
  BY <1>1, <1>2, PTL DEF RealtimeSpec, Spec

(***************************************************************************)
(* A live socket is registered for its own user only, in any composition   *)
(* of tabs and friendships (connection-registry.service.ts:20-22).         *)
(***************************************************************************)
THEOREM LiveCorrect == RealtimeSpec => []LiveIsRegistered
<1>1. Inv => LiveIsRegistered
  BY DEF Inv
<1> QED
  BY <1>1, RealtimeImplementsPresence, PresenceCorrect, PTL

(***************************************************************************)
(* Each change of a user's status is announced once, in any composition    *)
(* (presence.service.ts:21-24, 41-42).                                     *)
(***************************************************************************)
THEOREM AnnouncedCorrect == RealtimeSpec => EachChangeOnce
  BY RealtimeImplementsPresence, OnceCorrect, PTL

-----------------------------------------------------------------------------
(* What tabs hold, field by field. *)

\* A tab that has asked for nothing and is told nothing.
LEMMA BlankTab ==
  /\ Blank \in Tab /\ Blank.seen = Nobody /\ Blank.found = NULL /\ Blank.answer = NULL
  /\ Blank.inbox = {} /\ Blank.listed = NULL /\ Blank.told = FALSE
<1>1. Nobody \in Statuses
  BY DEF Nobody, Statuses
<1> HIDE DEF Nobody
<1> QED
  BY <1>1 DEF Blank, Tab

\* Two tabs with the same notifications, and two with the same friends.
SameMail(t, r) == t.inbox = r.inbox /\ t.listed = r.listed /\ t.told = r.told
SameFriends(t, r) == t.seen = r.seen /\ t.found = r.found /\ t.answer = r.answer

\* Each step's change to a tab, as a new value of some of its fields.
LEMMA TabFields ==
  ASSUME NEW t \in Tab
  PROVE  /\ \A f \in Statuses :
              LET r == [t EXCEPT !.seen = f] IN
              r \in Tab /\ SameMail(r, t) /\ r.seen = f /\ r.found = t.found /\ r.answer = t.answer
         /\ \A g \in {NULL} \union SUBSET Users :
              LET r == [t EXCEPT !.found = g] IN
              r \in Tab /\ SameMail(r, t) /\ r.seen = t.seen /\ r.found = g /\ r.answer = t.answer
         /\ \A a \in Statuses :
              LET r == [t EXCEPT !.found = NULL, !.answer = a] IN
              r \in Tab /\ SameMail(r, t) /\ r.seen = t.seen /\ r.found = NULL /\ r.answer = a
         /\ \A f \in Statuses :
              LET r == [t EXCEPT !.answer = NULL, !.seen = f] IN
              r \in Tab /\ SameMail(r, t) /\ r.seen = f /\ r.found = t.found /\ r.answer = NULL
  BY DEF Tab, SameMail

\* The same for notifications.
LEMMA MailFields ==
  ASSUME NEW t \in Tab
  PROVE  /\ \A b \in SUBSET Ids :
              LET r == [t EXCEPT !.inbox = b] IN
              r \in Tab /\ SameFriends(r, t) /\ r.inbox = b /\ r.listed = t.listed /\ r.told = t.told
         /\ \A b \in SUBSET Ids :
              LET r == [t EXCEPT !.listed = b] IN
              r \in Tab /\ SameFriends(r, t) /\ r.inbox = t.inbox /\ r.listed = b /\ r.told = t.told
         /\ \A b \in SUBSET Ids :
              LET r == [t EXCEPT !.inbox = b, !.listed = NULL, !.told = TRUE] IN
              r \in Tab /\ SameFriends(r, t) /\ r.inbox = b /\ r.listed = NULL /\ r.told = TRUE
  BY DEF Tab, SameFriends

\* One entry of what a tab shows changes to a status.
LEMMA SeenChanges ==
  ASSUME NEW t \in Tab, NEW u \in Users, NEW x \in PresenceStatus
  PROVE  LET r == [t EXCEPT !.seen[u] = x] IN
         /\ r \in Tab /\ SameMail(r, t) /\ r.found = t.found /\ r.answer = t.answer
         /\ r.seen = [t.seen EXCEPT ![u] = x]
<1> DEFINE f == [t.seen EXCEPT ![u] = x]
<1>1. f \in Statuses
  BY DEF Tab, Statuses
<1>2. [t EXCEPT !.seen[u] = x] = [t EXCEPT !.seen = f]
  OBVIOUS
<1> HIDE DEF f
<1>3. LET r == [t EXCEPT !.seen = f] IN
      r \in Tab /\ SameMail(r, t) /\ r.seen = f /\ r.found = t.found /\ r.answer = t.answer
  BY <1>1, TabFields
<1> QED
  BY <1>2, <1>3 DEF f

-----------------------------------------------------------------------------
(* What steps do to tabs. *)

TabsTyped == tab \in [Sockets -> Tab]

\* All tabs but that of s stay as they are.
OnlyTab(s) == TabsTyped' /\ \A r \in Sockets \ {s} : tab'[r] = tab[r]

\* A new value for one tab.
LEMMA Replaced ==
  ASSUME TabsTyped, NEW s \in Sockets, NEW r \in Tab, tab' = [tab EXCEPT ![s] = r]
  PROVE  OnlyTab(s) /\ tab'[s] = r
  BY DEF TabsTyped, OnlyTab

\* A tab's socket comes or goes.
LEMMA SocketTab ==
  ASSUME TabsTyped, NEW s \in Sockets, SocketStep(s)
  PROVE  OnlyTab(s) /\ tab'[s] = Blank
<1>1. tab' = [tab EXCEPT ![s] = Blank]
  BY DEF SocketStep
<1> QED
  BY <1>1, BlankTab, Replaced

\* getFriends reads some of the user's friends.
LEMMA GetFriendsTab ==
  ASSUME TabsTyped, NEW s \in Sockets, GetFriends(s)
  PROVE  /\ OnlyTab(s) /\ SameMail(tab'[s], tab[s])
         /\ tab'[s].seen = tab[s].seen /\ tab'[s].answer = tab[s].answer
<1>1. PICK rows \in SUBSET Users : tab' = [tab EXCEPT ![s].found = rows]
  BY DEF GetFriends, FriendsOf
<1>2. tab' = [tab EXCEPT ![s] = [tab[s] EXCEPT !.found = rows]]
  BY <1>1
<1> DEFINE r == [tab[s] EXCEPT !.found = rows]
<1>0. tab[s] \in Tab
  BY DEF TabsTyped
<1>3. r \in Tab /\ SameMail(r, tab[s]) /\ r.seen = tab[s].seen /\ r.answer = tab[s].answer
  BY <1>0, TabFields, ZenonT(60)
<1>4. tab' = [tab EXCEPT ![s] = r]
  BY <1>2
<1> HIDE DEF r
<1>5. tab'[s] = r /\ OnlyTab(s)
  BY <1>3, <1>4, Replaced
<1> QED
  BY <1>3, <1>5

\* The answer is composed.
LEMMA GetStatusesTab ==
  ASSUME TabsTyped, NEW s \in Sockets, GetStatuses(s)
  PROVE  /\ OnlyTab(s) /\ SameMail(tab'[s], tab[s])
         /\ tab'[s].seen = tab[s].seen /\ tab'[s].found = NULL
         /\ tab'[s].answer =
              [u \in Users |-> IF u \in tab[s].found THEN GetStatus(u) ELSE NULL]
<1> DEFINE a == [u \in Users |-> IF u \in tab[s].found THEN GetStatus(u) ELSE NULL]
           r == [tab[s] EXCEPT !.found = NULL, !.answer = a]
<1>1. tab' = [tab EXCEPT ![s] = r]
  BY DEF GetStatuses
<1>2. a \in Statuses
  BY StatusType DEF Statuses
<1> HIDE DEF a
<1>0. tab[s] \in Tab
  BY DEF TabsTyped
<1>3. r \in Tab /\ SameMail(r, tab[s]) /\ r.seen = tab[s].seen /\ r.found = NULL /\ r.answer = a
  BY <1>2, <1>0, TabFields, ZenonT(60)
<1> HIDE DEF r
<1>4. tab'[s] = r /\ OnlyTab(s)
  BY <1>1, <1>3, Replaced
<1> QED
  BY <1>3, <1>4 DEF a

\* The answer arrives.
LEMMA StatusesArriveTab ==
  ASSUME TabsTyped, NEW s \in Sockets, StatusesArrive(s)
  PROVE  /\ OnlyTab(s) /\ SameMail(tab'[s], tab[s])
         /\ tab'[s].answer = NULL /\ tab'[s].found = tab[s].found
         /\ tab'[s].seen =
              [u \in Users |-> IF Answered(s, u) THEN tab[s].answer[u] ELSE tab[s].seen[u]]
<1> DEFINE f == [u \in Users |-> IF Answered(s, u) THEN tab[s].answer[u] ELSE tab[s].seen[u]]
           r == [tab[s] EXCEPT !.answer = NULL, !.seen = f]
<1>1. tab' = [tab EXCEPT ![s] = r]
  BY DEF StatusesArrive
<1>2. f \in Statuses
  BY DEF TabsTyped, Tab, Statuses, Answered
<1> HIDE DEF f
<1>0. tab[s] \in Tab
  BY DEF TabsTyped
<1>3. r \in Tab /\ SameMail(r, tab[s]) /\ r.seen = f /\ r.found = tab[s].found /\ r.answer = NULL
  BY <1>2, <1>0, TabFields, ZenonT(60)
<1> HIDE DEF r
<1>4. tab'[s] = r /\ OnlyTab(s)
  BY <1>1, <1>3, Replaced
<1>5. /\ SameMail(tab'[s], tab[s]) /\ tab'[s].answer = NULL
      /\ tab'[s].found = tab[s].found /\ tab'[s].seen = f
  BY <1>3, <1>4
<1> QED
  BY <1>4, <1>5 DEF f

\* Notifications are read for a tab.
LEMMA GetNotificationsTab ==
  ASSUME TabsTyped, NEW s \in Sockets, GetNotifications(s)
  PROVE  /\ OnlyTab(s) /\ SameFriends(tab'[s], tab[s])
         /\ tab'[s].inbox = tab[s].inbox /\ tab'[s].told = tab[s].told
         /\ tab'[s].listed = Own(token[s])
<1> DEFINE b == Own(token[s])
           r == [tab[s] EXCEPT !.listed = b]
<1>1. tab' = [tab EXCEPT ![s] = r]
  BY DEF GetNotifications
<1>2. b \in SUBSET Ids
  BY DEF Own
<1> HIDE DEF b
<1>3. r \in Tab /\ SameFriends(r, tab[s]) /\ r.inbox = tab[s].inbox /\ r.listed = b
      /\ r.told = tab[s].told
  BY <1>2, MailFields DEF TabsTyped
<1> HIDE DEF r
<1>4. tab'[s] = r /\ OnlyTab(s)
  BY <1>1, <1>3, Replaced
<1>5. /\ SameFriends(tab'[s], tab[s]) /\ tab'[s].inbox = tab[s].inbox
      /\ tab'[s].told = tab[s].told /\ tab'[s].listed = b
  BY <1>3, <1>4
<1> QED
  BY <1>4, <1>5 DEF b

\* They arrive.
LEMMA NotificationsListedTab ==
  ASSUME TabsTyped, NEW s \in Sockets, NotificationsListed(s)
  PROVE  /\ OnlyTab(s) /\ SameFriends(tab'[s], tab[s])
         /\ tab[s].listed # NULL /\ tab'[s].listed = NULL /\ tab'[s].told = TRUE
         /\ tab'[s].inbox = tab[s].inbox \union tab[s].listed
<1> DEFINE b == tab[s].inbox \union tab[s].listed
           r == [tab[s] EXCEPT !.inbox = b, !.listed = NULL, !.told = TRUE]
<1>1. tab' = [tab EXCEPT ![s] = r] /\ tab[s].listed # NULL
  BY DEF NotificationsListed
<1>2. b \in SUBSET Ids
  BY <1>1 DEF TabsTyped, Tab
<1> HIDE DEF b
<1>3. r \in Tab /\ SameFriends(r, tab[s]) /\ r.inbox = b /\ r.listed = NULL /\ r.told = TRUE
  BY <1>2, MailFields DEF TabsTyped
<1> HIDE DEF r
<1>4. tab'[s] = r /\ OnlyTab(s)
  BY <1>1, <1>3, Replaced
<1>5. /\ SameFriends(tab'[s], tab[s]) /\ tab'[s].listed = NULL
      /\ tab'[s].told = TRUE /\ tab'[s].inbox = b
  BY <1>3, <1>4
<1> QED
  BY <1>1, <1>4, <1>5 DEF b

\* An event reaches the receiver's tabs.
LEMMA CreatedTabs ==
  ASSUME TabsTyped, NEW id \in Ids, OnNotificationCreated(id)
  PROVE  /\ TabsTyped'
         /\ \A s \in Sockets :
              /\ SameFriends(tab'[s], tab[s])
              /\ tab'[s].listed = tab[s].listed /\ tab'[s].told = tab[s].told
              /\ tab'[s].inbox = IF s \in Reached({u \in Users : id \in Own(u)})
                                   THEN tab[s].inbox \union {id} ELSE tab[s].inbox
<1> DEFINE R == Reached({u \in Users : id \in Own(u)})
           b(s) == tab[s].inbox \union {id}
<1>1. tab' = [s \in Sockets |-> IF s \in R THEN [tab[s] EXCEPT !.inbox = b(s)] ELSE tab[s]]
  BY DEF OnNotificationCreated
<1>2. \A s \in Sockets : tab[s] \in Tab /\ b(s) \in SUBSET Ids
  BY DEF TabsTyped, Tab
<1> HIDE DEF b, R
<1>3. ASSUME NEW s \in Sockets
      PROVE  LET r == [tab[s] EXCEPT !.inbox = b(s)] IN
             /\ r \in Tab /\ SameFriends(r, tab[s]) /\ r.inbox = b(s)
             /\ r.listed = tab[s].listed /\ r.told = tab[s].told
  <2> DEFINE c == b(s)
  <2>1. c \in SUBSET Ids /\ tab[s] \in Tab
    BY <1>2
  <2> HIDE DEF c
  <2>2. LET r == [tab[s] EXCEPT !.inbox = c] IN
        /\ r \in Tab /\ SameFriends(r, tab[s]) /\ r.inbox = c
        /\ r.listed = tab[s].listed /\ r.told = tab[s].told
    BY <2>1, MailFields, ZenonT(60)
  <2> QED
    BY <2>2 DEF c
<1>4. \A s \in Sockets : tab[s] \in Tab /\ SameFriends(tab[s], tab[s])
  BY <1>2 DEF SameFriends
<1>5. ASSUME NEW s \in Sockets
      PROVE  /\ tab'[s] \in Tab /\ SameFriends(tab'[s], tab[s])
             /\ tab'[s].listed = tab[s].listed /\ tab'[s].told = tab[s].told
             /\ tab'[s].inbox = IF s \in R THEN b(s) ELSE tab[s].inbox
  <2>1. CASE s \in R
    <3>1. tab'[s] = [tab[s] EXCEPT !.inbox = b(s)]
      BY <1>1, <2>1
    <3> QED
      BY <1>3, <2>1, <3>1
  <2>2. CASE s \notin R
    <3>1. tab'[s] = tab[s]
      BY <1>1, <2>2
    <3> QED
      BY <1>4, <2>2, <3>1
  <2> QED
    BY <2>1, <2>2
<1>6. TabsTyped'
  BY <1>1, <1>5 DEF TabsTyped
<1> QED
  BY <1>5, <1>6 DEF b, R

\* What has been announced is a status.
LEMMA AnnouncedStatus ==
  ASSUME TypeOK, NEW u \in Users, NEW i \in 1 .. Len(announcing[u])
  PROVE  announcing[u][i].status \in PresenceStatus
<1>1. announcing[u] \in Seq(Announcement)
  BY DEF TypeOK
<1>2. announcing[u][i] \in Announcement
  BY <1>1, ElementOfSeq
<1> QED
  BY <1>2 DEF Announcement

\* A status is told: entries of u change, in the tabs that are reached.
LEMMA TellTabs ==
  ASSUME TabsTyped, NEW u \in Users, NEW status \in PresenceStatus, NEW to, Tell(u, status, to)
  PROVE  /\ TabsTyped'
         /\ \A s \in Sockets :
              /\ SameMail(tab'[s], tab[s])
              /\ tab'[s].found = tab[s].found /\ tab'[s].answer = tab[s].answer
              /\ tab'[s].seen = IF s \in Reached(to) /\ tab[s].seen[u] # NULL
                                  THEN [tab[s].seen EXCEPT ![u] = status] ELSE tab[s].seen
<1> DEFINE R == {s \in Sockets : s \in Reached(to) /\ tab[s].seen[u] # NULL}
           r(s) == [tab[s] EXCEPT !.seen[u] = status]
<1>1. tab' = [s \in Sockets |-> IF s \in R THEN r(s) ELSE tab[s]]
  BY DEF Tell
<1>2. \A s \in Sockets :
        /\ r(s) \in Tab /\ SameMail(r(s), tab[s]) /\ r(s).found = tab[s].found
        /\ r(s).answer = tab[s].answer /\ r(s).seen = [tab[s].seen EXCEPT ![u] = status]
  <2>1. \A s \in Sockets : tab[s] \in Tab
    BY DEF TabsTyped
  <2> QED
    BY <2>1, SeenChanges
<1>3. \A s \in Sockets : s \in R <=> s \in Reached(to) /\ tab[s].seen[u] # NULL
  OBVIOUS
<1> HIDE DEF r, R
<1>4. \A s \in Sockets : tab[s] \in Tab /\ SameMail(tab[s], tab[s])
  BY DEF TabsTyped, SameMail
<1>5. ASSUME NEW s \in Sockets
      PROVE  /\ tab'[s] \in Tab /\ SameMail(tab'[s], tab[s])
             /\ tab'[s].found = tab[s].found /\ tab'[s].answer = tab[s].answer
             /\ tab'[s].seen = IF s \in R THEN [tab[s].seen EXCEPT ![u] = status] ELSE tab[s].seen
  <2>1. CASE s \in R
    <3>1. tab'[s] = r(s)
      BY <1>1, <2>1
    <3> QED
      BY <1>2, <2>1, <3>1
  <2>2. CASE s \notin R
    <3>1. tab'[s] = tab[s]
      BY <1>1, <2>2
    <3> QED
      BY <1>4, <2>2, <3>1
  <2> QED
    BY <2>1, <2>2
<1>6. TabsTyped'
  BY <1>1, <1>5 DEF TabsTyped
<1> QED
  BY <1>3, <1>5, <1>6

\* Announcements leave notifications alone.
LEMMA AnnouncementMail ==
  ASSUME TypeOK, TabsTyped, NEW u \in Users, NEW i,
         FriendsFound(u, i) \/ OnFriendStatusChanged(u, i) \/ AnnouncementLost(u, i)
  PROVE  TabsTyped' /\ \A s \in Sockets : SameMail(tab'[s], tab[s])
<1>1. CASE UNCHANGED tab
  BY <1>1 DEF TabsTyped, SameMail
<1>2. CASE OnFriendStatusChanged(u, i)
  <2>1. announcing[u][i].status \in PresenceStatus
    BY <1>2, AnnouncedStatus DEF OnFriendStatusChanged, Emit
  <2>2. Tell(u, announcing[u][i].status, announcing[u][i].to)
    BY <1>2 DEF OnFriendStatusChanged
  <2> QED
    BY <2>1, <2>2, TellTabs
<1> QED
  BY <1>1, <1>2 DEF FriendsFound, AnnouncementLost

-----------------------------------------------------------------------------
(* Notifications. *)

\* The inductive invariant behind NotificationsArrive: with what is on its way
\* to a tab, it has all of its user's but those in `emitting'.
Mailed(s) ==
  phase[s] = "open" =>
    /\ tab[s].inbox \subseteq Own(token[s])
    /\ tab[s].told => Own(token[s]) \ emitting \subseteq tab[s].inbox
    /\ tab[s].listed # NULL =>
         /\ tab[s].listed \subseteq Own(token[s])
         /\ Own(token[s]) \ emitting \subseteq tab[s].inbox \union tab[s].listed

AllMailed == \A s \in Sockets : Mailed(s)

\* Notifications and what they are compared with stay the same.
LEMMA MailKept ==
  ASSUME NEW s \in Sockets, Mailed(s), UNCHANGED <<notified, emitting>>,
         phase'[s] = phase[s], token'[s] = token[s], SameMail(tab'[s], tab[s])
  PROVE  Mailed(s)'
  BY DEF Mailed, Own, SameMail

\* A socket comes or goes, and its tab starts blank.
LEMMA SocketMail ==
  ASSUME Inv, AllMailed, TabsTyped, NEW s \in Sockets, SocketStep(s)
  PROVE  AllMailed'
<1>1. \A r \in Sockets \ {s} : phase'[r] = phase[r] /\ token'[r] = token[r]
  BY DEF SocketStep, Inv, TypeOK, HandleConnection, Handle, Verified, NotVerified,
         HandleDisconnect, HandleDisconnectEarly
<1>2. OnlyTab(s) /\ tab'[s] = Blank
  BY SocketTab
<1>3. UNCHANGED <<notified, emitting>>
  BY DEF SocketStep, tables
<1>4. Mailed(s)'
  BY <1>2, BlankTab DEF Mailed
<1>5. \A r \in Sockets \ {s} : Mailed(r)'
  <2>1. \A r \in Sockets \ {s} : SameMail(tab'[r], tab[r])
    BY <1>2 DEF OnlyTab, SameMail
  <2> QED
    BY <1>1, <1>3, <2>1, MailKept DEF AllMailed
<1> QED
  BY <1>4, <1>5 DEF AllMailed

\* A tab asks for its notifications, or is answered.
LEMMA ListedMail ==
  ASSUME AllMailed, TabsTyped, NEW s \in Sockets, GetNotifications(s) \/ NotificationsListed(s)
  PROVE  AllMailed'
<1>1. UNCHANGED <<phase, token, notified, emitting>>
  BY DEF GetNotifications, NotificationsListed, presence, tables
<1>2. \A u : Own(u)' = Own(u)
  BY <1>1 DEF Own
<1>3. OnlyTab(s)
  BY GetNotificationsTab, NotificationsListedTab
<1>4. Mailed(s)'
  <2>1. CASE GetNotifications(s)
    <3>1. /\ tab'[s].inbox = tab[s].inbox /\ tab'[s].told = tab[s].told
          /\ tab'[s].listed = Own(token[s])
      BY <2>1, GetNotificationsTab
    <3> QED
      BY <1>1, <1>2, <3>1 DEF AllMailed, Mailed
  <2>2. CASE NotificationsListed(s)
    <3>1. /\ tab[s].listed # NULL /\ tab'[s].listed = NULL
          /\ tab'[s].inbox = tab[s].inbox \union tab[s].listed
      BY <2>2, NotificationsListedTab
    <3> QED
      BY <1>1, <1>2, <3>1 DEF AllMailed, Mailed
  <2> QED BY <2>1, <2>2
<1>5. \A r \in Sockets \ {s} : Mailed(r)'
  <2>1. \A r \in Sockets \ {s} : SameMail(tab'[r], tab[r])
    BY <1>3 DEF OnlyTab, SameMail
  <2> QED
    BY <1>1, <2>1, MailKept DEF AllMailed
<1> QED
  BY <1>4, <1>5 DEF AllMailed

\* A saved notification is in no inbox yet, but its event is about to go out.
LEMMA SavedMail ==
  ASSUME AllMailed, NEW id \in Ids, NotificationSaved(id)
  PROVE  AllMailed'
<1>1. /\ UNCHANGED <<phase, token, tab>>
      /\ emitting' = emitting \union {id}
      /\ notified' = notified \union {<<id, asked[id].to>>}
  BY DEF NotificationSaved, F!Notify, presence
<1>2. \A u : Own(u) \subseteq Own(u)' /\ Own(u)' \ emitting' \subseteq Own(u) \ emitting
  BY <1>1 DEF Own
<1>3. ASSUME NEW s \in Sockets PROVE Mailed(s)'
  <2>1. Own(token[s])' = (Own(token[s]))'
    OBVIOUS
  <2>2. LET u == token[s] IN
        Own(u) \subseteq Own(token[s])' /\ Own(token[s])' \ emitting' \subseteq Own(u) \ emitting
    BY <1>1, <1>2
  <2> QED
    BY <1>1, <2>2 DEF AllMailed, Mailed
<1> QED
  BY <1>3 DEF AllMailed

\* The event reaches each open socket of the receiver, as LiveIsRegistered has
\* it in the map, and no socket of anybody else.
LEMMA CreatedMail ==
  ASSUME Inv, AllMailed, TabsTyped, NEW id \in Ids, OnNotificationCreated(id)
  PROVE  AllMailed'
<1> DEFINE R == Reached({u \in Users : id \in Own(u)})
<1>1. /\ UNCHANGED <<phase, token, connectionMap, notified>>
      /\ emitting' = emitting \ {id}
  BY DEF OnNotificationCreated, presence, tables
<1>2. \A s \in Sockets : phase[s] = "open" => (s \in R <=> id \in Own(token[s]))
  <2> SUFFICES ASSUME NEW s \in Sockets, phase[s] = "open"
               PROVE  s \in R <=> id \in Own(token[s])
    OBVIOUS
  <2>1. token[s] \in Users
    BY DEF Inv, OpenHasUser
  <2>2. \A u \in Users : s \in connectionMap[u] <=> u = token[s]
    BY <2>1 DEF Inv, LiveIsRegistered
  <2> QED
    BY <2>1, <2>2 DEF Reached, ResolveSocketIds
<1>3. \A s \in Sockets :
        /\ tab'[s].listed = tab[s].listed /\ tab'[s].told = tab[s].told
        /\ tab'[s].inbox = IF s \in R THEN tab[s].inbox \union {id} ELSE tab[s].inbox
  BY CreatedTabs
<1>4. \A u : Own(u)' = Own(u)
  BY <1>1 DEF Own
<1> HIDE DEF R
<1>5. ASSUME NEW s \in Sockets, phase[s] = "open"
      PROVE  /\ tab'[s].inbox \subseteq Own(token[s])
             /\ tab[s].told => Own(token[s]) \ emitting' \subseteq tab'[s].inbox
             /\ tab[s].listed # NULL =>
                  /\ tab[s].listed \subseteq Own(token[s])
                  /\ Own(token[s]) \ emitting' \subseteq tab'[s].inbox \union tab[s].listed
  <2>1. Mailed(s)
    BY DEF AllMailed
  <2>2. CASE s \in R
    BY <1>1, <1>2, <1>3, <1>5, <2>1, <2>2 DEF Mailed
  <2>3. CASE s \notin R
    <3>1. id \notin Own(token[s]) /\ tab'[s].inbox = tab[s].inbox
      BY <1>2, <1>3, <1>5, <2>3
    <3>2. Own(token[s]) \ emitting' \subseteq Own(token[s]) \ emitting
      BY <1>1, <3>1
    <3> QED
      BY <1>5, <2>1, <3>1, <3>2 DEF Mailed
  <2> QED BY <2>2, <2>3
<1>6. \A s \in Sockets : Mailed(s)'
  BY <1>1, <1>3, <1>4, <1>5 DEF Mailed
<1> QED
  BY <1>6 DEF AllMailed

-----------------------------------------------------------------------------

(***************************************************************************)
(* The inductive invariant: what tabs are sent of notifications rests on   *)
(* the connection map's agreement with the sockets.                        *)
(***************************************************************************)
RealtimeInv == Inv /\ RealtimeTypeOK /\ AllMailed

\* The ghosts keep their types.
LEMMA GhostTypes ==
  ASSUME steady \in [Users -> BOOLEAN], doubt \in [Sockets -> SUBSET Users],
         [RealtimeNext]_allvars,
         \A s \in Sockets : tab[s] \in Tab
  PROVE  steady' \in [Users -> BOOLEAN] /\ doubt' \in [Sockets -> SUBSET Users]
<1>1. ASSUME NEW u \in Users, NEW b \in BOOLEAN, steady' = [steady EXCEPT ![u] = b]
      PROVE  steady' \in [Users -> BOOLEAN]
  BY <1>1
<1>2. ASSUME NEW u \in Users, NEW S, Doubt(u, S)
      PROVE  doubt' \in [Sockets -> SUBSET Users]
  BY <1>2 DEF Doubt
<1>3. ASSUME NEW u \in Users, NEW i,
             FriendsFound(u, i) \/ OnFriendStatusChanged(u, i) \/ AnnouncementLost(u, i)
      PROVE  steady' \in [Users -> BOOLEAN] /\ doubt' \in [Sockets -> SUBSET Users]
  <2>1. CASE FriendsFound(u, i)
    <3>1. \E b \in BOOLEAN : steady' = [steady EXCEPT ![u] = b]
      BY <2>1 DEF FriendsFound
    <3> QED BY <1>1, <2>1, <3>1 DEF FriendsFound
  <2>2. CASE OnFriendStatusChanged(u, i)
    <3>1. \E b \in BOOLEAN : steady' = [steady EXCEPT ![u] = b]
      BY <2>2 DEF OnFriendStatusChanged
    <3>2. \E S : Doubt(u, S)
      BY <2>2 DEF OnFriendStatusChanged
    <3> QED BY <1>1, <1>2, <3>1, <3>2
  <2>3. CASE AnnouncementLost(u, i)
    <3>1. \E b \in BOOLEAN : steady' = [steady EXCEPT ![u] = b]
      BY <2>3 DEF AnnouncementLost
    <3> QED BY <1>1, <1>2, <2>3, <3>1 DEF AnnouncementLost
  <2> QED BY <1>3, <2>1, <2>2, <2>3
<1>4. ASSUME NEW pair \in friends, Unfriended(pair)
      PROVE  steady' \in [Users -> BOOLEAN] /\ doubt' \in [Sockets -> SUBSET Users]
  <2>1. steady' \in [Users -> BOOLEAN]
    BY <1>4 DEF Unfriended
  <2>2. doubt' = [s \in Sockets |-> IF token[s] \in pair
                    THEN doubt[s] \union {u \in Users : u \in pair /\ Due(s, u) # NULL} ELSE doubt[s]]
    BY <1>4 DEF Unfriended
  <2> QED BY <2>1, <2>2
<1>5. ASSUME NEW s \in Sockets, GetStatuses(s)
      PROVE  steady' \in [Users -> BOOLEAN] /\ doubt' \in [Sockets -> SUBSET Users]
  <2> DEFINE old == {u \in tab[s].found : ~steady[u] \/ u \notin FriendsOf(token[s])}
  <2>1. tab[s].found \in SUBSET Users
    BY <1>5 DEF GetStatuses, Tab
  <2>2. old \in SUBSET Users
    BY <2>1
  <2> DEFINE new == (doubt[s] \ tab[s].found) \union old
  <2>3. doubt' = [doubt EXCEPT ![s] = new] /\ UNCHANGED steady
    BY <1>5 DEF GetStatuses
  <2>4. new \in SUBSET Users
    BY <2>2
  <2> HIDE DEF new
  <2> QED BY <2>3, <2>4
<1>6. CASE \/ \E s \in Sockets : GetFriends(s) \/ StatusesArrive(s) \/ GetNotifications(s)
                                 \/ NotificationsListed(s)
           \/ FriendsStep
           \/ \E id \in Ids : NotificationSaved(id) \/ OnNotificationCreated(id)
           \/ UNCHANGED allvars
  <2>1. CASE FriendsStep \/ UNCHANGED allvars
    BY <2>1 DEF FriendsStep, allvars, ghosts
  <2>2. CASE \E id \in Ids : NotificationSaved(id) \/ OnNotificationCreated(id)
    BY <2>2 DEF NotificationSaved, OnNotificationCreated, ghosts
  <2>3. ASSUME NEW s \in Sockets, GetFriends(s) \/ StatusesArrive(s) \/ GetNotifications(s)
                                  \/ NotificationsListed(s)
        PROVE  UNCHANGED ghosts
    BY <2>3 DEF GetFriends, StatusesArrive, GetNotifications, NotificationsListed
  <2> QED
    BY <1>6, <2>1, <2>2, <2>3 DEF ghosts
<1>7. CASE RealtimeRestart \/ \E s \in Sockets : SocketStep(s)
  BY <1>7 DEF RealtimeRestart, AllSteady, NoDoubt, SocketStep
<1> QED
  BY <1>3, <1>4, <1>5, <1>6, <1>7 DEF RealtimeNext

\* The start satisfies RealtimeInv.
LEMMA InitInv ==
  ASSUME RealtimeInit
  PROVE  RealtimeInv
<1>1. Inv
  BY EmptyInv DEF RealtimeInit, Init
<1>2. \A s \in Sockets : tab[s] = Blank
  BY DEF RealtimeInit, AllBlank
<1>3. RealtimeTypeOK
  BY <1>1, BlankTab DEF RealtimeInit, Inv, RealtimeTypeOK, AllBlank, AllSteady, NoDoubt
<1>4. AllMailed
  BY <1>2, BlankTab DEF AllMailed, Mailed
<1> QED BY <1>1, <1>3, <1>4 DEF RealtimeInv

\* Every step keeps RealtimeInv.
LEMMA RealtimeNextStep ==
  ASSUME RealtimeInv, [RealtimeNext]_allvars
  PROVE  RealtimeInv'
<1>1. Inv'
  BY NextStep, StepImplements DEF RealtimeInv
<1>2. /\ TabsTyped /\ emitting \subseteq Ids
      /\ Inv /\ TypeOK /\ AllMailed
  BY DEF RealtimeInv, RealtimeTypeOK, TabsTyped
<1>3. steady' \in [Users -> BOOLEAN] /\ doubt' \in [Sockets -> SUBSET Users]
  BY GhostTypes DEF RealtimeInv, RealtimeTypeOK
<1>4. SUFFICES TabsTyped' /\ emitting' \subseteq Ids /\ AllMailed'
  BY <1>1, <1>3 DEF RealtimeInv, RealtimeTypeOK, TabsTyped, Inv
<1>5. ASSUME NEW s \in Sockets, SocketStep(s)
      PROVE  TabsTyped' /\ emitting' \subseteq Ids /\ AllMailed'
  <2>1. UNCHANGED emitting
    BY <1>5 DEF SocketStep
  <2> QED
    BY <1>2, <1>5, <2>1, SocketTab, SocketMail DEF OnlyTab
<1>6. ASSUME TabsTyped', \A s \in Sockets : SameMail(tab'[s], tab[s]),
             UNCHANGED <<phase, token, notified, emitting>>
      PROVE  TabsTyped' /\ emitting' \subseteq Ids /\ AllMailed'
  BY <1>2, <1>6, MailKept DEF AllMailed
<1>7. ASSUME NEW s \in Sockets, GetFriends(s) \/ GetStatuses(s) \/ StatusesArrive(s)
      PROVE  TabsTyped' /\ emitting' \subseteq Ids /\ AllMailed'
  <2>1. UNCHANGED <<phase, token, notified, emitting>>
    BY <1>7 DEF GetFriends, GetStatuses, StatusesArrive, presence, tables
  <2>2. OnlyTab(s) /\ SameMail(tab'[s], tab[s])
    BY <1>2, <1>7, GetFriendsTab, GetStatusesTab, StatusesArriveTab
  <2>3. \A r \in Sockets : SameMail(tab'[r], tab[r])
    BY <2>2 DEF OnlyTab, SameMail
  <2> QED BY <1>6, <2>1, <2>2, <2>3 DEF OnlyTab
<1>8. ASSUME NEW u \in Users, NEW i,
             FriendsFound(u, i) \/ OnFriendStatusChanged(u, i) \/ AnnouncementLost(u, i)
      PROVE  TabsTyped' /\ emitting' \subseteq Ids /\ AllMailed'
  <2>1. UNCHANGED <<phase, token, notified, emitting>>
    BY <1>8 DEF FriendsFound, FriendsRead, OnFriendStatusChanged, Emit, Leave,
                AnnouncementLost, GetFriendsFails, tables
  <2> QED BY <1>2, <1>6, <1>8, <2>1, AnnouncementMail
<1>9. ASSUME UNCHANGED <<phase, token, notified, emitting, tab>>
      PROVE  TabsTyped' /\ emitting' \subseteq Ids /\ AllMailed'
  BY <1>2, <1>6, <1>9 DEF TabsTyped, SameMail
<1>10. CASE \/ FriendsStep \/ UNCHANGED allvars
            \/ \E pair \in friends : Unfriended(pair)
  <2>1. UNCHANGED <<phase, token, notified, emitting, tab>>
    BY <1>10 DEF FriendsStep, F!Ask, F!Accept, F!Reject, Unfriended, F!Unfriend,
                 presence, tables, allvars
  <2> QED BY <1>9, <2>1
<1>11. ASSUME NEW s \in Sockets, GetNotifications(s) \/ NotificationsListed(s)
       PROVE  TabsTyped' /\ emitting' \subseteq Ids /\ AllMailed'
  <2>1. UNCHANGED emitting
    BY <1>11 DEF GetNotifications, NotificationsListed
  <2>2. TabsTyped'
    BY <1>2, <1>11, GetNotificationsTab, NotificationsListedTab DEF OnlyTab
  <2> QED
    BY <1>2, <1>11, <2>1, <2>2, ListedMail
<1>12. ASSUME NEW id \in Ids, NotificationSaved(id)
       PROVE  TabsTyped' /\ emitting' \subseteq Ids /\ AllMailed'
  BY <1>2, <1>12, SavedMail DEF NotificationSaved, TabsTyped
<1>13. ASSUME NEW id \in Ids, OnNotificationCreated(id)
       PROVE  TabsTyped' /\ emitting' \subseteq Ids /\ AllMailed'
  <2>1. emitting' \subseteq Ids
    BY <1>2, <1>13 DEF OnNotificationCreated
  <2> QED
    BY <1>2, <1>13, <2>1, CreatedTabs, CreatedMail
<1>14. CASE RealtimeRestart
  <2>1. emitting' = {} /\ \A s \in Sockets : tab'[s] = Blank
    BY <1>14 DEF RealtimeRestart, AllBlank
  <2>2. TabsTyped'
    BY <1>14, BlankTab DEF RealtimeRestart, AllBlank, TabsTyped
  <2>3. \A s \in Sockets : Mailed(s)'
    BY <2>1, BlankTab DEF Mailed
  <2> QED
    BY <2>1, <2>2, <2>3 DEF AllMailed
<1> QED
  BY <1>5, <1>7, <1>8, <1>10, <1>11, <1>12, <1>13, <1>14 DEF RealtimeNext

(***************************************************************************)
(* No composition of tabs, friendships and announcements leaves the        *)
(* inductive invariant: gateway and listeners keep what the others rely on.*)
(***************************************************************************)
THEOREM RealtimeInvCorrect == RealtimeSpec => []RealtimeInv
<1>1. RealtimeInit => RealtimeInv
  BY InitInv
<1>2. RealtimeInv /\ [RealtimeNext]_allvars => RealtimeInv'
  BY RealtimeNextStep
<1> QED
  BY <1>1, <1>2, PTL DEF RealtimeSpec

(***************************************************************************)
(* The map, the announcements and what tabs hold keep their types.         *)
(***************************************************************************)
THEOREM RealtimeTypeCorrect == RealtimeSpec => []RealtimeTypeOK
<1>1. RealtimeInv => RealtimeTypeOK
  BY DEF RealtimeInv
<1> QED
  BY <1>1, RealtimeInvCorrect, PTL

(***************************************************************************)
(* A tab that was answered was sent all of its user's notifications and    *)
(* nobody else's, but for those whose event is about to go out, whatever   *)
(* comes between the query and its answer's arrival                        *)
(* (notifications.service.ts:17-22, 28-39, gateway.gateway.ts:64-77).      *)
(***************************************************************************)
THEOREM NotificationsCorrect == RealtimeSpec => []NotificationsArrive
<1>1. RealtimeInv => NotificationsArrive
  BY DEF RealtimeInv, AllMailed, Mailed, NotificationsArrive
<1> QED
  BY <1>1, RealtimeInvCorrect, PTL

-----------------------------------------------------------------------------
(* What tabs show of others' statuses.  First, the line of announcements   *)
(* of one user, with the friends each of them was looked up for.           *)

\* The announcement was, or will be, looked up while w is a friend.
Hears(w, a) == a.to = NULL \/ w \in a.to

\* Who hears one of them hears those after it.
HearsOn(w, A) ==
  \A i, j \in 1 .. Len(A) : i < j /\ Hears(w, A[i]) => Hears(w, A[j])

\* None that w hears is still to come, when HearsOn.
Told(w, A) == Len(A) = 0 \/ ~Hears(w, A[Len(A)])

\* The last of them is the newest.
Current(A, status) == Len(A) > 0 => A[Len(A)].status = status

\* The first ones have been looked up, each for more friends than the one
\* before it, and all of these are friends still.
InOrder(A, friendsOfU) ==
  /\ \A j \in 1 .. Len(A) : A[j].to # NULL => A[j].to \subseteq friendsOfU
  /\ \A i, j \in 1 .. Len(A) :
       i < j /\ A[j].to # NULL => A[i].to # NULL /\ A[i].to \subseteq A[j].to

\* Of what is looked up in order, everybody hears a tail.
LEMMA InOrderHears ==
  ASSUME NEW A \in Seq(Announcement), NEW w, NEW S, InOrder(A, S)
  PROVE  HearsOn(w, A)
BY DEF InOrder, HearsOn, Hears

\* A friend more is no friend less.
LEMMA InOrderGrows ==
  ASSUME NEW A \in Seq(Announcement), NEW S, NEW T, S \subseteq T, InOrder(A, S)
  PROVE  InOrder(A, T)
BY DEF InOrder

\* An empty line, or one that has become empty.
LEMMA EmptyLine ==
  ASSUME NEW A \in Seq(Announcement), A = <<>>
  PROVE  /\ \A w : HearsOn(w, A) /\ Told(w, A)
         /\ \A status : Current(A, status)
         /\ \A S : InOrder(A, S)
<1>1. Len(A) = 0
  BY EmptySeq
<1> QED
  BY <1>1 DEF HearsOn, Told, Current, InOrder

\* A new announcement is heard by everybody and is the newest.
LEMMA Appended ==
  ASSUME NEW A \in Seq(Announcement), NEW status \in PresenceStatus, NEW B,
         B = Append(A, New(status))
  PROVE  /\ \A w : HearsOn(w, A) => HearsOn(w, B)
         /\ \A w : ~Told(w, B)
         /\ Current(B, status)
         /\ \A S : InOrder(A, S) => InOrder(B, S)
<1> DEFINE a == New(status)
<1>1. a \in Announcement /\ a.to = NULL /\ a.status = status
  BY DEF New, Announcement
<1> HIDE DEF a
<1>2. Len(A) \in Nat /\ Len(B) = Len(A) + 1 /\ B[Len(B)] = a
      /\ \A k \in 1 .. Len(A) : B[k] = A[k]
  BY <1>1, AppendProperties, LenProperties DEF a
<1> QED
  BY <1>1, <1>2 DEF HearsOn, Told, Current, InOrder, Hears

\* The i-th is looked up.  For a friend that makes no difference.
LookUp(A, i, S) == [A EXCEPT ![i].to = S]
AllBefore(A, i) == \A j \in 1 .. i - 1 : A[j].to # NULL

\* What looking up the friends for an announcement does to the line.
LEMMA LookedUp ==
  ASSUME NEW A \in Seq(Announcement), NEW i \in 1 .. Len(A), A[i].to = NULL,
         NEW S \in SUBSET Users
  PROVE  LET B == LookUp(A, i, S) IN
         /\ \A w \in S : (HearsOn(w, A) => HearsOn(w, B)) /\ (Told(w, B) => Told(w, A))
         /\ \A status : Current(A, status) => Current(B, status)
         /\ InOrder(A, S) /\ AllBefore(A, i) => InOrder(B, S)
<1> DEFINE B == LookUp(A, i, S)
<1>1. A[i] \in Announcement /\ Len(A) \in Nat
  BY ElementOfSeq, LenProperties
<1> DEFINE a == [A[i] EXCEPT !.to = S]
<1>2. a \in Announcement /\ a.to = S /\ a.status = A[i].status
  BY <1>1 DEF Announcement
<1>3. B = [A EXCEPT ![i] = a]
  BY DEF LookUp
<1> HIDE DEF a, B
<1>4. Len(B) = Len(A) /\ \A k \in 1 .. Len(A) : B[k] = IF k = i THEN a ELSE A[k]
  BY <1>2, <1>3, ExceptSeq, LenProperties
<1>5. /\ \A k \in 1 .. Len(A) : B[k].to = IF k = i THEN S ELSE A[k].to
      /\ \A k \in 1 .. Len(A) : B[k].status = A[k].status
  BY <1>2, <1>4
<1>6. \A w \in S, k \in 1 .. Len(A) : Hears(w, B[k]) <=> Hears(w, A[k])
  BY <1>5 DEF Hears
<1>7. \A w \in S : (HearsOn(w, A) => HearsOn(w, B)) /\ (Told(w, B) => Told(w, A))
  BY <1>1, <1>4, <1>6 DEF HearsOn, Told
<1>8. \A status : Current(A, status) => Current(B, status)
  BY <1>1, <1>4, <1>5 DEF Current
<1>9. InOrder(A, S) /\ AllBefore(A, i) => InOrder(B, S)
  BY <1>1, <1>4, <1>5 DEF InOrder, AllBefore
<1> QED
  BY <1>7, <1>8, <1>9 DEF B

\* The first has gone.
LEMMA FirstLeft ==
  ASSUME NEW A \in Seq(Announcement), Len(A) > 0, NEW B, B = RemoveAt(A, 1)
  PROVE  /\ \A w : HearsOn(w, A) => HearsOn(w, B)
         /\ \A w : HearsOn(w, A) /\ Told(w, A) => ~Hears(w, A[1])
         /\ \A w : Told(w, B) => Told(w, A) \/ Len(A) = 1
         /\ \A status : Current(A, status) => Current(B, status)
         /\ \A S : InOrder(A, S) => InOrder(B, S)
<1>1. Len(A) \in Nat /\ \A k \in 1 .. Len(A) : A[k] \in Announcement
  BY ElementOfSeq, LenProperties
<1>2. Len(B) = Len(A) - 1 /\ \A k \in 1 .. Len(A) - 1 : B[k] = A[k + 1]
  <2>1. SubSeq(A, 1, 0) = <<>>
    BY SubSeqEmpty
  <2> DEFINE C == SubSeq(A, 2, Len(A))
  <2>2. C \in Seq(Announcement) /\ Len(C) = Len(A) - 1
        /\ \A k \in 1 .. Len(A) - 1 : C[k] = A[k + 1]
    <3>1. 2 \in Int /\ Len(A) \in Int /\ \A k \in 2 .. Len(A) : A[k] \in Announcement
      BY <1>1
    <3>2. /\ C \in Seq(Announcement)
          /\ Len(C) = IF 2 <= Len(A) THEN Len(A) - 2 + 1 ELSE 0
          /\ \A k \in 1 .. Len(A) - 2 + 1 : C[k] = A[2 + k - 1]
      BY <3>1, SubSeqProperties
    <3> DEFINE n == Len(A)
    <3>3. n \in Nat /\ n > 0
      BY <1>1
    <3> HIDE DEF C, n
    <3>4. Len(C) = n - 1
      <4>1. Len(C) = IF 2 <= n THEN n - 2 + 1 ELSE 0
        BY <3>2 DEF n
      <4> QED
        BY ONLY <3>3, <4>1
    <3>5. \A k \in 1 .. n - 1 : C[k] = A[k + 1]
      BY ONLY <3>2, <3>3 DEF n
    <3> QED
      BY <3>2, <3>4, <3>5 DEF n
  <2>3. B = <<>> \o C
    BY <2>1 DEF RemoveAt
  <2> HIDE DEF C
  <2>4. B = C
    BY <2>2, <2>3, ConcatEmptySeq
  <2> QED
    BY <2>2, <2>4
<1>3. \A w : HearsOn(w, A) => HearsOn(w, B)
  BY <1>1, <1>2 DEF HearsOn
<1>4. \A w : HearsOn(w, A) /\ Told(w, A) => ~Hears(w, A[1])
  BY <1>1 DEF HearsOn, Told
<1>5. \A w : Told(w, B) => Told(w, A) \/ Len(A) = 1
  BY <1>1, <1>2 DEF Told
<1>6. \A status : Current(A, status) => Current(B, status)
  BY <1>1, <1>2 DEF Current
<1>7. ASSUME NEW S, InOrder(A, S) PROVE InOrder(B, S)
  <2>1. \A k \in 1 .. Len(B) : k + 1 \in 1 .. Len(A) /\ B[k] = A[k + 1]
    BY <1>1, <1>2
  <2>2. \A j \in 1 .. Len(B) : B[j].to # NULL => B[j].to \subseteq S
    BY <1>7, <2>1 DEF InOrder
  <2>3. ASSUME NEW i \in 1 .. Len(B), NEW j \in 1 .. Len(B), i < j, B[j].to # NULL
        PROVE  B[i].to # NULL /\ B[i].to \subseteq B[j].to
    <3>1. i + 1 \in 1 .. Len(A) /\ j + 1 \in 1 .. Len(A) /\ i + 1 < j + 1
      BY <1>1, <1>2, <2>3
    <3> QED
      BY <1>7, <2>1, <2>3, <3>1 DEF InOrder
  <2> QED
    BY <2>2, <2>3 DEF InOrder
<1> QED
  BY <1>3, <1>4, <1>5, <1>6, <1>7

-----------------------------------------------------------------------------
(* The inductive invariant behind FriendsSeeTheTruth.                      *)

\* The announcements of a user whose answers can be relied on.
SteadyFor(u) ==
  steady[u] => InOrder(announcing[u], FriendsOf(u)) /\ Current(announcing[u], GetStatus(u))

\* An entry is of a friend, and it is right already or will be put right.
Follows(s, u) ==
  /\ phase[s] = "open" /\ u \in FriendsOf(token[s])
  /\ HearsOn(token[s], announcing[u])
  /\ Current(announcing[u], GetStatus(u))
  /\ Told(token[s], announcing[u]) => Due(s, u) = GetStatus(u)

Shows(s, u) == Due(s, u) # NULL /\ u \notin doubt[s]

\* A tab whose question is being answered is open, and has asked only this one.
Answers(s) == tab[s].found # NULL => phase[s] = "open" /\ tab[s].answer = NULL

SeesInv ==
  /\ \A u \in Users : SteadyFor(u)
  /\ \A s \in Sockets, u \in Users : Shows(s, u) => Follows(s, u)
  /\ \A s \in Sockets : Answers(s)

\* Friendship goes both ways.
LEMMA FriendsBothWays ==
  ASSUME NEW u \in Users, NEW v \in Users
  PROVE  u \in FriendsOf(v) <=> v \in FriendsOf(u)
<1>1. {u, v} = {v, u}
  OBVIOUS
<1> QED
  BY <1>1 DEF FriendsOf

\* A tab with the same fields shows the same.
LEMMA SameDue ==
  ASSUME NEW s, NEW u, tab'[s].seen = tab[s].seen, tab'[s].answer = tab[s].answer
  PROVE  Due(s, u)' = Due(s, u)
  BY DEF Due, Answered

\* Statuses come from the map.
LEMMA SameStatus ==
  ASSUME NEW u, connectionMap'[u] = connectionMap[u]
  PROVE  GetStatus(u)' = GetStatus(u)
  BY DEF GetStatus, IsOnline

\* A user stays steady while nothing of its line changes.
LEMMA SteadyKept ==
  ASSUME TypeOK, NEW u \in Users, SteadyFor(u), steady'[u] => steady[u],
         announcing'[u] = announcing[u], GetStatus(u)' = GetStatus(u),
         FriendsOf(u) \subseteq FriendsOf(u)'
  PROVE  SteadyFor(u)'
<1>1. announcing[u] \in Seq(Announcement)
  BY DEF TypeOK
<1>2. InOrder(announcing[u], FriendsOf(u)) => InOrder(announcing[u], FriendsOf(u)')
  BY <1>1, InOrderGrows
<1>3. steady'[u] => InOrder(announcing'[u], FriendsOf(u)')
  BY <1>2 DEF SteadyFor
<1>4. steady'[u] => Current(announcing'[u], GetStatus(u)')
  BY DEF SteadyFor
<1> QED
  BY <1>3, <1>4 DEF SteadyFor

\* An entry stays right while nothing it rests on changes.
LEMMA EntryKept ==
  ASSUME NEW s \in Sockets, NEW u \in Users, Follows(s, u),
         phase'[s] = phase[s], token'[s] = token[s],
         announcing'[u] = announcing[u], GetStatus(u)' = GetStatus(u),
         Due(s, u)' = Due(s, u), u \in FriendsOf(token[s])'
  PROVE  Follows(s, u)'
BY DEF Follows

\* Steps that touch neither announcements nor entries, and end no friendship.
LEMMA QuietStep ==
  ASSUME RealtimeInv, SeesInv,
         UNCHANGED <<phase, token, connectionMap, announcing, steady, doubt>>,
         friends \subseteq friends',
         \A s \in Sockets : Answers(s)',
         \A s \in Sockets, u \in Users : Due(s, u)' = Due(s, u)
  PROVE  SeesInv'
<1>1. \A u : FriendsOf(u) \subseteq FriendsOf(u)'
  BY DEF FriendsOf
<1>2. \A u \in Users : GetStatus(u)' = GetStatus(u)
  BY SameStatus
<1>3. \A u \in Users : SteadyFor(u)'
  BY <1>1, <1>2, SteadyKept DEF SeesInv, RealtimeInv, Inv
<1>4. ASSUME NEW s \in Sockets, NEW u \in Users, Shows(s, u)'
      PROVE  Follows(s, u)'
  <2>1. Follows(s, u) /\ u \in FriendsOf(token[s])
    BY <1>4 DEF SeesInv, Shows, Follows
  <2>2. u \in FriendsOf(token[s])'
    BY <2>1 DEF FriendsOf
  <2> QED
    BY <1>2, <2>1, <2>2, EntryKept
<1> QED
  BY <1>3, <1>4 DEF SeesInv

\* Of these, those that leave what tabs know of friends as it is.
LEMMA SameFriendsStep ==
  ASSUME RealtimeInv, SeesInv,
         UNCHANGED <<phase, token, connectionMap, announcing, steady, doubt>>,
         friends \subseteq friends',
         \A s \in Sockets : SameFriends(tab'[s], tab[s])
  PROVE  SeesInv'
<1>1. \A s \in Sockets : Answers(s)'
  BY DEF SeesInv, Answers, SameFriends
<1>2. \A s \in Sockets, u \in Users : Due(s, u)' = Due(s, u)
  BY SameDue DEF SameFriends
<1> QED
  BY <1>1, <1>2, QuietStep

-----------------------------------------------------------------------------
(* Sockets come and go: a status that changes is announced to come. *)

\* A socket that comes or goes appends the new status, or nothing.
LEMMA SocketSays ==
  ASSUME RealtimeInv, NEW s \in Sockets, SocketStep(s), NEW u \in Users
  PROVE  Says(u)
<1>1. CASE \/ \E t \in Users \union {NULL} : HandleConnection(s, t)
           \/ NotVerified(s) \/ HandleDisconnectEarly(s)
  BY <1>1, NothingToSay DEF HandleConnection, NotVerified, HandleDisconnectEarly
<1> QED
  BY <1>1, VerifiedOnce, DisconnectOnce DEF SocketStep, Handle, RealtimeInv

\* A socket comes or goes.
LEMMA SocketSees ==
  ASSUME RealtimeInv, SeesInv, NEW s \in Sockets, SocketStep(s)
  PROVE  SeesInv'
<1>1. OnlyTab(s) /\ tab'[s] = Blank
  BY SocketTab DEF RealtimeInv, RealtimeTypeOK, TabsTyped
<1>2. \A r \in Sockets \ {s} :
        /\ phase'[r] = phase[r] /\ token'[r] = token[r] /\ doubt'[r] = doubt[r]
        /\ tab'[r] = tab[r]
  BY <1>1 DEF SocketStep, OnlyTab, RealtimeInv, RealtimeTypeOK, Inv, TypeOK, HandleConnection,
         Handle, Verified, NotVerified, HandleDisconnect, HandleDisconnectEarly
<1>3. UNCHANGED <<friends, steady>> /\ \A v : FriendsOf(v)' = FriendsOf(v)
  BY DEF SocketStep, tables, FriendsOf
<1>4. \A u \in Users : announcing[u] \in Seq(Announcement) /\ GetStatus(u)' \in PresenceStatus
  BY DEF RealtimeInv, Inv, TypeOK, GetStatus, PresenceStatus
<1>5. ASSUME NEW u \in Users
      PROVE  \/ announcing'[u] = announcing[u] /\ GetStatus(u)' = GetStatus(u)
             \/ announcing'[u] = Append(announcing[u], New(GetStatus(u)'))
  BY SocketSays DEF Says
<1>6. ASSUME NEW u \in Users PROVE SteadyFor(u)'
  <2>1. SteadyFor(u)
    BY DEF SeesInv
  <2>2. CASE announcing'[u] = announcing[u] /\ GetStatus(u)' = GetStatus(u)
    BY <1>3, <2>1, <2>2 DEF SteadyFor
  <2>3. CASE announcing'[u] = Append(announcing[u], New(GetStatus(u)'))
    <3>1. /\ Current(announcing'[u], GetStatus(u)')
          /\ InOrder(announcing[u], FriendsOf(u)) => InOrder(announcing'[u], FriendsOf(u))
      BY <1>4, <2>3, Appended
    <3> QED
      BY <1>3, <2>1, <3>1 DEF SteadyFor
  <2> QED
    BY <1>5, <2>2, <2>3
<1>7. ASSUME NEW r \in Sockets, NEW u \in Users, Shows(r, u)'
      PROVE  Follows(r, u)'
  <2>1. r # s
    <3>1. ~Shows(s, u)'
      BY <1>1, BlankTab DEF Shows, Due, Answered, Nobody
    <3> QED
      BY <1>7, <3>1
  <2>2. Due(r, u)' = Due(r, u)
    BY <1>2, <2>1, SameDue
  <2>3. Follows(r, u) /\ phase'[r] = phase[r] /\ token'[r] = token[r]
    BY <1>2, <1>7, <2>1, <2>2 DEF SeesInv, Shows
  <2>4. u \in FriendsOf(token[r])'
    BY <1>3, <2>3 DEF Follows, FriendsOf
  <2>5. CASE announcing'[u] = announcing[u] /\ GetStatus(u)' = GetStatus(u)
    BY <2>2, <2>3, <2>4, <2>5, EntryKept
  <2>6. CASE announcing'[u] = Append(announcing[u], New(GetStatus(u)'))
    <3>1. /\ Current(announcing'[u], GetStatus(u)')
          /\ HearsOn(token[r], announcing[u]) => HearsOn(token[r], announcing'[u])
          /\ ~Told(token[r], announcing'[u])
      BY <1>4, <2>6, Appended
    <3> QED
      BY <2>3, <2>4, <3>1 DEF Follows
  <2> QED
    BY <1>5, <2>5, <2>6
<1>8. ASSUME NEW r \in Sockets PROVE Answers(r)'
  <2>1. CASE r = s
    BY <1>1, <2>1, BlankTab DEF Answers
  <2>2. CASE r # s
    BY <1>2, <2>2 DEF SeesInv, Answers
  <2> QED
    BY <2>1, <2>2
<1> QED
  BY <1>6, <1>7, <1>8 DEF SeesInv

-----------------------------------------------------------------------------
(* An announcement is looked up, told, overtaken or lost. *)

\* Of the users and tabs an announcement of u does not concern.
LEMMA OthersKept ==
  ASSUME RealtimeInv, SeesInv, NEW u \in Users,
         UNCHANGED <<phase, token, connectionMap, friends>>,
         \A v \in Users \ {u} : announcing'[v] = announcing[v] /\ steady'[v] = steady[v],
         \A s \in Sockets : tab'[s].found = tab[s].found /\ tab'[s].answer = tab[s].answer,
         \A s \in Sockets, v \in Users \ {u} :
           Due(s, v)' = Due(s, v) /\ (v \in doubt[s] => v \in doubt'[s])
  PROVE  /\ \A v \in Users \ {u} : SteadyFor(v)'
         /\ \A s \in Sockets, v \in Users \ {u} : Shows(s, v)' => Follows(s, v)'
         /\ \A s \in Sockets : Answers(s)'
<1>1. \A v : FriendsOf(v)' = FriendsOf(v)
  BY DEF FriendsOf
<1>2. \A v \in Users : GetStatus(v)' = GetStatus(v)
  BY SameStatus
<1>3. \A v \in Users \ {u} : SteadyFor(v)'
  BY <1>1, <1>2, SteadyKept DEF SeesInv, RealtimeInv, Inv
<1>4. ASSUME NEW s \in Sockets, NEW v \in Users \ {u}, Shows(s, v)'
      PROVE  Follows(s, v)'
  <2>1. Follows(s, v)
    BY <1>4 DEF SeesInv, Shows
  <2>2. v \in FriendsOf(token[s])'
    BY <1>1, <2>1 DEF Follows, FriendsOf
  <2> QED
    BY <1>2, <2>1, <2>2, EntryKept
<1>5. \A s \in Sockets : Answers(s)'
  BY DEF SeesInv, Answers
<1> QED
  BY <1>3, <1>4, <1>5

\* Whoever is shown u now is a friend, and is found.
LEMMA LookedUpSees ==
  ASSUME RealtimeInv, SeesInv, NEW u \in Users, NEW i, FriendsFound(u, i)
  PROVE  SeesInv'
<1> DEFINE A == announcing[u]
           F0 == FriendsOf(u)
           B == LookUp(A, i, F0)
           inOrder == AllBefore(A, i)
<1>1. A \in Seq(Announcement) /\ F0 \in SUBSET Users
  BY DEF RealtimeInv, Inv, TypeOK, FriendsOf
<1>2. /\ i \in 1 .. Len(A) /\ A[i].to = NULL
      /\ UNCHANGED <<phase, token, connectionMap, friends, tab, doubt>>
      /\ steady' = [steady EXCEPT ![u] = steady[u] /\ inOrder]
      /\ announcing' = [announcing EXCEPT ![u] = B]
  BY DEF FriendsFound, FriendsRead, tables, LookUp, AllBefore
<1>3. /\ announcing'[u] = B /\ steady'[u] = (steady[u] /\ inOrder)
      /\ \A v \in Users \ {u} : announcing'[v] = announcing[v] /\ steady'[v] = steady[v]
  BY <1>2 DEF RealtimeInv, RealtimeTypeOK, Inv, TypeOK
<1>4. FriendsOf(u)' = F0 /\ GetStatus(u)' = GetStatus(u)
  BY <1>2, SameStatus DEF FriendsOf
<1>5. /\ \A w \in F0 : (HearsOn(w, A) => HearsOn(w, B)) /\ (Told(w, B) => Told(w, A))
      /\ \A status : Current(A, status) => Current(B, status)
      /\ InOrder(A, F0) /\ inOrder => InOrder(B, F0)
  BY <1>1, <1>2, LookedUp
<1>6. SteadyFor(u)'
  <2>1. steady[u] => InOrder(A, F0) /\ Current(A, GetStatus(u))
    BY DEF SeesInv, SteadyFor
  <2> HIDE DEF A, B, F0, inOrder
  <2>2. steady'[u] => InOrder(B, F0) /\ Current(B, GetStatus(u))
    BY <1>3, <1>5, <2>1
  <2> QED
    BY <1>3, <1>4, <2>2 DEF SteadyFor
<1>7. \A s \in Sockets, v \in Users : Due(s, v)' = Due(s, v)
  BY <1>2, SameDue
<1>8. ASSUME NEW s \in Sockets, Shows(s, u)' PROVE Follows(s, u)'
  <2>1. Follows(s, u)
    BY <1>2, <1>7, <1>8 DEF SeesInv, Shows
  <2>2. token[s] \in Users
    BY <2>1 DEF Follows, RealtimeInv, Inv, OpenHasUser
  <2>3. token[s] \in F0
    BY <2>1, <2>2, FriendsBothWays DEF Follows
  <2>4. u \in FriendsOf(token[s])'
    BY <1>2, <2>1 DEF Follows, FriendsOf
  <2> HIDE DEF B, F0
  <2> QED
    BY <1>2, <1>3, <1>4, <1>5, <1>7, <2>1, <2>3, <2>4 DEF Follows
<1>9. UNCHANGED <<phase, token, connectionMap, friends, tab, doubt>>
  BY <1>2
<1> HIDE DEF B, F0, A, inOrder
<1> QED
  BY <1>3, <1>6, <1>7, <1>8, <1>9, OthersKept DEF SeesInv

\* Whoever the first announcement was looked up for is told, in every tab.
LEMMA ToldSees ==
  ASSUME RealtimeInv, SeesInv, NEW u \in Users, OnFriendStatusChanged(u, 1)
  PROVE  SeesInv'
<1> DEFINE A == announcing[u]
           B == RemoveAt(A, 1)
           status == A[1].status
           to == A[1].to
<1>1. A \in Seq(Announcement)
  BY DEF RealtimeInv, Inv, TypeOK
<1>2. /\ 1 \in 1 .. Len(A) /\ to # NULL
      /\ UNCHANGED <<phase, token, connectionMap, friends>>
      /\ Tell(u, status, to)
      /\ Doubt(u, {s \in Reached(to) : Answered(s, u)})
      /\ steady' = [steady EXCEPT ![u] = announcing'[u] = <<>> \/ (steady[u] /\ 1 = 1)]
      /\ announcing' = [announcing EXCEPT ![u] = B]
  BY DEF OnFriendStatusChanged, Emit, Leave, tables
<1>3. Len(A) \in Nat /\ Len(A) > 0
  BY <1>1, <1>2, LenProperties
<1>4. A[1] \in Announcement
  BY <1>1, <1>2, ElementOfSeq
<1>5. /\ announcing'[u] = B
      /\ steady'[u] => B = <<>> \/ steady[u]
      /\ \A v \in Users \ {u} : announcing'[v] = announcing[v] /\ steady'[v] = steady[v]
  BY <1>2 DEF RealtimeInv, RealtimeTypeOK, Inv, TypeOK
<1>6. /\ \A w : HearsOn(w, A) => HearsOn(w, B)
      /\ \A w : HearsOn(w, A) /\ Told(w, A) => ~Hears(w, A[1])
      /\ \A w : Told(w, B) => Told(w, A) \/ Len(A) = 1
      /\ \A st : Current(A, st) => Current(B, st)
      /\ \A S : InOrder(A, S) => InOrder(B, S)
  BY <1>1, <1>3, FirstLeft
<1>7. B \in Seq(Announcement)
  BY <1>1, <1>2, RemoveAtType
<1>8. GetStatus(u)' = GetStatus(u) /\ \A v : FriendsOf(v)' = FriendsOf(v)
  BY <1>2, SameStatus DEF FriendsOf
<1>9. SteadyFor(u)'
  <2>1. SteadyFor(u)
    BY DEF SeesInv
  <2>2. B = <<>> => Current(B, GetStatus(u)) /\ InOrder(B, FriendsOf(u))
    BY <1>7, EmptyLine
  <2> HIDE DEF B
  <2> QED
    BY <1>5, <1>6, <1>8, <2>1, <2>2 DEF SteadyFor
<1>10. \A s \in Sockets :
         /\ tab'[s].found = tab[s].found /\ tab'[s].answer = tab[s].answer
         /\ tab'[s].seen = IF s \in Reached(to) /\ tab[s].seen[u] # NULL
                             THEN [tab[s].seen EXCEPT ![u] = status] ELSE tab[s].seen
  <2>1. status \in PresenceStatus
    BY <1>4 DEF Announcement
  <2> QED
    BY <1>2, <2>1, TellTabs DEF RealtimeInv, RealtimeTypeOK, TabsTyped
<1>11. \A s \in Sockets : tab[s].seen \in Statuses
  BY DEF RealtimeInv, RealtimeTypeOK, Tab
<1>12. ASSUME NEW s \in Sockets, NEW v \in Users \ {u}
       PROVE  Due(s, v)' = Due(s, v) /\ (v \in doubt[s] => v \in doubt'[s])
  <2>1. tab'[s].seen[v] = tab[s].seen[v]
    BY <1>10, <1>11 DEF Statuses
  <2>2. Due(s, v)' = Due(s, v)
    BY <1>10, <2>1 DEF Due, Answered
  <2> QED
    BY <1>2, <2>2 DEF Doubt
\* An entry that is not in doubt afterwards was told, if its user was.
<1>13. ASSUME NEW s \in Sockets, Shows(s, u)'
       PROVE  /\ Shows(s, u)
              /\ Due(s, u)' = IF s \in Reached(to) THEN status ELSE Due(s, u)
  <2>1. u \notin doubt'[s] /\ Due(s, u)' # NULL
    BY <1>13 DEF Shows
  <2>2. Due(s, u)' # NULL => Due(s, u) # NULL
    BY <1>10, <1>11 DEF Due, Answered, Statuses
  <2>3. u \notin doubt[s] /\ ~(s \in Reached(to) /\ Answered(s, u))
    BY <1>2, <2>1, <2>2 DEF Doubt
  <2>4. CASE Answered(s, u)
    BY <1>10, <2>1, <2>2, <2>3, <2>4 DEF Due, Answered, Shows
  <2>5. CASE ~Answered(s, u)
    <3>1. Due(s, u) = tab[s].seen[u] /\ Due(s, u)' = tab'[s].seen[u]
      BY <1>10, <2>5 DEF Due, Answered
    <3>2. tab[s].seen[u] # NULL
      BY <2>1, <2>2, <3>1
    <3>3. tab'[s].seen[u] = IF s \in Reached(to) THEN status ELSE tab[s].seen[u]
      BY <1>10, <1>11, <3>2 DEF Statuses
    <3> QED
      BY <2>3, <3>1, <3>2, <3>3 DEF Shows
  <2> QED
    BY <2>4, <2>5
<1>14. ASSUME NEW s \in Sockets, Shows(s, u)' PROVE Follows(s, u)'
  <2> DEFINE w == token[s]
  <2>1. Follows(s, u)
    BY <1>13, <1>14 DEF SeesInv
  <2>2. w \in Users /\ phase[s] = "open"
    BY <2>1 DEF Follows, RealtimeInv, Inv, OpenHasUser
  <2>3. s \in Reached(to) <=> w \in to
    <3>1. \A v \in Users : s \in connectionMap[v] <=> v = w
      BY <2>2 DEF RealtimeInv, Inv, LiveIsRegistered
    <3>2. to \in SUBSET Users
      BY <1>2, <1>4 DEF Announcement
    <3> QED
      BY <2>2, <3>1, <3>2 DEF Reached, ResolveSocketIds
  <2>4. Due(s, u)' = IF w \in to THEN status ELSE Due(s, u)
    BY <1>13, <1>14, <2>3
  <2>5. Hears(w, A[1]) <=> w \in to
    BY <1>2 DEF Hears
  <2>6. ASSUME Told(w, B) PROVE Due(s, u)' = GetStatus(u)
    <3>1. CASE Told(w, A)
      <4>1. ~Hears(w, A[1])
        BY <1>6, <2>1, <3>1 DEF Follows
      <4> QED
        BY <2>1, <2>4, <2>5, <3>1, <4>1 DEF Follows
    <3>2. CASE ~Told(w, A)
      <4>1. Len(A) = 1 /\ Hears(w, A[1])
        BY <1>6, <2>6, <3>2 DEF Told
      <4>2. status = GetStatus(u)
        BY <1>3, <2>1, <4>1 DEF Follows, Current
      <4> QED
        BY <2>4, <2>5, <4>1, <4>2
    <3> QED
      BY <3>1, <3>2
  <2>7. u \in FriendsOf(token[s])'
    BY <1>2, <2>1 DEF Follows, FriendsOf
  <2> HIDE DEF B
  <2> QED
    BY <1>2, <1>5, <1>6, <1>8, <2>1, <2>6, <2>7 DEF Follows
<1>15. UNCHANGED <<phase, token, connectionMap, friends>>
  BY <1>2
<1> HIDE DEF A, B, status, to
<1> QED
  BY <1>5, <1>9, <1>10, <1>12, <1>14, <1>15, OthersKept DEF SeesInv

\* One that is overtaken or lost leaves every entry of u in doubt.
LEMMA DoubtfulSees ==
  ASSUME RealtimeInv, SeesInv, NEW u \in Users, NEW i,
         \/ i # 1 /\ OnFriendStatusChanged(u, i)
         \/ AnnouncementLost(u, i)
  PROVE  SeesInv'
<1> DEFINE B == RemoveAt(announcing[u], i)
<1>1. /\ i \in 1 .. Len(announcing[u])
      /\ UNCHANGED <<phase, token, connectionMap, friends>>
      /\ Doubt(u, Sockets)
      /\ steady' = [steady EXCEPT ![u] = announcing'[u] = <<>>]
      /\ announcing' = [announcing EXCEPT ![u] = B]
  BY DEF OnFriendStatusChanged, AnnouncementLost, Emit, GetFriendsFails, Leave, tables
<1>2. /\ announcing'[u] = B /\ steady'[u] = (B = <<>>)
      /\ \A v \in Users \ {u} : announcing'[v] = announcing[v] /\ steady'[v] = steady[v]
  BY <1>1 DEF RealtimeInv, RealtimeTypeOK, Inv, TypeOK
<1>3. B \in Seq(Announcement)
  BY <1>1, RemoveAtType DEF RealtimeInv, Inv, TypeOK
<1>4. SteadyFor(u)'
  <2>1. B = <<>> => /\ \A status : Current(B, status)
                    /\ \A S : InOrder(B, S)
    BY <1>3, EmptyLine
  <2> HIDE DEF B
  <2> QED
    BY <1>2, <2>1 DEF SteadyFor
<1>5. \A s \in Sockets :
        /\ tab'[s].found = tab[s].found /\ tab'[s].answer = tab[s].answer
        /\ \A v \in Users \ {u} : tab'[s].seen[v] = tab[s].seen[v]
        /\ tab[s].seen[u] = NULL => tab'[s].seen[u] = NULL
  <2>1. CASE AnnouncementLost(u, i)
    BY <2>1 DEF AnnouncementLost
  <2>2. CASE OnFriendStatusChanged(u, i)
    <3>1. announcing[u][i].status \in PresenceStatus
      BY <1>1, AnnouncedStatus DEF RealtimeInv, Inv
    <3>2. Tell(u, announcing[u][i].status, announcing[u][i].to)
      BY <2>2 DEF OnFriendStatusChanged
    <3> DEFINE status == announcing[u][i].status
               to == announcing[u][i].to
    <3>3. \A s \in Sockets : tab[s].seen \in Statuses
      BY DEF RealtimeInv, RealtimeTypeOK, Tab
    <3> HIDE DEF status, to
    <3>4. \A s \in Sockets :
            /\ tab'[s].found = tab[s].found /\ tab'[s].answer = tab[s].answer
            /\ tab'[s].seen = IF s \in Reached(to) /\ tab[s].seen[u] # NULL
                                THEN [tab[s].seen EXCEPT ![u] = status] ELSE tab[s].seen
      BY <3>1, <3>2, TellTabs DEF RealtimeInv, RealtimeTypeOK, TabsTyped, status, to
    <3> QED
      BY <3>3, <3>4 DEF Statuses
  <2> QED
    BY <2>1, <2>2
<1>6. ASSUME NEW s \in Sockets, NEW v \in Users \ {u}
      PROVE  Due(s, v)' = Due(s, v) /\ (v \in doubt[s] => v \in doubt'[s])
  <2>1. Due(s, v)' = Due(s, v)
    BY <1>5 DEF Due, Answered
  <2> QED
    BY <1>1, <2>1 DEF Doubt
<1>7. \A s \in Sockets : ~Shows(s, u)'
  <2>1. \A s \in Sockets : Due(s, u)' # NULL => Due(s, u) # NULL
    BY <1>5 DEF Due, Answered
  <2> QED
    BY <1>1, <2>1 DEF Shows, Doubt
<1>8. UNCHANGED <<phase, token, connectionMap, friends>>
  BY <1>1
<1> HIDE DEF B
<1> QED
  BY <1>2, <1>4, <1>5, <1>6, <1>7, <1>8, OthersKept DEF SeesInv

-----------------------------------------------------------------------------
(* A friendship ends; a tab asks. *)

\* A friendship ends.
LEMMA UnfriendedSees ==
  ASSUME RealtimeInv, SeesInv, NEW pair, Unfriended(pair)
  PROVE  SeesInv'
<1>1. /\ UNCHANGED <<phase, token, connectionMap, announcing, tab>>
      /\ friends' = friends \ {pair}
      /\ steady' = [u \in Users |-> steady[u] /\ (u \in pair => announcing[u] = <<>>)]
      /\ doubt' = [s \in Sockets |->
           IF token[s] \in pair
             THEN doubt[s] \union {u \in Users : u \in pair /\ Due(s, u) # NULL}
             ELSE doubt[s]]
  BY DEF Unfriended, F!Unfriend, presence
<1>2. \A u \in Users : GetStatus(u)' = GetStatus(u)
  BY <1>1, SameStatus
\* Only the two of them lose a friend, each the other.
<1>3. ASSUME NEW w \in Users, NEW u \in FriendsOf(w), w \notin pair \/ u \notin pair
      PROVE  u \in FriendsOf(w)'
  BY <1>1, <1>3 DEF FriendsOf
<1>4. ASSUME NEW u \in Users PROVE SteadyFor(u)'
  <2>1. CASE u \in pair
    <3>1. steady'[u] => announcing[u] = <<>>
      BY <1>1, <2>1
    <3>2. announcing[u] \in Seq(Announcement)
      BY DEF RealtimeInv, Inv, TypeOK
    <3>3. announcing[u] = <<>> =>
            /\ \A status : Current(announcing[u], status)
            /\ \A S : InOrder(announcing[u], S)
      BY <3>2, EmptyLine
    <3> QED
      BY <1>1, <3>1, <3>3 DEF SteadyFor
  <2>2. CASE u \notin pair
    <3>1. FriendsOf(u) \subseteq FriendsOf(u)'
      BY <1>3, <2>2
    <3>2. steady'[u] => steady[u]
      BY <1>1
    <3> QED
      BY <1>1, <1>2, <3>1, <3>2, SteadyKept DEF SeesInv, RealtimeInv, Inv
  <2> QED
    BY <2>1, <2>2
<1>5. ASSUME NEW s \in Sockets, NEW u \in Users, Shows(s, u)' PROVE Follows(s, u)'
  <2>1. Due(s, u)' = Due(s, u)
    BY <1>1, SameDue
  <2>2. (token[s] \notin pair \/ u \notin pair) /\ Shows(s, u)
    BY <1>1, <1>5, <2>1 DEF Shows
  <2>3. Follows(s, u)
    BY <2>2 DEF SeesInv
  <2>4. token[s] \in Users
    BY <2>3 DEF Follows, RealtimeInv, Inv, OpenHasUser
  <2>5. {token[s], u} \in friends'
    <3>1. \A w \in Users : u \in FriendsOf(w) /\ (w \notin pair \/ u \notin pair) =>
            {w, u} \in friends'
      BY <1>1 DEF FriendsOf
    <3> QED
      BY <2>2, <2>3, <2>4, <3>1 DEF Follows
  <2>6. u \in FriendsOf(token[s])'
    BY <1>1, <2>5 DEF FriendsOf
  <2> QED
    BY <1>1, <1>2, <2>1, <2>3, <2>6, EntryKept
<1>6. \A s \in Sockets : Answers(s)'
  BY <1>1 DEF SeesInv, Answers
<1> QED
  BY <1>4, <1>5, <1>6 DEF SeesInv

\* The answer gives the status of a friend, if it can be relied on.
LEMMA StatusesSees ==
  ASSUME RealtimeInv, SeesInv, NEW s \in Sockets, GetStatuses(s)
  PROVE  SeesInv'
<1> DEFINE rows == tab[s].found
           old == {u \in rows : ~steady[u] \/ u \notin FriendsOf(token[s])}
<1>1. /\ rows # NULL
      /\ UNCHANGED <<phase, token, connectionMap, announcing, friends, steady>>
      /\ doubt' = [doubt EXCEPT ![s] = (doubt[s] \ rows) \union old]
  BY DEF GetStatuses, presence, tables
<1>2. doubt'[s] = (doubt[s] \ rows) \union old /\ \A r \in Sockets \ {s} : doubt'[r] = doubt[r]
  BY <1>1 DEF RealtimeInv, RealtimeTypeOK
<1>3. /\ \A r \in Sockets \ {s} : tab'[r] = tab[r]
      /\ tab'[s].seen = tab[s].seen /\ tab'[s].found = NULL
      /\ tab'[s].answer = [u \in Users |-> IF u \in rows THEN GetStatus(u) ELSE NULL]
  BY GetStatusesTab DEF RealtimeInv, RealtimeTypeOK, TabsTyped, OnlyTab
<1>4. \A u \in Users : GetStatus(u) # NULL /\ GetStatus(u)' = GetStatus(u)
  BY <1>1, SameStatus, NullAssumption DEF GetStatus
<1>5. \A v : FriendsOf(v)' = FriendsOf(v)
  BY <1>1 DEF FriendsOf
<1>6. \A u \in Users : SteadyFor(u)'
  BY <1>1, <1>4, <1>5 DEF SeesInv, SteadyFor
<1>7. tab[s].answer = NULL
  BY <1>1 DEF SeesInv, Answers
<1>8. ASSUME NEW r \in Sockets, NEW u \in Users, Shows(r, u)' PROVE Follows(r, u)'
  <2>1. CASE r # s
    <3>1. Due(r, u)' = Due(r, u)
      BY <1>3, <2>1, SameDue
    <3>2. Follows(r, u)
      BY <1>2, <1>8, <2>1, <3>1 DEF SeesInv, Shows
    <3>3. u \in FriendsOf(token[r])'
      BY <1>1, <3>2 DEF Follows, FriendsOf
    <3> QED
      BY <1>1, <1>4, <3>1, <3>2, <3>3, EntryKept
  <2>2. CASE r = s /\ u \notin rows
    <3>1. Due(s, u)' = tab[s].seen[u] /\ Due(s, u) = tab[s].seen[u]
      BY <1>3, <1>7, <2>2 DEF Due, Answered
    <3>2. Follows(s, u)
      BY <1>2, <1>8, <2>2, <3>1 DEF SeesInv, Shows
    <3>3. u \in FriendsOf(token[s])'
      BY <1>1, <3>2 DEF Follows, FriendsOf
    <3> QED
      BY <1>1, <1>4, <2>2, <3>1, <3>2, <3>3, EntryKept
  <2>3. CASE r = s /\ u \in rows
    <3>1. Due(s, u)' = GetStatus(u)
      <4> HIDE DEF rows, old
      <4>1. tab'[s].answer[u] = GetStatus(u)
        BY <1>3, <2>3
      <4>2. tab'[s].answer \in Statuses
        BY <1>3, StatusType DEF Statuses
      <4>3. tab'[s].answer # NULL
        BY <4>2, AnswerAssumption
      <4> QED
        BY <1>4, <4>1, <4>3 DEF Due, Answered
    <3>2. steady[u] /\ u \in FriendsOf(token[s])
      BY <1>2, <1>8, <2>3 DEF Shows
    <3>3. phase[s] = "open"
      BY <1>1 DEF SeesInv, Answers
    <3>4. InOrder(announcing[u], FriendsOf(u)) /\ Current(announcing[u], GetStatus(u))
      BY <3>2 DEF SeesInv, SteadyFor
    <3>5. HearsOn(token[s], announcing[u])
      BY <3>4, InOrderHears DEF RealtimeInv, Inv, TypeOK
    <3>6. u \in FriendsOf(token[s])'
      BY <1>1, <3>2 DEF FriendsOf
    <3> QED
      BY <1>1, <1>4, <2>3, <3>1, <3>3, <3>4, <3>5, <3>6 DEF Follows
  <2> QED
    BY <2>1, <2>2, <2>3
<1>9. \A r \in Sockets : Answers(r)'
  BY <1>1, <1>3 DEF SeesInv, Answers
<1> QED
  BY <1>6, <1>8, <1>9 DEF SeesInv

\* The answer arrives: what was due is shown.
LEMMA ArrivedSees ==
  ASSUME RealtimeInv, SeesInv, NEW s \in Sockets, StatusesArrive(s)
  PROVE  SeesInv'
<1>1. UNCHANGED <<phase, token, connectionMap, announcing, steady, doubt, friends>>
  BY DEF StatusesArrive, presence, tables, ghosts
<1>2. /\ \A r \in Sockets \ {s} : tab'[r] = tab[r]
      /\ tab'[s].answer = NULL /\ tab'[s].found = tab[s].found
      /\ tab'[s].seen =
           [u \in Users |-> IF Answered(s, u) THEN tab[s].answer[u] ELSE tab[s].seen[u]]
  BY StatusesArriveTab DEF RealtimeInv, RealtimeTypeOK, TabsTyped, OnlyTab
<1>3. ASSUME NEW r \in Sockets, NEW u \in Users PROVE Due(r, u)' = Due(r, u)
  <2>1. CASE r # s
    BY <1>2, <2>1, SameDue
  <2>2. CASE r = s
    <3>1. Due(s, u)' = tab'[s].seen[u]
      BY <1>2 DEF Due, Answered
    <3> QED
      BY <1>2, <2>2, <3>1 DEF Due
  <2> QED
    BY <2>1, <2>2
<1>4. \A r \in Sockets : Answers(r)'
  BY <1>1, <1>2 DEF SeesInv, Answers
<1> QED
  BY <1>1, <1>3, <1>4, QuietStep

\* A tab reads its rows of friends.
LEMMA FriendsAskedSees ==
  ASSUME RealtimeInv, SeesInv, NEW s \in Sockets, GetFriends(s)
  PROVE  SeesInv'
<1>1. /\ phase[s] = "open" /\ tab[s].answer = NULL
      /\ UNCHANGED <<phase, token, connectionMap, announcing, steady, doubt, friends>>
  BY DEF GetFriends, Asking, presence, tables, ghosts
<1>2. /\ \A r \in Sockets \ {s} : tab'[r] = tab[r]
      /\ tab'[s].seen = tab[s].seen /\ tab'[s].answer = tab[s].answer
  BY GetFriendsTab DEF RealtimeInv, RealtimeTypeOK, TabsTyped, OnlyTab
<1>3. \A r \in Sockets, u \in Users : Due(r, u)' = Due(r, u)
  BY <1>2, SameDue
<1>4. \A r \in Sockets : Answers(r)'
  BY <1>1, <1>2 DEF SeesInv, Answers
<1> QED
  BY <1>1, <1>3, <1>4, QuietStep

-----------------------------------------------------------------------------

\* Every step keeps SeesInv.
LEMMA SeesStep ==
  ASSUME RealtimeInv, SeesInv, [RealtimeNext]_allvars
  PROVE  SeesInv'
<1>1. ASSUME NEW u \in Users, NEW i, OnFriendStatusChanged(u, i) PROVE SeesInv'
  BY <1>1, ToldSees, DoubtfulSees
<1>2. ASSUME UNCHANGED <<phase, token, connectionMap, announcing, steady, doubt>>,
             friends \subseteq friends', \A s \in Sockets : SameFriends(tab'[s], tab[s])
      PROVE  SeesInv'
  BY <1>2, SameFriendsStep
<1>3. CASE FriendsStep \/ UNCHANGED allvars
  <2>1. /\ UNCHANGED <<phase, token, connectionMap, announcing, steady, doubt, tab>>
        /\ friends \subseteq friends'
    BY <1>3 DEF FriendsStep, F!Ask, F!Accept, F!Reject, presence, tables, ghosts, allvars
  <2> QED
    BY <1>2, <2>1 DEF SameFriends
<1>4. ASSUME NEW s \in Sockets, GetNotifications(s) \/ NotificationsListed(s) PROVE SeesInv'
  <2>1. UNCHANGED <<phase, token, connectionMap, announcing, steady, doubt, friends>>
    BY <1>4 DEF GetNotifications, NotificationsListed, presence, tables, ghosts
  <2>2. OnlyTab(s) /\ SameFriends(tab'[s], tab[s])
    BY <1>4, GetNotificationsTab, NotificationsListedTab DEF RealtimeInv, RealtimeTypeOK, TabsTyped
  <2>3. \A r \in Sockets : SameFriends(tab'[r], tab[r])
    BY <2>2 DEF OnlyTab, SameFriends
  <2> QED
    BY <1>2, <2>1, <2>3
<1>5. ASSUME NEW id \in Ids, NotificationSaved(id) PROVE SeesInv'
  <2>1. UNCHANGED <<phase, token, connectionMap, announcing, steady, doubt, friends, tab>>
    BY <1>5 DEF NotificationSaved, F!Notify, presence, tables, ghosts
  <2> QED
    BY <1>2, <2>1 DEF SameFriends
<1>6. ASSUME NEW id \in Ids, OnNotificationCreated(id) PROVE SeesInv'
  <2>1. UNCHANGED <<phase, token, connectionMap, announcing, steady, doubt, friends>>
    BY <1>6 DEF OnNotificationCreated, presence, tables, ghosts
  <2>2. \A r \in Sockets : SameFriends(tab'[r], tab[r])
    BY <1>6, CreatedTabs DEF RealtimeInv, RealtimeTypeOK, TabsTyped
  <2> QED
    BY <1>2, <2>1, <2>2
<1>7. CASE RealtimeRestart
  <2>1. \A u \in Users : announcing'[u] = <<>>
    BY <1>7 DEF RealtimeRestart, Restart, NothingNew
  <2>2. <<>> \in Seq(Announcement)
    BY EmptySeq
  <2>3. \A u \in Users : SteadyFor(u)'
    BY <2>1, <2>2, EmptyLine DEF SteadyFor
  <2>4. \A s \in Sockets : tab'[s] = Blank
    BY <1>7 DEF RealtimeRestart, AllBlank
  <2>5. \A s \in Sockets, u \in Users : ~Shows(s, u)'
    BY <2>4, BlankTab DEF Shows, Due, Answered, Nobody
  <2>6. \A s \in Sockets : Answers(s)'
    BY <2>4, BlankTab DEF Answers
  <2> QED
    BY <2>3, <2>5, <2>6 DEF SeesInv
<1> QED
  BY <1>1, <1>3, <1>4, <1>5, <1>6, <1>7, SocketSees, LookedUpSees, DoubtfulSees, UnfriendedSees,
     StatusesSees, ArrivedSees, FriendsAskedSees DEF RealtimeNext

\* The start satisfies SeesInv.
LEMMA SeesInit == RealtimeInit => SeesInv
<1> SUFFICES ASSUME RealtimeInit PROVE SeesInv
  OBVIOUS
<1>1. \A u \in Users : announcing[u] = <<>>
  BY DEF RealtimeInit, Init, NothingNew
<1>2. <<>> \in Seq(Announcement)
  BY EmptySeq
<1>3. \A u \in Users : SteadyFor(u)
  BY <1>1, <1>2, EmptyLine DEF SteadyFor
<1>4. \A s \in Sockets : tab[s] = Blank
  BY DEF RealtimeInit, AllBlank
<1>5. \A s \in Sockets, u \in Users : ~Shows(s, u)
  BY <1>4, BlankTab DEF Shows, Due, Answered, Nobody
<1>6. \A s \in Sockets : Answers(s)
  BY <1>4, BlankTab DEF Answers
<1> QED
  BY <1>3, <1>5, <1>6 DEF SeesInv

(***************************************************************************)
(* A friend's tab shows a user's status when no announcement of it is      *)
(* under way, unless `doubt' holds a reason against it, whatever order     *)
(* tabs, friendships, lookups, answers and their arrivals come in          *)
(* (presence.service.ts:21-33, friends.service.ts:136-154).                *)
(***************************************************************************)
THEOREM SeesCorrect == RealtimeSpec => []FriendsSeeTheTruth
<1>1. RealtimeInv /\ SeesInv /\ [RealtimeNext]_allvars => SeesInv'
  BY SeesStep
<1>2. RealtimeInv /\ SeesInv => FriendsSeeTheTruth
  <2> SUFFICES ASSUME RealtimeInv, SeesInv, NEW s \in Sockets, NEW u \in Users,
                      Due(s, u) # NULL, u \notin doubt[s], announcing[u] = <<>>
               PROVE  Due(s, u) = GetStatus(u)
    BY DEF FriendsSeeTheTruth
  <2>1. Told(token[s], announcing[u])
    BY EmptyLine DEF RealtimeInv, Inv, TypeOK
  <2> QED
    BY <2>1 DEF SeesInv, Shows, Follows
<1> QED
  BY <1>1, <1>2, SeesInit, RealtimeInvCorrect, PTL DEF RealtimeSpec
=============================================================================
