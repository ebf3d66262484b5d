# GameTracker backend: models, checks and proofs

The backend is a NestJS server over PostgreSQL (TypeORM). It has no locks and
almost no transactions: a service method is a chain of awaited database calls,
and the server runs many of them at once. What has to be right is therefore
what several half-finished handlers do to the same rows. These modules model
the handlers at the grain of one database call per step, check them with TLC on
small instances, and prove the most important invariants with TLAPS for every
instance. Paths below are relative to `src/src/`.

## 1. The system

| Component | State | Operations that change it | Talks to |
|---|---|---|---|
| Play queue (`games/services/game-queue.service.ts`, `games/entities/GameQueueEntry.entity.ts`) | `game_queue_entries`: one row per queued game with an integer `order` | `moveGameInQueue` (with `rebalanceQueue`), `removeFromQueue` | rows go with their game (`ON DELETE CASCADE`) |
| Friends (`friends/friends.service.ts`) | `friend_requests`, `friendships` | `sendRequest`, `acceptRequest`, `rejectRequest`, `removeFriend` | emits `friend.request.sent`; reads presence |
| Notifications (`notifications/notifications.service.ts`) | `notifications` | `onFriendRequestSent` (listener), `markAsRead` | emits `notification.created` |
| Presence (`presence/`, `connection-registry/`, `gateway/`) | in-memory map user -> sockets | `handleConnection`, `handleDisconnect`, `onClientConnected`, `onClientDisconnected` | asks Friends who to tell; emits to sockets |
| Accounts (`auth/services/`, `users/users.service.ts`) | `user` table, in-memory map of one-time codes | `registerUser`, `verifyEmail`, `resendVerificationCode`, `loginWithPassword`, `loginWithGoogle`, `exchangeGoogleCode`, `refreshToken` | mail provider, Google, token signing |
| Profile (`users/users.service.ts`) | the same `user` table | `updateUserInfo`, `updatePassword`, `updateAvatar` | avatar storage |
| Game library (`games/services/games.service.ts`) | `game` table | `createGame`, `updateGame`, `deleteGame` | IGDB; Friends for the game of the week |
| IGDB client (`igdb/igdb.service.ts`) | cached access token and its expiry | `getAccessToken` | Twitch, IGDB |

Interaction is by awaited method calls, by the event emitter (whose listeners
start in the emitter's turn and run on after their first `await`), and through
the shared tables.

What makes each of them hard, and what makes it correct:

* **Play queue.** The order of a row is the midpoint of its neighbours' orders,
  read in one call and written in a later one; without room the whole queue is
  renumbered first, from a snapshot. Correct: rows are never lost, orders stay
  positive, a game lands where it was dropped, there is one listing.
* **Friends.** Every handler checks, awaits, then writes, and both users of a
  pair act at once. Correct: one pending request per pair, a friendship only
  with an acceptance behind it that stands, a notification to the one who was
  asked.
* **Presence.** Tabs come and go while tokens are verified and friends are
  looked up, friendships begin and end, and tabs ask for what they missed.
  Correct: a live tab is registered, each change of status is announced once, a
  tab that has asked has the notifications there are, from the answer or from an
  event, and it shows the statuses there are but in the few orders in which the
  code leaves an old one.
* **Accounts.** Sign-ups, verifications and resends of one address overlap;
  codes expire; mails fail; the process restarts; a profile update changes the
  address. Correct: unique owners, tokens only for accounts that have proved an
  address, every code of the exchange used at most once, and an account that is
  not verified can be with a code that was mailed.
* **Profile.** An update is a preload, a second look and a write, so it works on
  a row that others have changed; a password change is a look and a write.
  Correct: an update changes what it names, no old password comes back, emails
  and user names stay unique, an avatar's URL has a file behind it.
* **Game library.** A title is looked for in one call and saved in others,
  without a unique constraint; updates and saves by id change titles and owners.
  Correct: a user's second game of a title comes only from additions that overlap
  or from such a later write.
* **IGDB client.** Overlapping callers refresh one cached token, and their
  answers arrive in any order. Correct: no dead token is ever sent.

`PROJECT.json` lists the hazards at their lines with the properties that watch
them.

## 2. Modules

| Module | Models | Its parts |
|---|---|---|
| `GameQueue` | the rows of one user's queue and all handlers that touch them | `MoveGameInQueue`, `RebalanceRead`, `SavePlan`, `RefindNeighbors`, `PlaceQueued`, `PlaceNew`, the refusals by constraints, `Abort`, `RemoveFromQueue`, `DeleteGame` |
| `QueueClients` | `GameQueue` driven by clients whose neighbours are up to date: overlapping on different games (`DisjointSpec`), one at a time (`SerialSpec`) | the refinement mapping to `QueueOrder` |
| `QueueOrder` | the promise: a set of games in a line | `Place`, `Remove` |
| `Friends` | requests, friendships, notifications | one action per database call of each handler, `Abort` |
| `Befriending` | the promise of the friends' service, each handler one step | `Ask`, `Notify`, `Accept`, `Reject`, `Unfriend` |
| `Presence` | sockets, the map, the announcements on their way | gateway and presence handlers, `FriendsRead`, `Emit`, `GetFriendsFails`, `Restart` |
| `Realtime` | `Presence` and `Befriending` together, the gateway's two events, what each tab shows | `SocketStep`, `FriendsFound`, `OnFriendStatusChanged`, `AnnouncementLost`, `FriendsStep`, `NotificationSaved`, `OnNotificationCreated`, `Unfriended`; `GetFriends`, `GetStatuses`, `StatusesArrive`; `GetNotifications`, `NotificationsListed`; `RealtimeRestart` |
| `Accounts` | the user table, mails, one-time codes | sign-up, verification, resend, sign-in, refresh, expiry, `Abort`; `UpdateUserInfo`, `SaveSelect`, `SaveUpdate`, `PatchRejected`; `Restart` |
| `Profile` | rows of users, the avatar bucket | `Preload`, `SaveSelect`, `SaveUpdate`, `ComparePassword`, `StorePassword`, `UploadAvatar`, `Abort` |
| `GameLibrary` | the games of all users | `CreateGame`, `CreateChecked`, `CreateConflict`, `SaveSelect`, `SaveUpdate`, `CreateInsert`, `InsertRefused`, `Abort`, `UpdateGame`, `DeleteGame` |
| `IgdbToken` | clock, cached token, answers and requests under way | `GetAccessToken`, `IssueToken`, `Authenticated`, `QueryArrives`, `Tick`, `Restart` |
| `GameQueueProofs`, `FriendsProofs`, `PresenceProofs`, `RealtimeProofs`, `AccountsProofs`, `ProfileProofs`, `GameLibraryProofs`, `IgdbTokenProofs` | theorems about the module each is named after; `GameQueueProofs` also about `QueueClients` | |
| `MC...` | the same modules with their symmetry sets and the values of their constants for TLC | |

How the models correspond to the code:

* A handler has a slot (`Requests`, `Calls`) with a program counter and its
  locals. An action is one `await`ed call with the synchronous code after it,
  up to the next `await`; guards are the code's conditions, and an early return
  or a thrown exception frees the slot. A failed call or a dying process is
  `Abort` (`Restart` where memory is lost too).
* Constraints of the schema are part of the write they guard: `MayInsert`
  (unique pair, foreign key), `PlanApplies` (NOT NULL columns, integer range),
  `UniquePending` (the partial index of the migration), `Unique` (user
  columns). A refused write is an action of its own.
* Orders are numbers with the code's arithmetic; the gap and the column's limit
  are constants. Users, ids, games, sockets and codes are model values (users of
  `Friends` are numbers, since `sort()` orders them). Time is counted in
  `IgdbToken` only, where a token is named by the moment it dies; elsewhere a
  code expires at any moment.
* `save()` of TypeORM is modelled by what it does: it looks a row up by key and
  updates or inserts. A plan of `rebalanceQueue` carries only `id` and `order`,
  so a row that has gone cannot be inserted again and the whole save is refused.
  It is two calls, a select by id and then an insert, or an update of the columns
  that differ from the entity; columns with `select: false` are in neither.
  `Profile`, `Accounts` and `GameLibrary` take it in two steps. `GameQueue` does
  not: `SavePlan` is one step, so nothing is dequeued between its select and its
  updates, and what is shown of the queue is shown at that grain. (An update of a
  row that has gone would touch no row.) A condition on `undefined` or `null` in a
  `where` is left out (TypeORM 0.3.29, the locked version): `GameAlreadyCreated`
  without a title.
* The validation pipe of `main.ts:8` is installed without `whitelist`, so a body
  may hold what its DTO does not declare. Bodies of `updateUserInfo`, `createGame`
  and `updateGame` are therefore any columns the module has, and an id where the
  code passes it on; a value the column refuses ends in the abort of the call.
* The index of `Friends` comes from a migration, which is taken to have been run;
  `synchronize: true` does not know the index and leaves it alone.
* `Realtime` composes by conjunction: a step is an action of `Presence` or of
  `Befriending` with the other's variables unchanged, and what it does to tabs.
  It takes `Befriending` for the friends' service rather than `Friends`, which
  implements it (`ImplementsBefriending`): what other modules can see of a handler
  is one step.
* Of the front end, which is not in the repository, `Realtime` takes this much: a
  tab asks once its socket is registered, one question at a time; it keeps the
  status it was told last, by an answer or an event, of each friend in its list,
  and an event about somebody else changes nothing; it keeps every notification.
* An answer to a tab takes three steps, with any events in between: the query
  reads its rows (`GetFriends`, for `getFriend` too, and `GetNotifications`); the
  answer is composed of them and of the statuses of that moment (`GetStatuses`;
  for notifications nothing is added); it arrives (`StatusesArrive`,
  `NotificationsListed`). Events on one socket arrive in the order they are sent.
* A move's neighbours can be anything in `GameQueue`, as the DTO allows: gone,
  equal, or the wrong way round.
* `Faulty variant` operators are plausible bugs of the code next to them; the
  mutants in `PROJECT.json` put them in its place, and each must break its
  property.

## 3. Checks

| Run | Question | Bounds | Result |
|---|---|---|---|
| `queue_any` | any two overlapping moves, dequeues, deletions, failures | 2 games, 2 requests, gap 2, limit 4, 2 row keys per game | holds, 1.7 M states |
| `queue_serial` | one up-to-date move at a time implements `QueueOrder` | 3 games, gap 4, limit 16 | holds |
| `queue_disjoint` | does a move land where it was dropped when nobody else moves those games? | 4 games, 2 requests, gap 2 | violated |
| `friends` | pairs, backing, notifications, decisions; does it implement `Befriending`? is whoever is asked notified? | 2 users, 2 requests, 2 calls | holds |
| `friends_pending` | is no request pending between friends? | 2 users, 2 requests, 2 calls | violated |
| `realtime` | the map, the announcements, and what tabs show while friendships, tabs, answers and events come and go | 2 users, 2 sockets, 1 request, 2 announcements at a time | holds, 1.4 M states |
| `accounts` | owners, sessions, codes, mails | 2 accounts, 2 addresses that differ by case and a name, a Google id, 2 codes, 2 handlers at a time (`AtMostTwo`), 1 of them perhaps a profile update that takes one of the addresses, 2 different mails (`TwoMails`) | holds, 1.1 M states |
| `profile` | passwords, unique columns and avatars under stale writes | 2 users (one without a password), 2 bodies, one of which names an id, a picture elsewhere and a password, 2 passwords, 2 extensions, 2 calls | holds, 0.8 M states |
| `profile_partial` | does an update change what it names only? | the same | violated |
| `igdb` | does IGDB take every token it is sent? | 3 callers, margin 3, lifetimes 4 and 6 and a missing one, answers up to 2, requests up to 1, clock to 9 | holds, 0.4 M states |
| `library` | where does a second game of a title come from? | 2 users, 2 titles and games by hand, 3 games, 2 createGame at a time, also under a game's id, updates that retitle and give away | holds, 0.6 M states |
| `library_manual` | is an addition refused only when its title is there? | the same | violated |

Why the bounds are enough. Two overlapping handlers are what every race listed
needs, since each is between one handler's read and write and another's write;
`igdb` has a third caller so that a token can be fetched, cached and replaced by
an older one while a request is under way. Two requests between two users are a
decided one and a new one; that more calls and requests change nothing for the
safety properties is proved (section 4). The small gap makes rebalances frequent:
with gap 2 the second insertion into a gap needs one. With gap 4 and three games
`queue_serial` sees midpoints that round, exact fits and rebalances, and at limit
16 the appends that fail. Two versions of a row key let a row be dequeued and
inserted again while a handler holds the old key. In `igdb` the clock runs for more
than the longest lifetime, so that tokens die in the cache; margin and delays
are in the same proportion as 5 s to the seconds an answer takes, and the proof
is for any. In `library` three games are two of one title and one whose id an
addition may name. `MAX_IN_FLIGHT` (Presence) bounds the announcements
under way; two are what it takes for one to overtake the other. A socket that
would announce one more waits for room. In `realtime` two sockets are two tabs of
one user or one of each, which is what a change and whoever is told of it need;
its one request is asked, decided, and its friendship ended, and, as an acceptance
can come late, made and ended again. In `accounts` two mails
are a code and the one resent after it, or one to each address. Its body is one that
`UpdateUserDto` declares; that undeclared columns and ids change nothing for the
other accounts is in the proofs. Symmetry is used for values no definition singles
out, never in a run with a liveness property.

The violations are disagreements between the code and its own comments, quoted
in `PROJECT.json`:

1. `queue_disjoint`: a rebalance for one move renumbers the neighbours another
   has already read, and that one lands elsewhere. Without such a rebalance it does
   not (`DisjointCorrect`).
2. `friends_pending`: `sendRequest` can slip between its two checks and leave a
   request pending between friends, which can never be accepted.
3. `profile_partial`: two overlapping updates of one profile set each other's
   columns back.
4. `library_manual`: a game entered by hand is refused as soon as its user has
   any game, since the lookup's condition on the missing title is left out.

What the models also contain and no run singles out:

* A tab may show a friend's old status until it asks again or the next change. The
  code promises nothing here: `getFriends` is awaited between composing an
  announcement and sending it, nothing keeps two of these in order, and nothing
  tries again; and an event that comes between an answer's composition and its
  arrival is undone by the answer. The tabs of `Realtime` do show the old status
  then, and the history variable `doubt` says which entries that may be:
  of whom an announcement has overtaken another or was lost (`Doubt` of all tabs
  that list the user), came between composition and arrival, or a friendship has
  ended. `steady` says of which users the announcements under way are in order
  still, so that an answer composed now can be relied on. What `FriendsSeeTheTruth`
  says is that there is no other way to show an old status, and that the next
  question, asked after the announcements concerned have gone, always puts it right.
* The mark `isEmailVerified` is about an address the account has had: a profile
  update that changes the address leaves it as it is, and so the properties about
  sessions and mails speak of an address that was proved and of former addresses
  (`former`). Nothing is said of accounts a body has named by id or with a column
  beyond `UpdateUserDto` (`undeclared`).
* A tab that asks while its own token is still being verified may miss what is
  sent before its socket is registered (`gateway.gateway.ts:36-43`).
* A client that goes away during that verification is registered all the same and
  never unregistered (`HandleDisconnectEarly`, then `Verified`): its user stays
  online until a restart. `LiveIsRegistered` allows for it.
* Which of two mails of two resends arrives last is open; `UnverifiedCanVerify`
  says that the stored code is one that was mailed, is being mailed, or whose
  mail failed (`unsent`).
* One-time codes that nobody exchanges stay in the map until the next restart
  (`AuthCodeExpires` removes nothing).
* Two overlapping moves to one place write one `order`, and the listing is then
  the database's choice; `OneListing` is checked, and proved, for one move at a
  time.
* `acceptRequest`'s transaction does not look at the status it read two calls
  before, so a request rejected in between is accepted all the same
  (`AcceptTransaction`). `AcceptedIsFinal` holds in spite of it.
* A first Google sign-in ends in an internal error when the lower-cased email is
  some account's user name (`CreateUser`, `InsertRefused`), although
  `google-auth.service.ts:64` takes the email to be unique.
* Two overlapping `createGame` calls, a retitling `updateGame` or a save under
  another game's id give a user one title twice. `CopiesOverlapped` says that
  nothing else does; the history fields `by` and `during` of a row say which call
  inserted it, beside which others, until a later write makes it another game.
* Of two password changes that overlap the later write wins, although the
  password it was checked against is gone.

Fairness. `RequestNotified` assumes that a handler that has started goes on (`WF`
of its next step): the database answers and the event loop runs every
continuation. The step may still fail (`Abort`); a request whose sending failed
after its insert is recorded in the history variable `lost`, because the code has
no retry and notifies nobody then. No fairness is ever assumed of clients. That a
move in the queue ends is stated as safety: `RetriesOnce` says that a handler never
comes back to a call it has made.

## 4. Proofs

Every invariant, every action property and both refinements that a passing run
checks are theorems; a run shows them on a small instance, the theorem for every
value of the constants. The named assumptions on these are:

| Module | Assumed |
|---|---|
| `GameQueue` | `Games` is finite, `ORDER_GAP >= 2`, `MAX_ORDER >= ORDER_GAP` (1000 and 2^31 - 1 in the code) |
| `Friends` | users are numbers, as `sort()` orders them |
| `Presence`, `Realtime` | room for one announcement at a time at least |
| `Realtime` | `NULL` is not an answer |
| `Accounts` | emails are texts, and lower-casing twice is lower-casing once; a body has any columns with values the table takes, and any id or none |
| `Profile` | the rows at the start are of the schema, with unique emails and user names; a body has any columns and any id or none, and null for the nullable `avatarUrl` and `password` only |
| `GameLibrary` | a body has any of the two columns modelled, with users, titles or null, and any id or none |
| `IgdbToken` | `MAX_ANSWER + MAX_QUERY <= MARGIN`; lifetimes that are missing or exceed the margin |

and, where a proof needs it, that `NULL` is no other value. Those of `IgdbToken` are about the
outside: answer and request together take no longer than the five seconds the code
allows for, and Twitch's tokens live for weeks. One theorem has a hypothesis
besides, since the code does not keep the property without it: `DisjointCorrect` is
about behaviours in which rebalances run alone.

* `GameQueueProofs!TypeCorrect`: `TypeOK` is inductive; the one interesting step
  is the rebalance, whose positions are numbers between 1 and the number of rows.
* `PositiveCorrect`: `OrdersPositive` is not inductive alone. `PositiveInv` adds
  that the orders a handler has found and the ones it is about to save are
  positive too; `CalculateOrderPositive` shows that rounding up keeps a midpoint
  above zero.
* `LibraryCorrect`: the foreign key and the cascade make it inductive as it is.
* `RowsSurvive`: an action property, by cases over the steps that write rows.
* `RetriesOnceCorrect`: each step of a handler lowers `CallsLeft`.
* `GameQueueProofs!SerialCorrect`: the inductive invariant of one up-to-date
  request at a time, behind the next three. Orders are distinct and fit the column
  (`Distinct`, `Fit`); the request under way, if any, is up to date still, and what
  it has read and computed is what the rows say (`UnderWay`): the plan it is about
  to save numbers the rows in a sort of theirs, after the save there is room
  between any two of them and before the first (`Roomy`), and the neighbours it is
  about to write between are those of the row's place, with room. A midpoint with
  room is then strictly between its neighbours, whichever way it is rounded
  (`Midpoint`), and the retry after a rebalance finds room.
* `ListingCorrect`: distinct orders can be sorted in one way only. `SortsAgree`
  says of any sort that a game's position is the number of games up to it, which
  is a matter of counting: those games fill the positions up to its own.
* `RefusedCorrect`: with a game after it, a move's order is below that one's, which
  is in the column; a game that has a row is in the library. An order of a
  rebalance is at most the number of rows times the gap.
* `QueueImplements`: `SavePlan` and whatever refuses, reads or aborts are stutters of
  `QueueOrder` (the line is the same one, differently numbered), `PlaceQueued` and
  `PlaceNew` are its `Place` with the neighbours that were named
  (`AreNeighbours`), `RemoveFromQueue` and `DeleteGame` its `Remove`.
* `DisjointCorrect`: overlapping moves again, up to date when they were read, with no
  game dragged that another drags or names. Each lands between the neighbours it
  named (`LandsBetween`) in every behaviour that saves no rebalance while another
  move is under way (`RebalancesAlone`), whatever is dequeued, deleted or aborted in
  the meantime; `queue_disjoint` shows that this condition is needed. `Holds` says
  what a request still knows of its neighbours, as far as these are queued: their
  sequence, also in the plan it is about to save, room between them after it, and
  at the write that the orders it read are theirs. Nobody else changes the three
  rows, since nobody else drags these games (`OwnGames`).
* `FriendsProofs!InvCorrect`: one inductive invariant `Inv` for all five. What a
  handler writes last rests on what it read first, so `LocalsOK` says what the
  locals still mean at each step: that the request about to be accepted exists
  and is between the two users of the call, that the one about to be notified is
  its receiver. Existence and users of a request never change, which is why a
  stale read of those is harmless, while its status is deliberately not part of
  it: a rejection may have changed it. That a lost request was inserted
  (`lost \subseteq Known`, in `TypeOK`) needs it as well.
  `FriendsTypeCorrect`, `OnePendingCorrect`, `BackedCorrect`, `NotifiesCorrect`
  and `FinalCorrect` follow.
* `FriendsProofs!FriendsImplements`: each handler is one step of `Befriending`.
  `SendInsert`, `OnFriendRequestSent`, `AcceptTransaction`, `RejectRequest` and
  `RemoveDelete` are its `Ask`, `Notify`, `Accept`, `Reject` and `Unfriend`; every
  other step, and a delete that finds nothing, changes nothing it sees. That
  somebody is notified once needs one more invariant, `AnnouncesItsOwn`: the
  request a call is about to announce was inserted by that call alone, and is not
  notified of yet. This is what lets `Realtime` take `Befriending` for the
  service.
* `PresenceProofs!PresenceCorrect`: `LiveIsRegistered` for any users and sockets is
  inductive once a socket is known not to be open before its token named a user
  (`OpenHasUser`). `OnceCorrect` (`EachChangeOnce`) needs it: a user whose socket
  goes was online, so that an empty entry after it is a change.
* `RealtimeProofs!RealtimeImplementsPresence`: the composition's steps are
  `Presence`'s or leave its variables alone, so that `LiveCorrect` and
  `AnnouncedCorrect` carry over.
* `NotificationsCorrect`: `Mailed` adds to `NotificationsArrive` what an answer on
  its way holds: of what is saved for the tab's user, all that is neither in it nor
  in the inbox has its event still to go out. A save after the query puts the
  notification among these, and the event reaches every open socket of the
  receiver (`LiveIsRegistered`) and none of anybody else's.
* `RealtimeProofs!SeesCorrect`: `FriendsSeeTheTruth`, the longest argument here.
  What it needs is to know of every announcement on its way whom it was looked up
  for, or will be. `SeesInv` says of every entry not in `doubt` that a tab shows,
  or will as soon as the answer on its way is there (`Follows`): of the
  announcements of that user that are on their way, those this tab's user hears
  are a tail of the line (`HearsOn`), the last of them is the newest status
  (`Current`), and if none is left the entry is right. A line that is looked up
  in order, from friends who stay friends (`InOrder`), is such for everybody; this
  is what `steady` records, and what an answer to a tab relies on when it takes its
  entries out of `doubt`. Each of the
  other steps (a status, a lookup, an announcement that reaches its tabs or is
  lost, a friendship that ends, an answer that arrives) has a lemma of its own.
* `AccountsProofs!InvCorrect`: one inductive invariant for all six. The handlers'
  locals are stale by design; `Means` says what they still mean when they are
  used, which rests on what rows never do: go away, change their address or owner,
  or lose their verification, by any step of a handler (`Grows`). A profile update
  does change an address, but of a verified account and with a trace in `former`,
  and it unsets no mark (`UpdateMeans`), because whoever makes one has tokens; what
  other bodies may do leaves a trace in `undeclared`. `SessionsAreVerified`
  needs the same of the account about to get tokens, and that Google's accounts are
  verified (`GoogleIsVerified`), since no handler gives one a Google id later on.
  `UnverifiedCanVerify`, `OneOwner`, `MailsHaveAccounts` and `SingleUse`
  are inductive on top of that.
* `ProfileProofs!InvCorrect` and `PasswordCorrect`: an update writes what it put
  together from a body and a row read two calls before. `Means` says that a
  password in it is the body's, because the preload selects none, and that an
  avatar's URL in it is a client's or of a file that is stored for this user. That
  the other columns may be out of date is no part of it, and `profile_partial`
  shows why.
* `GameLibraryProofs!CopiesCorrect`: `LateOK` says that a game of the title a call
  has looked for, in the hands of the user it looked for, can only be one that was
  inserted after the lookup and beside that call, or that a later write has made
  one. The insert then finds no other kind. `LibraryTypeCorrect` is part of the
  same invariant (`LibraryInvCorrect`).
* `IgdbTokenProofs!InvCorrect`: `QueriesAreTaken` rests on a bound for each place
  a token passes through. An answer knows when its token was issued and is not
  late (`AnswerOK`); the cache dates its token late by an answer's way at most
  (`ExpiryFits`); a request's token outlives the request's longest way
  (`QueryOK`). A cached token is handed out when `now < expiresAt - MARGIN`, so it
  dies after `now + MARGIN - MAX_ANSWER`, which is the margin's whole point.

Only model-checked: `RequestNotified`, since liveness under fairness is outside the
prover's reach; and what the four violated runs show, of course. `SerialInv`,
`DisjointInv`, `SeesInv` and the other strengthenings were checked with TLC before
they were proved.

## 5. Not modelled

* Queries that only read, but for those of `Realtime`; controllers, DTO validation,
  guards, token and password cryptography (a caller is a verified user).
* Mail wording, the IGDB adapter: I/O and formatting.
* The game of the week: it is put together from queries of different scope made at
  different moments, and nothing is promised about how its numbers fit.
* The select and the updates of the rebalance's save as two steps (section 2).
* Seed and backfill scripts; `AuthMiddleware`, which nothing uses.
* The content of rows no property tells apart: messages, covers, statuses.

## 6. Plan

The order was: the play queue (the hardest arithmetic and the most races), friends,
presence, accounts, profile, IGDB token, game library, then presence and the
friends' service together, and the proofs in about the same order. What is left:

1. A weaker condition than `RebalancesAlone`. A save under a move that has yet to
   read its neighbours again is harmless as long as the plan is not older than
   the move; how old a plan may be is what the condition would have to say.
2. What overlapping updates of one profile leave alone: that a column changes only to
   a value some body or earlier row had.
