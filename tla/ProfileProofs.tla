--------------------------- MODULE ProfileProofs ---------------------------
(***************************************************************************)
(* Profile keeps its types, its owners, its passwords and its avatars, for *)
(* any users, bodies and number of overlapping handlers.                   *)
(*                                                                         *)
(* What an update writes last it has put together from a body and a row    *)
(* read two calls before.  LocalsOK says what is known of it all the same: *)
(* that a password in it is the body's, since the preload selects none,    *)
(* and that an avatar's URL in it is a client's or of a file that is       *)
(* stored.  That the other columns may be out of date by now is no part of *)
(* it.                                                                     *)
(***************************************************************************)
EXTENDS Profile, TLAPS

\* Functions over some columns, and the locals of a call.
Partial == UNION {[S -> Opt(Values)] : S \in SUBSET Columns}
Row == [Columns -> Opt(Values)]
Call == [step : Steps, user : Opt(Users), dto : Partial, set : Partial,
         password : Opt(Passwords), new : Opt(Passwords)]

\* Whose URL it may be: a client's choice, or a stored file of the user.
UrlOK(files, u, url) == url \in GivenUrls \/ (url \in files /\ url[1] = u)

\* What the locals of a handler mean where it stands.
Means(files, k) ==
  /\ k.step # "idle" => k.user \in Users
  /\ k.step \in {"preload", "upload"} => k.set = k.dto
  /\ k.step \in {"save", "update"} /\ "password" \in DOMAIN k.set =>
       "password" \in DOMAIN k.dto /\ k.set["password"] = k.dto["password"]
  /\ k.step \in {"preload", "save", "update"} /\ "avatarUrl" \in DOMAIN k.set =>
       UrlOK(files, k.user, k.set["avatarUrl"])
  /\ k.step = "upload" =>
       /\ DOMAIN k.set = {"avatarUrl"}
       /\ k.set["avatarUrl"] \in Files /\ k.set["avatarUrl"][1] = k.user
  /\ k.step \in {"compare", "store"} => k.new \in Passwords

LocalsOK == \A c \in Calls : Means(avatars, call[c])

Typed ==
  /\ users \in [Users -> Row]
  /\ avatars \subseteq Files
  /\ call \in [Calls -> Call]

Inv == Typed /\ LocalsOK /\ OneOwner /\ AvatarIsThere

-----------------------------------------------------------------------------
(* Rows, bodies and what is made of them. *)

\* A body has some columns of a row, and perhaps an id.
LEMMA DtoShape ==
  ASSUME NEW d \in Dtos
  PROVE  d.columns \in Partial /\ d.id \in Opt(Users)
<1>1. PICK S \in SUBSET Columns : d.columns \in [S -> Opt(Values)]
  BY DtoAssumption
<1> QED
  BY <1>1, DtoAssumption DEF Partial

\* A partial row, with the columns it has.
LEMMA PartialShape ==
  ASSUME NEW f \in Partial
  PROVE  /\ DOMAIN f \subseteq Columns /\ f = [k \in DOMAIN f |-> f[k]]
         /\ \A k \in DOMAIN f : f[k] \in Opt(Values)
<1>1. PICK S \in SUBSET Columns : f \in [S -> Opt(Values)]
  BY DEF Partial
<1> QED
  BY <1>1

\* Some columns of a row are a partial row.
LEMMA RestrictShape ==
  ASSUME NEW f, NEW S \in SUBSET DOMAIN f,
         DOMAIN f \subseteq Columns, \A k \in DOMAIN f : f[k] \in Opt(Values)
  PROVE  /\ Restrict(f, S) \in Partial /\ DOMAIN Restrict(f, S) = S
         /\ \A k \in S : Restrict(f, S)[k] = f[k]
<1>1. Restrict(f, S) \in [S -> Opt(Values)]
  BY DEF Restrict
<1>2. S \in SUBSET Columns
  OBVIOUS
<1>3. Restrict(f, S) \in Partial
  BY <1>1, <1>2 DEF Partial
<1> QED
  BY <1>3 DEF Restrict

\* Columns over those of a row: in each the value of one of the two.
LEMMA LaidShape ==
  ASSUME NEW over \in Partial, NEW row \in Partial
  PROVE  /\ Laid(over, row) \in Partial
         /\ DOMAIN Laid(over, row) = DOMAIN over \union DOMAIN row
         /\ \A k \in DOMAIN over \union DOMAIN row :
              Laid(over, row)[k] = IF k \in DOMAIN over THEN over[k] ELSE row[k]
<1> DEFINE S == DOMAIN over \union DOMAIN row
<1>1. /\ S \in SUBSET Columns
      /\ \A k \in DOMAIN over : over[k] \in Opt(Values)
      /\ \A k \in DOMAIN row : row[k] \in Opt(Values)
  BY PartialShape
<1>2. Laid(over, row) \in [S -> Opt(Values)]
  BY <1>1 DEF Laid
<1>3. Laid(over, row) \in Partial
  BY <1>1, <1>2 DEF Partial
<1> QED
  BY <1>3 DEF Laid

\* A row is a partial one with every column.
LEMMA RowShape ==
  ASSUME NEW r \in Row
  PROVE  /\ r \in Partial /\ DOMAIN r = Columns
         /\ \A k \in Columns : r[k] \in Opt(Values)
         /\ IsRow(r)
<1>1. r \in [Columns -> Opt(Values)]
  BY DEF Row
<1>2. r \in Partial
  BY <1>1 DEF Partial
<1> QED
  BY <1>1, <1>2 DEF IsRow, Columns

\* A free slot has no columns, and means nothing.
LEMMA IdleOK == Idle \in Call /\ \A files : Means(files, Idle)
<1>1. Nothing \in [{} -> Opt(Values)]
  BY DEF Nothing
<1>2. Nothing \in Partial
  BY <1>1 DEF Partial
<1> QED
  BY <1>2 DEF Idle, Call, Means, Steps, Opt

\* A stored file stays, so that what locals mean they mean with more files.
LEMMA MeansGrows ==
  ASSUME NEW files, NEW more, files \subseteq more, NEW k, Means(files, k)
  PROVE  Means(more, k)
BY DEF Means, UrlOK

-----------------------------------------------------------------------------
(* The initial state. *)

\* The stored rows satisfy Inv.
LEMMA InvInit == ASSUME Init PROVE Inv
<1>1. users \in [Users -> Row]
  BY StartAssumption DEF Init, Row
<1>2. call \in [Calls -> Call] /\ LocalsOK
  BY IdleOK DEF Init, LocalsOK
<1>3. OneOwner
  BY StartAssumption DEF Init, OneOwner
<1>4. AvatarIsThere
  BY DEF Init, AvatarIsThere, GivenUrls
<1> QED
  BY <1>1, <1>2, <1>3, <1>4 DEF Inv, Typed, Init

-----------------------------------------------------------------------------
(* The steps, by what they change: one call's locals, then a row, then the *)
(* bucket.                                                                 *)

\* One call is moved on, the rows stay and no file goes.
LEMMA LocalStep ==
  ASSUME Inv, NEW c \in Calls, NEW k \in Call, call' = [call EXCEPT ![c] = k],
         users' = users, avatars \subseteq avatars', avatars' \subseteq Files,
         Means(avatars', k)
  PROVE  Inv'
<1>1. Typed'
  BY DEF Inv, Typed
<1>2. \A d \in Calls : call'[d] = IF d = c THEN k ELSE call[d]
  BY DEF Inv, Typed
<1>3. \A d \in Calls : Means(avatars', call[d])
  BY MeansGrows DEF Inv, LocalsOK
<1>4. LocalsOK'
  BY <1>2, <1>3 DEF LocalsOK
<1>5. OneOwner' /\ AvatarIsThere'
  BY DEF Inv, OneOwner, AvatarIsThere, GivenUrls
<1> QED
  BY <1>1, <1>4, <1>5 DEF Inv

\* A handler ends.
LEMMA FinishStep ==
  ASSUME Inv, NEW c \in Calls, Finish(c), UNCHANGED <<users, avatars>>
  PROVE  Inv'
BY IdleOK, LocalStep DEF Finish, Inv, Typed

\* A handler that writes a row ends with it.
LEMMA RowStep ==
  ASSUME Inv, NEW c \in Calls, Finish(c), UNCHANGED avatars,
         NEW u \in Users, NEW row \in Row, users' = [users EXCEPT ![u] = row],
         \A v \in Users \ {u} : \A k \in UniqueColumns : users[v][k] # row[k],
         UrlOK(avatars, u, row.avatarUrl)
  PROVE  Inv'
<1>1. \A v \in Users : users'[v] = IF v = u THEN row ELSE users[v]
  BY DEF Inv, Typed
<1>2. Typed'
  BY IdleOK DEF Inv, Typed, Finish
<1>3. LocalsOK'
  BY IdleOK DEF Inv, Typed, LocalsOK, Finish
<1>4. OneOwner'
  BY <1>1 DEF Inv, OneOwner
<1>5. AvatarIsThere'
  BY <1>1 DEF Inv, AvatarIsThere, UrlOK, GivenUrls
<1> QED
  BY <1>2, <1>3, <1>4, <1>5 DEF Inv

-----------------------------------------------------------------------------
(* The actions. *)

\* A request comes in; an upload knows whose file it will be.
LEMMA ArriveStep ==
  ASSUME Inv, NEW c \in Calls, NEW u \in Users, Arrive(c, u)
  PROVE  Inv'
<1>1. ASSUME NEW d \in Dtos, UpdateUserInfo(c, u, d) PROVE Inv'
  <2> DEFINE set == d.columns
             id == IF d.id = NULL THEN u ELSE d.id
             k == [Idle EXCEPT !.step = "preload", !.user = id, !.dto = set, !.set = set]
  <2>1. set \in Partial /\ id \in Users
    BY DtoShape DEF Opt
  <2>2. Means(avatars, k) /\ k \in Call
    <3>1. "avatarUrl" \in DOMAIN set => set["avatarUrl"] \in GivenUrls
      BY DEF GivenUrls
    <3> HIDE DEF set, id
    <3>2. /\ k \in Call /\ k.step = "preload" /\ k.user = id /\ k.set = set /\ k.dto = set
      BY <2>1, IdleOK DEF Idle, Call, Steps, Opt
    <3> HIDE DEF k
    <3> QED
      BY <2>1, <3>1, <3>2 DEF Means, UrlOK
  <2>3. call' = [call EXCEPT ![c] = k] /\ users' = users /\ avatars' = avatars
    BY <1>1 DEF UpdateUserInfo
  <2> HIDE DEF k
  <2> QED
    BY <2>2, <2>3, LocalStep DEF Inv, Typed
<1>2. ASSUME NEW p \in Passwords, NEW q \in Passwords, UpdatePassword(c, u, p, q) PROVE Inv'
  <2> DEFINE k == [Idle EXCEPT !.step = "compare", !.user = u, !.password = p, !.new = q]
  <2>1. k \in Call /\ k.step = "compare" /\ k.user = u /\ k.new = q
    BY IdleOK DEF Idle, Call, Steps, Opt
  <2>2. Means(avatars, k)
    BY <2>1 DEF Means
  <2>3. call' = [call EXCEPT ![c] = k] /\ users' = users /\ avatars' = avatars
    BY <1>2 DEF UpdatePassword
  <2> QED
    BY <2>1, <2>2, <2>3, LocalStep DEF Inv, Typed
<1>3. ASSUME NEW x \in Exts, UpdateAvatar(c, u, x) PROVE Inv'
  <2> DEFINE url == AvatarUrl(u, x)
             k == [Idle EXCEPT !.step = "upload", !.user = u, !.dto = url, !.set = url]
  <2>1. /\ url \in Partial /\ DOMAIN url = {"avatarUrl"}
        /\ url["avatarUrl"] \in Files /\ url["avatarUrl"][1] = u
    <3>1. <<u, x>> \in Files /\ <<u, x>>[1] = u
      BY DEF Files
    <3>2. url \in [{"avatarUrl"} -> Opt(Values)]
      BY <3>1 DEF AvatarUrl, Values, Opt
    <3> QED
      BY <3>1, <3>2 DEF AvatarUrl, Partial, Columns, Selected
  <2>2. k \in Call /\ k.step = "upload" /\ k.user = u /\ k.set = url /\ k.dto = url
    BY <2>1, IdleOK DEF Idle, Call, Steps, Opt
  <2>3. Means(avatars, k)
    BY <2>1, <2>2 DEF Means
  <2>4. call' = [call EXCEPT ![c] = k] /\ users' = users /\ avatars' = avatars
    BY <1>3 DEF UpdateAvatar
  <2> QED
    BY <2>2, <2>3, <2>4, LocalStep DEF Inv, Typed
<1> QED
  BY <1>1, <1>2, <1>3 DEF Arrive

\* The preloaded entity has the selected columns and the body's.
LEMMA PreloadStep ==
  ASSUME Inv, NEW c \in Calls, Preload(c)
  PROVE  Inv'
<1> DEFINE u == call[c].user
           read == Restrict(users[u], Selected)
           entity == Laid(call[c].set, read)
           k == [call[c] EXCEPT !.step = "save", !.set = entity]
<1>1. /\ call[c] \in Call /\ call[c].set \in Partial /\ users[u] \in Row
      /\ Means(avatars, call[c]) /\ call[c].step = "preload"
  BY DEF Preload, Inv, Typed, LocalsOK, Means, Call
<1>2. read \in Partial /\ DOMAIN read = Selected /\ \A x \in Selected : read[x] = users[u][x]
  BY <1>1, RowShape, RestrictShape DEF Columns
<1> HIDE DEF read
<1>3. /\ entity \in Partial /\ DOMAIN entity = DOMAIN call[c].set \union Selected
      /\ \A x \in DOMAIN entity :
           entity[x] = IF x \in DOMAIN call[c].set THEN call[c].set[x] ELSE users[u][x]
  <2> DEFINE set == call[c].set
             lower == DOMAIN set \union DOMAIN read
  <2>1. set \in Partial /\ lower = DOMAIN set \union Selected
    BY <1>1, <1>2
  <2> HIDE DEF set
  <2>2. /\ Laid(set, read) \in Partial /\ DOMAIN Laid(set, read) = lower
        /\ \A x \in lower :
             Laid(set, read)[x] = IF x \in DOMAIN set THEN set[x] ELSE read[x]
    BY <1>2, <2>1, LaidShape
  <2>3. \A x \in lower : x \notin DOMAIN set => read[x] = users[u][x]
    BY <1>2, <2>1
  <2> QED
    BY <2>1, <2>2, <2>3 DEF set
<1> HIDE DEF entity
<1>4. /\ k \in Call /\ k.step = "save" /\ k.user = u /\ k.set = entity
      /\ k.dto = call[c].dto
  BY <1>1, <1>3 DEF Call, Steps
<1>5. UrlOK(avatars, u, entity["avatarUrl"])
  BY <1>1, <1>3 DEF Means, Inv, AvatarIsThere, UrlOK, Selected
<1>6. "password" \in DOMAIN entity =>
        "password" \in DOMAIN call[c].dto /\ entity["password"] = call[c].dto["password"]
  BY <1>1, <1>3 DEF Means, Selected
<1>7. Means(avatars, k)
  BY <1>1, <1>4, <1>5, <1>6 DEF Means
<1>8. call' = [call EXCEPT ![c] = k] /\ users' = users /\ avatars' = avatars
  BY DEF Preload, Inv, Typed, entity, read
<1> QED
  BY <1>4, <1>7, <1>8, LocalStep DEF Inv, Typed

\* Of the entity some columns are left to update.
LEMMA SelectStep ==
  ASSUME Inv, NEW c \in Calls, SaveSelect(c)
  PROVE  Inv'
<1> DEFINE u == call[c].user
           differ == {x \in DOMAIN call[c].set : call[c].set[x] # users[u][x]}
           columns == Differing(call[c].set, users[u])
           k == [call[c] EXCEPT !.step = "update", !.set = columns]
<1>1. /\ call[c] \in Call /\ call[c].set \in Partial
      /\ Means(avatars, call[c]) /\ call[c].step = "save"
  BY DEF SaveSelect, Inv, Typed, LocalsOK, Call
<1>2. /\ columns \in Partial /\ DOMAIN columns = differ
      /\ \A x \in differ : columns[x] = call[c].set[x]
  BY <1>1, PartialShape, RestrictShape DEF Differing
<1>3. /\ k \in Call /\ k.step = "update" /\ k.user = u /\ k.set = columns
      /\ k.dto = call[c].dto
  BY <1>1, <1>2 DEF Call, Steps
<1>4. Means(avatars, k)
  BY <1>1, <1>2, <1>3 DEF Means
<1>5. CASE call' = [call EXCEPT ![c] = k] /\ UNCHANGED <<users, avatars>>
  BY <1>3, <1>4, <1>5, LocalStep DEF Inv, Typed
<1>6. Finish(c) \/ call' = [call EXCEPT ![c] = k]
  BY DEF SaveSelect, Inv, Typed
<1> QED
  BY <1>5, <1>6, FinishStep DEF SaveSelect

\* The row the update makes: its own password or the body's, and a URL that may be.
LEMMA UpdatedRow ==
  ASSUME Inv, NEW c \in Calls, call[c].step = "update"
  PROVE  LET u == call[c].user
             row == Laid(call[c].set, users[u]) IN
         /\ u \in Users /\ row \in Row
         /\ \/ row.password = users[u].password
            \/ "password" \in DOMAIN call[c].dto /\ row.password = call[c].dto["password"]
         /\ UrlOK(avatars, u, row.avatarUrl)
         /\ \A x \in Columns : row[x] =
              IF x \in DOMAIN call[c].set THEN call[c].set[x] ELSE users[u][x]
<1> DEFINE u == call[c].user
           row == Laid(call[c].set, users[u])
<1>1. /\ call[c].set \in Partial /\ u \in Users /\ users[u] \in Row
      /\ Means(avatars, call[c])
  BY DEF Inv, Typed, LocalsOK, Means, Call
<1>2. /\ row \in Partial /\ DOMAIN row = Columns
      /\ \A x \in Columns : row[x] =
           IF x \in DOMAIN call[c].set THEN call[c].set[x] ELSE users[u][x]
  <2> DEFINE set == call[c].set
             old == users[u]
  <2> DEFINE both == DOMAIN set \union DOMAIN old
  <2>1. set \in Partial /\ old \in Partial
    BY <1>1, RowShape
  <2>2. both = Columns
    BY <1>1, <2>1, RowShape, PartialShape
  <2> HIDE DEF set, old
  <2>3. /\ Laid(set, old) \in Partial /\ DOMAIN Laid(set, old) = both
        /\ \A x \in both : Laid(set, old)[x] = IF x \in DOMAIN set THEN set[x] ELSE old[x]
    BY <2>1, LaidShape
  <2> HIDE DEF both
  <2> QED
    BY <2>2, <2>3 DEF set, old
<1> HIDE DEF row
<1>3. \/ row.password = users[u].password
      \/ "password" \in DOMAIN call[c].dto /\ row.password = call[c].dto["password"]
  BY <1>1, <1>2 DEF Means, Columns, Selected
<1>4. row \in Row
  BY <1>2, PartialShape DEF Row
<1>5. UrlOK(avatars, u, row.avatarUrl)
  BY <1>1, <1>2 DEF Means, Inv, AvatarIsThere, UrlOK, Columns, Selected
<1> QED
  BY <1>1, <1>2, <1>3, <1>4, <1>5 DEF row

\* The UPDATE of a save changes the columns it has found to differ.
LEMMA UpdateStep ==
  ASSUME Inv, NEW c \in Calls, SaveUpdate(c)
  PROVE  Inv'
<1> DEFINE u == call[c].user
           row == Laid(call[c].set, users[u])
<1>1. /\ u \in Users /\ row \in Row /\ UrlOK(avatars, u, row.avatarUrl)
      /\ \A x \in Columns : row[x] =
           IF x \in DOMAIN call[c].set THEN call[c].set[x] ELSE users[u][x]
  BY UpdatedRow DEF SaveUpdate
<1>2. users' = [users EXCEPT ![u] = row] /\ Finish(c) /\ UNCHANGED avatars
  BY DEF SaveUpdate
<1>3. \A v \in Users \ {u} : \A k \in UniqueColumns : users[v][k] # row[k]
  BY <1>1 DEF SaveUpdate, Unique, Inv, OneOwner, UniqueColumns, Columns, Selected
<1> QED
  BY <1>1, <1>2, <1>3, RowStep

\* The new password leaves the other columns of the row as they are by now.
LEMMA StoreStep ==
  ASSUME Inv, NEW c \in Calls, StorePassword(c)
  PROVE  Inv'
<1> DEFINE u == call[c].user
           row == [users[u] EXCEPT !.password = call[c].new]
<1>1. u \in Users /\ users[u] \in Row /\ call[c].new \in Passwords
  BY DEF StorePassword, Inv, Typed, LocalsOK, Means
<1>2. row \in Row /\ \A k \in Selected : row[k] = users[u][k]
  BY <1>1 DEF Row, Columns, Selected, Values, Opt
<1>3. users' = [users EXCEPT ![u] = row] /\ Finish(c) /\ UNCHANGED avatars
  BY DEF StorePassword, Inv, Typed
<1>4. \A v \in Users \ {u} : \A k \in UniqueColumns : users[v][k] # row[k]
  BY <1>1, <1>2 DEF Inv, OneOwner, UniqueColumns, Selected
<1>5. UrlOK(avatars, u, row.avatarUrl)
  BY <1>1, <1>2 DEF Inv, AvatarIsThere, UrlOK, Selected
<1> QED
  BY <1>1, <1>2, <1>3, <1>4, <1>5, RowStep

\* A password change that passed its look.
LEMMA CompareStep ==
  ASSUME Inv, NEW c \in Calls, ComparePassword(c)
  PROVE  Inv'
<1> DEFINE k == [call[c] EXCEPT !.step = "store"]
<1>1. call[c] \in Call /\ Means(avatars, call[c]) /\ call[c].step = "compare"
  BY DEF ComparePassword, Inv, Typed, LocalsOK
<1>2. k \in Call /\ k.step = "store" /\ k.user = call[c].user /\ k.new = call[c].new
  BY <1>1 DEF Call, Steps
<1>3. Means(avatars, k)
  BY <1>1, <1>2 DEF Means
<1>4. CASE call' = [call EXCEPT ![c] = k] /\ UNCHANGED <<users, avatars>>
  BY <1>2, <1>3, <1>4, LocalStep DEF Inv, Typed
<1>5. Finish(c) \/ call' = [call EXCEPT ![c] = k]
  BY DEF ComparePassword, Inv, Typed
<1> QED
  BY <1>4, <1>5, FinishStep DEF ComparePassword

\* The file is stored before its URL is anywhere else.
LEMMA UploadStep ==
  ASSUME Inv, NEW c \in Calls, UploadAvatar(c)
  PROVE  Inv'
<1> DEFINE url == call[c].set["avatarUrl"]
           k == [call[c] EXCEPT !.step = "preload"]
<1>1. /\ call[c] \in Call /\ DOMAIN call[c].set = {"avatarUrl"} /\ call[c].user \in Users
      /\ url \in Files /\ url[1] = call[c].user /\ call[c].set = call[c].dto
  BY DEF UploadAvatar, Inv, Typed, LocalsOK, Means
<1>2. /\ k \in Call /\ k.step = "preload" /\ k.dto = call[c].dto
      /\ k.user = call[c].user /\ k.set = call[c].set
  BY <1>1 DEF Call, Steps
<1>3. call' = [call EXCEPT ![c] = k] /\ users' = users /\ avatars' = avatars \union {url}
  BY DEF UploadAvatar, Inv, Typed
<1>4. Means(avatars', k)
  BY <1>1, <1>2, <1>3 DEF Means, UrlOK, Selected
<1> QED
  BY <1>1, <1>2, <1>3, <1>4, LocalStep DEF Inv, Typed

-----------------------------------------------------------------------------
(* The theorems. *)

(***************************************************************************)
(* The rows, the bucket and what every handler in flight is about to write *)
(* agree, always (users.service.ts).                                       *)
(***************************************************************************)
THEOREM InvCorrect == Spec => []Inv
<1>1. Init => Inv
  BY InvInit
<1>2. ASSUME Inv, [Next]_vars PROVE Inv'
  <2>1. ASSUME NEW c \in Calls, SaveRefused(c) \/ Abort(c) PROVE Inv'
    BY <1>2, <2>1, FinishStep DEF SaveRefused, Abort
  <2>2. CASE UNCHANGED vars
    BY <1>2, <2>2 DEF vars, Inv, Typed, LocalsOK, OneOwner, AvatarIsThere, GivenUrls
  <2> QED
    BY <1>2, <2>1, <2>2, ArriveStep, PreloadStep, SelectStep, UpdateStep, CompareStep,
       StoreStep, UploadStep DEF Next, Proceed
<1> QED
  BY <1>1, <1>2, PTL DEF Spec

(***************************************************************************)
(* Rows have every column and values of its kind, the bucket has avatars,  *)
(* and handlers hold bodies and parts of rows.                             *)
(***************************************************************************)
THEOREM ProfileTypeCorrect == Spec => []TypeOK
<1>1. Inv => TypeOK
  <2> SUFFICES ASSUME Inv PROVE TypeOK
    OBVIOUS
  <2>1. \A u \in Users : IsRow(users[u])
    BY RowShape DEF Inv, Typed
  <2>2. \A c \in Calls : IsCall(call[c])
    BY PartialShape DEF Inv, Typed, Call, IsCall, IsPartial
  <2> QED
    BY <2>1, <2>2 DEF TypeOK, Inv, Typed
<1> QED
  BY <1>1, InvCorrect, PTL

(***************************************************************************)
(* No two accounts share a user name or an email, whatever stale ones are  *)
(* written back (users.service.ts:119, User.entity.ts:12-16).              *)
(***************************************************************************)
THEOREM ProfileOwnerCorrect == Spec => []OneOwner
<1>1. Inv => OneOwner
  BY DEF Inv
<1> QED
  BY <1>1, InvCorrect, PTL

(***************************************************************************)
(* An avatar's URL that no client gave has the user's stored file behind   *)
(* it (users.service.ts:171-172, supabase.service.ts:22-29).               *)
(***************************************************************************)
THEOREM AvatarCorrect == Spec => []AvatarIsThere
<1>1. Inv => AvatarIsThere
  BY DEF Inv
<1> QED
  BY <1>1, InvCorrect, PTL

(***************************************************************************)
(* Nothing but the end of updatePassword, and an update whose body names a *)
(* password, changes one: a stale profile update has none to write back    *)
(* (User.entity.ts:21, users.service.ts:110-119, 158).                     *)
(***************************************************************************)
THEOREM PasswordCorrect == Spec => PasswordSurvives
<1> DEFINE Survives ==
      \A u \in Users : LET new == users'[u].password IN
        new # users[u].password => \E c \in Calls :
          /\ call[c].user = u
          /\ \/ call[c].step = "store" /\ call[c].new = new
             \/ /\ call[c].step = "update" /\ "password" \in DOMAIN call[c].dto
                /\ call[c].dto["password"] = new
<1>1. ASSUME Inv, [Next]_vars PROVE [Survives]_vars
  <2>1. CASE users' = users
    BY <2>1
  <2>2. ASSUME NEW c \in Calls, SaveUpdate(c) PROVE Survives
    <3> DEFINE u == call[c].user
               row == Laid(call[c].set, users[u])
    <3>1. /\ u \in Users /\ call[c].step = "update"
          /\ \/ row.password = users[u].password
             \/ "password" \in DOMAIN call[c].dto /\ row.password = call[c].dto["password"]
      BY <1>1, <2>2, UpdatedRow DEF SaveUpdate
    <3>2. \A v \in Users : users'[v] = IF v = u THEN row ELSE users[v]
      BY <1>1, <2>2, <3>1 DEF SaveUpdate, Inv, Typed
    <3> QED
      BY <3>1, <3>2
  <2>3. ASSUME NEW c \in Calls, StorePassword(c) PROVE Survives
    <3> DEFINE u == call[c].user
    <3>1. /\ u \in Users /\ call[c].step = "store" /\ users[u] \in Row
      BY <1>1, <2>3 DEF StorePassword, Inv, Typed, LocalsOK, Means
    <3>2. /\ users'[u].password = call[c].new
          /\ \A v \in Users \ {u} : users'[v] = users[v]
      BY <1>1, <2>3, <3>1 DEF StorePassword, Inv, Typed, Row, Columns
    <3> QED
      BY <3>1, <3>2
  <2> QED
    BY <1>1, <2>1, <2>2, <2>3
       DEF Next, Arrive, Proceed, Abort, UpdateUserInfo, UpdatePassword, UpdateAvatar, Preload,
           SaveSelect, SaveRefused, ComparePassword, UploadAvatar, vars
<1>2. Spec => [][Survives]_vars
  BY <1>1, InvCorrect, PTL DEF Spec
<1> QED
  BY <1>2 DEF PasswordSurvives
=============================================================================
