------------------------------ MODULE Profile ------------------------------
(***************************************************************************)
(* What a signed-in user changes about the own account: updateUserInfo,    *)
(* updatePassword and updateAvatar of UsersService over the table of users *)
(* and the bucket of avatars.                                              *)
(*                                                                         *)
(* repository.preload selects the row's ordinary columns (password and     *)
(* verification code are `select: false') and lays the body over them;     *)
(* repository.save selects the row again and updates every column of that  *)
(* entity that differs from it.  So an update of one's profile is three    *)
(* database calls, and several overlap with each other and with the two    *)
(* calls of a password change.  An action is one such call, or the upload, *)
(* with the code that runs after it up to the next.                        *)
(***************************************************************************)
EXTENDS Integers, Functions

CONSTANTS
  Users,      \* ids of accounts
  Dtos,       \* bodies of PATCH users/me: columns with new values, and an id
  Passwords,
  Exts,       \* extensions of avatar files
  Start,      \* the table to start from: user -> row
  Calls,      \* slots for handlers in flight
  NULL        \* null and undefined

\* The columns of UpdateUserDto, which a query selects; all that are modelled
\* (the Google id, the friend code and what has to do with the verification of
\* the email are not: the last is in Accounts); the unique ones.
Selected == {"name", "username", "email", "avatarUrl"}
Columns  == Selected \union {"password"}
UniqueColumns == {"username", "email"}

VARIABLES
  users,    \* user -> row
  avatars,  \* files in the bucket: <<user, extension>>, which is also the URL
  call      \* call -> where its handler stands, and its locals

vars == <<users, avatars, call>>

-----------------------------------------------------------------------------

Files == Users \X Exts
Values == (UNION {{d.columns[k] : k \in DOMAIN d.columns} : d \in Dtos})
            \union {Start[u][k] : u \in Users, k \in Selected}
            \union Files \union Passwords

Opt(S) == S \union {NULL}

\* The table that is started from is one the schema allows.
ASSUME StartAssumption ==
  /\ Start \in [Users -> [Columns -> Opt(Values)]]
  /\ \A u, v \in Users : u # v => \A k \in UniqueColumns : Start[u][k] # Start[v][k]

\* The validation pipe strips nothing, so that a body may name any column, and an
\* id in the place of the user's.  Any value will do but null where the column
\* refuses it: such a save is rejected.
ASSUME DtoAssumption ==
  \A d \in Dtos :
    /\ d.id \in Opt(Users)
    /\ \E S \in SUBSET Columns : d.columns \in [S -> Opt(Values)]
    /\ \A k \in DOMAIN d.columns : d.columns[k] = NULL => k \in {"avatarUrl", "password"}

Steps == {"idle",
          "preload", "save", "update",  \* updateUserInfo
          "compare", "store",           \* updatePassword
          "upload"}                     \* updateAvatar

Nothing == [k \in {} |-> NULL]

\* Some columns and values for them.
IsPartial(f) == DOMAIN f \subseteq Columns /\ \A k \in DOMAIN f : f[k] \in Opt(Values)

\* `set' is the body, then the preloaded entity, then the columns to update, of
\* `user'.  `dto' is the body as it came in, for properties.
IsCall(k) ==
  /\ k.step \in Steps /\ k.user \in Opt(Users)
  /\ IsPartial(k.dto) /\ IsPartial(k.set)
  /\ k.password \in Opt(Passwords) /\ k.new \in Opt(Passwords)
Idle == [step |-> "idle", user |-> NULL, dto |-> Nothing, set |-> Nothing,
         password |-> NULL, new |-> NULL]

Finish(c) == call' = [call EXCEPT ![c] = Idle]

\* Columns over those of a row: `over' wins.
Laid(over, row) ==
  [k \in DOMAIN over \union DOMAIN row |-> IF k \in DOMAIN over THEN over[k] ELSE row[k]]

-----------------------------------------------------------------------------
(* updateUserInfo. *)

UpdateUserInfo(c, u, d) ==
  LET id == IF d.id = NULL THEN u ELSE d.id IN
  /\ call[c].step = "idle"
  /\ call' = [call EXCEPT ![c] = [Idle EXCEPT !.step = "preload", !.user = id,
                                 !.dto = d.columns, !.set = d.columns]]
  /\ UNCHANGED <<users, avatars>>

\* Faulty variant: the password is selected like any other column.
PreloadAll(c) ==
  /\ call[c].step = "preload"
  /\ call' = [call EXCEPT ![c].step = "save",
                          ![c].set = Laid(@, users[call[c].user])]
  /\ UNCHANGED <<users, avatars>>

Preload(c) ==
  LET row == Restrict(users[call[c].user], Selected) IN
  /\ call[c].step = "preload"
  /\ call' = [call EXCEPT ![c].step = "save", ![c].set = Laid(@, row)]
  /\ UNCHANGED <<users, avatars>>

\* The columns in which an entity differs from the row.
Differing(entity, row) ==
  Restrict(entity, {k \in DOMAIN entity : entity[k] # row[k]})

\* save() looks what to update; without a difference it updates nothing.
SaveSelect(c) ==
  LET columns == Differing(call[c].set, users[call[c].user]) IN
  /\ call[c].step = "save"
  /\ IF columns = Nothing
       THEN Finish(c)
       ELSE call' = [call EXCEPT ![c].step = "update", ![c].set = columns]
  /\ UNCHANGED <<users, avatars>>

\* Faulty variant: no unique columns.
UniqueNone(u, columns) == TRUE

\* The unique columns let the update of a user's row through.
Unique(u, columns) ==
  \A v \in Users \ {u} : \A k \in DOMAIN columns \cap UniqueColumns :
    users[v][k] # columns[k]

\* Faulty variant: the columns to update replace the row.
SaveUpdateReplaces(c) ==
  LET u == call[c].user IN
  /\ call[c].step = "update" /\ Unique(u, call[c].set)
  /\ users' = [users EXCEPT ![u] = call[c].set]
  /\ Finish(c)
  /\ UNCHANGED avatars

SaveUpdate(c) ==
  LET u == call[c].user IN
  /\ call[c].step = "update" /\ Unique(u, call[c].set)
  /\ users' = [users EXCEPT ![u] = Laid(call[c].set, @)]
  /\ Finish(c)
  /\ UNCHANGED avatars

SaveRefused(c) ==
  /\ call[c].step = "update" /\ ~Unique(call[c].user, call[c].set)
  /\ Finish(c)
  /\ UNCHANGED <<users, avatars>>

-----------------------------------------------------------------------------
(* updatePassword.  A user without one has signed up with Google.  What a  *)
(* body names goes into the column as it is: as a hash it matches its      *)
(* password, as anything else none.                                        *)

UpdatePassword(c, u, current, new) ==
  /\ call[c].step = "idle" /\ current # new
  /\ call' = [call EXCEPT ![c] =
       [Idle EXCEPT !.step = "compare", !.user = u, !.password = current, !.new = new]]
  /\ UNCHANGED <<users, avatars>>

\* The row is read and its password compared with the one given.
ComparePassword(c) ==
  /\ call[c].step = "compare"
  /\ IF users[call[c].user].password = call[c].password
       THEN call' = [call EXCEPT ![c].step = "store"]
       ELSE Finish(c)
  /\ UNCHANGED <<users, avatars>>

StorePassword(c) ==
  /\ call[c].step = "store"
  /\ users' = [users EXCEPT ![call[c].user].password = call[c].new]
  /\ Finish(c)
  /\ UNCHANGED avatars

-----------------------------------------------------------------------------
(* updateAvatar: the file first, then its URL into the profile. *)

\* The body that updateUserInfo is called with.
AvatarUrl(u, x) == [k \in {"avatarUrl"} |-> <<u, x>>]

UpdateAvatar(c, u, x) ==
  /\ call[c].step = "idle"
  /\ call' = [call EXCEPT ![c] =
       [Idle EXCEPT !.step = "upload", !.user = u, !.dto = AvatarUrl(u, x),
                    !.set = AvatarUrl(u, x)]]
  /\ UNCHANGED <<users, avatars>>

\* Faulty variant: nobody looks whether the upload failed.
UploadAvatarUnchecked(c) ==
  /\ call[c].step = "upload"
  /\ avatars' \in {avatars, avatars \union {call[c].set["avatarUrl"]}}
  /\ call' = [call EXCEPT ![c].step = "preload"]
  /\ UNCHANGED users

\* A file of that name is replaced (`upsert').
UploadAvatar(c) ==
  /\ call[c].step = "upload"
  /\ avatars' = avatars \union {call[c].set["avatarUrl"]}
  /\ call' = [call EXCEPT ![c].step = "preload"]
  /\ UNCHANGED users

\* A call to the database or the bucket rejects, or the process dies.
Abort(c) ==
  /\ call[c].step # "idle"
  /\ Finish(c)
  /\ UNCHANGED <<users, avatars>>

-----------------------------------------------------------------------------

Init ==
  /\ users = Start
  /\ avatars = {}
  /\ call = [c \in Calls |-> Idle]

Arrive(c, u) ==
  \/ \E d \in Dtos : UpdateUserInfo(c, u, d)
  \/ \E p, q \in Passwords : UpdatePassword(c, u, p, q)
  \/ \E x \in Exts : UpdateAvatar(c, u, x)

Proceed(c) ==
  \/ Preload(c) \/ SaveSelect(c) \/ SaveUpdate(c) \/ SaveRefused(c)
  \/ ComparePassword(c) \/ StorePassword(c)
  \/ UploadAvatar(c)

Next == \E c \in Calls : (\E u \in Users : Arrive(c, u)) \/ Proceed(c) \/ Abort(c)

Spec == Init /\ [][Next]_vars

-----------------------------------------------------------------------------
(* Properties. *)

IsRow(row) ==
  /\ DOMAIN row = Columns
  /\ \A k \in Columns : row[k] \in Opt(Values)

TypeOK ==
  /\ DOMAIN users = Users /\ \A u \in Users : IsRow(users[u])
  /\ avatars \subseteq Files
  /\ DOMAIN call = Calls /\ \A c \in Calls : IsCall(call[c])

(***************************************************************************)
(* No two accounts share a user name or an email, also when an update      *)
(* writes a user's old email back that another user has taken meanwhile    *)
(* (users.service.ts:119, User.entity.ts:12-16).                           *)
(***************************************************************************)
OneOwner ==
  \A u, v \in Users : u # v => \A k \in UniqueColumns : users[u][k] # users[v][k]

(***************************************************************************)
(* A password changes only by the end of updatePassword, to the new        *)
(* password of that call, or to one that the body of an update names:      *)
(* whatever other profile and avatar updates read the row before it and    *)
(* save it after, none brings the old password back                        *)
(* (User.entity.ts:21, users.service.ts:110-119, 158).                     *)
(***************************************************************************)
PasswordSurvives ==
  [][ \A u \in Users : LET new == users'[u].password IN
        new # users[u].password => \E c \in Calls :
          /\ call[c].user = u
          /\ \/ call[c].step = "store" /\ call[c].new = new
             \/ /\ call[c].step = "update" /\ "password" \in DOMAIN call[c].dto
                /\ call[c].dto["password"] = new ]_vars

\* URLs that did not come from an upload: a body may name any.
GivenUrls ==
  {d.columns["avatarUrl"] : d \in {e \in Dtos : "avatarUrl" \in DOMAIN e.columns}}
    \union {Start[u].avatarUrl : u \in Users}

(***************************************************************************)
(* An avatar's URL in a profile, unless a client gave it, is of a file of  *)
(* that user which is in the bucket, whichever uploads failed and          *)
(* whichever update came last                                              *)
(* (users.service.ts:171-172, supabase.service.ts:22-29).                  *)
(***************************************************************************)
AvatarIsThere ==
  \A u \in Users : LET url == users[u].avatarUrl IN
    url \in GivenUrls \/ (url \in avatars /\ url[1] = u)

(***************************************************************************)
(* "Applies a partial update to a user's profile info."                    *)
(* (users.service.ts:108): an update changes the columns of its body.  It  *)
(* changes others too: what another update wrote between its preload and   *)
(* its save is set back.                                                   *)
(***************************************************************************)
PartialUpdate ==
  [][ \A c \in Calls : SaveUpdate(c) =>
        \A k \in Columns : users'[call[c].user][k] # users[call[c].user][k] =>
          k \in DOMAIN call[c].dto ]_vars
=============================================================================
