---------------------------- MODULE GameLibrary ----------------------------
(***************************************************************************)
(* The users' games: the table Game and the handlers of GamesService that  *)
(* write it.                                                               *)
(*                                                                         *)
(* createGame looks for the title in one database call and saves in        *)
(* others; updateGame and deleteGame are one conditional write each.  No   *)
(* constraint of the schema keeps a title single for a user.  Bodies are   *)
(* taken as they come in: the validation pipe strips nothing.  Names,      *)
(* covers, dates and statuses decide nothing here and are left out.        *)
(***************************************************************************)
EXTENDS Integers, Functions

CONSTANTS
  Users,
  Titles,     \* ids of game titles at IGDB
  Creations,  \* bodies of POST games: an id or NULL, and columns with values
  Updates,    \* bodies of PUT games, but for the id: columns with values
  Ids,        \* ids for games
  Calls,      \* slots for createGame calls in flight
  NULL        \* null and undefined: a game entered by hand has no title

VARIABLES
  games,  \* game id -> row
  call    \* call -> where its createGame stands, and its locals

vars == <<games, call>>

-----------------------------------------------------------------------------

Opt(S) == S \union {NULL}

\* The columns that matter, and what a body may name of them.
Columns == {"user", "gameTitleId"}
IsPartial(f) ==
  /\ DOMAIN f \subseteq Columns
  /\ "user" \in DOMAIN f => f["user"] \in Opt(Users)
  /\ "gameTitleId" \in DOMAIN f => f["gameTitleId"] \in Opt(Titles)

\* Both DTOs extend the entity.
ASSUME BodyAssumption ==
  /\ \A b \in Creations : b.id \in Opt(Ids) /\ IsPartial(b.columns)
  /\ \A b \in Updates : IsPartial(b)

\* Two ghosts tell how a row came to its user and its title: `by' the call that
\* inserted it, until a later write changes one of the two, and `during' the other
\* calls that had looked for the same title of the same user by then.
Game == [user : Opt(Users), gameTitleId : Opt(Titles),
         by : Opt(Calls), during : SUBSET Calls]

\* `set' is the entity to save, then the columns to update.
IsCall(k) ==
  /\ k.step \in {"idle", "check", "select", "insert", "update"}
  /\ k.id \in Opt(Ids) /\ IsPartial(k.set)
  /\ k.step \in {"check", "select", "insert"} =>
       "user" \in DOMAIN k.set /\ k.set["user"] \in Users
  /\ k.step \in {"select", "update"} => k.id # NULL

Nothing == [k \in {} |-> NULL]
Idle == [step |-> "idle", id |-> NULL, set |-> Nothing]

Known == DOMAIN games
GamesOf(u) == {g \in Known : games[g].user = u}
WithTitle(t) == {g \in Known : games[g].gameTitleId = t}

\* Whose game of which title a call is about to save.
User(k) == k.set["user"]
Title(k) == IF "gameTitleId" \in DOMAIN k.set THEN k.set["gameTitleId"] ELSE NULL

Finish(c) == call' = [call EXCEPT ![c] = Idle]

\* Faulty variant: what is not written is lost.
WrittenOnly(row, columns) == columns

\* A row with some of its columns written: is the game another one now?
Written(row, columns) ==
  LET user  == IF "user" \in DOMAIN columns THEN columns["user"] ELSE row.user
      title == IF "gameTitleId" \in DOMAIN columns THEN columns["gameTitleId"]
                                                   ELSE row.gameTitleId
      same  == user = row.user /\ title = row.gameTitleId IN
  [user |-> user, gameTitleId |-> title,
   by |-> IF same THEN row.by ELSE NULL, during |-> IF same THEN row.during ELSE {}]

-----------------------------------------------------------------------------
(* createGame. *)

\* The body's columns, of the user that is signed in.
CreateGame(c, u, b) ==
  /\ call[c].step = "idle"
  /\ call' = [call EXCEPT ![c] =
       [step |-> "check", id |-> b.id,
        set |-> [k \in DOMAIN b.columns \union {"user"} |->
                   IF k = "user" THEN u ELSE b.columns[k]]]]
  /\ UNCHANGED games

\* Faulty variant: the title is looked for among the games entered by hand.
GameAlreadyCreatedManual(u, t) == \E g \in GamesOf(u) : t = NULL \/ g \in WithTitle(NULL)

(***************************************************************************)
(* The lookup of a game with user and title.  TypeORM leaves a condition   *)
(* out whose value is undefined: without a title any game of the user will *)
(* do.                                                                     *)
(***************************************************************************)
GameAlreadyCreated(u, t) == \E g \in GamesOf(u) : t = NULL \/ g \in WithTitle(t)

\* With an id save() looks for the row first.
CreateChecked(c) ==
  /\ call[c].step = "check" /\ ~GameAlreadyCreated(User(call[c]), Title(call[c]))
  /\ call' = [call EXCEPT ![c].step = IF call[c].id = NULL THEN "insert" ELSE "select"]
  /\ UNCHANGED games

CreateConflict(c) ==
  /\ call[c].step = "check" /\ GameAlreadyCreated(User(call[c]), Title(call[c]))
  /\ Finish(c)
  /\ UNCHANGED games

\* The columns in which the entity differs from the row.
Differing(set, row) == Restrict(set, {k \in DOMAIN set : set[k] # row[k]})

\* A row that is there will be updated, whoever's it is, in what differs.
SaveSelect(c) ==
  LET id == call[c].id IN
  /\ call[c].step = "select"
  /\ \/ /\ id \notin Known
        /\ call' = [call EXCEPT ![c].step = "insert"]
     \/ /\ id \in Known /\ Differing(call[c].set, games[id]) = Nothing
        /\ Finish(c)
     \/ /\ id \in Known /\ Differing(call[c].set, games[id]) # Nothing
        /\ call' = [call EXCEPT ![c] =
             [step |-> "update", id |-> id, set |-> Differing(call[c].set, games[id])]]
  /\ UNCHANGED games

\* An UPDATE of a row that is gone by now changes nothing.
SaveUpdate(c) ==
  LET id == call[c].id IN
  /\ call[c].step = "update"
  /\ games' = [g \in Known |-> IF g = id THEN Written(games[g], call[c].set) ELSE games[g]]
  /\ Finish(c)

\* The calls past their lookup that will save the same game as c.
Beside(c) ==
  {d \in Calls \ {c} : /\ call[d].step \in {"select", "insert"}
                       /\ User(call[d]) = User(call[c]) /\ Title(call[d]) = Title(call[c])}

\* Only the id is unique: with one of its own the insert always succeeds.
CreateInsert(c) ==
  /\ call[c].step = "insert"
  /\ \E g \in (IF call[c].id = NULL THEN Ids ELSE {call[c].id}) \ Known :
       games' = [h \in Known \union {g} |->
         IF h = g THEN [user |-> User(call[c]), gameTitleId |-> Title(call[c]),
                        by |-> c, during |-> Beside(c)]
                  ELSE games[h]]
  /\ Finish(c)

InsertRefused(c) ==
  /\ call[c].step = "insert" /\ call[c].id \in Known
  /\ Finish(c)
  /\ UNCHANGED games

\* A database call rejects, or the process dies.
Abort(c) ==
  /\ call[c].step # "idle"
  /\ Finish(c)
  /\ UNCHANGED games

-----------------------------------------------------------------------------
(* updateGame and deleteGame name the game and its user. *)

UpdateGame(u, g, columns) ==
  /\ g \in GamesOf(u)
  /\ games' = [games EXCEPT ![g] = Written(@, columns)]
  /\ UNCHANGED call

DeleteGame(u, g) ==
  /\ g \in GamesOf(u)
  /\ games' = Restrict(games, Known \ {g})
  /\ UNCHANGED call

-----------------------------------------------------------------------------

Init ==
  /\ games = Nothing
  /\ call = [c \in Calls |-> Idle]

Next ==
  \/ \E c \in Calls :
       \/ \E u \in Users, b \in Creations : CreateGame(c, u, b)
       \/ CreateChecked(c) \/ CreateConflict(c)
       \/ SaveSelect(c) \/ SaveUpdate(c) \/ CreateInsert(c) \/ InsertRefused(c)
       \/ Abort(c)
  \/ \E u \in Users, g \in Ids : DeleteGame(u, g) \/ \E b \in Updates : UpdateGame(u, g, b)

Spec == Init /\ [][Next]_vars

-----------------------------------------------------------------------------
(* Properties. *)

TypeOK ==
  /\ Known \subseteq Ids /\ games \in [Known -> Game]
  /\ DOMAIN call = Calls /\ \A c \in Calls : IsCall(call[c])

(***************************************************************************)
(* A user has two games of one title only where a later write has changed  *)
(* the title or the user of one of them, or where the call that inserted   *)
(* the one had looked for the title before the other was inserted.  Two    *)
(* additions that do not overlap leave one game, whatever is deleted,      *)
(* retitled, given away or saved by its id between their calls             *)
(* (games.service.ts:36-61, 81-82).                                        *)
(***************************************************************************)
CopiesOverlapped ==
  \A g, h \in Known :
    /\ g # h /\ games[g].user = games[h].user
    /\ games[g].gameTitleId = games[h].gameTitleId /\ games[g].gameTitleId # NULL
    /\ games[g].by # NULL /\ games[h].by # NULL
    => games[g].by \in games[h].during \/ games[h].by \in games[g].during

(***************************************************************************)
(* "throws ConflictException if the user already has this game title"      *)
(* (games.service.ts:51): nobody else's addition is refused.  But a game   *)
(* entered by hand, without a title, is refused whenever the user has any  *)
(* game at all.                                                            *)
(***************************************************************************)
ConflictIfOwned ==
  [][ \A c \in Calls : CreateConflict(c) =>
        GamesOf(User(call[c])) \cap WithTitle(Title(call[c])) # {} ]_vars
=============================================================================
