------------------------- MODULE GameLibraryProofs -------------------------
(***************************************************************************)
(* Where a user's second game of a title comes from.                       *)
(*                                                                         *)
(* Nothing in the schema keeps a title single: createGame looks for it and *)
(* inserts a call or two later.  What is still true is said of the calls   *)
(* between the two, LateOK: a game of the title that is there by then was  *)
(* inserted after the lookup, and so has the call among those it was       *)
(* inserted beside.                                                        *)
(***************************************************************************)
EXTENDS GameLibrary, TLAPS

\* Past its lookup and about to save.
Looked(k) == k.step \in {"select", "insert"}

LateOK ==
  \A c \in Calls : Looked(call[c]) /\ Title(call[c]) # NULL =>
    \A g \in GamesOf(User(call[c])) \cap WithTitle(Title(call[c])) :
      games[g].by # NULL => c \in games[g].during

Inv == TypeOK /\ LateOK /\ CopiesOverlapped

-----------------------------------------------------------------------------
(* Calls and rows. *)

\* A free slot is a call that has looked for nothing.
LEMMA IdleOK == IsCall(Idle) /\ ~Looked(Idle)
BY DEF Idle, IsCall, Looked, Nothing, IsPartial, Columns, Opt

\* A call about to save has a user and a title.
LEMMA CallOK ==
  ASSUME NEW k, IsCall(k), k.step \in {"check", "select", "insert"}
  PROVE  User(k) \in Users /\ Title(k) \in Opt(Titles)
BY DEF IsCall, IsPartial, User, Title, Opt

\* The columns in which an entity differs are columns of it.
LEMMA DifferingOK ==
  ASSUME NEW set, NEW row, IsPartial(set)
  PROVE  IsPartial(Differing(set, row))
BY DEF IsPartial, Differing, Restrict

\* A row with columns written is a row; with another user or title it is by nobody.
LEMMA WrittenOK ==
  ASSUME NEW row \in Game, NEW columns, IsPartial(columns)
  PROVE  /\ Written(row, columns) \in Game
         /\ Written(row, columns) = row \/ Written(row, columns).by = NULL
<1> DEFINE user  == IF "user" \in DOMAIN columns THEN columns["user"] ELSE row.user
           title == IF "gameTitleId" \in DOMAIN columns THEN columns["gameTitleId"]
                                                        ELSE row.gameTitleId
           same  == user = row.user /\ title = row.gameTitleId
           by     == IF same THEN row.by ELSE NULL
           during == IF same THEN row.during ELSE {}
<1>1. user \in Opt(Users) /\ title \in Opt(Titles)
  BY DEF IsPartial, Game
<1>2. by \in Opt(Calls) /\ during \in SUBSET Calls
  BY DEF Game, Opt
<1>3. Written(row, columns) = [user |-> user, gameTitleId |-> title, by |-> by, during |-> during]
  BY DEF Written
<1>4. same => by = row.by /\ during = row.during
  OBVIOUS
<1>5. ~same => by = NULL
  OBVIOUS
<1> HIDE DEF user, title, by, during
<1>6. Written(row, columns) \in Game
  BY <1>1, <1>2, <1>3 DEF Game
<1>7. row = [user |-> row.user, gameTitleId |-> row.gameTitleId, by |-> row.by,
             during |-> row.during]
  BY DEF Game
<1>8. CASE same
  BY <1>3, <1>4, <1>6, <1>7, <1>8
<1>9. CASE ~same
  BY <1>3, <1>5, <1>6, <1>9
<1> QED
  BY <1>6, <1>8, <1>9

-----------------------------------------------------------------------------
(* The steps, by what they change. *)

\* Calls are moved on, none past its lookup.
LEMMA CallStep ==
  ASSUME Inv, NEW c \in Calls, NEW k, IsCall(k), call' = [call EXCEPT ![c] = k],
         UNCHANGED games,
         Looked(k) => Looked(call[c]) /\ User(k) = User(call[c]) /\ Title(k) = Title(call[c])
  PROVE  Inv'
<1>1. \A d \in Calls : call'[d] = IF d = c THEN k ELSE call[d]
  BY DEF Inv, TypeOK
<1>2. TypeOK'
  BY <1>1 DEF Inv, TypeOK, Known
<1>3. LateOK'
  <2> SUFFICES ASSUME NEW d \in Calls, Looked(call'[d]), Title(call'[d]) # NULL,
                      NEW g \in Known, games[g].user = User(call'[d]),
                      games[g].gameTitleId = Title(call'[d]), games[g].by # NULL
               PROVE  d \in games[g].during
    BY DEF LateOK, GamesOf, WithTitle, Known, Looked, User, Title
  <2>1. /\ Looked(call[d]) /\ User(call'[d]) = User(call[d]) /\ Title(call'[d]) = Title(call[d])
    BY <1>1
  <2> QED
    BY <2>1 DEF Inv, LateOK, GamesOf, WithTitle
<1>4. CopiesOverlapped'
  BY DEF Inv, CopiesOverlapped, Known
<1> QED
  BY <1>2, <1>3, <1>4 DEF Inv

\* Rows stay, go, or become nobody's; calls stay or end.
LEMMA RowsStep ==
  ASSUME Inv, TypeOK', Known' \subseteq Known,
         \A g \in Known' : games'[g] = games[g] \/ games'[g].by = NULL,
         \A c \in Calls : Looked(call'[c]) => call'[c] = call[c]
  PROVE  Inv'
<1>1. CopiesOverlapped'
  BY DEF Inv, CopiesOverlapped
<1>2. LateOK'
  <2> SUFFICES ASSUME NEW c \in Calls, Looked(call'[c]), Title(call'[c]) # NULL,
                      NEW g \in Known', games'[g].user = User(call'[c]),
                      games'[g].gameTitleId = Title(call'[c]), games'[g].by # NULL
               PROVE  c \in games'[g].during
    BY DEF LateOK, GamesOf, WithTitle, Looked, User, Title
  <2>1. games'[g] = games[g] /\ call'[c] = call[c] /\ g \in Known
    OBVIOUS
  <2> QED
    BY <2>1 DEF Inv, LateOK, GamesOf, WithTitle
<1> QED
  BY <1>1, <1>2 DEF Inv

-----------------------------------------------------------------------------
(* The actions. *)

\* A request comes in; the user is the one signed in.
LEMMA CreateStep ==
  ASSUME Inv, NEW c \in Calls, NEW u \in Users, NEW b \in Creations, CreateGame(c, u, b)
  PROVE  Inv'
<1> DEFINE set == [k \in DOMAIN b.columns \union {"user"} |->
                     IF k = "user" THEN u ELSE b.columns[k]]
           k == [step |-> "check", id |-> b.id, set |-> set]
<1>1. IsPartial(set) /\ "user" \in DOMAIN set /\ set["user"] \in Users /\ b.id \in Opt(Ids)
  BY BodyAssumption DEF IsPartial, Columns, Opt
<1> HIDE DEF set
<1>2. IsCall(k) /\ ~Looked(k)
  BY <1>1 DEF IsCall, Looked
<1>3. call' = [call EXCEPT ![c] = k] /\ UNCHANGED games
  BY DEF CreateGame, set
<1> HIDE DEF k
<1> QED
  BY <1>2, <1>3, CallStep

\* The lookup has found nothing: nothing is there.
LEMMA CheckedStep ==
  ASSUME Inv, NEW c \in Calls, CreateChecked(c)
  PROVE  Inv'
<1> DEFINE step == IF call[c].id = NULL THEN "insert" ELSE "select"
           k == [call[c] EXCEPT !.step = step]
<1>1. IsCall(call[c]) /\ call[c].step = "check"
  BY DEF Inv, TypeOK, CreateChecked
<1>2. \A d \in Calls : call'[d] = IF d = c THEN k ELSE call[d]
  BY DEF CreateChecked, Inv, TypeOK
<1>3. GamesOf(User(call[c])) \cap WithTitle(Title(call[c])) = {} /\ games' = games
  BY DEF CreateChecked, GameAlreadyCreated
<1>4. TypeOK'
  <2>1. IsCall(k)
    BY <1>1 DEF IsCall
  <2>2. DOMAIN call' = Calls
    BY DEF CreateChecked, Inv, TypeOK
  <2> HIDE DEF k
  <2> QED
    BY <1>2, <1>3, <2>1, <2>2 DEF Inv, TypeOK, Known
<1>5. k.set = call[c].set
  BY <1>1 DEF IsCall
<1>6. User(k) = User(call[c]) /\ Title(k) = Title(call[c])
  BY <1>5 DEF User, Title
<1> HIDE DEF k
<1>7. LateOK'
  <2> SUFFICES ASSUME NEW d \in Calls, Looked(call'[d]), Title(call'[d]) # NULL,
                      NEW g \in Known, games[g].user = User(call'[d]),
                      games[g].gameTitleId = Title(call'[d]), games[g].by # NULL
               PROVE  d \in games[g].during
    BY <1>3 DEF LateOK, GamesOf, WithTitle, Known, Looked, User, Title
  <2>1. CASE d = c
    BY <1>2, <1>3, <1>6, <2>1 DEF GamesOf, WithTitle
  <2>2. CASE d # c
    BY <1>2, <2>2 DEF Inv, LateOK, GamesOf, WithTitle
  <2> QED
    BY <2>1, <2>2
<1>8. CopiesOverlapped'
  BY <1>3 DEF Inv, CopiesOverlapped, Known
<1> QED
  BY <1>4, <1>7, <1>8 DEF Inv

\* What is to be saved is looked at; with a row of that id it is an update.
LEMMA SelectStep ==
  ASSUME Inv, NEW c \in Calls, SaveSelect(c)
  PROVE  Inv'
<1> DEFINE id == call[c].id
           found == [step |-> "update", id |-> id, set |-> Differing(call[c].set, games[id])]
           k == [call[c] EXCEPT !.step = "insert"]
<1>1. IsCall(call[c]) /\ call[c].step = "select"
  BY DEF Inv, TypeOK, SaveSelect
<1>2. IsCall(k) /\ k.set = call[c].set
  BY <1>1 DEF IsCall
<1>3. User(k) = User(call[c]) /\ Title(k) = Title(call[c]) /\ Looked(call[c])
  BY <1>1, <1>2 DEF User, Title, Looked
<1>4. IsCall(found) /\ ~Looked(found)
  BY <1>1, DifferingOK DEF IsCall, Looked
<1>5. /\ UNCHANGED games
      /\ \/ call' = [call EXCEPT ![c] = k]
         \/ call' = [call EXCEPT ![c] = Idle]
         \/ call' = [call EXCEPT ![c] = found]
  BY DEF SaveSelect, Finish, Inv, TypeOK
<1> HIDE DEF k, found
<1> QED
  BY <1>2, <1>3, <1>4, <1>5, IdleOK, CallStep

\* The UPDATE of a save, if its row is still there.
LEMMA UpdateStep ==
  ASSUME Inv, NEW c \in Calls, SaveUpdate(c)
  PROVE  Inv'
<1> DEFINE id == call[c].id
           set == call[c].set
<1>1. IsPartial(set)
  BY DEF Inv, TypeOK, IsCall
<1>2. games' = [g \in Known |-> IF g = id THEN Written(games[g], set) ELSE games[g]]
  BY DEF SaveUpdate
<1>3. call' = [call EXCEPT ![c] = Idle]
  BY DEF SaveUpdate, Finish
<1> HIDE DEF id, set
<1>4. \A d \in Calls : call'[d] = IF d = c THEN Idle ELSE call[d]
  BY <1>3 DEF Inv, TypeOK
<1>5. Known' = Known
  BY <1>2 DEF Known
<1>6. \A g \in Known : games'[g] \in Game /\ (games'[g] = games[g] \/ games'[g].by = NULL)
  BY <1>1, <1>2, WrittenOK DEF Inv, TypeOK
<1>7. games' \in [Known -> Game]
  BY <1>2, <1>6
<1>8. TypeOK'
  BY <1>3, <1>4, <1>5, <1>7, IdleOK DEF Inv, TypeOK
<1> QED
  BY <1>4, <1>5, <1>6, <1>8, IdleOK, RowsStep

\* What is there of the title by now has the call beside it.
LEMMA InsertStep ==
  ASSUME Inv, NEW c \in Calls, CreateInsert(c)
  PROVE  Inv'
<1> DEFINE user == User(call[c])
           title == Title(call[c])
           row == [user |-> user, gameTitleId |-> title, by |-> c, during |-> Beside(c)]
<1>1. /\ IsCall(call[c]) /\ call[c].step = "insert" /\ Looked(call[c])
      /\ user \in Users /\ title \in Opt(Titles) /\ Beside(c) \subseteq Calls
  BY CallOK DEF Inv, TypeOK, CreateInsert, Looked, Beside
<1>2. PICK g \in Ids \ Known :
        games' = [h \in Known \union {g} |-> IF h = g THEN row ELSE games[h]]
  BY <1>1 DEF CreateInsert, IsCall, Opt
<1>3. call' = [call EXCEPT ![c] = Idle]
  BY DEF CreateInsert, Finish
<1>4. \A d \in Calls : call'[d] = IF d = c THEN Idle ELSE call[d]
  BY <1>3 DEF Inv, TypeOK
<1>5. row \in Game
  BY <1>1 DEF Game, Opt
<1>6. row.user = user /\ row.gameTitleId = title /\ row.by = c /\ row.during = Beside(c)
  OBVIOUS
<1> HIDE DEF row, user, title
<1>7. /\ Known' = Known \union {g} /\ games'[g] = row
      /\ \A h \in Known : games'[h] = games[h]
  BY <1>2 DEF Known
<1>8. TypeOK'
  <2>1. games' \in [Known' -> Game]
    BY <1>2, <1>5, <1>7 DEF Inv, TypeOK
  <2>2. DOMAIN call' = Calls /\ \A d \in Calls : IsCall(call'[d])
    BY <1>3, <1>4, IdleOK DEF Inv, TypeOK
  <2> QED
    BY <1>2, <1>7, <2>1, <2>2 DEF Inv, TypeOK
<1>9. CopiesOverlapped'
  <2>1. \A h \in Known : games[h].user = row.user /\ games[h].gameTitleId = row.gameTitleId
                           /\ row.gameTitleId # NULL /\ games[h].by # NULL
                         => row.by \in games[h].during
    BY <1>1, <1>6 DEF Inv, LateOK, GamesOf, WithTitle, user, title
  <2> QED
    BY <1>7, <2>1 DEF Inv, CopiesOverlapped
<1>10. LateOK'
  <2> SUFFICES ASSUME NEW d \in Calls, Looked(call'[d]), Title(call'[d]) # NULL,
                      NEW h \in Known', games'[h].user = User(call'[d]),
                      games'[h].gameTitleId = Title(call'[d]), games'[h].by # NULL
               PROVE  d \in games'[h].during
    BY DEF LateOK, GamesOf, WithTitle, Looked, User, Title
  <2>1. d # c /\ call'[d] = call[d]
    BY <1>4, IdleOK
  <2>2. CASE h = g
    BY <1>6, <1>7, <2>1, <2>2 DEF Beside, Looked, user, title
  <2>3. CASE h # g
    BY <1>7, <2>1, <2>3 DEF Inv, LateOK, GamesOf, WithTitle
  <2> QED
    BY <2>2, <2>3
<1> QED
  BY <1>8, <1>9, <1>10 DEF Inv

\* updateGame and deleteGame write one row of the user's.
LEMMA OwnRowStep ==
  ASSUME Inv, NEW u \in Users, NEW g \in Ids,
         DeleteGame(u, g) \/ \E b \in Updates : UpdateGame(u, g, b)
  PROVE  Inv'
<1>1. CASE DeleteGame(u, g)
  <2>1. games' = [h \in Known \ {g} |-> games[h]] /\ UNCHANGED call
    BY <1>1 DEF DeleteGame, Restrict, Known
  <2>2. Known' = Known \ {g} /\ \A h \in Known' : games'[h] = games[h]
    BY <2>1 DEF Known
  <2>3. TypeOK'
    BY <2>1, <2>2 DEF Inv, TypeOK
  <2> QED
    BY <2>1, <2>2, <2>3, RowsStep
<1>2. ASSUME NEW b \in Updates, UpdateGame(u, g, b) PROVE Inv'
  <2>1. games' = [games EXCEPT ![g] = Written(games[g], b)] /\ UNCHANGED call
    BY <1>2 DEF UpdateGame
  <2>2. g \in Known /\ IsPartial(b) /\ games \in [Known -> Game]
    BY <1>2, BodyAssumption DEF UpdateGame, GamesOf, Inv, TypeOK
  <2>3. Known' = Known
    BY <2>1 DEF Known
  <2>4. \A h \in Known : games'[h] \in Game /\ (games'[h] = games[h] \/ games'[h].by = NULL)
    BY <2>1, <2>2, WrittenOK
  <2>5. TypeOK'
    BY <2>1, <2>2, <2>3, <2>4 DEF Inv, TypeOK
  <2> QED
    BY <2>1, <2>3, <2>4, <2>5, RowsStep
<1> QED
  BY <1>1, <1>2

-----------------------------------------------------------------------------
(* The theorems. *)

\* The empty library satisfies Inv.
LEMMA InvInit == Init => Inv
<1> SUFFICES ASSUME Init PROVE Inv
  OBVIOUS
<1>1. Known = {} /\ games \in [Known -> Game]
  BY DEF Init, Known, Nothing
<1>2. DOMAIN call = Calls /\ \A c \in Calls : call[c] = Idle
  BY DEF Init
<1> QED
  BY <1>1, <1>2, IdleOK DEF Inv, TypeOK, LateOK, CopiesOverlapped, GamesOf

(***************************************************************************)
(* What every call between its lookup and its insert relies on, and what   *)
(* it makes of the rows, hold throughout (games.service.ts:36-83).         *)
(***************************************************************************)
THEOREM LibraryInvCorrect == Spec => []Inv
<1>1. ASSUME Inv, [Next]_vars PROVE Inv'
  <2>1. ASSUME NEW c \in Calls, CreateConflict(c) \/ InsertRefused(c) \/ Abort(c) PROVE Inv'
    <3>1. call' = [call EXCEPT ![c] = Idle] /\ UNCHANGED games
      BY <2>1 DEF CreateConflict, InsertRefused, Abort, Finish
    <3> QED
      BY <1>1, <3>1, IdleOK, CallStep
  <2>2. CASE UNCHANGED vars
    <3>1. TypeOK'
      BY <1>1, <2>2 DEF vars, Inv, TypeOK, Known
    <3> QED
      BY <1>1, <2>2, <3>1, RowsStep DEF vars, Known
  <2> QED
    BY <1>1, <2>1, <2>2, CreateStep, CheckedStep, SelectStep, UpdateStep, InsertStep,
       OwnRowStep DEF Next
<1> QED
  BY <1>1, InvInit, PTL DEF Spec

(***************************************************************************)
(* The table of games and the calls of createGame keep their types, for    *)
(* any bodies.                                                             *)
(***************************************************************************)
THEOREM LibraryTypeCorrect == Spec => []TypeOK
<1>1. Inv => TypeOK
  BY DEF Inv
<1> QED
  BY <1>1, LibraryInvCorrect, PTL

(***************************************************************************)
(* Two games of one title of a user that were both inserted so come from   *)
(* two additions that overlapped, whatever bodies, updates and deletions   *)
(* there are and however many calls (games.service.ts:36-61, 81-82).       *)
(***************************************************************************)
THEOREM CopiesCorrect == Spec => []CopiesOverlapped
<1>1. Inv => CopiesOverlapped
  BY DEF Inv
<1> QED
  BY <1>1, LibraryInvCorrect, PTL
=============================================================================
