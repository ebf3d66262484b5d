----------------------------- MODULE GameQueue -----------------------------
(***************************************************************************)
(* The play queue of one user: the rows of game_queue_entries with that    *)
(* userId, and the handlers of GameQueueService that read and write them.  *)
(* A row holds an integer `order'; the queue is the rows sorted by it.     *)
(*                                                                         *)
(* moveGameInQueue is a chain of awaited database calls, so several of its *)
(* activations (two tabs, two devices) interleave at every await.  An      *)
(* action below is one database call with the code that runs after it up   *)
(* to the next call.                                                       *)
(***************************************************************************)
EXTENDS Integers, FiniteSets

CONSTANTS
  Games,      \* ids of the games the user's library starts with
  Requests,   \* slots for moveGameInQueue calls in flight at the same time
  Versions,   \* tell apart the rows a game has had, one after the other
  NULL,       \* null and undefined
  ORDER_GAP,  \* spacing of appended rows and of a rebalanced queue
  MAX_ORDER   \* largest value of the integer column (2^31 - 1 in PostgreSQL)

ASSUME FiniteAssumption == IsFiniteSet(Games)
ASSUME GapAssumption  == ORDER_GAP \in Nat /\ ORDER_GAP >= 2
ASSUME MaxAssumption  == MAX_ORDER \in Nat /\ MAX_ORDER >= ORDER_GAP
ASSUME NullAssumption == NULL \notin Games \union (Games \X Versions) \union Nat

VARIABLES
  library,  \* games of the user that exist, the targets of the foreign key
  entries,  \* queued game -> its row
  pc,       \* request -> the database call its handler makes next
  dto,      \* request -> the body it was called with
  found,    \* request -> what findNeighbors last returned to it
  plan      \* request -> the rows its rebalance is about to save

vars == <<library, entries, pc, dto, found, plan>>

-----------------------------------------------------------------------------
(* Data. *)

(***************************************************************************)
(* Keys are uuids, compared only for equality: the rows of two games never *)
(* share one, and a new row's key is none that anybody still refers to.    *)
(***************************************************************************)
RowIds   == Games \X Versions
Row      == [id : RowIds, order : Nat]
Dto      == [beforeId : Games \union {NULL}, gameId : Games,
             afterId : Games \union {NULL}]
Found    == [left : Nat \union {NULL}, center : RowIds \union {NULL},
             right : Nat \union {NULL}]
Steps    == {"idle", "balance", "save", "refind", "place"}
NoDto    == [beforeId |-> NULL, gameId |-> NULL, afterId |-> NULL]
NoFound  == [left |-> NULL, center |-> NULL, right |-> NULL]
NoPlan   == [g \in {} |-> NULL]

\* A map from some of the games to rows.
IsTable(t) == DOMAIN t \subseteq Games /\ t \in [DOMAIN t -> Row]

Queued == DOMAIN entries

(***************************************************************************)
(* The positions a sort by `order' may give the rows of a table: rows with *)
(* equal orders come back in any order the database likes.                 *)
(***************************************************************************)
SortedPositions(table) ==
  { pos \in [DOMAIN table -> 1 .. Cardinality(DOMAIN table)] :
      /\ \A g, h \in DOMAIN table : g # h => pos[g] # pos[h]
      /\ \A g, h \in DOMAIN table :
           table[g].order < table[h].order => pos[g] < pos[h] }

\* What getGamesInQueue may answer.
GamesInQueue == SortedPositions(entries)

\* Math.round(x / 2) of a natural number: halves round up.
RoundHalf(x) == (x + 1) \div 2

\* Faulty variant: Math.floor, which can produce order 0.
CalculateOrderFloor(l, r) ==
  IF l = NULL /\ r = NULL THEN ORDER_GAP
  ELSE IF l = NULL THEN r \div 2
  ELSE IF r = NULL THEN l + ORDER_GAP
  ELSE (l + r) \div 2

CalculateOrder(l, r) ==
  IF l = NULL /\ r = NULL THEN ORDER_GAP
  ELSE IF l = NULL THEN RoundHalf(r)
  ELSE IF r = NULL THEN l + ORDER_GAP
  ELSE RoundHalf(l + r)

\* Faulty variant: off by one, adjacent integers count as room.
IsThereSpaceOffByOne(l, r) ==
  r = NULL \/ r - (IF l = NULL THEN 0 ELSE l) > 0

IsThereSpace(l, r) ==
  r = NULL \/ r - (IF l = NULL THEN 0 ELSE l) > 1

\* Faulty variant: the center's game id is taken for its row's key.
FindNeighborsGameKey(m) ==
  [ left   |-> IF m.beforeId \in Queued THEN entries[m.beforeId].order ELSE NULL,
    center |-> IF m.gameId \in Queued \ {m.beforeId} THEN m.gameId ELSE NULL,
    right  |-> IF m.afterId \in Queued \ {m.beforeId, m.gameId}
                 THEN entries[m.afterId].order ELSE NULL ]

\* Faulty variant: the game itself is not among the ids asked for.
FindNeighborsNoCenter(m) ==
  [ left   |-> IF m.beforeId \in Queued THEN entries[m.beforeId].order ELSE NULL,
    center |-> NULL,
    right  |-> IF m.afterId \in Queued \ {m.beforeId, m.gameId}
                 THEN entries[m.afterId].order ELSE NULL ]

(***************************************************************************)
(* findNeighbors: the rows of the three ids.  An id given twice counts     *)
(* for the first of left, center, right it matches.                        *)
(***************************************************************************)
FindNeighbors(m) ==
  [ left   |-> IF m.beforeId \in Queued THEN entries[m.beforeId].order ELSE NULL,
    center |-> IF m.gameId \in Queued \ {m.beforeId}
                 THEN entries[m.gameId].id ELSE NULL,
    right  |-> IF m.afterId \in Queued \ {m.beforeId, m.gameId}
                 THEN entries[m.afterId].order ELSE NULL ]

\* Ids a row or a handler still refers to; a new uuid is none of them.
LiveIds ==
  {entries[g].id : g \in Queued}
    \union {found[r].center : r \in Requests}
    \union UNION {{plan[r][g].id : g \in DOMAIN plan[r]} : r \in Requests}

FreeVersions(g) == {v \in Versions : <<g, v>> \notin LiveIds}
FreshId(g) == <<g, CHOOSE v \in Versions : v \in FreeVersions(g)>>

-----------------------------------------------------------------------------
(* moveGameInQueue. *)

Goto(r, step) == pc' = [pc EXCEPT ![r] = step]

\* The handler returns or throws: its locals are gone.
Finish(r) ==
  /\ Goto(r, "idle")
  /\ dto'   = [dto EXCEPT ![r] = NoDto]
  /\ found' = [found EXCEPT ![r] = NoFound]
  /\ plan'  = [plan EXCEPT ![r] = NoPlan]

(***************************************************************************)
(* The request arrives and looks its neighbours up; with room between them *)
(* it goes on to place the game, without it to rebalance the queue.        *)
(***************************************************************************)
MoveGameInQueue(r, m) ==
  LET f == FindNeighbors(m) IN
  /\ pc[r] = "idle"
  /\ dto'   = [dto EXCEPT ![r] = m]
  /\ found' = [found EXCEPT ![r] = f]
  /\ Goto(r, IF IsThereSpace(f.left, f.right) THEN "place" ELSE "balance")
  /\ UNCHANGED <<library, entries, plan>>

\* Faulty variant: the rebalance reads the queue backwards.
RebalanceReadReversed(r) ==
  /\ pc[r] = "balance"
  /\ \E pos \in GamesInQueue :
       plan' = [plan EXCEPT ![r] =
         [g \in Queued |->
            [id |-> entries[g].id,
             order |-> (Cardinality(Queued) + 1 - pos[g]) * ORDER_GAP]]]
  /\ Goto(r, "save")
  /\ UNCHANGED <<library, entries, dto, found>>

\* rebalanceQueue, first call: read all rows and number them ORDER_GAP apart.
RebalanceRead(r) ==
  /\ pc[r] = "balance"
  /\ \E pos \in GamesInQueue :
       plan' = [plan EXCEPT ![r] =
         [g \in Queued |-> [id |-> entries[g].id, order |-> pos[g] * ORDER_GAP]]]
  /\ Goto(r, "save")
  /\ UNCHANGED <<library, entries, dto, found>>

(***************************************************************************)
(* The rows of a plan carry only id and order.  save() updates the rows    *)
(* that still exist; for one that does not it would have to insert a row   *)
(* without userId and gameId, which the NOT NULL columns refuse, and the   *)
(* transaction of the whole save rolls back.                               *)
(***************************************************************************)
PlanApplies(r) ==
  \A g \in DOMAIN plan[r] :
    /\ g \in Queued /\ entries[g].id = plan[r][g].id
    /\ plan[r][g].order <= MAX_ORDER

\* Faulty variant: the plan replaces the table, rows added meanwhile are lost.
SavePlanReplaces(r) ==
  /\ pc[r] = "save" /\ PlanApplies(r)
  /\ entries' = plan[r]
  /\ plan' = [plan EXCEPT ![r] = NoPlan]
  /\ Goto(r, "refind")
  /\ UNCHANGED <<library, dto, found>>

\* rebalanceQueue, second call: save the plan over whatever the rows hold now.
\* (TypeORM selects the rows by their ids first and updates them afterwards; here
\* that is one step, so that nothing comes between the two.)
SavePlan(r) ==
  /\ pc[r] = "save" /\ PlanApplies(r)
  /\ entries' = [g \in Queued |-> IF g \in DOMAIN plan[r] THEN plan[r][g]
                                                          ELSE entries[g]]
  /\ plan' = [plan EXCEPT ![r] = NoPlan]
  /\ Goto(r, "refind")
  /\ UNCHANGED <<library, dto, found>>

SavePlanRefused(r) ==
  /\ pc[r] = "save" /\ ~PlanApplies(r)
  /\ Finish(r)
  /\ UNCHANGED <<library, entries>>

\* Faulty variant: rebalance again until there is room.
RefindNeighborsLoop(r) ==
  LET f == FindNeighbors(dto[r]) IN
  /\ pc[r] = "refind"
  /\ found' = [found EXCEPT ![r] = f]
  /\ Goto(r, IF IsThereSpace(f.left, f.right) THEN "place" ELSE "balance")
  /\ UNCHANGED <<library, entries, dto, plan>>

\* The second findNeighbors.  Room is not checked again: there is one retry.
RefindNeighbors(r) ==
  /\ pc[r] = "refind"
  /\ found' = [found EXCEPT ![r] = FindNeighbors(dto[r])]
  /\ Goto(r, "place")
  /\ UNCHANGED <<library, entries, dto, plan>>

NewOrder(r) == CalculateOrder(found[r].left, found[r].right)

\* Faulty variant: nobody checks that the game still exists.
MayInsertNoForeignKey(g) == g \notin Queued

\* UNIQUE (userId, gameId) and the foreign key to the game.
MayInsert(g) == g \notin Queued /\ g \in library

(***************************************************************************)
(* The write of a game found queued: update by primary key, which matches  *)
(* no row when the game was dequeued since, and is then no error.          *)
(***************************************************************************)
PlaceQueued(r) ==
  /\ pc[r] = "place" /\ found[r].center # NULL
  /\ NewOrder(r) <= MAX_ORDER
  /\ entries' = [g \in Queued |->
       IF entries[g].id = found[r].center
         THEN [id |-> entries[g].id, order |-> NewOrder(r)] ELSE entries[g]]
  /\ Finish(r)
  /\ UNCHANGED library

(***************************************************************************)
(* The write of a game found not queued: insert a row with a new id.  The  *)
(* last guard bounds the model; 2 * |Requests| versions never run out.     *)
(***************************************************************************)
PlaceNew(r) ==
  /\ pc[r] = "place" /\ found[r].center = NULL
  /\ MayInsert(dto[r].gameId) /\ NewOrder(r) <= MAX_ORDER
  /\ FreeVersions(dto[r].gameId) # {}
  /\ entries' = [g \in Queued \union {dto[r].gameId} |->
       IF g \in Queued THEN entries[g]
                       ELSE [id |-> FreshId(g), order |-> NewOrder(r)]]
  /\ Finish(r)
  /\ UNCHANGED library

\* A constraint or the column's range refuses the write: the caller gets a 500.
PlaceRefused(r) ==
  /\ pc[r] = "place"
  /\ \/ NewOrder(r) > MAX_ORDER
     \/ found[r].center = NULL /\ ~MayInsert(dto[r].gameId)
  /\ Finish(r)
  /\ UNCHANGED <<library, entries>>

\* A database call rejects, or the process dies: the handler stops where it is.
Abort(r) ==
  /\ pc[r] # "idle"
  /\ Finish(r)
  /\ UNCHANGED <<library, entries>>

-----------------------------------------------------------------------------
(* The other writers of the table. *)

Without(table, g) == [h \in DOMAIN table \ {g} |-> table[h]]

RemoveFromQueue(g) ==
  /\ g \in Queued
  /\ entries' = Without(entries, g)
  /\ UNCHANGED <<library, pc, dto, found, plan>>

\* GamesService.deleteGame; ON DELETE CASCADE takes the queue row along.
DeleteGame(g) ==
  /\ g \in library
  /\ library' = library \ {g}
  /\ entries' = Without(entries, g)
  /\ UNCHANGED <<pc, dto, found, plan>>

-----------------------------------------------------------------------------

Init ==
  /\ library = Games
  /\ entries = NoPlan
  /\ pc    = [r \in Requests |-> "idle"]
  /\ dto   = [r \in Requests |-> NoDto]
  /\ found = [r \in Requests |-> NoFound]
  /\ plan  = [r \in Requests |-> NoPlan]

\* The rest of a handler that has started, when nothing goes wrong outside it.
Proceed(r) ==
  \/ RebalanceRead(r)
  \/ SavePlan(r)
  \/ SavePlanRefused(r)
  \/ RefindNeighbors(r)
  \/ PlaceQueued(r)
  \/ PlaceNew(r)
  \/ PlaceRefused(r)

Next ==
  \/ \E r \in Requests, m \in Dto : MoveGameInQueue(r, m)
  \/ \E r \in Requests : Proceed(r) \/ Abort(r)
  \/ \E g \in Games : RemoveFromQueue(g) \/ DeleteGame(g)

Spec == Init /\ [][Next]_vars

-----------------------------------------------------------------------------
(* Properties of every interleaving, whatever neighbours the callers name. *)

TypeOK ==
  /\ library \subseteq Games
  /\ IsTable(entries)
  /\ pc \in [Requests -> Steps]
  /\ dto \in [Requests -> Dto \union {NoDto}]
  /\ found \in [Requests -> Found]
  /\ plan = [r \in Requests |-> plan[r]]
  /\ \A r \in Requests : IsTable(plan[r])

(***************************************************************************)
(* Every order is at least 1.  isThereSpace takes 0 for the missing left   *)
(* neighbour (game-queue.service.ts:92), so a row at 0 or below would      *)
(* make "the start of the queue" a place behind it.  No chain of halvings, *)
(* stale neighbours or second looks without room produces one.             *)
(***************************************************************************)
OrdersPositive == \A g \in Queued : entries[g].order >= 1

(***************************************************************************)
(* A queued game exists: no move that was already running when its game    *)
(* was deleted leaves a row behind (GameQueueEntry.entity.ts:24-26).       *)
(***************************************************************************)
QueueWithinLibrary == Queued \subseteq library

(***************************************************************************)
(* Moves and rebalances lose nothing: a row goes away only by itself, with *)
(* every other row left as it is, and a row that stays keeps its key.  A   *)
(* rebalance that read the table before another request inserted a row     *)
(* must not drop that row when it saves (game-queue.service.ts:95-106).    *)
(***************************************************************************)
RowsSurviveMoves ==
  [][ /\ \A g \in Queued \ Queued' : \A h \in Queued \ {g} :
           h \in Queued' /\ entries'[h] = entries[h]
      /\ \A g \in Queued \cap Queued' : entries'[g].id = entries[g].id ]_vars

\* The database calls a handler has still ahead of it, at most.
CallsLeft == [idle |-> 0, place |-> 1, refind |-> 2, save |-> 3, balance |-> 4]

(***************************************************************************)
(* A move rebalances once and retries once (game-queue.service.ts:42-46):  *)
(* a handler never comes back to a call it has made, also when the         *)
(* neighbours it was given are the wrong way round or the same, so that no *)
(* rebalance ever makes room between them, and whoever moves them again    *)
(* between its calls.  It makes five calls at most.                        *)
(***************************************************************************)
RetriesOnce ==
  [][ \A r \in Requests : pc[r] # "idle" /\ pc'[r] # pc[r] =>
        CallsLeft[pc'[r]] < CallsLeft[pc[r]] ]_vars
=============================================================================
