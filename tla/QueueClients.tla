---------------------------- MODULE QueueClients ----------------------------
(***************************************************************************)
(* GameQueue driven by clients that name the neighbours they see.  A move  *)
(* is up to date when, at the moment the server reads the queue for it,    *)
(* its neighbours follow each other in the queue (the dragged game left    *)
(* out) with null at the ends: what QueueMovementDto asks for.             *)
(*                                                                         *)
(* DisjointSpec: up-to-date moves that may overlap, but no one drags a     *)
(*               game that a move in flight drags or names as a neighbour, *)
(*               and the other way round.                                  *)
(* SerialSpec:   up-to-date moves, one request at a time; it implements    *)
(*               the abstract QueueOrder.                                  *)
(***************************************************************************)
EXTENDS GameQueue

Order(g) == entries[g].order

UpToDate(m) ==
  LET rest == Queued \ {m.gameId} IN
  /\ m.beforeId \in rest \union {NULL}
  /\ m.afterId \in rest \union {NULL}
  /\ m.beforeId # NULL /\ m.afterId # NULL => Order(m.beforeId) < Order(m.afterId)
  /\ \A h \in rest :
       \/ m.beforeId # NULL /\ Order(h) <= Order(m.beforeId)
       \/ m.afterId # NULL /\ Order(h) >= Order(m.afterId)

Quiet == \A r \in Requests : pc[r] = "idle"

FreshMove(r) == \E m \in Dto : UpToDate(m) /\ MoveGameInQueue(r, m)

Named(m) == {m.beforeId, m.gameId, m.afterId} \ {NULL}

DisjointMove(r) ==
  \E m \in Dto :
    /\ UpToDate(m)
    /\ \A q \in Requests : pc[q] # "idle" =>
         m.gameId \notin Named(dto[q]) /\ dto[q].gameId \notin Named(m)
    /\ MoveGameInQueue(r, m)

DisjointNext ==
  \/ \E r \in Requests : DisjointMove(r) \/ Proceed(r) \/ Abort(r)
  \/ \E g \in Games : RemoveFromQueue(g) \/ DeleteGame(g)

DisjointSpec == Init /\ [][DisjointNext]_vars

SerialNext ==
  \/ \E r \in Requests : (Quiet /\ FreshMove(r)) \/ Proceed(r) \/ Abort(r)
  \/ Quiet /\ \E g \in Games : RemoveFromQueue(g) \/ DeleteGame(g)

SerialSpec == Init /\ [][SerialNext]_vars

-----------------------------------------------------------------------------
(* Properties. *)

\* The line of games a table of rows stands for.
Before == {p \in Queued \X Queued : Order(p[1]) < Order(p[2])}

Abstract == INSTANCE QueueOrder WITH queued <- Queued, before <- Before

(***************************************************************************)
(* One request at a time from an up-to-date client: midpoints, the end's   *)
(* gap, the rounding and the rebalance together do to the line exactly     *)
(* what was asked, whatever a handler that fails half-way leaves behind    *)
(* (game-queue.service.ts:32-59).                                          *)
(***************************************************************************)
ImplementsQueueOrder == Abstract!Spec

(***************************************************************************)
(* getGamesInQueue has one possible answer: no two rows share an order     *)
(* (game-queue.service.ts:17-30, "the queued game ids, in queue order").   *)
(***************************************************************************)
OneListing == Cardinality(GamesInQueue) = 1

(***************************************************************************)
(* A serial move is refused only because its game is gone, or because it   *)
(* appends and the last order has climbed to the column's limit: never by  *)
(* the unique constraint, never between two rows, and never by the         *)
(* rebalance itself (game-queue.service.ts:88-93 sees room at the end      *)
(* always, so no append ever rebalances).                                  *)
(***************************************************************************)
RefusedOnlyAtTheLimit ==
  [][ \A r \in Requests :
        /\ PlaceRefused(r) =>
             \/ dto[r].gameId \notin library
             \/ dto[r].afterId = NULL /\ NewOrder(r) > MAX_ORDER
        /\ SavePlanRefused(r) =>
             Cardinality(Queued) * ORDER_GAP > MAX_ORDER ]_vars

(***************************************************************************)
(* A move that is answered with success has put its game between the       *)
(* neighbours it named, as far as they are still queued                    *)
(* (game-queue.service.ts:33, "places a game in a user's queue between two *)
(* neighbors").  Even where nobody else moves the three games, a rebalance *)
(* for another move renumbers the neighbours between this one's read and   *)
(* its write, and the game lands beside the place it was dropped at.       *)
(***************************************************************************)
LandsBetween ==
  [][ \A r \in Requests :
        LET m == dto[r] IN
        (PlaceQueued(r) \/ PlaceNew(r)) /\ m.gameId \in Queued' =>
          /\ m.beforeId \in Queued' =>
               entries'[m.beforeId].order < entries'[m.gameId].order
          /\ m.afterId \in Queued' =>
               entries'[m.gameId].order < entries'[m.afterId].order ]_vars
=============================================================================
