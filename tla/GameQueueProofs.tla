-------------------------- MODULE GameQueueProofs --------------------------
(***************************************************************************)
(* Theorems about GameQueue: its invariants and RowsSurviveMoves, for any  *)
(* finite library, any number of overlapping moves, any gap of at least 2  *)
(* and any column width; and about QueueClients: with one up-to-date       *)
(* request at a time there is one listing, a move is refused only at the   *)
(* limit, and the rows implement QueueOrder; overlapping moves of          *)
(* different games land where they were dropped but for a rebalance.       *)
(***************************************************************************)
EXTENDS QueueClients, FiniteSetTheorems, TLAPS

-----------------------------------------------------------------------------
(* The functions that compute orders. *)

\* An order read from a row, or nothing.
Orders == Nat \union {NULL}

\* calculateOrder of natural orders is a natural order.
LEMMA CalculateOrderType ==
  ASSUME NEW l \in Orders, NEW r \in Orders
  PROVE  CalculateOrder(l, r) \in Nat
  BY GapAssumption DEF Orders, CalculateOrder, RoundHalf

\* calculateOrder keeps clear of zero: it rounds a half up.
LEMMA CalculateOrderPositive ==
  ASSUME NEW l \in Orders, NEW r \in Orders,
         l # NULL => l >= 1, r # NULL => r >= 1
  PROVE  CalculateOrder(l, r) >= 1
  BY GapAssumption DEF Orders, CalculateOrder, RoundHalf

\* The numbers a rebalance gives out are positive.
LEMMA PositionOrders ==
  ASSUME IsTable(entries), NEW pos \in GamesInQueue, NEW g \in Queued
  PROVE  pos[g] * ORDER_GAP \in Nat /\ pos[g] * ORDER_GAP >= 1
<1>1. IsFiniteSet(Queued)
  BY FiniteAssumption, FS_Subset DEF IsTable, Queued
<1>2. Cardinality(Queued) \in Nat
  BY <1>1, FS_CardinalityType
<1>3. pos[g] \in 1 .. Cardinality(Queued)
  BY DEF GamesInQueue, SortedPositions, Queued
<1>4. pos[g] \in Nat /\ pos[g] >= 1
  BY <1>2, <1>3
<1> QED
  BY <1>4, GapAssumption

\* findNeighbors returns what its type says.
LEMMA FindNeighborsType ==
  ASSUME IsTable(entries), NEW m
  PROVE  FindNeighbors(m) \in Found
  BY DEF IsTable, FindNeighbors, Found, Queued, Row

\* An inserted row has a key.
LEMMA FreshIdType ==
  ASSUME NEW g \in Games, FreeVersions(g) # {}
  PROVE  FreshId(g) \in RowIds
  BY DEF FreshId, FreeVersions, RowIds

-----------------------------------------------------------------------------
(* Types. *)

\* The handlers' locals return to their initial values together.
LEMMA FinishType ==
  ASSUME TypeOK, NEW r \in Requests, Finish(r)
  PROVE  /\ pc' \in [Requests -> Steps]
         /\ dto' \in [Requests -> Dto \union {NoDto}]
         /\ found' \in [Requests -> Found]
         /\ plan' = [q \in Requests |-> plan'[q]]
         /\ \A q \in Requests : IsTable(plan'[q])
<1>1. NoFound \in Found
  BY DEF NoFound, Found
<1>2. IsTable(NoPlan)
  BY DEF IsTable, NoPlan
<1>3. pc' \in [Requests -> Steps] /\ dto' \in [Requests -> Dto \union {NoDto}]
  BY DEF TypeOK, Finish, Goto, Steps
<1>4. found' \in [Requests -> Found]
  BY <1>1 DEF TypeOK, Finish
<1>5. plan' = [q \in Requests |-> IF q = r THEN NoPlan ELSE plan[q]]
  BY DEF TypeOK, Finish
<1>6. \A q \in Requests : IsTable(plan'[q])
  BY <1>2, <1>5 DEF TypeOK
<1> QED
  BY <1>3, <1>4, <1>5, <1>6

\* Removing a game leaves a table of rows.
LEMMA WithoutTable ==
  ASSUME NEW t, IsTable(t), NEW g
  PROVE  IsTable(Without(t, g))
  BY DEF IsTable, Without

\* Every step keeps the types.
LEMMA TypeStep ==
  ASSUME TypeOK, [Next]_vars
  PROVE  TypeOK'
<1> USE DEF IsTable, Queued
<1>1. ASSUME NEW r \in Requests, NEW m \in Dto, MoveGameInQueue(r, m)
      PROVE  TypeOK'
  <2>1. FindNeighbors(m) \in Found
    BY FindNeighborsType DEF TypeOK
  <2>2. found' \in [Requests -> Found]
    BY <1>1, <2>1 DEF MoveGameInQueue, TypeOK
  <2>3. pc' \in [Requests -> Steps]
    BY <1>1 DEF MoveGameInQueue, TypeOK, Goto, Steps
  <2>4. dto' \in [Requests -> Dto \union {NoDto}]
    BY <1>1 DEF MoveGameInQueue, TypeOK
  <2> QED
    BY <1>1, <2>2, <2>3, <2>4 DEF MoveGameInQueue, TypeOK
<1>2. ASSUME NEW r \in Requests, RebalanceRead(r)
      PROVE  TypeOK'
  <2>1. PICK pos \in GamesInQueue :
          plan' = [plan EXCEPT ![r] =
            [g \in Queued |-> [id |-> entries[g].id, order |-> pos[g] * ORDER_GAP]]]
    BY <1>2 DEF RebalanceRead
  <2> DEFINE p == [g \in Queued |->
                     [id |-> entries[g].id, order |-> pos[g] * ORDER_GAP]]
  <2>2. \A g \in Queued : pos[g] * ORDER_GAP \in Nat
    BY PositionOrders DEF TypeOK
  <2>3. \A g \in Queued : [id |-> entries[g].id, order |-> pos[g] * ORDER_GAP] \in Row
    BY <2>2 DEF TypeOK, Row
  <2>4. IsTable(p)
    BY <2>3 DEF TypeOK
  <2>5. plan' = [q \in Requests |-> IF q = r THEN p ELSE plan[q]]
    BY <2>1 DEF TypeOK
  <2>6. \A q \in Requests : IsTable(plan'[q])
    BY <2>4, <2>5 DEF TypeOK
  <2>7. pc' \in [Requests -> Steps]
    BY <1>2 DEF RebalanceRead, Goto, TypeOK, Steps
  <2> QED
    BY <1>2, <2>5, <2>6, <2>7 DEF RebalanceRead, TypeOK
<1>3. ASSUME NEW r \in Requests, SavePlan(r)
      PROVE  TypeOK'
  <2>1. IsTable(entries')
    BY <1>3 DEF SavePlan, TypeOK
  <2>2. IsTable(NoPlan)
    BY DEF NoPlan
  <2>3. plan' = [q \in Requests |-> IF q = r THEN NoPlan ELSE plan[q]]
    BY <1>3 DEF SavePlan, TypeOK
  <2>4. \A q \in Requests : IsTable(plan'[q])
    BY <2>2, <2>3 DEF TypeOK
  <2>5. pc' \in [Requests -> Steps]
    BY <1>3 DEF SavePlan, Goto, TypeOK, Steps
  <2> QED
    BY <1>3, <2>1, <2>3, <2>4, <2>5 DEF SavePlan, TypeOK
<1>4. ASSUME NEW r \in Requests, RefindNeighbors(r)
      PROVE  TypeOK'
  <2>1. FindNeighbors(dto[r]) \in Found
    BY FindNeighborsType DEF TypeOK
  <2>2. found' \in [Requests -> Found]
    BY <1>4, <2>1 DEF RefindNeighbors, TypeOK
  <2>3. pc' \in [Requests -> Steps]
    BY <1>4 DEF RefindNeighbors, TypeOK, Goto, Steps
  <2> QED
    BY <1>4, <2>2, <2>3 DEF RefindNeighbors, TypeOK
<1>5. \A r \in Requests : NewOrder(r) \in Nat
  BY CalculateOrderType DEF TypeOK, Found, Orders, NewOrder
<1>6. ASSUME NEW r \in Requests, PlaceQueued(r)
      PROVE  TypeOK'
  <2>1. \A g \in Queued :
          [id |-> entries[g].id, order |-> NewOrder(r)] \in Row
    BY <1>5 DEF TypeOK, Row
  <2>2. IsTable(entries')
    BY <1>6, <2>1 DEF PlaceQueued, TypeOK
  <2>3. library' = library /\ Finish(r)
    BY <1>6 DEF PlaceQueued
  <2> QED
    BY <2>2, <2>3, FinishType DEF TypeOK
<1>7. ASSUME NEW r \in Requests, PlaceNew(r)
      PROVE  TypeOK'
  <2> DEFINE h == dto[r].gameId
  <2>1. h \in Games
    BY <1>7 DEF PlaceNew, MayInsert, TypeOK
  <2>2. FreshId(h) \in RowIds
    BY <1>7, <2>1, FreshIdType DEF PlaceNew
  <2>3. [id |-> FreshId(h), order |-> NewOrder(r)] \in Row
    BY <1>5, <2>2 DEF Row
  <2>4. entries' = [g \in Queued \union {h} |->
          IF g \in Queued THEN entries[g]
                          ELSE [id |-> FreshId(g), order |-> NewOrder(r)]]
    BY <1>7 DEF PlaceNew
  <2>5. IsTable(entries')
    BY <2>1, <2>3, <2>4 DEF TypeOK
  <2>6. library' = library /\ Finish(r)
    BY <1>7 DEF PlaceNew
  <2> QED
    BY <2>5, <2>6, FinishType DEF TypeOK
<1>8. ASSUME NEW r \in Requests, UNCHANGED <<library, entries>>, Finish(r)
      PROVE  TypeOK'
  BY <1>8, FinishType DEF TypeOK
<1>9. ASSUME NEW g \in Games, RemoveFromQueue(g) \/ DeleteGame(g)
      PROVE  TypeOK'
  <2>1. IsTable(entries')
    BY <1>9, WithoutTable DEF RemoveFromQueue, DeleteGame, TypeOK
  <2> QED
    BY <1>9, <2>1 DEF RemoveFromQueue, DeleteGame, TypeOK
<1>10. CASE UNCHANGED vars
  BY <1>10 DEF vars, TypeOK
<1> QED
  BY <1>1, <1>2, <1>3, <1>4, <1>6, <1>7, <1>8, <1>9, <1>10
     DEF Next, Proceed, SavePlanRefused, PlaceRefused, Abort

\* Types hold initially.
LEMMA TypeInit ==
  ASSUME Init
  PROVE  TypeOK
  BY DEF Init, TypeOK, IsTable, Steps, NoPlan, NoFound, Found

(***************************************************************************)
(* TypeOK is an invariant: in particular every row keeps a natural order   *)
(* and a key, whichever moves overlap.                                     *)
(***************************************************************************)
THEOREM TypeCorrect == Spec => []TypeOK
  BY TypeInit, TypeStep, PTL DEF Spec

-----------------------------------------------------------------------------
(* Orders stay positive: not inductive alone, because a move carries the   *)
(* orders it read, and a rebalance the orders it computed, past other      *)
(* steps.                                                                  *)

PositiveFound == \A r \in Requests :
  /\ found[r].left # NULL => found[r].left >= 1
  /\ found[r].right # NULL => found[r].right >= 1

PositivePlans == \A r \in Requests : \A g \in DOMAIN plan[r] : plan[r][g].order >= 1

PositiveInv == OrdersPositive /\ PositiveFound /\ PositivePlans

\* A handler that ends leaves nothing behind that could be zero.
LEMMA FinishPositive ==
  ASSUME TypeOK, PositiveInv, NEW r \in Requests, Finish(r)
  PROVE  PositiveFound' /\ PositivePlans'
<1>1. found' = [q \in Requests |-> IF q = r THEN NoFound ELSE found[q]]
  BY DEF Finish, TypeOK
<1>2. plan' = [q \in Requests |-> IF q = r THEN NoPlan ELSE plan[q]]
  BY DEF Finish, TypeOK
<1>3. PositiveFound'
  BY <1>1 DEF PositiveInv, PositiveFound, NoFound
<1>4. PositivePlans'
  BY <1>2 DEF PositiveInv, PositivePlans, NoPlan
<1> QED
  BY <1>3, <1>4

\* findNeighbors hands out only orders that rows have.
LEMMA FindNeighborsPositive ==
  ASSUME OrdersPositive, NEW m
  PROVE  LET f == FindNeighbors(m) IN
           /\ f.left # NULL => f.left >= 1
           /\ f.right # NULL => f.right >= 1
  BY DEF OrdersPositive, FindNeighbors, Queued

\* Every step keeps orders positive.
LEMMA PositiveStep ==
  ASSUME TypeOK, PositiveInv, [Next]_vars
  PROVE  PositiveInv'
<1>1. ASSUME NEW r \in Requests, NEW m \in Dto, MoveGameInQueue(r, m)
      PROVE  PositiveInv'
  <2>1. found' = [q \in Requests |-> IF q = r THEN FindNeighbors(m) ELSE found[q]]
    BY <1>1 DEF MoveGameInQueue, TypeOK
  <2>2. PositiveFound'
    BY <2>1, FindNeighborsPositive DEF PositiveInv, PositiveFound
  <2> QED
    BY <1>1, <2>2 DEF MoveGameInQueue, PositiveInv, OrdersPositive, PositivePlans, Queued
<1>2. ASSUME NEW r \in Requests, RebalanceRead(r)
      PROVE  PositiveInv'
  <2>1. PICK pos \in GamesInQueue :
          plan' = [plan EXCEPT ![r] =
            [g \in Queued |-> [id |-> entries[g].id, order |-> pos[g] * ORDER_GAP]]]
    BY <1>2 DEF RebalanceRead
  <2> DEFINE p == [g \in Queued |->
                     [id |-> entries[g].id, order |-> pos[g] * ORDER_GAP]]
  <2>2. \A g \in DOMAIN p : p[g].order >= 1
    BY PositionOrders DEF TypeOK
  <2>3. plan' = [q \in Requests |-> IF q = r THEN p ELSE plan[q]]
    BY <2>1 DEF TypeOK
  <2>4. PositivePlans'
    BY <2>2, <2>3 DEF PositiveInv, PositivePlans
  <2> QED
    BY <1>2, <2>4 DEF RebalanceRead, PositiveInv, OrdersPositive, PositiveFound, Queued
<1>3. ASSUME NEW r \in Requests, SavePlan(r)
      PROVE  PositiveInv'
  <2>1. OrdersPositive'
    BY <1>3 DEF SavePlan, PositiveInv, OrdersPositive, PositivePlans, Queued
  <2>2. plan' = [q \in Requests |-> IF q = r THEN NoPlan ELSE plan[q]]
    BY <1>3 DEF SavePlan, TypeOK
  <2>3. PositivePlans'
    BY <2>2 DEF PositiveInv, PositivePlans, NoPlan
  <2> QED
    BY <1>3, <2>1, <2>3 DEF SavePlan, PositiveInv, PositiveFound
<1>4. ASSUME NEW r \in Requests, RefindNeighbors(r)
      PROVE  PositiveInv'
  <2>1. found' = [q \in Requests |-> IF q = r THEN FindNeighbors(dto[r]) ELSE found[q]]
    BY <1>4 DEF RefindNeighbors, TypeOK
  <2>2. PositiveFound'
    BY <2>1, FindNeighborsPositive DEF PositiveInv, PositiveFound
  <2> QED
    BY <1>4, <2>2 DEF RefindNeighbors, PositiveInv, OrdersPositive, PositivePlans, Queued
<1>5. \A r \in Requests : NewOrder(r) >= 1
  BY CalculateOrderPositive
     DEF TypeOK, Found, Orders, NewOrder, PositiveInv, PositiveFound
<1>6. ASSUME NEW r \in Requests, PlaceQueued(r)
      PROVE  PositiveInv'
  <2>1. OrdersPositive'
    BY <1>5, <1>6 DEF PlaceQueued, PositiveInv, OrdersPositive, Queued
  <2> QED
    BY <1>6, <2>1, FinishPositive DEF PlaceQueued, PositiveInv
<1>7. ASSUME NEW r \in Requests, PlaceNew(r)
      PROVE  PositiveInv'
  <2>1. OrdersPositive'
    BY <1>5, <1>7 DEF PlaceNew, PositiveInv, OrdersPositive, Queued
  <2> QED
    BY <1>7, <2>1, FinishPositive DEF PlaceNew, PositiveInv
<1>8. ASSUME NEW r \in Requests, UNCHANGED <<library, entries>>, Finish(r)
      PROVE  PositiveInv'
  BY <1>8, FinishPositive DEF PositiveInv, OrdersPositive, Queued
<1>9. ASSUME NEW g \in Games, RemoveFromQueue(g) \/ DeleteGame(g)
      PROVE  PositiveInv'
  BY <1>9 DEF RemoveFromQueue, DeleteGame, Without, Queued,
              PositiveInv, OrdersPositive, PositiveFound, PositivePlans
<1>10. CASE UNCHANGED vars
  BY <1>10 DEF vars, Queued, PositiveInv, OrdersPositive, PositiveFound, PositivePlans
<1> QED
  BY <1>1, <1>2, <1>3, <1>4, <1>6, <1>7, <1>8, <1>9, <1>10
     DEF Next, Proceed, SavePlanRefused, PlaceRefused, Abort

(***************************************************************************)
(* Whatever moves, halvings, stale neighbours and rebalances overlap, no   *)
(* row ever gets order 0, the value that stands for the start.             *)
(***************************************************************************)
THEOREM PositiveCorrect == Spec => []OrdersPositive
<1>1. Init => PositiveInv
  BY DEF Init, PositiveInv, OrdersPositive, PositiveFound, PositivePlans,
         Queued, NoPlan, NoFound
<1>2. TypeOK /\ PositiveInv /\ [Next]_vars => PositiveInv'
  BY PositiveStep
<1>3. PositiveInv => OrdersPositive
  BY DEF PositiveInv
<1> QED
  BY <1>1, <1>2, <1>3, TypeCorrect, PTL DEF Spec

-----------------------------------------------------------------------------
(* Rows and games. *)

(***************************************************************************)
(* The foreign key and its cascade keep every queued game in the library.  *)
(***************************************************************************)
THEOREM LibraryCorrect == Spec => []QueueWithinLibrary
<1> USE DEF QueueWithinLibrary, Queued
<1>1. Init => QueueWithinLibrary
  BY DEF Init, NoPlan
<1>2. ASSUME QueueWithinLibrary, NEW r \in Requests, SavePlan(r)
      PROVE  QueueWithinLibrary'
  BY <1>2 DEF SavePlan
<1>3. ASSUME QueueWithinLibrary, NEW r \in Requests, PlaceQueued(r) \/ PlaceNew(r)
      PROVE  QueueWithinLibrary'
  BY <1>3 DEF PlaceQueued, PlaceNew, MayInsert
<1>4. ASSUME QueueWithinLibrary, NEW g \in Games, RemoveFromQueue(g) \/ DeleteGame(g)
      PROVE  QueueWithinLibrary'
  BY <1>4 DEF RemoveFromQueue, DeleteGame, Without
<1>5. ASSUME QueueWithinLibrary, UNCHANGED <<library, entries>>
      PROVE  QueueWithinLibrary'
  BY <1>5
<1>6. QueueWithinLibrary /\ [Next]_vars => QueueWithinLibrary'
  BY <1>2, <1>3, <1>4, <1>5
     DEF Next, vars, Proceed, MoveGameInQueue, RebalanceRead, SavePlanRefused,
         RefindNeighbors, PlaceRefused, Abort
<1> QED
  BY <1>1, <1>6, PTL DEF Spec

(***************************************************************************)
(* No move or rebalance drops a row, gives it another key or touches the   *)
(* others when one goes.                                                   *)
(***************************************************************************)
THEOREM RowsSurvive == Spec => RowsSurviveMoves
<1> DEFINE A == /\ \A g \in Queued \ Queued' : \A h \in Queued \ {g} :
                     h \in Queued' /\ entries'[h] = entries[h]
                /\ \A g \in Queued \cap Queued' : entries'[g].id = entries[g].id
<1>1. ASSUME NEW r \in Requests, SavePlan(r)
      PROVE  A
  BY <1>1 DEF SavePlan, PlanApplies, Queued
<1>2. ASSUME NEW r \in Requests, PlaceQueued(r) \/ PlaceNew(r)
      PROVE  A
  BY <1>2 DEF PlaceQueued, PlaceNew, Queued
<1>3. ASSUME NEW g \in Games, RemoveFromQueue(g) \/ DeleteGame(g)
      PROVE  A
  BY <1>3 DEF RemoveFromQueue, DeleteGame, Without, Queued
<1>4. ASSUME UNCHANGED entries
      PROVE  A
  BY <1>4 DEF Queued
<1>5. [Next]_vars => A \/ UNCHANGED vars
  BY <1>1, <1>2, <1>3, <1>4
     DEF Next, vars, Proceed, MoveGameInQueue, RebalanceRead, SavePlanRefused,
         RefindNeighbors, PlaceRefused, Abort
<1> QED
  BY <1>5, PTL DEF Spec, RowsSurviveMoves

(***************************************************************************)
(* For any number of moves in flight, each rebalances and retries at most  *)
(* once.                                                                   *)
(***************************************************************************)
THEOREM RetriesOnceCorrect == Spec => RetriesOnce
<1> DEFINE A == \A r \in Requests : pc[r] # "idle" /\ pc'[r] # pc[r] =>
                  CallsLeft[pc'[r]] < CallsLeft[pc[r]]
<1>1. ASSUME TypeOK, NEW q \in Requests, NEW to \in Steps, Goto(q, to),
             pc[q] = "idle" \/ CallsLeft[to] < CallsLeft[pc[q]]
      PROVE  A
  BY <1>1 DEF Goto, TypeOK
<1>2. ASSUME TypeOK, NEW q \in Requests, Finish(q), pc[q] # "idle"
      PROVE  A
  <2>1. CallsLeft["idle"] < CallsLeft[pc[q]] /\ "idle" \in Steps
    BY <1>2 DEF TypeOK, Steps, CallsLeft
  <2> QED
    BY <1>1, <1>2, <2>1 DEF Finish
<1>3. ASSUME TypeOK, NEW q \in Requests, Proceed(q)
      PROVE  A
  <2>1. CASE RebalanceRead(q)
    BY <1>1, <1>3, <2>1 DEF RebalanceRead, CallsLeft, Steps
  <2>2. CASE SavePlan(q)
    BY <1>1, <1>3, <2>2 DEF SavePlan, CallsLeft, Steps
  <2>3. CASE RefindNeighbors(q)
    BY <1>1, <1>3, <2>3 DEF RefindNeighbors, CallsLeft, Steps
  <2>4. CASE SavePlanRefused(q) \/ PlaceQueued(q) \/ PlaceNew(q) \/ PlaceRefused(q)
    BY <1>2, <1>3, <2>4 DEF SavePlanRefused, PlaceQueued, PlaceNew, PlaceRefused
  <2> QED
    BY <1>3, <2>1, <2>2, <2>3, <2>4 DEF Proceed
<1>4. ASSUME TypeOK, NEW q \in Requests, NEW m \in Dto, MoveGameInQueue(q, m)
      PROVE  A
  BY <1>1, <1>4 DEF MoveGameInQueue, Steps
<1>5. ASSUME UNCHANGED pc
      PROVE  A
  BY <1>5
<1>6. TypeOK /\ [Next]_vars => A \/ UNCHANGED vars
  BY <1>2, <1>3, <1>4, <1>5 DEF Next, Abort, RemoveFromQueue, DeleteGame, vars
<1> QED
  BY <1>6, TypeCorrect, PTL DEF Spec, RetriesOnce

-----------------------------------------------------------------------------
(* One request at a time.  The inductive invariant of SerialSpec.          *)

Alone == \A r, q \in Requests : pc[r] # "idle" /\ pc[q] # "idle" => r = q

Distinct == \A g, h \in Queued : Order(g) = Order(h) => g = h

\* A row's key is its game's own.
OwnKeys == \A g \in Queued : entries[g].id[1] = g

Fit == \A g \in Queued : 1 <= Order(g) /\ Order(g) <= MAX_ORDER

\* What a rebalance leaves: room everywhere, also at the start.
Roomy ==
  \A g \in Queued :
    /\ Order(g) >= 2
    /\ \A h \in Queued : Order(g) < Order(h) => Order(g) + 2 <= Order(h)

\* The numbered rows, for a position of each.
Numbered(pos) == [g \in Queued |-> [id |-> entries[g].id, order |-> pos[g] * ORDER_GAP]]

\* A request is still up to date, and so is what it has read and computed.
UnderWay(r) ==
  /\ pc[r] # "idle" => dto[r] \in Dto /\ UpToDate(dto[r])
  /\ pc[r] = "save" => \E pos \in GamesInQueue : plan[r] = Numbered(pos)
  /\ pc[r] = "refind" => Roomy
  /\ pc[r] = "place" =>
       /\ found[r] = FindNeighbors(dto[r])
       /\ IsThereSpace(found[r].left, found[r].right)

SerialInv == TypeOK /\ Alone /\ Distinct /\ OwnKeys /\ Fit /\ \A r \in Requests : UnderWay(r)

-----------------------------------------------------------------------------
(* Operators. *)

\* With room between them a midpoint is between its neighbours.
LEMMA Midpoint ==
  ASSUME NEW l \in Orders, NEW r \in Orders,
         l # NULL => l >= 1, r # NULL => r >= 1, IsThereSpace(l, r)
  PROVE  /\ CalculateOrder(l, r) \in Nat /\ CalculateOrder(l, r) >= 1
         /\ l # NULL => l < CalculateOrder(l, r)
         /\ r # NULL => CalculateOrder(l, r) < r
BY GapAssumption, NullAssumption DEF Orders, CalculateOrder, RoundHalf, IsThereSpace

\* Positions apart are orders a gap apart.
LEMMA GapApart ==
  ASSUME NEW i \in Nat, NEW j \in Nat, i < j
  PROVE  i * ORDER_GAP + 2 <= j * ORDER_GAP
<1>1. PICK d \in Nat : j = i + 1 + d
  <2>1. j - i - 1 \in Nat /\ j = i + 1 + (j - i - 1)
    OBVIOUS
  <2> QED
    BY <2>1
<1>2. ORDER_GAP \in Nat /\ ORDER_GAP >= 2
  BY GapAssumption
<1>3. j * ORDER_GAP = i * ORDER_GAP + ORDER_GAP + d * ORDER_GAP
  BY <1>1, <1>2
<1>4. i * ORDER_GAP \in Nat /\ d * ORDER_GAP \in Nat
  BY <1>1, <1>2
<1> QED
  BY <1>2, <1>3, <1>4

\* Rows are typed.
LEMMA RowTyped ==
  ASSUME TypeOK, NEW g \in Queued
  PROVE  /\ g \in Games /\ g # NULL /\ entries[g] \in Row
         /\ entries[g].id \in RowIds /\ entries[g].id # NULL
         /\ Order(g) \in Nat /\ Order(g) # NULL
BY NullAssumption DEF TypeOK, IsTable, Queued, Order, Row, RowIds

\* What an up-to-date move is told of its neighbours.
LEMMA UpToDateFinds ==
  ASSUME TypeOK, NEW m \in Dto, UpToDate(m)
  PROVE  LET f == FindNeighbors(m) IN
         /\ f.left = IF m.beforeId = NULL THEN NULL ELSE Order(m.beforeId)
         /\ f.right = IF m.afterId = NULL THEN NULL ELSE Order(m.afterId)
         /\ f.center = IF m.gameId \in Queued THEN entries[m.gameId].id ELSE NULL
         /\ m.beforeId # NULL => m.beforeId \in Queued /\ m.beforeId # m.gameId
         /\ m.afterId # NULL => m.afterId \in Queued /\ m.afterId # m.gameId
<1>1. NULL \notin Queued
  BY RowTyped
<1>2. m.beforeId # NULL => m.beforeId \in Queued /\ m.beforeId # m.gameId
  BY DEF UpToDate
<1>3. m.afterId # NULL => m.afterId \in Queued /\ m.afterId # m.gameId
  BY DEF UpToDate
<1>4. m.beforeId # NULL /\ m.afterId # NULL => m.beforeId # m.afterId
  <2> SUFFICES ASSUME m.beforeId # NULL, m.afterId = m.beforeId PROVE FALSE
    OBVIOUS
  <2>1. Order(m.beforeId) \in Nat /\ Order(m.beforeId) < Order(m.beforeId)
    BY <1>2, RowTyped DEF UpToDate
  <2> QED
    BY <2>1
<1> QED
  BY <1>1, <1>2, <1>3, <1>4 DEF FindNeighbors, Order

\* UpToDate looks at the rows only as far as their sequence goes.
LEMMA UpToDateKept ==
  ASSUME TypeOK, TypeOK', NEW m \in Dto, UpToDate(m), Queued' = Queued,
         \A g, h \in Queued : Order(g) < Order(h) <=> Order(g)' < Order(h)'
  PROVE  UpToDate(m)'
<1>1. \A g, h \in Queued : Order(g) <= Order(h) => Order(g)' <= Order(h)'
  <2>1. \A g \in Queued : Order(g) \in Nat
    BY RowTyped
  <2>2. \A g \in Queued : Order(g)' \in Nat
    BY DEF TypeOK, IsTable, Queued, Order, Row
  <2> QED
    BY <2>1, <2>2
<1> DEFINE rest == Queued \ {m.gameId}
<1>2. /\ m.beforeId \in rest \union {NULL}
      /\ m.afterId \in rest \union {NULL}
      /\ m.beforeId # NULL /\ m.afterId # NULL => Order(m.beforeId) < Order(m.afterId)
      /\ \A h \in rest :
           \/ m.beforeId # NULL /\ Order(h) <= Order(m.beforeId)
           \/ m.afterId # NULL /\ Order(h) >= Order(m.afterId)
  BY DEF UpToDate
<1>3. m.beforeId # NULL /\ m.afterId # NULL => Order(m.beforeId)' < Order(m.afterId)'
  BY <1>2
<1>4. \A h \in rest :
        \/ m.beforeId # NULL /\ Order(h)' <= Order(m.beforeId)'
        \/ m.afterId # NULL /\ Order(h)' >= Order(m.afterId)'
  <2> SUFFICES ASSUME NEW h \in rest
               PROVE  \/ m.beforeId # NULL /\ Order(h)' <= Order(m.beforeId)'
                      \/ m.afterId # NULL /\ Order(h)' >= Order(m.afterId)'
    OBVIOUS
  <2>1. CASE m.beforeId # NULL /\ Order(h) <= Order(m.beforeId)
    BY <1>1, <1>2, <2>1
  <2>2. CASE m.afterId # NULL /\ Order(h) >= Order(m.afterId)
    <3>1. m.afterId \in Queued /\ Order(h) \in Nat /\ Order(m.afterId) \in Nat
      BY <1>2, <2>2, RowTyped
    <3>2. Order(m.afterId)' <= Order(h)'
      BY <1>1, <2>2, <3>1
    <3>3. Order(m.afterId)' \in Nat /\ Order(h)' \in Nat
      BY <3>1 DEF TypeOK, IsTable, Queued, Order, Row
    <3> QED
      BY <2>2, <3>2, <3>3
  <2> QED
    BY <1>2, <2>1, <2>2
<1> QED
  BY <1>2, <1>3, <1>4 DEF UpToDate, Order

-----------------------------------------------------------------------------
(* There is one listing.                                                   *)

\* The games up to one of them.
UpToGame(g) == {h \in Queued : Order(h) <= Order(g)}

\* Its position, whatever the sort does.
PositionOf == [g \in Queued |-> Cardinality(UpToGame(g))]

\* The queue is finite.
LEMMA QueuedFinite ==
  ASSUME TypeOK
  PROVE  IsFiniteSet(Queued) /\ Cardinality(Queued) \in Nat
<1>1. Queued \in SUBSET Games
  BY DEF TypeOK, IsTable, Queued
<1>2. IsFiniteSet(Queued)
  BY <1>1, FiniteAssumption, FS_Subset
<1> QED
  BY <1>2, FS_CardinalityType

\* A game counts itself and at most the whole queue.
LEMMA UpToGameCard ==
  ASSUME TypeOK, NEW g \in Queued
  PROVE  /\ IsFiniteSet(UpToGame(g)) /\ Cardinality(UpToGame(g)) \in 1 .. Cardinality(Queued)
<1>1. UpToGame(g) \in SUBSET Queued /\ g \in UpToGame(g)
  BY RowTyped DEF UpToGame
<1>2. IsFiniteSet(Queued) /\ Cardinality(Queued) \in Nat
  BY QueuedFinite
<1>3. IsFiniteSet(UpToGame(g)) /\ Cardinality(UpToGame(g)) <= Cardinality(Queued)
  BY <1>1, <1>2, FS_Subset
<1>4. Cardinality(UpToGame(g)) \in Nat /\ Cardinality(UpToGame(g)) # 0
  BY <1>1, <1>3, FS_CardinalityType, FS_EmptySet
<1> QED
  BY <1>2, <1>3, <1>4

\* A later game has more games up to it.
LEMMA UpToGameGrows ==
  ASSUME TypeOK, NEW g \in Queued, NEW h \in Queued, Order(g) < Order(h)
  PROVE  Cardinality(UpToGame(g)) < Cardinality(UpToGame(h))
<1>1. \A k \in Queued : Order(k) \in Nat
  BY RowTyped
<1>2. UpToGame(g) \in SUBSET UpToGame(h) /\ h \in UpToGame(h) /\ h \notin UpToGame(g)
  BY <1>1 DEF UpToGame
<1>3. IsFiniteSet(UpToGame(h)) /\ Cardinality(UpToGame(h)) \in Nat
      /\ Cardinality(UpToGame(g)) \in Nat
  BY UpToGameCard, QueuedFinite
<1>4. Cardinality(UpToGame(g)) <= Cardinality(UpToGame(h))
      /\ Cardinality(UpToGame(g)) # Cardinality(UpToGame(h))
  BY <1>2, <1>3, FS_Subset
<1> QED
  BY <1>3, <1>4

\* PositionOf is a sort of the queue.
LEMMA PositionOfSorts ==
  ASSUME TypeOK, Distinct
  PROVE  PositionOf \in GamesInQueue
<1>1. \A g \in Queued : PositionOf[g] = Cardinality(UpToGame(g))
  BY DEF PositionOf
<1>2. PositionOf \in [Queued -> 1 .. Cardinality(Queued)]
  BY UpToGameCard DEF PositionOf
<1>3. \A g, h \in Queued : Order(g) < Order(h) => PositionOf[g] < PositionOf[h]
  BY <1>1, UpToGameGrows
<1>4. \A g, h \in Queued : g # h => PositionOf[g] # PositionOf[h]
  <2> SUFFICES ASSUME NEW g \in Queued, NEW h \in Queued, g # h
               PROVE  PositionOf[g] # PositionOf[h]
    OBVIOUS
  <2>1. Order(g) \in Nat /\ Order(h) \in Nat /\ Order(g) # Order(h)
    BY RowTyped DEF Distinct
  <2>2. PositionOf[g] \in Nat /\ PositionOf[h] \in Nat
    BY <1>2, QueuedFinite
  <2>3. PositionOf[g] < PositionOf[h] \/ PositionOf[h] < PositionOf[g]
    BY <1>3, <2>1
  <2> QED
    BY <2>2, <2>3
<1> QED
  BY <1>2, <1>3, <1>4 DEF GamesInQueue, SortedPositions, Queued, Order

\* Any sort gives every game that position: the games up to it fill the
\* positions up to its own.
LEMMA SortsAgree ==
  ASSUME TypeOK, Distinct, NEW pos \in GamesInQueue
  PROVE  pos = PositionOf
<1> DEFINE n == Cardinality(Queued)
<1>1. /\ pos \in [Queued -> 1 .. n]
      /\ \A g, h \in Queued : g # h => pos[g] # pos[h]
      /\ \A g, h \in Queued : Order(g) < Order(h) => pos[g] < pos[h]
  BY DEF GamesInQueue, SortedPositions, Queued, Order
<1>2. IsFiniteSet(Queued) /\ n \in Nat
  BY QueuedFinite
<1>3. \A k \in 1 .. n : \E h \in Queued : pos[h] = k
  <2>1. pos \in Injection(Queued, 1 .. n)
    BY <1>1 DEF Injection, IsInjective
  <2>2. IsFiniteSet(1 .. n) /\ Cardinality(1 .. n) = n
    BY <1>2, FS_Interval
  <2>3. pos \in Surjection(Queued, 1 .. n)
    BY <2>1, <2>2, FS_Injection
  <2> QED
    BY <2>3 DEF Surjection
<1>4. \A g, h \in Queued : pos[h] <= pos[g] <=> Order(h) <= Order(g)
  <2> SUFFICES ASSUME NEW g \in Queued, NEW h \in Queued
               PROVE  pos[h] <= pos[g] <=> Order(h) <= Order(g)
    OBVIOUS
  <2>1. Order(g) \in Nat /\ Order(h) \in Nat /\ (g # h => Order(g) # Order(h))
    BY RowTyped DEF Distinct
  <2>2. pos[g] \in Nat /\ pos[h] \in Nat
    BY <1>1, <1>2
  <2>3. (Order(g) < Order(h) => pos[g] < pos[h]) /\ (Order(h) < Order(g) => pos[h] < pos[g])
    BY <1>1
  <2> QED
    BY <2>1, <2>2, <2>3
<1>5. ASSUME NEW g \in Queued PROVE pos[g] = Cardinality(UpToGame(g))
  <2> DEFINE f == [h \in UpToGame(g) |-> pos[h]]
  <2>1. pos[g] \in 1 .. n
    BY <1>1
  <2>2. \A h \in UpToGame(g) : h \in Queued /\ pos[h] \in 1 .. pos[g]
    BY <1>1, <1>2, <1>4 DEF UpToGame
  <2>3. f \in [UpToGame(g) -> 1 .. pos[g]]
    BY <2>2
  <2>4. f \in Injection(UpToGame(g), 1 .. pos[g])
    <3>1. \A h, k \in UpToGame(g) : f[h] = f[k] => h = k
      BY <1>1, <2>2
    <3> HIDE DEF f
    <3> QED
      BY <2>3, <3>1 DEF Injection, IsInjective
  <2>5. \A k \in 1 .. pos[g] : \E h \in UpToGame(g) : f[h] = k
    <3> SUFFICES ASSUME NEW k \in 1 .. pos[g] PROVE \E h \in UpToGame(g) : f[h] = k
      OBVIOUS
    <3>1. k \in 1 .. n /\ k <= pos[g]
      BY <1>2, <2>1
    <3>2. PICK h \in Queued : pos[h] = k
      BY <1>3, <3>1
    <3>3. h \in UpToGame(g)
      BY <1>4, <3>1, <3>2 DEF UpToGame
    <3> QED
      BY <3>2, <3>3
  <2> HIDE DEF f
  <2>6. f \in Surjection(UpToGame(g), 1 .. pos[g])
    BY <2>3, <2>5 DEF Surjection
  <2>7. IsFiniteSet(1 .. pos[g]) /\ Cardinality(1 .. pos[g]) = pos[g]
    <3>1. 1 \in Int /\ pos[g] \in Int /\ pos[g] >= 1
      BY <1>2, <2>1
    <3>2. IsFiniteSet(1 .. pos[g])
          /\ Cardinality(1 .. pos[g]) = IF 1 > pos[g] THEN 0 ELSE pos[g] - 1 + 1
      BY <3>1, FS_Interval
    <3> QED
      BY <3>1, <3>2
  <2>8. Cardinality(UpToGame(g)) = Cardinality(1 .. pos[g])
    BY <2>4, <2>6, <2>7, FS_Injection
  <2> QED
    BY <2>7, <2>8
<1> QED
  BY <1>1, <1>5 DEF PositionOf

\* With distinct orders there is one sort only.
LEMMA ListedOnce ==
  ASSUME TypeOK, Distinct
  PROVE  OneListing
<1>1. GamesInQueue = {PositionOf}
  BY PositionOfSorts, SortsAgree
<1> QED
  BY <1>1, FS_Singleton DEF OneListing

-----------------------------------------------------------------------------
(* The steps. *)

\* A serial step is a step of GameQueue.
LEMMA SerialIsNext ==
  ASSUME [SerialNext]_vars
  PROVE  [Next]_vars
BY DEF SerialNext, Next, FreshMove

\* The one request that is under way, or begins.
LEMMA SoleStep ==
  ASSUME SerialInv, NEW r \in Requests, Quiet \/ pc[r] # "idle",
         TypeOK', Distinct', OwnKeys', Fit', UnderWay(r)',
         \A q \in Requests \ {r} : pc'[q] = pc[q]
  PROVE  SerialInv'
<1>1. \A q \in Requests \ {r} : pc'[q] = "idle"
  BY DEF SerialInv, Alone, Quiet
<1>2. \A q \in Requests \ {r} : UnderWay(q)'
  BY <1>1 DEF UnderWay
<1>3. Alone'
  BY <1>1 DEF Alone
<1> QED
  BY <1>2, <1>3 DEF SerialInv

\* It ends.
LEMMA SoleFinish ==
  ASSUME SerialInv, NEW r \in Requests, pc[r] # "idle", Finish(r),
         TypeOK', Distinct', OwnKeys', Fit'
  PROVE  SerialInv'
<1>1. pc'[r] = "idle" /\ \A q \in Requests \ {r} : pc'[q] = pc[q]
  BY DEF Finish, Goto, SerialInv, TypeOK
<1>2. UnderWay(r)'
  BY <1>1 DEF UnderWay
<1> QED
  BY <1>1, <1>2, SoleStep

\* The rows stay as they are.
LEMMA RowsKept ==
  ASSUME SerialInv, entries' = entries
  PROVE  /\ Queued' = Queued /\ \A g : Order(g)' = Order(g)
         /\ Distinct' /\ OwnKeys' /\ Fit'
<1>1. Queued' = Queued /\ \A g : Order(g)' = Order(g)
  BY DEF Queued, Order
<1> QED
  BY <1>1 DEF SerialInv, Distinct, OwnKeys, Fit

\* A new move finds its neighbours apart, or starts a rebalance.
LEMMA FreshStep ==
  ASSUME SerialInv, TypeOK', NEW r \in Requests, Quiet, FreshMove(r)
  PROVE  SerialInv'
<1>1. PICK m \in Dto : UpToDate(m) /\ MoveGameInQueue(r, m)
  BY DEF FreshMove
<1> DEFINE f == FindNeighbors(m)
<1>2. /\ dto'[r] = m /\ found'[r] = f /\ entries' = entries
      /\ pc'[r] = IF IsThereSpace(f.left, f.right) THEN "place" ELSE "balance"
      /\ \A q \in Requests \ {r} : pc'[q] = pc[q]
  BY <1>1 DEF MoveGameInQueue, Goto, SerialInv, TypeOK
<1>3. FindNeighbors(m)' = f /\ UpToDate(m)'
  BY <1>1, <1>2 DEF FindNeighbors, UpToDate, Queued, Order
<1>4. UnderWay(r)'
  BY <1>2, <1>3 DEF UnderWay
<1> QED
  BY <1>2, <1>4, RowsKept, SoleStep

\* The read of a rebalance numbers the rows in their sequence.
LEMMA ReadStep ==
  ASSUME SerialInv, TypeOK', NEW r \in Requests, RebalanceRead(r)
  PROVE  SerialInv'
<1>1. PICK pos \in GamesInQueue : plan' = [plan EXCEPT ![r] = Numbered(pos)]
  BY DEF RebalanceRead, Numbered
<1>2. /\ pc[r] = "balance" /\ pc'[r] = "save" /\ UNCHANGED <<entries, dto>>
      /\ \A q \in Requests \ {r} : pc'[q] = pc[q]
  BY DEF RebalanceRead, Goto, SerialInv, TypeOK
<1>3. plan'[r] = Numbered(pos)
  BY <1>1 DEF SerialInv, TypeOK
<1>4. GamesInQueue' = GamesInQueue /\ Numbered(pos)' = Numbered(pos)
  BY <1>2 DEF GamesInQueue, Numbered, Queued
<1>5. dto[r] \in Dto /\ UpToDate(dto[r])
  BY <1>2 DEF SerialInv, UnderWay
<1>6. dto'[r] \in Dto /\ UpToDate(dto[r])'
  BY <1>2, <1>5 DEF UpToDate, Queued, Order
<1>7. UnderWay(r)'
  BY <1>2, <1>3, <1>4, <1>6 DEF UnderWay
<1> QED
  BY <1>2, <1>7, RowsKept, SoleStep

\* A numbered row.
LEMMA NumberedRow ==
  ASSUME NEW pos, NEW g \in Queued
  PROVE  /\ Numbered(pos)[g].id = entries[g].id
         /\ Numbered(pos)[g].order = pos[g] * ORDER_GAP
BY DEF Numbered

\* What a save of the plan leaves: the same line, with room everywhere.
LEMMA SavedShape ==
  ASSUME SerialInv, TypeOK', NEW r \in Requests, SavePlan(r)
  PROVE  /\ Queued' = Queued
         /\ \A g \in Queued : entries'[g].id = entries[g].id
         /\ \A g, h \in Queued : Order(g) < Order(h) <=> Order(g)' < Order(h)'
         /\ Roomy' /\ Distinct' /\ OwnKeys' /\ Fit'
<1>1. PICK pos \in GamesInQueue : plan[r] = Numbered(pos)
  BY DEF SavePlan, SerialInv, UnderWay
<1>2. DOMAIN plan[r] = Queued
  BY <1>1 DEF Numbered
<1>3. Queued' = Queued /\ \A g \in Queued : entries'[g] = plan[r][g]
  BY <1>2 DEF SavePlan, Queued
<1>4. \A g \in Queued : /\ entries'[g].id = entries[g].id
                        /\ Order(g)' = pos[g] * ORDER_GAP
  <2> SUFFICES ASSUME NEW g \in Queued
               PROVE  entries'[g].id = entries[g].id /\ Order(g)' = pos[g] * ORDER_GAP
    OBVIOUS
  <2>1. entries'[g] = Numbered(pos)[g]
    BY <1>1, <1>3
  <2>2. Order(g)' = entries'[g].order
    BY DEF Order
  <2> QED
    BY <2>1, <2>2, NumberedRow
<1>5. \A g \in Queued : Order(g)' <= MAX_ORDER
  <2>1. \A g \in DOMAIN plan[r] : plan[r][g].order <= MAX_ORDER
    BY DEF SavePlan, PlanApplies
  <2> QED
    BY <1>2, <1>3, <2>1 DEF Order
<1>6. /\ \A g \in Queued : pos[g] \in Nat /\ pos[g] >= 1
      /\ \A g, h \in Queued : g # h => pos[g] # pos[h]
      /\ \A g, h \in Queued : Order(g) < Order(h) => pos[g] < pos[h]
  <2>1. /\ pos \in [Queued -> 1 .. Cardinality(Queued)]
        /\ \A g, h \in Queued : g # h => pos[g] # pos[h]
        /\ \A g, h \in Queued : Order(g) < Order(h) => pos[g] < pos[h]
    BY DEF GamesInQueue, SortedPositions, Queued, Order
  <2>2. Cardinality(Queued) \in Nat
    BY QueuedFinite DEF SerialInv
  <2>3. \A g \in Queued : pos[g] \in 1 .. Cardinality(Queued)
    BY <2>1
  <2> QED
    BY <2>1, <2>2, <2>3
<1>7. \A g, h \in Queued : pos[g] < pos[h] => Order(g)' + 2 <= Order(h)'
  BY <1>4, <1>6, GapApart
<1>8. \A g \in Queued : Order(g)' \in Nat /\ Order(g)' >= 2
  <2> SUFFICES ASSUME NEW g \in Queued PROVE Order(g)' \in Nat /\ Order(g)' >= 2
    OBVIOUS
  <2>1. 0 * ORDER_GAP + 2 <= pos[g] * ORDER_GAP
    BY <1>6, GapApart
  <2>2. pos[g] * ORDER_GAP \in Nat /\ 0 * ORDER_GAP = 0
    BY <1>6, GapAssumption
  <2> QED
    BY <1>4, <2>1, <2>2
<1>9. \A g, h \in Queued : pos[g] < pos[h] <=> Order(g)' < Order(h)'
  <2> SUFFICES ASSUME NEW g \in Queued, NEW h \in Queued
               PROVE  pos[g] < pos[h] <=> Order(g)' < Order(h)'
    OBVIOUS
  <2>1. /\ pos[g] \in Nat /\ pos[h] \in Nat /\ Order(g)' \in Nat /\ Order(h)' \in Nat
        /\ pos[g] < pos[h] => Order(g)' + 2 <= Order(h)'
        /\ pos[h] < pos[g] => Order(h)' + 2 <= Order(g)'
        /\ pos[h] = pos[g] => Order(h)' = Order(g)'
    BY <1>4, <1>6, <1>7, <1>8
  <2> QED
    BY <2>1
<1>10. \A g, h \in Queued : Order(g) < Order(h) <=> pos[g] < pos[h]
  <2> SUFFICES ASSUME NEW g \in Queued, NEW h \in Queued
               PROVE  Order(g) < Order(h) <=> pos[g] < pos[h]
    OBVIOUS
  <2>1. Order(g) \in Nat /\ Order(h) \in Nat /\ (g # h => Order(g) # Order(h))
    BY RowTyped DEF SerialInv, Distinct
  <2>2. pos[g] \in Nat /\ pos[h] \in Nat /\ (Order(h) < Order(g) => pos[h] < pos[g])
        /\ (Order(g) < Order(h) => pos[g] < pos[h])
    BY <1>6
  <2> QED
    BY <2>1, <2>2
<1>11. Distinct'
  <2> SUFFICES ASSUME NEW g \in Queued, NEW h \in Queued, Order(g)' = Order(h)' PROVE g = h
    BY <1>3 DEF Distinct
  <2>1. pos[g] \in Nat /\ pos[h] \in Nat /\ Order(g)' \in Nat /\ Order(h)' \in Nat
    BY <1>6, <1>8
  <2>2. ~(pos[g] < pos[h]) /\ ~(pos[h] < pos[g])
    BY <1>9, <2>1
  <2> QED
    BY <1>6, <2>1, <2>2
<1>12. Roomy'
  BY <1>3, <1>7, <1>8, <1>9 DEF Roomy
<1>13. OwnKeys'
  BY <1>3, <1>4 DEF OwnKeys, SerialInv
<1>14. Fit'
  BY <1>3, <1>5, <1>8 DEF Fit
<1> QED
  BY <1>3, <1>4, <1>9, <1>10, <1>11, <1>12, <1>13, <1>14

\* The save of a rebalance leaves room everywhere.
LEMMA SaveStep ==
  ASSUME SerialInv, TypeOK', NEW r \in Requests, SavePlan(r)
  PROVE  SerialInv'
<1>1. /\ pc[r] = "save" /\ pc'[r] = "refind" /\ dto' = dto
      /\ \A q \in Requests \ {r} : pc'[q] = pc[q]
  BY DEF SavePlan, Goto, SerialInv, TypeOK
<1>2. /\ Queued' = Queued
      /\ \A g, h \in Queued : Order(g) < Order(h) <=> Order(g)' < Order(h)'
      /\ Roomy' /\ Distinct' /\ OwnKeys' /\ Fit'
  BY SavedShape
<1>3. dto[r] \in Dto /\ UpToDate(dto[r])
  BY <1>1 DEF SerialInv, UnderWay
<1>4. UpToDate(dto[r])'
  <2>1. TypeOK
    BY DEF SerialInv
  <2>2. \A m \in Dto : UpToDate(m) => UpToDate(m)'
    BY <1>2, <2>1, UpToDateKept
  <2> QED
    BY <1>1, <1>3, <2>2
<1>5. UnderWay(r)'
  BY <1>1, <1>2, <1>3, <1>4 DEF UnderWay
<1> QED
  BY <1>1, <1>2, <1>5, SoleStep

\* After a rebalance there is room for the move it was for.
LEMMA RefindStep ==
  ASSUME SerialInv, TypeOK', NEW r \in Requests, RefindNeighbors(r)
  PROVE  SerialInv'
<1> DEFINE m == dto[r]
           f == FindNeighbors(m)
<1>1. /\ pc[r] = "refind" /\ pc'[r] = "place" /\ UNCHANGED <<entries, dto>>
      /\ found'[r] = f
      /\ \A q \in Requests \ {r} : pc'[q] = pc[q]
  BY DEF RefindNeighbors, Goto, SerialInv, TypeOK
<1>2. m \in Dto /\ UpToDate(m) /\ Roomy
  BY <1>1 DEF SerialInv, UnderWay
<1>3. /\ f.left = IF m.beforeId = NULL THEN NULL ELSE Order(m.beforeId)
      /\ f.right = IF m.afterId = NULL THEN NULL ELSE Order(m.afterId)
      /\ m.beforeId # NULL => m.beforeId \in Queued
      /\ m.afterId # NULL => m.afterId \in Queued
  BY <1>2, UpToDateFinds DEF SerialInv
<1>4. IsThereSpace(f.left, f.right)
  <2> HIDE DEF f
  <2>1. CASE m.afterId = NULL
    BY <1>3, <2>1 DEF IsThereSpace
  <2>2. CASE m.afterId # NULL /\ m.beforeId = NULL
    <3>1. f.left = NULL /\ f.right \in Nat /\ f.right >= 2
      BY <1>2, <1>3, <2>2, RowTyped DEF Roomy, SerialInv
    <3> QED
      BY <3>1 DEF IsThereSpace
  <2>3. CASE m.afterId # NULL /\ m.beforeId # NULL
    <3>1. f.left = Order(m.beforeId) /\ f.right = Order(m.afterId)
      BY <1>3, <2>3
    <3>2. Order(m.beforeId) + 2 <= Order(m.afterId)
      BY <1>2, <1>3, <2>3 DEF Roomy, UpToDate
    <3>3. Order(m.beforeId) \in Nat /\ Order(m.afterId) \in Nat /\ Order(m.beforeId) # NULL
      BY <1>3, <2>3, RowTyped DEF SerialInv
    <3> QED
      BY <3>1, <3>2, <3>3 DEF IsThereSpace
  <2> QED
    BY <2>1, <2>2, <2>3
<1>5. FindNeighbors(m)' = f /\ UpToDate(m)' /\ dto'[r] = m
  BY <1>1, <1>2 DEF FindNeighbors, UpToDate, Queued, Order
<1>6. UnderWay(r)'
  BY <1>1, <1>2, <1>4, <1>5 DEF UnderWay
<1> QED
  BY <1>1, <1>6, RowsKept, SoleStep

\* The order a move is about to write is between those of its neighbours.
LEMMA NewOrderFits ==
  ASSUME SerialInv, NEW r \in Requests, pc[r] = "place"
  PROVE  LET m == dto[r] IN
         /\ m \in Dto /\ UpToDate(m)
         /\ found[r].center = IF m.gameId \in Queued THEN entries[m.gameId].id ELSE NULL
         /\ NewOrder(r) \in Nat /\ NewOrder(r) >= 1
         /\ m.beforeId # NULL =>
              m.beforeId \in Queued \ {m.gameId} /\ Order(m.beforeId) < NewOrder(r)
         /\ m.afterId # NULL =>
              m.afterId \in Queued \ {m.gameId} /\ NewOrder(r) < Order(m.afterId)
<1> DEFINE m == dto[r]
           l == found[r].left
           h == found[r].right
<1>1. /\ m \in Dto /\ UpToDate(m) /\ found[r] = FindNeighbors(m) /\ IsThereSpace(l, h)
  BY DEF SerialInv, UnderWay
<1>2. /\ l = IF m.beforeId = NULL THEN NULL ELSE Order(m.beforeId)
      /\ h = IF m.afterId = NULL THEN NULL ELSE Order(m.afterId)
      /\ found[r].center = IF m.gameId \in Queued THEN entries[m.gameId].id ELSE NULL
      /\ m.beforeId # NULL => m.beforeId \in Queued /\ m.beforeId # m.gameId
      /\ m.afterId # NULL => m.afterId \in Queued /\ m.afterId # m.gameId
  BY <1>1, UpToDateFinds DEF SerialInv
<1> HIDE DEF m, l, h
<1>3. \A g \in Queued : Order(g) \in Nat /\ Order(g) >= 1 /\ Order(g) # NULL
  BY RowTyped DEF SerialInv, Fit
<1>4. l \in Orders /\ h \in Orders /\ (l # NULL => l >= 1) /\ (h # NULL => h >= 1)
  BY <1>2, <1>3 DEF Orders
<1>5. /\ NewOrder(r) \in Nat /\ NewOrder(r) >= 1
      /\ l # NULL => l < NewOrder(r)
      /\ h # NULL => NewOrder(r) < h
  <2>1. NewOrder(r) = CalculateOrder(l, h)
    BY DEF NewOrder, l, h
  <2> QED
    BY <1>1, <1>4, <2>1, Midpoint
<1> QED
  BY <1>1, <1>2, <1>3, <1>5 DEF m

\* A write puts one row where it belongs, and leaves the others.
LEMMA PlacedShape ==
  ASSUME SerialInv, TypeOK', NEW r \in Requests, PlaceQueued(r) \/ PlaceNew(r)
  PROVE  LET g == dto[r].gameId IN
         /\ pc[r] = "place" /\ Finish(r) /\ NewOrder(r) <= MAX_ORDER
         /\ Queued' = Queued \union {g} /\ entries'[g].order = NewOrder(r)
         /\ entries'[g].id[1] = g
         /\ \A h \in Queued \ {g} : entries'[h] = entries[h]
<1> DEFINE g == dto[r].gameId
           n == NewOrder(r)
<1>1. pc[r] = "place" /\ Finish(r) /\ n <= MAX_ORDER
  BY DEF PlaceQueued, PlaceNew
<1>2. g \in Games /\ found[r].center = IF g \in Queued THEN entries[g].id ELSE NULL
  BY <1>1, NewOrderFits DEF Dto
<1>3. CASE PlaceQueued(r)
  <2>1. g \in Queued /\ found[r].center = entries[g].id
    BY <1>2, <1>3 DEF PlaceQueued
  <2>2. \A h \in Queued : entries[h].id = found[r].center <=> h = g
    BY <2>1 DEF SerialInv, OwnKeys
  <2>3. entries' = [h \in Queued |->
          IF entries[h].id = found[r].center
            THEN [id |-> entries[h].id, order |-> n] ELSE entries[h]]
    BY <1>3 DEF PlaceQueued
  <2> HIDE DEF n
  <2>4. Queued' = Queued /\ entries'[g] = [id |-> entries[g].id, order |-> n]
        /\ \A h \in Queued \ {g} : entries'[h] = entries[h]
    BY <2>1, <2>2, <2>3 DEF Queued
  <2>5. entries'[g].id = entries[g].id /\ entries'[g].order = n
    BY <2>4
  <2>6. entries'[g].id[1] = g
    BY <2>1, <2>5 DEF SerialInv, OwnKeys
  <2> QED
    BY <1>1, <2>1, <2>4, <2>5, <2>6 DEF n
<1>4. CASE PlaceNew(r)
  <2>1. g \notin Queued
    BY <1>4 DEF PlaceNew, MayInsert
  <2>2. entries' = [h \in Queued \union {g} |->
          IF h \in Queued THEN entries[h] ELSE [id |-> FreshId(h), order |-> n]]
    BY <1>4 DEF PlaceNew
  <2>3. FreshId(g)[1] = g
    BY DEF FreshId
  <2> HIDE DEF n
  <2>4. Queued' = Queued \union {g} /\ entries'[g] = [id |-> FreshId(g), order |-> n]
        /\ \A h \in Queued \ {g} : entries'[h] = entries[h]
    BY <2>1, <2>2 DEF Queued
  <2>5. entries'[g].id = FreshId(g) /\ entries'[g].order = n
    BY <2>4
  <2> QED
    BY <1>1, <2>3, <2>4, <2>5 DEF n
<1> QED
  BY <1>3, <1>4

\* Where the others are.
LEMMA PlacedBetween ==
  ASSUME SerialInv, NEW r \in Requests, pc[r] = "place", NEW h \in Queued \ {dto[r].gameId}
  PROVE  LET m == dto[r] IN
         IF m.beforeId # NULL /\ Order(h) <= Order(m.beforeId)
           THEN Order(h) < NewOrder(r)
           ELSE NewOrder(r) < Order(h)
<1> DEFINE m == dto[r]
           n == NewOrder(r)
<1>1. /\ UpToDate(m) /\ n \in Nat
      /\ m.beforeId # NULL => m.beforeId \in Queued /\ Order(m.beforeId) < n
      /\ m.afterId # NULL => m.afterId \in Queued /\ n < Order(m.afterId)
  BY NewOrderFits
<1>2. \/ m.beforeId # NULL /\ Order(h) <= Order(m.beforeId)
      \/ m.afterId # NULL /\ Order(h) >= Order(m.afterId)
  BY <1>1 DEF UpToDate
<1>3. Order(h) \in Nat /\ \A k \in Queued : Order(k) \in Nat
  BY RowTyped DEF SerialInv
<1> HIDE DEF m, n
<1>4. CASE m.beforeId # NULL /\ Order(h) <= Order(m.beforeId)
  BY <1>1, <1>3, <1>4 DEF m, n
<1>5. CASE ~(m.beforeId # NULL /\ Order(h) <= Order(m.beforeId))
  <2>1. n < Order(h)
    BY <1>1, <1>2, <1>3, <1>5
  <2> QED
    BY <1>5, <2>1 DEF m, n
<1> QED
  BY <1>4, <1>5

\* The write of a move, or its insert.
LEMMA PlaceStep ==
  ASSUME SerialInv, TypeOK', NEW r \in Requests, PlaceQueued(r) \/ PlaceNew(r)
  PROVE  SerialInv'
<1> DEFINE g == dto[r].gameId
           n == NewOrder(r)
<1>1. /\ pc[r] = "place" /\ Finish(r) /\ n <= MAX_ORDER
      /\ Queued' = Queued \union {g} /\ entries'[g].order = n
      /\ entries'[g].id[1] = g
      /\ \A h \in Queued \ {g} : entries'[h] = entries[h]
  BY PlacedShape
<1>2. n \in Nat /\ n >= 1
  BY <1>1, NewOrderFits
<1>3. \A h \in Queued \ {g} :
        entries'[h].order = Order(h) /\ Order(h) \in Nat /\ Order(h) # n
  <2> SUFFICES ASSUME NEW h \in Queued \ {g}
               PROVE  entries'[h].order = Order(h) /\ Order(h) \in Nat /\ Order(h) # n
    OBVIOUS
  <2>1. entries'[h].order = Order(h) /\ Order(h) \in Nat
    BY <1>1, RowTyped DEF Order, SerialInv
  <2>2. Order(h) < n \/ n < Order(h)
    BY <1>1, PlacedBetween
  <2> QED
    BY <1>2, <2>1, <2>2
<1> HIDE DEF g, n
<1>4. Distinct'
  <2> SUFFICES ASSUME NEW h \in Queued \union {g}, NEW k \in Queued \union {g},
                      entries'[h].order = entries'[k].order
               PROVE  h = k
    BY <1>1 DEF Distinct, Order
  <2> QED
    BY <1>1, <1>3 DEF SerialInv, Distinct
<1>5. OwnKeys'
  <2> SUFFICES ASSUME NEW h \in Queued \union {g} PROVE entries'[h].id[1] = h
    BY <1>1 DEF OwnKeys
  <2> QED
    BY <1>1 DEF OwnKeys, SerialInv
<1>6. Fit'
  <2> SUFFICES ASSUME NEW h \in Queued \union {g}
               PROVE  1 <= entries'[h].order /\ entries'[h].order <= MAX_ORDER
    BY <1>1 DEF Fit, Order
  <2> QED
    BY <1>1, <1>2, <1>3 DEF Fit, SerialInv
<1> QED
  BY <1>1, <1>4, <1>5, <1>6, SoleFinish

\* A row goes: the others stay as they are.
LEMMA WithoutShape ==
  ASSUME TypeOK, NEW g, entries' = Without(entries, g)
  PROVE  /\ Queued' = Queued \ {g}
         /\ \A h \in Queued \ {g} : entries'[h] = entries[h] /\ Order(h)' = Order(h)
BY DEF Without, Queued, Order

\* A game leaves the queue between requests.
LEMMA RemoveStep ==
  ASSUME SerialInv, TypeOK', Quiet, NEW g \in Games, RemoveFromQueue(g) \/ DeleteGame(g)
  PROVE  SerialInv'
<1>1. entries' = Without(entries, g) /\ pc' = pc
  BY DEF RemoveFromQueue, DeleteGame
<1>2. /\ Queued' = Queued \ {g}
      /\ \A h \in Queued \ {g} : entries'[h] = entries[h] /\ Order(h)' = Order(h)
  BY <1>1, WithoutShape DEF SerialInv
<1>3. Distinct' /\ OwnKeys' /\ Fit'
  BY <1>2 DEF SerialInv, Distinct, OwnKeys, Fit
<1>4. \A q \in Requests : UnderWay(q)'
  BY <1>1 DEF Quiet, UnderWay
<1> QED
  BY <1>1, <1>3, <1>4 DEF SerialInv, Alone

\* Every serial step keeps SerialInv.
LEMMA SerialStep ==
  ASSUME SerialInv, [SerialNext]_vars
  PROVE  SerialInv'
<1>1. TypeOK'
  BY SerialIsNext, TypeStep DEF SerialInv
<1>2. ASSUME NEW r \in Requests, Finish(r), pc[r] # "idle", entries' = entries
      PROVE  SerialInv'
  BY <1>1, <1>2, RowsKept, SoleFinish
<1>3. ASSUME NEW r \in Requests, Proceed(r) \/ Abort(r)
      PROVE  SerialInv'
  <2>1. CASE SavePlanRefused(r) \/ PlaceRefused(r) \/ Abort(r)
    BY <1>2, <2>1 DEF SavePlanRefused, PlaceRefused, Abort
  <2> QED
    BY <1>1, <1>3, <2>1, ReadStep, SaveStep, RefindStep, PlaceStep DEF Proceed
<1>4. CASE UNCHANGED vars
  <2>1. pc' = pc /\ dto' = dto /\ found' = found /\ plan' = plan /\ entries' = entries
    BY <1>4 DEF vars
  <2>2. \A r \in Requests : UnderWay(r)'
    <3> SUFFICES ASSUME NEW r \in Requests PROVE UnderWay(r)'
      OBVIOUS
    <3>1. UnderWay(r)
      BY DEF SerialInv
    <3>2. /\ \A m : UpToDate(m)' = UpToDate(m) /\ FindNeighbors(m)' = FindNeighbors(m)
          /\ \A pos : Numbered(pos)' = Numbered(pos)
          /\ GamesInQueue' = GamesInQueue /\ Roomy' = Roomy
      BY <2>1 DEF UpToDate, FindNeighbors, Numbered, GamesInQueue, Roomy, Queued, Order
    <3> QED
      BY <2>1, <3>1, <3>2 DEF UnderWay
  <2> QED
    BY <1>1, <2>1, <2>2, RowsKept DEF SerialInv, Alone
<1> QED
  BY <1>1, <1>3, <1>4, FreshStep, RemoveStep DEF SerialNext

\* The empty queue satisfies SerialInv.
LEMMA SerialInit == Init => SerialInv
<1> SUFFICES ASSUME Init PROVE SerialInv
  OBVIOUS
<1>1. Queued = {} /\ \A r \in Requests : pc[r] = "idle"
  BY DEF Init, NoPlan, Queued
<1> QED
  BY <1>1, TypeInit DEF SerialInv, Alone, Distinct, OwnKeys, Fit, UnderWay

(***************************************************************************)
(* What holds between up-to-date requests served one at a time: a row's    *)
(* order is its own, and the request under way still sees the neighbours   *)
(* it read (game-queue.service.ts:32-106).                                 *)
(***************************************************************************)
THEOREM SerialCorrect == SerialSpec => []SerialInv
BY SerialInit, SerialStep, PTL DEF SerialSpec

(***************************************************************************)
(* With one up-to-date request at a time no two rows ever share an order,  *)
(* and getGamesInQueue has one possible answer                             *)
(* (game-queue.service.ts:17-30).                                          *)
(***************************************************************************)
THEOREM ListingCorrect == SerialSpec => []OneListing
<1>1. SerialInv => OneListing
  BY ListedOnce DEF SerialInv
<1> QED
  BY <1>1, SerialCorrect, PTL

(***************************************************************************)
(* A serial move is refused only because its game is gone or because it    *)
(* appends beyond the column's limit, and a rebalance only when so many    *)
(* rows a gap apart do not fit (game-queue.service.ts:88-106).             *)
(***************************************************************************)
THEOREM RefusedCorrect == SerialSpec => RefusedOnlyAtTheLimit
<1> DEFINE A == \A r \in Requests :
                  /\ PlaceRefused(r) =>
                       \/ dto[r].gameId \notin library
                       \/ dto[r].afterId = NULL /\ NewOrder(r) > MAX_ORDER
                  /\ SavePlanRefused(r) =>
                       Cardinality(Queued) * ORDER_GAP > MAX_ORDER
<1>1. ASSUME SerialInv, NEW r \in Requests, PlaceRefused(r)
      PROVE  \/ dto[r].gameId \notin library
             \/ dto[r].afterId = NULL /\ NewOrder(r) > MAX_ORDER
  <2> DEFINE m == dto[r]
  <2>1. /\ pc[r] = "place"
        /\ \/ NewOrder(r) > MAX_ORDER
           \/ found[r].center = NULL /\ ~MayInsert(m.gameId)
    BY <1>1 DEF PlaceRefused
  <2>2. /\ found[r].center = IF m.gameId \in Queued THEN entries[m.gameId].id ELSE NULL
        /\ NewOrder(r) \in Nat
        /\ m.afterId # NULL => m.afterId \in Queued /\ NewOrder(r) < Order(m.afterId)
    BY <1>1, <2>1, NewOrderFits
  <2>3. CASE NewOrder(r) > MAX_ORDER
    <3>1. ASSUME m.afterId # NULL PROVE FALSE
      <4>1. Order(m.afterId) \in Nat /\ Order(m.afterId) <= MAX_ORDER
        BY <1>1, <2>2, <3>1, RowTyped DEF SerialInv, Fit
      <4> QED
        BY <2>2, <2>3, <3>1, <4>1, MaxAssumption
    <3> QED
      BY <2>3, <3>1
  <2>4. CASE found[r].center = NULL /\ ~MayInsert(m.gameId)
    <3>1. m.gameId \notin Queued
      BY <1>1, <2>2, <2>4, RowTyped DEF SerialInv
    <3> QED
      BY <2>4, <3>1 DEF MayInsert
  <2> QED
    BY <2>1, <2>3, <2>4
<1>2. ASSUME SerialInv, NEW r \in Requests, SavePlanRefused(r)
      PROVE  Cardinality(Queued) * ORDER_GAP > MAX_ORDER
  <2>1. pc[r] = "save" /\ ~PlanApplies(r)
    BY <1>2 DEF SavePlanRefused
  <2>2. PICK pos \in GamesInQueue : plan[r] = Numbered(pos)
    BY <1>2, <2>1 DEF SerialInv, UnderWay
  <2>3. PICK g \in Queued : ~(pos[g] * ORDER_GAP <= MAX_ORDER)
    BY <2>1, <2>2 DEF PlanApplies, Numbered
  <2> DEFINE n == Cardinality(Queued)
  <2>4. n \in Nat /\ pos[g] \in 1 .. n
    BY <1>2, QueuedFinite DEF SerialInv, GamesInQueue, SortedPositions, Queued
  <2> HIDE DEF n
  <2>5. pos[g] \in Nat /\ (pos[g] = n \/ pos[g] < n)
    BY <2>4
  <2>6. pos[g] * ORDER_GAP \in Nat /\ n * ORDER_GAP \in Nat
    BY <2>4, <2>5, GapAssumption
  <2>7. pos[g] * ORDER_GAP <= n * ORDER_GAP
    <3>1. CASE pos[g] = n
      BY <2>6, <3>1
    <3>2. CASE pos[g] < n
      <4>1. pos[g] * ORDER_GAP + 2 <= n * ORDER_GAP
        BY <2>4, <2>5, <3>2, GapApart
      <4> QED
        BY <2>6, <4>1
    <3> QED
      BY <2>5, <3>1, <3>2
  <2>8. n * ORDER_GAP > MAX_ORDER
    BY <2>3, <2>6, <2>7, MaxAssumption
  <2> QED
    BY <2>8 DEF n
<1>3. SerialInv => A
  BY <1>1, <1>2
<1> QED
  BY <1>3, SerialCorrect, PTL DEF RefusedOnlyAtTheLimit

-----------------------------------------------------------------------------
(* SerialSpec implements QueueOrder.                                       *)

\* A pair is in the line when its rows are, in that order.
LEMMA BeforePair ==
  ASSUME NEW x, NEW y
  PROVE  <<x, y>> \in Before <=> x \in Queued /\ y \in Queued /\ Order(x) < Order(y)
BY DEF Before

\* The same line after the step.
LEMMA BeforePairNext ==
  ASSUME NEW x, NEW y
  PROVE  <<x, y>> \in Before' <=>
           x \in Queued' /\ y \in Queued' /\ entries'[x].order < entries'[y].order
BY DEF Before, Order

\* The line relates queued games.
LEMMA LinePairs == Before \subseteq Queued \X Queued /\ Before' \subseteq Queued' \X Queued'
BY DEF Before

\* Two sets of pairs with the same pairs are one.
LEMMA SamePairs ==
  ASSUME NEW A, NEW B, NEW C, NEW D, NEW E, NEW F, A \subseteq C \X D, B \subseteq E \X F,
         \A x, y : <<x, y>> \in A <=> <<x, y>> \in B
  PROVE  A = B
OBVIOUS

\* The rows of the same games in the same sequence are the same line.
LEMMA LineKept ==
  ASSUME Queued' = Queued,
         \A g, h \in Queued : Order(g) < Order(h) <=> entries'[g].order < entries'[h].order
  PROVE  Before' = Before
<1>1. \A x, y : <<x, y>> \in Before <=> <<x, y>> \in Before'
  BY BeforePair, BeforePairNext
<1> QED
  BY <1>1, LinePairs

\* Removing a row removes its game from the line.
LEMMA RemovesGame ==
  ASSUME TypeOK, NEW g, entries' = Without(entries, g)
  PROVE  Abstract!Remove(g)
<1>1. Queued' = Queued \ {g} /\ \A h \in Queued \ {g} : entries'[h].order = Order(h)
  BY WithoutShape DEF Order
<1> DEFINE kept == {p \in Before : p[1] # g /\ p[2] # g}
<1>2. \A x, y : <<x, y>> \in kept <=> <<x, y>> \in Before'
  <2> SUFFICES ASSUME NEW x, NEW y PROVE <<x, y>> \in kept <=> <<x, y>> \in Before'
    OBVIOUS
  <2>1. <<x, y>> \in kept <=> <<x, y>> \in Before /\ x # g /\ y # g
    OBVIOUS
  <2> QED
    BY <1>1, <2>1, BeforePair, BeforePairNext
<1>3. Before' = kept
  BY <1>2, LinePairs
<1> QED
  BY <1>1, <1>3 DEF Abstract!Remove

\* What comes before an up-to-date move's place.
LEMMA UpToIs ==
  ASSUME TypeOK, Distinct, NEW m \in Dto, UpToDate(m)
  PROVE  Abstract!UpTo(m.beforeId, m.gameId) =
           {h \in Queued \ {m.gameId} : m.beforeId # NULL /\ Order(h) <= Order(m.beforeId)}
<1> DEFINE b == m.beforeId
<1>1. b # NULL => b \in Queued
  BY DEF UpToDate
<1>2. NULL \notin Queued /\ \A k \in Queued : Order(k) \in Nat
  BY RowTyped
<1>3. ASSUME NEW h \in Queued
      PROVE  h = b \/ <<h, b>> \in Before <=> b # NULL /\ Order(h) <= Order(b)
  <2>1. CASE b = NULL
    BY <1>2, <1>3, <2>1, BeforePair
  <2>2. CASE b # NULL
    <3>1. <<h, b>> \in Before <=> Order(h) < Order(b)
      BY <1>1, <1>3, <2>2, BeforePair
    <3>2. Order(h) = Order(b) <=> h = b
      BY <1>1, <2>2 DEF Distinct
    <3>3. Order(h) \in Nat /\ Order(b) \in Nat
      BY <1>1, <1>2, <2>2
    <3> QED
      BY <2>2, <3>1, <3>2, <3>3
  <2> QED
    BY <2>1, <2>2
<1> QED
  BY <1>3 DEF Abstract!UpTo, Abstract!Others

\* The neighbours of an up-to-date move follow each other in the line.
LEMMA AreNeighbours ==
  ASSUME TypeOK, Distinct, NEW m \in Dto, UpToDate(m)
  PROVE  Abstract!Neighbours(m.beforeId, m.gameId, m.afterId)
<1> DEFINE b == m.beforeId
           a == m.afterId
           rest == Queued \ {m.gameId}
           upTo == {h \in rest : b # NULL /\ Order(h) <= Order(b)}
<1>1. Abstract!UpTo(b, m.gameId) = upTo /\ Abstract!Others(m.gameId) = rest
  BY UpToIs DEF Abstract!Others
<1>2. /\ b \in rest \union {NULL} /\ a \in rest \union {NULL}
      /\ b # NULL /\ a # NULL => Order(b) < Order(a)
      /\ \A h \in rest : \/ b # NULL /\ Order(h) <= Order(b)
                         \/ a # NULL /\ Order(h) >= Order(a)
  BY DEF UpToDate
<1>3. \A k \in rest : Order(k) \in Nat
  BY RowTyped
<1>4. ASSUME NEW h \in rest, h \notin upTo
      PROVE  a # NULL /\ (h = a \/ <<a, h>> \in Before)
  <2>1. a # NULL /\ Order(h) >= Order(a) /\ a \in rest
    BY <1>2, <1>4
  <2>2. h = a \/ Order(h) # Order(a)
    BY <2>1 DEF Distinct
  <2>3. h = a \/ Order(a) < Order(h)
    BY <1>3, <2>1, <2>2
  <2> QED
    BY <2>1, <2>3, BeforePair
<1>5. a # NULL => a \notin upTo
  <2> SUFFICES ASSUME a # NULL, b # NULL, a \in rest, Order(a) <= Order(b) PROVE FALSE
    OBVIOUS
  <2>1. b \in rest /\ Order(b) < Order(a)
    BY <1>2
  <2> QED
    BY <1>3, <2>1
<1> HIDE DEF upTo, rest
<1> QED
  BY <1>1, <1>2, <1>4, <1>5 DEF Abstract!Neighbours

\* The write of a move is Place with the neighbours it named.
LEMMA PlacesGame ==
  ASSUME SerialInv, TypeOK', NEW r \in Requests, PlaceQueued(r) \/ PlaceNew(r)
  PROVE  Abstract!Place(dto[r].beforeId, dto[r].gameId, dto[r].afterId)
<1>1. PICK m \in Dto : m = dto[r] /\ UpToDate(m)
  BY PlacedShape, NewOrderFits
<1>2. PICK n \in Nat : n = NewOrder(r)
  BY PlacedShape, NewOrderFits
<1> DEFINE g == m.gameId
           rest == Queued \ {g}
           upTo == {h \in rest : m.beforeId # NULL /\ Order(h) <= Order(m.beforeId)}
<1>3. /\ Queued' = Queued \union {g} /\ entries'[g].order = n
      /\ \A h \in rest : entries'[h].order = Order(h)
  BY <1>1, <1>2, PlacedShape DEF Order
<1>4. \A h \in rest : /\ h \in upTo => Order(h) < n
                      /\ h \notin upTo => n < Order(h)
  BY <1>1, <1>2, PlacedShape, PlacedBetween
<1>5. \A h \in rest : Order(h) \in Nat
  BY RowTyped DEF SerialInv
<1>6. upTo \subseteq rest
  OBVIOUS
<1> DEFINE kept == {p \in Before : p[1] # g /\ p[2] # g}
           line == kept \union (upTo \X {g}) \union ({g} \X (rest \ upTo))
<1>7. \A x, y : <<x, y>> \in line <=> <<x, y>> \in Before'
  <2> SUFFICES ASSUME NEW x, NEW y PROVE <<x, y>> \in line <=> <<x, y>> \in Before'
    OBVIOUS
  <2>1. <<x, y>> \in line <=> \/ x \in rest /\ y \in rest /\ Order(x) < Order(y)
                              \/ x \in upTo /\ y = g
                              \/ x = g /\ y \in rest /\ y \notin upTo
    <3>1. <<x, y>> \in kept <=> <<x, y>> \in Before /\ x # g /\ y # g
      OBVIOUS
    <3>2. <<x, y>> \in kept <=> x \in rest /\ y \in rest /\ Order(x) < Order(y)
      BY <3>1, BeforePair
    <3> HIDE DEF upTo, kept, rest
    <3> QED
      BY <3>2
  <2>2. <<x, y>> \in Before' <=>
          x \in rest \union {g} /\ y \in rest \union {g} /\ entries'[x].order < entries'[y].order
    BY <1>3, BeforePairNext
  <2>3. g \notin rest
    OBVIOUS
  <2> HIDE DEF upTo, rest, g, line
  <2>4. CASE x \in rest /\ y \in rest
    BY <1>3, <2>1, <2>2, <2>3, <2>4
  <2>5. CASE x \in rest /\ y = g
    BY <1>3, <1>4, <1>5, <2>1, <2>2, <2>3, <2>5
  <2>6. CASE x = g /\ y \in rest
    BY <1>3, <1>4, <1>5, <1>6, <2>1, <2>2, <2>3, <2>6
  <2>7. CASE x = g /\ y = g
    BY <1>3, <1>6, <2>1, <2>2, <2>3, <2>7
  <2>8. CASE x \notin rest \union {g} \/ y \notin rest \union {g}
    BY <1>6, <2>1, <2>2, <2>8
  <2> QED
    BY <2>4, <2>5, <2>6, <2>7, <2>8
<1>8. Before' = line
  <2>1. line \subseteq (Queued \union {g}) \X (Queued \union {g})
    <3>1. upTo \subseteq Queued /\ rest \subseteq Queued
      OBVIOUS
    <3> HIDE DEF upTo, rest, g
    <3> QED
      BY <3>1, LinePairs
  <2>2. Before' \subseteq Queued' \X Queued'
    BY LinePairs
  <2>3. /\ \A x, y : <<x, y>> \in line <=> <<x, y>> \in Before'
        /\ line \subseteq (Queued \union {g}) \X (Queued \union {g})
    BY <1>7, <2>1
  <2> HIDE DEF line, g
  <2> QED
    BY <2>2, <2>3, SamePairs
<1>9. /\ Abstract!UpTo(m.beforeId, g) = upTo /\ Abstract!Others(g) = rest
      /\ Abstract!Neighbours(m.beforeId, g, m.afterId)
  BY <1>1, UpToIs, AreNeighbours DEF SerialInv, Abstract!Others
<1> HIDE DEF upTo, rest
<1> QED
  BY <1>1, <1>3, <1>8, <1>9 DEF Abstract!Place

\* Every serial step is a step of QueueOrder or a stutter.
LEMMA SerialMaps ==
  ASSUME SerialInv, TypeOK', [SerialNext]_vars
  PROVE  [Abstract!Next]_<<Queued, Before>>
<1>1. ASSUME entries' = entries PROVE UNCHANGED <<Queued, Before>>
  BY <1>1 DEF Queued, Before, Order
<1>2. ASSUME NEW r \in Requests, SavePlan(r) PROVE UNCHANGED <<Queued, Before>>
  <2>1. Queued' = Queued
        /\ \A g, h \in Queued : Order(g) < Order(h) <=> entries'[g].order < entries'[h].order
    BY <1>2, SavedShape DEF Order
  <2> QED
    BY <2>1, LineKept
<1>3. ASSUME NEW r \in Requests, PlaceQueued(r) \/ PlaceNew(r) PROVE Abstract!Next
  <2>1. dto[r] \in Dto
    BY <1>3, PlacedShape, NewOrderFits
  <2>2. /\ dto[r].gameId \in Games
        /\ dto[r].beforeId \in Games \union {NULL} /\ dto[r].afterId \in Games \union {NULL}
    BY <2>1 DEF Dto
  <2> QED
    BY <1>3, <2>2, PlacesGame DEF Abstract!Next
<1>4. ASSUME NEW g \in Games, RemoveFromQueue(g) \/ DeleteGame(g) PROVE Abstract!Next
  <2>1. entries' = Without(entries, g)
    BY <1>4 DEF RemoveFromQueue, DeleteGame
  <2> QED
    BY <2>1, RemovesGame DEF Abstract!Next, SerialInv
<1>5. ASSUME NEW r \in Requests, FreshMove(r) PROVE entries' = entries
  BY <1>5 DEF FreshMove, MoveGameInQueue
<1>6. ASSUME NEW r \in Requests, Proceed(r) \/ Abort(r), ~SavePlan(r), ~PlaceQueued(r), ~PlaceNew(r)
      PROVE  entries' = entries
  BY <1>6 DEF Proceed, Abort, RebalanceRead, SavePlanRefused, RefindNeighbors, PlaceRefused
<1>7. CASE UNCHANGED vars
  BY <1>1, <1>7 DEF vars
<1> QED
  BY <1>1, <1>2, <1>3, <1>4, <1>5, <1>6, <1>7 DEF SerialNext

(***************************************************************************)
(* For any library, gap and column width, one up-to-date request at a time *)
(* does to the rows what QueueOrder does to the line: midpoints, rounding, *)
(* rebalances and handlers that stop half-way are invisible in it          *)
(* (game-queue.service.ts:32-59).                                          *)
(***************************************************************************)
THEOREM QueueImplements == SerialSpec => ImplementsQueueOrder
<1>1. Init => Abstract!Init
  BY DEF Init, Abstract!Init, NoPlan, Queued, Before
<1>2. SerialInv /\ [SerialNext]_vars => [Abstract!Next]_<<Queued, Before>>
  BY SerialMaps, SerialIsNext, TypeStep DEF SerialInv
<1> QED
  BY <1>1, <1>2, SerialCorrect, PTL DEF SerialSpec, ImplementsQueueOrder, Abstract!Spec
-----------------------------------------------------------------------------
(* Overlapping moves of games that nobody else moves or names.             *)

\* A rebalance saves its plan while no other move is under way.
SavesAlone ==
  \A r \in Requests : SavePlan(r) => \A q \in Requests \ {r} : pc[q] = "idle"

RebalancesAlone == [][SavesAlone]_vars

\* No one drags a game that another move drags or names.
OwnGames ==
  \A r, q \in Requests :
    r # q /\ pc[r] # "idle" /\ pc[q] # "idle" => dto[q].gameId \notin Named(dto[r])

\* Room for a game between b and a, or before a, in a table.
Spaced(table, b, a) ==
  a \in DOMAIN table =>
    /\ table[a].order >= 2
    /\ b \in DOMAIN table => table[b].order + 2 <= table[a].order

\* The neighbours a request has named are in that sequence, as far as they are
\* queued, and so are they in what it has read or computed.
Holds(r) ==
  LET m == dto[r]
      b == m.beforeId
      a == m.afterId
      g == m.gameId
  IN pc[r] # "idle" =>
       /\ m \in Dto /\ g # b /\ g # a /\ (a # NULL => a # b)
       /\ b \in Queued /\ a \in Queued => Order(b) < Order(a)
       /\ pc[r] = "save" => Spaced(plan[r], b, a) /\ {a, b} \cap Queued \subseteq DOMAIN plan[r]
       /\ pc[r] = "refind" => Spaced(entries, b, a)
       /\ pc[r] = "place" =>
            /\ b \in Queued => found[r].left = Order(b)
            /\ a \in Queued => found[r].right = Order(a)
            /\ g \in Queued => found[r].center = entries[g].id
            /\ found[r].center # NULL => found[r].center[1] = g
            /\ IsThereSpace(found[r].left, found[r].right)

DisjointInv == TypeOK /\ PositiveInv /\ OwnKeys /\ OwnGames /\ \A r \in Requests : Holds(r)

\* A disjoint step is a step of GameQueue.
LEMMA DisjointIsNext ==
  ASSUME [DisjointNext]_vars
  PROVE  [Next]_vars
BY DEF DisjointNext, Next, DisjointMove

\* Only calls that were under way are, with the body they had.
LEMMA OwnGamesKept ==
  ASSUME OwnGames,
         \A q \in Requests : pc'[q] # "idle" => pc[q] # "idle" /\ dto'[q] = dto[q]
  PROVE  OwnGames'
BY DEF OwnGames, Named

\* A request holds on to its neighbours while their rows stay, or go.
LEMMA HoldsKept ==
  ASSUME TypeOK, TypeOK', NEW r \in Requests, Holds(r),
         pc'[r] = pc[r], dto'[r] = dto[r], found'[r] = found[r], plan'[r] = plan[r],
         \A x \in Named(dto[r]) : x \in Queued' => x \in Queued /\ entries'[x] = entries[x]
  PROVE  Holds(r)'
<1> SUFFICES ASSUME pc[r] # "idle" PROVE Holds(r)'
  BY DEF Holds
<1> DEFINE m == dto[r]
           b == m.beforeId
           a == m.afterId
           g == m.gameId
<1>1. NULL \notin Queued'
  BY NullAssumption DEF TypeOK, IsTable, Queued
<1>2. /\ b \in Queued' => b \in Queued /\ entries'[b] = entries[b]
      /\ a \in Queued' => a \in Queued /\ entries'[a] = entries[a]
      /\ g \in Queued' => g \in Queued /\ entries'[g] = entries[g]
  BY <1>1 DEF Named
<1>3. /\ m \in Dto /\ g # b /\ g # a /\ (a # NULL => a # b)
      /\ b \in Queued /\ a \in Queued => Order(b) < Order(a)
      /\ pc[r] = "save" => Spaced(plan[r], b, a) /\ {a, b} \cap Queued \subseteq DOMAIN plan[r]
      /\ pc[r] = "refind" => Spaced(entries, b, a)
      /\ pc[r] = "place" =>
           /\ b \in Queued => found[r].left = Order(b)
           /\ a \in Queued => found[r].right = Order(a)
           /\ g \in Queued => found[r].center = entries[g].id
           /\ found[r].center # NULL => found[r].center[1] = g
           /\ IsThereSpace(found[r].left, found[r].right)
  BY DEF Holds
<1>4. /\ b \in Queued' /\ a \in Queued' => entries'[b].order < entries'[a].order
      /\ {a, b} \cap Queued' \subseteq {a, b} \cap Queued
  BY <1>2, <1>3 DEF Order
<1>5. pc[r] = "refind" => Spaced(entries', b, a)
  BY <1>2, <1>3 DEF Spaced, Queued
<1>6. pc[r] = "place" =>
        /\ b \in Queued' => found[r].left = entries'[b].order
        /\ a \in Queued' => found[r].right = entries'[a].order
        /\ g \in Queued' => found[r].center = entries'[g].id
  BY <1>2, <1>3 DEF Order
<1> HIDE DEF m
<1>7. /\ pc'[r] = "save" => Spaced(plan'[r], b, a) /\ {a, b} \cap Queued' \subseteq DOMAIN plan'[r]
      /\ pc'[r] = "refind" => Spaced(entries', b, a)
      /\ pc'[r] = "place" =>
           /\ b \in Queued' => found'[r].left = entries'[b].order
           /\ a \in Queued' => found'[r].right = entries'[a].order
           /\ g \in Queued' => found'[r].center = entries'[g].id
           /\ found'[r].center # NULL => found'[r].center[1] = g
           /\ IsThereSpace(found'[r].left, found'[r].right)
  BY <1>3, <1>4, <1>5, <1>6
<1> QED
  BY <1>3, <1>4, <1>7 DEF Holds, Order, m

\* Two distinct requests under way, one of which does not touch the other's games.
LEMMA OthersHold ==
  ASSUME DisjointInv, TypeOK', NEW r \in Requests, NEW q \in Requests \ {r},
         pc'[q] = pc[q], dto'[q] = dto[q], found'[q] = found[q], plan'[q] = plan[q],
         pc[r] # "idle",
         \A x \in Queued' \ {dto[r].gameId} : x \in Queued /\ entries'[x] = entries[x]
  PROVE  Holds(q)'
<1>1. CASE pc[q] = "idle"
  BY <1>1 DEF Holds
<1>2. CASE pc[q] # "idle"
  <2>1. dto[r].gameId \notin Named(dto[q])
    BY <1>2 DEF DisjointInv, OwnGames
  <2> QED
    BY <2>1, HoldsKept DEF DisjointInv
<1> QED
  BY <1>1, <1>2

\* The rows stay, and one request goes on or ends.
LEMMA RowsStay ==
  ASSUME DisjointInv, TypeOK', NEW r \in Requests, pc[r] # "idle", entries' = entries,
         dto'[r] = dto[r] \/ pc'[r] = "idle",
         \A q \in Requests \ {r} :
           pc'[q] = pc[q] /\ dto'[q] = dto[q] /\ found'[q] = found[q] /\ plan'[q] = plan[q],
         PositiveInv', Holds(r)'
  PROVE  DisjointInv'
<1>1. Queued' = Queued
  BY DEF Queued
<1>2. OwnKeys'
  BY <1>1 DEF DisjointInv, OwnKeys
<1>3. OwnGames'
  BY OwnGamesKept DEF DisjointInv
<1>4. \A q \in Requests : Holds(q)'
  BY <1>1, OthersHold
<1> QED
  BY <1>2, <1>3, <1>4 DEF DisjointInv

\* A request ends and the rows stay.
LEMMA EndsStay ==
  ASSUME DisjointInv, TypeOK', PositiveInv', NEW r \in Requests, Finish(r), pc[r] # "idle",
         entries' = entries
  PROVE  DisjointInv'
<1>1. /\ pc'[r] = "idle"
      /\ \A q \in Requests \ {r} :
           pc'[q] = pc[q] /\ dto'[q] = dto[q] /\ found'[q] = found[q] /\ plan'[q] = plan[q]
  BY DEF Finish, Goto, DisjointInv, TypeOK
<1>2. Holds(r)'
  BY <1>1 DEF Holds
<1> QED
  BY <1>1, <1>2, RowsStay

-----------------------------------------------------------------------------
(* The steps of overlapping moves.                                         *)

\* A new move sees its neighbours.
LEMMA DisjointMoveStep ==
  ASSUME DisjointInv, TypeOK', PositiveInv', NEW r \in Requests, DisjointMove(r)
  PROVE  DisjointInv'
<1>1. PICK m \in Dto :
        /\ UpToDate(m) /\ MoveGameInQueue(r, m)
        /\ \A q \in Requests : pc[q] # "idle" =>
             m.gameId \notin Named(dto[q]) /\ dto[q].gameId \notin Named(m)
  BY DEF DisjointMove
<1> DEFINE f == FindNeighbors(m)
           b == m.beforeId
           a == m.afterId
           g == m.gameId
<1>2. /\ entries' = entries /\ dto'[r] = m /\ found'[r] = f /\ pc[r] = "idle"
      /\ pc'[r] = IF IsThereSpace(f.left, f.right) THEN "place" ELSE "balance"
      /\ \A q \in Requests \ {r} :
           pc'[q] = pc[q] /\ dto'[q] = dto[q] /\ found'[q] = found[q] /\ plan'[q] = plan[q]
  BY <1>1 DEF MoveGameInQueue, Goto, DisjointInv, TypeOK
<1>3. /\ f.left = IF b = NULL THEN NULL ELSE Order(b)
      /\ f.right = IF a = NULL THEN NULL ELSE Order(a)
      /\ f.center = IF g \in Queued THEN entries[g].id ELSE NULL
      /\ b # NULL => b \in Queued /\ b # g
      /\ a # NULL => a \in Queued /\ a # g
  BY <1>1, UpToDateFinds DEF DisjointInv
<1>4. g # NULL /\ NULL \notin Queued /\ Queued' = Queued
  BY <1>2, NullAssumption DEF Dto, DisjointInv, TypeOK, IsTable, Queued
<1>5. /\ b \in Queued /\ a \in Queued => Order(b) < Order(a)
      /\ a # NULL => a # b
  <2>1. b \in Queued /\ a \in Queued => Order(b) < Order(a)
    BY <1>1, <1>4 DEF UpToDate
  <2>2. ASSUME a # NULL, a = b PROVE FALSE
    <3>1. a \in Queued /\ Order(a) < Order(a)
      BY <1>3, <2>1, <2>2
    <3>2. Order(a) \in Nat
      BY <3>1, RowTyped DEF DisjointInv
    <3> QED
      BY <3>1, <3>2
  <2> QED
    BY <2>1, <2>2
<1>6. g \in Queued => entries[g].id[1] = g
  BY DEF DisjointInv, OwnKeys
<1>7. Holds(r)'
  <2>1. /\ b \in Queued => f.left = Order(b)
        /\ a \in Queued => f.right = Order(a)
        /\ g \in Queued => f.center = entries[g].id
        /\ f.center # NULL => f.center[1] = g
        /\ g # b /\ g # a
    BY <1>3, <1>4, <1>6
  <2>2. pc'[r] \in {"place", "balance"}
        /\ pc'[r] = "place" => IsThereSpace(f.left, f.right)
    BY <1>2
  <2>3. Order(b)' = Order(b) /\ Order(a)' = Order(a)
    BY <1>2 DEF Order
  <2> HIDE DEF f
  <2> QED
    BY <1>1, <1>2, <1>4, <1>5, <2>1, <2>2, <2>3 DEF Holds
<1>8. \A q \in Requests \ {r} : Holds(q)'
  BY <1>2, <1>4, HoldsKept DEF DisjointInv
<1>9. OwnGames'
  <2> SUFFICES ASSUME NEW p \in Requests, NEW q \in Requests,
                      p # q, pc'[p] # "idle", pc'[q] # "idle"
               PROVE  dto'[q].gameId \notin Named(dto'[p])
    BY DEF OwnGames, Named
  <2>1. CASE p = r
    BY <1>1, <1>2, <2>1
  <2>2. CASE q = r
    BY <1>1, <1>2, <2>2
  <2>3. CASE p # r /\ q # r
    BY <1>2, <2>3 DEF DisjointInv, OwnGames
  <2> QED
    BY <2>1, <2>2, <2>3
<1>10. OwnKeys'
  BY <1>2, <1>4 DEF DisjointInv, OwnKeys
<1> QED
  BY <1>7, <1>8, <1>9, <1>10 DEF DisjointInv

\* The read of a rebalance numbers the neighbours in their sequence.
LEMMA DisjointReadStep ==
  ASSUME DisjointInv, TypeOK', PositiveInv', NEW r \in Requests, RebalanceRead(r)
  PROVE  DisjointInv'
<1> DEFINE m == dto[r]
           b == m.beforeId
           a == m.afterId
<1>1. PICK pos \in GamesInQueue : plan' = [plan EXCEPT ![r] = Numbered(pos)]
  BY DEF RebalanceRead, Numbered
<1>2. /\ pc[r] = "balance" /\ pc'[r] = "save" /\ dto' = dto /\ entries' = entries
      /\ plan'[r] = Numbered(pos)
      /\ \A q \in Requests \ {r} :
           pc'[q] = pc[q] /\ dto'[q] = dto[q] /\ found'[q] = found[q] /\ plan'[q] = plan[q]
  BY <1>1 DEF RebalanceRead, Goto, DisjointInv, TypeOK
<1>3. DOMAIN Numbered(pos) = Queued
  BY DEF Numbered
<1>4. Spaced(Numbered(pos), b, a)
  <2> SUFFICES ASSUME a \in Queued
               PROVE  /\ Numbered(pos)[a].order >= 2
                      /\ b \in Queued => Numbered(pos)[b].order + 2 <= Numbered(pos)[a].order
    BY <1>3 DEF Spaced
  <2>1. /\ pos \in [Queued -> 1 .. Cardinality(Queued)]
        /\ \A g, h \in Queued : Order(g) < Order(h) => pos[g] < pos[h]
    BY DEF GamesInQueue, SortedPositions, Queued, Order
  <2>2. Cardinality(Queued) \in Nat
    BY QueuedFinite DEF DisjointInv
  <2>3. \A g \in Queued : pos[g] \in Nat /\ pos[g] > 0
    BY <2>1, <2>2
  <2>4. b \in Queued => pos[b] < pos[a]
    BY <1>2, <2>1 DEF DisjointInv, Holds
  <2>5. b \in Queued => pos[b] * ORDER_GAP + 2 <= pos[a] * ORDER_GAP
    BY <2>3, <2>4, GapApart
  <2>6. pos[a] * ORDER_GAP >= 2
    <3>1. 0 * ORDER_GAP + 2 <= pos[a] * ORDER_GAP
      BY <2>3, GapApart
    <3>2. 0 * ORDER_GAP = 0
      BY GapAssumption
    <3>3. pos[a] * ORDER_GAP \in Nat
      BY <2>3, GapAssumption
    <3> QED
      BY <3>1, <3>2, <3>3
  <2> QED
    BY <2>5, <2>6, NumberedRow
<1>5. Holds(r)'
  <2>1. Queued' = Queued /\ dto'[r] = m
    BY <1>2 DEF Queued
  <2>2. /\ m \in Dto /\ m.gameId # b /\ m.gameId # a /\ (a # NULL => a # b)
        /\ b \in Queued /\ a \in Queued => entries[b].order < entries[a].order
    BY <1>2 DEF DisjointInv, Holds, Order
  <2>3. Spaced(plan'[r], b, a) /\ {a, b} \cap Queued' \subseteq DOMAIN plan'[r]
    BY <1>2, <1>3, <1>4, <2>1
  <2> HIDE DEF m
  <2> QED
    BY <1>2, <2>1, <2>2, <2>3 DEF Holds, Order
<1> QED
  BY <1>2, <1>5, RowsStay

\* The save of a rebalance that nobody else is under way for.
LEMMA DisjointSaveStep ==
  ASSUME DisjointInv, TypeOK', PositiveInv', SavesAlone, NEW r \in Requests, SavePlan(r)
  PROVE  DisjointInv'
<1> DEFINE m == dto[r]
           b == m.beforeId
           a == m.afterId
<1>1. /\ pc[r] = "save" /\ pc'[r] = "refind" /\ dto' = dto /\ PlanApplies(r)
      /\ \A q \in Requests \ {r} : pc'[q] = "idle"
  BY DEF SavePlan, Goto, SavesAlone, DisjointInv, TypeOK
<1>2. /\ Queued' = Queued
      /\ \A g \in Queued : entries'[g] = IF g \in DOMAIN plan[r] THEN plan[r][g] ELSE entries[g]
  BY DEF SavePlan, Queued
<1>3. \A g \in Queued : entries'[g].id = entries[g].id
  BY <1>1, <1>2 DEF PlanApplies
<1>4. /\ m \in Dto /\ m.gameId # b /\ m.gameId # a /\ (a # NULL => a # b)
      /\ Spaced(plan[r], b, a) /\ {a, b} \cap Queued \subseteq DOMAIN plan[r]
  BY <1>1 DEF DisjointInv, Holds
<1>5. /\ a \in Queued => entries'[a] = plan[r][a] /\ a \in DOMAIN plan[r]
      /\ b \in Queued => entries'[b] = plan[r][b] /\ b \in DOMAIN plan[r]
  BY <1>2, <1>4
<1>6. Spaced(entries', b, a)
  BY <1>2, <1>4, <1>5 DEF Spaced, Queued
<1>7. b \in Queued' /\ a \in Queued' => entries'[b].order < entries'[a].order
  <2> SUFFICES ASSUME b \in Queued', a \in Queued' PROVE entries'[b].order < entries'[a].order
    OBVIOUS
  <2>1. entries'[b].order + 2 <= entries'[a].order
    BY <1>6 DEF Spaced, Queued
  <2>2. entries'[b].order \in Nat /\ entries'[a].order \in Nat
    <3>1. entries'[b] \in Row /\ entries'[a] \in Row
      BY DEF TypeOK, IsTable, Queued
    <3> QED
      BY <3>1 DEF Row
  <2> QED
    BY <2>1, <2>2
<1>8. Holds(r)'
  <2>1. dto'[r] = m
    BY <1>1
  <2> HIDE DEF m
  <2> QED
    BY <1>1, <1>4, <1>6, <1>7, <2>1 DEF Holds, Order
<1>9. \A q \in Requests : Holds(q)'
  BY <1>1, <1>8 DEF Holds
<1>10. OwnKeys'
  BY <1>2, <1>3 DEF DisjointInv, OwnKeys
<1>11. OwnGames'
  BY <1>1, OwnGamesKept DEF DisjointInv
<1> QED
  BY <1>9, <1>10, <1>11 DEF DisjointInv

\* After a rebalance the neighbours that are left have room.
LEMMA DisjointRefindStep ==
  ASSUME DisjointInv, TypeOK', PositiveInv', NEW r \in Requests, RefindNeighbors(r)
  PROVE  DisjointInv'
<1> DEFINE m == dto[r]
           f == FindNeighbors(m)
           b == m.beforeId
           a == m.afterId
           g == m.gameId
<1>1. /\ pc[r] = "refind" /\ pc'[r] = "place" /\ dto' = dto /\ entries' = entries
      /\ found'[r] = f
      /\ \A q \in Requests \ {r} :
           pc'[q] = pc[q] /\ dto'[q] = dto[q] /\ found'[q] = found[q] /\ plan'[q] = plan[q]
  BY DEF RefindNeighbors, Goto, DisjointInv, TypeOK
<1>2. /\ m \in Dto /\ g # b /\ g # a /\ (a # NULL => a # b)
      /\ b \in Queued /\ a \in Queued => Order(b) < Order(a)
      /\ Spaced(entries, b, a)
  BY <1>1 DEF DisjointInv, Holds
<1>3. NULL \notin Queued
  BY RowTyped DEF DisjointInv
<1>4. /\ f.left = IF b \in Queued THEN Order(b) ELSE NULL
      /\ f.right = IF a \in Queued THEN Order(a) ELSE NULL
      /\ f.center = IF g \in Queued THEN entries[g].id ELSE NULL
  BY <1>2, <1>3 DEF FindNeighbors, Order
<1>5. /\ b \in Queued => Order(b) \in Nat /\ Order(b) # NULL
      /\ a \in Queued => Order(a) \in Nat /\ Order(a) # NULL
  BY RowTyped DEF DisjointInv
<1>6. /\ a \in Queued => Order(a) >= 2
      /\ a \in Queued /\ b \in Queued => Order(b) + 2 <= Order(a)
  BY <1>2 DEF Spaced, Order, Queued
<1> HIDE DEF f
<1>7. IsThereSpace(f.left, f.right)
  <2>1. CASE a \notin Queued
    BY <1>4, <2>1 DEF IsThereSpace
  <2>2. CASE a \in Queued /\ b \notin Queued
    BY <1>4, <1>5, <1>6, <2>2 DEF IsThereSpace
  <2>3. CASE a \in Queued /\ b \in Queued
    BY <1>4, <1>5, <1>6, <2>3 DEF IsThereSpace
  <2> QED
    BY <2>1, <2>2, <2>3
<1>8. f.center # NULL => f.center[1] = g
  BY <1>4 DEF DisjointInv, OwnKeys
<1>9. Holds(r)'
  <2>1. dto'[r] = m /\ Queued' = Queued
    BY <1>1 DEF Queued
  <2>2. /\ b \in Queued => f.left = entries[b].order
        /\ a \in Queued => f.right = entries[a].order
        /\ g \in Queued => f.center = entries[g].id
        /\ b \in Queued /\ a \in Queued => entries[b].order < entries[a].order
    BY <1>2, <1>4 DEF Order
  <2> HIDE DEF m
  <2> QED
    BY <1>1, <1>2, <1>7, <1>8, <2>1, <2>2 DEF Holds, Order
<1> QED
  BY <1>1, <1>9, RowsStay

\* A write touches the row of the game that was dragged, and no other.
LEMMA DisjointPlaced ==
  ASSUME DisjointInv, TypeOK', NEW r \in Requests, PlaceQueued(r) \/ PlaceNew(r)
  PROVE  LET g == dto[r].gameId IN
         /\ pc[r] = "place" /\ Finish(r)
         /\ Queued \subseteq Queued' /\ Queued' \subseteq Queued \union {g}
         /\ \A h \in Queued \ {g} : entries'[h] = entries[h]
         /\ g \in Queued' => entries'[g].order = NewOrder(r) /\ entries'[g].id[1] = g
<1> DEFINE g == dto[r].gameId
           n == NewOrder(r)
<1>1. pc[r] = "place" /\ Finish(r)
  BY DEF PlaceQueued, PlaceNew
<1>2. /\ g \in Queued => found[r].center = entries[g].id
      /\ found[r].center # NULL => found[r].center[1] = g
  BY <1>1 DEF DisjointInv, Holds
<1>3. CASE PlaceQueued(r)
  <2>1. \A h \in Queued : entries[h].id = found[r].center <=> h = g
    BY <1>2, <1>3 DEF PlaceQueued, DisjointInv, OwnKeys
  <2>2. entries' = [h \in Queued |->
          IF entries[h].id = found[r].center
            THEN [id |-> entries[h].id, order |-> n] ELSE entries[h]]
    BY <1>3 DEF PlaceQueued
  <2> HIDE DEF n
  <2>3. /\ Queued' = Queued /\ \A h \in Queued \ {g} : entries'[h] = entries[h]
        /\ g \in Queued => entries'[g] = [id |-> entries[g].id, order |-> n]
    BY <2>1, <2>2 DEF Queued
  <2>4. g \in Queued => entries'[g].id = entries[g].id /\ entries'[g].order = n
    BY <2>3
  <2>5. g \in Queued => entries[g].id[1] = g
    BY DEF DisjointInv, OwnKeys
  <2> QED
    BY <1>1, <2>3, <2>4, <2>5 DEF n
<1>4. CASE PlaceNew(r)
  <2>1. g \notin Queued
    BY <1>4 DEF PlaceNew, MayInsert
  <2>2. entries' = [h \in Queued \union {g} |->
          IF h \in Queued THEN entries[h] ELSE [id |-> FreshId(g), order |-> n]]
    BY <1>4 DEF PlaceNew
  <2>3. FreshId(g)[1] = g
    BY DEF FreshId
  <2> HIDE DEF n
  <2>4. Queued' = Queued \union {g} /\ entries'[g] = [id |-> FreshId(g), order |-> n]
        /\ \A h \in Queued \ {g} : entries'[h] = entries[h]
    BY <2>1, <2>2 DEF Queued
  <2>5. entries'[g].id = FreshId(g) /\ entries'[g].order = n
    BY <2>4
  <2> QED
    BY <1>1, <2>3, <2>4, <2>5 DEF n
<1> QED
  BY <1>3, <1>4

\* The write of a move.
LEMMA DisjointPlaceStep ==
  ASSUME DisjointInv, TypeOK', PositiveInv', NEW r \in Requests, PlaceQueued(r) \/ PlaceNew(r)
  PROVE  DisjointInv'
<1> DEFINE g == dto[r].gameId
<1>1. /\ pc[r] = "place" /\ Finish(r)
      /\ Queued \subseteq Queued' /\ Queued' \subseteq Queued \union {g}
      /\ \A h \in Queued \ {g} : entries'[h] = entries[h]
      /\ g \in Queued' => entries'[g].id[1] = g
  BY DisjointPlaced
<1>2. /\ pc'[r] = "idle"
      /\ \A q \in Requests \ {r} :
           pc'[q] = pc[q] /\ dto'[q] = dto[q] /\ found'[q] = found[q] /\ plan'[q] = plan[q]
  BY <1>1 DEF Finish, Goto, DisjointInv, TypeOK
<1>3. \A h \in Queued' \ {g} : h \in Queued /\ entries'[h] = entries[h]
  BY <1>1
<1>4. \A q \in Requests \ {r} : Holds(q)'
  BY <1>1, <1>2, <1>3, OthersHold
<1>5. Holds(r)'
  BY <1>2 DEF Holds
<1>6. OwnKeys'
  BY <1>1, <1>3 DEF DisjointInv, OwnKeys
<1>7. OwnGames'
  BY <1>1, <1>2, OwnGamesKept DEF DisjointInv
<1> QED
  BY <1>4, <1>5, <1>6, <1>7 DEF DisjointInv

\* A game leaves the queue under moves that may name it.
LEMMA DisjointRemoveStep ==
  ASSUME DisjointInv, TypeOK', PositiveInv',
         NEW g \in Games, RemoveFromQueue(g) \/ DeleteGame(g)
  PROVE  DisjointInv'
<1>1. /\ pc' = pc /\ dto' = dto /\ found' = found /\ plan' = plan
      /\ entries' = Without(entries, g)
  BY DEF RemoveFromQueue, DeleteGame
<1>2. \A h \in Queued' : h \in Queued /\ entries'[h] = entries[h]
  BY <1>1, WithoutShape DEF DisjointInv
<1>3. OwnKeys'
  BY <1>2 DEF DisjointInv, OwnKeys
<1>4. OwnGames'
  BY <1>1, OwnGamesKept DEF DisjointInv
<1>5. \A q \in Requests : Holds(q)'
  BY <1>1, <1>2, HoldsKept DEF DisjointInv
<1> QED
  BY <1>3, <1>4, <1>5 DEF DisjointInv

\* Every step that saves no rebalance over another move.
LEMMA DisjointStep ==
  ASSUME DisjointInv, [DisjointNext]_vars, [SavesAlone]_vars
  PROVE  DisjointInv'
<1>1. TypeOK' /\ PositiveInv'
  BY DisjointIsNext, TypeStep, PositiveStep DEF DisjointInv
<1>2. ASSUME NEW r \in Requests, SavePlan(r) PROVE DisjointInv'
  <2>1. SavesAlone
    BY <1>2 DEF SavePlan, Goto, DisjointInv, TypeOK, vars
  <2> QED
    BY <1>1, <1>2, <2>1, DisjointSaveStep
<1>3. ASSUME NEW r \in Requests, SavePlanRefused(r) \/ PlaceRefused(r) \/ Abort(r)
      PROVE  DisjointInv'
  BY <1>1, <1>3, EndsStay DEF SavePlanRefused, PlaceRefused, Abort
<1>4. ASSUME NEW r \in Requests, Proceed(r) PROVE DisjointInv'
  BY <1>1, <1>2, <1>3, <1>4, DisjointReadStep, DisjointRefindStep, DisjointPlaceStep
     DEF Proceed
<1>5. CASE UNCHANGED vars
  <2>1. /\ pc' = pc /\ dto' = dto /\ found' = found /\ plan' = plan /\ entries' = entries
        /\ Queued' = Queued
    BY <1>5 DEF vars, Queued
  <2>2. OwnKeys' /\ OwnGames'
    BY <2>1, OwnGamesKept DEF DisjointInv, OwnKeys
  <2>3. \A q \in Requests : Holds(q)'
    BY <1>1, <2>1, HoldsKept DEF DisjointInv
  <2> QED
    BY <1>1, <2>2, <2>3 DEF DisjointInv
<1> QED
  BY <1>1, <1>3, <1>4, <1>5, DisjointMoveStep, DisjointRemoveStep DEF DisjointNext

\* An empty queue holds everything.
LEMMA DisjointInit == Init => DisjointInv
<1> SUFFICES ASSUME Init PROVE DisjointInv
  OBVIOUS
<1>1. Queued = {} /\ \A r \in Requests : pc[r] = "idle"
  BY DEF Init, NoPlan, Queued
<1>2. PositiveInv
  BY <1>1 DEF Init, PositiveInv, OrdersPositive, PositiveFound, PositivePlans, NoPlan, NoFound
<1> QED
  BY <1>1, <1>2, TypeInit DEF DisjointInv, OwnKeys, OwnGames, Holds

(***************************************************************************)
(* Moves overlap, each up to date when it was read, and no one drags a     *)
(* game another drags or names: then each lands between the neighbours it  *)
(* named, unless a rebalance saves its plan while another move is under    *)
(* way.  That is how a game goes astray in the run queue_disjoint, and     *)
(* there is no other way (game-queue.service.ts:32-59).                    *)
(***************************************************************************)
THEOREM DisjointCorrect == DisjointSpec /\ RebalancesAlone => LandsBetween
<1> DEFINE Lands(r) ==
      LET m == dto[r] IN
      (PlaceQueued(r) \/ PlaceNew(r)) /\ m.gameId \in Queued' =>
        /\ m.beforeId \in Queued' =>
             entries'[m.beforeId].order < entries'[m.gameId].order
        /\ m.afterId \in Queued' =>
             entries'[m.gameId].order < entries'[m.afterId].order
<1>1. ASSUME DisjointInv, [DisjointNext]_vars, NEW r \in Requests PROVE Lands(r)
  <2> DEFINE m == dto[r]
             b == m.beforeId
             a == m.afterId
             g == m.gameId
             n == NewOrder(r)
  <2> SUFFICES ASSUME PlaceQueued(r) \/ PlaceNew(r), g \in Queued'
               PROVE  /\ b \in Queued' => entries'[b].order < entries'[g].order
                      /\ a \in Queued' => entries'[g].order < entries'[a].order
    OBVIOUS
  <2>1. TypeOK'
    BY <1>1, DisjointIsNext, TypeStep DEF DisjointInv
  <2>2. /\ pc[r] = "place" /\ Queued' \subseteq Queued \union {g}
        /\ \A h \in Queued \ {g} : entries'[h] = entries[h]
        /\ entries'[g].order = n
    BY <1>1, <2>1, DisjointPlaced
  <2>3. /\ g # b /\ g # a
        /\ b \in Queued => found[r].left = Order(b)
        /\ a \in Queued => found[r].right = Order(a)
        /\ IsThereSpace(found[r].left, found[r].right)
    BY <1>1, <2>2 DEF DisjointInv, Holds
  <2>4. /\ found[r].left \in Orders /\ found[r].right \in Orders
        /\ found[r].left # NULL => found[r].left >= 1
        /\ found[r].right # NULL => found[r].right >= 1
    BY <1>1 DEF DisjointInv, TypeOK, Found, Orders, PositiveInv, PositiveFound
  <2>5. /\ found[r].left # NULL => found[r].left < n
        /\ found[r].right # NULL => n < found[r].right
    BY <2>3, <2>4, Midpoint DEF NewOrder
  <2>6. /\ b \in Queued => Order(b) # NULL
        /\ a \in Queued => Order(a) # NULL
    BY <1>1, RowTyped DEF DisjointInv
  <2> HIDE DEF n, m
  <2>7. /\ b \in Queued' => b \in Queued /\ entries'[b].order = Order(b)
        /\ a \in Queued' => a \in Queued /\ entries'[a].order = Order(a)
    BY <2>2, <2>3 DEF Order
  <2> QED
    BY <2>2, <2>3, <2>5, <2>6, <2>7
<1>2. DisjointInv /\ [DisjointNext]_vars => \A r \in Requests : Lands(r)
  BY <1>1
<1>3. DisjointInv /\ [DisjointNext]_vars /\ [SavesAlone]_vars => DisjointInv'
  BY DisjointStep
<1> QED
  BY <1>2, <1>3, DisjointInit, PTL DEF DisjointSpec, RebalancesAlone, LandsBetween
=============================================================================
