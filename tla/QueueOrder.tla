----------------------------- MODULE QueueOrder -----------------------------
(***************************************************************************)
(* What a play queue promises its owner, without rows, orders or gaps: a   *)
(* set of games in a line.  Placing a game puts it between the two         *)
(* neighbours it was dropped between and moves nothing else; removing one  *)
(* closes the line.                                                        *)
(***************************************************************************)
CONSTANTS Games, NULL

VARIABLES
  queued,  \* the games in the line
  before   \* pairs <<g, h>> such that g comes before h

Others(g) == queued \ {g}

\* Before or at x among the games other than g; nothing when x is NULL.
UpTo(x, g) == {h \in Others(g) : h = x \/ <<h, x>> \in before}

\* Leaving g out, b and a follow each other; NULL stands for either end.
Neighbours(b, g, a) ==
  /\ b \in Others(g) \union {NULL}
  /\ a \in Others(g) \union {NULL}
  /\ \A h \in Others(g) : h \notin UpTo(b, g) => a # NULL /\ (h = a \/ <<a, h>> \in before)
  /\ a # NULL => a \notin UpTo(b, g)

Place(b, g, a) ==
  /\ Neighbours(b, g, a)
  /\ queued' = queued \union {g}
  /\ before' = {p \in before : p[1] # g /\ p[2] # g}
                 \union (UpTo(b, g) \X {g})
                 \union ({g} \X (Others(g) \ UpTo(b, g)))

Remove(g) ==
  /\ queued' = queued \ {g}
  /\ before' = {p \in before : p[1] # g /\ p[2] # g}

Init == queued = {} /\ before = {}

Next == \E g \in Games :
  \/ Remove(g)
  \/ \E b, a \in Games \union {NULL} : Place(b, g, a)

Spec == Init /\ [][Next]_<<queued, before>>
=============================================================================
