--------------------------- MODULE MCGameLibrary ---------------------------
(* GameLibrary for TLC: two users, two additions at a time of a title, of  *)
(* another or of none, also under the id of a game, and updates that take  *)
(* or change a title or give the game away.                                *)
EXTENDS GameLibrary, TLC

CONSTANTS t1, t2, u1, u2

MCCreations ==
  {[id |-> NULL, columns |-> f] : f \in {"gameTitleId" :> t1, Nothing}}
    \union {[id |-> g, columns |-> "gameTitleId" :> t1] : g \in Ids}
MCUpdates == {"gameTitleId" :> t1, "gameTitleId" :> t2, "gameTitleId" :> NULL, "user" :> u2}

Symmetry == Permutations(Ids) \union Permutations(Calls)
=============================================================================
