---------------------------- MODULE MCGameQueue ----------------------------
(* GameQueue with two overlapping moves; the constants are in the cfg.     *)
EXTENDS GameQueue, TLC

\* Games and requests are interchangeable: no definition singles one out.
Symmetry == Permutations(Games) \union Permutations(Requests)
=============================================================================
