--------------------------- MODULE MCQueueClients ---------------------------
(* QueueClients for TLC; the constants are in the cfgs.                    *)
EXTENDS QueueClients, TLC

\* Games and requests are interchangeable: no definition singles one out.
Symmetry == Permutations(Games) \union Permutations(Requests)
=============================================================================
