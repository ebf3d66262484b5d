----------------------------- MODULE MCRealtime -----------------------------
(* Realtime for TLC.  Only Friends compares users; here nothing does. *)
EXTENDS Realtime, TLC

Symmetry == Permutations(Users) \union Permutations(Sockets)
=============================================================================
