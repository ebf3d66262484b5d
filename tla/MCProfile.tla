----------------------------- MODULE MCProfile -----------------------------
(* Profile for TLC: two users, one of them without a password, and bodies  *)
(* that take an email that may be another's, or free one and name a        *)
(* picture elsewhere, a password and an id as well.                        *)
EXTENDS Profile, TLC

CONSTANTS ann, bob, name1, name2, mail1, mail2, mail3, pw1, pw2, url1

MCStart ==
  ann :> [name |-> name1, username |-> ann, email |-> mail1, avatarUrl |-> NULL,
          password |-> pw1]
  @@
  bob :> [name |-> name1, username |-> bob, email |-> mail2, avatarUrl |-> NULL,
          password |-> NULL]

MCDtos ==
  {[id |-> NULL, columns |-> "name" :> name2 @@ "email" :> mail1],
   [id |-> ann, columns |-> "email" :> mail3 @@ "avatarUrl" :> url1 @@ "password" :> pw2]}

Symmetry == Permutations(Calls) \union Permutations(Exts)
=============================================================================
