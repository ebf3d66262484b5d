----------------------------- MODULE MCAccounts -----------------------------
(* Accounts for TLC: two addresses that differ by case, and one user name; *)
(* a body that changes the address.  Bodies with columns that UpdateUser-  *)
(* Dto does not declare are left to the proofs.                            *)
EXTENDS Accounts, TLC

CONSTANTS Bob, bob, nick

MCEmails == {Bob, bob}
MCTexts  == {Bob, bob, nick}
MCLower  == [x \in MCTexts |-> IF x = Bob THEN bob ELSE x]

MCBodies == {[columns |-> "email" :> bob, id |-> NULL]}

\* No definition singles one of these out.
Symmetry == Permutations(Ids) \union Permutations(Calls) \union Permutations(AuthCodes)
              \union Permutations(Codes) \union Permutations(GoogleIds)

\* Bound: two different mails are out, a code resent or one address each.
TwoMails == Cardinality(mails) <= 2

\* Bound: two handlers are under way at a time, a profile update among them.
AtMostTwo ==
  Cardinality({c \in Calls : call[c] # Idle} \union {p \in Patches : patch[p] # Still}) <= 2
=============================================================================
