----------------------------- MODULE MCAccounts -----------------------------
(* A small instance of Accounts for TLC. *)
EXTENDS Accounts, TLC

\* Two spellings of one address, one that differs by an accent, and another
\* address.
Written == {"e@x", "E@x", "e'@x", "b@x"}
LowerCase == [e \in Written |-> IF e = "E@x" THEN "e@x" ELSE e]
Collated == [e \in Written |-> IF e = "b@x" THEN "B" ELSE "E"]

Symmetry == Permutations(Ids) \cup Permutations(Procs) \cup Permutations(Passwords)
=============================================================================
