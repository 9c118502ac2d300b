----------------------------- MODULE MCComments -----------------------------
(* A small instance of Comments for TLC. *)
EXTENDS Comments, TLC

Symmetry == Permutations(Users) \cup Permutations(Writers) \cup Permutations(Tasks)
=============================================================================
