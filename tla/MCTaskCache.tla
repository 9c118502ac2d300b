----------------------------- MODULE MCTaskCache ----------------------------
(* Small instances of TaskCache for TLC. *)
EXTENDS TaskCache, TLC

Symmetry == Permutations(Readers) \cup Permutations(Writers)
=============================================================================
