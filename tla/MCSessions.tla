----------------------------- MODULE MCSessions -----------------------------
(* Small instances of Sessions for TLC. *)
EXTENDS Sessions, TLC

Symmetry == Permutations(Browsers) \cup Permutations(Procs)
                \cup Permutations(Tokens)
=============================================================================
