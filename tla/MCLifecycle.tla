----------------------------- MODULE MCLifecycle ----------------------------
(* A small instance of Lifecycle for TLC. *)
EXTENDS Lifecycle, TLC

CONSTANTS r1, r2

\* A rolling update: r2 runs an image with one migration more than r1.
RollingImages == r1 :> 1 @@ r2 :> 2
=============================================================================
