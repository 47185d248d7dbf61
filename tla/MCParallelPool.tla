--------------------------- MODULE MCParallelPool ---------------------------
(* Instances of ParallelPool for TLC. *)
EXTENDS ParallelPool, TLC

\* Callers are interchangeable: no action or invariant tells them apart.
CallerSymmetry == Permutations(Callers)
=============================================================================
