-------------------------- MODULE MCExecutorRegistry -------------------------
(* Instances of ExecutorRegistry for TLC. *)
EXTENDS ExecutorRegistry, TLC

\* Sessions are interchangeable, and so are the names of executors.
Symmetric == Permutations(Sessions) \cup Permutations(ExecutorNames)
=============================================================================
