---------------------------- MODULE MCCpuDispatch ----------------------------
(* Instances of CpuDispatch for TLC. *)
EXTENDS CpuDispatch, TLC

Symmetric == Permutations(Threads)
=============================================================================
