----------------------------- MODULE MCWorkerPool ----------------------------
(* An instance of WorkerPool for TLC: a pool without workers. *)
EXTENDS WorkerPool, TLC
=============================================================================
