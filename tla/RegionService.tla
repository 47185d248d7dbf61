--------------------------- MODULE RegionService ----------------------------
(***************************************************************************)
(* What a pool promises to the callers of Run (class comment of            *)
(* core::runtime::ThreadPool, onnx_threads/parallel_for.h), with no worker,*)
(* no lock and no generation in sight: unrelated callers serialize, every  *)
(* block of a region is executed once, in any order, and the call returns  *)
(* only when all of them were.                                             *)
(***************************************************************************)
EXTENDS Integers

CONSTANTS
    Callers,    \* threads that call Run
    Capacity    \* participants of the pool, the calling thread included

VARIABLES
    phase,      \* of each caller: idle, inline, queued or running
    size,       \* num_blocks of each caller's current call
    runs        \* executions of each block of the running region

vars == <<phase, size, runs>>

Blocks == 0 .. (Capacity - 1)

Init ==
    /\ phase = [c \in Callers |-> "idle"]
    /\ size = [c \in Callers |-> 0]
    /\ runs = [b \in Blocks |-> 0]

\* An empty call returns, a call that is too large is refused, a call for one
\* participant runs inline, any other call asks for a region.
Call(c, n) ==
    /\ phase[c] = "idle"
    /\ size' = [size EXCEPT ![c] = n]
    /\ phase' = [phase EXCEPT ![c] =
                    CASE n = 0 -> "idle"
                      [] n = 1 \/ (n > 1 /\ Capacity = 1) -> "inline"
                      [] n > Capacity /\ Capacity > 1 -> "idle"
                      [] OTHER -> "queued"]
    /\ UNCHANGED runs

ReturnInline(c) ==
    /\ phase[c] = "inline"
    /\ phase' = [phase EXCEPT ![c] = "idle"]
    /\ UNCHANGED <<size, runs>>

\* One region at a time.
Begin(c) ==
    /\ phase[c] = "queued"
    /\ \A d \in Callers : phase[d] # "running"
    /\ phase' = [phase EXCEPT ![c] = "running"]
    /\ runs' = [b \in Blocks |-> 0]
    /\ UNCHANGED size

Execute(c, b) ==
    /\ phase[c] = "running"
    /\ b < size[c]
    /\ runs[b] = 0
    /\ runs' = [runs EXCEPT ![b] = 1]
    /\ UNCHANGED <<phase, size>>

Return(c) ==
    /\ phase[c] = "running"
    /\ \A b \in Blocks : b < size[c] => runs[b] = 1
    /\ phase' = [phase EXCEPT ![c] = "idle"]
    /\ UNCHANGED <<size, runs>>

Next ==
    \E c \in Callers :
        \/ \E n \in 0 .. (Capacity + 1) : Call(c, n)
        \/ ReturnInline(c)
        \/ Begin(c)
        \/ \E b \in Blocks : Execute(c, b)
        \/ Return(c)

Spec == Init /\ [][Next]_vars
=============================================================================
