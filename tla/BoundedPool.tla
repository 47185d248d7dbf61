----------------------------- MODULE BoundedPool -----------------------------
(***************************************************************************)
(* Pools with bounded nested admission (onnx_threads/src/parallel_for.cc,  *)
(* ThreadPoolOptions::allow_nested_parallelism): RunErased's striping,     *)
(* RunBounded and BoundedWorkerLoop.                                       *)
(*                                                                         *)
(* A region lives on the stack of the thread that opened it and admits the *)
(* workers of its pool that are idle at that moment.  A block may call Run *)
(* again, on its own pool (a nested region that admits idle workers and    *)
(* takes no lock) or on another pool (inline).                             *)
(*                                                                         *)
(* Every access to the bounded_workers_ and to a region's counter from a   *)
(* second thread is inside a critical section of mu_, or is a single       *)
(* atomic load, so each critical section is one step and mu_ itself needs  *)
(* no variable.                                                            *)
(***************************************************************************)
EXTENDS Integers, FiniteSets

CONSTANTS
    Callers,     \* threads outside the pools
    Pools,       \* the pools, all with nested parallelism enabled
    NumWorkers,  \* the number of workers of each pool
    MaxBlocks,   \* bound on num_blocks
    MaxDepth,    \* bound on the nesting of regions, the root included
    MaxNested,   \* bound on the nested regions one root callback opens
    None         \* nullptr

ASSUME BoundsAssumption == /\ NumWorkers \in [Pools -> Nat]
                           /\ MaxBlocks \in Nat \ {0}
                           /\ MaxDepth \in Nat \ {0}
                           /\ MaxNested \in Nat

Workers == UNION {{p} \X (0 .. (NumWorkers[p] - 1)) : p \in Pools}
Threads == Callers \cup Workers
Blocks == 0 .. (MaxBlocks - 1)

\* A region is named by the thread whose stack holds it and its depth there.
Regions == Threads \X (1 .. MaxDepth)

\* The region objects.
RegionObjects == [pool : Pools, blocks : 1 .. MaxBlocks, participants : Nat, remaining : Int,
                  previous : Pools \cup {None}, was_in_pool : BOOLEAN]

\* Threads outside the pools are not workers, and nullptr is nothing else.
ASSUME DistinctAssumption == /\ IsFiniteSet(Pools)
                             /\ Callers \cap Workers = {}
                             /\ None \notin Pools \cup Threads \cup Regions
                             /\ None \notin RegionObjects

\* A worker's own regions are nested in the one it was admitted to.
DepthLimit(t) == IF t \in Workers THEN MaxDepth - 1 ELSE MaxDepth

VARIABLES
    worker,     \* bounded_workers_: region, block and pending of each worker
    region,     \* the region objects; None when the frame is gone
    depth,      \* number of regions on each thread's stack
    region_mu,  \* owner of each pool's region_mu_
    current,    \* CurrentBoundedPool(), thread local
    in_pool,    \* InPoolFlag(), thread local
    want,       \* pool and num_blocks of a call that waits for region_mu_
    pc,         \* control state of each thread
    nested,     \* nested regions opened since the thread last ran a root callback
    stop,       \* stop_ of each pool
    runs        \* history: executions of each block of each region

vars == <<worker, region, depth, region_mu, current, in_pool, want, pc, nested,
          stop, runs>>

IdleWorker == [region |-> None, block |-> 0, pending |-> FALSE]

Init ==
    /\ worker = [w \in Workers |-> IdleWorker]
    /\ region = [r \in Regions |-> None]
    /\ depth = [t \in Threads |-> 0]
    /\ region_mu = [p \in Pools |-> None]
    /\ current = [t \in Threads |-> IF t \in Workers THEN t[1] ELSE None]
    /\ in_pool = [t \in Threads |-> t \in Workers]
    /\ want = [t \in Threads |-> None]
    /\ pc = [t \in Threads |-> IF t \in Workers THEN "park" ELSE "idle"]
    /\ nested = [t \in Threads |-> 0]
    /\ stop = [p \in Pools |-> FALSE]
    /\ runs = [r \in Regions |-> [b \in Blocks |-> 0]]

Goto(t, label) == pc' = [pc EXCEPT ![t] = label]

Idle(p) == {w \in Workers : w[1] = p /\ worker[w].region = None}

\* Mutant of Admitted: a worker that is busy with another region is taken.
AdmittedBusy(p, n) ==
    {w \in Workers : w[1] = p /\ w[2] < n - 1}

\* Mutant of Admitted: the limit counts the workers, not the participants.
AdmittedWithoutCaller(p, n) ==
    {w \in Idle(p) : Cardinality({v \in Idle(p) : v[2] < w[2]}) < n}

\* The first idle workers of the pool by index, at most n - 1 of them.
Admitted(p, n) ==
    {w \in Idle(p) : Cardinality({v \in Idle(p) : v[2] < w[2]}) < n - 1}

\* notify_one of the admitted workers (a worker that spins is not asleep).
Woken(S) == [t \in Threads |->
                IF t \in S /\ pc[t] = "asleep" THEN "park" ELSE pc[t]]

\* The region a call opens, with the thread-local state the call has to restore.
NewRegion(t, p, n, admitted) ==
    [pool |-> p, blocks |-> n, participants |-> 1 + admitted, remaining |-> admitted,
     previous |-> current[t], was_in_pool |-> in_pool[t]]

\* RunBounded from the creation of the region to the callback: admit idle
\* workers, give them their blocks, wake them, set the thread-local state.
OpenRegion(t, p, n) ==
    LET r == <<t, depth[t] + 1>>
        team == Admitted(p, n)
        blockOf(w) == 1 + Cardinality({v \in team : v[2] < w[2]})
    IN  /\ worker' = [w \in Workers |-> IF w \in team
                        THEN [region |-> r, block |-> blockOf(w), pending |-> TRUE]
                        ELSE worker[w]]
        /\ region' = [region EXCEPT ![r] =
                        NewRegion(t, p, n, Cardinality(team))]
        /\ depth' = [depth EXCEPT ![t] = @ + 1]
        /\ current' = [current EXCEPT ![t] = p]
        /\ in_pool' = [in_pool EXCEPT ![t] = TRUE]
        /\ pc' = [Woken(team) EXCEPT ![t] = "body"]
        /\ runs' = [runs EXCEPT ![r] = [b \in Blocks |-> 0]]

(***************************************************************************)
(* Opening regions.                                                        *)
(***************************************************************************)

\* Mutant of RunBounded: a call on a foreign pool is not run inline.
RunBoundedForeign(t, p, n) ==
    /\ pc[t] \in {"idle", "body"}
    /\ ~stop[p]
    /\ depth[t] < DepthLimit(t)
    /\ nested[t] < MaxNested
    /\ IF current[t] # p
       THEN /\ want' = [want EXCEPT ![t] = [pool |-> p, blocks |-> n]]
            /\ Goto(t, "lock")
            /\ UNCHANGED <<worker, region, depth, current, in_pool, nested, runs>>
       ELSE /\ OpenRegion(t, p, n)
            /\ nested' = [nested EXCEPT ![t] = @ + 1]
            /\ UNCHANGED want
    /\ UNCHANGED <<region_mu, stop>>

\* Run, from a thread outside every pool or from a block: inline in a block of
\* another pool, a nested region in a block of this pool, else region_mu_ first.
RunBounded(t, p, n) ==
    /\ pc[t] \in {"idle", "body"}
    /\ ~stop[p]
    /\ depth[t] < DepthLimit(t)
    /\ nested[t] < MaxNested
    /\ IF in_pool[t] /\ current[t] # p
       THEN UNCHANGED <<worker, region, depth, current, in_pool, want, pc, nested,
                        runs>>
       ELSE IF current[t] # p
       THEN /\ want' = [want EXCEPT ![t] = [pool |-> p, blocks |-> n]]
            /\ Goto(t, "lock")
            /\ UNCHANGED <<worker, region, depth, current, in_pool, nested, runs>>
       ELSE /\ OpenRegion(t, p, n)
            /\ nested' = [nested EXCEPT ![t] = @ + 1]
            /\ UNCHANGED want
    /\ UNCHANGED <<region_mu, stop>>

LockRegion(t) ==
    /\ pc[t] = "lock"
    /\ region_mu[want[t].pool] = None
    /\ region_mu' = [region_mu EXCEPT ![want[t].pool] = t]
    /\ OpenRegion(t, want[t].pool, want[t].blocks)
    /\ want' = [want EXCEPT ![t] = None]
    /\ UNCHANGED <<nested, stop>>

(***************************************************************************)
(* Running blocks and the join.                                            *)
(***************************************************************************)

\* Mutant of Stripe: the stride of the loop is the admission limit, not the
\* number of admitted participants.
StripeByLimit(i, r) == {b \in Blocks : b < region[r].blocks
                                       /\ b % region[r].blocks = i}

\* The blocks the participant i of a region runs: RunErased's stride loop.
Stripe(i, r) == {b \in Blocks : b < region[r].blocks
                                /\ b % region[r].participants = i}

RunStripe(i, r) ==
    runs' = [runs EXCEPT ![r] =
                [b \in Blocks |-> runs[r][b] + IF b \in Stripe(i, r) THEN 1 ELSE 0]]

\* The callback of the innermost region a thread opened returns; the
\* thread-local state is restored.
EndOwnBody(t) ==
    LET r == <<t, depth[t]>>
    IN  /\ pc[t] = "body"
        /\ depth[t] > 0
        /\ RunStripe(0, r)
        /\ in_pool' = [in_pool EXCEPT ![t] = region[r].was_in_pool]
        /\ current' = [current EXCEPT ![t] = region[r].previous]
        /\ Goto(t, "spin")
        /\ UNCHANGED <<worker, region, depth, region_mu, want, nested, stop>>

\* SpinForCompletion, then cv_done_.wait: leave when remaining is zero, else
\* spin on, or block (the test and the block are in one critical section).
AwaitRegion(t) ==
    /\ pc[t] = "spin"
    /\ Goto(t, IF region[<<t, depth[t]>>].remaining = 0 THEN "leave" ELSE "blocked")
    /\ UNCHANGED <<worker, region, depth, region_mu, current, in_pool, want,
                   nested, stop, runs>>

\* RunBounded returns: the region's storage is gone; the call that locked
\* region_mu_ (it was not in this pool before) unlocks it.
Leave(t) ==
    LET r == <<t, depth[t]>>
    IN  /\ pc[t] = "leave"
        /\ region' = [region EXCEPT ![r] = None]
        /\ depth' = [depth EXCEPT ![t] = @ - 1]
        /\ region_mu' = IF region[r].previous # region[r].pool
                        THEN [region_mu EXCEPT ![region[r].pool] = None]
                        ELSE region_mu
        /\ Goto(t, IF t \in Callers /\ depth[t] = 1 THEN "idle" ELSE "body")
        /\ nested' = IF depth[t] = 1 /\ t \in Callers
                     THEN [nested EXCEPT ![t] = 0] ELSE nested
        /\ runs' = [runs EXCEPT ![r] = [b \in Blocks |-> 0]]
        /\ UNCHANGED <<worker, current, in_pool, want, stop>>

(***************************************************************************)
(* BoundedWorkerLoop.                                                      *)
(***************************************************************************)

\* Spin or park until stop_ or pending, then leave the loop or run the block.
Park(w) ==
    /\ pc[w] = "park"
    /\ Goto(w, IF stop[w[1]] THEN "exited"
               ELSE IF worker[w].pending THEN "body" ELSE "asleep")
    /\ UNCHANGED <<worker, region, depth, region_mu, current, in_pool, want,
                   nested, stop, runs>>

\* The callback of the region that admitted the worker returns.
EndBlock(w) ==
    /\ pc[w] = "body"
    /\ depth[w] = 0
    /\ RunStripe(worker[w].block, worker[w].region)
    /\ Goto(w, "complete")
    /\ UNCHANGED <<worker, region, depth, region_mu, current, in_pool, want, nested,
                   stop>>

\* The threads that wait on cv_done_ of pool p, for whatever region.
Waiting(p) ==
    {t \in Threads : pc[t] = "blocked" /\ region[<<t, depth[t]>>].pool = p}

\* The critical section after the callback: become idle, count down, and wake
\* every waiter when the region is complete.
Complete(w) ==
    LET r == worker[w].region
    IN  /\ pc[w] = "complete"
        /\ worker' = [worker EXCEPT ![w].pending = FALSE, ![w].region = None]
        /\ region' = [region EXCEPT ![r].remaining = @ - 1]
        /\ pc' = [t \in Threads |->
                    IF t = w THEN "park"
                    ELSE IF region[r].remaining = 1 /\ t \in Waiting(w[1]) THEN "spin"
                    ELSE pc[t]]
        /\ nested' = [nested EXCEPT ![w] = 0]
        /\ UNCHANGED <<depth, region_mu, current, in_pool, want, stop, runs>>

\* StopAndJoin; the owner of a pool outlives every call on it.
Stop(p) ==
    /\ ~stop[p]
    /\ \A c \in Callers : pc[c] = "idle"
    /\ stop' = [stop EXCEPT ![p] = TRUE]
    /\ pc' = Woken({w \in Workers : w[1] = p})
    /\ UNCHANGED <<worker, region, depth, region_mu, current, in_pool, want, nested,
                   runs>>

\* A condition variable may wake a waiter for no reason.
SpuriousWakeup(t) ==
    /\ pc[t] \in {"asleep", "blocked"}
    /\ Goto(t, IF pc[t] = "asleep" THEN "park" ELSE "spin")
    /\ UNCHANGED <<worker, region, depth, region_mu, current, in_pool, want,
                   nested, stop, runs>>

-----------------------------------------------------------------------------

\* The steps a thread takes on its own.
ThreadStep(t) ==
    \/ LockRegion(t)
    \/ EndOwnBody(t) \/ AwaitRegion(t) \/ Leave(t)
    \/ t \in Workers /\ (Park(t) \/ EndBlock(t) \/ Complete(t))

\* Every pool is stopped and its workers are gone.
Terminated ==
    /\ \A p \in Pools : stop[p]
    /\ \A w \in Workers : pc[w] = "exited"
    /\ UNCHANGED vars

Next ==
    \/ \E t \in Threads, p \in Pools, n \in 1 .. MaxBlocks : RunBounded(t, p, n)
    \/ \E t \in Threads : ThreadStep(t) \/ SpuriousWakeup(t)
    \/ \E p \in Pools : Stop(p)
    \/ Terminated

\* A thread that can take a step does, and region_mu_ is handed over to a thread
\* that waits for it.  Calls, nested calls, stops and spurious wakeups need not
\* happen; a root callback makes at most MaxNested of them, so it ends.
Fairness == \A t \in Threads : WF_vars(ThreadStep(t)) /\ SF_vars(LockRegion(t))

Spec == Init /\ [][Next]_vars
FairSpec == Spec /\ Fairness

-----------------------------------------------------------------------------
(***************************************************************************)
(* Properties.                                                             *)
(***************************************************************************)

\* A region's counter is the number of workers that still belong to it, and a
\* worker belongs to a region whose frame is still on its owner's stack: the
\* owner cannot return while a worker may touch the region.
TeamExact ==
    /\ \A r \in Regions : region[r] # None =>
        region[r].remaining = Cardinality({w \in Workers : worker[w].region = r})
    /\ \A w \in Workers :
        /\ worker[w].pending <=> worker[w].region # None
        /\ worker[w].region # None => region[worker[w].region] # None
        /\ pc[w] \in {"body", "complete"} => worker[w].pending

\* The pool is never oversubscribed: one thread from outside has regions on it at
\* a time, however deep, and no region has more participants than it asked for.
NoOversubscription ==
    /\ \A c, d \in Callers, i, j \in 1 .. MaxDepth :
        region[<<c, i>>] # None /\ region[<<d, j>>] # None
            /\ region[<<c, i>>].pool = region[<<d, j>>].pool => c = d
    /\ \A r \in Regions :
        region[r] # None => region[r].participants <= region[r].blocks

\* When RunBounded is about to return, the stripes of the admitted participants
\* have covered every block once, however many workers were admitted.
StripesCover ==
    \A t \in Threads : pc[t] = "leave" =>
        \A b \in Blocks : runs[<<t, depth[t]>>][b] =
            IF b < region[<<t, depth[t]>>].blocks THEN 1 ELSE 0

\* Every call returns: no wakeup of cv_done_ is lost although regions of all
\* depths wait on it, and pools never wait for each other.
CallReturns == \A c \in Callers : pc[c] # "idle" ~> pc[c] = "idle"
=============================================================================
