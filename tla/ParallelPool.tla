---------------------------- MODULE ParallelPool ----------------------------
(***************************************************************************)
(* The fork-join pool of onnx_threads/src/parallel_for.cc (class           *)
(* core::runtime::ThreadPool) without nested admission: construction,      *)
(* RunErased, WorkerLoop with its spin and park paths, and StopAndJoin.    *)
(*                                                                         *)
(* A caller publishes a region (task_ctx_, task_fn_, num_blocks_) under    *)
(* mu_, runs block 0 itself, and worker w runs block w + 1.  A worker that *)
(* spins reads the publication WITHOUT mu_: generation_ works as a         *)
(* sequence lock, odd while a publication is in progress.  Every atomic    *)
(* load or store whose position matters is a step of its own; steps        *)
(* interleave sequentially consistently.                                   *)
(*                                                                         *)
(* The task (ctx, fn) is the caller that published it: ctx points into     *)
(* that caller's stack frame, so using it after RunErased returned would   *)
(* be a use of dead storage.  Callbacks do not throw (parallel_for.h).     *)
(***************************************************************************)
EXTENDS Integers, FiniteSets

CONSTANTS
    Callers,      \* threads outside the pool that call Run
    NumWorkers,   \* num_workers of the constructor, already clamped to >= 0
    MaxCalls,     \* bound on the number of calls of Run in a behaviour
    NoOne         \* the owner of an unlocked mutex, and nullptr

ASSUME NumWorkersAssumption == NumWorkers \in Nat
ASSUME MaxCallsAssumption == MaxCalls \in Nat
ASSUME CallersAssumption == /\ NoOne \notin Callers
                            /\ Callers \cap Nat = {}
                            /\ NoOne \notin Nat

Workers == 0 .. (NumWorkers - 1)
Blocks == 0 .. NumWorkers          \* block 0 is the caller's, w + 1 is w's
Threads == Callers \cup Workers

VARIABLES
    generation,      \* generation_: even when stable, odd during publication
    task,            \* task_ctx_ and task_fn_
    num_blocks,      \* num_blocks_
    remaining,       \* remaining_: worker blocks of the region still to finish
    active_workers,  \* active_workers_: workers 0 .. n - 1 take part
    stop,            \* stop_
    mu,              \* owner of mu_ (a caller that holds it across steps)
    region_mu,       \* owner of region_mu_
    started_workers, \* started_workers_
    startup_error,   \* startup_error_ is not empty
    owner,           \* control state of the thread that owns the pool
    pc,              \* control state of callers and workers
    in_pool,         \* InPoolFlag(), thread local
    blocks,          \* num_blocks argument of each caller's current call
    gen,             \* generation: the local variable of WorkerLoop
    last_generation, \* last_generation of WorkerLoop
    ctx,             \* ctx and fn of WorkerLoop
    limit,           \* num_blocks of WorkerLoop
    calls,           \* number of calls so far, for the bound
    runs             \* history: executions of each block of the last region

publication == <<generation, task, num_blocks, remaining, active_workers>>
lifecycle == <<started_workers, startup_error, owner>>
locals == <<gen, last_generation, ctx, limit>>
vars == <<publication, stop, mu, region_mu, lifecycle, pc, in_pool, blocks,
          locals, calls, runs>>

Init ==
    /\ generation = 0
    /\ task = NoOne
    /\ num_blocks = 0
    /\ remaining = 0
    /\ active_workers = 0
    /\ stop = FALSE
    /\ mu = NoOne
    /\ region_mu = NoOne
    /\ started_workers = 0
    /\ startup_error = FALSE
    /\ owner = "spawn"
    /\ pc = [t \in Threads |-> IF t \in Callers THEN "idle" ELSE "unborn"]
    /\ in_pool = [t \in Threads |-> FALSE]
    /\ blocks = [c \in Callers |-> 0]
    /\ gen = [w \in Workers |-> 0]
    /\ last_generation = [w \in Workers |-> 0]
    /\ ctx = [w \in Workers |-> NoOne]
    /\ limit = [w \in Workers |-> 0]
    /\ calls = 0
    /\ runs = [b \in Blocks |-> 0]

Goto(t, label) == pc' = [pc EXCEPT ![t] = label]

(***************************************************************************)
(* The owner: constructor and destructor.                                  *)
(***************************************************************************)

\* One emplace_back of the constructor's loop.
Spawn(w) ==
    /\ owner = "spawn"
    /\ pc[w] = "unborn"
    /\ \A v \in Workers : v < w => pc[v] # "unborn"
    /\ Goto(w, "starting")
    /\ UNCHANGED <<publication, stop, mu, region_mu, lifecycle, in_pool,
                   blocks, locals, calls, runs>>

\* std::thread throws system_error: StopAndJoin, then rethrow.
SpawnFails ==
    /\ owner = "spawn"
    /\ \E w \in Workers : pc[w] = "unborn"
    /\ owner' = "stop"
    /\ UNCHANGED <<publication, stop, mu, region_mu, started_workers,
                   startup_error, pc, in_pool, blocks, locals, calls, runs>>

\* cv_started_.wait: the constructor returns, or stops the pool and throws.
AwaitStarted ==
    /\ owner = "spawn"
    /\ mu = NoOne
    /\ started_workers = NumWorkers
    /\ owner' = IF startup_error THEN "stop" ELSE "ready"
    /\ UNCHANGED <<publication, stop, mu, region_mu, started_workers,
                   startup_error, pc, in_pool, blocks, locals, calls, runs>>

\* The destructor; the owner outlives every call on the pool.
Destroy ==
    /\ owner = "ready"
    /\ \A c \in Callers : pc[c] = "idle"
    /\ owner' = "stop"
    /\ UNCHANGED <<publication, stop, mu, region_mu, started_workers,
                   startup_error, pc, in_pool, blocks, locals, calls, runs>>

\* StopAndJoin, the critical section.
RaiseStop ==
    /\ owner = "stop"
    /\ mu = NoOne
    /\ stop' = TRUE
    /\ generation' = generation + 1
    /\ owner' = "notify"
    /\ UNCHANGED <<task, num_blocks, remaining, active_workers, mu, region_mu,
                   started_workers, startup_error, pc, in_pool, blocks, locals,
                   calls, runs>>

\* worker_work_[w]->notify_one for every worker in S.
Notify(S) ==
    [t \in Threads |-> IF t \in S /\ pc[t] = "asleep" THEN "park" ELSE pc[t]]

\* Mutant of NotifyAll: only the workers of the last region are woken.
NotifyActive ==
    /\ owner = "notify"
    /\ pc' = Notify(0 .. (active_workers - 1))
    /\ owner' = "join"
    /\ UNCHANGED <<publication, stop, mu, region_mu, started_workers,
                   startup_error, in_pool, blocks, locals, calls, runs>>

\* StopAndJoin, the wakeups.
NotifyAll ==
    /\ owner = "notify"
    /\ pc' = Notify(Workers)
    /\ owner' = "join"
    /\ UNCHANGED <<publication, stop, mu, region_mu, started_workers,
                   startup_error, in_pool, blocks, locals, calls, runs>>

\* StopAndJoin, the joins: only threads that were created are joined.
Join ==
    /\ owner = "join"
    /\ \A w \in Workers : pc[w] \in {"unborn", "exited"}
    /\ owner' = "gone"
    /\ UNCHANGED <<publication, stop, mu, region_mu, started_workers,
                   startup_error, pc, in_pool, blocks, locals, calls, runs>>

(***************************************************************************)
(* Callers: RunErased.                                                     *)
(***************************************************************************)

\* RunErased up to region_mu_: nothing to do, inline, too many blocks, or a
\* region that needs workers.
Call(c, n) ==
    /\ owner = "ready"
    /\ pc[c] = "idle"
    /\ calls < MaxCalls
    /\ calls' = calls + 1
    /\ blocks' = [blocks EXCEPT ![c] = n]
    /\ Goto(c, IF n <= 0 THEN "idle"
               ELSE IF NumWorkers = 0 \/ n = 1 \/ in_pool[c] THEN "inline"
               ELSE IF n > NumWorkers + 1 THEN "idle"
               ELSE "lock")
    /\ UNCHANGED <<publication, stop, mu, region_mu, lifecycle, in_pool,
                   locals, runs>>

\* The inline loop; it touches nothing of the pool.
RunInline(c) ==
    /\ pc[c] = "inline"
    /\ Goto(c, "idle")
    /\ UNCHANGED <<publication, stop, mu, region_mu, lifecycle, in_pool,
                   blocks, locals, calls, runs>>

LockRegion(c) ==
    /\ pc[c] = "lock"
    /\ region_mu = NoOne
    /\ region_mu' = c
    /\ Goto(c, "publish")
    /\ UNCHANGED <<publication, stop, mu, lifecycle, in_pool, blocks, locals,
                   calls, runs>>

\* Mutant of BeginPublication: the generation stays even during publication.
BeginPublicationEven(c) ==
    /\ pc[c] = "publish"
    /\ mu = NoOne
    /\ mu' = c
    /\ runs' = [b \in Blocks |-> 0]
    /\ Goto(c, "payload")
    /\ UNCHANGED <<publication, stop, region_mu, lifecycle, in_pool, blocks,
                   locals, calls>>

\* Lock mu_ and make the generation odd.
BeginPublication(c) ==
    /\ pc[c] = "publish"
    /\ mu = NoOne
    /\ mu' = c
    /\ generation' = generation + 1
    /\ runs' = [b \in Blocks |-> 0]
    /\ Goto(c, "payload")
    /\ UNCHANGED <<task, num_blocks, remaining, active_workers, stop,
                   region_mu, lifecycle, in_pool, blocks, locals, calls>>

\* Mutant of WritePayload: remaining_ counts the caller's block too.
WritePayloadCountsCaller(c) ==
    /\ pc[c] = "payload"
    /\ task' = c
    /\ num_blocks' = blocks[c]
    /\ remaining' = blocks[c]
    /\ Goto(c, "activate")
    /\ UNCHANGED <<generation, active_workers, stop, mu, region_mu, lifecycle,
                   in_pool, blocks, locals, calls, runs>>

\* Task, block count and join counter of the new region.
WritePayload(c) ==
    /\ pc[c] = "payload"
    /\ task' = c
    /\ num_blocks' = blocks[c]
    /\ remaining' = blocks[c] - 1
    /\ Goto(c, "activate")
    /\ UNCHANGED <<generation, active_workers, stop, mu, region_mu, lifecycle,
                   in_pool, blocks, locals, calls, runs>>

\* Mutant of Activate: the last participating worker is not notified.
ActivateMissesLast(c) ==
    /\ pc[c] = "activate"
    /\ active_workers' = blocks[c] - 1
    /\ pc' = [Notify(0 .. (blocks[c] - 3)) EXCEPT ![c] = "commit"]
    /\ UNCHANGED <<generation, task, num_blocks, remaining, stop, mu,
                   region_mu, lifecycle, in_pool, blocks, locals, calls, runs>>

\* Store active_workers_ and notify exactly the participating workers.
Activate(c) ==
    /\ pc[c] = "activate"
    /\ active_workers' = blocks[c] - 1
    /\ pc' = [Notify(0 .. (blocks[c] - 2)) EXCEPT ![c] = "commit"]
    /\ UNCHANGED <<generation, task, num_blocks, remaining, stop, mu,
                   region_mu, lifecycle, in_pool, blocks, locals, calls, runs>>

\* Make the generation even again, unlock mu_ and enter the region.
EndPublication(c) ==
    /\ pc[c] = "commit"
    /\ generation' = generation + 1
    /\ mu' = NoOne
    /\ in_pool' = [in_pool EXCEPT ![c] = TRUE]
    /\ Goto(c, "run")
    /\ UNCHANGED <<task, num_blocks, remaining, active_workers, stop,
                   region_mu, lifecycle, blocks, locals, calls, runs>>

\* Block 0 returns; was_in_pool is FALSE, or Call would have run inline.
RunOwnBlock(c) ==
    /\ pc[c] = "run"
    /\ runs' = [runs EXCEPT ![0] = @ + 1]
    /\ in_pool' = [in_pool EXCEPT ![c] = FALSE]
    /\ Goto(c, "spin")
    /\ UNCHANGED <<publication, stop, mu, region_mu, lifecycle, blocks,
                   locals, calls>>

\* SpinForCompletion sees zero, or gives up (a budget of zero gives up at once).
SpinForCompletion(c) ==
    /\ pc[c] = "spin"
    /\ \/ remaining = 0 /\ Goto(c, "return")
       \/ Goto(c, "wait")
    /\ UNCHANGED <<publication, stop, mu, region_mu, lifecycle, in_pool,
                   blocks, locals, calls, runs>>

\* Lock mu_ for cv_done_.wait (first time, or after a wakeup).
LockForWait(c) ==
    /\ pc[c] = "wait"
    /\ mu = NoOne
    /\ mu' = c
    /\ Goto(c, "test")
    /\ UNCHANGED <<publication, stop, region_mu, lifecycle, in_pool, blocks,
                   locals, calls, runs>>

\* Mutant of TestDone: the predicate accepts one unfinished block.
TestDoneEarly(c) ==
    /\ pc[c] = "test"
    /\ IF remaining <= 1
       THEN mu' = NoOne /\ Goto(c, "return")
       ELSE mu' = mu /\ Goto(c, "block")
    /\ UNCHANGED <<publication, stop, region_mu, lifecycle, in_pool, blocks,
                   locals, calls, runs>>

\* The predicate of cv_done_.wait; remaining_ changes without mu_.
TestDone(c) ==
    /\ pc[c] = "test"
    /\ IF remaining = 0
       THEN mu' = NoOne /\ Goto(c, "return")
       ELSE mu' = mu /\ Goto(c, "block")
    /\ UNCHANGED <<publication, stop, region_mu, lifecycle, in_pool, blocks,
                   locals, calls, runs>>

\* cv_done_.wait releases mu_ and blocks, atomically.
BlockOnDone(c) ==
    /\ pc[c] = "block"
    /\ mu' = NoOne
    /\ Goto(c, "blocked")
    /\ UNCHANGED <<publication, stop, region_mu, lifecycle, in_pool, blocks,
                   locals, calls, runs>>

\* Unlock region_mu_ and return.
Return(c) ==
    /\ pc[c] = "return"
    /\ region_mu' = NoOne
    /\ Goto(c, "idle")
    /\ UNCHANGED <<publication, stop, mu, lifecycle, in_pool, blocks, locals,
                   calls, runs>>

(***************************************************************************)
(* Workers: WorkerLoop.                                                    *)
(***************************************************************************)

\* The startup callback succeeds (ok) or fails; a worker whose callback
\* failed still enters the loop.
StartWorker(w, ok) ==
    /\ pc[w] = "starting"
    /\ mu = NoOne
    /\ in_pool' = [in_pool EXCEPT ![w] = TRUE]
    /\ started_workers' = started_workers + 1
    /\ startup_error' = (startup_error \/ ~ok)
    /\ Goto(w, "top")
    /\ UNCHANGED <<publication, stop, mu, region_mu, owner, blocks, locals,
                   calls, runs>>

\* Only a worker of the last region spins.
LoopTop(w) ==
    /\ pc[w] = "top"
    /\ Goto(w, IF w < active_workers THEN "spin" ELSE "missed")
    /\ UNCHANGED <<publication, stop, mu, region_mu, lifecycle, in_pool,
                   blocks, locals, calls, runs>>

\* SpinForWork.  It answers true after a load of stop_, or after reading the
\* same even generation before and after active_workers_: generation_ only
\* grows, so that is one atomic look.  It may run out of its budget any time.
SpinForWork(w) ==
    /\ pc[w] = "spin"
    /\ \/ /\ \/ stop
             \/ /\ generation % 2 = 0
                /\ generation # last_generation[w]
                /\ w < active_workers
          /\ Goto(w, "ready")
       \/ Goto(w, "missed")
    /\ UNCHANGED <<publication, stop, mu, region_mu, lifecycle, in_pool,
                   blocks, locals, calls, runs>>

\* The load of stop_ after spinning.
CheckStop(w) ==
    /\ pc[w] \in {"ready", "missed"}
    /\ Goto(w, IF stop THEN "exited"
               ELSE IF pc[w] = "ready" THEN "load" ELSE "park")
    /\ UNCHANGED <<publication, stop, mu, region_mu, lifecycle, in_pool,
                   blocks, locals, calls, runs>>

\* Spin path, first load of generation_.
LoadGeneration(w) ==
    /\ pc[w] = "load"
    /\ gen' = [gen EXCEPT ![w] = generation]
    /\ Goto(w, IF generation % 2 # 0 \/ generation = last_generation[w]
               THEN "top" ELSE "member")
    /\ UNCHANGED <<publication, stop, mu, region_mu, lifecycle, in_pool,
                   blocks, last_generation, ctx, limit, calls, runs>>

\* Spin path, load of active_workers_.
LoadActive(w) ==
    /\ pc[w] = "member"
    /\ Goto(w, IF w >= active_workers THEN "top" ELSE "recheck")
    /\ UNCHANGED <<publication, stop, mu, region_mu, lifecycle, in_pool,
                   blocks, locals, calls, runs>>

\* Spin path, second load of generation_.
RecheckGeneration(w) ==
    /\ pc[w] = "recheck"
    /\ IF generation # gen[w]
       THEN Goto(w, "top") /\ UNCHANGED last_generation
       ELSE /\ last_generation' = [last_generation EXCEPT ![w] = gen[w]]
            /\ Goto(w, "read")
    /\ UNCHANGED <<publication, stop, mu, region_mu, lifecycle, in_pool,
                   blocks, gen, ctx, limit, calls, runs>>

\* The payload, read without mu_, and the test of block < num_blocks.
ReadPayload(w) ==
    /\ pc[w] = "read"
    /\ ctx' = [ctx EXCEPT ![w] = task]
    /\ limit' = [limit EXCEPT ![w] = num_blocks]
    /\ Goto(w, IF w + 1 < num_blocks THEN "run" ELSE "top")
    /\ UNCHANGED <<publication, stop, mu, region_mu, lifecycle, in_pool,
                   blocks, gen, last_generation, calls, runs>>

\* Mutant of Park: the predicate forgets generation_ != last_generation.
ParkIgnoresGeneration(w) ==
    /\ pc[w] = "park"
    /\ mu = NoOne
    /\ IF stop
       THEN Goto(w, "exited") /\ UNCHANGED <<last_generation, ctx, limit>>
       ELSE IF w < active_workers
       THEN /\ last_generation' = [last_generation EXCEPT ![w] = generation]
            /\ ctx' = [ctx EXCEPT ![w] = task]
            /\ limit' = [limit EXCEPT ![w] = num_blocks]
            /\ Goto(w, IF w + 1 < num_blocks THEN "run" ELSE "top")
       ELSE Goto(w, "asleep") /\ UNCHANGED <<last_generation, ctx, limit>>
    /\ UNCHANGED <<publication, stop, mu, region_mu, lifecycle, in_pool,
                   blocks, gen, calls, runs>>

\* Park path: lock mu_, test the predicate, take the payload or block.
Park(w) ==
    /\ pc[w] = "park"
    /\ mu = NoOne
    /\ IF stop
       THEN Goto(w, "exited") /\ UNCHANGED <<last_generation, ctx, limit>>
       ELSE IF generation # last_generation[w] /\ w < active_workers
       THEN /\ last_generation' = [last_generation EXCEPT ![w] = generation]
            /\ ctx' = [ctx EXCEPT ![w] = task]
            /\ limit' = [limit EXCEPT ![w] = num_blocks]
            /\ Goto(w, IF w + 1 < num_blocks THEN "run" ELSE "top")
       ELSE Goto(w, "asleep") /\ UNCHANGED <<last_generation, ctx, limit>>
    /\ UNCHANGED <<publication, stop, mu, region_mu, lifecycle, in_pool,
                   blocks, gen, calls, runs>>

\* fn(ctx, w + 1) returns.
RunBlock(w) ==
    /\ pc[w] = "run"
    /\ runs' = [runs EXCEPT ![w + 1] = @ + 1]
    /\ Goto(w, "finish")
    /\ UNCHANGED <<publication, stop, mu, region_mu, lifecycle, in_pool,
                   blocks, locals, calls>>

\* remaining_.fetch_sub.
FinishBlock(w) ==
    /\ pc[w] = "finish"
    /\ remaining' = remaining - 1
    /\ Goto(w, IF remaining = 1 THEN "notify" ELSE "top")
    /\ UNCHANGED <<generation, task, num_blocks, active_workers, stop, mu,
                   region_mu, lifecycle, in_pool, blocks, locals, calls, runs>>

\* Mutant of NotifyDone: the notification does not take mu_.
NotifyDoneUnlocked(w) ==
    /\ pc[w] = "notify"
    /\ pc' = [t \in Threads |-> IF t = w THEN "top"
                                ELSE IF pc[t] = "blocked" THEN "wait"
                                ELSE pc[t]]
    /\ UNCHANGED <<publication, stop, mu, region_mu, lifecycle, in_pool,
                   blocks, locals, calls, runs>>

\* The last worker notifies cv_done_ while it holds mu_.
NotifyDone(w) ==
    /\ pc[w] = "notify"
    /\ mu = NoOne
    /\ pc' = [t \in Threads |-> IF t = w THEN "top"
                                ELSE IF pc[t] = "blocked" THEN "wait"
                                ELSE pc[t]]
    /\ UNCHANGED <<publication, stop, mu, region_mu, lifecycle, in_pool,
                   blocks, locals, calls, runs>>

(***************************************************************************)
(* Run called from inside a block, and spurious wakeups.                   *)
(***************************************************************************)

\* A block calls Run on the same pool: inline when InPool() (nothing of the
\* pool changes and the block goes on), otherwise it would queue on region_mu_.
NestedRun(t) ==
    /\ pc[t] = "run"
    /\ IF in_pool[t] THEN UNCHANGED pc ELSE Goto(t, "nested")
    /\ UNCHANGED <<publication, stop, mu, region_mu, lifecycle, in_pool,
                   blocks, locals, calls, runs>>

\* Any wait on a condition variable may return without a notification.
SpuriousWakeup(t) ==
    /\ pc[t] \in {"asleep", "blocked"}
    /\ Goto(t, IF t \in Workers THEN "park" ELSE "wait")
    /\ UNCHANGED <<publication, stop, mu, region_mu, lifecycle, in_pool,
                   blocks, locals, calls, runs>>

-----------------------------------------------------------------------------

OwnerStep ==
    \/ \E w \in Workers : Spawn(w)
    \/ SpawnFails \/ AwaitStarted
    \/ RaiseStop \/ NotifyAll \/ Join

\* The steps of a call once it is made.
CallerStep(c) ==
    \/ RunInline(c)
    \/ LockRegion(c)
    \/ BeginPublication(c) \/ WritePayload(c)
    \/ Activate(c) \/ EndPublication(c)
    \/ RunOwnBlock(c)
    \/ SpinForCompletion(c) \/ LockForWait(c) \/ TestDone(c) \/ BlockOnDone(c)
    \/ Return(c)

WorkerStep(w) ==
    \/ \E ok \in BOOLEAN : StartWorker(w, ok)
    \/ LoopTop(w) \/ SpinForWork(w) \/ CheckStop(w)
    \/ LoadGeneration(w) \/ LoadActive(w) \/ RecheckGeneration(w)
    \/ ReadPayload(w)
    \/ Park(w)
    \/ RunBlock(w) \/ FinishBlock(w) \/ NotifyDone(w)

\* The pool is destroyed and every thread is gone.
Terminated == owner = "gone" /\ UNCHANGED vars

Next ==
    \/ OwnerStep
    \/ Destroy
    \/ \E c \in Callers, n \in 0 .. (NumWorkers + 2) : Call(c, n)
    \/ \E c \in Callers : CallerStep(c)
    \/ \E w \in Workers : WorkerStep(w)
    \/ \E t \in Threads : NestedRun(t) \/ SpuriousWakeup(t)
    \/ Terminated

\* The operating system runs every thread that can run.  A mutex is handed
\* over eventually: strong fairness for the steps that lock one.  No fairness
\* for Call, Destroy, NestedRun or a spurious wakeup.
Fairness ==
    /\ WF_vars(OwnerStep) /\ SF_vars(RaiseStop) /\ SF_vars(AwaitStarted)
    /\ \A c \in Callers :
        /\ WF_vars(CallerStep(c))
        /\ SF_vars(LockRegion(c) \/ BeginPublication(c) \/ LockForWait(c))
    /\ \A w \in Workers :
        /\ WF_vars(WorkerStep(w))
        /\ SF_vars(StartWorker(w, TRUE) \/ StartWorker(w, FALSE) \/ Park(w)
                   \/ NotifyDone(w))

Spec == Init /\ [][Next]_vars
FairSpec == Spec /\ Fairness
-----------------------------------------------------------------------------
(***************************************************************************)
(* Properties.                                                             *)
(***************************************************************************)

CallerStates == {"idle", "inline", "lock", "publish", "payload", "activate",
                 "commit", "run", "spin", "wait", "test", "block", "blocked",
                 "return", "nested"}
WorkerStates == {"unborn", "starting", "top", "spin", "ready", "missed", "load",
                 "member", "recheck", "read", "park", "asleep", "run",
                 "finish", "notify", "exited", "nested"}
OwnerStates == {"spawn", "ready", "stop", "notify", "join", "gone"}

\* Every variable keeps its type; remaining_ never drops below zero.
TypeOK ==
    /\ generation \in Nat
    /\ task \in Callers \cup {NoOne}
    /\ num_blocks \in 0 .. (NumWorkers + 1)
    /\ remaining \in 0 .. NumWorkers
    /\ active_workers \in 0 .. NumWorkers
    /\ stop \in BOOLEAN
    /\ mu \in Callers \cup {NoOne}
    /\ region_mu \in Callers \cup {NoOne}
    /\ started_workers \in Nat
    /\ startup_error \in BOOLEAN
    /\ owner \in OwnerStates
    /\ pc \in [Threads -> CallerStates \cup WorkerStates]
    /\ \A c \in Callers : pc[c] \in CallerStates
    /\ \A w \in Workers : pc[w] \in WorkerStates
    /\ in_pool \in [Threads -> BOOLEAN]
    /\ blocks \in [Callers -> 0 .. (NumWorkers + 2)]
    /\ gen \in [Workers -> Nat]
    /\ last_generation \in [Workers -> Nat]
    /\ ctx \in [Workers -> Callers \cup {NoOne}]
    /\ limit \in [Workers -> 0 .. (NumWorkers + 1)]
    /\ calls \in 0 .. MaxCalls
    /\ runs \in [Blocks -> Nat]

\* States of a caller whose region is published and not yet over.
InRegion == {"run", "spin", "wait", "test", "block", "blocked"}

\* Join semantics ("Runs fn(block) for every block in [0, num_blocks), then blocks
\* until all blocks finish", parallel_for.h): no block of a region runs twice, and
\* when RunErased is about to return, every block below num_blocks has run and no
\* other block has.
ExactlyOnce ==
    /\ \A b \in Blocks : runs[b] <= 1
    /\ \A c \in Callers : pc[c] = "return" =>
        \A b \in Blocks : runs[b] = IF b < blocks[c] THEN 1 ELSE 0

\* The comment of the spin path ("remaining_ therefore keeps the payload alive
\* until after fn returns"): a worker that reads the payload without mu_, runs
\* the callback or has yet to decrement remaining_ belongs to the region being
\* run, so no caller is writing the payload and the caller's frame is alive.
PayloadAlive ==
    \A w \in Workers : pc[w] \in {"read", "run", "finish"} =>
        /\ region_mu \in Callers
        /\ pc[region_mu] \in InRegion
        /\ w + 1 < blocks[region_mu]
        /\ pc[w] # "read" => ctx[w] = region_mu /\ limit[w] = blocks[region_mu]

\* The join counter is exact: it counts the worker blocks of the open region
\* that were not yet decremented, whatever path their worker is on.
RemainingExact ==
    \A c \in Callers : pc[c] \in InRegion =>
        remaining = Cardinality({w \in Workers :
            w + 1 < blocks[c] /\ (runs[w + 1] = 0 \/ pc[w] = "finish")})

\* The control states of a caller that RegionService tells apart.
Phase(label) ==
    CASE label \in {"idle", "inline"} -> label
      [] label \in {"lock", "publish"} -> "queued"
      [] OTHER -> "running"

\* The pool implements RegionService: whatever the workers read and whenever
\* they wake up, a caller sees regions that run one after the other, each
\* block once, and a return only when all blocks ran.
Phases == [c \in Callers |-> Phase(pc[c])]
Service == INSTANCE RegionService WITH
    Capacity <- NumWorkers + 1, phase <- Phases, size <- blocks
ImplementsService == Service!Spec

\* A participating worker is never asleep on its condition variable while the
\* region it has to join is published and waiting for it (no lost wakeup).
NoSleepingParticipant ==
    \A c \in Callers, w \in Workers :
        pc[c] \in InRegion /\ w + 1 < blocks[c] /\ runs[w + 1] = 0
            => pc[w] # "asleep"

\* Every call of Run returns: neither the caller nor a worker is lost, and a
\* nested call cannot wait for the region it runs in.
RunReturns == \A c \in Callers : pc[c] # "idle" ~> pc[c] = "idle"

\* StopAndJoin terminates from any point, a failed construction included.
StopTerminates == owner = "stop" ~> owner = "gone"
=============================================================================
