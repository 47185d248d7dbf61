# Verification of onnx-light

TLA+ specifications of the parts of onnx-light that carry its concurrency and
ownership logic, TLC configurations that check them on small instances, and
TLAPS proofs of the central facts for every size. `PROJECT.json` maps every
definition to the lines it models.

Contents: [the system](#the-system-and-its-parts), [modules](#modules),
[runs](#runs), [fairness](#fairness), [proofs](#proofs),
[disagreements](#where-the-code-and-its-documentation-disagree),
[abstractions](#abstractions-common-to-the-modules),
[not modelled](#not-modelled), [plan](#plan).

## The system and its parts

onnx-light is a C++ implementation of ONNX without protobuf: it parses and
writes models, checks and rewrites graphs, infers shapes, and executes models
with its own CPU kernels.

| Part | State | Operations | What is hard | What makes it correct |
|---|---|---|---|---|
| Fork-join pool, `onnx_threads/src/parallel_for.cc` | published region (task, block count, join counter, active count, generation), `mu_`, `region_mu_`, one condition variable per worker | construction, `Run`, worker loop (spin or park), `StopAndJoin` | spinning workers read the publication without the mutex; notifications race with parking; construction may fail half-way | each block runs once, the callback's frame outlives its readers, every `Run` and every stop ends |
| The same class with nested parallelism | per worker region, block and pending flag; region objects on callers' stacks; thread-local pool and flag | `RunBounded`, `BoundedWorkerLoop`, stride loop of `RunErased` | nested teams on one pool, one condition variable for all depths, pools that call each other | teams are exact, blocks are covered, no deadlock |
| `WorkerPool`, `thread_pool.cc` | job queue, pending count, first exception, stop and started flags | `Start`, `Enqueue`, worker loop, `WaitIdle`, `Shutdown` | jobs that throw, submission during shutdown, pools without workers, threads that cannot be created | no job is lost or run twice, failures are reported once, calls return |
| Batch adapter `utils::ThreadPool`, same file | requested thread count, started flag | `Start`, `SubmitTask`, `Wait`, `Clear` | any order of calls over several batches | a batch runs completely and reports its own failures only |
| `CpuExecutor`, `cpu_executor.cc` | policy, pool, optional counters; thread-local executor and region | `ParallelFor`, `EnableCounters`, `counters` | nesting on one or several executors, exceptions, lock-free snapshot | iterations are covered once, bindings are restored |
| `CpuExecutorRegistry`, same file | table of live executors | `Acquire`, `live_pool_count`, eviction, fork detection | leases are dropped without the registry's mutex; fork | capacity is held, executors are shared by key, threads are joined by the process that has them |
| `TaskCompletion`, `task_completion.cc` | status, condition variable | `MarkRunning`, `Succeed`, `Fail`, `Cancel`, `Suppress`, `Wait` | the ends of a task race; the notification comes after the unlock | one end wins, every waiter returns |
| Session with persistent values, `persistent_value_state.cc`, `persistent_value.cc` | retained values with certified capacity, busy flag, captured allocators | `Run` (borrow, append, publish), `Reset`, `Values` | in-place append into shared storage, cancellation against publication, exceptions at every point | a call takes effect once or not at all; nobody sees a value change that he holds |
| Loader, `runtime_session_loader.cc` | memory reservation, Reader thread with a one-tensor queue | `LoadSessions` | reads overlap preparations, both may throw; one memory limit for sources that go and prepared bytes that come | limit held, nothing left behind that fits, threads joined |
| Kernel preparations, `runtime_session.cc` | queue of candidates, blocked set, completed set, deferred tuning, required inputs, consumed initializers | `DeclarePreparations`, `ExecutePreparations`, `Prepare`, `Run` | partial progress under changing limits and inputs, over several calls | a kernel runs with what it needs, no source is dropped early |
| Annotations and plan, `result_lifetime.cc`, `inplace_reuse.cc`, `execution_plan.cc` | node metadata, action list | annotate, build, replay | annotations older than the last rewrite | no value is read after it was released or overwritten, locks balance |
| Allocators, `raw_buffer_allocator.cc` | slots, buckets by capacity, eviction list, counters; handles and leases outside | `Allocate`, `Free`, `Export`, `ReturnLease`, `SetRetentionCap`, `Trim` | four structures that describe the same slots; leases that outlive the context | a block is in one hand, counters are exact, retention is bounded |
| Global pool, `ForkJoin`, region collector | process state word; thread budget; event list | replacement after fork; `ForkJoin`; `Record` | release on every path | see below |
| Messages, streams, crypt, mapped files, `onnx_proto` | byte buffers | parse, write, map | data conversion | see below |
| Builder, patterns, shapes, expressions, schemas, kernels, Python layer | graphs, tables | sequential computation | size | see below |

How they interact. A session acquires an executor from the registry and keeps
it alive with a lease (a `shared_ptr`). A kernel calls `CpuExecutor::ParallelFor`,
which runs inline or gives the blocks to the executor's pool, plain or bounded;
the callbacks may call `ParallelFor` again, on the same executor or on another
one, which the thread-local bindings detect. Streams of `onnx_proto` give the
blocks of delayed tensors to a batch adapter, which owns a `WorkerPool`.
The loader declares a session, feeds initializers to its kernel preparations as
they arrive and hands the session over; later runs finish what the loader had
to leave. A run replays the execution plan, takes its buffers from an
`ExecutionArena` and its outputs from an `IOArena`, whose blocks leave the
session as leases. Sessions with persistent values publish them through a
`TaskCompletion` that a client may cancel.

## Modules

| Module | Models | Extends or uses |
|---|---|---|
| `ParallelPool` | the fork-join pool | refines `RegionService` |
| `RegionService` | what a pool promises: abstract specification | |
| `BoundedPool` | bounded nested admission, several pools | |
| `WorkerPool` | the queued pool | |
| `BatchPool` | the batch adapter, composed with its worker pool | extends `WorkerPool` |
| `ExecutorRegistry` | the registry, leases, processes | |
| `CpuDispatch` | `ParallelFor` above a pool | relies on what `RegionService` says of pools |
| `FeedbackSession` | a session with a persistent value, its storage, `TaskCompletion` | refines `FeedbackService` |
| `FeedbackService` | what such a session promises: abstract specification | |
| `BufferArena` | the three allocators, handles and leases | |
| `KernelPreparations` | preparations, deferred tuning, consumed initializers, run loop | |
| `RuntimeLoader` | loader and Reader thread, then the life of the session | extends `KernelPreparations` |
| `ExecutionPlan` | annotations, rewrites, plan construction and replay | |
| `ParallelPoolProofs`, `BoundedPoolProofs`, `FeedbackSessionProofs`, `BufferArenaProofs`, `RuntimeLoaderProofs`, `ExecutionPlanProofs` | theorems | extend the module they are about |
| `CpuExecutorProofs` | theorems about the registry and about `ParallelFor` | extends `ExecutorRegistry` and `CpuDispatch` |
| `WorkerPoolProofs` | theorems about the queued pool and the batch adapter | extends `BatchPool` |
| `MC...` | instances for TLC | extend the module they instantiate |

Definitions named `...Twice`, `...Early`, `...Uncounted` and the like, with a
comment "Mutant of X", are faulty variants of X. No specification uses them;
with X replaced by the variant TLC finds the property that `PROJECT.json` names
violated, which shows that the property depends on that code.

### ParallelPool

Variables keep the names of the members (`generation_` is `generation`) and of
the locals of `WorkerLoop` (`gen`, `last_generation`, `ctx`, `limit`); `pc` is
the control state of callers and workers, `owner` that of the thread that
constructs and destroys the pool. Every atomic access and every critical
section is one step. The publication, whose order against unlocked readers
matters, is four steps under `mu_`: `BeginPublication` (the generation becomes
odd), `WritePayload`, `Activate` (the active count and the notifications) and
`EndPublication` (even again). A worker that spins goes through
`SpinForWork`, `CheckStop`, `LoadGeneration`, `LoadActive`,
`RecheckGeneration`, `ReadPayload`; one that parks takes the same facts in the
critical section `Park`. `FinishBlock` is the decrement of the join counter,
`NotifyDone` the notification after it. A caller that finds itself in a pool
(`NestedRun`) runs its blocks inline. `SpawnFails` and `StartWorker(w, FALSE)`
are the two ways construction fails; both go through `StopAndJoin`.

`runs` is a history variable: how often each block of the last region ran.

The test of `RecheckGeneration` never fails in this model: `SpinForWork` hands
over a generation that was validated already, and no region can open or close
while a participant has not joined. It is kept, as in the code.

### RegionService

A caller is idle, inline, queued or running; a region opens when no other one
is running, its blocks run in any order, and it closes when each ran once.
`ImplementsService` in `ParallelPool` maps the control states of callers to
these phases, the history `runs` to itself. Publication, workers, generation,
mutexes and condition variables are invisible to it.

### BoundedPool

A region is named by the thread whose stack holds it and its depth there, and
its record exists as long as that frame: a use after return would show as a
reference to `None`. `RunBounded` has the three ways of the code: inline inside
a block of another pool, a nested region inside a block of this pool, otherwise
`region_mu_` first (`LockRegion`). `OpenRegion` is the critical section that
admits idle workers in index order and numbers their blocks. `RunStripe` is the
stride loop of `RunErased`, all blocks of one participant in one step: the
participants' blocks are disjoint, so their order shows nowhere.
The pools are constructed and idle at the start (construction is in
`ParallelPool`); `Stop` is the destructor, which the code's contract allows
when nobody uses the pool.

### WorkerPool and BatchPool

A job is a name, executed at most once; `Failing` jobs throw. `Enqueue` is the
critical section and `NotifyWork` the notification after the unlock.
`WaitIdleImpl` is `BeginWait` (the test of `workers_` without the mutex), then
`Drain` (no workers: run jobs on this thread) or `AwaitDone`, then
`TakeException`, a critical section of its own. `Shutdown` goes on with
`RaiseStop`, `NotifyAll`, `Join`, `ClearStarted`. `Start` creates any number of
the requested threads up to all, fewer when creation throws. One client, the
owner, starts and shuts down; the others enqueue and wait at any time, also
while `Shutdown` runs, except that they do not begin a wait then.
`before`, `submitted`, `late`, `executed`, `answered` and `discarded` are history
variables. An exception stands for every failure up to the moment it is taken,
since the pool keeps only the first: `answered` collects the failures covered by
an exception that `WaitIdle` threw, `discarded` those whose exception
`WorkerPool::Shutdown` or the destructor took and dropped. A failure after that is
new, and `FailureReported` asks for it again.

`BatchPool` adds the adapter's members and composes its calls with the steps of
`WorkerPool`: `SubmitTask` may start the workers and then enqueue, `Wait` runs
`Shutdown`, worker steps interleave with both. There the exception that
`ShutdownAndTakeException` takes is not dropped but kept in `error`. `Clear` tests
`is_started_` and changes nothing. `MCBatchPool` has a pool that its clients use
directly or that belongs to an adapter, one of the two from the start.

### ExecutorRegistry

`Acquire` holds the registry's mutex from end to end and is one step with four
outcomes: shared, new, failed construction, exhausted. A lease is a
`shared_ptr`, which sessions copy (`Share`) and drop (`Release`) at any time
without the mutex; an executor that loses its last reference joins its workers,
unless it was inherited across a fork (`Destroyed` is `~Impl`, `joined` remembers
which executor was joined in which process). The window in which an entry's
executor is dying while `Acquire` locks its `weak_ptr` is closed for executors
with threads: the registry itself holds a reference, so they die under its mutex.
`Fork` continues in a child with one thread: the other sessions are gone, the
objects are inherited, the workers are not. The registry notices at its next
call. A fork inside `Acquire` is not modelled (hazard list). Its specification is
`RegistrySpec`, so that it can be extended together with `CpuDispatch`.

### CpuDispatch

Each thread has a stack of calls; a frame records what the scope objects of the
call restore. `Call` takes the three loads at the start of `ParallelFor`
(counters, region, policy), `RunInline` and `Dispatch` are its branches,
`RunBlock` is `BlockContext::Run`, `Return` and `Throw` leave the call,
`PinFails` throws after the call was counted and before anything is installed.
A call refused for its arguments or because the process forked changes nothing
and has no step. `limited` is a free choice wherever the minimum number of
elements decides it, forced where one iteration or one participant does.
The blocks run on the calling thread's stack in any order, since each block
installs and restores its own bindings on whichever thread runs it.

### FeedbackSession and FeedbackService

Storage is a set of blocks. A block is in use while the session, a call or a
view holds it; a view is a borrowed tensor outside the session (an output that a
client kept, a snapshot of `Values`, an intermediate result in a context) and
remembers the rows it showed when it was handed out. `BeginRun` is the part of
`Run` before the kernels, with the grant of `PrepareAppend` from the number of
holders; `Compute` lets the kernel append in place, relocate, or produce a fresh
tensor; `CheckPending`, `Succeed`, `Publish` and `ReturnOutputs` are the rest in
the order of the code; `Throw` is an exception at any of these points, also in
`RetainIOBackedStorage` after the publication. Calls that are refused have no
step. The operations of `TaskCompletion` change the status in one step and
notify in another. `busy_` makes the operations of one session exclusive, so one
thread besides the schedulers and waiters suffices; the theorems are about any
number of threads.

`FeedbackService` has one retained value: a call takes effect in one step, in
which its completion succeeds, or not at all. From that step to its return the
call is `Done`, and nothing may change the value: `Replace`, which is `Reset`,
needs every thread outside a call. The refinement maps the value to
the candidate between `Succeed` and the swap: a client that sees the completion
succeed may rely on the new value although the swap comes later, because no
operation can look at `values_` before it. A swap that is lost or installs
something else after `Succeed` is therefore a step that the service does not have.

### BufferArena

`kind` chooses one of the allocators, which share the slot discipline: unused
slots, free blocks in buckets by capacity and in the order they were freed, live
blocks. The four branches of `Allocate` are four actions. `Retire` is the common
end of `Free` and `ReturnLease` with the eviction loop of `EnforceRetentionCap`:
`Evictions` is the sequence of states after each round, and `Enforce` the first of
them within the cap.
A handle outside the arena owns a block, or a lease on it after `Export`.
`DropOwner` destroys the context: plain handles must be gone, as members of the
context are destroyed before its allocator; leases keep an `IOArena` alive. Sizes
are a few bytes. `RawBuffer::resize` of an empty block grows the capacity to the
size asked for.

### KernelPreparations and RuntimeLoader

`at` is where the calling thread is. `Call` is the entry of
`ExecutePreparationsImpl`; its loop is one step per candidate: `SkipCandidate`,
`BlockCandidate` (the budget), `ExecuteCandidate` (with the consumption of
sources and the removal from the required inputs), `ConsumeThrows`,
`CandidateThrows`. `Run` is `BeginRun`, `CheckInputs`, and per node `ReachNode`,
`Enforce`, `ExecuteNode`; `TuningThrows` is the failure of a tuning at its node, and
`RethrowRun` a run after a failure, which seeds the context and rethrows.
`Feed` is the client between calls; it may put a value of its own under the name
of an initializer, and `foreign` says where the context holds one. When such a
source is to be consumed, `ConsumePreparationSources` throws: the preparation is
complete, the sources before that one are dropped, and `pending_preparation_count_`
is not decremented. `SourcesAccounted` says that this is the worst that a failure
does to the books: the count is exact, or one too high after a failure.

The bytes of a preparation in the value store are those it really stored, at most
its estimate. The store starts with `SharedBytes`, what other sessions left there,
and the loader admits the model beside them; that other sessions shrink the store
meanwhile is not modelled, nor is an estimate that is too low.

`RuntimeLoader` adds `LoadSessions` for one model: `Declare`, then for every
tensor `Take`, `PrepareItem` and `PreparedItem` (repeated while sources are
consumed, as each consumption raises the limit), `StopReader`, `NotifyStop`,
`JoinReader`, the check of what is pending, `Cleanup`. The Reader is
`ReaderWaits`, `ReaderReads`, `ReaderNotifies`, and interleaves with the loader at
each of them. `Reservation` stands for the sum of the estimates at the start of
`LoadSessions`, `Limits` for limits from the least that is admitted to more than
enough. `Ascending` is the order of a loop over indices, `InOrder` that of a loop
over the tensors of the graph, `RequiredWithout` the loop that consumes the
sources of a preparation, each removal moving the last required input.

### ExecutionPlan

Value `i` is the output of node `i`. `Annotate` is `GraphBuilder::Finalize`:
old annotations go, lifetimes and in-place reuse are written. `Rewrite` adds a
use of a value and leaves annotations alone, the case for which `BuildActions`
has code; a rewrite before `Annotate` and one after it make annotations absent,
fresh or stale. `Build` is `BuildActions`, either the list of actions or the
reason of its refusal. Rewrites that replace or remove a use are left out: see the
disagreements below. `Select` is a loop over names that skips some of them,
and `After[n]` what the loop over the nodes has emitted and locked after `n`
of them. The replay performs the deletions as `Run` does. Locks,
unlocks and in-place targets are no-ops in this repository's session; the model
performs them as an executor that honours them would, since the plan is a public
product (`ExecutionPlan::actions`).

## Runs

`tlc -config <cfg> <module>` in this directory; `PROJECT.json` names the module
of each configuration. Sizes are distinct states.

| Run | Instance | Shows | States |
|---|---|---|---|
| `pool_safety` | 2 callers, 2 workers, 3 calls of 0 to 4 blocks | `ExactlyOnce`, `PayloadAlive`, `RemainingExact`, `NoSleepingParticipant`; the pool implements `RegionService` | 551 k |
| `pool_liveness` | 1 caller, 2 workers, 2 calls | `RunReturns`, `StopTerminates` | 35 k |
| `bounded_safety` | 1 pool with 2 workers, 2 callers, 3 blocks, depth 2, 2 nested regions per root callback | `TeamExact`, `NoOversubscription`, `StripesCover` | 558 k |
| `bounded_liveness` | 2 pools with 2 and 0 workers, 2 callers, 2 blocks, depth 2 | `CallReturns` | 151 k |
| `workers` | 0 to 2 workers, 3 jobs of which 2 throw, 2 clients or a batch adapter | `JobsConserved`, `WaitDrains`, `FailureReported`, `CallsReturn`, `QueuedJobRuns`; `WaitReportsBatch`, `BatchCallsReturn` | 256 k |
| `registry` | 2 sessions, 3 keys (one serial), capacity 2, 4 executors, 1 fork | `CapacityHeld`, `OneExecutorPerKey`, `ThreadsAreLocal`, `ExhaustionJustified` | 61 k |
| `dispatch` | 2 threads, a plain and a bounded executor, 3 participants, up to 3 iterations, 3 calls, depth 3 | `EachIterationOnce`, `BindingsRestored`, `CountersConsistent` | 3.3 M |
| `session` | 1 calling thread, 2 contexts, 1 completion, 1 waiter, 3 blocks, 2 rows, 1 view | `SnapshotStable`, `WaitReturns`; the session implements `FeedbackService` | 1.1 M |
| `arena` | each allocator, 2 slots (an `IOArena` grows to 3), blocks of 0 to 3 bytes, caps 0, 3 and 5 | `SlotsPartitioned`, `RetentionExact`, `HandlesExclusive` | 424 k |
| `loader` | 2 nodes, 4 preparations, 3 initializers, 3 ways to make them external, 3 limits, 1 byte of another session in the store | `NothingForgotten`, `SourcesAccounted`, `NodeReady`, `AdmittedBytes`, `ReaderHandoff`, `CallReturns` | 920 k |
| `plan` | 3 nodes, all graphs of 1 or 2 inputs per node over 1 input and 1 initializer, 1 rewrite | `ReadsIntact`, `LocksBalanced`, `RunsClean` | 1.19 M |
| `wait_idle_inline` | no workers, 2 clients, 2 jobs | expects `WaitIdleDrains` violated | |

The last one states what a header says and the code does not do; see
[disagreements](#where-the-code-and-its-documentation-disagree).

Why the bounds are enough to meet the hard cases:

* *Pool.* The publication protocol is about a worker that is late by one or two
  generations. Three calls give a worker time to validate one generation and
  act two publications later; two callers make the publications come from
  different frames; block counts 0, 1, 2, 3 and 4 with a capacity of 3 cover
  the empty call, the inline call, a region that leaves a worker out, a full
  region and the refused call. The theorems cover every other size.
* *Bounded pool.* Two workers are the least with which two regions of different
  depth have a worker each, so that two owners wait on one condition variable;
  three blocks are the least with which a participant has a stride of more
  than one block. In the liveness run the second pool has no worker: a caller
  of each pool calls the other one, which is what a circular wait takes.
* *Worker pool.* Two workers and two clients make every notification reach the
  wrong thread in some behaviour; with three jobs one can be queued, one
  running and one late; two that throw make the first exception compete.
* *Registry.* Capacity 2 with three keys makes eviction, sharing and exhaustion
  happen; four executor names allow two generations of executors; more forks
  repeat the first one.
* *Dispatch.* Depth 3 with two executors has a call back to the first executor
  from inside the second, besides all four cases of direct nesting; 3
  iterations over 1, 2 or 3 participants have a remainder and none.
  The theorems cover every other size.
* *Session.* Two rows are the least with which an append goes in place once and
  relocates once; a second context can hold an alias from an earlier call; three
  blocks are the session's, a view's and the new one.
* *Arena.* With two slots and a third one that only an `IOArena` adds, every
  branch of `Allocate` is taken; caps of 0, one block and a mix of blocks make
  eviction take none, one or all.
* *Loader.* The instance has a preparation that waits for another, one that waits
  for the output of a node, and one that fits only after another consumed its
  source, and one whose second source is dropped before a third that may be
  foreign. Limits 11 and 12 are at the points where the next preparation just does
  or does not fit, 21 is enough for all; with two or three external tensors the
  Reader sleeps, is ahead, and fails.
* *Plan.* Three nodes are the least with a producer, a use and a use after it;
  one rewrite makes an annotation stale, and one before the annotation gives
  nodes of three inputs.

Symmetry is used only in safety runs, over callers or threads that no action
and no property tells apart. Deadlock is checked in `ParallelPool`,
`BoundedPool`, `ExecutorRegistry` and `FeedbackSession` runs, where a `Terminated` step marks the
one good end (or the system never ends); the other systems may stop when the
bound on calls or jobs is used up.

Bounds in guards: `MaxCalls`, `MaxDepth`, `MaxNested`, `MaxBlocks`, `MaxTotal`,
`MaxForks`, `MaxThreads`, `MaxRows`, `MaxViews`, `MaxSlots`, `MaxBytes`,
`MaxRewrites`, `MaxArity`; the set `Jobs` (a job is enqueued once) and the set
`Executors` bound creation.

## Fairness

* *A thread that can take a step takes one* (weak fairness per thread). The
  threads are operating-system threads of one priority, and every wait of the
  code is a wait on a mutex, on a condition variable or on an atomic.
* *A mutex is handed over* (strong fairness for the steps that lock `mu_` or
  `region_mu_` where a model has a step for it). `std::mutex` makes no formal
  promise, but its implementations do not starve a waiter forever, and without
  this no program with locks has a liveness property.
* *A callback or a job ends.* The code runs user functions and can promise
  nothing if they do not return. In `BoundedPool` a callback opens at most
  `MaxNested` nested regions, so it ends.
* *Session and loader.* Weak fairness for the steps of a thread inside a call,
  for a thread that has ended a task and not notified yet, for a notified waiter
  and for the Reader: all are threads between two statements of the code.
* No fairness for calls, nested calls, enqueueing, destruction, failures and
  spurious wakeups: none of them has to happen. Liveness therefore never rests
  on a spurious wakeup.

## Proofs

Checked by `tlapm`; nothing is assumed except the named `ASSUME`s on constants,
which TLC evaluates in every run: sizes are natural numbers, sets of threads,
clients and blocks are finite, the bounded executors are executors, and values
that stand for different things in the code are different (`NoOne` is no caller,
a client is no worker, `nullptr` is no region, counter state, row or thread).
Of the loader's constants more is assumed, each a fact the surrounding code
establishes. `PlanAssumption`: a node reads required inputs or outputs of
earlier nodes and nothing is deleted before its last reader (what
`ReadsAreIntact` says of plans), names of results differ from names of inputs, and consumable
initializers are required inputs (`ConsumePreparationSources` throws otherwise).
`PreparationAssumption`: `SIZE_MAX`, the limit of a run, admits every preparation
after any others. `LoaderAssumption`: `InitializerOrder` lists the initializers,
and the reservation covers their bytes, as `LoadSessions` adds up all tensors
before it admits the model. Of the graphs that `ExecutionPlan` starts from it is
assumed that they are topological, that no input has the name of a result and
that outputs are values of the graph: ONNX requires all three.

The main theorems are listed in `PROJECT.json`. Each safety theorem goes the
same way: an inductive invariant `IInv`, checked by TLC before it was proved,
one lemma per action that it is preserved, and the property as a consequence.

**`ParallelPoolProofs`** (2591 obligations): `TypeCorrect`, `RunIsExactlyOnce`,
`PayloadStaysAlive`, `JoinIsSound`, `NoWakeupLost` for every number of workers,
callers and calls. None of the properties is inductive: that the join counter is exact says
nothing about a worker that is about to join a region that is closed. The
inductive invariant `IInv` adds

* `LockInv`, who holds which mutex in which control state, hence one region at
  a time;
* `LifeInv`, the order of construction, use and stop;
* `ParityInv`, the generation is odd exactly during a publication or after stop;
* `ContentInv`, what the publication holds at each of its stages;
* `SpinInv`, what a worker on the unlocked path knows: its generation is even,
  not from the future, not the last one it took part in, and if it is still
  current then the worker is active;
* `JoinedInv`, a worker past the last check belongs to the open region and has
  its payload;
* `RunsInv`, which blocks ran, told by `last_generation`;
* `QuietInv`, between regions every active worker has taken part in the last
  one: a region does not close before, so no worker can join it afterwards;
* `WakeInv`, a worker that was notified stays awake until it can join.

Most steps move a thread inside a class of control states that the invariant
does not distinguish; lemma `QuietMoves` treats them together. The
publication, the unlocked reads, the join and the stop have a lemma each, with
one step per conjunct.

`PoolImplementsService` is the refinement: under the mapping `Phases` the call
of a caller is idle, requested, running or finished, `runs` is itself, and with
`IInv` each step of the pool is the step of `RegionService` that one would
expect or leaves the mapped state alone. A worker's block, for instance, is a
step `Execute` of the service because `JoinedInv` says which region it belongs
to and `RunsInv` that the block has not run.

**`CpuExecutorProofs`** (1852 obligations). Of the registry: `RegistryTypeCorrect`,
`CapacityIsHeld`, `SharingIsExact`, `JoinsStayLocal`, `ExhaustionIsJustified`
for every number of sessions, keys, executors and forks. `CapacityHeld` speaks
of executors with threads in this process, the code's check of the size of its
table; `TrackedInv` connects the two: every leased executor of this process is
in the table, and a registry that has not noticed a fork has no executor with
threads. `EntriesInv` bounds the table and makes keys unique; `JoinedInv` says
that an executor was joined by its own process only. Lemma `RoomIsFree` states what
eviction returns.

Of `ParallelFor`: `BlocksTile`, the ranges of
`BlockContext::Run` tile the iterations for every total and every number of
participants: consecutive, in order, from 0 to the total. The argument is the
division identity and the monotonicity of the minimum with the remainder.
Integers are unbounded here; in the code `total` and the products stay below
`total`, so 64 bits cannot overflow. From it `IterationsRunOnce`, and besides
`BindingsAreRestored` and `CountersAreConsistent`, for any number of threads and
executors and any depth of nesting. `FramesInv` says that the iterations that
were run are those of the blocks that were run. `BindInv` describes the whole
stack of a thread, not only its innermost call: what a call restores is what the
call below it installed, which is what a `Return` or a `Throw` needs.
`CounterInv` adds to the inline dispatches the calls that were counted and may
yet be counted as inline; without them an increment at the end of a call could
overtake the dispatches.

**`BoundedPoolProofs`** (1763 obligations): `TeamsAreExact`,
`NeverOversubscribed`, `StripesAreCovered` for every number of pools, workers,
callers, blocks, nested regions and every depth. `StackInv` ties the region
objects to the depth of a thread, `LocalInv` its thread-local pool and flag to
the regions on its stack and to `region_mu`: that is why a thread which skips
the lock already holds it. `TeamInv` says which workers a region has, with
distinct participant numbers, `RunsInv` that a block has run exactly when its
participant is done with its stripe. The lemmas about `Admitted` show that the
workers taken in order get the numbers 1, 2, ... without a gap, so the residues
of the stride cover all blocks.

**`WorkerPoolProofs`** (1748 obligations): `JobsAreConserved`, `WaitsDrain`,
`FailuresAreReported` and, for the adapter, `WaitsReportTheBatch`, for every
number of workers, clients and jobs. `QueueInv` says where a job is (once in the
queue, or with one thread, or executed), `PendingInv` that the count is the
length of the queue plus the number of running jobs, so that a wait that sees
zero is over. `LiveInv` excludes workers while a client drains the queue itself.
`ReportInv` is why `Start` may forget the exception that is kept: once `Shutdown`
is past its wait every failure of a job that is not late has been answered or
discarded. For the
adapter `AdapterInv` says that its thread is the only client, so no job is late,
and `BatchInv` that the pool's exception belongs to the current batch.

**`FeedbackSessionProofs`** (1014 obligations): `SnapshotsAreStable` and the
refinement `SessionImplementsService`, for every number of threads, contexts,
tasks, blocks and rows. `GrantInv` is the heart of the first: storage that
`PrepareAppend` granted for reuse has no other holder until the kernel has run,
because a view can only be made by a call and `BusyInv` makes calls exclusive.
For the refinement `ResultInv` says that the candidate is the retained value
with one more row, or one row, also if the rows were appended in place: then
`Publish` changes nothing that the service shows. `BusyInv` again is why no `Reset`
falls between `Succeed` and the return of the call.

**`BufferArenaProofs`** (2703 obligations): `SlotsArePartitioned`,
`RetentionIsExact`, `HandlesAreExclusive` for the three allocators, for every
number of slots, block size and cap. `PoolInv` says of an arena that the unused
list, the eviction list and the buckets each list their slots without
repetition, that these sets and the live slots partition the slots, and that
the retained bytes are the sum of the capacities of the free blocks. It is
parameterised by the three sets, so that each primitive (take a free block,
evict, retain, reuse, extend) has one lemma which the actions combine, and the
eviction loop is an induction over its rounds (`RoundsInv`). Sums over a set
are proved from their recursive definition (`SumExists`, `SumSplit`,
`SumRemove`); the provers cannot use the library's induction theorems, so
inductions are arguments about a least counterexample (`NoCounterexample`).

**`RuntimeLoaderProofs`** (3765 obligations): `LoadStaysWithinLimit`,
`ReaderHandsOver`, `SourcesAreAccounted`, `NodesAreReady` and
`NothingIsForgotten`, for every graph, every set of preparations with its sources,
dependencies and sizes, every limit and order of tensors, and every sequence of
load, runs and failures. The invariant `IInv` has, besides the types,

* `QueueInv`: the queue lists the queued preparations once each and none that is
  complete, the store has at most what was shared and what the complete ones may
  have prepared, and the pending count is exact, or one too high after a failure;
* `BooksInv`: the required inputs are those not consumed, at their recorded
  indices, and no consumer of a consumed initializer is pending;
* `ReachedInv`, `TakenInv`: an initializer in the context or consumed is one the
  loader has come to, an external one was taken from the Reader before; with
  `ReaderInv`, the Reader's counters and when it may be alive, this keeps the two
  threads on different tensors;
* `FailInv`: on which ways out there is a failure;
* `LimitInv`: the limit a call of `ExecutePreparationsImpl` was given is what the
  reservation leaves, and a candidate that was admitted respects it; `ReserveInv`:
  the reservation is the initial one less the bytes consumed before the current
  call, so the difference cannot wrap;
* `PendingInv`: a preparation that could run is queued or blocked by the limit.
  `NothingForgotten` speaks of the end of a call only and is not inductive: a
  candidate that is skipped must be queued again by whatever makes it ready;
* `RunInv`: the nodes that are left find their inputs in the context, among the
  consumed ones, or as outputs of nodes that come before them.

Most actions move only one of the two threads or one part of the session;
`MovedKeeps`, `WorkedKeeps` and `RanKeeps` say what such a step owes. The loop
over the sources of a preparation (`RequiredKeeps`) and the sums over sets of
initializers (`BytesSplit`) and of preparations are inductions of the same kind as in
`BufferArenaProofs`.

**`ExecutionPlanProofs`** (2040 obligations): `ReadsAreIntact`,
`LocksAreBalanced` and `RunsEndClean`, for every topological graph, every set of
outputs, every choice of sizes and any number of rewrites that add uses, before
and after the annotations are written. Rewrites that remove uses are outside the
model and the theorems: after one, two of the disagreements listed below occur.
The invariant has, besides that the graph stays topological,

* `MetaInv`, what is true of annotations however old: they name uses that the
  node has, since a rewrite only adds uses, and *a buffer that a node reuses is
  one that it releases*. The constructor tests releases and not reuses for
  staleness; by this link the test covers both;
* `FreshInv`: annotations as old as the graph release every result where it
  dies, so they are never refused and nothing is left over;
* `Replay`: there is a sequence of states, one before each action of the plan
  and one after the last, in which every action does what it is for (a lock finds
  its name unlocked, an unlock finds it locked, a node finds all it reads), the
  replay is at the state of its position, and the last state is clean. The three
  properties speak of one action or of the end; the sequence carries them from
  the construction to the run.

The work is in showing that the sequence exists when `Build` succeeds. `Leads(acts, a,
b)` says that a list of actions leads from state `a` to state `b`; it composes
(`LeadsOn`), so each of the pieces emitted for a node has a lemma of its own
(`LeadsLocks`, `LeadsNode`, `LeadsDeletes`, `LeadsUnlocks`) and `NodeLeads`
chains them. `StateAfter(n)` gives the state after `n` nodes in closed form: locked
are the sources used so far except those that are freed and have no use left
(`LockedStep`: what is unlocked at a node, explicitly or by topology, is exactly
what has its last use there), held is what was made and not deleted
(`DeletedInTime`), spoilt are the targets of reuses (`TargetFacts`: none is read
later). `LoopLeads` is the induction over the nodes. `NothingUnreleased` and
`LockedEnds` show that the two completeness checks of strict mode cannot fail.

The type theorems are not properties of a run: they serve the other proofs.

`WaitIdleDrains` is false and has no theorem; `WaitsDrain` is the part of it that is
true.

**Only model-checked**: all liveness (`RunReturns`, `StopTerminates`, the
`CallReturns` of two modules, `CallsReturn`, `QueuedJobRuns`,
`BatchCallsReturn`, `WaitReturns`), which is out of the prover's reach. Every
safety invariant and every refinement that a run checks is also proved.

## Where the code and its documentation disagree

One run expects a violation: it states what the repository says, and TLC's
counterexample shows what the code does instead.

* `wait_idle_inline`: on a pool without workers, `WaitIdle` returns when the
  queue is empty although another waiter still executes a job that was enqueued
  before; `worker_pool.h:38` says it waits for all queued work. `WaitDrains`, which
  holds, speaks of the other cases.

The next three are reached by the passing runs, whose properties follow the code.

* `execution_plan.cc:660` says that neither the annotations nor the plan release a
  result that nobody reads; `ComputeResultLifetimeInfo` does schedule it after its
  producer, as `result_lifetime.h:35` says, and the plan deletes it there. The third
  conjunct of `RunsClean` asserts what the header says: with fresh annotations
  nothing but the outputs is left. Without annotations dead results stay, as the
  comment says.
* After `SubmitTask` without `Start`, `Clear` passes its check
  and leaves a queued job; `thread_pool.h:80` says it clears pending jobs, and
  `thread_pool.cc:179` that the state is empty. `WaitReportsBatch` holds all the
  same, because the next `Wait` still runs that job and reports it.
* After `Start(n)` and `Wait`, a job submitted without a new
  `Start` runs on a worker thread because the thread count of the earlier batch
  is kept; `thread_pool.h:48` says it will be run inline by `Wait`. The properties
  hold wherever it runs.

The others concern cases that the models leave out.

* `counters()` can return more inline dispatches than
  dispatches; `cpu_executor.h:176` calls it a consistent snapshot.
* A second `WriteToMetadata` does not remove in-place entries of nodes that have
  none any more, and an in-place entry is an input index: after a rewrite that
  removes or replaces that input the plan names another buffer
  (`execution_plan.cc:554`), which nothing checks. `GraphBuilder::Finalize`
  clears the entries and this session ignores them.
* After a rewrite that removes the last use of an input, the annotation that
  remains makes a strict plan unlock an input that it never locked;
  `execution_plan.cc:495` says that each is locked once and unlocked once.
* `kDeleteShape` calls `RemoveShape`, which erases the shape only, while kernels
  store shape-tagged results as tensors: these stay until the end of the run
  although the plan counts them as released.

A job that `Enqueue` accepts while `Shutdown` is past
its drain may stay in the queue of the stopped pool (until a later `Start` or
`WaitIdle`), or fail with an exception that the next `Start` discards. The
properties of the `workers` run say exactly that much: `WaitDrains` speaks of
the jobs enqueued before the call, `FailureReported` exempts the late ones. A
failure whose exception `WorkerPool::Shutdown` takes is never seen by a client:
`discarded` says so, and the header promises nothing else.

## Abstractions common to the modules

* *Memory model.* Atomic accesses are sequentially consistent steps. The code
  uses acquire and release pairs on `generation_`, `active_workers_`,
  `remaining_` and `pending`; what a weaker order would allow beyond the
  interleavings is not modelled.
* *Critical sections* that no unlocked access can observe are one step. The
  publication of `ParallelPool`, which can be observed, is not.
* *Data races.* `WorkerPool::Shutdown` clears `workers_` without the mutex while
  `Enqueue` may read it: both values the read can have lead to the same
  successor, since no worker is left to notify. `WaitIdle` together with
  `Shutdown` is excluded (hazard list).
* *Time.* A spin phase may end at any iteration: spinning and parking are both
  possible at every point where the code chooses by count or clock.
* *Callbacks* of pools do not throw (`parallel_for.h` demands it); callbacks of
  inline calls of `ParallelFor` and jobs of `WorkerPool` do.

## Not modelled

`GlobalThreadPoolState`, `ForkJoin` and the region collector; the tuning cache
and the calibration store; mapped payloads. In modelled parts: subgraphs and
function bodies, nodes with several outputs, shape-tagged values, scratch
buffers, several persistent bindings, several models in one load, the
generation loop. Cost model of `PlanParallelFor` (floating point), external dispatch and region
events of `CpuExecutor`; topology and policy resolution (no state); kernels,
shapes, expressions, gradients, patterns and schemas (sequential computation
whose correctness is numerical or a table); wire formats, flatbuffers and
cryptography (data conversion over bytes); the Python layer and the tools.
Every part is listed in `PROJECT.json` with the reason.

## Plan

What is left, in order:

1. `GlobalPool` (replacement after fork), `ForkJoin` (thread budget),
   `RegionCollector` (exclusive hardware counters).
2. The files shared by processes (tuning cache, calibration store), and the
   reference counts of mapped payloads.
