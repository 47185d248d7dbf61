----------------------------- MODULE WorkerPool ------------------------------
(***************************************************************************)
(* The persistent queued pool (onnx_threads/src/thread_pool.cc, class      *)
(* WorkerPool): Start, Enqueue, WaitIdle, Shutdown and the worker loop.    *)
(*                                                                         *)
(* jobs_, pending_jobs_, stop_, started_ and first_exception_ are only     *)
(* accessed inside critical sections of mutex_: a critical section is one  *)
(* step, and a notification sent after the unlock is a step of its own.    *)
(*                                                                         *)
(* workers_ is not protected by mutex_ in WaitIdle and Shutdown, so one    *)
(* thread, the Owner, starts and shuts down the pool and no other thread   *)
(* is inside WaitIdle meanwhile.                                           *)
(***************************************************************************)
EXTENDS Integers, Sequences, FiniteSets, Functions

CONSTANTS
    Clients,      \* threads that use the pool
    Owner,        \* the client that starts it and shuts it down
    MaxThreads,   \* bound on num_threads
    Jobs,         \* bound: each job is enqueued at most once
    Failing,      \* the jobs that throw
    None

ASSUME ConstantsAssumption == /\ Owner \in Clients
                              /\ MaxThreads \in Nat
                              /\ Failing \subseteq Jobs
                              /\ None \notin Jobs
                              /\ IsFiniteSet(Clients)
                              /\ Clients \cap Nat = {}

Workers == 1 .. MaxThreads
Threads == Clients \cup Workers

VARIABLES
    jobs,             \* jobs_
    pending_jobs,     \* pending_jobs_
    stop,             \* stop_
    started,          \* started_
    first_exception,  \* first_exception_: the job whose exception it is, or None
    pc,               \* control state of each thread
    job,              \* the job a thread has popped and executes
    op,               \* the call a client is in: WaitIdle or Shutdown
    before,           \* history: jobs enqueued when that call began, none outside calls
    submitted,        \* history: jobs enqueued so far
    late,             \* history: those enqueued while Shutdown ran
    executed,         \* history: how often each job was executed
    answered,         \* history: the failures an exception of WaitIdle stands for
    discarded         \* history: the failures whose exception Shutdown dropped

vars == <<jobs, pending_jobs, stop, started, first_exception, pc, job, op, before,
          submitted, late, executed, answered, discarded>>
history == <<before, submitted, late, executed, answered, discarded>>

Init ==
    /\ jobs = <<>>
    /\ pending_jobs = 0
    /\ stop = FALSE
    /\ started = FALSE
    /\ first_exception = None
    /\ pc = [t \in Threads |-> IF t \in Clients THEN "idle" ELSE "off"]
    /\ job = [t \in Threads |-> None]
    /\ op = [c \in Clients |-> "none"]
    /\ before = [c \in Clients |-> {}]
    /\ submitted = {}
    /\ late = {}
    /\ executed = [j \in Jobs |-> 0]
    /\ answered = {}
    /\ discarded = {}

Goto(t, label) == pc' = [pc EXCEPT ![t] = label]

\* workers_ holds the threads that were started and not joined.
LiveWorkers == {w \in Workers : pc[w] # "off"}

ShuttingDown == op[Owner] = "shutdown"

(***************************************************************************)
(* Start and Enqueue.                                                      *)
(***************************************************************************)

\* Start: the workers that could be created run; when the creation of a thread
\* fails, Start throws and leaves the pool started with those before it.
Start(n) ==
    /\ pc[Owner] = "idle"
    /\ \A c \in Clients : op[c] = "none"
    /\ ~started
    /\ stop' = FALSE
    /\ started' = TRUE
    /\ first_exception' = None
    /\ \E created \in 0 .. n :
        pc' = [t \in Threads |-> IF t \in 1 .. created THEN "loop" ELSE pc[t]]
    /\ UNCHANGED <<jobs, pending_jobs, job, op, history>>

\* Mutant of Enqueue: the job is pushed before the workers are counted busy, and
\* the increment is lost.
EnqueueUncounted(c, j) ==
    /\ pc[c] = "idle"
    /\ started
    /\ j \notin submitted
    /\ jobs' = Append(jobs, j)
    /\ submitted' = submitted \cup {j}
    /\ late' = IF ShuttingDown THEN late \cup {j} ELSE late
    /\ Goto(c, IF LiveWorkers # {} THEN "notify" ELSE "idle")
    /\ UNCHANGED <<pending_jobs, stop, started, first_exception, job, op, before,
                   executed, answered, discarded>>

\* Enqueue up to the unlock; it throws, and does nothing, if not started.
Enqueue(c, j) ==
    /\ pc[c] = "idle"
    /\ started
    /\ j \notin submitted
    /\ pending_jobs' = pending_jobs + 1
    /\ jobs' = Append(jobs, j)
    /\ submitted' = submitted \cup {j}
    /\ late' = IF ShuttingDown THEN late \cup {j} ELSE late
    /\ Goto(c, IF LiveWorkers # {} THEN "notify" ELSE "idle")
    /\ UNCHANGED <<stop, started, first_exception, job, op, before, executed,
                   answered, discarded>>

\* work_cv_.notify_one after the unlock: wakes one sleeper, if there is one.
NotifyWork(c) ==
    /\ pc[c] = "notify"
    /\ LET asleep == {w \in Workers : pc[w] = "asleep"}
       IN  IF asleep = {} THEN Goto(c, "idle")
           ELSE \E w \in asleep : pc' = [pc EXCEPT ![w] = "loop", ![c] = "idle"]
    /\ UNCHANGED <<jobs, pending_jobs, stop, started, first_exception, job, op,
                   history>>

(***************************************************************************)
(* Workers.                                                                *)
(***************************************************************************)

\* A thread takes the first job of the queue.
Pop(t) ==
    /\ job' = [job EXCEPT ![t] = Head(jobs)]
    /\ jobs' = Tail(jobs)
    /\ Goto(t, "run")

\* Mutant of WorkerWait: stop_ ends the loop although jobs are queued.
WorkerWaitStops(w) ==
    /\ pc[w] = "loop"
    /\ IF stop THEN Goto(w, "exited") /\ UNCHANGED <<jobs, job>>
       ELSE IF jobs # <<>> THEN Pop(w)
       ELSE Goto(w, "asleep") /\ UNCHANGED <<jobs, job>>
    /\ UNCHANGED <<pending_jobs, stop, started, first_exception, op, history>>

\* The critical section of WorkerLoop: wait for work or stop_, leave the loop
\* when stopped with an empty queue, else take a job.
WorkerWait(w) ==
    /\ pc[w] = "loop"
    /\ IF jobs # <<>> THEN Pop(w)
       ELSE Goto(w, IF stop THEN "exited" ELSE "asleep") /\ UNCHANGED <<jobs, job>>
    /\ UNCHANGED <<pending_jobs, stop, started, first_exception, op, history>>

\* The control state after Execute: back to the loop the thread popped from.
AfterJob(t) == IF t \in Workers THEN "loop" ELSE "drain"

\* Execute: the job has run; keep the first exception, count down, and wake
\* every waiter of done_cv_ when nothing is pending.
Execute(t) ==
    /\ pc[t] = "run"
    /\ first_exception' = IF job[t] \in Failing /\ first_exception = None
                          THEN job[t] ELSE first_exception
    /\ pending_jobs' = pending_jobs - 1
    /\ pc' = [u \in Threads |->
                IF u = t THEN AfterJob(t)
                ELSE IF pending_jobs = 1 /\ pc[u] = "blocked" THEN "wait" ELSE pc[u]]
    /\ job' = [job EXCEPT ![t] = None]
    /\ executed' = [executed EXCEPT ![job[t]] = @ + 1]
    /\ UNCHANGED <<jobs, stop, started, op, before, submitted, late, answered,
                   discarded>>

(***************************************************************************)
(* WaitIdle and Shutdown.                                                  *)
(***************************************************************************)

\* WaitIdleImpl: the unlocked test of workers_ chooses between draining the
\* queue on this thread and waiting for the workers.
BeginWait(c, name) ==
    /\ pc[c] = "idle"
    /\ op' = [op EXCEPT ![c] = name]
    /\ before' = [before EXCEPT ![c] = submitted]
    /\ Goto(c, IF LiveWorkers = {} THEN "drain" ELSE "wait")
    /\ UNCHANGED <<jobs, pending_jobs, stop, started, first_exception, job,
                   submitted, late, executed, answered, discarded>>

WaitIdle(c) ==
    /\ ~ShuttingDown
    /\ BeginWait(c, "wait_idle")

\* Shutdown(), from a client or the destructor; ShutdownAndTakeException returns at
\* once if the pool is not started.
Shutdown ==
    /\ started
    /\ \A c \in Clients \ {Owner} : op[c] = "none"
    /\ BeginWait(Owner, "shutdown")

\* One iteration of the inline loop.
Drain(c) ==
    /\ pc[c] = "drain"
    /\ IF jobs = <<>> THEN Goto(c, "take") /\ UNCHANGED <<jobs, job>>
       ELSE Pop(c)
    /\ UNCHANGED <<pending_jobs, stop, started, first_exception, op, history>>

\* Mutant of AwaitDone: the queue is tested, not the count of pending jobs.
AwaitDoneQueueEmpty(c) ==
    /\ pc[c] = "wait"
    /\ Goto(c, IF jobs = <<>> THEN "take" ELSE "blocked")
    /\ UNCHANGED <<jobs, pending_jobs, stop, started, first_exception, job, op,
                   history>>

\* done_cv_.wait: the test and the block are one step under mutex_.
AwaitDone(c) ==
    /\ pc[c] = "wait"
    /\ Goto(c, IF pending_jobs = 0 THEN "take" ELSE "blocked")
    /\ UNCHANGED <<jobs, pending_jobs, stop, started, first_exception, job, op,
                   history>>

\* Where WaitIdleImpl returns to: WaitIdle ends, Shutdown goes on.
AfterWait(c) ==
    /\ Goto(c, IF op[c] = "shutdown" THEN "stop" ELSE "idle")
    /\ IF op[c] = "shutdown" THEN UNCHANGED <<op, before>>
       ELSE /\ op' = [op EXCEPT ![c] = "none"]
            /\ before' = [before EXCEPT ![c] = {}]

\* The failures so far.
Failed == {j \in Failing : executed[j] = 1}

\* Mutant of TakeException: first_exception_ is cleared before it is moved out,
\* so that nobody gets it.
TakeExceptionCleared(c) ==
    /\ pc[c] = "take"
    /\ first_exception' = None
    /\ AfterWait(c)
    /\ UNCHANGED <<jobs, pending_jobs, stop, started, job, submitted, late, executed,
                   answered, discarded>>

\* The second critical section of WaitIdleImpl: take the exception and clear it.
\* WaitIdle throws it; Shutdown() and the destructor drop what they get.
TakeException(c) ==
    /\ pc[c] = "take"
    /\ answered' = IF op[c] = "wait_idle" /\ first_exception # None
                   THEN answered \cup Failed ELSE answered
    /\ discarded' = IF op[c] = "shutdown" /\ first_exception # None
                    THEN discarded \cup Failed ELSE discarded
    /\ first_exception' = None
    /\ AfterWait(c)
    /\ UNCHANGED <<jobs, pending_jobs, stop, started, job, submitted, late, executed>>

RaiseStop ==
    /\ pc[Owner] = "stop"
    /\ stop' = TRUE
    /\ Goto(Owner, "notify_all")
    /\ UNCHANGED <<jobs, pending_jobs, started, first_exception, job, op, history>>

\* Mutant of NotifyAll: work_cv_.notify_one.
NotifyAllWakesOne ==
    /\ pc[Owner] = "notify_all"
    /\ LET asleep == {w \in Workers : pc[w] = "asleep"}
       IN  IF asleep = {} THEN Goto(Owner, "join")
           ELSE \E w \in asleep : pc' = [pc EXCEPT ![w] = "loop", ![Owner] = "join"]
    /\ UNCHANGED <<jobs, pending_jobs, stop, started, first_exception, job, op,
                   history>>

NotifyAll ==
    /\ pc[Owner] = "notify_all"
    /\ pc' = [t \in Threads |-> IF t = Owner THEN "join"
                                ELSE IF pc[t] = "asleep" THEN "loop" ELSE pc[t]]
    /\ UNCHANGED <<jobs, pending_jobs, stop, started, first_exception, job, op,
                   history>>

\* Join every worker and clear workers_.
Join ==
    /\ pc[Owner] = "join"
    /\ \A w \in LiveWorkers : pc[w] = "exited"
    /\ pc' = [t \in Threads |-> IF t = Owner THEN "clear"
                                ELSE IF t \in Workers THEN "off" ELSE pc[t]]
    /\ UNCHANGED <<jobs, pending_jobs, stop, started, first_exception, job, op,
                   history>>

ClearStarted ==
    /\ pc[Owner] = "clear"
    /\ started' = FALSE
    /\ op' = [op EXCEPT ![Owner] = "none"]
    /\ before' = [before EXCEPT ![Owner] = {}]
    /\ Goto(Owner, "idle")
    /\ UNCHANGED <<jobs, pending_jobs, stop, first_exception, job, submitted, late,
                   executed, answered, discarded>>

\* A condition variable may wake a waiter for no reason.
SpuriousWakeup(t) ==
    /\ pc[t] \in {"asleep", "blocked"}
    /\ Goto(t, IF pc[t] = "asleep" THEN "loop" ELSE "wait")
    /\ UNCHANGED <<jobs, pending_jobs, stop, started, first_exception, job, op,
                   history>>

-----------------------------------------------------------------------------

\* The steps that follow a call without a choice of the client.
ThreadStep(t) ==
    \/ Execute(t)
    \/ t \in Workers /\ WorkerWait(t)
    \/ t \in Clients /\ (NotifyWork(t) \/ Drain(t) \/ AwaitDone(t) \/ TakeException(t))
    \/ t = Owner /\ (RaiseStop \/ NotifyAll \/ Join \/ ClearStarted)

Next ==
    \/ \E n \in 0 .. MaxThreads : Start(n)
    \/ \E c \in Clients, j \in Jobs : Enqueue(c, j)
    \/ \E c \in Clients : WaitIdle(c)
    \/ Shutdown
    \/ \E t \in Threads : ThreadStep(t) \/ SpuriousWakeup(t)

\* A thread that can go on does, and a job ends.  Nobody has to call anything.
Fairness == \A t \in Threads : WF_vars(ThreadStep(t))

Spec == Init /\ [][Next]_vars
FairSpec == Spec /\ Fairness

-----------------------------------------------------------------------------
(***************************************************************************)
(* Properties.                                                             *)
(***************************************************************************)

Running == {t \in Threads : job[t] # None}

\* A job that Enqueue accepted is queued, or executed by one thread, or was
\* executed once: it is neither lost nor run twice, and pending_jobs_ counts the
\* first two kinds.
JobsConserved ==
    /\ pending_jobs = Len(jobs) + Cardinality(Running)
    /\ \A j \in Jobs :
        Cardinality({i \in DOMAIN jobs : jobs[i] = j})
          + Cardinality({t \in Threads : job[t] = j}) + executed[j]
        = IF j \in submitted THEN 1 ELSE 0

\* The wait of WaitIdle or Shutdown is over.
Waited(c) == pc[c] \in {"take", "stop", "notify_all", "join", "clear"}

\* Shutdown, and WaitIdle on a pool with workers, end their wait only when every
\* job that was enqueued before the call has been executed, whoever took it.
WaitDrains ==
    \A c \in Clients : Waited(c) /\ (op[c] = "shutdown" \/ LiveWorkers # {}) =>
        \A j \in before[c] : executed[j] = 1

\* What worker_pool.h says of WaitIdle, "Waits for all queued work", of any pool.
\* On a pool without workers the caller only empties the queue: a job that another
\* client has popped may still run when WaitIdle returns.
WaitIdleDrains ==
    \A c \in Clients : Waited(c) => \A j \in before[c] : executed[j] = 1

\* No failure is lost: a job that has failed is covered by an exception WaitIdle
\* has thrown since it failed, or its exception, or that of an earlier failure, is
\* recorded for the next call to take, or Shutdown dropped it.  What is recorded
\* is new, so no exception is thrown twice.  Only a job that was enqueued while
\* Shutdown ran may fail unheard: the next Start forgets it.
FailureReported ==
    /\ Failed \ (answered \cup discarded \cup late) # {} => first_exception # None
    /\ first_exception \notin answered \cup discarded

\* Every call returns, whichever threads sleep and however the jobs interleave.
CallsReturn == \A c \in Clients : pc[c] # "idle" ~> pc[c] = "idle"

\* A queued job is executed as long as a worker has not left its loop, even when
\* Shutdown has raised stop_: workers drain the queue before they exit.
QueuedJobRuns ==
    \A j \in Jobs :
        (j \in Range(jobs) /\ \E w \in Workers : pc[w] \in {"loop", "asleep", "run"})
            ~> executed[j] = 1
=============================================================================
