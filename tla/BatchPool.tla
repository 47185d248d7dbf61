------------------------------ MODULE BatchPool ------------------------------
(***************************************************************************)
(* The batch adapter that loads and saves delayed tensor blocks            *)
(* (onnx_threads/src/thread_pool.cc, class utils::ThreadPool) on top of    *)
(* WorkerPool: Start is lazy, SubmitTask starts the workers, Wait drains,  *)
(* joins and rethrows.  One thread, the stream's, uses an adapter.         *)
(***************************************************************************)
EXTENDS WorkerPool

VARIABLES
    is_started,         \* is_started_
    requested_threads,  \* requested_threads_
    call,               \* the adapter's call in progress: none, submit or wait
    task,               \* the job of a SubmitTask in progress
    error,              \* the exception Wait has taken from the workers
    batch               \* history: the jobs submitted since the last Wait

adapter == <<is_started, requested_threads, call, task, error, batch>>

BatchInit ==
    /\ Init
    /\ is_started = FALSE
    /\ requested_threads = 0
    /\ call = "none"
    /\ task = None
    /\ error = None
    /\ batch = {}

\* The stream's thread is in no call of the adapter.
Ready == call = "none" /\ pc[Owner] = "idle"

\* ThreadPool::Start only records the request; it throws if already started.
BatchStart(n) ==
    /\ Ready
    /\ ~is_started
    /\ is_started' = TRUE
    /\ requested_threads' = n
    /\ UNCHANGED <<vars, call, task, error, batch>>

\* SubmitTask: start the workers if there are none, then enqueue.
SubmitTask(j) ==
    /\ Ready
    /\ j \notin submitted
    /\ IF started
       THEN /\ Enqueue(Owner, j)
            /\ batch' = batch \cup {j}
            /\ UNCHANGED <<call, task>>
       ELSE /\ Start(requested_threads)
            /\ call' = "submit"
            /\ task' = j
            /\ UNCHANGED batch
    /\ UNCHANGED <<is_started, requested_threads, error>>

\* The rest of a SubmitTask that started the workers; it throws before Enqueue
\* if a worker could not be created.
SubmitEnqueue ==
    /\ call = "submit"
    /\ call' = "none"
    /\ task' = None
    /\ IF Cardinality(LiveWorkers) = requested_threads
       THEN Enqueue(Owner, task) /\ batch' = batch \cup {task}
       ELSE UNCHANGED <<vars, batch>>
    /\ UNCHANGED <<is_started, requested_threads, error>>

\* Mutant of Wait: an adapter whose Start was not called is taken for idle.
WaitIfStarted ==
    /\ Ready
    /\ call' = "wait"
    /\ error' = None
    /\ IF started /\ is_started THEN Shutdown ELSE UNCHANGED vars
    /\ UNCHANGED <<is_started, requested_threads, task, batch>>

\* WaitImpl, from Wait or the destructor: shut down the workers, if any.
Wait ==
    /\ Ready
    /\ call' = "wait"
    /\ error' = None
    /\ IF started THEN Shutdown ELSE UNCHANGED vars
    /\ UNCHANGED <<is_started, requested_threads, task, batch>>

\* The end of WaitImpl: the adapter is stopped and the exception rethrown.
WaitEnd ==
    /\ call = "wait"
    /\ pc[Owner] = "idle"
    /\ is_started' = FALSE
    /\ call' = "none"
    /\ batch' = {}
    /\ UNCHANGED <<vars, requested_threads, task, error>>

\* Clear throws if the adapter is started and otherwise relies on Wait to have
\* emptied the pool: it changes nothing.
Clear ==
    /\ Ready
    /\ ~is_started
    /\ UNCHANGED <<vars, adapter>>

\* A step of the workers or inside Shutdown.
PoolStep(t) ==
    /\ ThreadStep(t) \/ SpuriousWakeup(t)
    /\ error' = IF pc[Owner] = "take" /\ pc'[Owner] # "take"
                THEN first_exception ELSE error
    /\ UNCHANGED <<is_started, requested_threads, call, task, batch>>

BatchNext ==
    \/ \E n \in 0 .. MaxThreads : BatchStart(n)
    \/ \E j \in Jobs : SubmitTask(j)
    \/ SubmitEnqueue
    \/ Wait
    \/ WaitEnd
    \/ Clear
    \/ \E t \in Threads : PoolStep(t)

BatchFairness ==
    /\ \A t \in Threads : WF_<<vars, adapter>>(ThreadStep(t) /\ PoolStep(t))
    /\ WF_<<vars, adapter>>(SubmitEnqueue \/ WaitEnd)

BatchSpec == BatchInit /\ [][BatchNext]_<<vars, adapter>>
FairBatchSpec == BatchSpec /\ BatchFairness

-----------------------------------------------------------------------------
(***************************************************************************)
(* Properties.                                                             *)
(***************************************************************************)

\* When Wait returns, every job of the batch was executed once, the workers are
\* joined, and Wait throws exactly when a job of this batch failed, with the
\* exception of one of them: nothing leaks from one batch into the next.
WaitReportsBatch ==
    call = "wait" /\ pc[Owner] = "idle" =>
        /\ \A j \in batch : executed[j] = 1
        /\ error \in (batch \cap Failing) \cup {None}
        /\ error = None <=> batch \cap Failing = {}
        /\ LiveWorkers = {} /\ ~started /\ jobs = <<>>

\* Wait returns, and so does every SubmitTask.
BatchCallsReturn == (call # "none" \/ pc[Owner] # "idle") ~> Ready
=============================================================================
