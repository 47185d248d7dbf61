-------------------------- MODULE WorkerPoolProofs --------------------------
(***************************************************************************)
(* Proofs about WorkerPool and about the batch adapter on top of it, for   *)
(* every number of clients, workers and jobs.                              *)
(***************************************************************************)
EXTENDS BatchPool, FiniteSetTheorems, SequenceTheorems, TLAPS

Waiting == {"drain", "run", "wait", "blocked", "take"}
Stopping == {"stop", "notify_all", "join", "clear"}
ClientLabels == {"idle", "notify"} \cup Waiting \cup Stopping
WorkerLabels == {"off", "loop", "asleep", "run", "exited"}

TypeOK ==
    /\ jobs \in Seq(Jobs)
    /\ pending_jobs \in Int
    /\ stop \in BOOLEAN /\ started \in BOOLEAN
    /\ first_exception \in Failing \cup {None}
    /\ pc \in [Threads -> ClientLabels \cup WorkerLabels]
    /\ \A c \in Clients : pc[c] \in ClientLabels
    /\ \A w \in Workers : pc[w] \in WorkerLabels
    /\ job \in [Threads -> Jobs \cup {None}]
    /\ op \in [Clients -> {"none", "wait_idle", "shutdown"}]
    /\ before \in [Clients -> SUBSET Jobs]
    /\ submitted \subseteq Jobs
    /\ late \subseteq submitted
    /\ executed \in [Jobs -> {0, 1}]
    /\ answered \subseteq Failed
    /\ discarded \subseteq Failed

\* Which call a client is in follows from where it is, and Shutdown is the only
\* call on the pool while it runs.
CallInv ==
    /\ \A c \in Clients : op[c] = "none" <=> pc[c] \in {"idle", "notify"}
    /\ \A c \in Clients : pc[c] \in Stopping => op[c] = "shutdown"
    /\ \A c \in Clients : op[c] = "shutdown" => c = Owner
    /\ op[Owner] = "shutdown" => \A c \in Clients : c # Owner => op[c] = "none"

\* There are no workers outside Start and Join, nor while a client drains the
\* queue itself.
LiveInv ==
    (\/ ~started
     \/ pc[Owner] = "clear"
     \/ \E c \in Clients : pc[c] \in {"drain", "run"})
        => \A w \in Workers : pc[w] = "off"

\* A thread holds a job while it executes it.
HoldInv == \A t \in Threads : job[t] # None <=> pc[t] = "run"

\* Where a job may be: queued once, or held by one thread, or executed.
QueueInv ==
    /\ \A i, k \in 1..Len(jobs) : jobs[i] = jobs[k] => i = k
    /\ \A t, u \in Threads : job[t] = job[u] /\ job[t] # None => t = u
    /\ \A i \in 1..Len(jobs), t \in Threads : jobs[i] # job[t]
    /\ \A i \in 1..Len(jobs) : executed[jobs[i]] = 0
    /\ \A t \in Threads : job[t] # None => executed[job[t]] = 0
    /\ \A j \in Jobs : j \in submitted <=> \/ executed[j] = 1
                                           \/ \E i \in 1..Len(jobs) : jobs[i] = j
                                           \/ \E t \in Threads : job[t] = j

PendingInv == pending_jobs = Len(jobs) + Cardinality(Running)

\* What a waiting call has to wait for; Shutdown waits for every job that is not
\* late.
BeforeInv ==
    /\ \A c \in Clients : before[c] \subseteq submitted
    /\ op[Owner] = "shutdown" => submitted \ late \subseteq before[Owner]

\* When the wait is over, what was enqueued before the call was executed, unless a
\* client that drains a pool without workers still executes it.
WaitInv ==
    \A c \in Clients : pc[c] \in {"take", "stop", "notify_all", "join", "clear"} =>
        \A j \in before[c] :
            \/ executed[j] = 1
            \/ op[c] = "wait_idle" /\ \E d \in Clients \ {c} : job[d] = j

\* The exception that is kept is that of an executed job.
ExceptionInv == first_exception # None => executed[first_exception] = 1

\* Once Shutdown took the exception, and until the next Start, every failure of a
\* job that is not late was answered or dropped: Start may forget the one kept.
ReportInv ==
    (pc[Owner] \in Stopping \/ ~started) =>
        (Failing \cap submitted) \ late \subseteq answered \cup discarded

IInv == /\ TypeOK /\ CallInv /\ LiveInv /\ HoldInv /\ QueueInv /\ PendingInv
        /\ BeforeInv /\ WaitInv /\ ExceptionInv /\ ReportInv /\ FailureReported

-----------------------------------------------------------------------------
(***************************************************************************)
(* The pool.  Most steps move one thread and leave the jobs alone.         *)
(***************************************************************************)

LEMMA Disjoint ==
    /\ Owner \in Clients /\ Owner \in Threads /\ Owner \notin Workers
    /\ \A c \in Clients : c \in Threads /\ c \notin Workers
    /\ \A w \in Workers : w \in Threads /\ w \notin Clients
    /\ \A t \in Threads : t \in Workers \/ t \in Clients
    /\ None \notin Jobs /\ Failing \subseteq Jobs
BY ConstantsAssumption DEF Threads, Workers

LEMMA FiniteThreads == IsFiniteSet(Threads)
<1>1. IsFiniteSet(Clients)
  BY ConstantsAssumption
<1>2. IsFiniteSet(Workers)
  <2>1. 1 \in Int /\ MaxThreads \in Int
    BY ConstantsAssumption
  <2> QED
    BY <2>1, FS_Interval DEF Workers
<1> QED
  BY <1>1, <1>2, FS_Union DEF Threads

LEMMA InitInv == Init => IInv
<1> SUFFICES ASSUME Init PROVE IInv
  OBVIOUS
<1> USE Disjoint
<1>1. \A c \in Clients : pc[c] = "idle" /\ op[c] = "none"
  BY DEF Init
<1>2. \A w \in Workers : pc[w] = "off"
  BY DEF Init
<1>3. TypeOK
  <2>1. pc \in [Threads -> ClientLabels \cup WorkerLabels]
    BY DEF Init, ClientLabels, WorkerLabels
  <2>2. \A c \in Clients : pc[c] \in ClientLabels
    BY <1>1 DEF ClientLabels
  <2>3. \A w \in Workers : pc[w] \in WorkerLabels
    BY <1>2 DEF WorkerLabels
  <2>4. /\ job \in [Threads -> Jobs \cup {None}]
        /\ op \in [Clients -> {"none", "wait_idle", "shutdown"}]
        /\ before \in [Clients -> SUBSET Jobs]
    BY DEF Init
  <2>5. executed \in [Jobs -> {0, 1}] /\ answered = {} /\ discarded = {}
    BY DEF Init
  <2>6. jobs \in Seq(Jobs) /\ pending_jobs \in Int
    BY EmptySeq DEF Init
  <2>7. /\ stop \in BOOLEAN /\ started \in BOOLEAN
        /\ first_exception \in Failing \cup {None}
        /\ submitted \subseteq Jobs /\ late \subseteq submitted
    BY DEF Init
  <2> QED
    BY <2>1, <2>2, <2>3, <2>4, <2>5, <2>6, <2>7 DEF TypeOK
<1>4. CallInv
  BY <1>1 DEF CallInv, Stopping
<1>5. LiveInv /\ HoldInv
  BY <1>1, <1>2 DEF Init, LiveInv, HoldInv
<1>6. QueueInv
  BY DEF Init, QueueInv
<1>7. PendingInv
  <2>1. Running = {}
    BY DEF Init, Running
  <2> QED
    BY <2>1, FS_EmptySet DEF PendingInv, Init
<1>8. BeforeInv /\ WaitInv
  BY <1>1 DEF BeforeInv, WaitInv, Init
<1>9. ExceptionInv /\ ReportInv /\ FailureReported
  BY DEF Init, ExceptionInv, ReportInv, FailureReported, Failed
<1> QED
  BY <1>3, <1>4, <1>5, <1>6, <1>7, <1>8, <1>9 DEF IInv

\* What the steps that only move threads leave alone.
KeepsJobs == UNCHANGED <<jobs, pending_jobs, first_exception, job, history>>

LEMMA Moves ==
    ASSUME IInv, UNCHANGED <<jobs, pending_jobs, first_exception, job, submitted, late,
                             executed, answered, discarded>>,
           before' \in [Clients -> SUBSET Jobs], BeforeInv',
           pc' \in [Threads -> ClientLabels \cup WorkerLabels],
           \A c \in Clients : pc'[c] \in ClientLabels,
           \A w \in Workers : pc'[w] \in WorkerLabels,
           op' \in [Clients -> {"none", "wait_idle", "shutdown"}],
           stop' \in BOOLEAN, started' \in BOOLEAN,
           \A t \in Threads : pc'[t] = "run" <=> pc[t] = "run",
           CallInv', LiveInv', WaitInv', ReportInv'
    PROVE  IInv'
<1>1. TypeOK'
  BY DEF IInv, TypeOK, Failed
<1>2. HoldInv'
  BY DEF IInv, HoldInv
<1>3. QueueInv'
  BY DEF IInv, QueueInv
<1>4. PendingInv'
  BY DEF IInv, PendingInv, Running
<1>5. ExceptionInv' /\ FailureReported'
  BY DEF IInv, ExceptionInv, FailureReported, Failed
<1> QED
  BY <1>1, <1>2, <1>3, <1>4, <1>5 DEF IInv

\* A thread moves and no call begins or ends.
LEMMA MovesInCall ==
    ASSUME IInv, KeepsJobs, UNCHANGED <<op, started>>,
           pc' \in [Threads -> ClientLabels \cup WorkerLabels],
           \A c \in Clients : pc'[c] \in ClientLabels,
           \A w \in Workers : pc'[w] \in WorkerLabels,
           stop' \in BOOLEAN,
           \A t \in Threads : pc'[t] = "run" <=> pc[t] = "run",
           \A c \in Clients : pc'[c] = "drain" => pc[c] = "drain",
           \A w \in Workers : pc[w] = "off" => pc'[w] = "off",
           pc'[Owner] = "clear" => pc[Owner] = "clear" \/ \A w \in Workers : pc'[w] = "off",
           \A c \in Clients : pc'[c] \in {"idle", "notify"} <=> pc[c] \in {"idle", "notify"},
           \A c \in Clients : pc'[c] \in Stopping => pc[c] \in Stopping,
           \A c \in Clients : pc'[c] = "take" => pc[c] = "take"
               \/ \A j \in before[c] : \/ executed[j] = 1
                                       \/ /\ op[c] = "wait_idle"
                                          /\ \E d \in Clients \ {c} : job[d] = j
    PROVE  IInv'
<1> USE Disjoint
<1>1. op' \in [Clients -> {"none", "wait_idle", "shutdown"}] /\ started' \in BOOLEAN
  BY DEF IInv, TypeOK
<1>2. CallInv'
  BY DEF IInv, CallInv
<1>3. LiveInv'
  BY DEF IInv, LiveInv
<1>4. WaitInv'
  <2> SUFFICES ASSUME NEW c \in Clients,
                      pc'[c] \in {"take", "stop", "notify_all", "join", "clear"},
                      NEW j \in before'[c]
               PROVE  \/ executed'[j] = 1
                      \/ op'[c] = "wait_idle" /\ \E d \in Clients \ {c} : job'[d] = j
    BY DEF WaitInv
  <2>1. before' = before /\ executed' = executed /\ job' = job /\ op' = op
    BY DEF KeepsJobs, history
  <2>2. CASE pc[c] \in {"take", "stop", "notify_all", "join", "clear"}
    BY <2>1, <2>2 DEF IInv, WaitInv
  <2>3. CASE pc[c] \notin {"take", "stop", "notify_all", "join", "clear"}
    BY <2>1, <2>3 DEF Stopping
  <2> QED
    BY <2>2, <2>3
<1>5. ReportInv'
  BY DEF IInv, ReportInv, KeepsJobs, history
<1>6. before' \in [Clients -> SUBSET Jobs] /\ BeforeInv'
  BY DEF IInv, TypeOK, BeforeInv, KeepsJobs, history
<1>7. UNCHANGED <<jobs, pending_jobs, first_exception, job, submitted, late, executed,
                  answered, discarded>>
  BY DEF KeepsJobs, history
<1> QED
  BY <1>1, <1>2, <1>3, <1>4, <1>5, <1>6, <1>7, Moves

LEMMA NotifyWorkInv == ASSUME IInv, NEW c \in Clients, NotifyWork(c) PROVE IInv'
<1> USE Disjoint
<1>1. pc[c] = "notify" /\ KeepsJobs /\ UNCHANGED <<op, started, stop>>
  BY DEF NotifyWork, KeepsJobs, history
<1>2. pc \in [Threads -> ClientLabels \cup WorkerLabels]
  BY DEF IInv, TypeOK
<1>3. /\ pc' \in [Threads -> ClientLabels \cup WorkerLabels]
      /\ pc'[c] = "idle"
      /\ \A t \in Threads : t # c =>
            pc'[t] = pc[t] \/ (t \in Workers /\ pc[t] = "asleep" /\ pc'[t] = "loop")
  <2>1. CASE pc' = [pc EXCEPT ![c] = "idle"]
    BY <2>1, <1>2 DEF ClientLabels
  <2>2. ASSUME NEW w \in Workers, pc[w] = "asleep",
               pc' = [pc EXCEPT ![w] = "loop", ![c] = "idle"]
        PROVE  <1>3
    <3>1. w # c /\ "idle" \in ClientLabels /\ "loop" \in WorkerLabels
      BY DEF ClientLabels, WorkerLabels
    <3> QED
      BY <2>2, <3>1, <1>2
  <2> QED
    BY <2>1, <2>2 DEF NotifyWork, Goto
<1>4. /\ \A d \in Clients : pc'[d] \in ClientLabels
      /\ \A w \in Workers : pc'[w] \in WorkerLabels
  BY <1>3 DEF IInv, TypeOK, ClientLabels, WorkerLabels
<1>5. stop' \in BOOLEAN
  BY <1>1 DEF IInv, TypeOK
<1>6. \A d \in Clients : d # c => pc'[d] = pc[d]
  BY <1>3
<1>7. \A t \in Threads : pc'[t] = "run" <=> pc[t] = "run"
  BY <1>1, <1>3
<1>8. \A w \in Workers : pc[w] = "off" => pc'[w] = "off"
  BY <1>3
<1>9. /\ \A d \in Clients : pc'[d] = "drain" => pc[d] = "drain"
      /\ \A d \in Clients : pc'[d] \in {"idle", "notify"} <=> pc[d] \in {"idle", "notify"}
      /\ \A d \in Clients : pc'[d] \in Stopping => pc[d] \in Stopping
      /\ \A d \in Clients : pc'[d] = "take" => pc[d] = "take"
      /\ pc'[Owner] = "clear" => pc[Owner] = "clear"
  BY <1>1, <1>3, <1>6 DEF Stopping
<1> QED
  BY <1>1, <1>3, <1>4, <1>5, <1>7, <1>8, <1>9, MovesInCall

\* A thread moves on its own.
LEMMA MovesAlone ==
    ASSUME IInv, KeepsJobs, UNCHANGED <<op, started>>, stop' \in BOOLEAN,
           NEW t \in Threads, NEW label, Goto(t, label),
           pc[t] # "run", label # "run", label # "drain", pc[t] # "off",
           t \in Workers => label \in WorkerLabels,
           t \in Clients => /\ label \in ClientLabels
                            /\ label \in {"idle", "notify"} <=> pc[t] \in {"idle", "notify"}
                            /\ label \in Stopping => pc[t] \in Stopping,
           label = "clear" => pc[t] = "clear",
           t \in Clients /\ label = "take" =>
               \A j \in before[t] : \/ executed[j] = 1
                                    \/ /\ op[t] = "wait_idle"
                                       /\ \E d \in Clients \ {t} : job[d] = j
    PROVE  IInv'
<1> USE Disjoint
<1>1. pc \in [Threads -> ClientLabels \cup WorkerLabels]
  BY DEF IInv, TypeOK
<1>2. /\ pc' \in [Threads -> ClientLabels \cup WorkerLabels]
      /\ pc'[t] = label
      /\ \A u \in Threads : u # t => pc'[u] = pc[u]
  BY <1>1 DEF Goto
<1>3. /\ \A d \in Clients : pc'[d] \in ClientLabels
      /\ \A w \in Workers : pc'[w] \in WorkerLabels
  BY <1>2 DEF IInv, TypeOK
<1>4. \A u \in Threads : pc'[u] = "run" <=> pc[u] = "run"
  BY <1>2
<1>5. \A w \in Workers : pc[w] = "off" => pc'[w] = "off"
  BY <1>2
<1>6. /\ \A d \in Clients : pc'[d] = "drain" => pc[d] = "drain"
      /\ \A d \in Clients : pc'[d] \in {"idle", "notify"} <=> pc[d] \in {"idle", "notify"}
      /\ \A d \in Clients : pc'[d] \in Stopping => pc[d] \in Stopping
      /\ pc'[Owner] = "clear" => pc[Owner] = "clear"
  BY <1>2
<1>7. \A d \in Clients : pc'[d] = "take" => pc[d] = "take"
               \/ \A j \in before[d] : \/ executed[j] = 1
                                       \/ /\ op[d] = "wait_idle"
                                          /\ \E e \in Clients \ {d} : job[e] = j
  BY <1>2
<1> QED
  BY <1>2, <1>3, <1>4, <1>5, <1>6, <1>7, MovesInCall

LEMMA SpuriousWakeupInv == ASSUME IInv, NEW t \in Threads, SpuriousWakeup(t) PROVE IInv'
<1> DEFINE label == IF pc[t] = "asleep" THEN "loop" ELSE "wait"
<1>1. /\ KeepsJobs /\ UNCHANGED <<op, started, stop>> /\ Goto(t, label)
      /\ pc[t] \in {"asleep", "blocked"}
  BY DEF SpuriousWakeup, KeepsJobs, history
<1>2. stop' \in BOOLEAN
  BY <1>1 DEF IInv, TypeOK
<1>3. /\ t \in Clients => pc[t] = "blocked"
      /\ t \in Workers => pc[t] = "asleep"
  BY <1>1 DEF IInv, TypeOK, ClientLabels, WorkerLabels, Waiting, Stopping
<1>4. /\ label \in {"loop", "wait"}
      /\ t \in Clients => label = "wait"
      /\ t \in Workers => label = "loop"
  BY <1>3
<1>5. /\ t \in Workers => label \in WorkerLabels
      /\ t \in Clients => label \in ClientLabels
  BY <1>4 DEF ClientLabels, WorkerLabels, Waiting
<1>6. /\ label # "run" /\ label # "drain" /\ label # "clear" /\ label # "take"
      /\ pc[t] # "run" /\ pc[t] # "off"
      /\ label \notin Stopping
      /\ label \notin {"idle", "notify"} /\ pc[t] \notin {"idle", "notify"}
  BY <1>1, <1>4 DEF Stopping
<1> HIDE DEF label
<1> QED
  BY <1>1, <1>2, <1>5, <1>6, MovesAlone

\* With nothing pending every job was executed.
LEMMA NothingPending ==
    ASSUME IInv, pending_jobs = 0
    PROVE  \A j \in submitted : executed[j] = 1
<1>1. IsFiniteSet(Running)
  BY FiniteThreads, FS_Subset DEF Running
<1>2. Cardinality(Running) \in Nat
  BY <1>1, FS_CardinalityType
<1>3. Len(jobs) \in Nat
  BY LenProperties DEF IInv, TypeOK
<1>4. Cardinality(Running) = 0 /\ Len(jobs) = 0
  BY <1>2, <1>3 DEF IInv, PendingInv
<1>5. Running = {}
  BY <1>1, <1>4, FS_EmptySet
<1>6. \A t \in Threads : job[t] = None
  BY <1>5 DEF Running
<1> QED
  BY <1>4, <1>6, Disjoint DEF IInv, QueueInv, TypeOK

LEMMA AwaitDoneInv == ASSUME IInv, NEW c \in Clients, AwaitDone(c) PROVE IInv'
<1> USE Disjoint
<1> DEFINE label == IF pending_jobs = 0 THEN "take" ELSE "blocked"
<1>1. KeepsJobs /\ UNCHANGED <<op, started, stop>> /\ Goto(c, label) /\ pc[c] = "wait"
  BY DEF AwaitDone, KeepsJobs, history
<1>2. stop' \in BOOLEAN
  BY <1>1 DEF IInv, TypeOK
<1>3. /\ label \in ClientLabels /\ label \notin Stopping
      /\ label # "run" /\ label # "drain" /\ label # "clear"
      /\ label \notin {"idle", "notify"} /\ pc[c] \notin {"idle", "notify"}
  BY <1>1 DEF ClientLabels, Waiting, Stopping
<1>4. label = "take" => \A j \in before[c] : executed[j] = 1
  BY NothingPending DEF IInv, BeforeInv
<1> HIDE DEF label
<1> QED
  BY <1>1, <1>2, <1>3, <1>4, MovesAlone

\* The steps of Shutdown after the exception is taken.
LEMMA StoppingInv ==
    ASSUME IInv, RaiseStop \/ NotifyAll
    PROVE  IInv'
<1> USE Disjoint
<1>1. KeepsJobs /\ UNCHANGED <<op, started>> /\ stop' \in BOOLEAN
  BY DEF RaiseStop, NotifyAll, KeepsJobs, history, IInv, TypeOK
<1>2. pc \in [Threads -> ClientLabels \cup WorkerLabels]
  BY DEF IInv, TypeOK
<1>3. CASE RaiseStop
  <2>1. pc[Owner] = "stop" /\ Goto(Owner, "notify_all")
    BY <1>3 DEF RaiseStop
  <2>2. "notify_all" \in ClientLabels /\ "stop" \in Stopping
    BY DEF ClientLabels, Stopping
  <2> QED
    BY <1>1, <2>1, <2>2, MovesAlone
<1>4. CASE NotifyAll
  <2>1. /\ pc' \in [Threads -> ClientLabels \cup WorkerLabels]
        /\ pc[Owner] = "notify_all" /\ pc'[Owner] = "join"
        /\ \A t \in Threads : t # Owner =>
              pc'[t] = pc[t] \/ (pc[t] = "asleep" /\ pc'[t] = "loop")
    <3>1. /\ pc[Owner] = "notify_all"
          /\ pc' = [t \in Threads |-> IF t = Owner THEN "join"
                                      ELSE IF pc[t] = "asleep" THEN "loop" ELSE pc[t]]
      BY <1>4 DEF NotifyAll
    <3>2. "join" \in ClientLabels /\ "loop" \in WorkerLabels
      BY DEF ClientLabels, WorkerLabels, Stopping
    <3> QED
      BY <3>1, <3>2, <1>2
  <2>2. \A c \in Clients : pc[c] # "asleep"
    BY DEF IInv, TypeOK, ClientLabels, Waiting, Stopping
  <2>3. \A c \in Clients : c # Owner => pc'[c] = pc[c]
    BY <2>1, <2>2
  <2>4. /\ \A c \in Clients : pc'[c] \in ClientLabels
        /\ \A w \in Workers : pc'[w] \in WorkerLabels
    BY <2>1, <2>3 DEF IInv, TypeOK, ClientLabels, WorkerLabels, Stopping
  <2>5. \A t \in Threads : pc'[t] = "run" <=> pc[t] = "run"
    BY <2>1
  <2>6. \A w \in Workers : pc[w] = "off" => pc'[w] = "off"
    BY <2>1
  <2>7. /\ \A d \in Clients : pc'[d] = "drain" => pc[d] = "drain"
        /\ \A d \in Clients : pc'[d] \in {"idle", "notify"} <=> pc[d] \in {"idle", "notify"}
        /\ \A d \in Clients : pc'[d] \in Stopping => pc[d] \in Stopping
        /\ \A d \in Clients : pc'[d] = "take" => pc[d] = "take"
        /\ pc'[Owner] = "clear" => pc[Owner] = "clear"
    BY <2>1, <2>3 DEF Stopping
  <2> QED
    BY <1>1, <2>1, <2>4, <2>5, <2>6, <2>7, MovesInCall
<1> QED
  BY <1>3, <1>4

LEMMA JoinInv == ASSUME IInv, Join PROVE IInv'
<1> USE Disjoint
<1>1. KeepsJobs /\ UNCHANGED <<op, started>> /\ stop' \in BOOLEAN
  BY DEF Join, KeepsJobs, history, IInv, TypeOK
<1>2. pc \in [Threads -> ClientLabels \cup WorkerLabels]
  BY DEF IInv, TypeOK
<1>3. /\ pc[Owner] = "join"
      /\ pc' = [t \in Threads |-> IF t = Owner THEN "clear"
                                  ELSE IF t \in Workers THEN "off" ELSE pc[t]]
      /\ \A w \in Workers : pc[w] \in {"off", "exited"}
  BY DEF Join, LiveWorkers
<1>4. "clear" \in ClientLabels /\ "off" \in WorkerLabels
  BY DEF ClientLabels, WorkerLabels, Stopping
<1>5. /\ pc' \in [Threads -> ClientLabels \cup WorkerLabels]
      /\ pc'[Owner] = "clear"
      /\ \A w \in Workers : pc'[w] = "off"
      /\ \A c \in Clients : c # Owner => pc'[c] = pc[c]
  BY <1>2, <1>3, <1>4
<1>6. /\ \A c \in Clients : pc'[c] \in ClientLabels
      /\ \A w \in Workers : pc'[w] \in WorkerLabels
  BY <1>4, <1>5 DEF IInv, TypeOK
<1>7. \A t \in Threads : pc'[t] = "run" <=> pc[t] = "run"
  BY <1>3, <1>5
<1>8. /\ \A d \in Clients : pc'[d] = "drain" => pc[d] = "drain"
      /\ \A d \in Clients : pc'[d] \in {"idle", "notify"} <=> pc[d] \in {"idle", "notify"}
      /\ \A d \in Clients : pc'[d] \in Stopping => pc[d] \in Stopping
      /\ \A d \in Clients : pc'[d] = "take" => pc[d] = "take"
  BY <1>3, <1>5 DEF Stopping
<1> QED
  BY <1>1, <1>5, <1>6, <1>7, <1>8, MovesInCall

LEMMA ClearStartedInv == ASSUME IInv, ClearStarted PROVE IInv'
<1> USE Disjoint
<1>1. /\ UNCHANGED <<jobs, pending_jobs, first_exception, job, submitted, late, executed,
                     answered, discarded>>
      /\ UNCHANGED stop /\ started' = FALSE /\ pc[Owner] = "clear"
      /\ pc' = [pc EXCEPT ![Owner] = "idle"] /\ op' = [op EXCEPT ![Owner] = "none"]
      /\ before' = [before EXCEPT ![Owner] = {}]
  BY DEF ClearStarted, Goto
<1>2. /\ pc \in [Threads -> ClientLabels \cup WorkerLabels]
      /\ op \in [Clients -> {"none", "wait_idle", "shutdown"}]
      /\ stop \in BOOLEAN
  BY DEF IInv, TypeOK
<1>3. "idle" \in ClientLabels /\ "clear" \in Stopping
  BY DEF ClientLabels, Stopping
<1>4. /\ pc' \in [Threads -> ClientLabels \cup WorkerLabels]
      /\ op' \in [Clients -> {"none", "wait_idle", "shutdown"}]
      /\ pc'[Owner] = "idle" /\ op'[Owner] = "none"
      /\ \A t \in Threads : t # Owner => pc'[t] = pc[t]
      /\ \A c \in Clients : c # Owner => op'[c] = op[c]
  BY <1>1, <1>2, <1>3
<1>5. /\ \A c \in Clients : pc'[c] \in ClientLabels
      /\ \A w \in Workers : pc'[w] \in WorkerLabels
  BY <1>3, <1>4 DEF IInv, TypeOK
<1>6. \A t \in Threads : pc'[t] = "run" <=> pc[t] = "run"
  BY <1>1, <1>4
<1>7. CallInv'
  BY <1>4 DEF IInv, CallInv, Stopping
<1>8. LiveInv'
  <2>1. \A w \in Workers : pc[w] = "off"
    BY <1>1 DEF IInv, LiveInv
  <2> QED
    BY <2>1, <1>4 DEF LiveInv
<1>9. /\ before' \in [Clients -> SUBSET Jobs] /\ before'[Owner] = {}
       /\ \A c \in Clients : c # Owner => before'[c] = before[c]
  BY <1>1 DEF IInv, TypeOK
<1>10. WaitInv'
  <2>1. executed' = executed /\ job' = job
    BY <1>1
  <2>2. \A c \in Clients : pc'[c] \in {"take", "stop", "notify_all", "join", "clear"}
                              => pc[c] = pc'[c] /\ op[c] = op'[c] /\ before[c] = before'[c]
    BY <1>4, <1>9
  <2> QED
    BY <2>1, <2>2 DEF IInv, WaitInv
<1>11. ReportInv'
  BY <1>1, <1>3 DEF IInv, ReportInv
<1>12. BeforeInv'
  BY <1>1, <1>4, <1>9 DEF IInv, BeforeInv
<1> QED
  BY <1>1, <1>2, <1>4, <1>5, <1>6, <1>7, <1>8, <1>9, <1>10, <1>11, <1>12, Moves

\* A client that finds the queue empty leaves nothing behind but what other
\* clients still execute.
LEMMA QueueDrained ==
    ASSUME IInv, NEW c \in Clients, pc[c] = "drain", jobs = <<>>
    PROVE  \A j \in before[c] : \/ executed[j] = 1
                                \/ /\ op[c] = "wait_idle"
                                   /\ \E d \in Clients \ {c} : job[d] = j
<1> USE Disjoint
<1> SUFFICES ASSUME NEW j \in before[c], executed[j] # 1
             PROVE  op[c] = "wait_idle" /\ \E d \in Clients \ {c} : job[d] = j
  OBVIOUS
<1>1. j \in Jobs /\ j \in submitted
  BY DEF IInv, TypeOK, BeforeInv
<1>2. Len(jobs) = 0
  BY EmptySeq
<1>3. PICK t \in Threads : job[t] = j
  BY <1>1, <1>2 DEF IInv, QueueInv
<1>4. pc[t] = "run"
  BY <1>1, <1>3 DEF IInv, HoldInv
<1>5. \A w \in Workers : pc[w] = "off"
  BY DEF IInv, LiveInv
<1>6. t \in Clients /\ t # c
  BY <1>4, <1>5
<1>7. op[t] # "none" /\ op[c] # "none"
  BY <1>4, <1>6 DEF IInv, CallInv
<1>8. op[c] # "shutdown"
  BY <1>6, <1>7 DEF IInv, CallInv
<1> QED
  BY <1>3, <1>6, <1>7, <1>8 DEF IInv, TypeOK

LEMMA PopInv ==
    ASSUME IInv, NEW t \in Threads, pc[t] \in {"loop", "drain"}, jobs # <<>>, Pop(t),
           UNCHANGED <<pending_jobs, stop, started, first_exception, op, history>>
    PROVE  IInv'
<1> USE Disjoint
<1>1. /\ jobs \in Seq(Jobs)
      /\ job \in [Threads -> Jobs \cup {None}]
      /\ pc \in [Threads -> ClientLabels \cup WorkerLabels]
  BY DEF IInv, TypeOK
<1>2. /\ Head(jobs) \in Jobs /\ Head(jobs) = jobs[1]
      /\ Tail(jobs) \in Seq(Jobs) /\ Len(Tail(jobs)) = Len(jobs) - 1
      /\ \A i \in 1 .. Len(Tail(jobs)) : Tail(jobs)[i] = jobs[i + 1]
      /\ Len(jobs) \in Nat \ {0}
  BY <1>1, HeadTailProperties, EmptySeq, LenProperties
<1>3. /\ UNCHANGED <<pending_jobs, stop, started, first_exception, op, before, submitted,
                     late, executed, answered, discarded>>
      /\ jobs' = Tail(jobs) /\ job' = [job EXCEPT ![t] = Head(jobs)]
      /\ pc' = [pc EXCEPT ![t] = "run"]
  BY DEF Pop, Goto, history
<1>4. job[t] = None
  BY DEF IInv, HoldInv
<1>5. /\ "run" \in ClientLabels /\ "run" \in WorkerLabels
      /\ "run" \notin {"idle", "notify"} \cup {"take", "stop", "notify_all", "join", "clear"}
      /\ pc[t] \notin {"idle", "notify"} /\ "run" \notin Stopping
  BY DEF ClientLabels, WorkerLabels, Waiting, Stopping
<1>6. /\ pc' \in [Threads -> ClientLabels \cup WorkerLabels]
      /\ pc'[t] = "run" /\ \A u \in Threads : u # t => pc'[u] = pc[u]
  BY <1>1, <1>3, <1>5
<1>7. /\ job' \in [Threads -> Jobs \cup {None}]
      /\ job'[t] = Head(jobs) /\ \A u \in Threads : u # t => job'[u] = job[u]
  BY <1>1, <1>2, <1>3
<1>8. TypeOK'
  <2>1. /\ \A c \in Clients : pc'[c] \in ClientLabels
        /\ \A w \in Workers : pc'[w] \in WorkerLabels
    BY <1>5, <1>6 DEF IInv, TypeOK
  <2> QED
    BY <2>1, <1>2, <1>3, <1>6, <1>7 DEF IInv, TypeOK, Failed
<1>9. CallInv'
  BY <1>3, <1>5, <1>6 DEF IInv, CallInv
<1>10. LiveInv'
  <2>1. t \in Clients => pc[t] = "drain"
    BY DEF IInv, TypeOK, ClientLabels, Waiting, Stopping
  <2>2. (~started' \/ pc'[Owner] = "clear" \/ \E c \in Clients : pc'[c] \in {"drain", "run"})
            => \A w \in Workers : pc[w] = "off"
    BY <1>3, <1>6, <2>1 DEF IInv, LiveInv
  <2>3. t \in Workers => pc[t] # "off"
    OBVIOUS
  <2> QED
    BY <2>2, <2>3, <1>6 DEF LiveInv
<1>11. HoldInv'
  BY <1>2, <1>6, <1>7 DEF IInv, HoldInv
<1>12. QueueInv'
  <2> DEFINE head == Head(jobs)
  <2>1. \A i \in 1 .. Len(jobs') : jobs'[i] = jobs[i + 1] /\ i + 1 \in 1 .. Len(jobs)
    BY <1>2, <1>3
  <2>2. \A i, k \in 1 .. Len(jobs') : jobs'[i] = jobs'[k] => i = k
    <3> SUFFICES ASSUME NEW i \in 1 .. Len(jobs'), NEW k \in 1 .. Len(jobs'),
                        jobs'[i] = jobs'[k]
                 PROVE  i = k
      OBVIOUS
    <3>1. i + 1 = k + 1
      BY <2>1 DEF IInv, QueueInv
    <3> QED
      BY <3>1, <1>2, <1>3
  <2>3. \A u \in Threads : job[u] # head
    BY <1>2 DEF IInv, QueueInv
  <2>4. \A u, v \in Threads : job'[u] = job'[v] /\ job'[u] # None => u = v
    BY <2>3, <1>7 DEF IInv, QueueInv
  <2>5. \A i \in 1 .. Len(jobs') : jobs'[i] # head
    BY <2>1, <1>2 DEF IInv, QueueInv
  <2>6. \A i \in 1 .. Len(jobs'), u \in Threads : jobs'[i] # job'[u]
    BY <2>1, <2>5, <1>7 DEF IInv, QueueInv
  <2>7. executed[head] = 0
    BY <1>2 DEF IInv, QueueInv
  <2>8. /\ \A i \in 1 .. Len(jobs') : executed'[jobs'[i]] = 0
        /\ \A u \in Threads : job'[u] # None => executed'[job'[u]] = 0
    BY <2>1, <2>7, <1>3, <1>7 DEF IInv, QueueInv
  <2>9. ASSUME NEW j \in Jobs
        PROVE  (\E i \in 1 .. Len(jobs) : jobs[i] = j) <=>
               (j = head \/ \E i \in 1 .. Len(jobs') : jobs'[i] = j)
    <3>1. ASSUME NEW i \in 1 .. Len(jobs), jobs[i] = j, i # 1
          PROVE  \E k \in 1 .. Len(jobs') : jobs'[k] = j
      <4>1. i - 1 \in 1 .. Len(jobs') /\ (i - 1) + 1 = i
        BY <3>1, <1>2, <1>3
      <4> QED
        BY <4>1, <3>1, <2>1
    <3> QED
      BY <3>1, <2>1, <1>2
  <2>10. ASSUME NEW j \in Jobs
         PROVE  (\E u \in Threads : job'[u] = j) <=> (j = head \/ \E u \in Threads : job[u] = j)
    BY <1>4, <1>7
  <2> HIDE DEF head
  <2>11. \A j \in Jobs : j \in submitted' <=> \/ executed'[j] = 1
                                              \/ \E i \in 1 .. Len(jobs') : jobs'[i] = j
                                              \/ \E u \in Threads : job'[u] = j
    BY <2>9, <2>10, <1>3 DEF IInv, QueueInv
  <2> QED
    BY <2>2, <2>4, <2>6, <2>8, <2>11 DEF QueueInv
<1>13. PendingInv'
  <2>1. Running' = Running \cup {t} /\ t \notin Running
    BY <1>2, <1>4, <1>7 DEF Running
  <2>2. IsFiniteSet(Running)
    BY FiniteThreads, FS_Subset DEF Running
  <2>3. Cardinality(Running') = Cardinality(Running) + 1 /\ Cardinality(Running) \in Nat
    BY <2>1, <2>2, FS_AddElement, FS_CardinalityType
  <2> QED
    BY <2>3, <1>2, <1>3 DEF IInv, PendingInv
<1>14. BeforeInv'
  BY <1>3 DEF IInv, BeforeInv
<1>15. WaitInv'
  <2> SUFFICES ASSUME NEW c \in Clients,
                      pc'[c] \in {"take", "stop", "notify_all", "join", "clear"},
                      NEW j \in before'[c]
               PROVE  \/ executed'[j] = 1
                      \/ op'[c] = "wait_idle" /\ \E d \in Clients \ {c} : job'[d] = j
    BY DEF WaitInv
  <2>1. pc'[c] = pc[c] /\ j \in before[c] /\ j \in Jobs
    BY <1>3, <1>5, <1>6 DEF IInv, TypeOK
  <2>2. \/ executed[j] = 1
        \/ op[c] = "wait_idle" /\ \E d \in Clients \ {c} : job[d] = j
    BY <2>1 DEF IInv, WaitInv
  <2>3. \A d \in Clients : job[d] = j => job'[d] = j
    BY <2>1, <1>4, <1>7
  <2> QED
    BY <2>2, <2>3, <1>3
<1>16. ExceptionInv' /\ FailureReported'
  BY <1>3 DEF IInv, ExceptionInv, FailureReported, Failed
<1>17. ReportInv'
  BY <1>3, <1>5, <1>6 DEF IInv, ReportInv
<1> QED
  BY <1>8, <1>9, <1>10, <1>11, <1>12, <1>13, <1>14, <1>15, <1>16, <1>17 DEF IInv

LEMMA WorkerWaitInv == ASSUME IInv, NEW w \in Workers, WorkerWait(w) PROVE IInv'
<1> USE Disjoint
<1>1. CASE jobs # <<>>
  <2>1. /\ pc[w] = "loop" /\ Pop(w)
        /\ UNCHANGED <<pending_jobs, stop, started, first_exception, op, history>>
    BY <1>1 DEF WorkerWait
  <2> QED
    BY <2>1, <1>1, PopInv
<1>2. CASE jobs = <<>>
  <2> DEFINE label == IF stop THEN "exited" ELSE "asleep"
  <2>1. KeepsJobs /\ UNCHANGED <<op, started, stop>> /\ Goto(w, label) /\ pc[w] = "loop"
    BY <1>2 DEF WorkerWait, KeepsJobs, history
  <2>2. stop' \in BOOLEAN
    BY <2>1 DEF IInv, TypeOK
  <2>3. label \in WorkerLabels /\ label # "run" /\ label # "drain" /\ label # "clear"
    BY DEF WorkerLabels
  <2> HIDE DEF label
  <2> QED
    BY <2>1, <2>2, <2>3, MovesAlone
<1> QED
  BY <1>1, <1>2

LEMMA DrainInv == ASSUME IInv, NEW c \in Clients, Drain(c) PROVE IInv'
<1> USE Disjoint
<1>1. CASE jobs # <<>>
  <2>1. /\ pc[c] = "drain" /\ Pop(c)
        /\ UNCHANGED <<pending_jobs, stop, started, first_exception, op, history>>
    BY <1>1 DEF Drain
  <2> QED
    BY <2>1, <1>1, PopInv
<1>2. CASE jobs = <<>>
  <2>1. KeepsJobs /\ UNCHANGED <<op, started, stop>> /\ Goto(c, "take") /\ pc[c] = "drain"
    BY <1>2 DEF Drain, KeepsJobs, history
  <2>2. stop' \in BOOLEAN
    BY <2>1 DEF IInv, TypeOK
  <2>3. "take" \in ClientLabels /\ "take" \notin Stopping
    BY DEF ClientLabels, Waiting, Stopping
  <2>4. \A j \in before[c] : \/ executed[j] = 1
                             \/ /\ op[c] = "wait_idle"
                                /\ \E d \in Clients \ {c} : job[d] = j
    BY <2>1, <1>2, QueueDrained
  <2> QED
    BY <2>1, <2>2, <2>3, <2>4, MovesAlone
<1> QED
  BY <1>1, <1>2

LEMMA ExecuteInv == ASSUME IInv, NEW t \in Threads, Execute(t) PROVE IInv'
<1> USE Disjoint
<1> DEFINE done == job[t]
<1>1. /\ jobs \in Seq(Jobs)
      /\ job \in [Threads -> Jobs \cup {None}]
      /\ pc \in [Threads -> ClientLabels \cup WorkerLabels]
      /\ executed \in [Jobs -> {0, 1}]
  BY DEF IInv, TypeOK
<1>2. /\ pc[t] = "run"
      /\ UNCHANGED <<jobs, stop, started, op, before, submitted, late, answered, discarded>>
      /\ first_exception' = IF done \in Failing /\ first_exception = None
                            THEN done ELSE first_exception
      /\ pending_jobs' = pending_jobs - 1
      /\ job' = [job EXCEPT ![t] = None]
      /\ executed' = [executed EXCEPT ![done] = @ + 1]
  BY DEF Execute
<1>3. done \in Jobs /\ done # None /\ executed[done] = 0
  BY <1>1, <1>2 DEF IInv, HoldInv, QueueInv
<1>4. /\ "drain" \in ClientLabels /\ "loop" \in WorkerLabels /\ "wait" \in ClientLabels
      /\ AfterJob(t) \in {"drain", "loop"}
      /\ t \in Clients => AfterJob(t) = "drain"
      /\ t \in Workers => AfterJob(t) = "loop"
  BY DEF AfterJob, ClientLabels, WorkerLabels, Waiting
<1>5. /\ pc' \in [Threads -> ClientLabels \cup WorkerLabels]
      /\ pc'[t] = AfterJob(t)
      /\ \A u \in Threads : u # t =>
            pc'[u] = pc[u] \/ (pc[u] = "blocked" /\ pc'[u] = "wait")
  <2>1. pc' = [u \in Threads |->
                IF u = t THEN AfterJob(t)
                ELSE IF pending_jobs = 1 /\ pc[u] = "blocked" THEN "wait" ELSE pc[u]]
    BY DEF Execute
  <2> HIDE DEF done
  <2> QED
    BY <2>1, <1>1, <1>4
<1>6. /\ job' \in [Threads -> Jobs \cup {None}]
      /\ job'[t] = None /\ \A u \in Threads : u # t => job'[u] = job[u]
  BY <1>1, <1>2
<1>7. /\ executed' \in [Jobs -> {0, 1}]
      /\ executed'[done] = 1 /\ \A j \in Jobs : j # done => executed'[j] = executed[j]
  <2> HIDE DEF done
  <2> QED
    BY <1>1, <1>2, <1>3
<1> HIDE DEF done
<1>8. /\ \A c \in Clients : pc'[c] \in ClientLabels
      /\ \A w \in Workers : pc'[w] \in WorkerLabels
  <2>1. \A w \in Workers : pc[w] # "blocked"
    BY DEF IInv, TypeOK, WorkerLabels
  <2> QED
    BY <2>1, <1>4, <1>5 DEF IInv, TypeOK
<1>9. TypeOK'
  <2>1. first_exception' \in Failing \cup {None}
    BY <1>2 DEF IInv, TypeOK
  <2>2. pending_jobs' \in Int
    BY <1>2 DEF IInv, TypeOK
  <2>3. answered' \subseteq Failed' /\ discarded' \subseteq Failed'
    <3>1. Failed \subseteq Failed'
      BY <1>3, <1>7 DEF Failed
    <3> QED
      BY <3>1, <1>2 DEF IInv, TypeOK
  <2> QED
    BY <2>1, <2>2, <2>3, <1>2, <1>5, <1>6, <1>7, <1>8 DEF IInv, TypeOK
<1>10. CallInv'
  <2>1. \A c \in Clients : /\ pc'[c] \in {"idle", "notify"} <=> pc[c] \in {"idle", "notify"}
                           /\ pc'[c] \in Stopping <=> pc[c] \in Stopping
    BY <1>2, <1>4, <1>5 DEF Stopping
  <2> QED
    BY <2>1, <1>2 DEF IInv, CallInv
<1>11. LiveInv'
  <2>1. (~started' \/ pc'[Owner] = "clear" \/ \E c \in Clients : pc'[c] \in {"drain", "run"})
            => \A w \in Workers : pc[w] = "off"
    <3>1. ASSUME NEW c \in Clients, pc'[c] \in {"drain", "run"} PROVE pc[c] \in {"drain", "run"}
      BY <3>1, <1>2, <1>5
    <3>2. pc'[Owner] = "clear" => pc[Owner] = "clear"
      BY <1>4, <1>5
    <3> QED
      BY <3>1, <3>2, <1>2 DEF IInv, LiveInv
  <2>2. (\A w \in Workers : pc[w] = "off") => \A w \in Workers : pc'[w] = "off"
    BY <1>2, <1>5
  <2> QED
    BY <2>1, <2>2 DEF LiveInv
<1>12. HoldInv'
  BY <1>4, <1>5, <1>6 DEF IInv, HoldInv
<1>13. QueueInv'
  <2>1. /\ \A i \in 1 .. Len(jobs) : jobs[i] # done /\ jobs[i] \in Jobs
        /\ \A u \in Threads : u # t => job[u] # done
    <3>1. \A i \in 1 .. Len(jobs) : jobs[i] \in Jobs
      BY <1>1, ElementOfSeq
    <3> QED
      BY <3>1, <1>3 DEF IInv, QueueInv, done
  <2>2. \A u, v \in Threads : job'[u] = job'[v] /\ job'[u] # None => u = v
    BY <1>6 DEF IInv, QueueInv
  <2>3. \A i \in 1 .. Len(jobs), u \in Threads : jobs[i] # job'[u]
    BY <2>1, <1>6 DEF IInv, QueueInv
  <2>4. \A i \in 1 .. Len(jobs) : executed'[jobs[i]] = 0
    BY <2>1, <1>7 DEF IInv, QueueInv
  <2>5. \A u \in Threads : job'[u] # None => executed'[job'[u]] = 0
    BY <2>1, <1>1, <1>6, <1>7 DEF IInv, QueueInv
  <2>6. ASSUME NEW j \in Jobs
        PROVE  j \in submitted <=> \/ executed'[j] = 1
                                   \/ \E i \in 1 .. Len(jobs) : jobs[i] = j
                                   \/ \E u \in Threads : job'[u] = j
    <3>1. done \in submitted
      BY <1>3 DEF IInv, QueueInv, done
    <3>2. CASE j = done
      BY <3>1, <3>2, <1>7
    <3>3. CASE j # done
      <4>1. executed'[j] = executed[j]
        BY <3>3, <1>7
      <4>2. (\E u \in Threads : job'[u] = j) <=> (\E u \in Threads : job[u] = j)
        BY <3>3, <1>6 DEF done
      <4> QED
        BY <4>1, <4>2 DEF IInv, QueueInv
    <3> QED
      BY <3>2, <3>3
  <2>7. jobs' = jobs /\ submitted' = submitted
    BY <1>2
  <2> QED
    BY <2>2, <2>3, <2>4, <2>5, <2>6, <2>7 DEF IInv, QueueInv
<1>14. PendingInv'
  <2>1. Running' = Running \ {t} /\ t \in Running
    BY <1>3, <1>6 DEF Running, done
  <2>2. IsFiniteSet(Running)
    BY FiniteThreads, FS_Subset DEF Running
  <2>3. Cardinality(Running') = Cardinality(Running) - 1 /\ Cardinality(Running) \in Nat
    BY <2>1, <2>2, FS_RemoveElement, FS_CardinalityType
  <2>4. Len(jobs) \in Nat
    BY <1>1, LenProperties
  <2> QED
    BY <2>3, <2>4, <1>2 DEF IInv, PendingInv
<1>15. BeforeInv'
  BY <1>2 DEF IInv, BeforeInv
<1>16. WaitInv'
  <2> SUFFICES ASSUME NEW c \in Clients,
                      pc'[c] \in {"take", "stop", "notify_all", "join", "clear"},
                      NEW j \in before'[c]
               PROVE  \/ executed'[j] = 1
                      \/ op'[c] = "wait_idle" /\ \E d \in Clients \ {c} : job'[d] = j
    BY DEF WaitInv
  <2>1. pc'[c] = pc[c] /\ j \in before[c] /\ j \in Jobs
    BY <1>2, <1>4, <1>5 DEF IInv, TypeOK
  <2>2. \/ executed[j] = 1
        \/ op[c] = "wait_idle" /\ \E d \in Clients \ {c} : job[d] = j
    BY <2>1 DEF IInv, WaitInv
  <2>3. CASE j = done
    BY <2>3, <1>7
  <2>4. CASE j # done
    <3>1. \A d \in Clients : job[d] = j => job'[d] = j
      BY <2>4, <1>6 DEF done
    <3>2. executed'[j] = executed[j]
      BY <2>1, <2>4, <1>7
    <3> QED
      BY <2>2, <3>1, <3>2, <1>2
  <2> QED
    BY <2>3, <2>4
<1>17. done \notin answered \cup discarded
  BY <1>3 DEF IInv, TypeOK, Failed
<1>18. ExceptionInv'
  <2>1. \A j \in Jobs : executed[j] = 1 => executed'[j] = 1
    BY <1>7
  <2>2. CASE first_exception' = done
    BY <2>2, <1>7 DEF ExceptionInv
  <2>3. CASE first_exception' = first_exception
    <3>1. first_exception # None => first_exception \in Jobs
      BY DEF IInv, TypeOK
    <3> QED
      BY <2>1, <2>3, <3>1 DEF IInv, ExceptionInv
  <2> QED
    BY <2>2, <2>3, <1>2
<1>19. FailureReported'
  <2>1. first_exception' \notin answered' \cup discarded'
    BY <1>2, <1>17 DEF IInv, FailureReported
  <2>2. ASSUME NEW j \in Failed' \ (answered' \cup discarded' \cup late')
        PROVE  first_exception' # None
    <3>1. j \in Failing /\ j \in Jobs /\ executed'[j] = 1
      BY <2>2 DEF Failed
    <3>2. CASE j = done
      BY <3>1, <3>2, <1>2, <1>3
    <3>3. CASE j # done
      <4>1. j \in Failed \ (answered \cup discarded \cup late)
        BY <2>2, <3>1, <3>3, <1>2, <1>7 DEF Failed
      <4>2. first_exception # None
        BY <4>1 DEF IInv, FailureReported
      <4> QED
        BY <4>2, <1>2
    <3> QED
      BY <3>2, <3>3
  <2> QED
    BY <2>1, <2>2 DEF FailureReported
<1>20. ReportInv'
  <2>1. pc'[Owner] \in Stopping => pc[Owner] \in Stopping
    BY <1>4, <1>5 DEF Stopping
  <2> QED
    BY <2>1, <1>2 DEF IInv, ReportInv
<1> QED
  BY <1>9, <1>10, <1>11, <1>12, <1>13, <1>14, <1>15, <1>16, <1>18, <1>19, <1>20 DEF IInv

LEMMA TakeExceptionInv == ASSUME IInv, NEW c \in Clients, TakeException(c) PROVE IInv'
<1> USE Disjoint
<1> DEFINE label == IF op[c] = "shutdown" THEN "stop" ELSE "idle"
<1>1. /\ pc \in [Threads -> ClientLabels \cup WorkerLabels]
      /\ op \in [Clients -> {"none", "wait_idle", "shutdown"}]
      /\ first_exception \in Failing \cup {None}
  BY DEF IInv, TypeOK
<1>2. /\ UNCHANGED <<jobs, pending_jobs, stop, started, job, submitted, late, executed>>
      /\ pc[c] = "take" /\ first_exception' = None
      /\ pc' = [pc EXCEPT ![c] = label]
  BY DEF TakeException, AfterWait, Goto
<1>3. /\ Failed' = Failed
      /\ answered \subseteq answered' /\ answered' \subseteq Failed
      /\ discarded \subseteq discarded' /\ discarded' \subseteq Failed
      /\ first_exception # None => Failed \subseteq answered' \cup discarded'
  <2>1. Failed' = Failed
    BY <1>2 DEF Failed
  <2>2. answered \subseteq Failed /\ discarded \subseteq Failed
    BY DEF IInv, TypeOK
  <2>3. op[c] \in {"wait_idle", "shutdown"}
    BY <1>1, <1>2 DEF IInv, CallInv
  <2> HIDE DEF label
  <2> QED
    BY <2>1, <2>2, <2>3 DEF TakeException
<1>4. /\ label \in ClientLabels /\ label # "run" /\ label # "drain" /\ label # "clear"
      /\ label \in Stopping <=> op[c] = "shutdown"
      /\ label \in {"idle", "notify"} <=> op[c] # "shutdown"
      /\ label \in {"take", "stop", "notify_all", "join", "clear"} <=> op[c] = "shutdown"
  BY DEF ClientLabels, Stopping
<1>5. /\ pc' \in [Threads -> ClientLabels \cup WorkerLabels]
      /\ pc'[c] = label /\ \A u \in Threads : u # c => pc'[u] = pc[u]
  <2> HIDE DEF label
  <2> QED
    BY <1>1, <1>2, <1>4
<1>6. /\ op' \in [Clients -> {"none", "wait_idle", "shutdown"}]
      /\ op'[c] = IF op[c] = "shutdown" THEN "shutdown" ELSE "none"
      /\ \A d \in Clients : d # c => op'[d] = op[d]
      /\ before' \in [Clients -> SUBSET Jobs]
      /\ \A d \in Clients : d # c \/ op[c] = "shutdown" => before'[d] = before[d]
      /\ \A d \in Clients : before'[d] \subseteq before[d]
  <2>1. /\ op' = IF op[c] = "shutdown" THEN op ELSE [op EXCEPT ![c] = "none"]
        /\ before' = IF op[c] = "shutdown" THEN before ELSE [before EXCEPT ![c] = {}]
    BY DEF TakeException, AfterWait
  <2>2. before \in [Clients -> SUBSET Jobs]
    BY DEF IInv, TypeOK
  <2> QED
    BY <2>1, <2>2, <1>1
<1> HIDE DEF label
<1>7. TypeOK'
  <2>1. /\ \A d \in Clients : pc'[d] \in ClientLabels
        /\ \A w \in Workers : pc'[w] \in WorkerLabels
    BY <1>4, <1>5 DEF IInv, TypeOK
  <2> QED
    BY <2>1, <1>2, <1>3, <1>5, <1>6 DEF IInv, TypeOK
<1>8. CallInv'
  BY <1>4, <1>5, <1>6 DEF IInv, CallInv
<1>9. LiveInv'
  BY <1>2, <1>4, <1>5 DEF IInv, LiveInv
<1>10. HoldInv'
  BY <1>2, <1>4, <1>5 DEF IInv, HoldInv
<1>11. QueueInv'
  BY <1>2 DEF IInv, QueueInv
<1>12. PendingInv'
  BY <1>2 DEF IInv, PendingInv, Running
<1>13. BeforeInv'
  BY <1>2, <1>6 DEF IInv, BeforeInv
<1>14. WaitInv'
  <2>1. \A d \in Clients : pc'[d] \in {"take", "stop", "notify_all", "join", "clear"} =>
            /\ pc[d] \in {"take", "stop", "notify_all", "join", "clear"}
            /\ op'[d] = op[d] /\ before'[d] = before[d]
    BY <1>2, <1>4, <1>5, <1>6
  <2> QED
    BY <2>1, <1>2 DEF IInv, WaitInv
<1>15. ExceptionInv'
  BY <1>2 DEF ExceptionInv
<1>16. Failed \subseteq answered' \cup discarded' \cup late
  <2>1. CASE first_exception # None
    BY <2>1, <1>3
  <2>2. CASE first_exception = None
    BY <2>2, <1>3 DEF IInv, FailureReported
  <2> QED
    BY <2>1, <2>2
<1>17. FailureReported'
  <2>1. None \notin Failed
    BY DEF Failed
  <2> QED
    BY <2>1, <1>2, <1>3, <1>16 DEF FailureReported
<1>18. ReportInv'
  <2>1. CASE op[c] = "shutdown"
    <3> SUFFICES ASSUME NEW j \in (Failing \cap submitted) \ late
                 PROVE  j \in answered' \cup discarded'
      BY <1>2 DEF ReportInv
    <3>1. c = Owner /\ j \in before[c]
      BY <2>1 DEF IInv, CallInv, BeforeInv
    <3>2. executed[j] = 1
      BY <2>1, <3>1, <1>2 DEF IInv, WaitInv
    <3> QED
      BY <3>2, <1>16 DEF Failed
  <2>2. CASE op[c] # "shutdown"
    <3>1. pc'[Owner] \in Stopping => pc[Owner] \in Stopping
      BY <2>2, <1>4, <1>5
    <3> QED
      BY <3>1, <1>2, <1>3 DEF IInv, ReportInv
  <2> QED
    BY <2>1, <2>2
<1> QED
  BY <1>7, <1>8, <1>9, <1>10, <1>11, <1>12, <1>13, <1>14, <1>15, <1>17, <1>18 DEF IInv

LEMMA BeginWaitInv ==
    ASSUME IInv, NEW c \in Clients, NEW name \in {"wait_idle", "shutdown"},
           BeginWait(c, name),
           name = "wait_idle" => ~ShuttingDown,
           name = "shutdown" => c = Owner /\ \A d \in Clients \ {Owner} : op[d] = "none"
    PROVE  IInv'
<1> USE Disjoint
<1> DEFINE label == IF LiveWorkers = {} THEN "drain" ELSE "wait"
<1>1. /\ pc \in [Threads -> ClientLabels \cup WorkerLabels]
      /\ op \in [Clients -> {"none", "wait_idle", "shutdown"}]
      /\ before \in [Clients -> SUBSET Jobs] /\ submitted \subseteq Jobs
  BY DEF IInv, TypeOK
<1>2. /\ UNCHANGED <<jobs, pending_jobs, stop, started, first_exception, job, submitted, late,
                     executed, answered, discarded>>
      /\ pc[c] = "idle"
      /\ pc' = [pc EXCEPT ![c] = label]
      /\ op' = [op EXCEPT ![c] = name]
      /\ before' = [before EXCEPT ![c] = submitted]
  BY DEF BeginWait, Goto
<1>3. /\ label \in ClientLabels /\ label # "run" /\ label # "clear" /\ label \notin Stopping
      /\ label \notin {"idle", "notify"}
      /\ label \notin {"take", "stop", "notify_all", "join", "clear"}
      /\ label = "drain" => \A w \in Workers : pc[w] = "off"
  BY DEF ClientLabels, Waiting, Stopping, LiveWorkers
<1> HIDE DEF label
<1>4. /\ pc' \in [Threads -> ClientLabels \cup WorkerLabels]
      /\ pc'[c] = label /\ \A u \in Threads : u # c => pc'[u] = pc[u]
  BY <1>1, <1>2, <1>3
<1>5. /\ op' \in [Clients -> {"none", "wait_idle", "shutdown"}]
      /\ op'[c] = name /\ \A d \in Clients : d # c => op'[d] = op[d]
  BY <1>1, <1>2
<1>6. /\ before' \in [Clients -> SUBSET Jobs]
      /\ before'[c] = submitted /\ \A d \in Clients : d # c => before'[d] = before[d]
  BY <1>1, <1>2
<1>7. TypeOK'
  <2>1. /\ \A d \in Clients : pc'[d] \in ClientLabels
        /\ \A w \in Workers : pc'[w] \in WorkerLabels
    BY <1>3, <1>4 DEF IInv, TypeOK
  <2> QED
    BY <2>1, <1>2, <1>4, <1>5, <1>6 DEF IInv, TypeOK, Failed
<1>8. CallInv'
  <2>1. \A d \in Clients : op'[d] = "none" <=> pc'[d] \in {"idle", "notify"}
    BY <1>3, <1>4, <1>5 DEF IInv, CallInv
  <2>2. \A d \in Clients : pc'[d] \in Stopping => op'[d] = "shutdown"
    BY <1>3, <1>4, <1>5 DEF IInv, CallInv
  <2>3. \A d \in Clients : op'[d] = "shutdown" => d = Owner
    BY <1>5 DEF IInv, CallInv
  <2>4. op'[Owner] = "shutdown" => \A d \in Clients : d # Owner => op'[d] = "none"
    BY <1>5 DEF ShuttingDown
  <2> QED
    BY <2>1, <2>2, <2>3, <2>4 DEF CallInv
<1>9. LiveInv'
  BY <1>2, <1>3, <1>4 DEF IInv, LiveInv
<1>10. HoldInv'
  BY <1>2, <1>3, <1>4 DEF IInv, HoldInv
<1>11. QueueInv'
  BY <1>2 DEF IInv, QueueInv
<1>12. PendingInv'
  BY <1>2 DEF IInv, PendingInv, Running
<1>13. BeforeInv'
  BY <1>2, <1>5, <1>6 DEF IInv, BeforeInv
<1>14. WaitInv'
  <2>1. \A d \in Clients : pc'[d] \in {"take", "stop", "notify_all", "join", "clear"} =>
            pc'[d] = pc[d] /\ op'[d] = op[d] /\ before'[d] = before[d]
    BY <1>2, <1>3, <1>4, <1>5, <1>6
  <2> QED
    BY <2>1, <1>2 DEF IInv, WaitInv
<1>15. ExceptionInv' /\ FailureReported'
  BY <1>2 DEF IInv, ExceptionInv, FailureReported, Failed
<1>16. ReportInv'
  <2>1. pc'[Owner] \in Stopping => pc[Owner] \in Stopping
    BY <1>3, <1>4
  <2> QED
    BY <2>1, <1>2 DEF IInv, ReportInv
<1> QED
  BY <1>7, <1>8, <1>9, <1>10, <1>11, <1>12, <1>13, <1>14, <1>15, <1>16 DEF IInv

LEMMA StartInv == ASSUME IInv, NEW n, Start(n) PROVE IInv'
<1> USE Disjoint
<1>1. PICK created \in 0 .. n :
        pc' = [t \in Threads |-> IF t \in 1 .. created THEN "loop" ELSE pc[t]]
  BY DEF Start
<1>2. /\ UNCHANGED <<jobs, pending_jobs, job, op, before, submitted, late, executed, answered,
                     discarded>>
      /\ pc[Owner] = "idle" /\ ~started /\ stop' = FALSE /\ started' = TRUE
      /\ first_exception' = None /\ \A c \in Clients : op[c] = "none"
  BY DEF Start, history
<1>3. \A w \in Workers : pc[w] = "off"
  BY <1>2 DEF IInv, LiveInv
<1>4. \A c \in Clients : c \notin 1 .. created
  BY ConstantsAssumption
<1>5. /\ pc' \in [Threads -> ClientLabels \cup WorkerLabels]
      /\ \A c \in Clients : pc'[c] = pc[c]
      /\ \A w \in Workers : pc'[w] \in {"off", "loop"}
  BY <1>1, <1>3, <1>4 DEF IInv, TypeOK, WorkerLabels
<1>6. \A c \in Clients : pc[c] \in {"idle", "notify"}
  BY <1>2 DEF IInv, CallInv
<1>7. TypeOK'
  BY <1>2, <1>5 DEF IInv, TypeOK, WorkerLabels, Failed
<1>8. CallInv'
  BY <1>2, <1>5 DEF IInv, CallInv
<1>9. LiveInv'
  BY <1>2, <1>5, <1>6 DEF LiveInv
<1>10. HoldInv'
  BY <1>2, <1>3, <1>5 DEF IInv, HoldInv
<1>11. QueueInv'
  BY <1>2 DEF IInv, QueueInv
<1>12. PendingInv'
  BY <1>2 DEF IInv, PendingInv, Running
<1>13. BeforeInv'
  BY <1>2 DEF IInv, BeforeInv
<1>14. WaitInv'
  BY <1>5, <1>6 DEF WaitInv
<1>15. ExceptionInv'
  BY <1>2 DEF IInv, ExceptionInv
<1>16. FailureReported'
  <2>1. Failed \subseteq Failing \cap submitted
    BY DEF IInv, QueueInv, Failed
  <2>2. Failed \ late \subseteq answered \cup discarded
    BY <2>1, <1>2 DEF IInv, ReportInv
  <2>3. None \notin answered \cup discarded /\ Failed' = Failed
    BY <1>2 DEF IInv, TypeOK, Failed
  <2> QED
    BY <2>2, <2>3, <1>2 DEF FailureReported
<1>17. ReportInv'
  BY <1>2, <1>5 DEF ReportInv, Stopping
<1> QED
  BY <1>7, <1>8, <1>9, <1>10, <1>11, <1>12, <1>13, <1>14, <1>15, <1>16, <1>17 DEF IInv

LEMMA EnqueueInv == ASSUME IInv, NEW c \in Clients, NEW j \in Jobs, Enqueue(c, j) PROVE IInv'
<1> USE Disjoint
<1> DEFINE label == IF LiveWorkers # {} THEN "notify" ELSE "idle"
<1>1. /\ pc \in [Threads -> ClientLabels \cup WorkerLabels]
      /\ jobs \in Seq(Jobs) /\ Len(jobs) \in Nat
  BY LenProperties DEF IInv, TypeOK
<1>2. /\ UNCHANGED <<stop, started, first_exception, job, op, before, executed, answered,
                     discarded>>
      /\ pc[c] = "idle" /\ started /\ j \notin submitted
      /\ pending_jobs' = pending_jobs + 1 /\ jobs' = Append(jobs, j)
      /\ submitted' = submitted \cup {j}
      /\ late' = IF ShuttingDown THEN late \cup {j} ELSE late
      /\ pc' = [pc EXCEPT ![c] = label]
  BY DEF Enqueue, Goto
<1>3. label \in {"idle", "notify"} /\ label \in ClientLabels /\ label \notin Stopping
  BY DEF ClientLabels, Stopping
<1> HIDE DEF label
<1>4. /\ pc' \in [Threads -> ClientLabels \cup WorkerLabels]
      /\ pc'[c] = label /\ \A u \in Threads : u # c => pc'[u] = pc[u]
  BY <1>1, <1>2, <1>3
<1>5. /\ jobs' \in Seq(Jobs) /\ Len(jobs') = Len(jobs) + 1 /\ jobs'[Len(jobs) + 1] = j
      /\ \A i \in 1 .. Len(jobs) : jobs'[i] = jobs[i]
  BY <1>1, <1>2, AppendProperties
<1>6. TypeOK'
  <2>1. /\ \A d \in Clients : pc'[d] \in ClientLabels
        /\ \A w \in Workers : pc'[w] \in WorkerLabels
    BY <1>3, <1>4 DEF IInv, TypeOK
  <2>2. submitted' \subseteq Jobs /\ late' \subseteq submitted' /\ pending_jobs' \in Int
    BY <1>2 DEF IInv, TypeOK
  <2>3. answered' \subseteq Failed' /\ discarded' \subseteq Failed'
    BY <1>2 DEF IInv, TypeOK, Failed
  <2> QED
    BY <2>1, <2>2, <2>3, <1>2, <1>4, <1>5 DEF IInv, TypeOK
<1>7. CallInv'
  BY <1>2, <1>3, <1>4 DEF IInv, CallInv
<1>8. LiveInv'
  BY <1>2, <1>3, <1>4 DEF IInv, LiveInv
<1>9. HoldInv'
  BY <1>2, <1>3, <1>4 DEF IInv, HoldInv
<1>10. /\ executed[j] = 0 /\ \A i \in 1 .. Len(jobs) : jobs[i] # j
       /\ \A t \in Threads : job[t] # j
  BY <1>2 DEF IInv, QueueInv, TypeOK
<1>11. QueueInv'
  <2>1. \A i \in 1 .. Len(jobs') : i \in 1 .. Len(jobs) \/ i = Len(jobs) + 1
    BY <1>1, <1>5
  <2>2. \A i, k \in 1 .. Len(jobs') : jobs'[i] = jobs'[k] => i = k
    BY <2>1, <1>5, <1>10 DEF IInv, QueueInv
  <2>3. \A i \in 1 .. Len(jobs'), t \in Threads : jobs'[i] # job'[t]
    BY <2>1, <1>2, <1>5, <1>10 DEF IInv, QueueInv
  <2>4. \A i \in 1 .. Len(jobs') : executed'[jobs'[i]] = 0
    BY <2>1, <1>2, <1>5, <1>10 DEF IInv, QueueInv
  <2>5. /\ \A t, u \in Threads : job'[t] = job'[u] /\ job'[t] # None => t = u
        /\ \A t \in Threads : job'[t] # None => executed'[job'[t]] = 0
    BY <1>2 DEF IInv, QueueInv
  <2>6. ASSUME NEW x \in Jobs
        PROVE  (\E i \in 1 .. Len(jobs') : jobs'[i] = x)
                 <=> (x = j \/ \E i \in 1 .. Len(jobs) : jobs[i] = x)
    <3>1. Len(jobs) + 1 \in 1 .. Len(jobs') /\ \A i \in 1 .. Len(jobs) : i \in 1 .. Len(jobs')
      BY <1>1, <1>5
    <3> QED
      BY <3>1, <2>1, <1>5
  <2>7. \A x \in Jobs : x \in submitted' <=> \/ executed'[x] = 1
                                             \/ \E i \in 1 .. Len(jobs') : jobs'[i] = x
                                             \/ \E t \in Threads : job'[t] = x
    BY <2>6, <1>2 DEF IInv, QueueInv
  <2> QED
    BY <2>2, <2>3, <2>4, <2>5, <2>7 DEF QueueInv
<1>12. PendingInv'
  <2>1. Running' = Running
    BY <1>2 DEF Running
  <2>2. Cardinality(Running) \in Nat
    BY FiniteThreads, FS_Subset, FS_CardinalityType DEF Running
  <2> QED
    BY <2>1, <2>2, <1>1, <1>2, <1>5 DEF IInv, PendingInv
<1>13. BeforeInv'
  BY <1>2 DEF IInv, BeforeInv, ShuttingDown
<1>14. WaitInv'
  <2>1. \A d \in Clients : pc'[d] \in {"take", "stop", "notify_all", "join", "clear"}
            => pc'[d] = pc[d]
    BY <1>3, <1>4
  <2> QED
    BY <2>1, <1>2 DEF IInv, WaitInv
<1>15. ExceptionInv' /\ FailureReported'
  <2>1. late \subseteq late'
    BY <1>2
  <2>2. Failed' = Failed
    BY <1>2 DEF Failed
  <2> QED
    BY <2>1, <2>2, <1>2 DEF IInv, ExceptionInv, FailureReported
<1>16. ReportInv'
  <2>1. pc'[Owner] \in Stopping => pc[Owner] \in Stopping /\ ShuttingDown
    BY <1>3, <1>4 DEF IInv, CallInv, ShuttingDown
  <2> QED
    BY <2>1, <1>2 DEF IInv, ReportInv
<1> QED
  BY <1>6, <1>7, <1>8, <1>9, <1>11, <1>12, <1>13, <1>14, <1>15, <1>16 DEF IInv

LEMMA StutterInv == ASSUME IInv, UNCHANGED vars PROVE IInv'
BY DEF vars, IInv, TypeOK, CallInv, LiveInv, HoldInv, QueueInv, PendingInv, Running, BeforeInv,
       WaitInv, ExceptionInv, ReportInv, FailureReported, Failed

LEMMA ThreadStepInv == ASSUME IInv, NEW t \in Threads, ThreadStep(t) PROVE IInv'
BY ExecuteInv, WorkerWaitInv, NotifyWorkInv, DrainInv, AwaitDoneInv, TakeExceptionInv, StoppingInv,
   JoinInv, ClearStartedInv DEF ThreadStep

LEMMA ShutdownInv == ASSUME IInv, Shutdown PROVE IInv'
<1>1. /\ BeginWait(Owner, "shutdown") /\ "shutdown" \in {"wait_idle", "shutdown"}
      /\ \A d \in Clients \ {Owner} : op[d] = "none"
  BY DEF Shutdown
<1> QED
  BY <1>1, BeginWaitInv, Disjoint

LEMMA NextInv == ASSUME IInv, [Next]_vars PROVE IInv'
<1>1. CASE \E n \in 0 .. MaxThreads : Start(n)
  BY <1>1, StartInv
<1>2. CASE \E c \in Clients, j \in Jobs : Enqueue(c, j)
  BY <1>2, EnqueueInv
<1>3. ASSUME NEW c \in Clients, WaitIdle(c) PROVE IInv'
  <2>1. /\ BeginWait(c, "wait_idle") /\ ~ShuttingDown
        /\ "wait_idle" \in {"wait_idle", "shutdown"} /\ "wait_idle" # "shutdown"
    BY <1>3 DEF WaitIdle
  <2> QED
    BY <2>1, BeginWaitInv
<1>4. CASE \E t \in Threads : ThreadStep(t) \/ SpuriousWakeup(t)
  BY <1>4, ThreadStepInv, SpuriousWakeupInv
<1> QED
  BY <1>1, <1>2, <1>3, <1>4, ShutdownInv, StutterInv DEF Next

\* The invariant holds of the pool, for every number of clients, workers and jobs.
THEOREM Invariant == Spec => []IInv
BY InitInv, NextInv, PTL DEF Spec

\* A set with one element, or none.
LEMMA CountOne ==
    ASSUME NEW S, \A x, y \in S : x = y
    PROVE  Cardinality(S) = IF S = {} THEN 0 ELSE 1
<1>1. CASE S = {}
  BY <1>1, FS_EmptySet
<1>2. CASE S # {}
  <2>1. PICK x \in S : S = {x}
    BY <1>2
  <2> QED
    BY <2>1, <1>2, FS_Singleton
<1> QED
  BY <1>1, <1>2

LEMMA IInvConserves == IInv => JobsConserved
<1> SUFFICES ASSUME IInv PROVE JobsConserved
  OBVIOUS
<1> USE Disjoint
<1>1. jobs \in Seq(Jobs) /\ DOMAIN jobs = 1 .. Len(jobs)
  BY LenProperties DEF IInv, TypeOK
<1>2. ASSUME NEW j \in Jobs
      PROVE  Cardinality({i \in DOMAIN jobs : jobs[i] = j})
               + Cardinality({t \in Threads : job[t] = j}) + executed[j]
             = IF j \in submitted THEN 1 ELSE 0
  <2> DEFINE Q == {i \in DOMAIN jobs : jobs[i] = j}
             H == {t \in Threads : job[t] = j}
  <2>1. Cardinality(Q) = IF Q = {} THEN 0 ELSE 1
    <3>1. \A x, y \in Q : x = y
      BY <1>1 DEF IInv, QueueInv
    <3> QED
      BY <3>1, CountOne
  <2>2. Cardinality(H) = IF H = {} THEN 0 ELSE 1
    <3>1. \A x, y \in H : x = y
      BY DEF IInv, QueueInv
    <3> QED
      BY <3>1, CountOne
  <2>3. executed[j] \in {0, 1}
    BY DEF IInv, TypeOK
  <2>4. /\ Q # {} => H = {} /\ executed[j] = 0
        /\ H # {} => executed[j] = 0
    BY <1>1 DEF IInv, QueueInv
  <2>5. j \in submitted <=> executed[j] = 1 \/ Q # {} \/ H # {}
    BY <1>1 DEF IInv, QueueInv
  <2> HIDE DEF Q, H
  <2>6. Cardinality(Q) + Cardinality(H) + executed[j] = IF j \in submitted THEN 1 ELSE 0
    BY <2>1, <2>2, <2>3, <2>4, <2>5
  <2> QED
    BY <2>6 DEF Q, H
<1> QED
  BY <1>2 DEF JobsConserved, IInv, PendingInv

\* No job that Enqueue accepted is lost or executed twice, and pending_jobs_ counts
\* those that are queued or executed.
THEOREM JobsAreConserved == Spec => []JobsConserved
BY Invariant, IInvConserves, PTL

\* Shutdown, and WaitIdle on a pool with workers, wait for every job enqueued
\* before them.
THEOREM WaitsDrain == Spec => []WaitDrains
<1>1. ASSUME IInv PROVE WaitDrains
  <2> USE Disjoint
  <2> SUFFICES ASSUME NEW c \in Clients, Waited(c), op[c] = "shutdown" \/ LiveWorkers # {},
                      NEW j \in before[c]
               PROVE  executed[j] = 1
    BY DEF WaitDrains
  <2>1. \/ executed[j] = 1
        \/ op[c] = "wait_idle" /\ \E d \in Clients \ {c} : job[d] = j
    BY <1>1 DEF IInv, WaitInv, Waited
  <2>2. ASSUME NEW d \in Clients, job[d] = j PROVE LiveWorkers = {}
    <3>1. j # None
      BY <1>1 DEF IInv, TypeOK
    <3>2. pc[d] = "run"
      BY <1>1, <2>2, <3>1 DEF IInv, HoldInv
    <3> QED
      BY <1>1, <3>2 DEF IInv, LiveInv, LiveWorkers
  <2> QED
    BY <2>1, <2>2
<1> QED
  BY <1>1, Invariant, PTL

\* No failure is lost, or thrown twice, but those of late jobs: in every state the
\* failures that neither WaitIdle nor Shutdown has taken are represented by the
\* recorded exception.
THEOREM FailuresAreReported == Spec => []FailureReported
<1>1. IInv => FailureReported
  BY DEF IInv
<1> QED
  BY <1>1, Invariant, PTL

-----------------------------------------------------------------------------
(***************************************************************************)
(* The batch adapter: its thread is the only client of the pool.           *)
(***************************************************************************)

\* Which call of the adapter is in progress, and what the Owner does in it.
AdapterInv ==
    /\ \A c \in Clients : c # Owner => pc[c] = "idle"
    /\ late = {}
    /\ op[Owner] # "wait_idle"
    /\ call \in {"none", "submit", "wait"}
    /\ call = "none" => pc[Owner] \in {"idle", "notify"}
    /\ call = "submit" => /\ pc[Owner] = "idle" /\ started
                          /\ task \in Jobs /\ task \notin submitted
    /\ call = "wait" => pc[Owner] # "notify" /\ (pc[Owner] = "idle" => ~started)
    /\ pc[Owner] # "idle" => started

\* The exception of the pool is one of this batch, and there is one exactly when a
\* job of the batch failed; Wait has taken it when all jobs are done.
BatchInv ==
    /\ batch \subseteq submitted
    /\ \A j \in submitted : executed[j] = 0 => j \in batch
    /\ ~started /\ call # "wait" => batch = {}
    /\ first_exception # None => first_exception \in batch
    /\ pc[Owner] \in Stopping \/ ~started =>
           first_exception = None /\ \A j \in submitted : executed[j] = 1
    /\ pc[Owner] \notin Stopping /\ started =>
           \A j \in batch \cap Failing : executed[j] = 1 => first_exception # None
    /\ call = "wait" /\ pc[Owner] \in Stopping \cup {"idle"} =>
           /\ error \in (batch \cap Failing) \cup {None}
           /\ error = None <=> batch \cap Failing = {}

\* What the adapter can see of a step: the Owner's call goes on.
GoesOn ==
    /\ \A c \in Clients : c # Owner => pc'[c] = pc[c]
    /\ \/ pc'[Owner] = pc[Owner]
       \/ pc[Owner] = "notify" /\ pc'[Owner] = "idle"
       \/ /\ pc[Owner] \notin {"idle", "notify", "take"}
          /\ pc'[Owner] \notin {"idle", "notify"}
          /\ pc'[Owner] \in Stopping <=> pc[Owner] \in Stopping

\* A thread of the adapter's pool that moves is a worker or the Owner.
LEMMA OwnerMoves ==
    ASSUME IInv, AdapterInv, NEW t \in Threads, NEW label, Goto(t, label),
           pc[t] # "idle",
           t = Owner => \/ pc[t] = "notify" /\ label = "idle"
                        \/ /\ pc[t] \notin {"idle", "notify", "take"}
                           /\ label \notin {"idle", "notify"}
                           /\ label \in Stopping <=> pc[t] \in Stopping
    PROVE  GoesOn
<1> USE Disjoint
<1>1. pc \in [Threads -> ClientLabels \cup WorkerLabels]
  BY DEF IInv, TypeOK
<1>2. pc'[t] = label /\ \A u \in Threads : u # t => pc'[u] = pc[u]
  BY <1>1 DEF Goto
<1>3. t \in Clients => t = Owner
  BY DEF AdapterInv
<1> QED
  BY <1>2, <1>3 DEF GoesOn

LEMMA StepGoesOn ==
    ASSUME IInv, AdapterInv, NEW t \in Threads,
           \/ t \in Workers /\ WorkerWait(t)
           \/ t \in Clients /\ (NotifyWork(t) \/ Drain(t) \/ AwaitDone(t))
           \/ t = Owner /\ (RaiseStop \/ NotifyAll \/ Join)
           \/ SpuriousWakeup(t)
    PROVE  /\ GoesOn
           /\ UNCHANGED <<submitted, late, executed, first_exception, started, op>>
<1> USE Disjoint
<1>1. UNCHANGED <<submitted, late, executed, first_exception, started, op>>
  BY DEF WorkerWait, NotifyWork, Drain, AwaitDone, RaiseStop, NotifyAll, Join, SpuriousWakeup,
         history
<1>2. CASE t \in Workers /\ WorkerWait(t)
  <2>1. pc[t] = "loop" /\ t # Owner /\ \E label : Goto(t, label)
    BY <1>2 DEF WorkerWait, Pop
  <2> QED
    BY <2>1, <1>1, OwnerMoves
<1>3. CASE t \in Clients /\ NotifyWork(t)
  <2>1. t = Owner /\ pc[t] = "notify"
    BY <1>3 DEF NotifyWork, AdapterInv
  <2>2. \/ pc' = [pc EXCEPT ![t] = "idle"]
        \/ \E w \in Workers : pc' = [pc EXCEPT ![w] = "loop", ![t] = "idle"]
    BY <1>3 DEF NotifyWork, Goto
  <2>3. pc \in [Threads -> ClientLabels \cup WorkerLabels]
    BY DEF IInv, TypeOK
  <2>4. pc'[t] = "idle" /\ \A c \in Clients : c # t => pc'[c] = pc[c]
    BY <2>2, <2>3, <1>3
  <2> QED
    BY <2>1, <2>4, <1>1 DEF GoesOn
<1>4. CASE t \in Clients /\ Drain(t)
  <2>1. pc[t] = "drain" /\ (Goto(t, "run") \/ Goto(t, "take"))
    BY <1>4 DEF Drain, Pop
  <2>2. {"drain", "run", "take"} \cap Stopping = {}
    BY DEF Stopping
  <2> QED
    BY <2>1, <2>2, <1>1, OwnerMoves
<1>5. CASE t \in Clients /\ AwaitDone(t)
  <2>1. pc[t] = "wait" /\ (Goto(t, "take") \/ Goto(t, "blocked"))
    BY <1>5 DEF AwaitDone
  <2>2. {"wait", "blocked", "take"} \cap Stopping = {}
    BY DEF Stopping
  <2> QED
    BY <2>1, <2>2, <1>1, OwnerMoves
<1>6. CASE t = Owner /\ RaiseStop
  <2>1. pc[t] = "stop" /\ Goto(t, "notify_all")
    BY <1>6 DEF RaiseStop
  <2>2. {"stop", "notify_all"} \subseteq Stopping
    BY DEF Stopping
  <2> QED
    BY <2>1, <2>2, <1>1, OwnerMoves
<1>7. CASE t = Owner /\ (NotifyAll \/ Join)
  <2>1. \A c \in Clients : pc[c] # "asleep"
    BY DEF IInv, TypeOK, ClientLabels, Waiting, Stopping
  <2>2. /\ pc[Owner] \in {"notify_all", "join"} /\ pc'[Owner] \in {"join", "clear"}
        /\ \A c \in Clients : c # Owner => pc'[c] = pc[c]
    BY <1>7, <2>1 DEF NotifyAll, Join
  <2>3. {"notify_all", "join", "clear"} \subseteq Stopping
    BY DEF Stopping
  <2> QED
    BY <2>2, <2>3, <1>1 DEF GoesOn
<1>8. CASE SpuriousWakeup(t)
  <2>1. /\ pc[t] \in {"asleep", "blocked"}
        /\ Goto(t, IF pc[t] = "asleep" THEN "loop" ELSE "wait")
    BY <1>8 DEF SpuriousWakeup
  <2>2. {"asleep", "blocked", "loop", "wait"} \cap Stopping = {}
    BY DEF Stopping
  <2>3. Goto(t, "loop") \/ Goto(t, "wait")
    BY <2>1
  <2> QED
    BY <2>1, <2>2, <2>3, <1>1, OwnerMoves
<1> QED
  BY <1>2, <1>3, <1>4, <1>5, <1>6, <1>7, <1>8

LEMMA GoesOnBatch ==
    ASSUME IInv, AdapterInv, BatchInv, GoesOn,
           UNCHANGED <<submitted, late, executed, first_exception, started, op, call, task, batch>>,
           error' = IF pc[Owner] = "take" /\ pc'[Owner] # "take" THEN first_exception ELSE error
    PROVE  AdapterInv' /\ BatchInv'
<1>1. error' = error
  BY DEF GoesOn
<1>2. pc'[Owner] \in Stopping <=> pc[Owner] \in Stopping
  BY DEF GoesOn, Stopping
<1>3. AdapterInv'
  BY DEF GoesOn, AdapterInv
<1>4. call = "wait" /\ pc'[Owner] \in Stopping \cup {"idle"} => pc[Owner] \in Stopping \cup {"idle"}
  BY <1>2 DEF GoesOn, AdapterInv
<1> QED
  BY <1>1, <1>2, <1>3, <1>4 DEF BatchInv

\* With every job executed no thread executes one.
LEMMA ExecuteBatch ==
    ASSUME IInv, AdapterInv, BatchInv, NEW t \in Threads, Execute(t),
           UNCHANGED <<call, task, batch>>,
           error' = IF pc[Owner] = "take" /\ pc'[Owner] # "take" THEN first_exception ELSE error
    PROVE  AdapterInv' /\ BatchInv'
<1> USE Disjoint
<1> DEFINE done == job[t]
<1>1. /\ pc[t] = "run" /\ UNCHANGED <<started, op, submitted, late>>
      /\ first_exception' = IF done \in Failing /\ first_exception = None
                            THEN done ELSE first_exception
      /\ executed' = [executed EXCEPT ![done] = @ + 1]
  BY DEF Execute
<1>2. done \in Jobs /\ done # None /\ executed[done] = 0 /\ done \in submitted
  BY <1>1 DEF IInv, TypeOK, HoldInv, QueueInv
<1> HIDE DEF done
<1>3. /\ executed \in [Jobs -> {0, 1}] /\ submitted \subseteq Jobs
      /\ pc \in [Threads -> ClientLabels \cup WorkerLabels]
  BY DEF IInv, TypeOK
<1>4. executed'[done] = 1 /\ \A j \in Jobs : j # done => executed'[j] = executed[j]
  BY <1>1, <1>2, <1>3
<1>5. done \in batch /\ pc[Owner] \notin Stopping /\ started
  BY <1>2 DEF BatchInv
<1>6. /\ \A c \in Clients : c # Owner => pc'[c] = pc[c]
      /\ \/ pc'[Owner] = pc[Owner]
         \/ pc[Owner] = "run" /\ pc'[Owner] = "drain"
         \/ pc[Owner] = "blocked" /\ pc'[Owner] = "wait"
  <2>1. pc' = [u \in Threads |->
                IF u = t THEN AfterJob(t)
                ELSE IF pending_jobs = 1 /\ pc[u] = "blocked" THEN "wait" ELSE pc[u]]
    BY DEF Execute
  <2>2. t \in Clients => t = Owner /\ AfterJob(t) = "drain"
    BY <1>1 DEF AdapterInv, AfterJob
  <2>3. \A c \in Clients : c # Owner => pc[c] # "blocked"
    BY DEF AdapterInv
  <2> QED
    BY <2>1, <2>2, <2>3, <1>1
<1>7. error' = error /\ pc'[Owner] \notin Stopping /\ (pc'[Owner] = "idle" <=> pc[Owner] = "idle")
  BY <1>5, <1>6 DEF Stopping
<1>8. AdapterInv'
  BY <1>1, <1>6 DEF AdapterInv
<1>9. first_exception' # None => first_exception' \in batch
  BY <1>1, <1>5 DEF BatchInv
<1>10. \A j \in batch \cap Failing : executed'[j] = 1 => first_exception' # None
  <2> SUFFICES ASSUME NEW j \in batch \cap Failing, executed'[j] = 1
               PROVE  first_exception' # None
    OBVIOUS
  <2>1. CASE j = done
    BY <2>1, <1>1, <1>2
  <2>2. CASE j # done
    BY <2>2, <1>1, <1>2, <1>4, <1>5 DEF BatchInv
  <2> QED
    BY <2>1, <2>2
<1>11. \A j \in submitted : executed'[j] = 0 => j \in batch
  BY <1>3, <1>4, <1>5 DEF BatchInv
<1> QED
  BY <1>1, <1>5, <1>7, <1>8, <1>9, <1>10, <1>11 DEF BatchInv

LEMMA TakeExceptionBatch ==
    ASSUME IInv, AdapterInv, BatchInv, NEW c \in Clients, TakeException(c),
           UNCHANGED <<call, task, batch>>,
           error' = IF pc[Owner] = "take" /\ pc'[Owner] # "take" THEN first_exception ELSE error
    PROVE  AdapterInv' /\ BatchInv'
<1> USE Disjoint
<1>1. /\ pc[c] = "take" /\ UNCHANGED <<started, submitted, late, executed>>
      /\ first_exception' = None
  BY DEF TakeException
<1>2. c = Owner /\ op[Owner] = "shutdown" /\ call = "wait" /\ started
  BY <1>1 DEF AdapterInv, IInv, CallInv, TypeOK
<1>3. pc \in [Threads -> ClientLabels \cup WorkerLabels]
  BY DEF IInv, TypeOK
<1>4. op' = op /\ pc' = [pc EXCEPT ![Owner] = "stop"]
  BY <1>2 DEF TakeException, AfterWait, Goto
<1>5. pc'[Owner] = "stop" /\ \A d \in Clients : d # Owner => pc'[d] = pc[d]
  BY <1>3, <1>4
<1>6. error' = first_exception
  BY <1>1, <1>2, <1>5
<1>7. \A j \in submitted : executed[j] = 1
  BY <1>1, <1>2 DEF IInv, WaitInv, BeforeInv, AdapterInv
<1>8. AdapterInv'
  BY <1>1, <1>2, <1>4, <1>5 DEF AdapterInv
<1>9. pc[Owner] \notin Stopping /\ pc'[Owner] \in Stopping
  BY <1>1, <1>2, <1>5 DEF Stopping
<1>10. batch \subseteq submitted /\ (first_exception # None => first_exception \in batch \cap Failing)
  BY DEF BatchInv, IInv, TypeOK
<1>11. first_exception = None <=> batch \cap Failing = {}
  BY <1>2, <1>7, <1>9, <1>10 DEF BatchInv
<1> QED
  BY <1>1, <1>2, <1>6, <1>7, <1>8, <1>9, <1>10, <1>11 DEF BatchInv

LEMMA ClearStartedBatch ==
    ASSUME IInv, AdapterInv, BatchInv, ClearStarted,
           UNCHANGED <<call, task, batch>>,
           error' = IF pc[Owner] = "take" /\ pc'[Owner] # "take" THEN first_exception ELSE error
    PROVE  AdapterInv' /\ BatchInv'
<1> USE Disjoint
<1>1. /\ pc[Owner] = "clear" /\ UNCHANGED <<submitted, late, executed, first_exception>>
      /\ started' = FALSE /\ op' = [op EXCEPT ![Owner] = "none"]
      /\ pc' = [pc EXCEPT ![Owner] = "idle"]
  BY DEF ClearStarted, Goto, history
<1>2. /\ pc \in [Threads -> ClientLabels \cup WorkerLabels]
      /\ op \in [Clients -> {"none", "wait_idle", "shutdown"}]
  BY DEF IInv, TypeOK
<1>3. /\ pc'[Owner] = "idle" /\ op'[Owner] = "none"
      /\ \A d \in Clients : d # Owner => pc'[d] = pc[d]
  BY <1>1, <1>2
<1>4. call = "wait" /\ error' = error /\ pc[Owner] \in Stopping
  BY <1>1 DEF AdapterInv, Stopping
<1>5. AdapterInv'
  BY <1>1, <1>3, <1>4 DEF AdapterInv
<1> QED
  BY <1>1, <1>3, <1>4, <1>5 DEF BatchInv

LEMMA PoolStepBatch ==
    ASSUME IInv, AdapterInv, BatchInv, NEW t \in Threads, PoolStep(t)
    PROVE  AdapterInv' /\ BatchInv'
<1>1. /\ ThreadStep(t) \/ SpuriousWakeup(t)
      /\ UNCHANGED <<call, task, batch>>
      /\ error' = IF pc[Owner] = "take" /\ pc'[Owner] # "take" THEN first_exception ELSE error
  BY DEF PoolStep
<1>2. CASE Execute(t)
  BY <1>1, <1>2, ExecuteBatch
<1>3. CASE t \in Clients /\ TakeException(t)
  BY <1>1, <1>3, TakeExceptionBatch
<1>4. CASE ClearStarted
  BY <1>1, <1>4, ClearStartedBatch
<1>5. CASE \/ t \in Workers /\ WorkerWait(t)
           \/ t \in Clients /\ (NotifyWork(t) \/ Drain(t) \/ AwaitDone(t))
           \/ t = Owner /\ (RaiseStop \/ NotifyAll \/ Join)
           \/ SpuriousWakeup(t)
  BY <1>1, <1>5, StepGoesOn, GoesOnBatch
<1> QED
  BY <1>1, <1>2, <1>3, <1>4, <1>5 DEF ThreadStep

\* Enqueue by the adapter's thread, which is in no call of the pool.
LEMMA EnqueueBatch ==
    ASSUME IInv, AdapterInv, BatchInv, call # "wait", NEW j \in Jobs, Enqueue(Owner, j),
           batch' = batch \cup {j}, call' = "none"
    PROVE  AdapterInv' /\ BatchInv'
<1> USE Disjoint
<1> DEFINE label == IF LiveWorkers # {} THEN "notify" ELSE "idle"
<1>1. /\ UNCHANGED <<started, first_exception, op, executed>>
      /\ pc[Owner] = "idle" /\ started /\ j \notin submitted
      /\ submitted' = submitted \cup {j}
      /\ late' = IF ShuttingDown THEN late \cup {j} ELSE late
      /\ pc' = [pc EXCEPT ![Owner] = label]
  BY DEF Enqueue, Goto
<1>2. pc \in [Threads -> ClientLabels \cup WorkerLabels] /\ label \in {"idle", "notify"}
  BY DEF IInv, TypeOK
<1> HIDE DEF label
<1>3. /\ pc'[Owner] \in {"idle", "notify"}
      /\ \A d \in Clients : d # Owner => pc'[d] = pc[d]
  BY <1>1, <1>2
<1>4. late' = {}
  BY <1>1 DEF IInv, CallInv, AdapterInv, ShuttingDown
<1>5. AdapterInv'
  BY <1>1, <1>3, <1>4 DEF AdapterInv
<1>6. executed[j] = 0
  BY <1>1 DEF IInv, TypeOK, QueueInv
<1>7. pc'[Owner] \notin Stopping /\ pc[Owner] \notin Stopping
  BY <1>1, <1>3 DEF Stopping
<1>8. \A i \in batch' \cap Failing : executed'[i] = 1 => first_exception' # None
  BY <1>1, <1>6, <1>7 DEF BatchInv
<1>9. \A i \in submitted' : executed'[i] = 0 => i \in batch'
  BY <1>1 DEF BatchInv
<1> QED
  BY <1>1, <1>5, <1>7, <1>8, <1>9 DEF BatchInv

LEMMA StartBatch ==
    ASSUME IInv, AdapterInv, BatchInv, call = "none", NEW n, Start(n), NEW j \in Jobs,
           j \notin submitted, call' = "submit", task' = j, UNCHANGED batch
    PROVE  AdapterInv' /\ BatchInv'
<1> USE Disjoint
<1>1. PICK created \in 0 .. n :
        pc' = [t \in Threads |-> IF t \in 1 .. created THEN "loop" ELSE pc[t]]
  BY DEF Start
<1>2. /\ UNCHANGED <<op, submitted, late, executed>>
      /\ pc[Owner] = "idle" /\ ~started /\ started' = TRUE /\ first_exception' = None
  BY DEF Start, history
<1>3. \A c \in Clients : pc'[c] = pc[c]
  <2>1. \A c \in Clients : c \notin 1 .. created
    BY ConstantsAssumption
  <2> QED
    BY <2>1, <1>1
<1>4. AdapterInv'
  BY <1>2, <1>3 DEF AdapterInv
<1>5. batch = {}
  BY <1>2 DEF BatchInv
<1>6. pc'[Owner] \notin Stopping
  BY <1>2, <1>3 DEF Stopping
<1> QED
  BY <1>2, <1>4, <1>5, <1>6 DEF BatchInv

LEMMA WaitBatch == ASSUME IInv, AdapterInv, BatchInv, Wait PROVE AdapterInv' /\ BatchInv'
<1> USE Disjoint
<1>1. /\ call = "none" /\ pc[Owner] = "idle" /\ call' = "wait" /\ error' = None
      /\ UNCHANGED <<task, batch>>
  BY DEF Wait, Ready
<1>2. CASE started
  <2>1. BeginWait(Owner, "shutdown")
    BY <1>2 DEF Wait, Shutdown
  <2> DEFINE label == IF LiveWorkers = {} THEN "drain" ELSE "wait"
  <2>2. /\ UNCHANGED <<started, first_exception, submitted, late, executed>>
        /\ pc' = [pc EXCEPT ![Owner] = label] /\ op' = [op EXCEPT ![Owner] = "shutdown"]
    BY <2>1 DEF BeginWait, Goto
  <2>3. /\ pc \in [Threads -> ClientLabels \cup WorkerLabels] /\ label \in {"drain", "wait"}
        /\ op \in [Clients -> {"none", "wait_idle", "shutdown"}]
    BY DEF IInv, TypeOK
  <2> HIDE DEF label
  <2>4. /\ pc'[Owner] \in {"drain", "wait"} /\ op'[Owner] = "shutdown"
        /\ \A d \in Clients : d # Owner => pc'[d] = pc[d]
    BY <2>2, <2>3
  <2>5. AdapterInv'
    BY <1>1, <1>2, <2>2, <2>4 DEF AdapterInv
  <2>6. pc'[Owner] \notin Stopping \cup {"idle"} /\ pc[Owner] \notin Stopping
    BY <1>1, <2>4 DEF Stopping
  <2> QED
    BY <1>1, <1>2, <2>2, <2>5, <2>6 DEF BatchInv
<1>3. CASE ~started
  <2>1. UNCHANGED <<pc, op, started, first_exception, submitted, late, executed>>
    BY <1>3 DEF Wait, vars
  <2>2. batch = {}
    BY <1>1, <1>3 DEF BatchInv
  <2>3. AdapterInv'
    BY <1>1, <1>3, <2>1 DEF AdapterInv
  <2> QED
    BY <1>1, <1>3, <2>1, <2>2, <2>3 DEF BatchInv
<1> QED
  BY <1>2, <1>3

LEMMA WaitEndBatch == ASSUME IInv, AdapterInv, BatchInv, WaitEnd PROVE AdapterInv' /\ BatchInv'
<1>1. /\ call = "wait" /\ pc[Owner] = "idle" /\ call' = "none" /\ batch' = {}
      /\ UNCHANGED <<pc, op, started, first_exception, submitted, late, executed, task, error>>
  BY DEF WaitEnd, vars
<1>2. ~started
  BY <1>1 DEF AdapterInv
<1>3. AdapterInv'
  BY <1>1, <1>2 DEF AdapterInv
<1>4. first_exception = None /\ \A j \in submitted : executed[j] = 1
  BY <1>2 DEF BatchInv
<1> QED
  BY <1>1, <1>2, <1>3, <1>4 DEF BatchInv

LEMMA BatchNextInv ==
    ASSUME IInv, AdapterInv, BatchInv, [BatchNext]_<<vars, adapter>>
    PROVE  IInv' /\ AdapterInv' /\ BatchInv'
<1> USE Disjoint
<1>1. ASSUME UNCHANGED vars, UNCHANGED <<call, task, error, batch>>
      PROVE  IInv' /\ AdapterInv' /\ BatchInv'
  <2>1. UNCHANGED <<pc, op, started, first_exception, submitted, late, executed>>
    BY <1>1 DEF vars
  <2>2. AdapterInv' /\ BatchInv'
    BY <1>1, <2>1 DEF AdapterInv, BatchInv
  <2> QED
    BY <1>1, <2>2, StutterInv
<1>2. ASSUME NEW j \in Jobs, SubmitTask(j)
      PROVE  IInv' /\ AdapterInv' /\ BatchInv'
  <2>1. CASE started
    <3>1. Enqueue(Owner, j) /\ batch' = batch \cup {j} /\ call = "none" /\ call' = call
      BY <1>2, <2>1 DEF SubmitTask, Ready
    <3> QED
      BY <3>1, EnqueueInv, EnqueueBatch
  <2>2. CASE ~started
    <3>1. /\ Start(requested_threads) /\ call = "none" /\ call' = "submit" /\ task' = j
          /\ UNCHANGED batch /\ j \notin submitted
      BY <1>2, <2>2 DEF SubmitTask, Ready
    <3> QED
      BY <3>1, StartInv, StartBatch
  <2> QED
    BY <2>1, <2>2
<1>3. ASSUME SubmitEnqueue
      PROVE  IInv' /\ AdapterInv' /\ BatchInv'
  <2>1. call = "submit" /\ call' = "none" /\ task \in Jobs /\ pc[Owner] = "idle" /\ started
    BY <1>3 DEF SubmitEnqueue, AdapterInv
  <2>2. CASE Enqueue(Owner, task) /\ batch' = batch \cup {task}
    BY <2>1, <2>2, EnqueueInv, EnqueueBatch
  <2>3. CASE UNCHANGED <<vars, batch>>
    <3>1. UNCHANGED <<pc, op, started, first_exception, submitted, late, executed, batch>>
      BY <2>3 DEF vars
    <3>2. AdapterInv'
      BY <2>1, <3>1 DEF AdapterInv
    <3>3. BatchInv'
      BY <2>1, <3>1 DEF BatchInv
    <3> QED
      BY <2>3, <3>2, <3>3, StutterInv
  <2> QED
    BY <1>3, <2>2, <2>3 DEF SubmitEnqueue
<1>4. ASSUME Wait
      PROVE  IInv' /\ AdapterInv' /\ BatchInv'
  <2>1. Shutdown \/ UNCHANGED vars
    BY <1>4 DEF Wait
  <2> QED
    BY <1>4, <2>1, ShutdownInv, StutterInv, WaitBatch
<1>5. ASSUME WaitEnd
      PROVE  IInv' /\ AdapterInv' /\ BatchInv'
  <2>1. UNCHANGED vars
    BY <1>5 DEF WaitEnd
  <2> QED
    BY <1>5, <2>1, StutterInv, WaitEndBatch
<1>6. ASSUME NEW t \in Threads, PoolStep(t)
      PROVE  IInv' /\ AdapterInv' /\ BatchInv'
  <2>1. ThreadStep(t) \/ SpuriousWakeup(t)
    BY <1>6 DEF PoolStep
  <2> QED
    BY <1>6, <2>1, ThreadStepInv, SpuriousWakeupInv, PoolStepBatch
<1>7. ASSUME NEW n, BatchStart(n)
      PROVE  UNCHANGED vars /\ UNCHANGED <<call, task, error, batch>>
  BY <1>7 DEF BatchStart
<1>8. ASSUME Clear
      PROVE  UNCHANGED vars /\ UNCHANGED <<call, task, error, batch>>
  BY <1>8 DEF Clear, adapter
<1>9. CASE BatchNext
  BY <1>1, <1>2, <1>3, <1>4, <1>5, <1>6, <1>7, <1>8, <1>9 DEF BatchNext
<1>10. CASE UNCHANGED <<vars, adapter>>
  BY <1>1, <1>10 DEF adapter
<1> QED
  BY <1>9, <1>10

LEMMA BatchInitInv == BatchInit => IInv /\ AdapterInv /\ BatchInv
<1> SUFFICES ASSUME BatchInit PROVE IInv /\ AdapterInv /\ BatchInv
  OBVIOUS
<1>1. IInv
  BY InitInv DEF BatchInit
<1>2. \A c \in Clients : pc[c] = "idle" /\ op[c] = "none"
  BY Disjoint DEF BatchInit, Init
<1>3. AdapterInv
  BY <1>2, Disjoint DEF BatchInit, Init, AdapterInv
<1>4. BatchInv
  BY DEF BatchInit, Init, BatchInv
<1> QED
  BY <1>1, <1>3, <1>4

\* The invariants of the pool and of the adapter hold together.
THEOREM BatchInvariant == BatchSpec => [](IInv /\ AdapterInv /\ BatchInv)
BY BatchInitInv, BatchNextInv, PTL DEF BatchSpec

\* Wait returns with the whole batch executed and the workers joined, and throws
\* exactly when a job of this batch failed.
THEOREM WaitsReportTheBatch == BatchSpec => []WaitReportsBatch
<1>1. ASSUME IInv, AdapterInv, BatchInv PROVE WaitReportsBatch
  <2> SUFFICES ASSUME call = "wait", pc[Owner] = "idle"
               PROVE  /\ \A j \in batch : executed[j] = 1
                      /\ error \in (batch \cap Failing) \cup {None}
                      /\ error = None <=> batch \cap Failing = {}
                      /\ LiveWorkers = {} /\ ~started /\ jobs = <<>>
    BY DEF WaitReportsBatch
  <2>1. ~started
    BY <1>1 DEF AdapterInv
  <2>2. \A j \in submitted : executed[j] = 1
    BY <1>1, <2>1 DEF BatchInv
  <2>3. batch \subseteq submitted
    BY <1>1 DEF BatchInv
  <2>4. /\ error \in (batch \cap Failing) \cup {None}
        /\ error = None <=> batch \cap Failing = {}
    BY <1>1 DEF BatchInv
  <2>5. LiveWorkers = {}
    BY <1>1, <2>1 DEF IInv, LiveInv, LiveWorkers
  <2>6. jobs = <<>>
    <3>1. jobs \in Seq(Jobs) /\ Len(jobs) \in Nat
      BY <1>1, LenProperties DEF IInv, TypeOK
    <3>2. ASSUME Len(jobs) # 0 PROVE FALSE
      <4>1. 1 \in 1 .. Len(jobs)
        BY <3>1, <3>2
      <4>2. jobs[1] \in Jobs
        BY <3>1, <4>1, ElementOfSeq
      <4>3. jobs[1] \in submitted /\ executed[jobs[1]] = 0
        BY <1>1, <4>1, <4>2 DEF IInv, QueueInv
      <4> QED
        BY <4>3, <2>2
    <3> QED
      BY <3>1, <3>2, EmptySeq
  <2> QED
    BY <2>1, <2>2, <2>3, <2>4, <2>5, <2>6
<1> QED
  BY <1>1, BatchInvariant, PTL
=============================================================================
