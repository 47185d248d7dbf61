-------------------------- MODULE ExecutorRegistry ---------------------------
(***************************************************************************)
(* The bounded registry of shared executors (onnx_threads/src/             *)
(* cpu_executor.cc, CpuExecutorRegistry): Acquire, the leases that         *)
(* sessions hold, eviction, and what a forked child inherits.              *)
(*                                                                         *)
(* An executor is alive while a shared_ptr to it exists: a lease of a      *)
(* session or, for a multithreaded executor, the one its entry retains.    *)
(* Leases are copied and dropped without the registry's mutex.  Acquire    *)
(* is one critical section and one step: it looks at each count once, so a *)
(* lease dropped meanwhile is dropped before the step or after it.         *)
(***************************************************************************)
EXTENDS Integers, FiniteSets

CONSTANTS
    Sessions,       \* threads that acquire executors
    Keys,           \* CpuExecutorKey values
    Multithreaded,  \* the keys with effective_threads > 1
    Capacity,       \* capacity_
    ExecutorNames,      \* bound: names for the executors that are ever created
    MaxForks        \* bound on forks

ASSUME RegistryAssumption == /\ Multithreaded \subseteq Keys
                             /\ Capacity \in Nat \ {0}
                             /\ MaxForks \in Nat

VARIABLES
    entries,     \* entries_, by the executor each entry points to
    process_id,  \* process_id_ of the registry
    pid,         \* CurrentProcessId()
    created,     \* the executors created so far
    key,         \* executor_key of each executor (a name stands for one key)
    owner,       \* process_id of each executor: the process that has its threads
    leases,      \* the executors each session holds a lease on
    joined,      \* history: <<e, p>> if ~Impl of e joined its workers in process p
    running,     \* the sessions whose thread exists in this process
    result       \* outcome of the last Acquire, "none" after another step

registryVars == <<entries, process_id, pid, created, key, owner, leases, joined,
                  running, result>>

RegistryInit ==
    /\ entries = {}
    /\ process_id = 0
    /\ pid = 0
    /\ created = {}
    /\ key \in [ExecutorNames -> Keys]
    /\ owner = [e \in ExecutorNames |-> 0]
    /\ leases = [s \in Sessions |-> {}]
    /\ joined = {}
    /\ running = Sessions
    /\ result = "none"

Leased == UNION {leases[s] : s \in Sessions}

\* The executors of a set of entries whose shared_ptr count is not zero.
Retained(E) == {e \in E : key[e] \in Multithreaded}
Alive(E, L) == Retained(E) \cup L

\* The executors that have a thread pool in the current process.
Live == {e \in Alive(entries, Leased) : owner[e] = pid}

\* Mutant of Destroyed: the pool of an inherited executor is not released, so that
\* ~ThreadPool joins threads that only exist in the parent.
DestroyedInherited(before, after) == {<<e, pid>> : e \in before \ after}

\* ~Impl of the executors that die: it joins the workers, unless the executor was
\* inherited across fork, in which case the pool object is abandoned.
Destroyed(before, after) ==
    {<<e, pid>> : e \in {f \in before \ after : owner[f] = pid}}

\* ResetAfterForkLocked and RemoveExpiredLocked: a child forgets the entries of
\* its parent; an entry whose executor is dead is erased.
Usable ==
    IF process_id # pid THEN {} ELSE {e \in entries : e \in Alive(entries, Leased)}

\* Mutant of IdleRetained: an executor that one session uses is taken for idle.
IdleRetainedShared(E) ==
    {e \in Retained(E) : Cardinality({s \in Sessions : e \in leases[s]}) <= 1}

\* Mutant of IdleRetained: an idle executor is never found.
IdleRetainedNone(E) == {e \in Retained(E) : e \in Leased /\ e \notin Leased}

\* The entries EvictIdleRetainedLocked may evict: use_count() is 1.
IdleRetained(E) == {e \in Retained(E) : e \notin Leased}

\* The entries that remain when room is needed: unchanged below the capacity,
\* else one idle entry is evicted; none is possible if every executor is leased.
RoomFor(E) ==
    IF Cardinality(E) < Capacity THEN {E}
    ELSE {E \ {e} : e \in IdleRetained(E)}

\* Acquire finds an entry for the key.
AcquireShared(s, k) ==
    \E e \in Usable :
        /\ s \in running
        /\ key[e] = k
        /\ entries' = Usable
        /\ process_id' = pid
        /\ leases' = [leases EXCEPT ![s] = @ \cup {e}]
        /\ joined' = joined \cup Destroyed(Alive(entries, Leased), Alive(Usable, Leased))
        /\ result' = "shared"
        /\ UNCHANGED <<pid, created, key, owner, running>>

\* Mutant of AcquireNew: the registry is not searched first.
AcquireNewDuplicate(s, k) ==
    \E room \in RoomFor(Usable), e \in ExecutorNames \ created :
        /\ s \in running
        /\ key[e] = k
        /\ entries' = room \cup {e}
        /\ process_id' = pid
        /\ created' = created \cup {e}
        /\ owner' = [owner EXCEPT ![e] = pid]
        /\ leases' = [leases EXCEPT ![s] = @ \cup {e}]
        /\ joined' = joined \cup Destroyed(Alive(entries, Leased), Alive(room, Leased))
        /\ result' = "new"
        /\ UNCHANGED <<pid, key, running>>

\* Acquire makes room and creates an executor.
AcquireNew(s, k) ==
    \E room \in RoomFor(Usable), e \in ExecutorNames \ created :
        /\ s \in running
        /\ key[e] = k
        /\ \A f \in Usable : key[f] # k
        /\ entries' = room \cup {e}
        /\ process_id' = pid
        /\ created' = created \cup {e}
        /\ owner' = [owner EXCEPT ![e] = pid]
        /\ leases' = [leases EXCEPT ![s] = @ \cup {e}]
        /\ joined' = joined \cup Destroyed(Alive(entries, Leased), Alive(room, Leased))
        /\ result' = "new"
        /\ UNCHANGED <<pid, key, running>>

\* The constructor throws (affinity, thread creation) after room was made.
AcquireFails(s, k) ==
    \E room \in RoomFor(Usable) :
        /\ s \in running
        /\ \A f \in Usable : key[f] # k
        /\ entries' = room
        /\ process_id' = pid
        /\ joined' = joined \cup Destroyed(Alive(entries, Leased), Alive(room, Leased))
        /\ result' = "failed"
        /\ UNCHANGED <<pid, created, key, owner, leases, running>>

\* Acquire throws: the capacity is exhausted and nothing is idle.
AcquireExhausted(s, k) ==
    /\ s \in running
    /\ \A f \in Usable : key[f] # k
    /\ RoomFor(Usable) = {}
    /\ entries' = Usable
    /\ process_id' = pid
    /\ joined' = joined \cup Destroyed(Alive(entries, Leased), Alive(Usable, Leased))
    /\ result' = "exhausted"
    /\ UNCHANGED <<pid, created, key, owner, leases, running>>

\* live_pool_count prunes the entries as Acquire does.
LivePoolCount ==
    /\ running # {}
    /\ entries' = Usable
    /\ process_id' = pid
    /\ joined' = joined \cup Destroyed(Alive(entries, Leased), Alive(Usable, Leased))
    /\ result' = "none"
    /\ UNCHANGED <<pid, created, key, owner, leases, running>>

\* A session copies its lease to another one.
Share(s, t, e) ==
    /\ s \in running
    /\ e \in leases[s]
    /\ leases' = [leases EXCEPT ![t] = @ \cup {e}]
    /\ result' = "none"
    /\ UNCHANGED <<entries, process_id, pid, created, key, owner, joined, running>>

\* A session drops its lease; the last shared_ptr destroys the executor.
Release(s, e) ==
    /\ s \in running
    /\ e \in leases[s]
    /\ leases' = [leases EXCEPT ![s] = @ \ {e}]
    /\ joined' = joined \cup
         Destroyed(Alive(entries, Leased),
                   Alive(entries, UNION {leases'[t] : t \in Sessions}))
    /\ result' = "none"
    /\ UNCHANGED <<entries, process_id, pid, created, key, owner, running>>

\* A session's thread forks; the model follows the child, which has a copy of
\* all objects but only this thread.
Fork(s) ==
    /\ s \in running
    /\ pid < MaxForks
    /\ pid' = pid + 1
    /\ running' = {s}
    /\ result' = "none"
    /\ UNCHANGED <<entries, process_id, created, key, owner, leases, joined>>

RegistryNext ==
    \/ \E s \in Sessions, k \in Keys :
        AcquireShared(s, k) \/ AcquireNew(s, k) \/ AcquireFails(s, k)
            \/ AcquireExhausted(s, k)
    \/ LivePoolCount
    \/ \E s, t \in Sessions, e \in ExecutorNames : Share(s, t, e)
    \/ \E s \in Sessions, e \in ExecutorNames : Release(s, e)
    \/ \E s \in Sessions : Fork(s)

RegistrySpec == RegistryInit /\ [][RegistryNext]_registryVars

-----------------------------------------------------------------------------
(***************************************************************************)
(* Properties.                                                             *)
(***************************************************************************)

\* Every variable keeps its type, and only created executors are referred to.
RegistryTypeOK ==
    /\ created \subseteq ExecutorNames
    /\ entries \subseteq created
    /\ process_id \in 0 .. pid
    /\ pid \in 0 .. MaxForks
    /\ key \in [ExecutorNames -> Keys]
    /\ owner \in [ExecutorNames -> 0 .. pid]
    /\ leases \in [Sessions -> SUBSET created]
    /\ joined \subseteq created \X (0 .. pid)
    /\ running \subseteq Sessions
    /\ result \in {"none", "shared", "new", "failed", "exhausted"}

\* "strict live-pool capacity" (cpu_executor.h): the executors that have threads
\* in this process are never more than the capacity, evicted and leased ones
\* included, also after a fork.
CapacityHeld == Cardinality(Live) <= Capacity

\* Compatible sessions share one executor: two executors with the same key are
\* never alive in one process.
OneExecutorPerKey == \A e, f \in Live : key[e] = key[f] => e = f

\* The workers of an executor are only joined in the process that started them: a
\* child that drops inherited entries and leases never waits for threads it does
\* not have.  And once a registry has noticed the fork, every executor it can hand
\* out has its threads here, so that a dispatch on a new lease is accepted.
ThreadsAreLocal ==
    /\ \A j \in joined : owner[j[1]] = j[2]
    /\ process_id = pid => \A e \in entries : owner[e] = pid

\* Acquire reports exhaustion only when sessions really hold leases on as many
\* executors as the registry may track.
ExhaustionJustified ==
    [][result' = "exhausted" =>
        Cardinality({e \in Live : e \in Leased}) >= Capacity]_registryVars
=============================================================================
