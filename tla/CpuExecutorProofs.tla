--------------------------- MODULE CpuExecutorProofs -------------------------
(***************************************************************************)
(* Proofs about cpu_executor.cc.  First ExecutorRegistry, for every number *)
(* of sessions, keys, executors and forks and every capacity.  Then        *)
(* CpuDispatch: the split of a parallel loop into blocks for every size    *)
(* and every number of participants, and the bindings, counters and        *)
(* iterations of nested calls for every number of threads, executors and   *)
(* levels of nesting.                                                      *)
(***************************************************************************)
EXTENDS ExecutorRegistry, CpuDispatch, FiniteSetTheorems, SequenceTheorems, TLAPS

-----------------------------------------------------------------------------
(***************************************************************************)
(* The registry.                                                           *)
(***************************************************************************)

\* The entries are bounded and have one executor per key.
EntriesInv ==
    /\ IsFiniteSet(entries)
    /\ Cardinality(entries) <= Capacity
    /\ \A e, f \in entries : key[e] = key[f] => e = f

\* The registry tracks every executor that has threads in this process; until it
\* has noticed a fork there are none.
TrackedInv ==
    /\ process_id = pid => /\ \A e \in entries : owner[e] = pid
                           /\ \A e \in Leased : owner[e] = pid => e \in entries
    /\ process_id # pid => \A e \in created : owner[e] # pid

\* Workers were joined by the process that started them.
JoinedInv == \A j \in joined : owner[j[1]] = j[2]

RegistryIInv == RegistryTypeOK /\ EntriesInv /\ TrackedInv /\ JoinedInv

-----------------------------------------------------------------------------

\* Membership in Leased.
LEMMA LeasedDef == \A e : e \in Leased <=> \E s \in Sessions : e \in leases[s]
BY DEF Leased

\* RoomFor returns subsets of its argument that have a free place.
LEMMA RoomIsFree ==
    ASSUME NEW E, IsFiniteSet(E), Cardinality(E) <= Capacity, NEW room \in RoomFor(E)
    PROVE  /\ room \subseteq E
           /\ IsFiniteSet(room)
           /\ Cardinality(room) < Capacity
<1>1. Capacity \in Nat /\ Cardinality(E) \in Nat
  BY RegistryAssumption, FS_CardinalityType
<1>2. CASE Cardinality(E) < Capacity
  BY <1>2 DEF RoomFor
<1>3. CASE ~(Cardinality(E) < Capacity)
  <2>1. PICK e \in IdleRetained(E) : room = E \ {e}
    BY <1>3 DEF RoomFor
  <2>2. e \in E
    BY DEF IdleRetained, Retained
  <2>3. IsFiniteSet(room) /\ Cardinality(room) = Cardinality(E) - 1
    BY <2>1, <2>2, FS_RemoveElement
  <2> QED
    BY <1>1, <2>1, <2>3
<1> QED
  BY <1>2, <1>3

\* RoomFor evicts only executors that nobody has leased.
LEMMA RoomKeepsLeased ==
    ASSUME NEW E, NEW room \in RoomFor(E), NEW e \in E, e \in Leased
    PROVE  e \in room
BY DEF RoomFor, IdleRetained

\* What the pruning of the entries leaves.
LEMMA UsableFacts ==
    ASSUME RegistryIInv
    PROVE  /\ Usable \subseteq entries
           /\ IsFiniteSet(Usable)
           /\ Cardinality(Usable) <= Capacity
           /\ \A e, f \in Usable : key[e] = key[f] => e = f
           /\ \A e \in Usable : owner[e] = pid /\ e \in Alive(entries, Leased)
           /\ \A e \in Leased : owner[e] = pid => e \in Usable
<1>1. Usable \subseteq entries
  BY DEF Usable
<1>2. IsFiniteSet(entries) /\ Cardinality(entries) <= Capacity
  BY DEF RegistryIInv, EntriesInv
<1>3. IsFiniteSet(Usable) /\ Cardinality(Usable) <= Cardinality(entries)
  BY <1>1, <1>2, FS_Subset
<1>4. Cardinality(Usable) \in Nat /\ Cardinality(entries) \in Nat /\ Capacity \in Nat
  BY <1>2, <1>3, FS_CardinalityType, RegistryAssumption
<1>5. Cardinality(Usable) <= Capacity
  BY <1>2, <1>3, <1>4
<1>6. \A e, f \in Usable : key[e] = key[f] => e = f
  BY <1>1 DEF RegistryIInv, EntriesInv
<1>7. \A e \in Usable : owner[e] = pid /\ e \in Alive(entries, Leased)
  BY DEF RegistryIInv, TrackedInv, Usable
<1>8. Leased \subseteq created
  BY LeasedDef DEF RegistryIInv, RegistryTypeOK
<1>9. \A e \in Leased : owner[e] = pid => e \in Usable
  BY <1>8 DEF RegistryIInv, TrackedInv, Usable, Alive
<1> QED
  BY <1>1, <1>3, <1>5, <1>6, <1>7, <1>9

\* The invariant holds initially.
LEMMA RegistryInitInv == RegistryInit => RegistryIInv
<1> SUFFICES ASSUME RegistryInit PROVE RegistryIInv
  OBVIOUS
<1>1. RegistryTypeOK
  BY RegistryAssumption DEF RegistryInit, RegistryTypeOK
<1>2. EntriesInv
  BY FS_EmptySet, RegistryAssumption DEF RegistryInit, EntriesInv
<1>3. Leased = {}
  BY LeasedDef DEF RegistryInit
<1>4. TrackedInv
  BY <1>3 DEF RegistryInit, TrackedInv
<1>5. JoinedInv
  BY DEF RegistryInit, JoinedInv
<1> QED
  BY <1>1, <1>2, <1>4, <1>5 DEF RegistryIInv

\* The executors that die are created ones of this process.
LEMMA DestroyedFacts ==
    ASSUME RegistryIInv, NEW A, joined' = joined \cup Destroyed(Alive(entries, Leased), A)
    PROVE  /\ joined' \subseteq created \X (0 .. pid)
           /\ \A j \in joined' : j[1] \in created /\ owner[j[1]] = j[2]
<1>1. entries \subseteq created /\ Leased \subseteq created
  BY LeasedDef DEF RegistryIInv, RegistryTypeOK
<1>2. pid \in 0 .. pid
  BY DEF RegistryIInv, RegistryTypeOK
<1>3. \A j \in Destroyed(Alive(entries, Leased), A) :
        \E e \in created : j = <<e, pid>> /\ owner[e] = pid
  BY <1>1 DEF Destroyed, Alive, Retained
<1>4. joined \subseteq created \X (0 .. pid) /\ \A j \in joined : owner[j[1]] = j[2]
  BY DEF RegistryIInv, RegistryTypeOK, JoinedInv
<1> QED
  BY <1>2, <1>3, <1>4

\* A step that only prunes the entries keeps the invariant.
LEMMA PruneStep ==
    ASSUME RegistryIInv,
           entries' \subseteq Usable, \A e \in Usable : e \in Leased => e \in entries',
           process_id' = pid,
           joined' = joined \cup Destroyed(Alive(entries, Leased), Alive(entries', Leased)),
           result' \in {"none", "shared", "new", "failed", "exhausted"},
           UNCHANGED <<pid, created, key, owner, leases, running>>
    PROVE  RegistryIInv'
<1>1. Leased' = Leased
  BY DEF Leased
<1>2. Leased \subseteq created /\ entries \subseteq created
  BY LeasedDef DEF RegistryIInv, RegistryTypeOK
<1>5. RegistryTypeOK'
  <2>1. joined' \subseteq created \X (0 .. pid)
    BY DestroyedFacts
  <2>2. entries' \subseteq created /\ process_id' \in 0 .. pid
    BY <1>2, UsableFacts DEF RegistryIInv, RegistryTypeOK
  <2> QED
    BY <2>1, <2>2 DEF RegistryIInv, RegistryTypeOK
<1>6. EntriesInv'
  <2>1. IsFiniteSet(entries') /\ Cardinality(entries') <= Cardinality(Usable)
    BY UsableFacts, FS_Subset
  <2>2. Cardinality(entries') \in Nat /\ Cardinality(Usable) \in Nat /\ Capacity \in Nat
    BY <2>1, UsableFacts, FS_CardinalityType, RegistryAssumption
  <2>3. Cardinality(entries') <= Capacity
    BY <2>1, <2>2, UsableFacts
  <2> QED
    BY <2>1, <2>3, UsableFacts DEF EntriesInv
<1>7. TrackedInv'
  BY <1>1, UsableFacts DEF TrackedInv
<1>8. JoinedInv'
  BY DestroyedFacts DEF JoinedInv
<1> QED
  BY <1>5, <1>6, <1>7, <1>8 DEF RegistryIInv

\* A session that gets a lease adds one executor to the leased ones.
LEMMA LeaseAdded ==
    ASSUME RegistryTypeOK, NEW s \in Sessions, NEW e,
           leases' = [leases EXCEPT ![s] = @ \cup {e}]
    PROVE  Leased' = Leased \cup {e}
<1>1. \A t \in Sessions : leases'[t] = IF t = s THEN leases[t] \cup {e} ELSE leases[t]
  BY DEF RegistryTypeOK
<1>2. \A f : f \in Leased' <=> \E t \in Sessions : f \in leases'[t]
  BY DEF Leased
<1>3. \A f : f \in Leased' <=> f \in Leased \/ f = e
  BY <1>1, <1>2, LeasedDef
<1> QED
  BY <1>3

\* Acquire of an executor that is tracked.
LEMMA SharedStep ==
    ASSUME RegistryIInv, NEW s \in Sessions, NEW k \in Keys, AcquireShared(s, k)
    PROVE  RegistryIInv'
<1>1. PICK e \in Usable :
        /\ entries' = Usable
        /\ process_id' = pid
        /\ leases' = [leases EXCEPT ![s] = @ \cup {e}]
        /\ joined' = joined \cup Destroyed(Alive(entries, Leased), Alive(Usable, Leased))
        /\ result' = "shared"
        /\ UNCHANGED <<pid, created, key, owner, running>>
  BY DEF AcquireShared
<1>2. Leased' = Leased \cup {e}
  BY <1>1, LeaseAdded DEF RegistryIInv
<1>3. Leased \subseteq created /\ entries \subseteq created /\ e \in created
  BY LeasedDef, UsableFacts DEF RegistryIInv, RegistryTypeOK
<1>4. RegistryTypeOK'
  <2>1. joined' \subseteq created \X (0 .. pid)
    BY <1>1, DestroyedFacts
  <2>2. leases' \in [Sessions -> SUBSET created]
    BY <1>1, <1>3 DEF RegistryIInv, RegistryTypeOK
  <2> QED
    BY <1>1, <1>3, <2>1, <2>2, UsableFacts DEF RegistryIInv, RegistryTypeOK
<1>5. EntriesInv'
  BY <1>1, UsableFacts DEF EntriesInv
<1>6. TrackedInv'
  BY <1>1, <1>2, UsableFacts DEF TrackedInv
<1>7. JoinedInv'
  BY <1>1, DestroyedFacts DEF JoinedInv
<1> QED
  BY <1>4, <1>5, <1>6, <1>7 DEF RegistryIInv

\* Acquire of a new executor.
LEMMA NewStep ==
    ASSUME RegistryIInv, NEW s \in Sessions, NEW k \in Keys, AcquireNew(s, k)
    PROVE  RegistryIInv'
<1>1. PICK room \in RoomFor(Usable), e \in ExecutorNames \ created :
        /\ key[e] = k
        /\ \A f \in Usable : key[f] # k
        /\ entries' = room \cup {e}
        /\ process_id' = pid
        /\ created' = created \cup {e}
        /\ owner' = [owner EXCEPT ![e] = pid]
        /\ leases' = [leases EXCEPT ![s] = @ \cup {e}]
        /\ joined' = joined \cup Destroyed(Alive(entries, Leased), Alive(room, Leased))
        /\ result' = "new"
        /\ UNCHANGED <<pid, key, running>>
  BY DEF AcquireNew
<1>2. Leased' = Leased \cup {e}
  BY <1>1, LeaseAdded DEF RegistryIInv
<1>3. Leased \subseteq created /\ entries \subseteq created
  BY LeasedDef DEF RegistryIInv, RegistryTypeOK
<1>4. room \subseteq Usable /\ IsFiniteSet(room) /\ Cardinality(room) < Capacity
  BY UsableFacts, RoomIsFree
<1>5. room \subseteq created /\ e \notin room
  BY <1>1, <1>3, <1>4, UsableFacts
<1>6. \A f \in ExecutorNames : owner'[f] = IF f = e THEN pid ELSE owner[f]
  BY <1>1 DEF RegistryIInv, RegistryTypeOK
<1>7. RegistryTypeOK'
  <2>1. joined' \subseteq created' \X (0 .. pid)
    <3>1. joined' \subseteq created \X (0 .. pid)
      BY <1>1, DestroyedFacts
    <3> QED
      BY <3>1, <1>1
  <2>2. leases' \in [Sessions -> SUBSET created']
    BY <1>1 DEF RegistryIInv, RegistryTypeOK
  <2>3. owner' \in [ExecutorNames -> 0 .. pid] /\ process_id' \in 0 .. pid
    BY <1>1 DEF RegistryIInv, RegistryTypeOK
  <2>4. entries' \subseteq created' /\ created' \subseteq ExecutorNames
    BY <1>1, <1>5 DEF RegistryIInv, RegistryTypeOK
  <2> QED
    BY <1>1, <2>1, <2>2, <2>3, <2>4 DEF RegistryIInv, RegistryTypeOK
<1>8. EntriesInv'
  <2>1. IsFiniteSet(room \cup {e}) /\ Cardinality(room \cup {e}) = Cardinality(room) + 1
    BY <1>4, <1>5, FS_AddElement
  <2>2. Cardinality(room) \in Nat /\ Capacity \in Nat
    BY <1>4, FS_CardinalityType, RegistryAssumption
  <2>3. Cardinality(entries') <= Capacity
    BY <1>1, <1>4, <2>1, <2>2
  <2>4. \A f, g \in entries' : key'[f] = key'[g] => f = g
    BY <1>1, <1>4, UsableFacts
  <2> QED
    BY <1>1, <2>1, <2>3, <2>4 DEF EntriesInv
<1>9. TrackedInv'
  <2>1. \A f \in entries' : owner'[f] = pid
    BY <1>1, <1>4, <1>6, UsableFacts DEF RegistryIInv, RegistryTypeOK
  <2>2. \A f \in Leased : owner[f] = pid => f \in room
    BY UsableFacts, RoomKeepsLeased
  <2>3. \A f \in Leased' : owner'[f] = pid => f \in entries'
    BY <1>1, <1>2, <1>3, <1>6, <2>2 DEF RegistryIInv, RegistryTypeOK
  <2> QED
    BY <1>1, <2>1, <2>3 DEF TrackedInv
<1>10. JoinedInv'
  <2>1. \A j \in joined' : j[1] \in created /\ owner[j[1]] = j[2]
    BY <1>1, DestroyedFacts
  <2>2. \A f \in created : owner'[f] = owner[f]
    BY <1>1, <1>6 DEF RegistryIInv, RegistryTypeOK
  <2> QED
    BY <2>1, <2>2 DEF JoinedInv
<1> QED
  BY <1>7, <1>8, <1>9, <1>10 DEF RegistryIInv

\* A session drops a lease.
LEMMA ReleaseStep ==
    ASSUME RegistryIInv, NEW s \in Sessions, NEW e \in ExecutorNames, Release(s, e)
    PROVE  RegistryIInv'
<1>1. \A t \in Sessions : leases'[t] \subseteq leases[t]
  BY DEF Release, RegistryIInv, RegistryTypeOK
<1>2. \A f : f \in Leased' <=> \E t \in Sessions : f \in leases'[t]
  BY DEF Leased
<1>3. Leased' \subseteq Leased
  BY <1>1, <1>2, LeasedDef
<1>4. Leased' = UNION {leases'[t] : t \in Sessions}
  BY DEF Leased
<1>5. Leased \subseteq created /\ entries \subseteq created
  BY LeasedDef DEF RegistryIInv, RegistryTypeOK
<1>6. joined' = joined \cup Destroyed(Alive(entries, Leased), Alive(entries, Leased'))
  BY <1>4 DEF Release
<1>7. RegistryTypeOK'
  <2>1. joined' \subseteq created \X (0 .. pid)
    BY <1>6, DestroyedFacts
  <2>2. leases' \in [Sessions -> SUBSET created]
    BY DEF Release, RegistryIInv, RegistryTypeOK
  <2> QED
    BY <2>1, <2>2 DEF Release, RegistryIInv, RegistryTypeOK
<1>8. EntriesInv'
  BY DEF Release, RegistryIInv, EntriesInv
<1>9. TrackedInv'
  BY <1>3 DEF Release, RegistryIInv, TrackedInv
<1>10. JoinedInv'
  BY <1>6, DestroyedFacts DEF Release, JoinedInv
<1> QED
  BY <1>7, <1>8, <1>9, <1>10 DEF RegistryIInv

\* A session copies a lease.
LEMMA ShareStep ==
    ASSUME RegistryIInv, NEW s \in Sessions, NEW t \in Sessions, NEW e \in ExecutorNames,
           Share(s, t, e)
    PROVE  RegistryIInv'
<1>1. e \in Leased
  BY LeasedDef DEF Share
<1>2. Leased' = Leased
  <2>1. RegistryTypeOK /\ leases' = [leases EXCEPT ![t] = @ \cup {e}]
    BY DEF Share, RegistryIInv
  <2>2. Leased' = Leased \cup {e}
    BY <2>1, LeaseAdded
  <2> QED
    BY <1>1, <2>2
<1>3. RegistryTypeOK'
  <2>1. e \in created
    BY DEF Share, RegistryIInv, RegistryTypeOK
  <2>2. leases' \in [Sessions -> SUBSET created]
    BY <2>1 DEF Share, RegistryIInv, RegistryTypeOK
  <2> QED
    BY <2>2 DEF Share, RegistryIInv, RegistryTypeOK
<1>4. EntriesInv'
  BY DEF Share, RegistryIInv, EntriesInv
<1>5. TrackedInv'
  BY <1>2 DEF Share, RegistryIInv, TrackedInv
<1>6. JoinedInv'
  BY DEF Share, RegistryIInv, JoinedInv
<1> QED
  BY <1>3, <1>4, <1>5, <1>6 DEF RegistryIInv

\* A thread forks: no executor has threads in the child.
LEMMA ForkStep ==
    ASSUME RegistryIInv, NEW s \in Sessions, Fork(s)
    PROVE  RegistryIInv'
<1>1. Leased' = Leased
  BY DEF Fork, Leased
<1>2. pid \in Nat /\ MaxForks \in Nat /\ pid' = pid + 1 /\ pid < MaxForks
  BY RegistryAssumption DEF Fork, RegistryIInv, RegistryTypeOK
<1>3. RegistryTypeOK'
  <2>1. pid' \in 0 .. MaxForks /\ process_id' \in 0 .. pid'
    BY <1>2 DEF Fork, RegistryIInv, RegistryTypeOK
  <2>2. owner' \in [ExecutorNames -> 0 .. pid']
    BY <1>2 DEF Fork, RegistryIInv, RegistryTypeOK
  <2>3. joined' \subseteq created \X (0 .. pid')
    <3>1. 0 .. pid \subseteq 0 .. pid'
      BY <1>2
    <3>2. joined \subseteq created \X (0 .. pid) /\ joined' = joined
      BY DEF Fork, RegistryIInv, RegistryTypeOK
    <3> QED
      BY <3>1, <3>2
  <2> QED
    BY <2>1, <2>2, <2>3 DEF Fork, RegistryIInv, RegistryTypeOK
<1>4. EntriesInv'
  BY DEF Fork, RegistryIInv, EntriesInv
<1>5. TrackedInv'
  <2>1. \A e \in created : owner[e] \in 0 .. pid
    BY DEF RegistryIInv, RegistryTypeOK
  <2>2. process_id' # pid'
    BY <1>2 DEF Fork, RegistryIInv, RegistryTypeOK
  <2> QED
    BY <1>2, <2>1, <2>2 DEF Fork, TrackedInv
<1>6. JoinedInv'
  BY DEF Fork, RegistryIInv, JoinedInv
<1> QED
  BY <1>3, <1>4, <1>5, <1>6 DEF RegistryIInv

\* Every step keeps the invariant.
LEMMA StepInv == RegistryIInv /\ [RegistryNext]_registryVars => RegistryIInv'
<1> SUFFICES ASSUME RegistryIInv, [RegistryNext]_registryVars PROVE RegistryIInv'
  OBVIOUS
<1>1. ASSUME NEW s \in Sessions, NEW k \in Keys, AcquireFails(s, k) PROVE RegistryIInv'
  <2>1. PICK room \in RoomFor(Usable) :
          /\ entries' = room
          /\ process_id' = pid
          /\ joined' = joined \cup Destroyed(Alive(entries, Leased), Alive(room, Leased))
          /\ result' = "failed"
          /\ UNCHANGED <<pid, created, key, owner, leases, running>>
    BY <1>1 DEF AcquireFails
  <2>2. room \subseteq Usable
    BY UsableFacts, RoomIsFree
  <2>3. \A e \in Usable : e \in Leased => e \in room
    BY RoomKeepsLeased
  <2> QED
    BY <2>1, <2>2, <2>3, PruneStep
<1>2. ASSUME NEW s \in Sessions, NEW k \in Keys, AcquireExhausted(s, k) PROVE RegistryIInv'
  BY <1>2, PruneStep DEF AcquireExhausted
<1>3. CASE LivePoolCount
  BY <1>3, PruneStep DEF LivePoolCount
<1>4. CASE UNCHANGED registryVars
  <2>1. Leased' = Leased
    BY <1>4 DEF registryVars, Leased
  <2>2. RegistryTypeOK' /\ EntriesInv'
    BY <1>4 DEF registryVars, RegistryIInv, RegistryTypeOK, EntriesInv
  <2>3. TrackedInv' /\ JoinedInv'
    BY <1>4, <2>1 DEF registryVars, RegistryIInv, TrackedInv, JoinedInv
  <2> QED
    BY <2>2, <2>3 DEF RegistryIInv
<1> QED
  BY <1>1, <1>2, <1>3, <1>4, SharedStep, NewStep, ReleaseStep, ShareStep, ForkStep DEF RegistryNext

LEMMA Invariance == RegistrySpec => []RegistryIInv
BY RegistryInitInv, StepInv, PTL DEF RegistrySpec

-----------------------------------------------------------------------------

\* The state of the registry, of the executors and of the leases is well typed in
\* every state: CpuExecutorRegistry refers to executors that exist.
THEOREM RegistryTypeCorrect == RegistrySpec => []RegistryTypeOK
<1>1. RegistryIInv => RegistryTypeOK
  BY DEF RegistryIInv
<1> QED
  BY <1>1, Invariance, PTL

\* Acquire keeps the "strict live-pool capacity": the executors with threads in the
\* process never exceed it, whatever sessions lease, share, release and fork.
THEOREM CapacityIsHeld == RegistrySpec => []CapacityHeld
<1>1. RegistryIInv => CapacityHeld
  <2> SUFFICES ASSUME RegistryIInv PROVE CapacityHeld
    OBVIOUS
  <2>1. Leased \subseteq created /\ entries \subseteq created
    BY LeasedDef DEF RegistryIInv, RegistryTypeOK
  <2>2. Live \subseteq entries
    BY <2>1 DEF RegistryIInv, TrackedInv, Live, Alive, Retained
  <2>3. IsFiniteSet(entries) /\ Cardinality(entries) <= Capacity
    BY DEF RegistryIInv, EntriesInv
  <2>4. IsFiniteSet(Live) /\ Cardinality(Live) <= Cardinality(entries)
    BY <2>2, <2>3, FS_Subset
  <2>5. Cardinality(Live) \in Nat /\ Cardinality(entries) \in Nat /\ Capacity \in Nat
    BY <2>3, <2>4, FS_CardinalityType, RegistryAssumption
  <2> QED
    BY <2>3, <2>4, <2>5 DEF CapacityHeld
<1> QED
  BY <1>1, Invariance, PTL

\* Sessions with the same key share one executor: Acquire never has two of them
\* alive in one process.
THEOREM SharingIsExact == RegistrySpec => []OneExecutorPerKey
<1>1. RegistryIInv => OneExecutorPerKey
  <2> SUFFICES ASSUME RegistryIInv PROVE OneExecutorPerKey
    OBVIOUS
  <2>1. Leased \subseteq created /\ entries \subseteq created
    BY LeasedDef DEF RegistryIInv, RegistryTypeOK
  <2>2. Live \subseteq entries
    BY <2>1 DEF RegistryIInv, TrackedInv, Live, Alive, Retained
  <2> QED
    BY <2>2 DEF RegistryIInv, EntriesInv, OneExecutorPerKey
<1> QED
  BY <1>1, Invariance, PTL

\* No process joins the workers of another one, whatever entries and leases a
\* forked child drops, and a registry that noticed the fork only hands out executors
\* of its own process.
THEOREM JoinsStayLocal == RegistrySpec => []ThreadsAreLocal
<1>1. RegistryIInv => ThreadsAreLocal
  BY DEF RegistryIInv, JoinedInv, TrackedInv, ThreadsAreLocal
<1> QED
  BY <1>1, Invariance, PTL

\* Acquire throws "capacity exhausted" only when as many executors as the registry
\* may track are leased: an idle one, or one whose last lease is gone, is replaced.
THEOREM ExhaustionIsJustified == RegistrySpec => ExhaustionJustified
<1> DEFINE Used == {e \in Live : e \in Leased}
<1>1. ASSUME RegistryIInv, NEW s \in Sessions, NEW k \in Keys, AcquireExhausted(s, k)
      PROVE  Cardinality(Used) >= Capacity
  <2>1. RoomFor(Usable) = {}
    BY <1>1 DEF AcquireExhausted
  <2>2. Cardinality(Usable) \in Nat /\ Capacity \in Nat /\ IsFiniteSet(entries)
    BY <1>1, UsableFacts, FS_CardinalityType, RegistryAssumption DEF RegistryIInv, EntriesInv
  <2>3. Cardinality(Usable) >= Capacity /\ IdleRetained(Usable) = {}
    <3>1. ~(Cardinality(Usable) < Capacity)
      BY <2>1 DEF RoomFor
    <3>2. \A e \in IdleRetained(Usable) : Usable \ {e} \in RoomFor(Usable)
      BY <3>1 DEF RoomFor
    <3> QED
      BY <2>1, <2>2, <3>1, <3>2
  <2>4. Usable \subseteq Used
    BY <1>1, <2>3, UsableFacts DEF IdleRetained, Live, Alive, Retained
  <2>5. Used \subseteq entries
    BY <1>1, UsableFacts DEF Live
  <2>6. IsFiniteSet(Used)
    BY <2>2, <2>5, FS_Subset
  <2>7. Cardinality(Usable) <= Cardinality(Used) /\ Cardinality(Used) \in Nat
    BY <2>4, <2>6, FS_Subset, FS_CardinalityType
  <2> QED
    BY <2>2, <2>3, <2>7
<1>2. RegistryIInv /\ [RegistryNext]_registryVars =>
        [result' = "exhausted" => Cardinality(Used) >= Capacity]_registryVars
  <2> SUFFICES ASSUME RegistryIInv, RegistryNext, result' = "exhausted"
               PROVE  Cardinality(Used) >= Capacity
    BY DEF registryVars
  <2>1. \E s \in Sessions, k \in Keys : AcquireExhausted(s, k)
    BY DEF RegistryNext, AcquireShared, AcquireNew, AcquireFails, LivePoolCount, Share,
           Release, Fork
  <2> QED
    BY <2>1, <1>1
<1> QED
  BY <1>2, Invariance, PTL DEF RegistrySpec, ExhaustionJustified

-----------------------------------------------------------------------------
(***************************************************************************)
(* The dispatch of a parallel loop.                                        *)
(***************************************************************************)

\* Quotient and remainder of the number of iterations.
LEMMA Division ==
    ASSUME NEW total \in Nat, NEW p \in Nat \ {0}
    PROVE  /\ total \div p \in Nat
           /\ total % p \in 0 .. (p - 1)
           /\ total = p * (total \div p) + (total % p)
OBVIOUS

\* The blocks of BlockContext::Run tile the iterations: the first begins at 0, each
\* one begins where the one before it ends, none ends before it begins, and the
\* last one ends at the total.
THEOREM BlocksTile ==
    ASSUME NEW total \in Nat, NEW p \in Nat \ {0}
    PROVE  /\ BlockBegin(0, total, p) = 0
           /\ \A b \in 0 .. (p - 2) : BlockEnd(b, total, p) = BlockBegin(b + 1, total, p)
           /\ \A b \in 0 .. (p - 1) :
                BlockBegin(b, total, p) <= BlockEnd(b, total, p)
           /\ BlockEnd(p - 1, total, p) = total
<1> DEFINE q == total \div p
           r == total % p
<1>1. q \in Nat /\ r \in 0 .. (p - 1) /\ total = p * q + r
  BY Division
<1>2. \A b : /\ BlockBegin(b, total, p) = b * q + MinOf(b, r)
             /\ BlockEnd(b, total, p) = b * q + MinOf(b, r) + q + (IF b < r THEN 1 ELSE 0)
  BY DEF BlockBegin, BlockEnd
<1> HIDE DEF q, r
<1>3. BlockBegin(0, total, p) = 0
  BY <1>1, <1>2 DEF MinOf
<1>4. ASSUME NEW b \in 0 .. (p - 2)
      PROVE  BlockEnd(b, total, p) = BlockBegin(b + 1, total, p)
  <2>1. (b + 1) * q = b * q + q /\ b * q \in Nat
    BY <1>1
  <2>2. MinOf(b + 1, r) = MinOf(b, r) + (IF b < r THEN 1 ELSE 0)
    BY <1>1 DEF MinOf
  <2>3. MinOf(b, r) \in Nat
    BY <1>1 DEF MinOf
  <2> QED
    BY <1>1, <1>2, <2>1, <2>2, <2>3
<1>5. ASSUME NEW b \in 0 .. (p - 1)
      PROVE  BlockBegin(b, total, p) <= BlockEnd(b, total, p)
  <2>1. b * q \in Nat /\ MinOf(b, r) \in Nat
    BY <1>1 DEF MinOf
  <2> QED
    BY <1>1, <1>2, <2>1
<1>6. BlockEnd(p - 1, total, p) = total
  <2>1. (p - 1) * q = p * q - q /\ p * q \in Nat
    BY <1>1
  <2>2. MinOf(p - 1, r) = r /\ ~(p - 1 < r)
    BY <1>1 DEF MinOf
  <2> QED
    BY <1>1, <1>2, <2>1, <2>2
<1> QED
  BY <1>3, <1>4, <1>5, <1>6

-----------------------------------------------------------------------------
(***************************************************************************)
(* The inductive invariant.                                                *)
(***************************************************************************)

\* The calls on the stacks.
Frames == [executor : Executors, total : Nat, blocks : Nat,
           nested : BOOLEAN, limited : BOOLEAN, counted : BOOLEAN,
           phase : {"choose", "run"}, participants : Nat, ran : SUBSET Nat,
           times : UNION {[0 .. (n - 1) -> Nat] : n \in Nat},
           was_current : Executors \cup {None}, was_region : Executors \cup {None}]

TypeOK ==
    /\ counters \in [Executors -> CounterStates \cup {None}]
    /\ stack \in [Threads -> Seq(Frames)]
    /\ \A t \in Threads : Len(stack[t]) <= MaxDepth
    /\ region \in [Threads -> Executors \cup {None}]
    /\ current \in [Threads -> Executors \cup {None}]

\* The iterations that were run are those of the blocks that were run.
FrameOK(f) ==
    /\ f.participants > 0 /\ f.blocks > 0
    /\ f.ran \subseteq 0 .. (f.participants - 1)
    /\ f.phase = "choose" => f.ran = {}
    /\ f.times \in [0 .. (f.total - 1) -> Nat]
    /\ \A i \in 0 .. (f.total - 1) :
        f.times[i] = IF \E b \in f.ran : i \in BlockRange(b, f.total, f.participants)
                     THEN 1 ELSE 0

FramesInv == \A t \in Threads : \A k \in 1 .. Len(stack[t]) : FrameOK(stack[t][k])

\* The executor a thread is bound to below the call k of its stack.
Below(t, k) == IF k = 1 THEN None ELSE stack[t][k - 1].executor

\* A call below another one is in its region, and the bindings that a call restores
\* are those of the call below it; n is the depth of the thread.
BindOK(t, n) ==
    /\ \A k \in 1 .. n :
        /\ k < n => stack[t][k].phase = "run"
        /\ stack[t][k].was_current = Below(t, k)
        /\ stack[t][k].was_region = Below(t, k)
    /\ current[t] = Below(t, n + 1)
    /\ region[t] = IF n = 0 THEN None
                   ELSE IF stack[t][n].phase = "run" THEN stack[t][n].executor
                   ELSE Below(t, n)
BindInv == \A t \in Threads : \A n \in Nat : n = Len(stack[t]) => BindOK(t, n)

\* The counted calls of an executor that may yet be counted as inline.
MayCount(f, e) ==
    f.executor = e /\ f.counted /\ (f.phase = "choose" \/ e \in Bounded)
Open(e) ==
    {x \in Threads \X (1 .. MaxDepth) :
        x[2] <= Len(stack[x[1]]) /\ MayCount(stack[x[1]][x[2]], e)}

CounterInv ==
    /\ \A t \in Threads : \A k \in 1 .. Len(stack[t]) :
        stack[t][k].counted => counters[stack[t][k].executor] # None
    /\ \A e \in Executors : counters[e] # None =>
        counters[e].nested_inline + counters[e].limited_inline + Cardinality(Open(e))
            <= counters[e].dispatches

IInv == TypeOK /\ FramesInv /\ BindInv /\ CounterInv

-----------------------------------------------------------------------------
(***************************************************************************)
(* The blocks partition the iterations.                                    *)
(***************************************************************************)

\* Multiplying by a natural number keeps the order.
LEMMA Times ==
    ASSUME NEW a \in Nat, NEW b \in Nat, NEW q \in Nat, a <= b
    PROVE  a * q \in Nat /\ b * q \in Nat /\ a * q <= b * q
<1>1. PICK d \in Nat : b = a + d
  <2>1. b - a \in Nat /\ b = a + (b - a)
    OBVIOUS
  <2> QED
    BY <2>1
<1>2. (a + d) * q = a * q + d * q /\ a * q \in Nat /\ d * q \in Nat
  OBVIOUS
<1> QED
  BY <1>1, <1>2

\* A block begins after every block before it.
LEMMA BlocksOrdered ==
    ASSUME NEW total \in Nat, NEW p \in Nat \ {0},
           NEW a \in 0 .. (p - 1), NEW b \in 0 .. (p - 1), a < b
    PROVE  /\ BlockEnd(a, total, p) \in Nat /\ BlockBegin(b, total, p) \in Nat
           /\ BlockEnd(a, total, p) <= BlockBegin(b, total, p)
<1> DEFINE q == total \div p
           r == total % p
<1>1. q \in Nat /\ r \in 0 .. (p - 1)
  BY Division
<1>2. /\ BlockBegin(b, total, p) = b * q + MinOf(b, r)
      /\ BlockEnd(a, total, p) = a * q + MinOf(a, r) + q + (IF a < r THEN 1 ELSE 0)
  BY DEF BlockBegin, BlockEnd
<1> HIDE DEF q, r
<1>3. /\ (a + 1) * q \in Nat /\ b * q \in Nat /\ (a + 1) * q <= b * q
      /\ (a + 1) * q = a * q + q /\ a * q \in Nat
  BY <1>1, Times, a + 1 \in Nat, a + 1 <= b
<1>4. /\ MinOf(a, r) + (IF a < r THEN 1 ELSE 0) <= MinOf(b, r)
      /\ MinOf(a, r) \in Nat /\ MinOf(b, r) \in Nat
  BY <1>1 DEF MinOf
<1> QED
  BY <1>1, <1>2, <1>3, <1>4

\* Two blocks have no iteration in common.
LEMMA BlocksDisjoint ==
    ASSUME NEW total \in Nat, NEW p \in Nat \ {0},
           NEW a \in 0 .. (p - 1), NEW b \in 0 .. (p - 1), NEW i \in Nat,
           i \in BlockRange(a, total, p), i \in BlockRange(b, total, p)
    PROVE  a = b
<1>1. \A x, y \in 0 .. (p - 1) : x < y => 
        /\ BlockEnd(x, total, p) \in Nat /\ BlockBegin(y, total, p) \in Nat
        /\ BlockEnd(x, total, p) <= BlockBegin(y, total, p)
  BY BlocksOrdered
<1>2. a < b \/ b < a \/ a = b
  OBVIOUS
<1>3. ASSUME NEW x \in 0 .. (p - 1)
      PROVE  BlockBegin(x, total, p) \in Nat /\ BlockEnd(x, total, p) \in Nat
  <2> DEFINE q == total \div p
             r == total % p
  <2>1. q \in Nat /\ r \in 0 .. (p - 1)
    BY Division
  <2>2. /\ BlockBegin(x, total, p) = x * q + MinOf(x, r)
        /\ BlockEnd(x, total, p) = x * q + MinOf(x, r) + q + (IF x < r THEN 1 ELSE 0)
    BY DEF BlockBegin, BlockEnd
  <2> HIDE DEF q, r
  <2>3. x * q \in Nat /\ MinOf(x, r) \in Nat
    BY <2>1 DEF MinOf
  <2> QED
    BY <2>1, <2>2, <2>3
<1>4. \A x \in 0 .. (p - 1) : i \in BlockRange(x, total, p) <=>
            BlockBegin(x, total, p) <= i /\ i < BlockEnd(x, total, p)
  BY <1>3 DEF BlockRange
<1> QED
  BY <1>1, <1>2, <1>3, <1>4

\* Every iteration is in a block.
LEMMA BlocksCover ==
    ASSUME NEW total \in Nat, NEW p \in Nat \ {0}, NEW i \in 0 .. (total - 1)
    PROVE  \E b \in 0 .. (p - 1) : i \in BlockRange(b, total, p)
<1> DEFINE q == total \div p
           r == total % p
<1>1. q \in Nat /\ r \in 0 .. (p - 1) /\ total = p * q + r
  BY Division
<1>2. \A b : /\ BlockBegin(b, total, p) = b * q + MinOf(b, r)
             /\ BlockEnd(b, total, p) = b * q + MinOf(b, r) + q + (IF b < r THEN 1 ELSE 0)
  BY DEF BlockBegin, BlockEnd
<1> HIDE DEF q, r
<1>3. CASE i < r * (q + 1)
  <2>1. PICK b, c : b = i \div (q + 1) /\ c = i % (q + 1)
    OBVIOUS
  <2>2. b \in Nat /\ c \in 0 .. q /\ i = (q + 1) * b + c
    <3>1. PICK m : m = q + 1
      OBVIOUS
    <3>2. m \in Nat \ {0} /\ i \in Nat
      BY <3>1, <1>1
    <3>3. i \div m \in Nat /\ i % m \in 0 .. (m - 1) /\ i = m * (i \div m) + (i % m)
      BY <3>2, Division
    <3> QED
      BY <3>1, <3>3, <2>1, <1>1
  <2>3. b < r
    <3> SUFFICES ASSUME r <= b PROVE FALSE
      BY <1>1, <2>2
    <3>1. r * (q + 1) <= b * (q + 1) /\ b * (q + 1) \in Nat /\ r * (q + 1) \in Nat
      BY <1>1, <2>2, Times, q + 1 \in Nat
    <3>2. (q + 1) * b = b * (q + 1)
      BY <1>1, <2>2
    <3> QED
      BY <3>1, <3>2, <2>2, <1>1, <1>3
  <2>4. b \in 0 .. (p - 1)
    BY <1>1, <2>2, <2>3
  <2>5. (q + 1) * b = b * q + b /\ b * q \in Nat
    BY <1>1, <2>2
  <2>6. MinOf(b, r) = b
    BY <2>3 DEF MinOf
  <2>7. BlockBegin(b, total, p) = b * q + b /\ BlockEnd(b, total, p) = b * q + b + q + 1
    BY <1>2, <2>3, <2>6
  <2>8. i \in BlockRange(b, total, p)
    BY <1>1, <2>2, <2>5, <2>7 DEF BlockRange
  <2> QED
    BY <2>4, <2>8
<1>4. CASE ~(i < r * (q + 1))
  <2>1. r * (q + 1) \in Nat /\ r * (q + 1) = r * q + r /\ p * q \in Nat /\ r * q \in Nat
    BY <1>1
  <2>2. q > 0
    <3> SUFFICES ASSUME q = 0 PROVE FALSE
      BY <1>1
    <3>1. p * q = 0 /\ r * q = 0
      BY <1>1
    <3> QED
      BY <3>1, <2>1, <1>1, <1>4
  <2>3. PICK n : n = i - r
    OBVIOUS
  <2>4. n \in Nat /\ r * q <= n /\ n < p * q
    BY <2>1, <2>3, <1>1, <1>4
  <2>5. PICK b, c : b = n \div q /\ c = n % q
    OBVIOUS
  <2>6. b \in Nat /\ c \in 0 .. (q - 1) /\ n = q * b + c
    BY <2>2, <2>4, <2>5, <1>1, Division
  <2>7. q * b = b * q /\ b * q \in Nat
    BY <2>6, <1>1
  <2>8. r <= b
    <3> SUFFICES ASSUME b + 1 <= r PROVE FALSE
      BY <1>1, <2>6
    <3>1. (b + 1) * q <= r * q
      BY <1>1, <2>6, Times
    <3>2. (b + 1) * q = b * q + q
      BY <1>1, <2>6
    <3> QED
      BY <3>1, <3>2, <2>1, <2>4, <2>6, <2>7, <1>1
  <2>9. b < p
    <3> SUFFICES ASSUME p <= b PROVE FALSE
      BY <2>6
    <3>1. p * q <= b * q
      BY <1>1, <2>6, Times
    <3> QED
      BY <3>1, <2>1, <2>4, <2>6, <2>7, <1>1
  <2>10. MinOf(b, r) = r
    BY <1>1, <2>6, <2>8 DEF MinOf
  <2>11. BlockBegin(b, total, p) = b * q + r /\ BlockEnd(b, total, p) = b * q + r + q + 0
    BY <1>1, <1>2, <2>6, <2>8, <2>10
  <2>12. i \in BlockRange(b, total, p)
    BY <1>1, <2>3, <2>6, <2>7, <2>11 DEF BlockRange
  <2>13. b \in 0 .. (p - 1)
    BY <2>6, <2>9
  <2> QED
    BY <2>12, <2>13
<1> QED
  BY <1>3, <1>4

-----------------------------------------------------------------------------
(***************************************************************************)
(* The counters.                                                           *)
(***************************************************************************)

LEMMA Constants ==
    /\ MaxDepth \in Nat /\ EffectiveThreads \in Nat \ {0} /\ MaxTotal \in Nat
    /\ Bounded \subseteq Executors /\ None \notin CounterStates
BY DispatchAssumption, CounterAssumption

LEMMA ZeroFacts == /\ Zero \in CounterStates /\ Zero # None
                   /\ Zero.dispatches = 0 /\ Zero.nested_inline = 0
                   /\ Zero.limited_inline = 0
BY Constants DEF Zero, CounterStates

LEMMA CountFacts ==
    ASSUME NEW c \in CounterStates, NEW field \in {"dispatches", "nested_inline", "limited_inline"},
           NEW d, d = [c EXCEPT ![field] = c[field] + 1]
    PROVE  /\ d \in CounterStates /\ d # None
           /\ d.dispatches = c.dispatches + IF field = "dispatches" THEN 1 ELSE 0
           /\ d.nested_inline = c.nested_inline + IF field = "nested_inline" THEN 1 ELSE 0
           /\ d.limited_inline = c.limited_inline + IF field = "limited_inline" THEN 1 ELSE 0
<1>1. CASE field = "dispatches"
  BY <1>1, Constants DEF CounterStates
<1>2. CASE field = "nested_inline"
  BY <1>2, Constants DEF CounterStates
<1>3. CASE field = "limited_inline"
  BY <1>3, Constants DEF CounterStates
<1> QED
  BY <1>1, <1>2, <1>3

\* The inline dispatches of a counter state.
Inline(c) == c.nested_inline + c.limited_inline

LEMMA BumpFacts ==
    ASSUME TypeOK, NEW e \in Executors,
           NEW field \in {"dispatches", "nested_inline", "limited_inline"},
           NEW counted \in BOOLEAN, counted => counters[e] # None,
           Bump(e, field, counted)
    PROVE  /\ counters' \in [Executors -> CounterStates \cup {None}]
           /\ \A x \in Executors : x # e \/ ~counted => counters'[x] = counters[x]
           /\ \A x \in Executors : counters'[x] # None <=> counters[x] # None
           /\ counted => 
                /\ counters[e] \in CounterStates /\ counters'[e] \in CounterStates
                /\ counters'[e].dispatches =
                        counters[e].dispatches + IF field = "dispatches" THEN 1 ELSE 0
                /\ Inline(counters'[e]) =
                        Inline(counters[e]) + IF field = "dispatches" THEN 0 ELSE 1
<1>1. CASE ~counted
  BY <1>1 DEF Bump, TypeOK
<1>2. CASE counted
  <2>1. counters[e] \in CounterStates
    BY <1>2 DEF TypeOK
  <2>2. PICK c, d : c = counters[e] /\ d = [c EXCEPT ![field] = c[field] + 1]
    OBVIOUS
  <2>3. counters' = [counters EXCEPT ![e] = d]
    BY <1>2, <2>2 DEF Bump, TypeOK
  <2>4. /\ d \in CounterStates /\ d # None
        /\ d.dispatches = counters[e].dispatches + IF field = "dispatches" THEN 1 ELSE 0
        /\ d.nested_inline = counters[e].nested_inline
                                + IF field = "nested_inline" THEN 1 ELSE 0
        /\ d.limited_inline = counters[e].limited_inline
                                + IF field = "limited_inline" THEN 1 ELSE 0
    <3>1. c \in CounterStates /\ d = [c EXCEPT ![field] = c[field] + 1]
      BY <2>1, <2>2
    <3>2. /\ d \in CounterStates /\ d # None
          /\ d.dispatches = c.dispatches + IF field = "dispatches" THEN 1 ELSE 0
          /\ d.nested_inline = c.nested_inline + IF field = "nested_inline" THEN 1 ELSE 0
          /\ d.limited_inline = c.limited_inline + IF field = "limited_inline" THEN 1 ELSE 0
      BY ONLY ZenonT(30), <3>1, CountFacts, field \in {"dispatches", "nested_inline", "limited_inline"}
    <3> QED
      BY <3>2, <2>2
  <2>5. Inline(d) = Inline(counters[e]) + IF field = "dispatches" THEN 0 ELSE 1
    BY <2>1, <2>4 DEF Inline, CounterStates
  <2>6. counters'[e] = d /\ \A x \in Executors : x # e => counters'[x] = counters[x]
    BY <2>3 DEF TypeOK
  <2> QED
    BY <1>2, <2>1, <2>3, <2>4, <2>5, <2>6 DEF TypeOK
<1> QED
  BY <1>1, <1>2

LEMMA OpenFinite == ASSUME NEW e PROVE IsFiniteSet(Open(e)) /\ Cardinality(Open(e)) \in Nat
<1>1. IsFiniteSet(1 .. MaxDepth)
  BY FS_Interval, Constants
<1>2. IsFiniteSet(Threads \X (1 .. MaxDepth))
  BY <1>1, CounterAssumption, FS_Product
<1>3. Open(e) \subseteq Threads \X (1 .. MaxDepth)
  BY DEF Open
<1> QED
  BY <1>2, <1>3, FS_Subset, FS_CardinalityType

-----------------------------------------------------------------------------
(***************************************************************************)
(* Steps of the innermost call.                                            *)
(***************************************************************************)

LEMMA InitInv == Init => IInv
<1> SUFFICES ASSUME Init PROVE IInv
  OBVIOUS
<1>1. \A t \in Threads : stack[t] = <<>> /\ Len(stack[t]) = 0
  BY DEF Init
<1>2. TypeOK
  BY <1>1, Constants DEF Init, TypeOK
<1>3. FramesInv
  BY <1>1 DEF FramesInv
<1>4. BindInv
  BY <1>1 DEF BindInv, BindOK, Init, Below
<1>5. CounterInv
  BY <1>1 DEF CounterInv, Init
<1> QED
  BY <1>2, <1>3, <1>4, <1>5 DEF IInv

\* The innermost call.
LEMMA TopFacts ==
    ASSUME TypeOK, NEW t \in Threads, Depth(t) > 0
    PROVE  /\ Len(stack[t]) \in 1 .. MaxDepth /\ Depth(t) = Len(stack[t])
           /\ Top(t) = stack[t][Len(stack[t])] /\ Top(t) \in Frames
           /\ stack[t] \in Seq(Frames)
<1>1. stack[t] \in Seq(Frames) /\ Len(stack[t]) <= MaxDepth
  BY DEF TypeOK
<1>2. Len(stack[t]) \in Nat /\ Depth(t) = Len(stack[t]) /\ Top(t) = stack[t][Len(stack[t])]
  BY <1>1, LenProperties DEF Depth, Top
<1>3. Len(stack[t]) \in 1 .. Len(stack[t]) /\ Len(stack[t]) \in 1 .. MaxDepth
  BY <1>1, <1>2, Constants
<1>4. Top(t) \in Frames
  BY <1>1, <1>2, <1>3, ElementOfSeq
<1> QED
  BY <1>1, <1>2, <1>3, <1>4

\* What a change of the innermost call to new leaves alone.
LEMMA SetTop ==
    ASSUME TypeOK, NEW t \in Threads, Depth(t) > 0, NEW new \in Frames,
           stack' = [stack EXCEPT ![t][Depth(t)] = new]
    PROVE  /\ stack' \in [Threads -> Seq(Frames)]
           /\ \A u \in Threads : Len(stack'[u]) = Len(stack[u])
           /\ \A u \in Threads : u # t => stack'[u] = stack[u]
           /\ \A k \in 1 .. Len(stack[t]) :
                stack'[t][k] = IF k = Len(stack[t]) THEN new ELSE stack[t][k]
<1>1. /\ Len(stack[t]) \in 1 .. MaxDepth /\ Depth(t) = Len(stack[t])
      /\ stack[t] \in Seq(Frames)
  BY TopFacts
<1>2. PICK s : s = [stack[t] EXCEPT ![Len(stack[t])] = new]
  OBVIOUS
<1>3. s \in Seq(Frames) /\ Len(s) = Len(stack[t])
      /\ \A k \in 1 .. Len(stack[t]) : s[k] = IF k = Len(stack[t]) THEN new ELSE stack[t][k]
  BY <1>1, <1>2, ExceptSeq
<1>4. stack' = [stack EXCEPT ![t] = s]
  BY <1>1, <1>2 DEF TypeOK
<1> QED
  BY <1>3, <1>4 DEF TypeOK

\* The innermost call of t, of the executor x, is running after the step.
Runs(t, x) ==
    /\ stack' \in [Threads -> Seq(Frames)]
    /\ \A u \in Threads : Len(stack'[u]) <= MaxDepth
    /\ region' \in [Threads -> Executors \cup {None}]
    /\ FramesInv' /\ BindInv'
    /\ \A u \in Threads : \A k \in 1 .. Len(stack'[u]) :
        /\ k \in 1 .. Len(stack[u])
        /\ stack'[u][k].counted = stack[u][k].counted
        /\ stack'[u][k].executor = stack[u][k].executor
    /\ \A e \in Executors : e # x => Open(e)' = Open(e)
    /\ Open(x)' = IF ~Top(t).counted \/ x \in Bounded THEN Open(x)
                  ELSE Open(x) \ {<<t, Depth(t)>>}

\* A call that enters its region or runs a block.
LEMMA TopRuns ==
    ASSUME IInv, NEW t \in Threads, Depth(t) > 0, NEW new \in Frames, FrameOK(new),
           NEW x \in Executors, x = Top(t).executor,
           new.executor = Top(t).executor, new.counted = Top(t).counted,
           new.was_current = Top(t).was_current, new.was_region = Top(t).was_region,
           new.phase = "run",
           stack' = [stack EXCEPT ![t][Depth(t)] = new],
           region' = [region EXCEPT ![t] = Top(t).executor], UNCHANGED current
    PROVE  Runs(t, x)
<1>0. TypeOK
  BY DEF IInv
<1>1. /\ Len(stack[t]) \in 1 .. MaxDepth /\ Depth(t) = Len(stack[t])
      /\ Top(t) = stack[t][Len(stack[t])] /\ Top(t) \in Frames /\ stack[t] \in Seq(Frames)
  BY <1>0, TopFacts
<1>2. /\ stack' \in [Threads -> Seq(Frames)]
      /\ \A u \in Threads : Len(stack'[u]) = Len(stack[u])
      /\ \A u \in Threads : u # t => stack'[u] = stack[u]
      /\ \A k \in 1 .. Len(stack[t]) :
            stack'[t][k] = IF k = Len(stack[t]) THEN new ELSE stack[t][k]
  BY <1>0, SetTop
<1>3. Top(t).executor \in Executors
  BY <1>1 DEF Frames
<1>4. region' \in [Threads -> Executors \cup {None}]
  BY <1>0, <1>3 DEF TypeOK
<1>5. \A u \in Threads : \A k \in 1 .. Len(stack[u]) :
        /\ stack'[u][k].executor = stack[u][k].executor
        /\ stack'[u][k].counted = stack[u][k].counted
        /\ stack'[u][k].was_current = stack[u][k].was_current
        /\ stack'[u][k].was_region = stack[u][k].was_region
        /\ stack[u][k].phase = "run" => stack'[u][k].phase = "run"
  BY <1>1, <1>2
<1>6. FramesInv'
  BY <1>1, <1>2 DEF IInv, FramesInv, FrameOK
<1>7. \A u \in Threads : Len(stack[u]) \in Nat
  BY <1>0, LenProperties DEF TypeOK
<1>8. \A u \in Threads : \A k \in 1 .. (Len(stack[u]) + 1) : Below(u, k)' = Below(u, k)
  <2> SUFFICES ASSUME NEW u \in Threads, NEW k \in 1 .. (Len(stack[u]) + 1)
               PROVE  Below(u, k)' = Below(u, k)
    OBVIOUS
  <2>1. k # 1 => k - 1 \in 1 .. Len(stack[u])
    BY <1>7
  <2> QED
    BY <2>1, <1>5 DEF Below
<1>9. BindInv'
  <2> SUFFICES ASSUME NEW u \in Threads, NEW n \in Nat, n = Len(stack'[u]) PROVE BindOK(u, n)'
    BY DEF BindInv
  <2>0. n = Len(stack[u]) /\ BindOK(u, n)
    BY <1>2 DEF IInv, BindInv
  <2>1. \A k \in 1 .. n : /\ k < n => stack'[u][k].phase = "run"
                          /\ stack'[u][k].was_current = Below(u, k)'
                          /\ stack'[u][k].was_region = Below(u, k)'
    BY <2>0, <1>5, <1>8 DEF BindOK
  <2>2. current'[u] = Below(u, n + 1)'
    BY <2>0, <1>8 DEF BindOK
  <2>3. region'[u] = IF n = 0 THEN None
                     ELSE IF stack'[u][n].phase = "run" THEN stack'[u][n].executor
                     ELSE Below(u, n)'
    <3>1. CASE u = t
      BY <3>1, <2>0, <1>0, <1>1, <1>2 DEF TypeOK
    <3>2. CASE u # t
      BY <3>2, <2>0, <1>0, <1>2, <1>8 DEF BindOK, TypeOK
    <3> QED
      BY <3>1, <3>2
  <2> QED
    BY <2>1, <2>2, <2>3 DEF BindOK
<1>10. ASSUME NEW e \in Executors, NEW y \in Threads \X (1 .. MaxDepth)
       PROVE  /\ e # Top(t).executor => (y \in Open(e)' <=> y \in Open(e))
              /\ e = Top(t).executor =>
                   (y \in Open(e)' <=> y \in Open(e) /\ (\/ ~Top(t).counted \/ e \in Bounded
                                                         \/ y # <<t, Depth(t)>>))
  <2>1. PICK u \in Threads, k \in 1 .. MaxDepth : y = <<u, k>>
    OBVIOUS
  <2>2. /\ y \in Open(e) <=> k <= Len(stack[u]) /\ MayCount(stack[u][k], e)
        /\ y \in Open(e)' <=> k <= Len(stack'[u]) /\ MayCount(stack'[u][k], e)
    BY <2>1 DEF Open, MayCount
  <2>3. CASE u = t /\ k = Len(stack[t])
    BY SMTT(30), <2>1, <2>2, <2>3, <1>1, <1>2 DEF MayCount, Frames
  <2>4. CASE ~(u = t /\ k = Len(stack[t]))
    <3>1. k <= Len(stack[u]) => stack'[u][k] = stack[u][k]
      BY <2>4, <1>2, <1>7
    <3> QED
      BY <3>1, <2>1, <2>2, <2>4, <1>1, <1>2 DEF MayCount
  <2> QED
    BY <2>3, <2>4
<1>11. \A e : Open(e) \subseteq Threads \X (1 .. MaxDepth) /\ Open(e)' \subseteq Threads \X (1 .. MaxDepth)
  BY DEF Open
<1>12. \A e \in Executors : e # x => Open(e)' = Open(e)
  BY <1>10, <1>11
<1>13. Open(x)' = IF ~Top(t).counted \/ x \in Bounded THEN Open(x)
                  ELSE Open(x) \ {<<t, Depth(t)>>}
  BY ZenonT(30), <1>10, <1>11
<1> QED
  BY <1>0, <1>2, <1>4, <1>5, <1>6, <1>9, <1>12, <1>13 DEF TypeOK, Runs

\* A step that counts a call as inline takes it from the calls that may be counted.
LEMMA CounterStep ==
    ASSUME IInv, NEW x \in Executors, NEW counted \in BOOLEAN, counted => counters[x] # None,
           NEW field \in {"nested_inline", "limited_inline"}, Bump(x, field, counted),
           \A e \in Executors : Open(e)' \subseteq Open(e),
           counted => \E y \in Open(x) : y \notin Open(x)'
    PROVE  /\ counters' \in [Executors -> CounterStates \cup {None}]
           /\ \A e \in Executors : counters'[e] # None <=> counters[e] # None
           /\ \A e \in Executors : counters'[e] # None =>
                counters'[e].nested_inline + counters'[e].limited_inline
                    + Cardinality(Open(e)') <= counters'[e].dispatches
<1>1. TypeOK /\ field \in {"dispatches", "nested_inline", "limited_inline"}
  BY DEF IInv
<1>2. /\ counters' \in [Executors -> CounterStates \cup {None}]
      /\ \A e \in Executors : e # x \/ ~counted => counters'[e] = counters[e]
      /\ \A e \in Executors : counters'[e] # None <=> counters[e] # None
      /\ counted => 
            /\ counters[x] \in CounterStates /\ counters'[x] \in CounterStates
            /\ counters'[x].dispatches = counters[x].dispatches
            /\ Inline(counters'[x]) = Inline(counters[x]) + 1
  BY <1>1, BumpFacts DEF CounterStates
<1>3. ASSUME NEW e \in Executors
      PROVE  /\ Cardinality(Open(e)') \in Nat /\ Cardinality(Open(e)) \in Nat
             /\ Cardinality(Open(e)') <= Cardinality(Open(e))
             /\ (\E y \in Open(e) : y \notin Open(e)') =>
                    Cardinality(Open(e)') <= Cardinality(Open(e)) - 1
  <2>1. IsFiniteSet(Open(e)) /\ Cardinality(Open(e)) \in Nat
    BY OpenFinite
  <2>2. /\ IsFiniteSet(Open(e)') /\ Cardinality(Open(e)') \in Nat
        /\ Cardinality(Open(e)') <= Cardinality(Open(e))
    BY <2>1, FS_Subset, FS_CardinalityType
  <2>3. ASSUME NEW y \in Open(e), y \notin Open(e)'
        PROVE  Cardinality(Open(e)') <= Cardinality(Open(e)) - 1
    <3>1. Open(e)' \subseteq Open(e) \ {y}
      BY <2>3
    <3>2. IsFiniteSet(Open(e) \ {y}) /\ Cardinality(Open(e) \ {y}) = Cardinality(Open(e)) - 1
      BY <2>1, FS_RemoveElement
    <3> QED
      BY <3>1, <3>2, FS_Subset
  <2> QED
    BY <2>1, <2>2, <2>3
<1>4. ASSUME NEW e \in Executors, counters'[e] # None
      PROVE  counters'[e].nested_inline + counters'[e].limited_inline
                    + Cardinality(Open(e)') <= counters'[e].dispatches
  <2>1. /\ counters[e] \in CounterStates /\ counters'[e] \in CounterStates
        /\ Inline(counters[e]) + Cardinality(Open(e)) <= counters[e].dispatches
    BY <1>1, <1>2, <1>4 DEF IInv, CounterInv, TypeOK, Inline
  <2>2. Inline(counters[e]) \in Nat /\ Inline(counters'[e]) \in Nat
        /\ counters[e].dispatches \in Nat /\ counters'[e].dispatches \in Nat
    BY <2>1 DEF Inline, CounterStates
  <2>3. CASE e # x \/ ~counted
    BY <2>1, <2>2, <2>3, <1>2, <1>3 DEF Inline
  <2>4. CASE e = x /\ counted
    <3>1. Inline(counters'[e]) + Cardinality(Open(e)') <= counters'[e].dispatches
      BY <2>1, <2>2, <2>4, <1>2, <1>3
    <3> QED
      BY <3>1 DEF Inline
  <2> QED
    BY <2>3, <2>4
<1> QED
  BY <1>2, <1>4

\* A call enters its region.
LEMMA EnterInv ==
    ASSUME IInv, NEW t \in Threads, Depth(t) > 0, Top(t).phase = "choose",
           NEW p \in Nat, p > 0, Enter(t, p), UNCHANGED current,
           NEW x \in Executors, x = Top(t).executor
    PROVE  Runs(t, x)
<1>0. TypeOK
  BY DEF IInv
<1>1. /\ Len(stack[t]) \in 1 .. MaxDepth /\ Depth(t) = Len(stack[t])
      /\ Top(t) = stack[t][Len(stack[t])] /\ Top(t) \in Frames /\ stack[t] \in Seq(Frames)
  BY <1>0, TopFacts
<1>2. PICK f, mid, new : /\ f = Top(t)
                         /\ mid = [f EXCEPT !.phase = "run"]
                         /\ new = [mid EXCEPT !.participants = p]
  OBVIOUS
<1>3. stack' = [stack EXCEPT ![t][Depth(t)] = new] /\ region' = [region EXCEPT ![t] = x]
  BY <1>0, <1>1, <1>2 DEF Enter, TypeOK
<1>4. FrameOK(f) /\ f.phase = "choose" /\ f \in Frames
  <2>1. Len(stack[t]) \in 1 .. Len(stack[t])
    BY <1>1
  <2> QED
    BY <2>1, <1>1, <1>2 DEF IInv, FramesInv
<1>5. /\ mid \in Frames /\ mid.phase = "run" /\ mid.executor = f.executor
      /\ mid.counted = f.counted /\ mid.was_current = f.was_current
      /\ mid.was_region = f.was_region /\ mid.ran = f.ran /\ mid.times = f.times
      /\ mid.total = f.total /\ mid.blocks = f.blocks
  BY <1>2, <1>4 DEF Frames
<1>6. /\ new \in Frames /\ new.phase = "run" /\ new.executor = f.executor
      /\ new.counted = f.counted /\ new.was_current = f.was_current
      /\ new.was_region = f.was_region /\ new.ran = f.ran /\ new.times = f.times
      /\ new.total = f.total /\ new.blocks = f.blocks /\ new.participants = p
  BY <1>2, <1>5 DEF Frames
<1>7. FrameOK(new)
  <2>1. f.ran = {} /\ f.blocks > 0 /\ f.times \in [0 .. (f.total - 1) -> Nat]
        /\ \A i \in 0 .. (f.total - 1) : f.times[i] = 0
    BY <1>4 DEF FrameOK
  <2> QED
    BY <2>1, <1>6 DEF FrameOK
<1> QED
  BY <1>2, <1>3, <1>6, <1>7, TopRuns

\* A call that is counted when it enters its region, or not at all.
LEMMA RunsStep ==
    ASSUME IInv, NEW t \in Threads, Depth(t) > 0, UNCHANGED current,
           NEW x \in Executors, x = Top(t).executor, Runs(t, x),
           NEW field \in {"nested_inline", "limited_inline"}, NEW counted \in BOOLEAN,
           counted => Top(t).counted /\ Top(t).phase = "choose" /\ x \notin Bounded,
           Bump(x, field, counted)
    PROVE  IInv'
<1>0. TypeOK
  BY DEF IInv
<1>1. /\ Len(stack[t]) \in 1 .. MaxDepth /\ Depth(t) = Len(stack[t])
      /\ Top(t) = stack[t][Len(stack[t])]
  BY <1>0, TopFacts
<1>5. counted => counters[x] # None /\ <<t, Depth(t)>> \in Open(x)
  <2>1. Len(stack[t]) \in 1 .. Len(stack[t])
    BY <1>1
  <2> QED
    BY <2>1, <1>1 DEF IInv, CounterInv, Open, MayCount
<1>6. \A e \in Executors : Open(e)' \subseteq Open(e)
  BY DEF Runs
<1>7. counted => \E y \in Open(x) : y \notin Open(x)'
  BY <1>5 DEF Runs
<1>8. /\ counters' \in [Executors -> CounterStates \cup {None}]
      /\ \A e \in Executors : counters'[e] # None <=> counters[e] # None
      /\ \A e \in Executors : counters'[e] # None =>
            counters'[e].nested_inline + counters'[e].limited_inline
                + Cardinality(Open(e)') <= counters'[e].dispatches
  BY <1>5, <1>6, <1>7, CounterStep
<1>9. TypeOK'
  BY <1>0, <1>8 DEF TypeOK, Runs
<1>10. CounterInv'
  <2>1. ASSUME NEW u \in Threads, NEW k \in 1 .. Len(stack'[u]), stack'[u][k].counted
        PROVE  counters'[stack'[u][k].executor] # None
    <3>1. /\ stack[u][k].counted /\ k \in 1 .. Len(stack[u])
          /\ stack'[u][k].executor = stack[u][k].executor
      BY <2>1 DEF Runs
    <3>2. stack[u] \in Seq(Frames) /\ stack[u][k] \in Frames
      BY <1>0, <3>1, ElementOfSeq DEF TypeOK
    <3>3. stack[u][k].executor \in Executors
      BY <3>2 DEF Frames
    <3> QED
      BY <3>1, <3>3, <1>8 DEF IInv, CounterInv
  <2> QED
    BY <2>1, <1>8 DEF CounterInv
<1> QED
  BY <1>9, <1>10 DEF IInv, Runs

LEMMA RunInlineInv == ASSUME IInv, NEW t \in Threads, RunInline(t) PROVE IInv'
<1>0. TypeOK /\ Depth(t) > 0 /\ UNCHANGED current
  BY DEF IInv, RunInline
<1>1. Top(t) \in Frames
  BY <1>0, TopFacts
<1>2. PICK f, x, field : /\ f = Top(t) /\ x = f.executor
                         /\ field = IF f.nested THEN "nested_inline" ELSE "limited_inline"
  OBVIOUS
<1>3. /\ x \in Executors /\ Top(t).phase = "choose" /\ x \notin Bounded
      /\ f.counted \in BOOLEAN /\ x = Top(t).executor
      /\ Bump(x, field, f.counted) /\ field \in {"nested_inline", "limited_inline"}
      /\ Enter(t, 1) /\ 1 \in Nat /\ 1 > 0
  BY <1>1, <1>2 DEF RunInline, Frames
<1>4. Runs(t, x)
  BY <1>0, <1>3, EnterInv
<1> QED
  BY <1>0, <1>2, <1>3, <1>4, RunsStep

LEMMA DispatchInv == ASSUME IInv, NEW t \in Threads, Dispatch(t) PROVE IInv'
<1>0. TypeOK /\ Depth(t) > 0 /\ UNCHANGED <<current, counters>>
  BY DEF IInv, Dispatch
<1>1. /\ Len(stack[t]) \in 1 .. MaxDepth /\ Top(t) = stack[t][Len(stack[t])] /\ Top(t) \in Frames
  BY <1>0, TopFacts
<1>2. PICK p \in 1 .. Top(t).blocks : Enter(t, p)
  BY DEF Dispatch
<1>3. PICK x : x = Top(t).executor
  OBVIOUS
<1>4. /\ Top(t).phase = "choose" /\ p \in Nat /\ p > 0
      /\ x \in Executors /\ x = Top(t).executor
  BY <1>1, <1>2, <1>3 DEF Dispatch, Frames
<1>5. Runs(t, x)
  BY <1>0, <1>2, <1>4, EnterInv
<1>6. Bump(x, "nested_inline", FALSE) /\ FALSE \in BOOLEAN
      /\ "nested_inline" \in {"nested_inline", "limited_inline"}
  BY <1>0 DEF Bump
<1> QED
  BY <1>0, <1>4, <1>5, <1>6, RunsStep

LEMMA RunBlockInv ==
    ASSUME IInv, NEW t \in Threads, NEW b \in Nat, RunBlock(t, b)
    PROVE  IInv'
<1>0. TypeOK /\ Depth(t) > 0 /\ UNCHANGED <<current, counters, region>>
  BY DEF IInv, RunBlock
<1>1. /\ Len(stack[t]) \in 1 .. MaxDepth /\ Depth(t) = Len(stack[t])
      /\ Top(t) = stack[t][Len(stack[t])] /\ Top(t) \in Frames /\ stack[t] \in Seq(Frames)
  BY <1>0, TopFacts
<1>2. PICK f, x, times : /\ f = Top(t) /\ x = f.executor
                    /\ times = [i \in DOMAIN f.times |-> f.times[i] +
                          IF i \in BlockRange(b, f.total, f.participants) THEN 1 ELSE 0]
  OBVIOUS
<1>3. PICK mid, new : /\ mid = [f EXCEPT !.ran = f.ran \cup {b}]
                      /\ new = [mid EXCEPT !.times = times]
  OBVIOUS
<1>4. FrameOK(f) /\ f.phase = "run" /\ f \in Frames /\ x \in Executors
      /\ b \in 0 .. (f.participants - 1) /\ b \notin f.ran
  <2>1. Len(stack[t]) \in 1 .. Len(stack[t])
    BY <1>1
  <2>2. FrameOK(f) /\ f \in Frames /\ x \in Executors
    BY <2>1, <1>1, <1>2 DEF IInv, FramesInv, Frames
  <2> QED
    BY <2>2, <1>2 DEF RunBlock
<1>5. stack' = [stack EXCEPT ![t][Depth(t)] = new]
  BY <1>0, <1>1, <1>2, <1>3 DEF RunBlock, TypeOK
<1>6. region' = [region EXCEPT ![t] = x]
  <2>1. region[t] = x
    BY <1>1, <1>2, <1>4 DEF IInv, BindInv, BindOK
  <2> QED
    BY <2>1, <1>0 DEF TypeOK
<1>7. /\ mid \in Frames /\ mid.phase = "run" /\ mid.executor = f.executor
      /\ mid.counted = f.counted /\ mid.was_current = f.was_current
      /\ mid.was_region = f.was_region /\ mid.ran = f.ran \cup {b}
      /\ mid.total = f.total /\ mid.blocks = f.blocks /\ mid.participants = f.participants
  BY <1>3, <1>4 DEF Frames
<1>8. f.times \in [0 .. (f.total - 1) -> Nat] /\ f.total \in Nat
  BY <1>4 DEF FrameOK, Frames
<1>9. times \in [0 .. (f.total - 1) -> Nat]
  BY <1>2, <1>8
<1>10. times \in UNION {[0 .. (n - 1) -> Nat] : n \in Nat}
  BY <1>8, <1>9
<1>11. /\ new \in Frames /\ new.phase = "run" /\ new.executor = f.executor
       /\ new.counted = f.counted /\ new.was_current = f.was_current
       /\ new.was_region = f.was_region /\ new.ran = f.ran \cup {b} /\ new.times = times
       /\ new.total = f.total /\ new.blocks = f.blocks /\ new.participants = f.participants
  BY <1>3, <1>7, <1>10 DEF Frames
<1>12. FrameOK(new)
  <2>1. /\ f.participants \in Nat \ {0} /\ f.blocks > 0 /\ f.ran \subseteq 0 .. (f.participants - 1)
    BY <1>4 DEF FrameOK, Frames
  <2>2. ASSUME NEW i \in 0 .. (f.total - 1)
        PROVE  times[i] = IF \E c \in f.ran \cup {b} : i \in BlockRange(c, f.total, f.participants)
                          THEN 1 ELSE 0
    <3>1. f.times[i] = IF \E c \in f.ran : i \in BlockRange(c, f.total, f.participants)
                       THEN 1 ELSE 0
      BY <1>4 DEF FrameOK
    <3>2. times[i] = f.times[i] + IF i \in BlockRange(b, f.total, f.participants) THEN 1 ELSE 0
      BY <1>2, <1>8
    <3>3. ASSUME NEW c \in f.ran, i \in BlockRange(c, f.total, f.participants),
                 i \in BlockRange(b, f.total, f.participants)
          PROVE  FALSE
      <4>1. c \in 0 .. (f.participants - 1) /\ c # b /\ i \in Nat
        BY <2>1, <1>4
      <4>2. c = b
        BY <4>1, <3>3, <2>1, <1>4, <1>8, BlocksDisjoint
      <4> QED
        BY <4>1, <4>2
    <3> QED
      BY <3>1, <3>2, <3>3
  <2> QED
    BY <2>1, <2>2, <1>4, <1>9, <1>11 DEF FrameOK
<1>13. Runs(t, x)
  BY <1>0, <1>2, <1>4, <1>5, <1>6, <1>11, <1>12, TopRuns
<1>14. Bump(x, "nested_inline", FALSE) /\ FALSE \in BOOLEAN
      /\ "nested_inline" \in {"nested_inline", "limited_inline"} /\ x = Top(t).executor
  BY <1>0, <1>2 DEF Bump
<1> QED
  BY <1>0, <1>4, <1>13, <1>14, RunsStep

-----------------------------------------------------------------------------
(***************************************************************************)
(* Calls and returns.                                                      *)
(***************************************************************************)

\* A counted call adds one dispatch and at most one call that may be inline.
LEMMA CounterCall ==
    ASSUME IInv, NEW x \in Executors, NEW counted \in BOOLEAN, counted <=> counters[x] # None,
           Bump(x, "dispatches", counted),
           \A e \in Executors : e # x \/ ~counted => Open(e)' = Open(e),
           counted => \E y : Open(x)' \subseteq Open(x) \cup {y}
    PROVE  /\ counters' \in [Executors -> CounterStates \cup {None}]
           /\ \A e \in Executors : counters'[e] # None <=> counters[e] # None
           /\ \A e \in Executors : counters'[e] # None =>
                counters'[e].nested_inline + counters'[e].limited_inline
                    + Cardinality(Open(e)') <= counters'[e].dispatches
<1>1. TypeOK /\ "dispatches" \in {"dispatches", "nested_inline", "limited_inline"}
  BY DEF IInv
<1>2. /\ counters' \in [Executors -> CounterStates \cup {None}]
      /\ \A e \in Executors : e # x \/ ~counted => counters'[e] = counters[e]
      /\ \A e \in Executors : counters'[e] # None <=> counters[e] # None
      /\ counted => 
            /\ counters[x] \in CounterStates /\ counters'[x] \in CounterStates
            /\ counters'[x].dispatches = counters[x].dispatches + 1
            /\ Inline(counters'[x]) = Inline(counters[x])
  <2>1. counted => Inline(counters[x]) \in Nat
    BY <1>1 DEF Inline, CounterStates, TypeOK
  <2> QED
    BY <2>1, <1>1, BumpFacts
<1>3. counted => /\ Cardinality(Open(x)') \in Nat /\ Cardinality(Open(x)) \in Nat
                 /\ Cardinality(Open(x)') <= Cardinality(Open(x)) + 1
  <2> SUFFICES ASSUME counted
               PROVE  /\ Cardinality(Open(x)') \in Nat /\ Cardinality(Open(x)) \in Nat
                      /\ Cardinality(Open(x)') <= Cardinality(Open(x)) + 1
    OBVIOUS
  <2>1. PICK y : Open(x)' \subseteq Open(x) \cup {y}
    OBVIOUS
  <2>2. IsFiniteSet(Open(x)) /\ Cardinality(Open(x)) \in Nat
    BY OpenFinite
  <2>3. /\ IsFiniteSet(Open(x) \cup {y})
        /\ Cardinality(Open(x) \cup {y}) \in Nat
        /\ Cardinality(Open(x) \cup {y}) <= Cardinality(Open(x)) + 1
    <3>1. IsFiniteSet(Open(x) \cup {y}) /\ Cardinality(Open(x) \cup {y}) =
                IF y \in Open(x) THEN Cardinality(Open(x)) ELSE Cardinality(Open(x)) + 1
      BY <2>2, FS_AddElement
    <3> QED
      BY <2>2, <3>1
  <2>4. /\ IsFiniteSet(Open(x)')
        /\ Cardinality(Open(x)') <= Cardinality(Open(x) \cup {y})
    BY <2>1, <2>3, FS_Subset
  <2>5. Cardinality(Open(x)') \in Nat
    BY <2>4, FS_CardinalityType
  <2> QED
    BY <2>2, <2>3, <2>4, <2>5
<1>4. ASSUME NEW e \in Executors, counters'[e] # None
      PROVE  counters'[e].nested_inline + counters'[e].limited_inline
                    + Cardinality(Open(e)') <= counters'[e].dispatches
  <2>1. /\ counters[e] \in CounterStates /\ counters'[e] \in CounterStates
        /\ Inline(counters[e]) + Cardinality(Open(e)) <= counters[e].dispatches
    BY <1>1, <1>2, <1>4 DEF IInv, CounterInv, TypeOK, Inline
  <2>2. Inline(counters[e]) \in Nat /\ Inline(counters'[e]) \in Nat
        /\ counters[e].dispatches \in Nat /\ counters'[e].dispatches \in Nat
    BY <2>1 DEF Inline, CounterStates
  <2>3. CASE e # x \/ ~counted
    <3>1. Open(e)' = Open(e) /\ counters'[e] = counters[e]
      BY <2>3, <1>2
    <3> QED
      BY <3>1, <2>1 DEF Inline
  <2>4. CASE e = x /\ counted
    <3>1. Inline(counters'[e]) + Cardinality(Open(e)') <= counters'[e].dispatches
      BY <2>1, <2>2, <2>4, <1>2, <1>3
    <3> QED
      BY <3>1 DEF Inline
  <2> QED
    BY <2>3, <2>4
<1> QED
  BY <1>2, <1>4

LEMMA StackUnchanged ==
    ASSUME IInv, UNCHANGED <<stack, region, current>>,
           counters' \in [Executors -> CounterStates \cup {None}]
    PROVE  TypeOK' /\ FramesInv' /\ BindInv'
<1>1. TypeOK'
  BY DEF IInv, TypeOK
<1>2. FramesInv'
  BY DEF IInv, FramesInv, FrameOK
<1>3. BindInv'
  <2> SUFFICES ASSUME NEW u \in Threads, NEW n \in Nat, n = Len(stack'[u]) PROVE BindOK(u, n)'
    BY DEF BindInv
  <2>1. BindOK(u, n)
    BY DEF IInv, BindInv
  <2> QED
    BY <2>1 DEF BindOK, Below
<1> QED
  BY <1>1, <1>2, <1>3

LEMMA EnableCountersInv == ASSUME IInv, NEW x \in Executors, EnableCounters(x) PROVE IInv'
<1>1. /\ counters' = [counters EXCEPT ![x] = Zero] /\ counters[x] = None
      /\ UNCHANGED <<stack, region, current>>
  BY DEF EnableCounters
<1>2. TypeOK' /\ FramesInv' /\ BindInv'
  BY <1>1, ZeroFacts, StackUnchanged DEF IInv, TypeOK
<1>3. \A e : Open(e)' = Open(e)
  BY <1>1 DEF Open, MayCount
<1>4. /\ counters'[x] = Zero
      /\ \A e \in Executors : e # x => counters'[e] = counters[e]
  BY <1>1 DEF IInv, TypeOK
<1>5. \A u \in Threads : \A k \in 1 .. Len(stack[u]) :
        stack[u][k].counted => counters[stack[u][k].executor] # None
  BY DEF IInv, CounterInv
<1>6. ASSUME NEW u \in Threads, NEW k \in 1 .. Len(stack[u])
      PROVE  stack[u][k].executor \in Executors
  <2>1. stack[u] \in Seq(Frames)
    BY DEF IInv, TypeOK
  <2>2. stack[u][k] \in Frames
    BY <2>1, ElementOfSeq
  <2> QED
    BY <2>2 DEF Frames
<1>7. Open(x) = {}
  <2> SUFFICES ASSUME NEW y \in Open(x) PROVE FALSE
    OBVIOUS
  <2>1. PICK u \in Threads, k \in 1 .. MaxDepth : y = <<u, k>>
    BY DEF Open
  <2>2. k <= Len(stack[u]) /\ stack[u][k].executor = x /\ stack[u][k].counted
    BY <2>1 DEF Open, MayCount
  <2>3. Len(stack[u]) \in Nat
    BY LenProperties DEF IInv, TypeOK
  <2> QED
    BY <2>2, <2>3, <1>1, <1>5
<1>8. CounterInv'
  <2>1. ASSUME NEW e \in Executors, counters'[e] # None
        PROVE  counters'[e].nested_inline + counters'[e].limited_inline
                    + Cardinality(Open(e)') <= counters'[e].dispatches
    <3>1. CASE e = x
      BY <3>1, <1>3, <1>4, <1>7, ZeroFacts, FS_EmptySet
    <3>2. CASE e # x
      BY <3>2, <2>1, <1>3, <1>4 DEF IInv, CounterInv
    <3> QED
      BY <3>1, <3>2
  <2>2. ASSUME NEW u \in Threads, NEW k \in 1 .. Len(stack'[u]), stack'[u][k].counted
        PROVE  counters'[stack'[u][k].executor] # None
    BY <2>2, <1>1, <1>4, <1>5, <1>6, ZeroFacts
  <2> QED
    BY <2>1, <2>2 DEF CounterInv
<1> QED
  BY <1>2, <1>8 DEF IInv

LEMMA PinFailsInv ==
    ASSUME IInv, NEW t \in Threads, NEW x \in Executors, PinFails(t, x)
    PROVE  IInv'
<1>1. UNCHANGED <<stack, region, current>> /\ Bump(x, "dispatches", counters[x] # None)
  BY DEF PinFails
<1>2. PICK counted \in BOOLEAN : counted = (counters[x] # None)
  OBVIOUS
<1>3. \A e : Open(e)' = Open(e)
  BY <1>1 DEF Open, MayCount
<1>4. Bump(x, "dispatches", counted) /\ (counted <=> counters[x] # None)
  BY <1>1, <1>2
<1>5. /\ counters' \in [Executors -> CounterStates \cup {None}]
      /\ \A e \in Executors : counters'[e] # None <=> counters[e] # None
      /\ \A e \in Executors : counters'[e] # None =>
            counters'[e].nested_inline + counters'[e].limited_inline
                + Cardinality(Open(e)') <= counters'[e].dispatches
  <2>1. \A e \in Executors : e # x \/ ~counted => Open(e)' = Open(e)
    BY <1>3
  <2>2. counted => \E y : Open(x)' \subseteq Open(x) \cup {y}
    BY <1>3
  <2> QED
    BY <2>1, <2>2, <1>4, CounterCall
<1>6. TypeOK' /\ FramesInv' /\ BindInv'
  BY <1>1, <1>5, StackUnchanged
<1>7. CounterInv'
  <2>1. ASSUME NEW u \in Threads, NEW k \in 1 .. Len(stack[u])
        PROVE  stack[u][k].executor \in Executors
    <3>1. stack[u] \in Seq(Frames)
      BY DEF IInv, TypeOK
    <3>2. stack[u][k] \in Frames
      BY <3>1, ElementOfSeq
    <3> QED
      BY <3>2 DEF Frames
  <2> QED
    BY <2>1, <1>1, <1>5 DEF IInv, CounterInv
<1> QED
  BY <1>6, <1>7 DEF IInv

LEMMA CallInv ==
    ASSUME IInv, NEW t \in Threads, NEW x \in Executors, NEW total \in 1 .. MaxTotal,
           NEW limit \in 1 .. EffectiveThreads, NEW limited \in BOOLEAN,
           Call(t, x, total, limit, limited)
    PROVE  IInv'
<1>0. TypeOK /\ UNCHANGED region /\ current' = [current EXCEPT ![t] = x]
  BY DEF IInv, Call
<1>1. /\ stack[t] \in Seq(Frames) /\ Len(stack[t]) \in Nat /\ Depth(t) = Len(stack[t])
      /\ Len(stack[t]) < MaxDepth /\ MaxDepth \in Nat
      /\ Len(stack[t]) > 0 => stack[t][Len(stack[t])].phase = "run"
  <2>1. stack[t] \in Seq(Frames) /\ Len(stack[t]) \in Nat /\ Depth(t) = Len(stack[t])
    BY <1>0, LenProperties DEF TypeOK, Depth
  <2> QED
    BY <2>1, Constants DEF Call, MayCall, Top
<1>2. PICK n, times, nested, counted :
        /\ n = (IF limited THEN 1 ELSE NumBlocks(total, limit))
        /\ times = [i \in 0 .. (total - 1) |-> 0]
        /\ nested = (region[t] = x) /\ counted = (counters[x] # None)
  OBVIOUS
<1>3. PICK new : new =
            [executor |-> x, total |-> total, blocks |-> n, nested |-> nested,
             limited |-> limited, counted |-> counted, phase |-> "choose",
             participants |-> 1, ran |-> {}, times |-> times,
             was_current |-> current[t], was_region |-> region[t]]
  OBVIOUS
<1>4. stack' = [stack EXCEPT ![t] = Append(stack[t], new)]
  BY <1>0, <1>2, <1>3 DEF Call, TypeOK
<1>5. /\ total \in Nat /\ n \in Nat /\ n > 0 /\ nested \in BOOLEAN /\ counted \in BOOLEAN
      /\ times \in [0 .. (total - 1) -> Nat]
      /\ current[t] \in Executors \cup {None} /\ region[t] \in Executors \cup {None}
  BY <1>0, <1>2, Constants DEF NumBlocks, MinOf, TypeOK
<1>6. times \in UNION {[0 .. (m - 1) -> Nat] : m \in Nat}
  BY <1>5
<1>7. new \in Frames
  BY <1>3, <1>5, <1>6 DEF Frames
<1>8. FrameOK(new)
  <2>1. \A i \in 0 .. (total - 1) : times[i] = 0
    BY <1>2
  <2> QED
    BY <2>1, <1>3, <1>5 DEF FrameOK
<1>9. /\ stack' \in [Threads -> Seq(Frames)]
      /\ Len(stack'[t]) = Len(stack[t]) + 1
      /\ stack'[t][Len(stack[t]) + 1] = new
      /\ \A k \in 1 .. Len(stack[t]) : stack'[t][k] = stack[t][k]
      /\ \A u \in Threads : u # t => stack'[u] = stack[u]
  <2>1. PICK s : s = Append(stack[t], new)
    OBVIOUS
  <2>2. /\ s \in Seq(Frames) /\ Len(s) = Len(stack[t]) + 1 /\ s[Len(stack[t]) + 1] = new
        /\ \A k \in 1 .. Len(stack[t]) : s[k] = stack[t][k]
    BY <2>1, <1>1, <1>7, AppendProperties
  <2>3. stack' = [stack EXCEPT ![t] = s]
    BY <2>1, <1>4
  <2> QED
    BY <2>2, <2>3, <1>0 DEF TypeOK
<1>10. \A u \in Threads : Len(stack[u]) \in Nat /\ Len(stack[u]) <= MaxDepth
  BY <1>0, LenProperties DEF TypeOK
<1>11. FramesInv'
  <2> SUFFICES ASSUME NEW u \in Threads, NEW k \in 1 .. Len(stack'[u])
               PROVE  FrameOK(stack'[u][k])
    BY DEF FramesInv, FrameOK
  <2>1. CASE u = t /\ k = Len(stack[t]) + 1
    BY <2>1, <1>8, <1>9
  <2>2. CASE ~(u = t /\ k = Len(stack[t]) + 1)
    <3>1. k \in 1 .. Len(stack[u]) /\ stack'[u][k] = stack[u][k]
      BY <2>2, <1>9, <1>10
    <3> QED
      BY <3>1 DEF IInv, FramesInv
  <2> QED
    BY <2>1, <2>2
<1>12. /\ BindOK(t, Len(stack[t]))
       /\ current[t] = Below(t, Len(stack[t]) + 1) /\ region[t] = Below(t, Len(stack[t]) + 1)
  <2>1. Len(stack[t]) # 0 => Len(stack[t]) + 1 # 1 /\ (Len(stack[t]) + 1) - 1 = Len(stack[t])
    BY <1>1
  <2>2. BindOK(t, Len(stack[t]))
    BY <1>1 DEF IInv, BindInv
  <2> QED
    BY <2>1, <2>2, <1>1 DEF BindOK, Below
<1>13. BindInv'
  <2> SUFFICES ASSUME NEW u \in Threads, NEW m \in Nat, m = Len(stack'[u]) PROVE BindOK(u, m)'
    BY DEF BindInv
  <2>1. CASE u # t
    <3>1. stack'[u] = stack[u] /\ current'[u] = current[u] /\ region'[u] = region[u]
      BY <2>1, <1>0, <1>9 DEF TypeOK
    <3>2. BindOK(u, m)
      BY <3>1 DEF IInv, BindInv
    <3> QED
      BY <3>1, <3>2 DEF BindOK, Below
  <2>2. CASE u = t
    <3>1. m = Len(stack[t]) + 1 /\ m > 0 /\ m # 0
      BY <2>2, <1>1, <1>9
    <3>2. \A k \in 1 .. m : Below(t, k)' = Below(t, k)
      <4> SUFFICES ASSUME NEW k \in 1 .. m PROVE Below(t, k)' = Below(t, k)
        OBVIOUS
      <4>1. k # 1 => k - 1 \in 1 .. Len(stack[t])
        BY <3>1, <1>1
      <4> QED
        BY <4>1, <1>9 DEF Below
    <3>3. /\ stack'[t][m].phase = "choose" /\ stack'[t][m].executor = x
          /\ stack'[t][m].was_current = current[t] /\ stack'[t][m].was_region = region[t]
          /\ current'[t] = x /\ region'[t] = region[t]
      BY <3>1, <1>0, <1>3, <1>9 DEF TypeOK
    <3>4. current'[t] = Below(t, m + 1)'
      <4>1. m + 1 # 1 /\ (m + 1) - 1 = m
        BY <3>1
      <4> QED
        BY <4>1, <3>3 DEF Below
    <3>5. ASSUME NEW k \in 1 .. m
          PROVE  /\ k < m => stack'[t][k].phase = "run"
                 /\ stack'[t][k].was_current = Below(t, k)'
                 /\ stack'[t][k].was_region = Below(t, k)'
      <4>1. CASE k = m
        BY <4>1, <3>1, <3>2, <3>3, <1>12
      <4>2. CASE k # m
        <5>1. k \in 1 .. Len(stack[t]) /\ stack'[t][k] = stack[t][k]
          BY <4>2, <3>1, <1>1, <1>9
        <5>2. k < Len(stack[t]) \/ (k = Len(stack[t]) /\ Len(stack[t]) > 0)
          BY <5>1, <1>1
        <5>3. stack[t][k].phase = "run"
          BY <5>1, <5>2, <1>1, <1>12 DEF BindOK
        <5>4. stack[t][k].was_current = Below(t, k) /\ stack[t][k].was_region = Below(t, k)
          BY <5>1, <1>12 DEF BindOK
        <5> QED
          BY <5>1, <5>3, <5>4, <3>2
      <4> QED
        BY <4>1, <4>2
    <3>6. region'[t] = Below(t, m)'
      BY <3>1, <3>2, <3>3, <1>12
    <3> QED
      BY <2>2, <3>1, <3>3, <3>4, <3>5, <3>6 DEF BindOK
  <2> QED
    BY <2>1, <2>2
<1>14. ASSUME NEW e \in Executors, NEW y \in Threads \X (1 .. MaxDepth)
       PROVE  y \in Open(e)' <=> y \in Open(e) \/ (e = x /\ counted /\ y = <<t, Len(stack[t]) + 1>>)
  <2>1. PICK u \in Threads, k \in 1 .. MaxDepth : y = <<u, k>>
    OBVIOUS
  <2>2. /\ y \in Open(e) <=> k <= Len(stack[u]) /\ MayCount(stack[u][k], e)
        /\ y \in Open(e)' <=> k <= Len(stack'[u]) /\ MayCount(stack'[u][k], e)
    BY <2>1 DEF Open, MayCount
  <2>3. CASE u = t /\ k = Len(stack[t]) + 1
    <3>1. MayCount(stack'[u][k], e) <=> e = x /\ counted
      BY <2>3, <1>3, <1>9 DEF MayCount
    <3> QED
      BY <3>1, <2>1, <2>2, <2>3, <1>1, <1>9
  <2>4. CASE ~(u = t /\ k = Len(stack[t]) + 1)
    <3>1. /\ k <= Len(stack'[u]) <=> k <= Len(stack[u])
          /\ k <= Len(stack[u]) => stack'[u][k] = stack[u][k]
      BY <2>4, <1>9, <1>10
    <3> QED
      BY <3>1, <2>1, <2>2, <2>4
  <2> QED
    BY <2>3, <2>4
<1>15. \A e : Open(e) \subseteq Threads \X (1 .. MaxDepth) /\ Open(e)' \subseteq Threads \X (1 .. MaxDepth)
  BY DEF Open
<1>16. /\ \A e \in Executors : e # x \/ ~counted => Open(e)' = Open(e)
       /\ counted => \E y : Open(x)' \subseteq Open(x) \cup {y}
  <2>1. \A e \in Executors : e # x \/ ~counted => Open(e)' = Open(e)
    BY <1>14, <1>15
  <2>2. Open(x)' \subseteq Open(x) \cup {<<t, Len(stack[t]) + 1>>}
    BY <1>14, <1>15
  <2> QED
    BY <2>1, <2>2
<1>17. Bump(x, "dispatches", counted) /\ (counted <=> counters[x] # None)
  BY <1>2 DEF Call
<1>18. /\ counters' \in [Executors -> CounterStates \cup {None}]
       /\ \A e \in Executors : counters'[e] # None <=> counters[e] # None
       /\ \A e \in Executors : counters'[e] # None =>
            counters'[e].nested_inline + counters'[e].limited_inline
                + Cardinality(Open(e)') <= counters'[e].dispatches
  BY <1>5, <1>16, <1>17, CounterCall
<1>19. TypeOK'
  <2>1. \A u \in Threads : Len(stack'[u]) <= MaxDepth
    BY <1>1, <1>9, <1>10
  <2> QED
    BY <2>1, <1>0, <1>9, <1>18 DEF TypeOK
<1>20. CounterInv'
  <2>1. ASSUME NEW u \in Threads, NEW k \in 1 .. Len(stack'[u]), stack'[u][k].counted
        PROVE  counters'[stack'[u][k].executor] # None
    <3>1. CASE u = t /\ k = Len(stack[t]) + 1
      BY <3>1, <2>1, <1>3, <1>9, <1>17, <1>18
    <3>2. CASE ~(u = t /\ k = Len(stack[t]) + 1)
      <4>1. k \in 1 .. Len(stack[u]) /\ stack'[u][k] = stack[u][k]
        BY <3>2, <1>9, <1>10
      <4>2. stack[u] \in Seq(Frames) /\ stack[u][k] \in Frames
        BY <1>0, <4>1, ElementOfSeq DEF TypeOK
      <4>3. stack[u][k].executor \in Executors
        BY <4>2 DEF Frames
      <4> QED
        BY <4>1, <4>3, <2>1, <1>18 DEF IInv, CounterInv
    <3> QED
      BY <3>1, <3>2
  <2> QED
    BY <2>1, <1>18 DEF CounterInv
<1> QED
  BY <1>11, <1>13, <1>19, <1>20 DEF IInv

\* A call is gone, by a return or by an exception.
LEMMA UnwindInv ==
    ASSUME IInv, NEW t \in Threads, Depth(t) > 0, Unwind(t),
           NEW x \in Executors, x = Top(t).executor,
           NEW field \in {"nested_inline", "limited_inline"}, NEW counted \in BOOLEAN,
           counted => Top(t).counted /\ x \in Bounded, Bump(x, field, counted)
    PROVE  IInv'
<1>0. TypeOK
  BY DEF IInv
<1>1. /\ Len(stack[t]) \in 1 .. MaxDepth /\ Depth(t) = Len(stack[t])
      /\ Top(t) = stack[t][Len(stack[t])] /\ Top(t) \in Frames /\ stack[t] \in Seq(Frames)
  BY <1>0, TopFacts
<1>2. PICK d \in Nat : d = Len(stack[t]) - 1
  <2>1. Len(stack[t]) - 1 \in Nat
    BY <1>1, Constants
  <2> QED
    BY <2>1
<1>3. /\ stack' = [stack EXCEPT ![t] = SubSeq(stack[t], 1, d)]
      /\ region' = [region EXCEPT ![t] = Top(t).was_region]
      /\ current' = [current EXCEPT ![t] = Top(t).was_current]
  BY <1>0, <1>1, <1>2 DEF Unwind, TypeOK
<1>4. Top(t).was_region \in Executors \cup {None} /\ Top(t).was_current \in Executors \cup {None}
  BY <1>1 DEF Frames
<1>5. /\ region' \in [Threads -> Executors \cup {None}]
      /\ current' \in [Threads -> Executors \cup {None}]
  BY <1>0, <1>3, <1>4 DEF TypeOK
<1>6. /\ stack' \in [Threads -> Seq(Frames)]
      /\ Len(stack'[t]) = d
      /\ \A k \in 1 .. d : stack'[t][k] = stack[t][k]
      /\ \A u \in Threads : u # t => stack'[u] = stack[u]
  <2>1. PICK s : s = SubSeq(stack[t], 1, d)
    OBVIOUS
  <2>2. \A k \in 1 .. d : k \in 1 .. Len(stack[t])
    BY <1>1, <1>2
  <2>3. s \in Seq(Frames) /\ Len(s) = d /\ \A k \in 1 .. d : s[k] = stack[t][k]
    <3>1. /\ s \in Seq(Frames)
          /\ Len(s) = IF 1 <= d THEN d - 1 + 1 ELSE 0
          /\ \A k \in 1 .. d - 1 + 1 : s[k] = stack[t][1 + k - 1]
      BY <2>1, <2>2, <1>1, <1>2, SubSeqProperties
    <3> QED
      BY <3>1, <1>2
  <2>4. stack' = [stack EXCEPT ![t] = s]
    BY <2>1, <1>3
  <2> QED
    BY <2>3, <2>4, <1>0 DEF TypeOK
<1>7. \A u \in Threads : Len(stack[u]) \in Nat /\ Len(stack[u]) <= MaxDepth
  BY <1>0, LenProperties DEF TypeOK
<1>8. \A u \in Threads : \A k \in 1 .. Len(stack'[u]) :
        k \in 1 .. Len(stack[u]) /\ stack'[u][k] = stack[u][k]
  BY <1>1, <1>2, <1>6
<1>9. FramesInv'
  <2> SUFFICES ASSUME NEW u \in Threads, NEW k \in 1 .. Len(stack'[u])
               PROVE  FrameOK(stack'[u][k])
    BY DEF FramesInv, FrameOK
  <2> QED
    BY <1>8 DEF IInv, FramesInv
<1>10. BindOK(t, Len(stack[t]))
  BY <1>1, <1>7 DEF IInv, BindInv
<1>11. BindInv'
  <2> SUFFICES ASSUME NEW u \in Threads, NEW m \in Nat, m = Len(stack'[u]) PROVE BindOK(u, m)'
    BY DEF BindInv
  <2>1. CASE u # t
    <3>1. stack'[u] = stack[u] /\ current'[u] = current[u] /\ region'[u] = region[u]
      BY <2>1, <1>0, <1>3, <1>6 DEF TypeOK
    <3>2. BindOK(u, m)
      BY <3>1 DEF IInv, BindInv
    <3> QED
      BY <3>1, <3>2 DEF BindOK, Below
  <2>2. CASE u = t
    <3>1. m = d /\ Len(stack[t]) = m + 1 /\ m + 1 \in 1 .. Len(stack[t])
      BY <2>2, <1>1, <1>2, <1>6
    <3>2. \A k \in 1 .. (m + 1) : Below(t, k)' = Below(t, k)
      <4> SUFFICES ASSUME NEW k \in 1 .. (m + 1) PROVE Below(t, k)' = Below(t, k)
        OBVIOUS
      <4>1. k # 1 => k - 1 \in 1 .. m
        BY <3>1
      <4> QED
        BY <4>1, <3>1, <1>6 DEF Below
    <3>3. /\ current'[t] = Below(t, m + 1) /\ region'[t] = Below(t, m + 1)
      <4>1. current'[t] = Top(t).was_current /\ region'[t] = Top(t).was_region
        BY <1>0, <1>3 DEF TypeOK
      <4>2. stack[t][m + 1].was_current = Below(t, m + 1) /\ stack[t][m + 1].was_region = Below(t, m + 1)
        BY <3>1, <1>10 DEF BindOK
      <4> QED
        BY <4>1, <4>2, <3>1, <1>1
    <3>4. \A k \in 1 .. m : /\ stack[t][k].phase = "run"
                            /\ stack[t][k].was_current = Below(t, k)
                            /\ stack[t][k].was_region = Below(t, k)
      BY <3>1, <1>10 DEF BindOK
    <3>5. \A k \in 1 .. m : /\ stack'[t][k].phase = "run"
                            /\ stack'[t][k].was_current = Below(t, k)'
                            /\ stack'[t][k].was_region = Below(t, k)'
      BY <3>1, <3>2, <3>4, <1>6
    <3>6. current'[t] = Below(t, m + 1)'
      BY <3>2, <3>3
    <3>7. region'[t] = IF m = 0 THEN None
                       ELSE IF stack'[t][m].phase = "run" THEN stack'[t][m].executor
                       ELSE Below(t, m)'
      <4>1. CASE m = 0
        BY <4>1, <3>3 DEF Below
      <4>2. CASE m # 0
        <5>1. m \in 1 .. m /\ m + 1 # 1 /\ (m + 1) - 1 = m
          BY <4>2
        <5>2. Below(t, m + 1) = stack[t][m].executor
          BY <5>1 DEF Below
        <5> QED
          BY <5>1, <5>2, <4>2, <3>1, <3>3, <3>5, <1>6
      <4> QED
        BY <4>1, <4>2
    <3> QED
      BY <2>2, <3>5, <3>6, <3>7 DEF BindOK
  <2> QED
    BY <2>1, <2>2
<1>12. \A e \in Executors : Open(e)' \subseteq Open(e)
  <2> SUFFICES ASSUME NEW e \in Executors, NEW y \in Open(e)' PROVE y \in Open(e)
    OBVIOUS
  <2>1. PICK u \in Threads, k \in 1 .. MaxDepth : y = <<u, k>>
    BY DEF Open
  <2>2. /\ y \in Open(e) <=> k <= Len(stack[u]) /\ MayCount(stack[u][k], e)
        /\ k <= Len(stack'[u]) /\ MayCount(stack'[u][k], e)
    BY <2>1 DEF Open, MayCount
  <2>3. k \in 1 .. Len(stack'[u])
    BY <2>2, <1>2, <1>6, <1>7
  <2>4. k \in 1 .. Len(stack[u]) /\ stack'[u][k] = stack[u][k]
    BY <2>3, <1>8
  <2> QED
    BY <2>2, <2>4, <1>7
<1>13. counted => \E y \in Open(x) : y \notin Open(x)'
  <2> SUFFICES ASSUME counted PROVE \E y \in Open(x) : y \notin Open(x)'
    OBVIOUS
  <2>1. PICK y : y = <<t, Len(stack[t])>>
    OBVIOUS
  <2>2. y \in Threads \X (1 .. MaxDepth) /\ y[1] = t /\ y[2] = Len(stack[t])
    BY <2>1, <1>1
  <2>3. y \in Open(x)
    BY <2>2, <1>1 DEF Open, MayCount
  <2>4. y \notin Open(x)'
    BY <2>2, <1>1, <1>2, <1>6 DEF Open
  <2> QED
    BY <2>3, <2>4
<1>14. counted => counters[x] # None
  <2>1. Len(stack[t]) \in 1 .. Len(stack[t])
    BY <1>1
  <2> QED
    BY <2>1, <1>1 DEF IInv, CounterInv
<1>15. /\ counters' \in [Executors -> CounterStates \cup {None}]
       /\ \A e \in Executors : counters'[e] # None <=> counters[e] # None
       /\ \A e \in Executors : counters'[e] # None =>
            counters'[e].nested_inline + counters'[e].limited_inline
                + Cardinality(Open(e)') <= counters'[e].dispatches
  BY <1>12, <1>13, <1>14, CounterStep
<1>16. TypeOK'
  <2>1. \A u \in Threads : Len(stack'[u]) <= MaxDepth
    <3>1. d <= MaxDepth
      BY <1>1, <1>2, Constants
    <3> QED
      BY <3>1, <1>6, <1>7
  <2> QED
    BY <2>1, <1>5, <1>6, <1>15 DEF TypeOK
<1>17. CounterInv'
  <2>1. ASSUME NEW u \in Threads, NEW k \in 1 .. Len(stack'[u]), stack'[u][k].counted
        PROVE  counters'[stack'[u][k].executor] # None
    <3>1. k \in 1 .. Len(stack[u]) /\ stack'[u][k] = stack[u][k]
      BY <1>8
    <3>2. stack[u] \in Seq(Frames) /\ stack[u][k] \in Frames
      BY <1>0, <3>1, ElementOfSeq DEF TypeOK
    <3>3. stack[u][k].executor \in Executors
      BY <3>2 DEF Frames
    <3> QED
      BY <3>1, <3>3, <2>1, <1>15 DEF IInv, CounterInv
  <2> QED
    BY <2>1, <1>15 DEF CounterInv
<1> QED
  BY <1>9, <1>11, <1>16, <1>17 DEF IInv

LEMMA ReturnInv == ASSUME IInv, NEW t \in Threads, Return(t) PROVE IInv'
<1>1. TypeOK /\ Depth(t) > 0 /\ Unwind(t)
  BY DEF IInv, Return
<1>2. Top(t) \in Frames
  BY <1>1, TopFacts
<1>3. PICK x, field, counted :
        /\ x = Top(t).executor
        /\ field = IF Top(t).nested THEN "nested_inline" ELSE "limited_inline"
        /\ counted = (x \in Bounded /\ Top(t).participants = 1 /\ Top(t).counted)
  OBVIOUS
<1>4. /\ x \in Executors /\ counted \in BOOLEAN /\ (counted => Top(t).counted /\ x \in Bounded)
      /\ field \in {"nested_inline", "limited_inline"}
  BY <1>2, <1>3 DEF Frames
<1>5. Bump(x, field, counted)
  BY <1>3 DEF Return
<1> QED
  BY <1>1, <1>3, <1>4, <1>5, UnwindInv

LEMMA ThrowInv == ASSUME IInv, NEW t \in Threads, Throw(t) PROVE IInv'
<1>1. TypeOK /\ Depth(t) > 0 /\ Unwind(t) /\ UNCHANGED counters
  BY DEF IInv, Throw
<1>2. PICK x : x = Top(t).executor
  OBVIOUS
<1>3. x \in Executors
  BY <1>1, <1>2, TopFacts DEF Frames
<1>4. /\ Bump(x, "nested_inline", FALSE) /\ FALSE \in BOOLEAN
      /\ "nested_inline" \in {"nested_inline", "limited_inline"}
  BY <1>1 DEF Bump
<1> QED
  BY <1>1, <1>2, <1>3, <1>4, UnwindInv

-----------------------------------------------------------------------------
(***************************************************************************)
(* The theorems.                                                           *)
(***************************************************************************)

LEMMA NextInv == ASSUME IInv, [Next]_vars PROVE IInv'
<1>1. CASE \E e \in Executors : EnableCounters(e)
  BY <1>1, EnableCountersInv
<1>2. CASE \E t \in Threads, e \in Executors, total \in 1 .. MaxTotal,
              limit \in 1 .. EffectiveThreads, limited \in BOOLEAN :
            Call(t, e, total, limit, limited)
  BY <1>2, CallInv
<1>3. CASE \E t \in Threads, e \in Executors : PinFails(t, e)
  BY <1>3, PinFailsInv
<1>4. ASSUME NEW t \in Threads, NEW b \in 0 .. (EffectiveThreads - 1), RunBlock(t, b)
      PROVE  IInv'
  BY <1>4, RunBlockInv, b \in Nat
<1>5. CASE \E t \in Threads : RunInline(t) \/ Dispatch(t) \/ Return(t) \/ Throw(t)
  BY <1>5, RunInlineInv, DispatchInv, ReturnInv, ThrowInv
<1>6. CASE UNCHANGED vars
  <2>1. UNCHANGED <<stack, region, current, counters>>
    BY <1>6 DEF vars
  <2>2. TypeOK' /\ FramesInv' /\ BindInv'
    BY <2>1, StackUnchanged DEF IInv, TypeOK
  <2>3. CounterInv'
    BY <2>1 DEF IInv, CounterInv, Open, MayCount
  <2> QED
    BY <2>2, <2>3 DEF IInv
<1> QED
  BY <1>1, <1>2, <1>3, <1>4, <1>5, <1>6 DEF Next

\* The invariant holds of the dispatch, for every number of threads and executors,
\* every loop size and every nesting of calls.
THEOREM Invariant == Spec => []IInv
BY InitInv, NextInv, PTL DEF Spec

LEMMA IInvBindings == IInv => BindingsRestored
<1> SUFFICES ASSUME IInv, NEW t \in Threads
      PROVE  /\ Depth(t) = 0 => current[t] = None /\ region[t] = None
             /\ Depth(t) > 0 => /\ current[t] = Top(t).executor
                                /\ Top(t).phase = "run" => region[t] = Top(t).executor
  BY DEF BindingsRestored
<1>1. PICK n : n = Len(stack[t])
  OBVIOUS
<1>2. n \in Nat /\ BindOK(t, n) /\ Depth(t) = n /\ Top(t) = stack[t][n]
  BY <1>1, LenProperties DEF IInv, TypeOK, BindInv, Depth, Top
<1>3. n # 0 => n + 1 # 1 /\ (n + 1) - 1 = n
  BY <1>2
<1> QED
  BY <1>2, <1>3 DEF BindOK, Below

\* A thread outside ParallelFor has no bindings and a callback sees those of its own
\* call, through nesting, returns and exceptions.
THEOREM BindingsAreRestored == Spec => []BindingsRestored
BY Invariant, IInvBindings, PTL

LEMMA IInvCounters == IInv => CountersConsistent
<1> SUFFICES ASSUME IInv, NEW e \in Executors, counters[e] # None
      PROVE  counters[e].nested_inline + counters[e].limited_inline <= counters[e].dispatches
  BY DEF CountersConsistent
<1>1. counters[e] \in CounterStates
  BY DEF IInv, TypeOK
<1>2. /\ counters[e].nested_inline \in Nat /\ counters[e].limited_inline \in Nat
      /\ counters[e].dispatches \in Nat
  BY <1>1 DEF CounterStates
<1>3. counters[e].nested_inline + counters[e].limited_inline + Cardinality(Open(e))
        <= counters[e].dispatches
  BY DEF IInv, CounterInv
<1> QED
  BY <1>2, <1>3, OpenFinite

\* Inline dispatches never outnumber dispatches, whenever the counters are enabled.
THEOREM CountersAreConsistent == Spec => []CountersConsistent
BY Invariant, IInvCounters, PTL

LEMMA IInvIterations == IInv => EachIterationOnce
<1> SUFFICES ASSUME IInv, NEW t \in Threads, Depth(t) > 0,
                    Cardinality(Top(t).ran) = Top(t).participants,
                    NEW i \in DOMAIN Top(t).times
             PROVE  Top(t).times[i] = 1
  BY DEF EachIterationOnce
<1>1. PICK f : f = Top(t)
  OBVIOUS
<1>2. f \in Frames /\ FrameOK(f)
  <2>1. /\ Len(stack[t]) \in 1 .. MaxDepth /\ Top(t) = stack[t][Len(stack[t])]
        /\ Top(t) \in Frames
    BY TopFacts DEF IInv
  <2>2. Len(stack[t]) \in 1 .. Len(stack[t])
    BY <2>1, Constants
  <2> QED
    BY <2>1, <2>2, <1>1 DEF IInv, FramesInv
<1>3. /\ f.participants \in Nat \ {0} /\ f.total \in Nat
      /\ f.ran \subseteq 0 .. (f.participants - 1)
      /\ i \in 0 .. (f.total - 1)
  BY <1>1, <1>2 DEF FrameOK, Frames
<1>4. f.ran = 0 .. (f.participants - 1)
  <2>1. /\ IsFiniteSet(0 .. (f.participants - 1))
        /\ Cardinality(0 .. (f.participants - 1)) = f.participants
    <3>1. f.participants - 1 \in Int /\ 0 \in Int
      BY <1>3
    <3>2. /\ IsFiniteSet(0 .. (f.participants - 1))
          /\ Cardinality(0 .. (f.participants - 1)) =
                IF 0 > f.participants - 1 THEN 0 ELSE f.participants - 1 - 0 + 1
      BY <3>1, FS_Interval
    <3> QED
      BY <3>2, <1>3
  <2> QED
    BY <2>1, <1>1, <1>3, FS_Subset
<1>5. PICK b \in 0 .. (f.participants - 1) : i \in BlockRange(b, f.total, f.participants)
  BY <1>3, BlocksCover
<1> QED
  BY <1>1, <1>2, <1>3, <1>4, <1>5 DEF FrameOK

\* When all participants have run, the callback was given every iteration exactly
\* once, for every loop size and every number of participants.
THEOREM IterationsRunOnce == Spec => []EachIterationOnce
BY Invariant, IInvIterations, PTL
=============================================================================
