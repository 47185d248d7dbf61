-------------------------- MODULE BoundedPoolProofs --------------------------
(***************************************************************************)
(* Proofs about BoundedPool, for every number of callers, pools, workers,  *)
(* blocks and levels of nesting.                                           *)
(***************************************************************************)
EXTENDS BoundedPool, FiniteSetTheorems, TLAPS

Joining == {"spin", "blocked", "leave"}
CallerLabels == {"idle", "lock", "body"} \cup Joining
WorkerLabels == {"park", "asleep", "body", "complete", "exited"} \cup Joining
Requests == [pool : Pools, blocks : 1 .. MaxBlocks]

TypeOK ==
    /\ worker \in [Workers -> [region : Regions \cup {None}, block : Nat, pending : BOOLEAN]]
    /\ region \in [Regions -> RegionObjects \cup {None}]
    /\ depth \in [Threads -> 0 .. MaxDepth]
    /\ region_mu \in [Pools -> Threads \cup {None}]
    /\ current \in [Threads -> Pools \cup {None}]
    /\ in_pool \in [Threads -> BOOLEAN]
    /\ \A t \in Threads : pc[t] = "lock" => want[t] \in Requests
    /\ want \in [Threads -> Requests \cup {None}]
    /\ pc \in [Threads -> CallerLabels \cup WorkerLabels]
    /\ \A c \in Callers : pc[c] \in CallerLabels
    /\ \A w \in Workers : pc[w] \in WorkerLabels
    /\ runs \in [Regions -> [Blocks -> Nat]]

\* The regions on the stack of a thread are those up to its depth.
StackInv ==
    /\ \A t \in Threads, i \in 1 .. MaxDepth : region[<<t, i>>] # None <=> i <= depth[t]
    /\ \A c \in Callers : depth[c] = 0 <=> pc[c] \in {"idle", "lock"}
    /\ \A t \in Threads : pc[t] \in Joining => depth[t] > 0

\* The thread-local state.  A caller is in no pool outside its regions and its
\* regions are all on the pool of the first one, which it has locked; a worker is
\* always in its own pool.
WorkerLocal(w) ==
    /\ current[w] = w[1] /\ in_pool[w]
    /\ \A i \in 1 .. MaxDepth : i <= depth[w] =>
        region[<<w, i>>].pool = w[1] /\ region[<<w, i>>].previous = w[1]
            /\ region[<<w, i>>].was_in_pool

CallerLocal(c) ==
    /\ \A i \in 1 .. MaxDepth : i <= depth[c] =>
        /\ region[<<c, i>>].pool = region[<<c, 1>>].pool
        /\ region[<<c, i>>].previous = IF i = 1 THEN None ELSE region[<<c, 1>>].pool
        /\ region[<<c, i>>].was_in_pool <=> i # 1
    /\ depth[c] = 0 => current[c] = None /\ ~in_pool[c]
    /\ depth[c] > 0 =>
        /\ region_mu[region[<<c, 1>>].pool] = c
        /\ current[c] = IF pc[c] = "body" \/ depth[c] > 1 THEN region[<<c, 1>>].pool
                        ELSE None
        /\ in_pool[c] <=> pc[c] = "body" \/ depth[c] > 1

LocalInv ==
    /\ \A w \in Workers : WorkerLocal(w)
    /\ \A c \in Callers : CallerLocal(c)

Team(r) == {w \in Workers : worker[w].region = r}

\* The workers of a region, and what they may be doing.
TeamInv ==
    /\ \A r \in Regions : region[r] # None =>
        /\ region[r].remaining = Cardinality(Team(r))
        /\ region[r].participants \in 1 .. region[r].blocks
    /\ \A w \in Workers :
        /\ worker[w].pending <=> worker[w].region # None
        /\ worker[w].region # None =>
            /\ region[worker[w].region] # None
            /\ worker[w].block \in 1 .. (region[worker[w].region].participants - 1)
        /\ pc[w] \notin {"park", "asleep", "exited"} => worker[w].region # None
        /\ depth[w] > 0 => pc[w] \in {"body"} \cup Joining
    /\ \A v, w \in Workers :
        /\ worker[v].region = worker[w].region /\ worker[v].region # None
        /\ worker[v].block = worker[w].block
        => v = w
    /\ \A t \in Threads : pc[t] = "leave" => region[<<t, depth[t]>>].remaining = 0

\* The participant i of region r has run its stripe.
OwnerDone(r) == r[2] = depth[r[1]] /\ pc[r[1]] \in Joining
MemberDone(r, i) == \A w \in Workers : worker[w].region = r /\ worker[w].block = i
                                          => pc[w] = "complete"
Done(r, i) == IF i = 0 THEN OwnerDone(r) ELSE MemberDone(r, i)

\* A block was run once if its participant has run its stripe, else never.
RunsInv ==
    \A r \in Regions : region[r] # None => \A b \in Blocks :
        runs[r][b] = IF b < region[r].blocks /\ Done(r, b % region[r].participants)
                     THEN 1 ELSE 0

IInv == TypeOK /\ StackInv /\ LocalInv /\ TeamInv /\ RunsInv

-----------------------------------------------------------------------------
(***************************************************************************)
(* The sets of workers.                                                    *)
(***************************************************************************)

LEMMA ThreadFacts ==
    /\ \A w \in Workers : /\ w \in Threads /\ w \notin Callers
                          /\ w[1] \in Pools /\ w[2] \in Nat /\ w = <<w[1], w[2]>>
    /\ \A c \in Callers : c \in Threads /\ c \notin Workers
    /\ \A t \in Threads : t \in Callers \/ t \in Workers
    /\ MaxBlocks \in Nat /\ MaxDepth \in Nat /\ MaxDepth > 0
    /\ None \notin Pools /\ None \notin Threads /\ None \notin Regions
    /\ None \notin RegionObjects
BY BoundsAssumption, DistinctAssumption DEF Workers, Threads

LEMMA RegionFacts ==
    /\ \A r \in Regions : r[1] \in Threads /\ r[2] \in 1 .. MaxDepth /\ r = <<r[1], r[2]>>
    /\ \A t \in Threads, i \in 1 .. MaxDepth :
           <<t, i>> \in Regions /\ <<t, i>>[1] = t /\ <<t, i>>[2] = i
BY DEF Regions

LEMMA FiniteWorkers == IsFiniteSet(Workers)
<1> DEFINE F == [p \in Pools |-> {p} \X (0 .. (NumWorkers[p] - 1))]
           S == {{p} \X (0 .. (NumWorkers[p] - 1)) : p \in Pools}
<1>1. F \in Surjection(Pools, S)
  BY DEF Surjection
<1>2. IsFiniteSet(S)
  <2> HIDE DEF F, S
  <2> QED
    BY <1>1, DistinctAssumption, FS_Surjection
<1>3. ASSUME NEW p \in Pools PROVE IsFiniteSet({p} \X (0 .. (NumWorkers[p] - 1)))
  <2>1. NumWorkers[p] - 1 \in Int /\ 0 \in Int
    BY BoundsAssumption
  <2>2. IsFiniteSet(0 .. (NumWorkers[p] - 1))
    BY <2>1, FS_Interval
  <2>3. IsFiniteSet({p})
    BY FS_Singleton
  <2> QED
    BY <2>2, <2>3, FS_Product
<1>4. \A T \in S : IsFiniteSet(T)
  BY <1>3
<1>5. Workers = UNION S
  BY DEF Workers
<1> HIDE DEF S
<1> QED
  BY <1>2, <1>4, <1>5, FS_UNION

\* The number of workers before w in a set of workers of one pool.
RankIn(S, w) == Cardinality({v \in S : v[2] < w[2]})

LEMMA Ranks ==
    ASSUME NEW S \in SUBSET Workers, NEW p, \A w \in S : w[1] = p
    PROVE  /\ IsFiniteSet(S) /\ Cardinality(S) \in Nat
           /\ \A w \in S : RankIn(S, w) \in Nat /\ RankIn(S, w) < Cardinality(S)
           /\ \A v, w \in S : RankIn(S, v) = RankIn(S, w) => v = w
<1>1. IsFiniteSet(S)
  BY FiniteWorkers, FS_Subset
<1>2. \A w : IsFiniteSet({v \in S : v[2] < w[2]})
  <2> SUFFICES ASSUME NEW w PROVE IsFiniteSet({v \in S : v[2] < w[2]})
    OBVIOUS
  <2>1. {v \in S : v[2] < w[2]} \in SUBSET S
    OBVIOUS
  <2> QED
    BY <2>1, <1>1, FS_Subset
<1>3. \A w \in S : RankIn(S, w) \in Nat
  BY <1>2, FS_CardinalityType DEF RankIn
<1>4. \A w \in S : w[2] \in Nat /\ w = <<p, w[2]>>
  BY ThreadFacts
<1>5. ASSUME NEW w \in S PROVE RankIn(S, w) < Cardinality(S)
  <2> DEFINE B == {v \in S : v[2] < w[2]}
  <2>1. B \in SUBSET (S \ {w})
    BY <1>4
  <2>2. IsFiniteSet(S \ {w}) /\ Cardinality(S \ {w}) = Cardinality(S) - 1
    BY <1>1, FS_RemoveElement
  <2>3. Cardinality(B) <= Cardinality(S) - 1
    <3> HIDE DEF B
    <3> QED
      BY <2>1, <2>2, FS_Subset
  <2>4. Cardinality(S) \in Nat /\ Cardinality(B) = RankIn(S, w)
    BY <1>1, FS_CardinalityType DEF RankIn
  <2> HIDE DEF B
  <2> QED
    BY <2>3, <2>4, <1>3
<1>6. ASSUME NEW v \in S, NEW w \in S, v[2] < w[2] PROVE RankIn(S, v) < RankIn(S, w)
  <2> DEFINE A == {u \in S : u[2] < v[2]}
             B == {u \in S : u[2] < w[2]}
  <2>1. A \in SUBSET (B \ {v}) /\ v \in B
    BY <1>4, <1>6
  <2>2. IsFiniteSet(B)
    BY <1>2
  <2> HIDE DEF A, B
  <2>3. IsFiniteSet(B \ {v}) /\ Cardinality(B \ {v}) = Cardinality(B) - 1
    BY <2>1, <2>2, FS_RemoveElement
  <2>4. Cardinality(A) <= Cardinality(B) - 1
    BY <2>1, <2>3, FS_Subset
  <2>5. Cardinality(A) = RankIn(S, v) /\ Cardinality(B) = RankIn(S, w)
    BY DEF A, B, RankIn
  <2> QED
    BY <2>4, <2>5, <1>3
<1>7. ASSUME NEW v \in S, NEW w \in S, RankIn(S, v) = RankIn(S, w) PROVE v = w
  <2>1. ~(v[2] < w[2]) /\ ~(w[2] < v[2])
    BY <1>3, <1>6, <1>7
  <2>2. v[2] = w[2]
    BY <2>1, <1>4
  <2> QED
    BY <2>2, <1>4
<1> QED
  BY <1>1, <1>3, <1>5, <1>7, FS_CardinalityType

\* Ranks fill the numbers below the size of the set.
LEMMA RanksFill ==
    ASSUME NEW S \in SUBSET Workers, NEW p, \A w \in S : w[1] = p
    PROVE  \A i \in 1 .. Cardinality(S) : \E w \in S : 1 + RankIn(S, w) = i
<1> DEFINE f == [w \in S |-> 1 + RankIn(S, w)]
           T == 1 .. Cardinality(S)
<1>1. /\ IsFiniteSet(S) /\ Cardinality(S) \in Nat
      /\ \A w \in S : RankIn(S, w) \in Nat /\ RankIn(S, w) < Cardinality(S)
      /\ \A v, w \in S : RankIn(S, v) = RankIn(S, w) => v = w
  BY Ranks
<1>2. f \in Injection(S, T)
  <2>1. f \in [S -> T]
    BY <1>1
  <2>2. \A v, w \in S : f[v] = f[w] => v = w
    BY <1>1
  <2> HIDE DEF f, T
  <2> QED
    BY <2>1, <2>2 DEF Injection, IsInjective
<1>3. IsFiniteSet(T) /\ Cardinality(T) = Cardinality(S)
  BY <1>1, FS_Interval
<1>4. f \in Surjection(S, T)
  <2> HIDE DEF f, T
  <2> QED
    BY <1>2, <1>3, FS_Injection
<1> QED
  BY <1>4 DEF Surjection

\* Bounded admission: never more than n - 1 workers join a region of n blocks.
LEMMA AdmittedBound ==
    ASSUME NEW p \in Pools, NEW n \in 1 .. MaxBlocks
    PROVE  /\ Admitted(p, n) \in SUBSET Workers
           /\ \A w \in Admitted(p, n) : w[1] = p /\ worker[w].region = None
           /\ Cardinality(Admitted(p, n)) <= n - 1
<1> DEFINE S == Idle(p)
           A == Admitted(p, n)
           T == 1 .. (n - 1)
           f == [w \in A |-> 1 + RankIn(S, w)]
<1>1. S \in SUBSET Workers /\ \A w \in S : w[1] = p /\ worker[w].region = None
  BY DEF Idle
<1>2. A = {w \in S : RankIn(S, w) < n - 1}
  BY DEF Admitted, RankIn
<1>3. /\ \A w \in S : RankIn(S, w) \in Nat
      /\ \A v, w \in S : RankIn(S, v) = RankIn(S, w) => v = w
  <2> HIDE DEF S
  <2> QED
    BY <1>1, Ranks
<1>4. f \in Injection(A, T)
  <2> HIDE DEF S, A
  <2>1. f \in [A -> T]
    BY <1>2, <1>3, ThreadFacts
  <2>2. \A v, w \in A : f[v] = f[w] => v = w
    BY <1>2, <1>3
  <2> HIDE DEF f
  <2> QED
    BY <2>1, <2>2 DEF Injection, IsInjective
<1>5. IsFiniteSet(T) /\ Cardinality(T) = n - 1
  <2>1. 1 \in Int /\ n - 1 \in Int /\ n >= 1
    BY ThreadFacts
  <2>2. IsFiniteSet(T) /\ Cardinality(T) = IF 1 > n - 1 THEN 0 ELSE (n - 1) - 1 + 1
    BY <2>1, FS_Interval
  <2> QED
    BY <2>1, <2>2
<1>6. Cardinality(A) <= n - 1
  <2> HIDE DEF f, T, A
  <2> QED
    BY <1>4, <1>5, FS_Injection
<1> QED
  BY <1>1, <1>2, <1>6

-----------------------------------------------------------------------------
(***************************************************************************)
(* The invariant.                                                          *)
(***************************************************************************)

LEMMA InitInv == Init => IInv
<1> SUFFICES ASSUME Init PROVE IInv
  OBVIOUS
<1> USE ThreadFacts, RegionFacts
<1>1. /\ \A w \in Workers : worker[w] = IdleWorker /\ pc[w] = "park" /\ current[w] = w[1]
                              /\ in_pool[w]
      /\ \A c \in Callers : pc[c] = "idle" /\ current[c] = None /\ ~in_pool[c]
      /\ \A r \in Regions : region[r] = None
      /\ \A t \in Threads : depth[t] = 0 /\ want[t] = None
  BY DEF Init
<1>2. TypeOK
  <2>1. worker \in [Workers -> [region : Regions \cup {None}, block : Nat, pending : BOOLEAN]]
    BY DEF Init, IdleWorker
  <2>2. /\ region \in [Regions -> RegionObjects \cup {None}]
        /\ depth \in [Threads -> 0 .. MaxDepth]
        /\ region_mu \in [Pools -> Threads \cup {None}]
        /\ want \in [Threads -> Requests \cup {None}]
        /\ runs \in [Regions -> [Blocks -> Nat]]
    BY DEF Init
  <2>3. current \in [Threads -> Pools \cup {None}] /\ in_pool \in [Threads -> BOOLEAN]
    BY DEF Init
  <2>4. pc \in [Threads -> CallerLabels \cup WorkerLabels]
    BY DEF Init, CallerLabels, WorkerLabels
  <2>5. /\ \A c \in Callers : pc[c] \in CallerLabels
        /\ \A w \in Workers : pc[w] \in WorkerLabels
        /\ \A t \in Threads : pc[t] # "lock"
    BY <1>1 DEF CallerLabels, WorkerLabels
  <2> QED
    BY <2>1, <2>2, <2>3, <2>4, <2>5 DEF TypeOK
<1>3. \A t \in Threads : pc[t] \notin Joining
  BY <1>1 DEF Joining
<1>4. StackInv
  BY <1>1, <1>3 DEF StackInv
<1>5. LocalInv
  BY <1>1 DEF LocalInv, WorkerLocal, CallerLocal
<1>6. TeamInv
  BY <1>1 DEF TeamInv, IdleWorker
<1>7. RunsInv
  BY <1>1 DEF RunsInv
<1> QED
  BY <1>2, <1>4, <1>5, <1>6, <1>7 DEF IInv

\* The blocks are the numbers a participant can be found for.
LEMMA BlockFacts ==
    \A b \in Blocks, n \in Nat : n > 0 => b % n \in 0 .. (n - 1) /\ b \in Nat
BY ThreadFacts DEF Blocks

\* Steps that move threads and leave the regions alone.
KeepsRegions == UNCHANGED <<worker, region, depth, region_mu, current, in_pool, runs>>

LEMMA Moves ==
    ASSUME IInv, KeepsRegions,
           pc' \in [Threads -> CallerLabels \cup WorkerLabels],
           \A c \in Callers : pc'[c] \in CallerLabels,
           \A w \in Workers : pc'[w] \in WorkerLabels,
           want' \in [Threads -> Requests \cup {None}],
           \A t \in Threads : pc'[t] = "lock" => want'[t] \in Requests,
           \A t \in Threads : pc'[t] \in Joining <=> pc[t] \in Joining,
           \A t \in Threads : pc'[t] = "complete" <=> pc[t] = "complete",
           \A c \in Callers : pc'[c] \in {"idle", "lock"} <=> pc[c] \in {"idle", "lock"},
           \A c \in Callers : pc'[c] = "body" <=> pc[c] = "body",
           \A w \in Workers : pc'[w] \notin {"park", "asleep", "exited"} =>
               pc[w] \notin {"park", "asleep", "exited"} \/ worker[w].region # None,
           \A w \in Workers : pc[w] = "body" => pc'[w] = "body",
           \A t \in Threads : pc'[t] = "leave" =>
               pc[t] = "leave" \/ region[<<t, depth[t]>>].remaining = 0
    PROVE  IInv'
<1> USE ThreadFacts
<1>1. TypeOK'
  BY DEF IInv, TypeOK, KeepsRegions
<1>2. StackInv'
  BY DEF IInv, StackInv, KeepsRegions
<1>3. LocalInv'
  BY DEF IInv, LocalInv, WorkerLocal, CallerLocal, KeepsRegions
<1>4. TeamInv'
  BY DEF IInv, TeamInv, Team, KeepsRegions
<1>5. RunsInv'
  <2> SUFFICES ASSUME NEW r \in Regions, region[r] # None, NEW b \in Blocks
               PROVE  runs[r][b] = IF b < region[r].blocks /\ Done(r, b % region[r].participants)'
                                   THEN 1 ELSE 0
    BY DEF RunsInv, KeepsRegions
  <2>1. OwnerDone(r)' <=> OwnerDone(r)
    BY RegionFacts DEF OwnerDone, KeepsRegions
  <2>2. \A i : MemberDone(r, i)' <=> MemberDone(r, i)
    BY DEF MemberDone, KeepsRegions
  <2>3. Done(r, b % region[r].participants)' <=> Done(r, b % region[r].participants)
    BY <2>1, <2>2 DEF Done, KeepsRegions
  <2> QED
    BY <2>3 DEF IInv, RunsInv
<1> QED
  BY <1>1, <1>2, <1>3, <1>4, <1>5 DEF IInv

\* A thread moves on its own.
LEMMA MovesAlone ==
    ASSUME IInv, KeepsRegions, UNCHANGED want, NEW t \in Threads, NEW label, Goto(t, label),
           pc[t] \notin {"idle", "lock", "body", "complete"},
           label \notin {"idle", "lock", "complete"},
           t \in Callers => label \in CallerLabels /\ label # "body",
           t \in Workers => label \in WorkerLabels,
           label \in Joining <=> pc[t] \in Joining,
           t \in Workers /\ label \notin {"park", "asleep", "exited"} =>
               pc[t] \notin {"park", "asleep", "exited"} \/ worker[t].region # None,
           label = "leave" => region[<<t, depth[t]>>].remaining = 0
    PROVE  IInv'
<1> USE ThreadFacts
<1>1. /\ pc \in [Threads -> CallerLabels \cup WorkerLabels]
      /\ want \in [Threads -> Requests \cup {None}]
      /\ \A u \in Threads : pc[u] = "lock" => want[u] \in Requests
  BY DEF IInv, TypeOK
<1>2. /\ pc' \in [Threads -> CallerLabels \cup WorkerLabels]
      /\ pc'[t] = label
      /\ \A u \in Threads : u # t => pc'[u] = pc[u]
  BY <1>1 DEF Goto
<1>3. /\ \A c \in Callers : pc'[c] \in CallerLabels
      /\ \A w \in Workers : pc'[w] \in WorkerLabels
  BY <1>2 DEF IInv, TypeOK
<1>4. /\ \A u \in Threads : pc'[u] = "lock" => want'[u] \in Requests
      /\ \A u \in Threads : pc'[u] \in Joining <=> pc[u] \in Joining
      /\ \A u \in Threads : pc'[u] = "complete" <=> pc[u] = "complete"
  BY <1>1, <1>2
<1>5. /\ \A c \in Callers : pc'[c] \in {"idle", "lock"} <=> pc[c] \in {"idle", "lock"}
      /\ \A c \in Callers : pc'[c] = "body" <=> pc[c] = "body"
      /\ \A w \in Workers : pc[w] = "body" => pc'[w] = "body"
  BY <1>2
<1>6. /\ \A w \in Workers : pc'[w] \notin {"park", "asleep", "exited"} =>
               pc[w] \notin {"park", "asleep", "exited"} \/ worker[w].region # None
      /\ \A u \in Threads : pc'[u] = "leave" =>
               pc[u] = "leave" \/ region[<<u, depth[u]>>].remaining = 0
  BY <1>2
<1> QED
  BY <1>1, <1>2, <1>3, <1>4, <1>5, <1>6, Moves

LEMMA AwaitRegionInv == ASSUME IInv, NEW t \in Threads, AwaitRegion(t) PROVE IInv'
<1> USE ThreadFacts
<1> DEFINE label == IF region[<<t, depth[t]>>].remaining = 0 THEN "leave" ELSE "blocked"
<1>1. KeepsRegions /\ UNCHANGED want /\ Goto(t, label) /\ pc[t] = "spin"
  BY DEF AwaitRegion, KeepsRegions
<1>2. /\ label \in CallerLabels /\ label \in WorkerLabels /\ label \in Joining
      /\ label \notin {"idle", "lock", "body", "complete"} /\ "spin" \in Joining
      /\ label = "leave" => region[<<t, depth[t]>>].remaining = 0
  BY DEF CallerLabels, WorkerLabels, Joining
<1> HIDE DEF label
<1> QED
  BY <1>1, <1>2, MovesAlone

LEMMA ParkInv == ASSUME IInv, NEW w \in Workers, Park(w) PROVE IInv'
<1> USE ThreadFacts
<1> DEFINE label == IF stop[w[1]] THEN "exited"
                    ELSE IF worker[w].pending THEN "body" ELSE "asleep"
<1>1. KeepsRegions /\ UNCHANGED want /\ Goto(w, label) /\ pc[w] = "park"
  BY DEF Park, KeepsRegions
<1>2. /\ label \in WorkerLabels /\ label \notin Joining /\ label # "leave"
      /\ label \notin {"idle", "lock", "complete"} /\ "park" \notin Joining
      /\ label \notin {"park", "asleep", "exited"} => worker[w].pending
  BY DEF WorkerLabels, Joining
<1>3. worker[w].pending => worker[w].region # None
  BY DEF IInv, TeamInv
<1> HIDE DEF label
<1> QED
  BY <1>1, <1>2, <1>3, MovesAlone

LEMMA SpuriousWakeupInv == ASSUME IInv, NEW t \in Threads, SpuriousWakeup(t) PROVE IInv'
<1> USE ThreadFacts
<1> DEFINE label == IF pc[t] = "asleep" THEN "park" ELSE "spin"
<1>1. /\ KeepsRegions /\ UNCHANGED want /\ Goto(t, label)
      /\ pc[t] \in {"asleep", "blocked"}
  BY DEF SpuriousWakeup, KeepsRegions
<1>2. t \in Callers => pc[t] = "blocked"
  BY <1>1 DEF IInv, TypeOK, CallerLabels, Joining
<1>3. /\ label \in WorkerLabels /\ label # "leave"
      /\ label \notin {"idle", "lock", "complete", "body"}
      /\ t \in Callers => label \in CallerLabels
      /\ label \in Joining <=> pc[t] \in Joining
      /\ label \notin {"park", "asleep", "exited"} => pc[t] = "blocked"
  BY <1>1, <1>2 DEF WorkerLabels, CallerLabels, Joining
<1> HIDE DEF label
<1> QED
  BY <1>1, <1>3, MovesAlone

LEMMA StopInv == ASSUME IInv, NEW p \in Pools, Stop(p) PROVE IInv'
<1> USE ThreadFacts
<1>1. KeepsRegions /\ UNCHANGED want /\ pc' = Woken({w \in Workers : w[1] = p})
  BY DEF Stop, KeepsRegions
<1>2. /\ pc \in [Threads -> CallerLabels \cup WorkerLabels]
      /\ want \in [Threads -> Requests \cup {None}]
      /\ \A u \in Threads : pc[u] = "lock" => want[u] \in Requests
  BY DEF IInv, TypeOK
<1>3. /\ pc' \in [Threads -> CallerLabels \cup WorkerLabels]
      /\ \A c \in Callers : pc'[c] = pc[c]
      /\ \A w \in Workers : pc'[w] = pc[w] \/ (pc[w] = "asleep" /\ pc'[w] = "park")
  <2>1. "park" \in WorkerLabels
    BY DEF WorkerLabels
  <2> QED
    BY <1>1, <1>2, <2>1 DEF Woken
<1>4. {"asleep", "park"} \cap (Joining \cup {"complete", "body", "lock", "leave"}) = {}
  BY DEF Joining
<1>5. /\ \A c \in Callers : pc'[c] \in CallerLabels
      /\ \A w \in Workers : pc'[w] \in WorkerLabels
  BY <1>3 DEF IInv, TypeOK, WorkerLabels
<1>6. /\ \A u \in Threads : pc'[u] = "lock" => want'[u] \in Requests
      /\ \A u \in Threads : pc'[u] \in Joining <=> pc[u] \in Joining
      /\ \A u \in Threads : pc'[u] = "complete" <=> pc[u] = "complete"
      /\ \A u \in Threads : pc'[u] = "leave" => pc[u] = "leave"
  BY <1>1, <1>2, <1>3, <1>4
<1>7. /\ \A w \in Workers : pc'[w] \notin {"park", "asleep", "exited"} =>
               pc[w] \notin {"park", "asleep", "exited"}
      /\ \A w \in Workers : pc[w] = "body" => pc'[w] = "body"
  BY <1>3
<1> QED
  BY <1>1, <1>2, <1>3, <1>5, <1>6, <1>7, Moves

\* Where a region may be opened: in a block of this pool, or by a caller that has
\* just locked the pool.
MayOpen(t, p) ==
    /\ depth[t] < MaxDepth
    /\ \/ /\ pc[t] = "body" /\ current[t] = p
          /\ UNCHANGED <<region_mu, want>>
       \/ /\ pc[t] = "lock" /\ t \in Callers
          /\ region_mu[p] = None /\ region_mu' = [region_mu EXCEPT ![p] = t]
          /\ want' = [want EXCEPT ![t] = None]

LEMMA OpenRegionInv ==
    ASSUME IInv, NEW t \in Threads, NEW p \in Pools, NEW n \in 1 .. MaxBlocks,
           MayOpen(t, p), OpenRegion(t, p, n)
    PROVE  IInv'
<1> USE ThreadFacts
<1>0. PICK d, r, team, k : /\ d = depth[t] + 1 /\ r = <<t, d>>
                            /\ team = Admitted(p, n) /\ k = Cardinality(team)
  OBVIOUS
<1>1. /\ depth \in [Threads -> 0 .. MaxDepth]
      /\ region \in [Regions -> RegionObjects \cup {None}]
      /\ pc \in [Threads -> CallerLabels \cup WorkerLabels]
      /\ current \in [Threads -> Pools \cup {None}]
      /\ in_pool \in [Threads -> BOOLEAN]
      /\ region_mu \in [Pools -> Threads \cup {None}]
      /\ want \in [Threads -> Requests \cup {None}]
      /\ runs \in [Regions -> [Blocks -> Nat]]
      /\ worker \in [Workers -> [region : Regions \cup {None}, block : Nat, pending : BOOLEAN]]
  BY DEF IInv, TypeOK
<1>2. /\ d \in 1 .. MaxDepth /\ r \in Regions /\ d # depth[t]
      /\ depth[t] \in Nat /\ region[r] = None
  <2>1. d \in 1 .. MaxDepth /\ depth[t] \in Nat /\ ~(d <= depth[t])
    BY <1>0, <1>1 DEF MayOpen
  <2>2. r \in Regions
    BY <1>0, <2>1, RegionFacts
  <2>3. region[<<t, d>>] = None
    BY <2>1 DEF IInv, StackInv
  <2> QED
    BY <1>0, <2>1, <2>2, <2>3
<1>3. /\ team \in SUBSET Workers /\ k <= n - 1
      /\ \A w \in team : w[1] = p /\ worker[w].region = None
  BY <1>0, AdmittedBound
<1>4. /\ IsFiniteSet(team) /\ k \in Nat
      /\ \A w \in team : RankIn(team, w) \in Nat /\ RankIn(team, w) < k
      /\ \A v, w \in team : RankIn(team, v) = RankIn(team, w) => v = w
      /\ \A i \in 1 .. k : \E w \in team : 1 + RankIn(team, w) = i
  BY <1>0, <1>3, Ranks, RanksFill
<1>5. t \notin team
  <2>1. t \in Workers => worker[t].region # None
    BY DEF MayOpen, IInv, TeamInv
  <2> QED
    BY <2>1, <1>3
<1>6. /\ worker' = [w \in Workers |-> IF w \in team
                      THEN [region |-> r, block |-> 1 + RankIn(team, w), pending |-> TRUE]
                      ELSE worker[w]]
      /\ region' = [region EXCEPT ![r] = NewRegion(t, p, n, k)]
      /\ depth' = [depth EXCEPT ![t] = @ + 1]
      /\ current' = [current EXCEPT ![t] = p]
      /\ in_pool' = [in_pool EXCEPT ![t] = TRUE]
      /\ pc' = [Woken(team) EXCEPT ![t] = "body"]
      /\ runs' = [runs EXCEPT ![r] = [b \in Blocks |-> 0]]
  BY <1>0 DEF OpenRegion, RankIn
<1>7. /\ \A w \in team : worker'[w].region = r /\ worker'[w].block = 1 + RankIn(team, w)
                          /\ worker'[w].pending = TRUE
      /\ \A w \in Workers : w \notin team => worker'[w] = worker[w]
      /\ worker' \in [Workers -> [region : Regions \cup {None}, block : Nat, pending : BOOLEAN]]
  BY <1>1, <1>2, <1>3, <1>4, <1>6
<1>8. /\ NewRegion(t, p, n, k) \in RegionObjects
      /\ NewRegion(t, p, n, k).pool = p /\ NewRegion(t, p, n, k).blocks = n
      /\ NewRegion(t, p, n, k).participants = 1 + k /\ NewRegion(t, p, n, k).remaining = k
      /\ NewRegion(t, p, n, k).previous = current[t]
      /\ NewRegion(t, p, n, k).was_in_pool = in_pool[t]
  BY <1>1, <1>4 DEF NewRegion, RegionObjects
<1>9. /\ region' \in [Regions -> RegionObjects \cup {None}]
      /\ region'[r] = NewRegion(t, p, n, k) /\ region'[r] # None
      /\ \A x \in Regions : x # r => region'[x] = region[x]
  BY <1>1, <1>2, <1>6, <1>8
<1>10. /\ depth' \in [Threads -> 0 .. MaxDepth]
       /\ depth'[t] = d /\ \A u \in Threads : u # t => depth'[u] = depth[u]
  BY <1>0, <1>1, <1>2, <1>6
<1>11. /\ current' \in [Threads -> Pools \cup {None}] /\ in_pool' \in [Threads -> BOOLEAN]
       /\ current'[t] = p /\ in_pool'[t] = TRUE
       /\ \A u \in Threads : u # t => current'[u] = current[u] /\ in_pool'[u] = in_pool[u]
  BY <1>1, <1>6
<1>12. /\ pc' \in [Threads -> CallerLabels \cup WorkerLabels]
       /\ pc'[t] = "body"
       /\ \A u \in Threads : u # t =>
             pc'[u] = pc[u] \/ (u \in team /\ pc[u] = "asleep" /\ pc'[u] = "park")
  <2>1. "body" \in CallerLabels /\ "park" \in WorkerLabels
    BY DEF CallerLabels, WorkerLabels
  <2>2. Woken(team) \in [Threads -> CallerLabels \cup WorkerLabels]
    BY <1>1, <2>1 DEF Woken
  <2>3. \A u \in Threads : Woken(team)[u] = pc[u]
                              \/ (u \in team /\ pc[u] = "asleep" /\ Woken(team)[u] = "park")
    BY DEF Woken
  <2> HIDE DEF Woken
  <2> QED
    BY <1>6, <2>1, <2>2, <2>3
<1>13. /\ runs' \in [Regions -> [Blocks -> Nat]]
       /\ \A b \in Blocks : runs'[r][b] = 0
       /\ \A x \in Regions : x # r => runs'[x] = runs[x]
  BY <1>1, <1>2, <1>6
<1>14. /\ \A c \in Callers : c # t => pc'[c] = pc[c]
       /\ \A w \in Workers : w # t =>
             pc'[w] = pc[w] \/ (pc[w] = "asleep" /\ pc'[w] = "park")
  BY <1>3, <1>12
<1>15. pc[t] \in {"body", "lock"} /\ pc[t] \notin Joining
  BY DEF MayOpen, Joining
<1>16. TypeOK'
  <2>1. /\ \A c \in Callers : pc'[c] \in CallerLabels
        /\ \A w \in Workers : pc'[w] \in WorkerLabels
    BY <1>12, <1>14 DEF IInv, TypeOK, CallerLabels, WorkerLabels
  <2>2. region_mu' \in [Pools -> Threads \cup {None}]
    BY <1>1 DEF MayOpen
  <2>3. /\ want' \in [Threads -> Requests \cup {None}]
        /\ \A u \in Threads : pc'[u] = "lock" => want'[u] \in Requests
    <3>1. \A u \in Threads : u # t => want'[u] = want[u]
      BY <1>1 DEF MayOpen
    <3>2. want' \in [Threads -> Requests \cup {None}]
      BY <1>1 DEF MayOpen
    <3> QED
      BY <3>1, <3>2, <1>12 DEF IInv, TypeOK
  <2> QED
    BY <2>1, <2>2, <2>3, <1>7, <1>9, <1>10, <1>11, <1>12, <1>13 DEF TypeOK
<1>17. StackInv'
  <2>1. ASSUME NEW u \in Threads, NEW i \in 1 .. MaxDepth
        PROVE  region'[<<u, i>>] # None <=> i <= depth'[u]
    <3>1. region[<<u, i>>] # None <=> i <= depth[u]
      BY DEF IInv, StackInv
    <3>2. <<u, i>> \in Regions
      BY RegionFacts
    <3>3. CASE <<u, i>> = r
      BY <1>0, <3>3, <1>2, <1>9, <1>10
    <3>4. CASE <<u, i>> # r /\ u = t
      <4>1. i # d /\ depth'[u] = depth[u] + 1
        BY <1>0, <3>4, <1>10
      <4> QED
        BY <1>0, <4>1, <3>1, <3>2, <3>4, <1>2, <1>9
    <3>5. CASE u # t
      BY <1>0, <3>1, <3>2, <3>5, <1>9, <1>10
    <3> QED
      BY <3>3, <3>4, <3>5
  <2>2. \A c \in Callers : depth'[c] = 0 <=> pc'[c] \in {"idle", "lock"}
    BY <1>2, <1>10, <1>12, <1>14 DEF IInv, StackInv
  <2>3. \A u \in Threads : pc'[u] \in Joining => depth'[u] > 0
    BY <1>10, <1>12 DEF IInv, StackInv, Joining
  <2> QED
    BY <2>1, <2>2, <2>3 DEF StackInv
<1>18. TeamInv'
  <2>1. Team(r) = {} /\ Team(r)' = team
    <3>1. \A w \in Workers : worker[w].region # r
      BY <1>2, RegionFacts DEF IInv, TeamInv
    <3> QED
      BY <3>1, <1>3, <1>7 DEF Team
  <2>2. \A x \in Regions : x # r => Team(x)' = Team(x)
    <3>1. \A x \in Regions, w \in Workers : x # r => (worker'[w].region = x <=> worker[w].region = x)
      BY <1>3, <1>7
    <3> QED
      BY <3>1 DEF Team
  <2>3. ASSUME NEW x \in Regions, region'[x] # None
        PROVE  /\ region'[x].remaining = Cardinality(Team(x)')
               /\ region'[x].participants \in 1 .. region'[x].blocks
    <3>1. CASE x = r
      BY <1>0, <3>1, <2>1, <1>3, <1>4, <1>8, <1>9
    <3>2. CASE x # r
      BY <3>2, <2>2, <2>3, <1>9 DEF IInv, TeamInv
    <3> QED
      BY <3>1, <3>2
  <2>4. ASSUME NEW w \in Workers
        PROVE  /\ worker'[w].pending <=> worker'[w].region # None
               /\ worker'[w].region # None =>
                    /\ region'[worker'[w].region] # None
                    /\ worker'[w].block \in 1 .. (region'[worker'[w].region].participants - 1)
    <3>1. CASE w \in team
      BY <3>1, <1>2, <1>4, <1>7, <1>8, <1>9
    <3>2. CASE w \notin team
      <4>1. worker'[w] = worker[w] /\ worker[w].region # r
        BY <3>2, <1>2, <1>7 DEF IInv, TeamInv
      <4>2. worker[w].region # None => worker[w].region \in Regions
        BY <1>1
      <4> QED
        BY <4>1, <4>2, <1>9 DEF IInv, TeamInv
    <3> QED
      BY <3>1, <3>2
  <2>5. ASSUME NEW w \in Workers
        PROVE  /\ pc'[w] \notin {"park", "asleep", "exited"} => worker'[w].region # None
               /\ depth'[w] > 0 => pc'[w] \in {"body"} \cup Joining
    <3>1. CASE w = t
      BY <3>1, <1>5, <1>7, <1>12, <1>15 DEF IInv, TeamInv
    <3>2. CASE w # t
      <4>1. worker[w].region # None => worker'[w].region # None
        BY <1>3, <1>7
      <4>2. depth'[w] = depth[w]
        BY <3>2, <1>10
      <4>3. pc'[w] = pc[w] \/ (pc[w] = "asleep" /\ pc'[w] = "park")
        BY <3>2, <1>14
      <4> QED
        BY <4>1, <4>2, <4>3 DEF IInv, TeamInv, Joining
    <3> QED
      BY <3>1, <3>2
  <2>6. ASSUME NEW v \in Workers, NEW w \in Workers,
               worker'[v].region = worker'[w].region, worker'[v].region # None,
               worker'[v].block = worker'[w].block
        PROVE  v = w
    <3>1. \A x \in Workers : x \notin team => worker'[x] = worker[x] /\ worker[x].region # r
      BY <1>2, <1>7 DEF IInv, TeamInv
    <3>2. CASE v \in team /\ w \in team
      BY <3>2, <2>6, <1>4, <1>7
    <3>3. CASE v \notin team /\ w \notin team
      BY <3>1, <3>3, <2>6 DEF IInv, TeamInv
    <3> QED
      BY <3>1, <3>2, <3>3, <2>6, <1>7
  <2>7. ASSUME NEW u \in Threads, pc'[u] = "leave"
        PROVE  region'[<<u, depth'[u]>>].remaining = 0
    <3>1. u # t /\ pc[u] = "leave" /\ depth'[u] = depth[u]
      BY <2>7, <1>10, <1>12
    <3>2. depth[u] \in 1 .. MaxDepth
      BY <3>1, <1>1 DEF IInv, StackInv, Joining
    <3>3. <<u, depth[u]>> \in Regions /\ <<u, depth[u]>> # r
      BY <1>0, <3>1, <3>2, RegionFacts
    <3> QED
      BY <3>1, <3>3, <1>9 DEF IInv, TeamInv
  <2> QED
    BY <2>3, <2>4, <2>5, <2>6, <2>7 DEF TeamInv
<1>19. RunsInv'
  <2> SUFFICES ASSUME NEW x \in Regions, region'[x] # None, NEW b \in Blocks,
                      NEW i, i = b % region'[x].participants
               PROVE  runs'[x][b] = IF b < region'[x].blocks /\ Done(x, i)' THEN 1 ELSE 0
    BY DEF RunsInv, Done, OwnerDone, MemberDone
  <2>1. CASE x = r
    <3>1. i \in 0 .. k
      BY <2>1, <1>4, <1>8, <1>9, BlockFacts
    <3>2. ~OwnerDone(r)'
      BY <1>0, <1>2, <1>12, RegionFacts DEF OwnerDone, Joining
    <3>3. ASSUME i # 0 PROVE ~MemberDone(r, i)'
      <4>1. i \in 1 .. k
        BY <3>1, <3>3, <1>4
      <4>2. PICK w \in team : 1 + RankIn(team, w) = i
        BY <4>1, <1>4
      <4>3. worker'[w].region = r /\ worker'[w].block = i
        BY <4>2, <1>7
      <4>4. pc[w] \in {"park", "asleep", "exited"} /\ w \in Workers /\ w # t
        BY <1>3, <1>5 DEF IInv, TeamInv
      <4>5. pc'[w] # "complete"
        BY <4>4, <1>14
      <4> QED
        BY <4>3, <4>4, <4>5 DEF MemberDone
    <3>4. ~Done(r, i)'
      BY <3>2, <3>3 DEF Done
    <3> QED
      BY <2>1, <3>4, <1>13
  <2>2. CASE x # r
    <3>1. OwnerDone(x)' <=> OwnerDone(x)
      <4>1. CASE x[1] = t
        <5>1. ~OwnerDone(x)
          BY <4>1, <1>15 DEF OwnerDone
        <5>2. ~OwnerDone(x)'
          BY <4>1, <1>12 DEF OwnerDone, Joining
        <5> QED
          BY <5>1, <5>2
      <4>2. CASE x[1] # t
        <5>1. x[1] \in Threads
          BY RegionFacts
        <5>2. depth'[x[1]] = depth[x[1]]
          BY <4>2, <5>1, <1>10
        <5>3. pc'[x[1]] \in Joining <=> pc[x[1]] \in Joining
          BY <4>2, <5>1, <1>12 DEF Joining
        <5> QED
          BY <5>2, <5>3 DEF OwnerDone
      <4> QED
        BY <4>1, <4>2
    <3>2. MemberDone(x, i)' <=> MemberDone(x, i)
      <4>1. \A w \in Workers : worker'[w].region = x => worker'[w] = worker[w] /\ w \notin team
        BY <2>2, <1>7
      <4>2. \A w \in Workers : worker[w].region = x => worker'[w] = worker[w]
        BY <1>3, <1>7
      <4>3. \A w \in Workers : pc'[w] = "complete" <=> pc[w] = "complete"
        BY <1>12, <1>14, <1>15
      <4> QED
        BY <4>1, <4>2, <4>3 DEF MemberDone
    <3>3. region'[x] = region[x] /\ runs'[x] = runs[x]
      BY <2>2, <1>9, <1>13
    <3>4. Done(x, i)' <=> Done(x, b % region[x].participants)
      BY <3>1, <3>2, <3>3 DEF Done
    <3> QED
      BY <3>3, <3>4 DEF IInv, RunsInv
  <2> QED
    BY <2>1, <2>2
<1>20. LocalInv'
  <2>1. \A u \in Threads, i \in 1 .. MaxDepth : u # t => region'[<<u, i>>] = region[<<u, i>>]
    BY <1>0, <1>9, RegionFacts
  <2>2. \A i \in 1 .. MaxDepth : i # d => region'[<<t, i>>] = region[<<t, i>>]
    BY <1>0, <1>9, RegionFacts
  <2>3. \A i \in 1 .. MaxDepth : i <= d => i = d \/ i <= depth[t]
    BY <1>0, <1>2
  <2>4. ASSUME NEW w \in Workers
        PROVE  WorkerLocal(w)'
    <3>1. CASE w = t
      <4>1. p = w[1] /\ current[w] = w[1] /\ in_pool[w]
        BY <3>1 DEF MayOpen, IInv, LocalInv, WorkerLocal
      <4>2. region'[<<t, d>>].pool = w[1] /\ region'[<<t, d>>].previous = w[1]
              /\ region'[<<t, d>>].was_in_pool
        BY <1>0, <3>1, <4>1, <1>8, <1>9
      <4> QED
        BY <3>1, <4>1, <4>2, <2>2, <2>3, <1>10, <1>11 DEF IInv, LocalInv, WorkerLocal
    <3>2. CASE w # t
      BY <3>2, <2>1, <1>10, <1>11 DEF IInv, LocalInv, WorkerLocal
    <3> QED
      BY <3>1, <3>2
  <2>5. ASSUME NEW c \in Callers, c # t, depth[c] > 0
        PROVE  region_mu'[region[<<c, 1>>].pool] = c
    <3>1. region_mu[region[<<c, 1>>].pool] = c
      BY <2>5 DEF IInv, LocalInv, CallerLocal
    <3>2. region[<<c, 1>>].pool \in Pools
      <4>1. 1 \in 1 .. MaxDepth /\ 1 <= depth[c]
        BY <2>5, <1>1
      <4>2. region[<<c, 1>>] \in RegionObjects
        BY <4>1, <1>1, RegionFacts DEF IInv, StackInv
      <4> QED
        BY <4>2 DEF RegionObjects
    <3>3. region_mu[p] = None => region[<<c, 1>>].pool # p
      BY <3>1
    <3> QED
      BY <3>1, <3>2, <3>3, <1>1 DEF MayOpen
  <2>6. ASSUME NEW c \in Callers, c # t
        PROVE  CallerLocal(c)'
    <3>1. /\ depth'[c] = depth[c] /\ pc'[c] = pc[c] /\ current'[c] = current[c]
          /\ in_pool'[c] = in_pool[c]
          /\ \A i \in 1 .. MaxDepth : region'[<<c, i>>] = region[<<c, i>>]
          /\ 1 \in 1 .. MaxDepth
      BY <2>1, <2>6, <1>10, <1>11, <1>14
    <3> QED
      BY <3>1, <2>5, <2>6 DEF IInv, LocalInv, CallerLocal
  <2>7. ASSUME t \in Callers
        PROVE  CallerLocal(t)'
    <3>1. CallerLocal(t) /\ (depth[t] = 0 <=> pc[t] \in {"idle", "lock"})
      BY <2>7 DEF IInv, LocalInv, StackInv
    <3>2. /\ region'[<<t, d>>].pool = p /\ region'[<<t, d>>].previous = current[t]
          /\ region'[<<t, d>>].was_in_pool = in_pool[t]
      BY <1>0, <1>8, <1>9
    <3>3. CASE pc[t] = "lock"
      <4>1. d = 1 /\ current[t] = None /\ ~in_pool[t] /\ region_mu'[p] = t
        BY <3>1, <3>3, <1>0, <1>1 DEF CallerLocal, MayOpen
      <4>2. \A i \in 1 .. MaxDepth : i <= 1 => i = 1
        OBVIOUS
      <4> QED
        BY <3>2, <4>1, <4>2, <1>10, <1>11, <1>12 DEF CallerLocal
    <3>4. CASE pc[t] = "body"
      <4>1. depth[t] > 0 /\ d # 1 /\ d > 1 /\ 1 \in 1 .. MaxDepth
        BY <3>1, <3>4, <1>0, <1>2
      <4>2. /\ p = region[<<t, 1>>].pool /\ current[t] = p /\ in_pool[t]
            /\ region_mu' = region_mu
        BY <3>1, <3>4, <4>1 DEF CallerLocal, MayOpen
      <4>3. region'[<<t, 1>>] = region[<<t, 1>>]
        BY <4>1, <2>2
      <4>4. ASSUME NEW i \in 1 .. MaxDepth, i <= d
            PROVE  /\ region'[<<t, i>>].pool = region'[<<t, 1>>].pool
                   /\ region'[<<t, i>>].previous = IF i = 1 THEN None ELSE region'[<<t, 1>>].pool
                   /\ region'[<<t, i>>].was_in_pool <=> i # 1
        <5>1. CASE i = d
          BY <5>1, <3>2, <4>1, <4>2, <4>3
        <5>2. CASE i # d
          BY <5>2, <4>3, <4>4, <3>1, <2>2, <2>3 DEF CallerLocal
        <5> QED
          BY <5>1, <5>2
      <4> QED
        BY <4>1, <4>2, <4>3, <4>4, <3>1, <1>10, <1>11, <1>12 DEF CallerLocal
    <3> QED
      BY <3>3, <3>4, <1>15
  <2> QED
    BY <2>4, <2>6, <2>7 DEF LocalInv
<1> QED
  BY <1>16, <1>17, <1>18, <1>19, <1>20 DEF IInv

LEMMA StutterInv ==
    ASSUME IInv, UNCHANGED <<worker, region, depth, region_mu, current, in_pool, want, pc, runs>>
    PROVE  IInv'
<1>1. KeepsRegions
  BY DEF KeepsRegions
<1>2. /\ pc' \in [Threads -> CallerLabels \cup WorkerLabels]
      /\ \A c \in Callers : pc'[c] \in CallerLabels
      /\ \A w \in Workers : pc'[w] \in WorkerLabels
      /\ want' \in [Threads -> Requests \cup {None}]
      /\ \A t \in Threads : pc'[t] = "lock" => want'[t] \in Requests
  BY DEF IInv, TypeOK
<1> QED
  BY <1>1, <1>2, Moves

LEMMA RunBoundedInv ==
    ASSUME IInv, NEW t \in Threads, NEW p \in Pools, NEW n \in 1 .. MaxBlocks,
           RunBounded(t, p, n)
    PROVE  IInv'
<1> USE ThreadFacts
<1>1. /\ pc[t] \in {"idle", "body"} /\ depth[t] < MaxDepth /\ UNCHANGED region_mu
      /\ pc \in [Threads -> CallerLabels \cup WorkerLabels]
      /\ depth \in [Threads -> 0 .. MaxDepth]
      /\ want \in [Threads -> Requests \cup {None}]
  BY DEF RunBounded, DepthLimit, IInv, TypeOK
<1>2. t \in Workers => pc[t] = "body" /\ current[t] = t[1] /\ in_pool[t]
  BY <1>1 DEF IInv, LocalInv, WorkerLocal, TypeOK, WorkerLabels, Joining
<1>3. t \in Callers /\ pc[t] = "idle" => current[t] = None /\ ~in_pool[t]
  BY DEF IInv, StackInv, LocalInv, CallerLocal
<1>4. t \in Callers /\ pc[t] = "body" => in_pool[t]
  <2>1. t \in Callers /\ pc[t] = "body" => depth[t] # 0
    BY DEF IInv, StackInv
  <2>2. depth[t] # 0 => depth[t] > 0
    BY <1>1
  <2> QED
    BY <2>1, <2>2 DEF IInv, LocalInv, CallerLocal
<1>5. CASE in_pool[t] /\ current[t] # p
  BY <1>1, <1>5, StutterInv DEF RunBounded
<1>6. CASE ~in_pool[t] /\ current[t] # p
  <2>1. /\ t \in Callers /\ pc[t] = "idle" /\ KeepsRegions
        /\ want' = [want EXCEPT ![t] = [pool |-> p, blocks |-> n]]
        /\ pc' = [pc EXCEPT ![t] = "lock"]
    BY <1>1, <1>2, <1>4, <1>6 DEF RunBounded, KeepsRegions, Goto
  <2>2. "lock" \in CallerLabels /\ "lock" \notin Joining /\ "idle" \notin Joining
    BY DEF CallerLabels, Joining
  <2>3. /\ pc' \in [Threads -> CallerLabels \cup WorkerLabels]
        /\ pc'[t] = "lock" /\ \A u \in Threads : u # t => pc'[u] = pc[u]
    BY <2>1, <2>2, <1>1
  <2>4. /\ want' \in [Threads -> Requests \cup {None}]
        /\ want'[t] \in Requests /\ \A u \in Threads : u # t => want'[u] = want[u]
    BY <2>1, <1>1 DEF Requests
  <2>5. /\ \A c \in Callers : pc'[c] \in CallerLabels
        /\ \A w \in Workers : pc'[w] \in WorkerLabels
        /\ \A u \in Threads : pc'[u] = "lock" => want'[u] \in Requests
    BY <2>1, <2>2, <2>3, <2>4 DEF IInv, TypeOK
  <2>6. /\ \A u \in Threads : pc'[u] \in Joining <=> pc[u] \in Joining
        /\ \A u \in Threads : pc'[u] = "complete" <=> pc[u] = "complete"
        /\ \A u \in Threads : pc'[u] = "leave" => pc[u] = "leave"
        /\ \A c \in Callers : pc'[c] \in {"idle", "lock"} <=> pc[c] \in {"idle", "lock"}
        /\ \A c \in Callers : pc'[c] = "body" <=> pc[c] = "body"
        /\ \A w \in Workers : pc'[w] = pc[w]
    BY <2>1, <2>2, <2>3
  <2> QED
    BY <2>1, <2>3, <2>4, <2>5, <2>6, Moves
<1>7. CASE current[t] = p
  <2>1. OpenRegion(t, p, n) /\ UNCHANGED want
    BY <1>7 DEF RunBounded
  <2>2. pc[t] = "body"
    BY <1>1, <1>2, <1>3, <1>7
  <2>3. MayOpen(t, p)
    BY <2>1, <2>2, <1>1, <1>7 DEF MayOpen
  <2> QED
    BY <2>1, <2>3, OpenRegionInv
<1> QED
  BY <1>5, <1>6, <1>7

LEMMA LockRegionInv == ASSUME IInv, NEW t \in Threads, LockRegion(t) PROVE IInv'
<1> USE ThreadFacts
<1>1. PICK p, n : p = want[t].pool /\ n = want[t].blocks
  OBVIOUS
<1>2. pc[t] = "lock" /\ want[t] \in Requests
  BY DEF LockRegion, IInv, TypeOK
<1>3. p \in Pools /\ n \in 1 .. MaxBlocks
  BY <1>1, <1>2 DEF Requests
<1>4. t \in Callers
  BY <1>2 DEF IInv, TypeOK, WorkerLabels, Joining
<1>5. depth[t] = 0
  BY <1>2, <1>4 DEF IInv, StackInv
<1>6. MayOpen(t, p) /\ OpenRegion(t, p, n)
  BY <1>1, <1>2, <1>4, <1>5 DEF LockRegion, MayOpen
<1> QED
  BY <1>3, <1>6, OpenRegionInv

\* The owner of a region runs its stripe.
LEMMA EndOwnBodyInv == ASSUME IInv, NEW t \in Threads, EndOwnBody(t) PROVE IInv'
<1> USE ThreadFacts
<1>0. PICK d, r : d = depth[t] /\ r = <<t, d>>
  OBVIOUS
<1>1. /\ depth \in [Threads -> 0 .. MaxDepth]
      /\ region \in [Regions -> RegionObjects \cup {None}]
      /\ pc \in [Threads -> CallerLabels \cup WorkerLabels]
      /\ current \in [Threads -> Pools \cup {None}]
      /\ in_pool \in [Threads -> BOOLEAN]
      /\ runs \in [Regions -> [Blocks -> Nat]]
  BY DEF IInv, TypeOK
<1>2. /\ UNCHANGED <<worker, region, depth, region_mu, want>>
      /\ pc[t] = "body" /\ depth[t] > 0
      /\ pc' = [pc EXCEPT ![t] = "spin"]
      /\ in_pool' = [in_pool EXCEPT ![t] = region[r].was_in_pool]
      /\ current' = [current EXCEPT ![t] = region[r].previous]
      /\ runs' = [runs EXCEPT ![r] =
                    [b \in Blocks |-> runs[r][b] + IF b \in Stripe(0, r) THEN 1 ELSE 0]]
  BY <1>0 DEF EndOwnBody, RunStripe, Goto
<1>3. /\ d \in 1 .. MaxDepth /\ r \in Regions /\ region[r] \in RegionObjects /\ region[r] # None
      /\ r[1] = t /\ r[2] = d
  <2>1. d \in 1 .. MaxDepth
    BY <1>0, <1>1, <1>2
  <2>2. r \in Regions /\ region[<<t, d>>] # None /\ r[1] = t /\ r[2] = d
    BY <1>0, <1>1, <2>1, RegionFacts DEF IInv, StackInv
  <2> QED
    BY <1>0, <1>1, <2>1, <2>2
<1>4. "spin" \in CallerLabels /\ "spin" \in WorkerLabels /\ "spin" \in Joining /\ "body" \notin Joining
  BY DEF CallerLabels, WorkerLabels, Joining
<1>5. /\ pc' \in [Threads -> CallerLabels \cup WorkerLabels]
      /\ pc'[t] = "spin" /\ \A u \in Threads : u # t => pc'[u] = pc[u]
  BY <1>1, <1>2, <1>4
<1>6. /\ in_pool' \in [Threads -> BOOLEAN] /\ in_pool'[t] = region[r].was_in_pool
      /\ current' \in [Threads -> Pools \cup {None}] /\ current'[t] = region[r].previous
      /\ \A u \in Threads : u # t => current'[u] = current[u] /\ in_pool'[u] = in_pool[u]
  BY <1>1, <1>2, <1>3 DEF RegionObjects
<1>7. /\ runs' \in [Regions -> [Blocks -> Nat]]
      /\ \A b \in Blocks : runs'[r][b] = runs[r][b] + IF b \in Stripe(0, r) THEN 1 ELSE 0
      /\ \A x \in Regions : x # r => runs'[x] = runs[x]
  BY <1>1, <1>2, <1>3
<1>8. TypeOK'
  <2>1. /\ \A c \in Callers : pc'[c] \in CallerLabels
        /\ \A w \in Workers : pc'[w] \in WorkerLabels
        /\ \A u \in Threads : pc'[u] = "lock" => want[u] \in Requests
    BY <1>4, <1>5 DEF IInv, TypeOK
  <2> QED
    BY <2>1, <1>2, <1>5, <1>6, <1>7 DEF IInv, TypeOK
<1>9. StackInv'
  BY <1>2, <1>5 DEF IInv, StackInv
<1>10. LocalInv'
  <2>1. ASSUME NEW w \in Workers PROVE WorkerLocal(w)'
    <3>1. WorkerLocal(w)
      BY DEF IInv, LocalInv
    <3>2. w = t => region[r].previous = w[1] /\ region[r].was_in_pool
      BY <3>1, <1>0, <1>3 DEF WorkerLocal
    <3> QED
      BY <3>1, <3>2, <1>2, <1>6 DEF WorkerLocal
  <2>2. ASSUME NEW c \in Callers PROVE CallerLocal(c)'
    <3>1. CallerLocal(c)
      BY DEF IInv, LocalInv
    <3>2. CASE c = t
      <4>1. /\ region[r].previous = IF d = 1 THEN None ELSE region[<<c, 1>>].pool
            /\ region[r].was_in_pool <=> d # 1
        BY <3>1, <3>2, <1>0, <1>3 DEF CallerLocal
      <4>2. d # 1 <=> depth[c] > 1
        BY <3>2, <1>0, <1>3
      <4> QED
        BY <3>1, <3>2, <4>1, <4>2, <1>2, <1>5, <1>6 DEF CallerLocal
    <3>3. CASE c # t
      BY <3>1, <3>3, <1>2, <1>5, <1>6 DEF CallerLocal
    <3> QED
      BY <3>2, <3>3
  <2> QED
    BY <2>1, <2>2 DEF LocalInv
<1>11. TeamInv'
  BY SMTT(30), <1>2, <1>4, <1>5 DEF IInv, TeamInv, Team
<1>12. RunsInv'
  <2> SUFFICES ASSUME NEW x \in Regions, region[x] # None, NEW b \in Blocks,
                      NEW i, i = b % region[x].participants
               PROVE  runs'[x][b] = IF b < region[x].blocks /\ Done(x, i)' THEN 1 ELSE 0
    BY <1>2 DEF RunsInv, Done, OwnerDone, MemberDone
  <2>1. runs[x][b] = IF b < region[x].blocks /\ Done(x, i) THEN 1 ELSE 0
    BY DEF IInv, RunsInv
  <2>2. MemberDone(x, i)' <=> MemberDone(x, i)
    BY <1>2, <1>5 DEF MemberDone
  <2>3. CASE x = r
    <3>1. ~OwnerDone(r) /\ OwnerDone(r)'
      BY <1>0, <1>2, <1>3, <1>4, <1>5 DEF OwnerDone
    <3>2. b \in Stripe(0, r) <=> b < region[r].blocks /\ i = 0
      BY <2>3 DEF Stripe
    <3> QED
      BY <2>1, <2>2, <2>3, <3>1, <3>2, <1>7 DEF Done
  <2>4. CASE x # r
    <3>1. OwnerDone(x)' <=> OwnerDone(x)
      <4>1. CASE x[1] = t
        BY <4>1, <2>4, <1>0, <1>2, RegionFacts DEF OwnerDone
      <4>2. CASE x[1] # t
        BY <4>2, <1>2, <1>5, RegionFacts DEF OwnerDone
      <4> QED
        BY <4>1, <4>2
    <3> QED
      BY <2>1, <2>2, <2>4, <3>1, <1>7 DEF Done
  <2> QED
    BY <2>3, <2>4
<1> QED
  BY <1>8, <1>9, <1>10, <1>11, <1>12 DEF IInv

\* A worker runs the stripe of the region that admitted it.
LEMMA EndBlockInv == ASSUME IInv, NEW w \in Workers, EndBlock(w) PROVE IInv'
<1> USE ThreadFacts
<1>0. PICK r, k : r = worker[w].region /\ k = worker[w].block
  OBVIOUS
<1>1. /\ pc \in [Threads -> CallerLabels \cup WorkerLabels]
      /\ runs \in [Regions -> [Blocks -> Nat]]
      /\ worker \in [Workers -> [region : Regions \cup {None}, block : Nat, pending : BOOLEAN]]
  BY DEF IInv, TypeOK
<1>2. /\ UNCHANGED <<worker, region, depth, region_mu, current, in_pool, want>>
      /\ pc[w] = "body" /\ depth[w] = 0
      /\ pc' = [pc EXCEPT ![w] = "complete"]
      /\ runs' = [runs EXCEPT ![r] =
                    [b \in Blocks |-> runs[r][b] + IF b \in Stripe(k, r) THEN 1 ELSE 0]]
  BY <1>0 DEF EndBlock, RunStripe, Goto
<1>3. /\ r \in Regions /\ region[r] # None /\ k \in Nat /\ k # 0
      /\ \A v \in Workers : worker[v].region = r /\ worker[v].block = k => v = w
  <2>1. r # None
    BY <1>0, <1>2 DEF IInv, TeamInv
  <2>2. r \in Regions /\ k \in Nat
    BY <2>1, <1>0, <1>1
  <2>3. region[r] # None /\ k \in 1 .. (region[r].participants - 1)
    BY <2>1, <1>0 DEF IInv, TeamInv
  <2>4. \A v \in Workers : worker[v].region = r /\ worker[v].block = k => v = w
    BY <2>1, <1>0 DEF IInv, TeamInv
  <2> QED
    BY <2>2, <2>3, <2>4
<1>4. "complete" \in WorkerLabels /\ "complete" \notin Joining /\ "body" \notin Joining
  BY DEF WorkerLabels, Joining
<1>5. /\ pc' \in [Threads -> CallerLabels \cup WorkerLabels]
      /\ pc'[w] = "complete" /\ \A u \in Threads : u # w => pc'[u] = pc[u]
  BY <1>1, <1>2, <1>4
<1>6. /\ runs' \in [Regions -> [Blocks -> Nat]]
      /\ \A b \in Blocks : runs'[r][b] = runs[r][b] + IF b \in Stripe(k, r) THEN 1 ELSE 0
      /\ \A x \in Regions : x # r => runs'[x] = runs[x]
  BY <1>1, <1>2, <1>3
<1>7. TypeOK'
  <2>1. /\ \A c \in Callers : pc'[c] \in CallerLabels
        /\ \A v \in Workers : pc'[v] \in WorkerLabels
        /\ \A u \in Threads : pc'[u] = "lock" => want[u] \in Requests
    BY <1>4, <1>5 DEF IInv, TypeOK
  <2> QED
    BY <2>1, <1>2, <1>5, <1>6 DEF IInv, TypeOK
<1>8. StackInv'
  BY <1>2, <1>4, <1>5 DEF IInv, StackInv
<1>9. LocalInv'
  BY <1>2, <1>5 DEF IInv, LocalInv, WorkerLocal, CallerLocal
<1>10. TeamInv'
  BY <1>2, <1>4, <1>5 DEF IInv, TeamInv, Team
<1>11. RunsInv'
  <2> SUFFICES ASSUME NEW x \in Regions, region[x] # None, NEW b \in Blocks,
                      NEW i, i = b % region[x].participants
               PROVE  runs'[x][b] = IF b < region[x].blocks /\ Done(x, i)' THEN 1 ELSE 0
    BY <1>2 DEF RunsInv, Done, OwnerDone, MemberDone
  <2>1. runs[x][b] = IF b < region[x].blocks /\ Done(x, i) THEN 1 ELSE 0
    BY DEF IInv, RunsInv
  <2>2. OwnerDone(x)' <=> OwnerDone(x)
    <3>1. x[1] \in Threads
      BY RegionFacts
    <3>2. pc'[x[1]] \in Joining <=> pc[x[1]] \in Joining
      BY <3>1, <1>2, <1>4, <1>5
    <3> QED
      BY <3>2, <1>2 DEF OwnerDone
  <2>3. CASE x = r /\ i = k
    <3>1. ~MemberDone(x, i) /\ MemberDone(x, i)'
      BY <2>3, <1>0, <1>2, <1>3, <1>5 DEF MemberDone
    <3>2. b \in Stripe(k, r) <=> b < region[r].blocks
      BY <2>3 DEF Stripe
    <3>3. ~Done(x, i) /\ Done(x, i)'
      BY <2>3, <3>1, <1>3 DEF Done
    <3> QED
      BY <2>1, <2>3, <3>2, <3>3, <1>6
  <2>4. CASE ~(x = r /\ i = k)
    <3>1. MemberDone(x, i)' <=> MemberDone(x, i)
      <4>1. \A v \in Workers : worker[v].region = x /\ worker[v].block = i => v # w
        BY <2>4, <1>0
      <4> QED
        BY <4>1, <1>2, <1>5 DEF MemberDone
    <3>2. runs'[x][b] = runs[x][b]
      <4>1. CASE x = r
        <5>1. b \notin Stripe(k, r)
          BY <2>4, <4>1 DEF Stripe
        <5>2. runs[r][b] \in Nat
          BY <1>1, <1>3
        <5> QED
          BY <4>1, <5>1, <5>2, <1>6
      <4>2. CASE x # r
        BY <4>2, <1>6
      <4> QED
        BY <4>1, <4>2
    <3> QED
      BY <2>1, <2>2, <3>1, <3>2 DEF Done
  <2> QED
    BY <2>3, <2>4
<1> QED
  BY <1>7, <1>8, <1>9, <1>10, <1>11 DEF IInv

\* The owner returns when nobody belongs to its region.
LEMMA LeaveInv == ASSUME IInv, NEW t \in Threads, Leave(t) PROVE IInv'
<1> USE ThreadFacts
<1>0. PICK d, r, label : /\ d = depth[t] /\ r = <<t, d>>
                         /\ label = IF t \in Callers /\ d = 1 THEN "idle" ELSE "body"
  OBVIOUS
<1>1. /\ depth \in [Threads -> 0 .. MaxDepth]
      /\ region \in [Regions -> RegionObjects \cup {None}]
      /\ pc \in [Threads -> CallerLabels \cup WorkerLabels]
      /\ region_mu \in [Pools -> Threads \cup {None}]
      /\ runs \in [Regions -> [Blocks -> Nat]]
      /\ worker \in [Workers -> [region : Regions \cup {None}, block : Nat, pending : BOOLEAN]]
  BY DEF IInv, TypeOK
<1>2. /\ UNCHANGED <<worker, current, in_pool, want>>
      /\ pc[t] = "leave"
      /\ region' = [region EXCEPT ![r] = None]
      /\ depth' = [depth EXCEPT ![t] = @ - 1]
      /\ region_mu' = IF region[r].previous # region[r].pool
                      THEN [region_mu EXCEPT ![region[r].pool] = None] ELSE region_mu
      /\ pc' = [pc EXCEPT ![t] = label]
      /\ runs' = [runs EXCEPT ![r] = [b \in Blocks |-> 0]]
  BY <1>0 DEF Leave, Goto
<1>3. /\ d \in 1 .. MaxDepth /\ r \in Regions /\ region[r] \in RegionObjects /\ region[r] # None
      /\ r[1] = t /\ r[2] = d /\ pc[t] \in Joining
  <2>1. pc[t] \in Joining /\ d \in 1 .. MaxDepth
    BY <1>0, <1>1, <1>2 DEF IInv, StackInv, Joining
  <2>2. r \in Regions /\ region[<<t, d>>] # None /\ r[1] = t /\ r[2] = d
    BY <1>0, <1>1, <2>1, RegionFacts DEF IInv, StackInv
  <2> QED
    BY <1>0, <1>1, <2>1, <2>2
<1>4. Team(r) = {}
  <2>1. Cardinality(Team(r)) = 0
    BY <1>0, <1>2, <1>3 DEF IInv, TeamInv
  <2>2. IsFiniteSet(Team(r))
    BY FiniteWorkers, FS_Subset DEF Team
  <2> QED
    BY <2>1, <2>2, FS_EmptySet
<1>5. \A w \in Workers : worker[w].region # r
  BY <1>4 DEF Team
<1>6. /\ label \in {"idle", "body"} /\ label \notin Joining /\ label # "complete"
      /\ label \in CallerLabels /\ (t \in Workers => label = "body")
      /\ (t \in Callers => (label = "idle" <=> d = 1))
      /\ "body" \in WorkerLabels
  BY <1>0 DEF CallerLabels, WorkerLabels, Joining
<1>7. /\ pc' \in [Threads -> CallerLabels \cup WorkerLabels]
      /\ pc'[t] = label /\ \A u \in Threads : u # t => pc'[u] = pc[u]
  BY <1>1, <1>2, <1>6
<1>8. /\ region' \in [Regions -> RegionObjects \cup {None}]
      /\ region'[r] = None /\ \A x \in Regions : x # r => region'[x] = region[x]
  BY <1>1, <1>2, <1>3
<1>9. /\ depth' \in [Threads -> 0 .. MaxDepth]
      /\ depth'[t] = d - 1 /\ \A u \in Threads : u # t => depth'[u] = depth[u]
  BY <1>0, <1>1, <1>2, <1>3
<1>10. /\ runs' \in [Regions -> [Blocks -> Nat]]
       /\ \A x \in Regions : x # r => runs'[x] = runs[x]
  BY <1>1, <1>2, <1>3
<1>11. region_mu' \in [Pools -> Threads \cup {None}]
  BY <1>1, <1>2
<1>12. TypeOK'
  <2>1. /\ \A c \in Callers : pc'[c] \in CallerLabels
        /\ \A w \in Workers : pc'[w] \in WorkerLabels
        /\ \A u \in Threads : pc'[u] = "lock" => want[u] \in Requests
    BY <1>6, <1>7 DEF IInv, TypeOK
  <2> QED
    BY <2>1, <1>2, <1>7, <1>8, <1>9, <1>10, <1>11 DEF IInv, TypeOK
<1>13. StackInv'
  <2>1. ASSUME NEW u \in Threads, NEW i \in 1 .. MaxDepth
        PROVE  region'[<<u, i>>] # None <=> i <= depth'[u]
    <3>1. region[<<u, i>>] # None <=> i <= depth[u]
      BY DEF IInv, StackInv
    <3>2. <<u, i>> \in Regions
      BY RegionFacts
    <3>3. CASE u = t /\ i = d
      BY <3>3, <1>0, <1>3, <1>8, <1>9
    <3>4. CASE u = t /\ i # d
      <4>1. <<u, i>> # r
        BY <3>4, <1>0
      <4> QED
        BY <4>1, <3>1, <3>2, <3>4, <1>0, <1>3, <1>8, <1>9
    <3>5. CASE u # t
      <4>1. <<u, i>> # r
        BY <3>5, <1>0
      <4> QED
        BY <4>1, <3>1, <3>2, <3>5, <1>8, <1>9
    <3> QED
      BY <3>3, <3>4, <3>5
  <2>2. \A c \in Callers : depth'[c] = 0 <=> pc'[c] \in {"idle", "lock"}
    BY <1>3, <1>6, <1>7, <1>9 DEF IInv, StackInv
  <2>3. \A u \in Threads : pc'[u] \in Joining => depth'[u] > 0
    BY <1>6, <1>7, <1>9 DEF IInv, StackInv
  <2> QED
    BY <2>1, <2>2, <2>3 DEF StackInv
<1>14. LocalInv'
  <2>1. \A u \in Threads, i \in 1 .. MaxDepth :
            u # t \/ i # d => region'[<<u, i>>] = region[<<u, i>>]
    BY <1>0, <1>8, RegionFacts
  <2>2. \A i \in 1 .. MaxDepth : i <= d - 1 => i <= d /\ i # d
    BY <1>3
  <2>3. ASSUME NEW w \in Workers PROVE WorkerLocal(w)'
    <3>1. WorkerLocal(w)
      BY DEF IInv, LocalInv
    <3>2. CASE w = t
      BY <3>1, <3>2, <2>1, <2>2, <1>0, <1>2, <1>9 DEF WorkerLocal
    <3>3. CASE w # t
      BY <3>1, <3>3, <2>1, <1>2, <1>9 DEF WorkerLocal
    <3> QED
      BY <3>2, <3>3
  <2>4. ASSUME NEW c \in Callers PROVE CallerLocal(c)'
    <3>1. CallerLocal(c)
      BY DEF IInv, LocalInv
    <3>2. CASE c = t /\ d = 1
      <4>1. depth'[c] = 0 /\ current[c] = None /\ ~in_pool[c]
        <5>1. depth[c] = 1 /\ pc[c] = "leave"
          BY <3>2, <1>0, <1>2
        <5> QED
          BY <3>1, <3>2, <5>1, <1>9 DEF CallerLocal
      <4>2. \A i \in 1 .. MaxDepth : ~(i <= depth'[c])
        BY <4>1
      <4> QED
        BY <4>1, <4>2, <1>2 DEF CallerLocal
    <3>3. CASE c = t /\ d # 1
      <4>1. /\ depth[c] > 1 /\ depth'[c] = d - 1 /\ depth'[c] > 0 /\ pc'[c] = "body"
            /\ 1 \in 1 .. MaxDepth
        BY <3>3, <1>0, <1>3, <1>6, <1>7, <1>9
      <4>2. region'[<<c, 1>>] = region[<<c, 1>>]
        BY <3>3, <4>1, <2>1
      <4>3. region_mu' = region_mu
        <5>1. region[r].previous = region[r].pool
          BY <3>1, <3>3, <1>0, <1>3 DEF CallerLocal
        <5> QED
          BY <5>1, <1>2
      <4>4. \A i \in 1 .. MaxDepth : i <= depth'[c] =>
               i <= depth[c] /\ region'[<<c, i>>] = region[<<c, i>>]
        BY <3>3, <4>1, <2>1, <2>2, <1>0
      <4>5. /\ current' = current /\ in_pool' = in_pool /\ depth[c] > 0
            /\ current[c] = region[<<c, 1>>].pool /\ in_pool[c]
            /\ region_mu[region[<<c, 1>>].pool] = c
        BY <3>1, <4>1, <1>2, <1>1 DEF CallerLocal
      <4>6. \A i \in 1 .. MaxDepth : i <= depth'[c] =>
               /\ region'[<<c, i>>].pool = region[<<c, 1>>].pool
               /\ region'[<<c, i>>].previous = IF i = 1 THEN None ELSE region[<<c, 1>>].pool
               /\ region'[<<c, i>>].was_in_pool <=> i # 1
        BY <3>1, <4>4 DEF CallerLocal
      <4> QED
        BY <4>1, <4>2, <4>3, <4>5, <4>6 DEF CallerLocal
    <3>4. CASE c # t
      <4>1. /\ depth'[c] = depth[c] /\ pc'[c] = pc[c] /\ 1 \in 1 .. MaxDepth
            /\ \A i \in 1 .. MaxDepth : region'[<<c, i>>] = region[<<c, i>>]
        BY <3>4, <2>1, <1>7, <1>9
      <4>2. ASSUME depth[c] > 0
            PROVE  region_mu'[region[<<c, 1>>].pool] = c
        <5>1. region_mu[region[<<c, 1>>].pool] = c
          BY <3>1, <4>2 DEF CallerLocal
        <5>2. region[<<c, 1>>].pool \in Pools
          <6>1. region[<<c, 1>>] \in RegionObjects
            <7>1. 1 <= depth[c] /\ <<c, 1>> \in Regions
              <8>1. depth[c] \in 0 .. MaxDepth /\ depth[c] > 0 /\ 1 \in 1 .. MaxDepth
                BY <4>1, <4>2, <1>1
              <8> QED
                BY <8>1, RegionFacts
            <7> QED
              BY <4>1, <7>1, <1>1 DEF IInv, StackInv
          <6> QED
            BY <6>1 DEF RegionObjects
        <5>3. region[r].previous # region[r].pool => region[r].pool # region[<<c, 1>>].pool
          <6>1. ASSUME t \in Workers PROVE region[r].previous = region[r].pool
            BY <6>1, <1>0, <1>3 DEF IInv, LocalInv, WorkerLocal
          <6>2. ASSUME t \in Callers PROVE region_mu[region[r].pool] = t
            <7>1. CallerLocal(t) /\ depth[t] > 0 /\ d <= depth[t]
              BY <6>2, <1>0, <1>3 DEF IInv, LocalInv
            <7>2. region[r].pool = region[<<t, 1>>].pool
              BY <7>1, <1>0, <1>3 DEF CallerLocal
            <7> QED
              BY <7>1, <7>2 DEF CallerLocal
          <6> QED
            BY <6>1, <6>2, <5>1, <3>4
        <5> QED
          BY <5>1, <5>2, <5>3, <1>1, <1>2
      <4> QED
        BY <3>1, <4>1, <4>2, <1>2 DEF CallerLocal
    <3> QED
      BY <3>2, <3>3, <3>4
  <2> QED
    BY <2>3, <2>4 DEF LocalInv
<1>15. TeamInv'
  <2>1. ASSUME NEW x \in Regions, region'[x] # None
        PROVE  /\ region'[x].remaining = Cardinality(Team(x)')
               /\ region'[x].participants \in 1 .. region'[x].blocks
    BY SMTT(30), <2>1, <1>2, <1>8 DEF IInv, TeamInv, Team
  <2>2. ASSUME NEW w \in Workers
        PROVE  /\ worker'[w].pending <=> worker'[w].region # None
               /\ worker'[w].region # None =>
                    /\ region'[worker'[w].region] # None
                    /\ worker'[w].block \in 1 .. (region'[worker'[w].region].participants - 1)
    <3>1. worker[w].region # None => worker[w].region \in Regions
      BY <1>1
    <3> QED
      BY <3>1, <1>2, <1>5, <1>8 DEF IInv, TeamInv
  <2>3. ASSUME NEW w \in Workers
        PROVE  /\ pc'[w] \notin {"park", "asleep", "exited"} => worker'[w].region # None
               /\ depth'[w] > 0 => pc'[w] \in {"body"} \cup Joining
    BY <1>2, <1>6, <1>7, <1>9 DEF IInv, TeamInv
  <2>4. ASSUME NEW u \in Threads, pc'[u] = "leave"
        PROVE  region'[<<u, depth'[u]>>].remaining = 0
    <3>1. u # t /\ pc[u] = "leave" /\ depth'[u] = depth[u]
      BY <2>4, <1>6, <1>7, <1>9
    <3>2. depth[u] \in 1 .. MaxDepth
      BY <3>1, <1>1 DEF IInv, StackInv, Joining
    <3>3. <<u, depth[u]>> \in Regions /\ <<u, depth[u]>> # r
      BY <3>1, <3>2, <1>0, RegionFacts
    <3> QED
      BY <3>1, <3>3, <1>8 DEF IInv, TeamInv
  <2>5. \A v, w \in Workers :
            /\ worker'[v].region = worker'[w].region /\ worker'[v].region # None
            /\ worker'[v].block = worker'[w].block
            => v = w
    BY <1>2 DEF IInv, TeamInv
  <2> QED
    BY <2>1, <2>2, <2>3, <2>4, <2>5 DEF TeamInv
<1>16. RunsInv'
  <2> SUFFICES ASSUME NEW x \in Regions, region'[x] # None, NEW b \in Blocks,
                      NEW i, i = b % region'[x].participants
               PROVE  runs'[x][b] = IF b < region'[x].blocks /\ Done(x, i)' THEN 1 ELSE 0
    BY DEF RunsInv, Done, OwnerDone, MemberDone
  <2>1. x # r /\ region'[x] = region[x] /\ runs'[x] = runs[x]
    BY <1>8, <1>10
  <2>2. MemberDone(x, i)' <=> MemberDone(x, i)
    BY <1>2, <1>6, <1>7 DEF MemberDone
  <2>3. OwnerDone(x)' <=> OwnerDone(x)
    <3>1. x[1] \in Threads /\ x = <<x[1], x[2]>>
      BY RegionFacts
    <3>2. CASE x[1] = t
      <4>1. x[2] # d
        BY <3>1, <3>2, <2>1, <1>0
      <4> QED
        BY <3>2, <4>1, <1>0, <1>6, <1>7 DEF OwnerDone
    <3>3. CASE x[1] # t
      BY <3>1, <3>3, <1>7, <1>9 DEF OwnerDone
    <3> QED
      BY <3>2, <3>3
  <2> QED
    BY <2>1, <2>2, <2>3 DEF IInv, RunsInv, Done
<1> QED
  BY <1>12, <1>13, <1>14, <1>15, <1>16 DEF IInv

\* A worker leaves the region that admitted it.
LEMMA CompleteInv == ASSUME IInv, NEW w \in Workers, Complete(w) PROVE IInv'
<1> USE ThreadFacts
<1>0. PICK r : r = worker[w].region
  OBVIOUS
<1>1. /\ worker \in [Workers -> [region : Regions \cup {None}, block : Nat, pending : BOOLEAN]]
      /\ region \in [Regions -> RegionObjects \cup {None}]
      /\ pc \in [Threads -> CallerLabels \cup WorkerLabels]
      /\ depth \in [Threads -> 0 .. MaxDepth]
  BY DEF IInv, TypeOK
<1>2. /\ UNCHANGED <<depth, region_mu, current, in_pool, want, runs>>
      /\ pc[w] = "complete"
      /\ worker' = [worker EXCEPT ![w].pending = FALSE, ![w].region = None]
      /\ region' = [region EXCEPT ![r].remaining = @ - 1]
  BY <1>0 DEF Complete
<1>3. r \in Regions /\ region[r] # None /\ region[r] \in RegionObjects
  <2>1. r # None
    BY <1>0, <1>2 DEF IInv, TeamInv
  <2> QED
    BY <2>1, <1>0, <1>1 DEF IInv, TeamInv
<1>4. /\ pc' \in [Threads -> CallerLabels \cup WorkerLabels]
      /\ pc'[w] = "park"
      /\ \A u \in Threads : u # w =>
            pc'[u] = pc[u] \/ (pc[u] = "blocked" /\ pc'[u] = "spin")
  <2>1. pc' = [t \in Threads |->
                 IF t = w THEN "park"
                 ELSE IF region[r].remaining = 1 /\ t \in Waiting(w[1]) THEN "spin"
                 ELSE pc[t]]
    BY <1>0 DEF Complete
  <2>2. \A t \in Waiting(w[1]) : pc[t] = "blocked"
    BY DEF Waiting
  <2>3. "park" \in WorkerLabels /\ "spin" \in WorkerLabels
    BY DEF WorkerLabels, Joining
  <2> QED
    BY <2>1, <2>2, <2>3, <1>1
<1>5. /\ worker' \in [Workers -> [region : Regions \cup {None}, block : Nat, pending : BOOLEAN]]
      /\ worker'[w].region = None /\ worker'[w].pending = FALSE
      /\ \A v \in Workers : v # w => worker'[v] = worker[v]
  <2>1. PICK old, mid, new : /\ old = worker[w]
                             /\ mid = [old EXCEPT !.pending = FALSE]
                             /\ new = [mid EXCEPT !.region = None]
    OBVIOUS
  <2>2. old \in [region : Regions \cup {None}, block : Nat, pending : BOOLEAN]
    BY <2>1, <1>1
  <2>3. /\ mid \in [region : Regions \cup {None}, block : Nat, pending : BOOLEAN]
        /\ mid.pending = FALSE
    BY <2>1, <2>2
  <2>4. worker' = [worker EXCEPT ![w] = new]
    BY <2>1, <1>1, <1>2
  <2>5. /\ new \in [region : Regions \cup {None}, block : Nat, pending : BOOLEAN]
        /\ new.region = None /\ new.pending = FALSE
    BY <2>1, <2>3
  <2> QED
    BY <2>4, <2>5, <1>1
<1>6. /\ region' \in [Regions -> RegionObjects \cup {None}]
      /\ region'[r] \in RegionObjects /\ region'[r] # None
      /\ region'[r].remaining = region[r].remaining - 1
      /\ region'[r].pool = region[r].pool /\ region'[r].blocks = region[r].blocks
      /\ region'[r].participants = region[r].participants
      /\ region'[r].previous = region[r].previous
      /\ region'[r].was_in_pool = region[r].was_in_pool
      /\ \A x \in Regions : x # r => region'[x] = region[x]
  <2>1. region' = [region EXCEPT ![r] = [region[r] EXCEPT !.remaining = region[r].remaining - 1]]
    BY <1>1, <1>2, <1>3
  <2>2. PICK new : new = [region[r] EXCEPT !.remaining = region[r].remaining - 1]
    OBVIOUS
  <2>3. /\ new \in RegionObjects
        /\ new.remaining = region[r].remaining - 1
        /\ new.pool = region[r].pool /\ new.blocks = region[r].blocks
        /\ new.participants = region[r].participants
        /\ new.previous = region[r].previous /\ new.was_in_pool = region[r].was_in_pool
    BY <2>2, <1>3 DEF RegionObjects
  <2>4. region'[r] = new /\ \A x \in Regions : x # r => region'[x] = region[x]
    BY <2>1, <2>2, <1>1, <1>3
  <2>5. region' \in [Regions -> RegionObjects \cup {None}]
    BY <2>1, <2>2, <2>3, <1>1, <1>3
  <2> QED
    BY <2>3, <2>4, <2>5
<1>7. \A x \in Regions : /\ region'[x] # None <=> region[x] # None
                         /\ region[x] # None =>
                              /\ region'[x].pool = region[x].pool
                              /\ region'[x].blocks = region[x].blocks
                              /\ region'[x].participants = region[x].participants
                              /\ region'[x].previous = region[x].previous
                              /\ region'[x].was_in_pool = region[x].was_in_pool
  BY <1>3, <1>6
<1>8. /\ \A u \in Threads : pc'[u] \in Joining <=> pc[u] \in Joining
      /\ \A u \in Threads : pc'[u] = "leave" => pc[u] = "leave"
      /\ \A u \in Threads : pc'[u] = "body" <=> pc[u] = "body"
      /\ \A u \in Threads : pc'[u] \in {"idle", "lock"} <=> pc[u] \in {"idle", "lock"}
      /\ \A u \in Threads : pc'[u] = "lock" => pc[u] = "lock"
      /\ depth[w] = 0
  BY <1>1, <1>2, <1>4 DEF Joining, IInv, TeamInv
<1>9. TypeOK'
  <2>1. /\ \A c \in Callers : pc'[c] \in CallerLabels
        /\ \A v \in Workers : pc'[v] \in WorkerLabels
    BY <1>4 DEF IInv, TypeOK, WorkerLabels, CallerLabels, Joining
  <2>2. \A u \in Threads : pc'[u] = "lock" => want[u] \in Requests
    BY <1>8 DEF IInv, TypeOK
  <2> QED
    BY <2>1, <2>2, <1>2, <1>4, <1>5, <1>6 DEF IInv, TypeOK
<1>10. StackInv'
  BY <1>2, <1>7, <1>8, RegionFacts DEF IInv, StackInv
<1>11. LocalInv'
  <2>1. \A u \in Threads, i \in 1 .. MaxDepth : i <= depth[u] =>
            /\ region'[<<u, i>>].pool = region[<<u, i>>].pool
            /\ region'[<<u, i>>].previous = region[<<u, i>>].previous
            /\ region'[<<u, i>>].was_in_pool = region[<<u, i>>].was_in_pool
    BY <1>7, RegionFacts DEF IInv, StackInv
  <2>2. ASSUME NEW v \in Workers PROVE WorkerLocal(v)'
    BY <2>1, <1>2 DEF IInv, LocalInv, WorkerLocal
  <2>3. ASSUME NEW c \in Callers PROVE CallerLocal(c)'
    <3>1. CallerLocal(c)
      BY DEF IInv, LocalInv
    <3>2. \A i \in 1 .. MaxDepth : i <= depth[c] =>
             1 <= depth[c] /\ 1 \in 1 .. MaxDepth
      BY <1>1
    <3>3. depth[c] > 0 => 1 <= depth[c] /\ 1 \in 1 .. MaxDepth
      BY <1>1
    <3> QED
      BY <3>1, <3>2, <3>3, <2>1, <1>2, <1>8 DEF CallerLocal
  <2> QED
    BY <2>2, <2>3 DEF LocalInv
<1>12. /\ \A x \in Regions : x # r => Team(x)' = Team(x)
       /\ Team(r)' = Team(r) \ {w} /\ w \in Team(r)
       /\ Cardinality(Team(r)') = Cardinality(Team(r)) - 1 /\ Cardinality(Team(r)) > 0
  <2>1. \A x \in Regions : x # r => Team(x)' = Team(x)
    BY <1>0, <1>5 DEF Team
  <2>2. Team(r)' = Team(r) \ {w} /\ w \in Team(r)
    BY <1>0, <1>3, <1>5 DEF Team
  <2>3. IsFiniteSet(Team(r))
    BY FiniteWorkers, FS_Subset DEF Team
  <2>4. /\ Cardinality(Team(r) \ {w}) = Cardinality(Team(r)) - 1
        /\ Cardinality(Team(r)) \in Nat /\ Cardinality(Team(r)) # 0
    BY <2>2, <2>3, FS_RemoveElement, FS_CardinalityType, FS_EmptySet
  <2> QED
    BY <2>1, <2>2, <2>4
<1>13. TeamInv'
  <2>1. ASSUME NEW x \in Regions, region'[x] # None
        PROVE  /\ region'[x].remaining = Cardinality(Team(x)')
               /\ region'[x].participants \in 1 .. region'[x].blocks
    <3>1. /\ region[x] # None /\ region[x].remaining = Cardinality(Team(x))
          /\ region[x].participants \in 1 .. region[x].blocks
      BY <2>1, <1>7 DEF IInv, TeamInv
    <3>2. region'[x].remaining = Cardinality(Team(x)')
      <4>1. CASE x = r
        BY <4>1, <3>1, <1>6, <1>12
      <4>2. CASE x # r
        BY <4>2, <3>1, <1>6, <1>12
      <4> QED
        BY <4>1, <4>2
    <3> QED
      BY <3>1, <3>2, <1>7
  <2>2. ASSUME NEW v \in Workers
        PROVE  /\ worker'[v].pending <=> worker'[v].region # None
               /\ worker'[v].region # None =>
                    /\ region'[worker'[v].region] # None
                    /\ worker'[v].block \in 1 .. (region'[worker'[v].region].participants - 1)
    <3>1. worker[v].region # None => worker[v].region \in Regions
      BY <1>1
    <3> QED
      BY <3>1, <1>5, <1>7 DEF IInv, TeamInv
  <2>3. ASSUME NEW v \in Workers
        PROVE  /\ pc'[v] \notin {"park", "asleep", "exited"} => worker'[v].region # None
               /\ depth'[v] > 0 => pc'[v] \in {"body"} \cup Joining
    <3>1. v = w => pc'[v] = "park" /\ ~(depth'[v] > 0)
      BY <1>2, <1>4, <1>8
    <3>2. v # w => /\ worker'[v] = worker[v] /\ depth'[v] = depth[v]
                   /\ pc'[v] = pc[v] \/ (pc[v] = "blocked" /\ pc'[v] = "spin")
      <4>1. v \in Threads /\ depth' = depth
        BY <1>2
      <4>2. v # w => worker'[v] = worker[v]
        BY <1>5
      <4>3. v # w => pc'[v] = pc[v] \/ (pc[v] = "blocked" /\ pc'[v] = "spin")
        BY <4>1, <1>4
      <4> QED
        BY <4>1, <4>2, <4>3
    <3> QED
      BY <3>1, <3>2 DEF IInv, TeamInv, Joining
  <2>4. ASSUME NEW u \in Threads, pc'[u] = "leave"
        PROVE  region'[<<u, depth'[u]>>].remaining = 0
    <3>1. pc[u] = "leave" /\ depth'[u] = depth[u]
      BY <2>4, <1>2, <1>8
    <3>2. depth[u] \in 1 .. MaxDepth
      BY <3>1, <1>1 DEF IInv, StackInv, Joining
    <3>3. <<u, depth[u]>> \in Regions /\ region[<<u, depth[u]>>].remaining = 0
      BY <3>1, <3>2, RegionFacts DEF IInv, TeamInv
    <3>4. region[r].remaining = Cardinality(Team(r))
      BY <1>3 DEF IInv, TeamInv
    <3>5. <<u, depth[u]>> # r
      BY <3>3, <3>4, <1>12
    <3> QED
      BY <3>1, <3>3, <3>5, <1>6
  <2>5. \A x, v \in Workers :
            /\ worker'[x].region = worker'[v].region /\ worker'[x].region # None
            /\ worker'[x].block = worker'[v].block
            => x = v
    BY <1>5 DEF IInv, TeamInv
  <2> QED
    BY <2>1, <2>2, <2>3, <2>4, <2>5 DEF TeamInv
<1>14. RunsInv'
  <2> SUFFICES ASSUME NEW x \in Regions, region'[x] # None, NEW b \in Blocks,
                      NEW i, i = b % region'[x].participants
               PROVE  runs'[x][b] = IF b < region'[x].blocks /\ Done(x, i)' THEN 1 ELSE 0
    BY DEF RunsInv, Done, OwnerDone, MemberDone
  <2>1. MemberDone(x, i)' <=> MemberDone(x, i)
    <3>1. \A v \in Workers : v # w => (worker'[v] = worker[v]
                                        /\ (pc'[v] = "complete" <=> pc[v] = "complete"))
      BY <1>4, <1>5
    <3> QED
      BY <3>1, <1>2, <1>5 DEF MemberDone
  <2>2. OwnerDone(x)' <=> OwnerDone(x)
    BY <1>2, <1>8, RegionFacts DEF OwnerDone
  <2> QED
    BY <2>1, <2>2, <1>2, <1>7 DEF IInv, RunsInv, Done
<1> QED
  BY <1>9, <1>10, <1>11, <1>13, <1>14 DEF IInv

-----------------------------------------------------------------------------
(***************************************************************************)
(* The theorems.                                                           *)
(***************************************************************************)

LEMMA ThreadStepInv == ASSUME IInv, NEW t \in Threads, ThreadStep(t) PROVE IInv'
<1>1. CASE LockRegion(t)
  BY <1>1, LockRegionInv
<1>2. CASE EndOwnBody(t)
  BY <1>2, EndOwnBodyInv
<1>3. CASE AwaitRegion(t)
  BY <1>3, AwaitRegionInv
<1>4. CASE Leave(t)
  BY <1>4, LeaveInv
<1>5. CASE t \in Workers /\ Park(t)
  BY <1>5, ParkInv
<1>6. CASE t \in Workers /\ EndBlock(t)
  BY <1>6, EndBlockInv
<1>7. CASE t \in Workers /\ Complete(t)
  BY <1>7, CompleteInv
<1> QED
  BY <1>1, <1>2, <1>3, <1>4, <1>5, <1>6, <1>7 DEF ThreadStep

LEMMA NextInv == ASSUME IInv, [Next]_vars PROVE IInv'
<1>1. CASE \E t \in Threads, p \in Pools, n \in 1 .. MaxBlocks : RunBounded(t, p, n)
  BY <1>1, RunBoundedInv
<1>2. CASE \E t \in Threads : ThreadStep(t) \/ SpuriousWakeup(t)
  BY <1>2, ThreadStepInv, SpuriousWakeupInv
<1>3. CASE \E p \in Pools : Stop(p)
  BY <1>3, StopInv
<1>4. CASE UNCHANGED vars
  BY <1>4, StutterInv DEF vars
<1> QED
  BY <1>1, <1>2, <1>3, <1>4 DEF Next, Terminated

\* The invariant holds of the pools, for every number of pools, workers and callers
\* and every nesting of regions.
THEOREM Invariant == Spec => []IInv
BY InitInv, NextInv, PTL DEF Spec

LEMMA IInvTeams == IInv => TeamExact
<1> SUFFICES ASSUME IInv PROVE TeamExact
  OBVIOUS
<1>1. \A r \in Regions : region[r] # None =>
        region[r].remaining = Cardinality({w \in Workers : worker[w].region = r})
  BY DEF IInv, TeamInv, Team
<1>2. \A w \in Workers :
        /\ worker[w].pending <=> worker[w].region # None
        /\ worker[w].region # None => region[worker[w].region] # None
        /\ pc[w] \in {"body", "complete"} => worker[w].pending
  BY DEF IInv, TeamInv
<1> QED
  BY <1>1, <1>2 DEF TeamExact

\* The counter of a region is the number of workers that belong to it, and every
\* worker belongs to a region that is still on its owner's stack: RunBounded cannot
\* return while BoundedWorkerLoop may touch the region.
THEOREM TeamsAreExact == Spec => []TeamExact
BY Invariant, IInvTeams, PTL

LEMMA IInvExclusive == IInv => NoOversubscription
<1> SUFFICES ASSUME IInv PROVE NoOversubscription
  OBVIOUS
<1> USE ThreadFacts
<1>1. depth \in [Threads -> 0 .. MaxDepth] /\ region \in [Regions -> RegionObjects \cup {None}]
  BY DEF IInv, TypeOK
<1>2. ASSUME NEW c \in Callers, NEW i \in 1 .. MaxDepth, region[<<c, i>>] # None
      PROVE  region_mu[region[<<c, i>>].pool] = c
  <2>1. i <= depth[c] /\ depth[c] > 0
    BY <1>1, <1>2 DEF IInv, StackInv
  <2> QED
    BY ZenonT(30), <2>1 DEF IInv, LocalInv, CallerLocal
<1>3. ASSUME NEW r \in Regions, region[r] # None
      PROVE  region[r].participants <= region[r].blocks
  <2>1. region[r].participants \in 1 .. region[r].blocks /\ region[r].blocks \in 1 .. MaxBlocks
    BY <1>1, <1>3 DEF IInv, TeamInv, RegionObjects
  <2> QED
    BY <2>1
<1> QED
  BY <1>2, <1>3 DEF NoOversubscription

\* One thread from outside at a time has regions on a pool, and no region has more
\* participants than blocks.
THEOREM NeverOversubscribed == Spec => []NoOversubscription
BY Invariant, IInvExclusive, PTL

LEMMA IInvStripes == IInv => StripesCover
<1> SUFFICES ASSUME IInv, NEW t \in Threads, pc[t] = "leave", NEW b \in Blocks
             PROVE  runs[<<t, depth[t]>>][b] =
                        IF b < region[<<t, depth[t]>>].blocks THEN 1 ELSE 0
  BY DEF StripesCover
<1> USE ThreadFacts
<1>1. PICK r : r = <<t, depth[t]>>
  OBVIOUS
<1>2. depth[t] \in 1 .. MaxDepth
  BY DEF IInv, TypeOK, StackInv, Joining
<1>3. r \in Regions /\ r[1] = t /\ r[2] = depth[t] /\ region[r] # None
  BY <1>1, <1>2, RegionFacts DEF IInv, StackInv
<1>4. region[r].remaining = 0 /\ region[r].remaining = Cardinality(Team(r))
  BY <1>1, <1>3 DEF IInv, TeamInv
<1>5. Team(r) = {}
  <2>1. IsFiniteSet(Team(r))
    BY FiniteWorkers, FS_Subset DEF Team
  <2> QED
    BY <2>1, <1>4, FS_EmptySet
<1>6. OwnerDone(r)
  BY <1>3 DEF OwnerDone, Joining
<1>7. ASSUME NEW i PROVE MemberDone(r, i)
  BY <1>5 DEF MemberDone, Team
<1>8. runs[r][b] = IF b < region[r].blocks /\ Done(r, b % region[r].participants)
                   THEN 1 ELSE 0
  BY <1>3 DEF IInv, RunsInv
<1>9. Done(r, b % region[r].participants)
  BY <1>6, <1>7 DEF Done
<1> QED
  BY <1>1, <1>8, <1>9

\* When a call of Run is about to return, every block of the region has run exactly
\* once, however many workers were admitted to it.
THEOREM StripesAreCovered == Spec => []StripesCover
BY Invariant, IInvStripes, PTL
=============================================================================
