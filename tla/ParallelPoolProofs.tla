------------------------- MODULE ParallelPoolProofs -------------------------
(***************************************************************************)
(* Proofs about ParallelPool, for every number of workers, callers and     *)
(* calls.  IInv is the inductive invariant; the properties follow from it. *)
(***************************************************************************)
EXTENDS ParallelPool, FiniteSetTheorems, TLAPS

Publishing == {"payload", "activate", "commit"}
MuStates == Publishing \cup {"test", "block"}
RegionStates == {"publish", "return"} \cup Publishing \cup InRegion
Joined == {"read", "run", "finish"}

\* Who holds which mutex, who is flagged as in the pool, and that a region is
\* only opened for two or more blocks that the pool can host.
LockInv ==
    /\ \A c \in Callers : (mu = c) <=> (pc[c] \in MuStates)
    /\ \A c \in Callers : (region_mu = c) <=> (pc[c] \in RegionStates)
    /\ \A c \in Callers : in_pool[c] <=> (pc[c] = "run")
    /\ \A w \in Workers : pc[w] \notin {"unborn", "starting"} => in_pool[w]
    /\ \A t \in Threads : pc[t] # "nested"
    /\ \A c \in Callers : pc[c] \in {"lock"} \cup RegionStates
                             => blocks[c] \in 2 .. (NumWorkers + 1)

\* No call is open while the pool is built or torn down.
LifeInv ==
    /\ owner # "ready" => \A c \in Callers : pc[c] = "idle"
    /\ stop => owner \in {"notify", "join", "gone"}

\* The generation is odd exactly during a publication, or once stopped.
ParityInv ==
    generation % 2 = 1 <=> (stop \/ \E c \in Callers : pc[c] \in Publishing)

\* What the publication holds at each stage of a region.
ContentInv ==
    \A c \in Callers :
        /\ pc[c] \in {"activate", "commit", "return"} \cup InRegion
              => task = c /\ num_blocks = blocks[c]
        /\ pc[c] \in {"commit", "return"} \cup InRegion
              => active_workers = blocks[c] - 1
        /\ pc[c] \in {"activate", "commit"} => remaining = blocks[c] - 1
        /\ pc[c] \in Publishing => \A b \in Blocks : runs[b] = 0

\* The local variables of a worker on the spin path: a generation that was
\* validated against active_workers_ and is still current names a region the
\* worker takes part in and has not joined.
SpinInv ==
    \A w \in Workers :
        /\ last_generation[w] <= generation
        /\ pc[w] \in {"member", "recheck"} =>
              /\ gen[w] <= generation
              /\ gen[w] % 2 = 0
              /\ gen[w] # last_generation[w]
        /\ pc[w] = "recheck" /\ generation = gen[w] => w < active_workers

\* A worker that joined a region joined the open one.
JoinedInv ==
    \A w \in Workers : pc[w] \in Joined =>
        /\ last_generation[w] = generation
        /\ \E c \in Callers :
              /\ pc[c] \in InRegion
              /\ w + 1 < blocks[c]
              /\ pc[w] # "read" => ctx[w] = c /\ limit[w] = blocks[c]

\* last_generation tells whether a worker joined the open region, and with its
\* control state how often its block ran.
RunsInv ==
    \A c \in Callers : pc[c] \in InRegion \cup {"return"} =>
        /\ runs[0] = IF pc[c] = "run" THEN 0 ELSE 1
        /\ \A w \in Workers :
              runs[w + 1] = IF /\ w + 1 < blocks[c]
                               /\ last_generation[w] = generation
                               /\ pc[w] \notin {"read", "run"}
                            THEN 1 ELSE 0

\* Between regions every worker that active_workers_ names has joined the last
\* one, so none can take its payload again.
QuietInv ==
    (~stop /\ \A c \in Callers : pc[c] \notin Publishing \cup InRegion)
        => \A w \in Workers : w < active_workers => last_generation[w] = generation

\* A worker the caller has just notified stays awake until it can join.
WakeInv ==
    \A c \in Callers, w \in Workers :
        pc[c] = "commit" /\ w + 1 < blocks[c] => pc[w] # "asleep"

OnceInv == \A b \in Blocks : runs[b] <= 1

IInv ==
    /\ TypeOK /\ LockInv /\ LifeInv /\ ParityInv /\ ContentInv /\ SpinInv
    /\ JoinedInv /\ RunsInv /\ QuietInv /\ WakeInv /\ OnceInv
    /\ RemainingExact /\ NoSleepingParticipant

-----------------------------------------------------------------------------
(***************************************************************************)
(* Facts about the constants and the control-state function.               *)
(***************************************************************************)

\* Callers and workers are different threads.
LEMMA ThreadKinds ==
    /\ Callers \subseteq Threads
    /\ Workers \subseteq Threads
    /\ \A c \in Callers, w \in Workers : c # w
  BY CallersAssumption, NumWorkersAssumption DEF Threads, Workers

\* Goto moves one thread and leaves the control state of the others alone.
LEMMA GotoMoves ==
    ASSUME NEW S, pc \in [Threads -> S], NEW x \in Threads, NEW l, Goto(x, l)
    PROVE  \A t \in Threads : pc'[t] = IF t = x THEN l ELSE pc[t]
  BY DEF Goto

\* A block number is 0 or the number of a worker plus one.
LEMMA BlockOwner ==
    /\ 0 \in Blocks
    /\ \A w \in Workers : w \in Nat /\ w + 1 \in Blocks /\ w + 1 # 0
    /\ \A b \in Blocks : b # 0 => b - 1 \in Workers /\ (b - 1) + 1 = b
    /\ \A w, v \in Workers : w + 1 = v + 1 => w = v
  BY NumWorkersAssumption DEF Blocks, Workers

\* The facts about types that the arithmetic of the steps needs.
LEMMA Types ==
    ASSUME TypeOK
    PROVE  /\ generation \in Nat
           /\ remaining \in Nat
           /\ \A w \in Workers : gen[w] \in Nat /\ last_generation[w] \in Nat
           /\ \A c \in Callers : blocks[c] \in Nat
           /\ \A b \in Blocks : runs[b] \in Nat
  BY NumWorkersAssumption DEF TypeOK

\* One region at a time.
LEMMA OneRegion ==
    ASSUME LockInv, NEW c \in Callers, NEW d \in Callers, c # d,
           pc[c] \in RegionStates
    PROVE  pc[d] \notin RegionStates
  BY DEF LockInv

\* While a caller has the region lock outside the run of its region, no worker
\* has joined.
LEMMA NoneJoined ==
    ASSUME LockInv, JoinedInv, NEW c \in Callers,
           pc[c] \in RegionStates \ InRegion
    PROVE  \A w \in Workers : pc[w] \notin Joined
  BY OneRegion DEF JoinedInv, RegionStates, InRegion, Publishing

(***************************************************************************)
(* Most steps move threads within a class that the invariant does not tell *)
(* apart: callers outside a region, callers waiting for the join, workers  *)
(* outside a region.                                                       *)
(***************************************************************************)

Outside == {"idle", "inline", "lock", "publish"}
Waiting == {"spin", "wait", "test", "block", "blocked"}
Roaming == {"starting", "top", "spin", "ready", "missed", "load", "member",
            "recheck", "park", "notify", "exited"}

\* The publication and what the workers remember of it.
Kept == <<generation, task, num_blocks, remaining, active_workers, stop,
          last_generation, ctx, limit, runs>>

\* Such steps preserve the invariant once types, locks and life cycle do.
LEMMA QuietMoves ==
    ASSUME IInv, TypeOK', LockInv', LifeInv', SpinInv', UNCHANGED Kept,
           \A c \in Callers :
               \/ pc'[c] = pc[c] /\ blocks'[c] = blocks[c]
               \/ pc[c] \in Outside \cup {"return"} /\ pc'[c] \in Outside
               \/ pc[c] \in Waiting /\ pc'[c] \in Waiting /\ blocks'[c] = blocks[c],
           \A w \in Workers :
               \/ pc'[w] = pc[w]
               \/ pc[w] \notin Joined /\ pc'[w] \in Roaming
    PROVE  IInv'
<1>1. /\ TypeOK /\ LockInv /\ LifeInv /\ ParityInv /\ ContentInv /\ SpinInv
      /\ JoinedInv /\ RunsInv /\ QuietInv /\ WakeInv /\ OnceInv
      /\ RemainingExact /\ NoSleepingParticipant
  BY DEF IInv
<1>2. UNCHANGED <<generation, task, num_blocks, remaining, active_workers, stop,
                  last_generation, ctx, limit, runs>>
  BY DEF Kept
<1> USE DEF Outside, Waiting, Roaming
<1>3. ParityInv'
  BY <1>1, <1>2 DEF ParityInv, Publishing
<1>4. ContentInv'
  BY <1>1, <1>2 DEF ContentInv, Publishing, InRegion
<1>5. SpinInv'
  OBVIOUS
<1>6. JoinedInv'
  BY <1>1, <1>2 DEF JoinedInv, Joined, InRegion
<1>7. RunsInv'
  BY <1>1, <1>2 DEF RunsInv, Joined, InRegion
<1>8. QuietInv'
  BY <1>1, <1>2 DEF QuietInv, Publishing, InRegion
<1>9. WakeInv'
  BY <1>1, <1>2 DEF WakeInv
<1>10. OnceInv'
  BY <1>1, <1>2 DEF OnceInv
<1>11. RemainingExact'
  <2> SUFFICES ASSUME NEW c \in Callers, pc'[c] \in InRegion
               PROVE  remaining = Cardinality({v \in Workers :
                   v + 1 < blocks'[c] /\ (runs[v + 1] = 0 \/ pc'[v] = "finish")})
    BY <1>2 DEF RemainingExact
  <2>1. pc[c] \in InRegion /\ blocks'[c] = blocks[c]
    BY DEF InRegion
  <2>2. {v \in Workers : v + 1 < blocks'[c] /\ (runs[v + 1] = 0 \/ pc'[v] = "finish")}
        = {v \in Workers : v + 1 < blocks[c] /\ (runs[v + 1] = 0 \/ pc[v] = "finish")}
    BY <2>1 DEF Joined
  <2> QED
    BY <1>1, <2>1, <2>2 DEF RemainingExact
<1>12. NoSleepingParticipant'
  BY <1>1, <1>2 DEF NoSleepingParticipant, InRegion
<1> QED
  BY <1>3, <1>4, <1>5, <1>6, <1>7, <1>8, <1>9, <1>10, <1>11, <1>12 DEF IInv

\* The constructor creates a worker.
LEMMA SpawnPreserves ==
    ASSUME IInv, NEW w \in Workers, Spawn(w)
    PROVE  IInv'
<1>1. TypeOK /\ LockInv /\ LifeInv /\ SpinInv
  BY DEF IInv
<1>2. UNCHANGED Kept
  BY DEF Spawn, Kept, publication, lifecycle, locals
<1>3. TypeOK'
  BY <1>1, ThreadKinds, NumWorkersAssumption, MaxCallsAssumption
     DEF Spawn, Goto, Notify, TypeOK, publication, lifecycle, locals, CallerStates, WorkerStates, OwnerStates
<1>4. LockInv'
  BY <1>1, ThreadKinds, CallersAssumption, NumWorkersAssumption
     DEF Spawn, Goto, Notify, TypeOK, LockInv, publication, lifecycle, locals,
         MuStates, RegionStates, Publishing, InRegion
<1>5. LifeInv'
  BY <1>1, ThreadKinds
     DEF Spawn, Goto, Notify, TypeOK, LifeInv, publication, lifecycle, locals
<1>6. SpinInv'
  BY <1>1, ThreadKinds
     DEF Spawn, Goto, Notify, TypeOK, SpinInv, publication, lifecycle, locals
<1> QED
  BY <1>1, <1>2, <1>3, <1>4, <1>5, <1>6, QuietMoves, ThreadKinds
     DEF Spawn, Goto, Notify, TypeOK, Outside, Waiting, Roaming, Joined,
         publication, lifecycle, locals

\* The constructor gives up.
LEMMA SpawnFailsPreserves ==
    ASSUME IInv, SpawnFails
    PROVE  IInv'
<1>1. TypeOK /\ LockInv /\ LifeInv /\ SpinInv
  BY DEF IInv
<1>2. UNCHANGED Kept
  BY DEF SpawnFails, Kept, publication, lifecycle, locals
<1>3. TypeOK'
  BY <1>1, ThreadKinds, NumWorkersAssumption, MaxCallsAssumption
     DEF SpawnFails, Goto, Notify, TypeOK, publication, lifecycle, locals, CallerStates, WorkerStates, OwnerStates
<1>4. LockInv'
  BY <1>1, ThreadKinds, CallersAssumption, NumWorkersAssumption
     DEF SpawnFails, Goto, Notify, TypeOK, LockInv, publication, lifecycle, locals,
         MuStates, RegionStates, Publishing, InRegion
<1>5. LifeInv'
  BY <1>1, ThreadKinds
     DEF SpawnFails, Goto, Notify, TypeOK, LifeInv, publication, lifecycle, locals
<1>6. SpinInv'
  BY <1>1, ThreadKinds
     DEF SpawnFails, Goto, Notify, TypeOK, SpinInv, publication, lifecycle, locals
<1> QED
  BY <1>1, <1>2, <1>3, <1>4, <1>5, <1>6, QuietMoves, ThreadKinds
     DEF SpawnFails, Goto, Notify, TypeOK, Outside, Waiting, Roaming, Joined,
         publication, lifecycle, locals

\* The constructor's wait for its workers ends.
LEMMA AwaitStartedPreserves ==
    ASSUME IInv, AwaitStarted
    PROVE  IInv'
<1>1. TypeOK /\ LockInv /\ LifeInv /\ SpinInv
  BY DEF IInv
<1>2. UNCHANGED Kept
  BY DEF AwaitStarted, Kept, publication, lifecycle, locals
<1>3. TypeOK'
  BY <1>1, ThreadKinds, NumWorkersAssumption, MaxCallsAssumption
     DEF AwaitStarted, Goto, Notify, TypeOK, publication, lifecycle, locals, CallerStates, WorkerStates, OwnerStates
<1>4. LockInv'
  BY <1>1, ThreadKinds, CallersAssumption, NumWorkersAssumption
     DEF AwaitStarted, Goto, Notify, TypeOK, LockInv, publication, lifecycle, locals,
         MuStates, RegionStates, Publishing, InRegion
<1>5. LifeInv'
  BY <1>1, ThreadKinds
     DEF AwaitStarted, Goto, Notify, TypeOK, LifeInv, publication, lifecycle, locals
<1>6. SpinInv'
  BY <1>1, ThreadKinds
     DEF AwaitStarted, Goto, Notify, TypeOK, SpinInv, publication, lifecycle, locals
<1> QED
  BY <1>1, <1>2, <1>3, <1>4, <1>5, <1>6, QuietMoves, ThreadKinds
     DEF AwaitStarted, Goto, Notify, TypeOK, Outside, Waiting, Roaming, Joined,
         publication, lifecycle, locals

\* The destructor starts.
LEMMA DestroyPreserves ==
    ASSUME IInv, Destroy
    PROVE  IInv'
<1>1. TypeOK /\ LockInv /\ LifeInv /\ SpinInv
  BY DEF IInv
<1>2. UNCHANGED Kept
  BY DEF Destroy, Kept, publication, lifecycle, locals
<1>3. TypeOK'
  BY <1>1, ThreadKinds, NumWorkersAssumption, MaxCallsAssumption
     DEF Destroy, Goto, Notify, TypeOK, publication, lifecycle, locals, CallerStates, WorkerStates, OwnerStates
<1>4. LockInv'
  BY <1>1, ThreadKinds, CallersAssumption, NumWorkersAssumption
     DEF Destroy, Goto, Notify, TypeOK, LockInv, publication, lifecycle, locals,
         MuStates, RegionStates, Publishing, InRegion
<1>5. LifeInv'
  BY <1>1, ThreadKinds
     DEF Destroy, Goto, Notify, TypeOK, LifeInv, publication, lifecycle, locals
<1>6. SpinInv'
  BY <1>1, ThreadKinds
     DEF Destroy, Goto, Notify, TypeOK, SpinInv, publication, lifecycle, locals
<1> QED
  BY <1>1, <1>2, <1>3, <1>4, <1>5, <1>6, QuietMoves, ThreadKinds
     DEF Destroy, Goto, Notify, TypeOK, Outside, Waiting, Roaming, Joined,
         publication, lifecycle, locals

\* StopAndJoin wakes the workers.
LEMMA NotifyAllPreserves ==
    ASSUME IInv, NotifyAll
    PROVE  IInv'
<1>1. TypeOK /\ LockInv /\ LifeInv /\ SpinInv
  BY DEF IInv
<1>2. UNCHANGED Kept
  BY DEF NotifyAll, Kept, publication, lifecycle, locals
<1>3. TypeOK'
  BY <1>1, ThreadKinds, NumWorkersAssumption, MaxCallsAssumption
     DEF NotifyAll, Goto, Notify, TypeOK, publication, lifecycle, locals, CallerStates, WorkerStates, OwnerStates
<1>4. LockInv'
  BY <1>1, ThreadKinds, CallersAssumption, NumWorkersAssumption
     DEF NotifyAll, Goto, Notify, TypeOK, LockInv, publication, lifecycle, locals,
         MuStates, RegionStates, Publishing, InRegion
<1>5. LifeInv'
  BY <1>1, ThreadKinds
     DEF NotifyAll, Goto, Notify, TypeOK, LifeInv, publication, lifecycle, locals
<1>6. SpinInv'
  BY <1>1, ThreadKinds
     DEF NotifyAll, Goto, Notify, TypeOK, SpinInv, publication, lifecycle, locals
<1> QED
  BY <1>1, <1>2, <1>3, <1>4, <1>5, <1>6, QuietMoves, ThreadKinds
     DEF NotifyAll, Goto, Notify, TypeOK, Outside, Waiting, Roaming, Joined,
         publication, lifecycle, locals

\* StopAndJoin has joined the workers.
LEMMA JoinPreserves ==
    ASSUME IInv, Join
    PROVE  IInv'
<1>1. TypeOK /\ LockInv /\ LifeInv /\ SpinInv
  BY DEF IInv
<1>2. UNCHANGED Kept
  BY DEF Join, Kept, publication, lifecycle, locals
<1>3. TypeOK'
  BY <1>1, ThreadKinds, NumWorkersAssumption, MaxCallsAssumption
     DEF Join, Goto, Notify, TypeOK, publication, lifecycle, locals, CallerStates, WorkerStates, OwnerStates
<1>4. LockInv'
  BY <1>1, ThreadKinds, CallersAssumption, NumWorkersAssumption
     DEF Join, Goto, Notify, TypeOK, LockInv, publication, lifecycle, locals,
         MuStates, RegionStates, Publishing, InRegion
<1>5. LifeInv'
  BY <1>1, ThreadKinds
     DEF Join, Goto, Notify, TypeOK, LifeInv, publication, lifecycle, locals
<1>6. SpinInv'
  BY <1>1, ThreadKinds
     DEF Join, Goto, Notify, TypeOK, SpinInv, publication, lifecycle, locals
<1> QED
  BY <1>1, <1>2, <1>3, <1>4, <1>5, <1>6, QuietMoves, ThreadKinds
     DEF Join, Goto, Notify, TypeOK, Outside, Waiting, Roaming, Joined,
         publication, lifecycle, locals

\* A call of Run begins.
LEMMA CallPreserves ==
    ASSUME IInv, NEW c \in Callers, NEW n \in 0 .. (NumWorkers + 2), Call(c, n)
    PROVE  IInv'
<1>1. TypeOK /\ LockInv /\ LifeInv /\ SpinInv
  BY DEF IInv
<1>2. UNCHANGED Kept
  BY DEF Call, Kept, publication, lifecycle, locals
<1>3. TypeOK'
  BY <1>1, ThreadKinds, NumWorkersAssumption, MaxCallsAssumption
     DEF Call, Goto, Notify, TypeOK, publication, lifecycle, locals, CallerStates, WorkerStates, OwnerStates
<1>4. LockInv'
  BY <1>1, ThreadKinds, CallersAssumption, NumWorkersAssumption
     DEF Call, Goto, Notify, TypeOK, LockInv, publication, lifecycle, locals,
         MuStates, RegionStates, Publishing, InRegion
<1>5. LifeInv'
  BY <1>1, ThreadKinds
     DEF Call, Goto, Notify, TypeOK, LifeInv, publication, lifecycle, locals
<1>6. SpinInv'
  BY <1>1, ThreadKinds
     DEF Call, Goto, Notify, TypeOK, SpinInv, publication, lifecycle, locals
<1> QED
  BY <1>1, <1>2, <1>3, <1>4, <1>5, <1>6, QuietMoves, ThreadKinds
     DEF Call, Goto, Notify, TypeOK, Outside, Waiting, Roaming, Joined,
         publication, lifecycle, locals

\* An inline call.
LEMMA RunInlinePreserves ==
    ASSUME IInv, NEW c \in Callers, RunInline(c)
    PROVE  IInv'
<1>1. TypeOK /\ LockInv /\ LifeInv /\ SpinInv
  BY DEF IInv
<1>2. UNCHANGED Kept
  BY DEF RunInline, Kept, publication, lifecycle, locals
<1>3. TypeOK'
  BY <1>1, ThreadKinds, NumWorkersAssumption, MaxCallsAssumption
     DEF RunInline, Goto, Notify, TypeOK, publication, lifecycle, locals, CallerStates, WorkerStates, OwnerStates
<1>4. LockInv'
  BY <1>1, ThreadKinds, CallersAssumption, NumWorkersAssumption
     DEF RunInline, Goto, Notify, TypeOK, LockInv, publication, lifecycle, locals,
         MuStates, RegionStates, Publishing, InRegion
<1>5. LifeInv'
  BY <1>1, ThreadKinds
     DEF RunInline, Goto, Notify, TypeOK, LifeInv, publication, lifecycle, locals
<1>6. SpinInv'
  BY <1>1, ThreadKinds
     DEF RunInline, Goto, Notify, TypeOK, SpinInv, publication, lifecycle, locals
<1> QED
  BY <1>1, <1>2, <1>3, <1>4, <1>5, <1>6, QuietMoves, ThreadKinds
     DEF RunInline, Goto, Notify, TypeOK, Outside, Waiting, Roaming, Joined,
         publication, lifecycle, locals

\* A caller gets the region lock.
LEMMA LockRegionPreserves ==
    ASSUME IInv, NEW c \in Callers, LockRegion(c)
    PROVE  IInv'
<1>1. TypeOK /\ LockInv /\ LifeInv /\ SpinInv
  BY DEF IInv
<1>2. UNCHANGED Kept
  BY DEF LockRegion, Kept, publication, lifecycle, locals
<1>3. TypeOK'
  BY <1>1, ThreadKinds, NumWorkersAssumption, MaxCallsAssumption
     DEF LockRegion, Goto, Notify, TypeOK, publication, lifecycle, locals, CallerStates, WorkerStates, OwnerStates
<1>4. LockInv'
  BY <1>1, ThreadKinds, CallersAssumption, NumWorkersAssumption
     DEF LockRegion, Goto, Notify, TypeOK, LockInv, publication, lifecycle, locals,
         MuStates, RegionStates, Publishing, InRegion
<1>5. LifeInv'
  BY <1>1, ThreadKinds
     DEF LockRegion, Goto, Notify, TypeOK, LifeInv, publication, lifecycle, locals
<1>6. SpinInv'
  BY <1>1, ThreadKinds
     DEF LockRegion, Goto, Notify, TypeOK, SpinInv, publication, lifecycle, locals
<1> QED
  BY <1>1, <1>2, <1>3, <1>4, <1>5, <1>6, QuietMoves, ThreadKinds
     DEF LockRegion, Goto, Notify, TypeOK, Outside, Waiting, Roaming, Joined,
         publication, lifecycle, locals

\* A caller locks mu_ to wait.
LEMMA LockForWaitPreserves ==
    ASSUME IInv, NEW c \in Callers, LockForWait(c)
    PROVE  IInv'
<1>1. TypeOK /\ LockInv /\ LifeInv /\ SpinInv
  BY DEF IInv
<1>2. UNCHANGED Kept
  BY DEF LockForWait, Kept, publication, lifecycle, locals
<1>3. TypeOK'
  BY <1>1, ThreadKinds, NumWorkersAssumption, MaxCallsAssumption
     DEF LockForWait, Goto, Notify, TypeOK, publication, lifecycle, locals, CallerStates, WorkerStates, OwnerStates
<1>4. LockInv'
  BY <1>1, ThreadKinds, CallersAssumption, NumWorkersAssumption
     DEF LockForWait, Goto, Notify, TypeOK, LockInv, publication, lifecycle, locals,
         MuStates, RegionStates, Publishing, InRegion
<1>5. LifeInv'
  BY <1>1, ThreadKinds
     DEF LockForWait, Goto, Notify, TypeOK, LifeInv, publication, lifecycle, locals
<1>6. SpinInv'
  BY <1>1, ThreadKinds
     DEF LockForWait, Goto, Notify, TypeOK, SpinInv, publication, lifecycle, locals
<1> QED
  BY <1>1, <1>2, <1>3, <1>4, <1>5, <1>6, QuietMoves, ThreadKinds
     DEF LockForWait, Goto, Notify, TypeOK, Outside, Waiting, Roaming, Joined,
         publication, lifecycle, locals

\* A caller blocks on cv_done_.
LEMMA BlockOnDonePreserves ==
    ASSUME IInv, NEW c \in Callers, BlockOnDone(c)
    PROVE  IInv'
<1>1. TypeOK /\ LockInv /\ LifeInv /\ SpinInv
  BY DEF IInv
<1>2. UNCHANGED Kept
  BY DEF BlockOnDone, Kept, publication, lifecycle, locals
<1>3. TypeOK'
  BY <1>1, ThreadKinds, NumWorkersAssumption, MaxCallsAssumption
     DEF BlockOnDone, Goto, Notify, TypeOK, publication, lifecycle, locals, CallerStates, WorkerStates, OwnerStates
<1>4. LockInv'
  BY <1>1, ThreadKinds, CallersAssumption, NumWorkersAssumption
     DEF BlockOnDone, Goto, Notify, TypeOK, LockInv, publication, lifecycle, locals,
         MuStates, RegionStates, Publishing, InRegion
<1>5. LifeInv'
  BY <1>1, ThreadKinds
     DEF BlockOnDone, Goto, Notify, TypeOK, LifeInv, publication, lifecycle, locals
<1>6. SpinInv'
  BY <1>1, ThreadKinds
     DEF BlockOnDone, Goto, Notify, TypeOK, SpinInv, publication, lifecycle, locals
<1> QED
  BY <1>1, <1>2, <1>3, <1>4, <1>5, <1>6, QuietMoves, ThreadKinds
     DEF BlockOnDone, Goto, Notify, TypeOK, Outside, Waiting, Roaming, Joined,
         publication, lifecycle, locals

\* A caller leaves RunErased.
LEMMA ReturnPreserves ==
    ASSUME IInv, NEW c \in Callers, Return(c)
    PROVE  IInv'
<1>1. TypeOK /\ LockInv /\ LifeInv /\ SpinInv
  BY DEF IInv
<1>2. UNCHANGED Kept
  BY DEF Return, Kept, publication, lifecycle, locals
<1>3. TypeOK'
  BY <1>1, ThreadKinds, NumWorkersAssumption, MaxCallsAssumption
     DEF Return, Goto, Notify, TypeOK, publication, lifecycle, locals, CallerStates, WorkerStates, OwnerStates
<1>4. LockInv'
  BY <1>1, ThreadKinds, CallersAssumption, NumWorkersAssumption
     DEF Return, Goto, Notify, TypeOK, LockInv, publication, lifecycle, locals,
         MuStates, RegionStates, Publishing, InRegion
<1>5. LifeInv'
  BY <1>1, ThreadKinds
     DEF Return, Goto, Notify, TypeOK, LifeInv, publication, lifecycle, locals
<1>6. SpinInv'
  BY <1>1, ThreadKinds
     DEF Return, Goto, Notify, TypeOK, SpinInv, publication, lifecycle, locals
<1> QED
  BY <1>1, <1>2, <1>3, <1>4, <1>5, <1>6, QuietMoves, ThreadKinds
     DEF Return, Goto, Notify, TypeOK, Outside, Waiting, Roaming, Joined,
         publication, lifecycle, locals

\* A worker has run its startup callback.
LEMMA StartWorkerPreserves ==
    ASSUME IInv, NEW w \in Workers, NEW ok \in BOOLEAN, StartWorker(w, ok)
    PROVE  IInv'
<1>1. TypeOK /\ LockInv /\ LifeInv /\ SpinInv
  BY DEF IInv
<1>2. UNCHANGED Kept
  BY DEF StartWorker, Kept, publication, lifecycle, locals
<1>3. TypeOK'
  BY <1>1, ThreadKinds, NumWorkersAssumption, MaxCallsAssumption
     DEF StartWorker, Goto, Notify, TypeOK, publication, lifecycle, locals, CallerStates, WorkerStates, OwnerStates
<1>4. LockInv'
  BY <1>1, ThreadKinds, CallersAssumption, NumWorkersAssumption
     DEF StartWorker, Goto, Notify, TypeOK, LockInv, publication, lifecycle, locals,
         MuStates, RegionStates, Publishing, InRegion
<1>5. LifeInv'
  BY <1>1, ThreadKinds
     DEF StartWorker, Goto, Notify, TypeOK, LifeInv, publication, lifecycle, locals
<1>6. SpinInv'
  BY <1>1, ThreadKinds
     DEF StartWorker, Goto, Notify, TypeOK, SpinInv, publication, lifecycle, locals
<1> QED
  BY <1>1, <1>2, <1>3, <1>4, <1>5, <1>6, QuietMoves, ThreadKinds
     DEF StartWorker, Goto, Notify, TypeOK, Outside, Waiting, Roaming, Joined,
         publication, lifecycle, locals

\* A worker decides whether to spin.
LEMMA LoopTopPreserves ==
    ASSUME IInv, NEW w \in Workers, LoopTop(w)
    PROVE  IInv'
<1>1. TypeOK /\ LockInv /\ LifeInv /\ SpinInv
  BY DEF IInv
<1>2. UNCHANGED Kept
  BY DEF LoopTop, Kept, publication, lifecycle, locals
<1>3. TypeOK'
  BY <1>1, ThreadKinds, NumWorkersAssumption, MaxCallsAssumption
     DEF LoopTop, Goto, Notify, TypeOK, publication, lifecycle, locals, CallerStates, WorkerStates, OwnerStates
<1>4. LockInv'
  BY <1>1, ThreadKinds, CallersAssumption, NumWorkersAssumption
     DEF LoopTop, Goto, Notify, TypeOK, LockInv, publication, lifecycle, locals,
         MuStates, RegionStates, Publishing, InRegion
<1>5. LifeInv'
  BY <1>1, ThreadKinds
     DEF LoopTop, Goto, Notify, TypeOK, LifeInv, publication, lifecycle, locals
<1>6. SpinInv'
  BY <1>1, ThreadKinds
     DEF LoopTop, Goto, Notify, TypeOK, SpinInv, publication, lifecycle, locals
<1> QED
  BY <1>1, <1>2, <1>3, <1>4, <1>5, <1>6, QuietMoves, ThreadKinds
     DEF LoopTop, Goto, Notify, TypeOK, Outside, Waiting, Roaming, Joined,
         publication, lifecycle, locals

\* A worker stops spinning.
LEMMA SpinForWorkPreserves ==
    ASSUME IInv, NEW w \in Workers, SpinForWork(w)
    PROVE  IInv'
<1>1. TypeOK /\ LockInv /\ LifeInv /\ SpinInv
  BY DEF IInv
<1>2. UNCHANGED Kept
  BY DEF SpinForWork, Kept, publication, lifecycle, locals
<1>3. TypeOK'
  BY <1>1, ThreadKinds, NumWorkersAssumption, MaxCallsAssumption
     DEF SpinForWork, Goto, Notify, TypeOK, publication, lifecycle, locals, CallerStates, WorkerStates, OwnerStates
<1>4. LockInv'
  BY <1>1, ThreadKinds, CallersAssumption, NumWorkersAssumption
     DEF SpinForWork, Goto, Notify, TypeOK, LockInv, publication, lifecycle, locals,
         MuStates, RegionStates, Publishing, InRegion
<1>5. LifeInv'
  BY <1>1, ThreadKinds
     DEF SpinForWork, Goto, Notify, TypeOK, LifeInv, publication, lifecycle, locals
<1>6. SpinInv'
  BY <1>1, ThreadKinds
     DEF SpinForWork, Goto, Notify, TypeOK, SpinInv, publication, lifecycle, locals
<1> QED
  BY <1>1, <1>2, <1>3, <1>4, <1>5, <1>6, QuietMoves, ThreadKinds
     DEF SpinForWork, Goto, Notify, TypeOK, Outside, Waiting, Roaming, Joined,
         publication, lifecycle, locals

\* A worker looks at stop_.
LEMMA CheckStopPreserves ==
    ASSUME IInv, NEW w \in Workers, CheckStop(w)
    PROVE  IInv'
<1>1. TypeOK /\ LockInv /\ LifeInv /\ SpinInv
  BY DEF IInv
<1>2. UNCHANGED Kept
  BY DEF CheckStop, Kept, publication, lifecycle, locals
<1>3. TypeOK'
  BY <1>1, ThreadKinds, NumWorkersAssumption, MaxCallsAssumption
     DEF CheckStop, Goto, Notify, TypeOK, publication, lifecycle, locals, CallerStates, WorkerStates, OwnerStates
<1>4. LockInv'
  BY <1>1, ThreadKinds, CallersAssumption, NumWorkersAssumption
     DEF CheckStop, Goto, Notify, TypeOK, LockInv, publication, lifecycle, locals,
         MuStates, RegionStates, Publishing, InRegion
<1>5. LifeInv'
  BY <1>1, ThreadKinds
     DEF CheckStop, Goto, Notify, TypeOK, LifeInv, publication, lifecycle, locals
<1>6. SpinInv'
  BY <1>1, ThreadKinds
     DEF CheckStop, Goto, Notify, TypeOK, SpinInv, publication, lifecycle, locals
<1> QED
  BY <1>1, <1>2, <1>3, <1>4, <1>5, <1>6, QuietMoves, ThreadKinds
     DEF CheckStop, Goto, Notify, TypeOK, Outside, Waiting, Roaming, Joined,
         publication, lifecycle, locals

\* The first load of generation_ on the spin path.
LEMMA LoadGenerationPreserves ==
    ASSUME IInv, NEW w \in Workers, LoadGeneration(w)
    PROVE  IInv'
<1>1. TypeOK /\ LockInv /\ LifeInv /\ SpinInv
  BY DEF IInv
<1>2. UNCHANGED Kept
  BY DEF LoadGeneration, Kept, publication, lifecycle, locals
<1>3. TypeOK'
  BY <1>1, ThreadKinds, NumWorkersAssumption, MaxCallsAssumption
     DEF LoadGeneration, Goto, Notify, TypeOK, publication, lifecycle, locals, CallerStates, WorkerStates, OwnerStates
<1>4. LockInv'
  BY <1>1, ThreadKinds, CallersAssumption, NumWorkersAssumption
     DEF LoadGeneration, Goto, Notify, TypeOK, LockInv, publication, lifecycle, locals,
         MuStates, RegionStates, Publishing, InRegion
<1>5. LifeInv'
  BY <1>1, ThreadKinds
     DEF LoadGeneration, Goto, Notify, TypeOK, LifeInv, publication, lifecycle, locals
<1>6. SpinInv'
  BY <1>1, ThreadKinds
     DEF LoadGeneration, Goto, Notify, TypeOK, SpinInv, publication, lifecycle, locals
<1> QED
  BY <1>1, <1>2, <1>3, <1>4, <1>5, <1>6, QuietMoves, ThreadKinds
     DEF LoadGeneration, Goto, Notify, TypeOK, Outside, Waiting, Roaming, Joined,
         publication, lifecycle, locals

\* The load of active_workers_ on the spin path.
LEMMA LoadActivePreserves ==
    ASSUME IInv, NEW w \in Workers, LoadActive(w)
    PROVE  IInv'
<1>1. TypeOK /\ LockInv /\ LifeInv /\ SpinInv
  BY DEF IInv
<1>2. UNCHANGED Kept
  BY DEF LoadActive, Kept, publication, lifecycle, locals
<1>3. TypeOK'
  BY <1>1, ThreadKinds, NumWorkersAssumption, MaxCallsAssumption
     DEF LoadActive, Goto, Notify, TypeOK, publication, lifecycle, locals, CallerStates, WorkerStates, OwnerStates
<1>4. LockInv'
  BY <1>1, ThreadKinds, CallersAssumption, NumWorkersAssumption
     DEF LoadActive, Goto, Notify, TypeOK, LockInv, publication, lifecycle, locals,
         MuStates, RegionStates, Publishing, InRegion
<1>5. LifeInv'
  BY <1>1, ThreadKinds
     DEF LoadActive, Goto, Notify, TypeOK, LifeInv, publication, lifecycle, locals
<1>6. SpinInv'
  BY <1>1, ThreadKinds, BlockOwner, NumWorkersAssumption
     DEF LoadActive, Goto, Notify, TypeOK, SpinInv, publication, lifecycle, locals
<1> QED
  BY <1>1, <1>2, <1>3, <1>4, <1>5, <1>6, QuietMoves, ThreadKinds
     DEF LoadActive, Goto, Notify, TypeOK, Outside, Waiting, Roaming, Joined,
         publication, lifecycle, locals

\* The last worker wakes the caller.
LEMMA NotifyDonePreserves ==
    ASSUME IInv, NEW w \in Workers, NotifyDone(w)
    PROVE  IInv'
<1>1. TypeOK /\ LockInv /\ LifeInv /\ SpinInv
  BY DEF IInv
<1>2. UNCHANGED Kept
  BY DEF NotifyDone, Kept, publication, lifecycle, locals
<1>3. TypeOK'
  BY <1>1, ThreadKinds, NumWorkersAssumption, MaxCallsAssumption
     DEF NotifyDone, Goto, Notify, TypeOK, publication, lifecycle, locals, CallerStates, WorkerStates, OwnerStates
<1>4. LockInv'
  BY <1>1, ThreadKinds, CallersAssumption, NumWorkersAssumption
     DEF NotifyDone, Goto, Notify, TypeOK, LockInv, publication, lifecycle, locals,
         MuStates, RegionStates, Publishing, InRegion
<1>5. LifeInv'
  BY <1>1, ThreadKinds
     DEF NotifyDone, Goto, Notify, TypeOK, LifeInv, publication, lifecycle, locals
<1>6. SpinInv'
  BY <1>1, ThreadKinds
     DEF NotifyDone, Goto, Notify, TypeOK, SpinInv, publication, lifecycle, locals
<1> QED
  BY <1>1, <1>2, <1>3, <1>4, <1>5, <1>6, QuietMoves, ThreadKinds
     DEF NotifyDone, Goto, Notify, TypeOK, Outside, Waiting, Roaming, Joined,
         publication, lifecycle, locals, WorkerStates

\* The publication begins: the generation becomes odd, so a generation loaded
\* before can no longer be confirmed.
LEMMA BeginPublicationPreserves ==
    ASSUME IInv, NEW c \in Callers, BeginPublication(c)
    PROVE  IInv'
<1>1. /\ TypeOK /\ LockInv /\ LifeInv /\ ParityInv /\ ContentInv /\ SpinInv
      /\ JoinedInv /\ RunsInv /\ QuietInv /\ WakeInv /\ OnceInv
      /\ RemainingExact /\ NoSleepingParticipant
  BY DEF IInv
<1>2. /\ \A d \in Callers : pc'[d] = IF d = c THEN "payload" ELSE pc[d]
      /\ \A w \in Workers : pc'[w] = pc[w]
  BY <1>1, GotoMoves, ThreadKinds DEF TypeOK, BeginPublication
<1>3. /\ pc[c] = "publish" /\ mu = NoOne /\ mu' = c
      /\ generation' = generation + 1 /\ runs' = [b \in Blocks |-> 0]
      /\ UNCHANGED <<task, num_blocks, remaining, active_workers, stop,
                     region_mu, owner, in_pool, blocks, gen, last_generation,
                     ctx, limit>>
  BY DEF BeginPublication, lifecycle, locals
<1>4. /\ \A d \in Callers : d # c => pc[d] \notin RegionStates
      /\ \A w \in Workers : pc[w] \notin Joined
  BY <1>1, <1>3, OneRegion, NoneJoined DEF RegionStates, Publishing, InRegion
<1>5. /\ generation \in Nat
      /\ \A w \in Workers : w \in Nat /\ gen[w] \in Nat /\ last_generation[w] \in Nat
  BY <1>1, Types, BlockOwner
<1>6. TypeOK'
  BY <1>1, ThreadKinds, NumWorkersAssumption
     DEF BeginPublication, Goto, TypeOK, publication, lifecycle, locals, CallerStates
<1>7. LockInv'
  BY <1>1, <1>2, <1>3, ThreadKinds, CallersAssumption
     DEF LockInv, Threads, MuStates, RegionStates, Publishing, InRegion
<1>8. LifeInv'
  BY <1>1, <1>2, <1>3 DEF LifeInv
<1>9. ParityInv'
  <2>1. generation % 2 = 0
    <3>1. ~stop
      BY <1>1, <1>3 DEF LifeInv
    <3>2. \A d \in Callers : pc[d] \notin Publishing
      BY <1>3, <1>4 DEF RegionStates, Publishing
    <3> QED
      BY <1>1, <1>5, <3>1, <3>2 DEF ParityInv
  <2>2. generation' % 2 = 1
    BY <1>3, <1>5, <2>1
  <2> QED
    BY <1>2, <2>2 DEF ParityInv, Publishing
<1>10. ContentInv'
  BY <1>1, <1>2, <1>3, <1>4
     DEF ContentInv, RegionStates, Publishing, InRegion
<1>11. SpinInv'
  BY <1>1, <1>2, <1>3, <1>5 DEF SpinInv
<1>12. JoinedInv'
  BY <1>2, <1>4 DEF JoinedInv
<1>13. RunsInv'
  BY <1>2, <1>4 DEF RunsInv, RegionStates, Publishing, InRegion
<1>14. QuietInv'
  BY <1>2 DEF QuietInv, Publishing
<1>15. WakeInv'
  BY <1>2, <1>4 DEF WakeInv, RegionStates, Publishing
<1>16. OnceInv'
  BY <1>3 DEF OnceInv
<1>17. RemainingExact'
  BY <1>2, <1>4 DEF RemainingExact, RegionStates, InRegion
<1>18. NoSleepingParticipant'
  BY <1>2, <1>4 DEF NoSleepingParticipant, RegionStates, InRegion
<1> QED
  BY <1>6, <1>7, <1>8, <1>9, <1>10, <1>11, <1>12, <1>13, <1>14,
     <1>15, <1>16, <1>17, <1>18 DEF IInv

\* The payload is written while no worker has joined.
LEMMA WritePayloadPreserves ==
    ASSUME IInv, NEW c \in Callers, WritePayload(c)
    PROVE  IInv'
<1>1. /\ TypeOK /\ LockInv /\ LifeInv /\ ParityInv /\ ContentInv /\ SpinInv
      /\ JoinedInv /\ RunsInv /\ QuietInv /\ WakeInv /\ OnceInv
      /\ RemainingExact /\ NoSleepingParticipant
  BY DEF IInv
<1>2. /\ \A d \in Callers : pc'[d] = IF d = c THEN "activate" ELSE pc[d]
      /\ \A w \in Workers : pc'[w] = pc[w]
  BY <1>1, GotoMoves, ThreadKinds DEF TypeOK, WritePayload
<1>3. /\ pc[c] = "payload" /\ task' = c /\ num_blocks' = blocks[c]
      /\ remaining' = blocks[c] - 1
      /\ UNCHANGED <<generation, active_workers, stop, mu, region_mu, owner,
                     in_pool, blocks, gen, last_generation, ctx, limit, runs>>
  BY DEF WritePayload, lifecycle, locals
<1>4. /\ \A d \in Callers : d # c => pc[d] \notin RegionStates
      /\ \A w \in Workers : pc[w] \notin Joined
  BY <1>1, <1>3, OneRegion, NoneJoined DEF RegionStates, Publishing, InRegion
<1>5. /\ generation \in Nat
      /\ \A w \in Workers : w \in Nat /\ gen[w] \in Nat /\ last_generation[w] \in Nat
  BY <1>1, Types, BlockOwner
<1>6. TypeOK'
  <2>1. blocks[c] \in 2 .. (NumWorkers + 1)
    BY <1>1, <1>3 DEF LockInv, RegionStates, Publishing
  <2>2. num_blocks' \in 0 .. (NumWorkers + 1) /\ remaining' \in 0 .. NumWorkers
    BY <1>3, <2>1, NumWorkersAssumption
  <2> QED
    BY <1>1, <2>2, ThreadKinds
       DEF WritePayload, Goto, TypeOK, publication, lifecycle, locals, CallerStates
<1>7. LockInv'
  BY <1>1, <1>2, <1>3, ThreadKinds
     DEF LockInv, Threads, MuStates, RegionStates, Publishing, InRegion
<1>8. LifeInv'
  BY <1>1, <1>2, <1>3 DEF LifeInv
<1>9. ParityInv'
  BY <1>1, <1>2, <1>3 DEF ParityInv, Publishing
<1>10. ContentInv'
  BY <1>1, <1>2, <1>3, <1>4
     DEF ContentInv, RegionStates, Publishing, InRegion
<1>11. SpinInv'
  BY <1>1, <1>2, <1>3 DEF SpinInv
<1>12. JoinedInv'
  BY <1>2, <1>4 DEF JoinedInv
<1>13. RunsInv'
  BY <1>2, <1>4 DEF RunsInv, RegionStates, Publishing, InRegion
<1>14. QuietInv'
  BY <1>2 DEF QuietInv, Publishing
<1>15. WakeInv'
  BY <1>2, <1>4 DEF WakeInv, RegionStates, Publishing
<1>16. OnceInv'
  BY <1>1, <1>3 DEF OnceInv
<1>17. RemainingExact'
  BY <1>2, <1>4 DEF RemainingExact, RegionStates, InRegion
<1>18. NoSleepingParticipant'
  BY <1>2, <1>4 DEF NoSleepingParticipant, RegionStates, InRegion
<1> QED
  BY <1>6, <1>7, <1>8, <1>9, <1>10, <1>11, <1>12, <1>13, <1>14,
     <1>15, <1>16, <1>17, <1>18 DEF IInv

\* The participating workers are made active and woken.
LEMMA ActivatePreserves ==
    ASSUME IInv, NEW c \in Callers, Activate(c)
    PROVE  IInv'
<1>1. /\ TypeOK /\ LockInv /\ LifeInv /\ ParityInv /\ ContentInv /\ SpinInv
      /\ JoinedInv /\ RunsInv /\ QuietInv /\ WakeInv /\ OnceInv
      /\ RemainingExact /\ NoSleepingParticipant
  BY DEF IInv
<1>2. /\ \A d \in Callers : pc'[d] = IF d = c THEN "commit" ELSE pc[d]
      /\ \A w \in Workers : pc'[w] = IF w \in 0 .. (blocks[c] - 2) /\ pc[w] = "asleep"
                                      THEN "park" ELSE pc[w]
  BY <1>1, ThreadKinds DEF TypeOK, Activate, Notify, CallerStates
<1>3. /\ pc[c] = "activate" /\ active_workers' = blocks[c] - 1
      /\ UNCHANGED <<generation, task, num_blocks, remaining, stop, mu,
                     region_mu, owner, in_pool, blocks, gen, last_generation,
                     ctx, limit, runs>>
  BY DEF Activate, lifecycle, locals
<1>4. /\ \A d \in Callers : d # c => pc[d] \notin RegionStates
      /\ \A w \in Workers : pc[w] \notin Joined
  BY <1>1, <1>3, OneRegion, NoneJoined DEF RegionStates, Publishing, InRegion
<1>5. /\ generation \in Nat
      /\ \A w \in Workers : w \in Nat /\ gen[w] \in Nat /\ last_generation[w] \in Nat
  BY <1>1, Types, BlockOwner
<1>6. TypeOK'
  <2>1. blocks[c] \in 2 .. (NumWorkers + 1)
    BY <1>1, <1>3 DEF LockInv, RegionStates, Publishing
  <2>2. active_workers' \in 0 .. NumWorkers
    BY <1>3, <2>1, NumWorkersAssumption
  <2>3. pc' \in [Threads -> CallerStates \cup WorkerStates]
    BY <1>1, ThreadKinds DEF Activate, Notify, TypeOK, CallerStates, WorkerStates
  <2>4. /\ \A d \in Callers : pc'[d] \in CallerStates
        /\ \A w \in Workers : pc'[w] \in WorkerStates
    BY <1>1, <1>2 DEF TypeOK, CallerStates, WorkerStates
  <2> QED
    BY <1>1, <2>2, <2>3, <2>4 DEF Activate, TypeOK, lifecycle, locals
<1>7. LockInv'
  <2>1. \A w \in Workers : /\ pc'[w] # "nested"
                           /\ pc'[w] \in {"unborn", "starting"} => pc'[w] = pc[w]
    BY <1>1, <1>2, ThreadKinds DEF LockInv
  <2> QED
    BY <1>1, <1>2, <1>3, <2>1, ThreadKinds
       DEF LockInv, Threads, MuStates, RegionStates, Publishing, InRegion
<1>8. LifeInv'
  BY <1>1, <1>2, <1>3 DEF LifeInv
<1>9. ParityInv'
  BY <1>1, <1>2, <1>3 DEF ParityInv, Publishing
<1>10. ContentInv'
  BY <1>1, <1>2, <1>3, <1>4
     DEF ContentInv, RegionStates, Publishing, InRegion
<1>11. SpinInv'
  <2>1. generation % 2 = 1
    BY <1>1, <1>3 DEF ParityInv, Publishing
  <2>2. \A w \in Workers : pc[w] = "recheck" => gen[w] # generation
    BY <1>1, <1>5, <2>1 DEF SpinInv
  <2> QED
    BY <1>1, <1>2, <1>3, <2>2 DEF SpinInv
<1>12. JoinedInv'
  BY <1>2, <1>4 DEF JoinedInv, Joined
<1>13. RunsInv'
  BY <1>2, <1>4 DEF RunsInv, RegionStates, Publishing, InRegion
<1>14. QuietInv'
  BY <1>2 DEF QuietInv, Publishing
<1>15. WakeInv'
  <2> SUFFICES ASSUME NEW w \in Workers, w + 1 < blocks[c]
               PROVE  pc'[w] # "asleep"
    BY <1>2, <1>3, <1>4 DEF WakeInv, RegionStates, Publishing
  <2>1. w \in 0 .. (blocks[c] - 2)
    BY <1>1, <1>5, Types
  <2> QED
    BY <1>2, <2>1
<1>16. OnceInv'
  BY <1>1, <1>3 DEF OnceInv
<1>17. RemainingExact'
  BY <1>2, <1>4 DEF RemainingExact, RegionStates, InRegion
<1>18. NoSleepingParticipant'
  BY <1>2, <1>4 DEF NoSleepingParticipant, RegionStates, InRegion
<1> QED
  BY <1>6, <1>7, <1>8, <1>9, <1>10, <1>11, <1>12, <1>13, <1>14,
     <1>15, <1>16, <1>17, <1>18 DEF IInv

\* The region opens: no participant has joined it yet and none is asleep.
LEMMA EndPublicationPreserves ==
    ASSUME IInv, NEW c \in Callers, EndPublication(c)
    PROVE  IInv'
<1>1. /\ TypeOK /\ LockInv /\ LifeInv /\ ParityInv /\ ContentInv /\ SpinInv
      /\ JoinedInv /\ RunsInv /\ QuietInv /\ WakeInv /\ OnceInv
      /\ RemainingExact /\ NoSleepingParticipant
  BY DEF IInv
<1>2. /\ \A d \in Callers : pc'[d] = IF d = c THEN "run" ELSE pc[d]
      /\ \A w \in Workers : pc'[w] = pc[w]
  BY <1>1, GotoMoves, ThreadKinds DEF TypeOK, EndPublication
<1>3. /\ pc[c] = "commit" /\ generation' = generation + 1 /\ mu' = NoOne
      /\ in_pool' = [in_pool EXCEPT ![c] = TRUE]
      /\ UNCHANGED <<task, num_blocks, remaining, active_workers, stop,
                     region_mu, owner, blocks, gen, last_generation, ctx,
                     limit, runs>>
  BY DEF EndPublication, lifecycle, locals
<1>4. /\ \A d \in Callers : d # c => pc[d] \notin RegionStates
      /\ \A w \in Workers : pc[w] \notin Joined
  BY <1>1, <1>3, OneRegion, NoneJoined DEF RegionStates, Publishing, InRegion
<1>5. /\ generation \in Nat
      /\ \A w \in Workers : w \in Nat /\ gen[w] \in Nat /\ last_generation[w] \in Nat
  BY <1>1, Types, BlockOwner
<1>6. TypeOK'
  BY <1>1, ThreadKinds, NumWorkersAssumption
     DEF EndPublication, Goto, TypeOK, publication, lifecycle, locals, CallerStates
<1>7. LockInv'
  <2>1. /\ \A d \in Callers : in_pool'[d] = IF d = c THEN TRUE ELSE in_pool[d]
        /\ \A w \in Workers : in_pool'[w] = in_pool[w]
    BY <1>1, <1>3, ThreadKinds DEF TypeOK
  <2>2. \A d \in Callers : d # c => mu # d
    BY <1>1, <1>3 DEF LockInv, MuStates, Publishing
  <2>3. \A d \in Callers : (mu' = d) <=> (pc'[d] \in MuStates)
    BY <1>1, <1>2, <1>3, <2>2, CallersAssumption DEF LockInv, MuStates, Publishing
  <2>4. \A d \in Callers : (region_mu' = d) <=> (pc'[d] \in RegionStates)
    BY <1>1, <1>2, <1>3 DEF LockInv, RegionStates, Publishing, InRegion
  <2>5. \A d \in Callers : in_pool'[d] <=> (pc'[d] = "run")
    BY <1>1, <1>2, <2>1 DEF LockInv
  <2>6. \A w \in Workers : pc'[w] \notin {"unborn", "starting"} => in_pool'[w]
    BY <1>1, <1>2, <2>1 DEF LockInv
  <2>7. \A t \in Threads : pc'[t] # "nested"
    BY <1>1, <1>2 DEF LockInv, Threads
  <2>8. \A d \in Callers : pc'[d] \in {"lock"} \cup RegionStates
                              => blocks'[d] \in 2 .. (NumWorkers + 1)
    BY <1>1, <1>2, <1>3 DEF LockInv, RegionStates, Publishing, InRegion
  <2> QED
    BY <2>3, <2>4, <2>5, <2>6, <2>7, <2>8 DEF LockInv
<1>8. LifeInv'
  BY <1>1, <1>2, <1>3 DEF LifeInv
<1>9. ParityInv'
  <2>1. generation % 2 = 1
    BY <1>1, <1>3 DEF ParityInv, Publishing
  <2>2. generation' % 2 = 0
    BY <1>3, <1>5, <2>1
  <2>3. ~stop
    BY <1>1, <1>3 DEF LifeInv
  <2> QED
    BY <1>2, <1>3, <1>4, <2>2, <2>3 DEF ParityInv, RegionStates, Publishing
<1>10. ContentInv'
  BY <1>1, <1>2, <1>3, <1>4
     DEF ContentInv, RegionStates, Publishing, InRegion
<1>11. SpinInv'
  BY <1>1, <1>2, <1>3, <1>5 DEF SpinInv
<1>12. JoinedInv'
  BY <1>2, <1>4 DEF JoinedInv
<1>13. RunsInv'
  <2>1. \A w \in Workers : last_generation[w] # generation'
    BY <1>1, <1>3, <1>5 DEF SpinInv
  <2>2. \A b \in Blocks : runs[b] = 0
    BY <1>1, <1>3 DEF ContentInv, Publishing
  <2> QED
    BY <1>2, <1>3, <1>4, <2>1, <2>2, BlockOwner
       DEF RunsInv, RegionStates, Publishing, InRegion
<1>14. QuietInv'
  BY <1>2 DEF QuietInv, InRegion
<1>15. WakeInv'
  BY <1>2, <1>4 DEF WakeInv, RegionStates, Publishing
<1>16. OnceInv'
  BY <1>1, <1>3 DEF OnceInv
<1>17. RemainingExact'
  <2>1. /\ remaining = blocks[c] - 1
        /\ \A b \in Blocks : runs[b] = 0
    BY <1>1, <1>3 DEF ContentInv, Publishing
  <2>2. blocks[c] \in 2 .. (NumWorkers + 1)
    BY <1>1, <1>3 DEF LockInv, RegionStates, Publishing
  <2>3. {w \in Workers : w + 1 < blocks[c] /\ (runs[w + 1] = 0 \/ pc'[w] = "finish")}
        = 0 .. (blocks[c] - 2)
    BY <2>1, <2>2, BlockOwner, NumWorkersAssumption DEF Workers
  <2>4. Cardinality(0 .. (blocks[c] - 2)) = blocks[c] - 1
    BY <2>2, FS_Interval, NumWorkersAssumption
  <2> QED
    BY <1>2, <1>3, <1>4, <2>1, <2>3, <2>4 DEF RemainingExact, RegionStates
<1>18. NoSleepingParticipant'
  BY <1>1, <1>2, <1>3, <1>4
     DEF NoSleepingParticipant, WakeInv, RegionStates, InRegion
<1> QED
  BY <1>6, <1>7, <1>8, <1>9, <1>10, <1>11, <1>12, <1>13, <1>14,
     <1>15, <1>16, <1>17, <1>18 DEF IInv

\* Block 0 is done.
LEMMA RunOwnBlockPreserves ==
    ASSUME IInv, NEW c \in Callers, RunOwnBlock(c)
    PROVE  IInv'
<1>1. /\ TypeOK /\ LockInv /\ LifeInv /\ ParityInv /\ ContentInv /\ SpinInv
      /\ JoinedInv /\ RunsInv /\ QuietInv /\ WakeInv /\ OnceInv
      /\ RemainingExact /\ NoSleepingParticipant
  BY DEF IInv
<1>2. /\ \A d \in Callers : pc'[d] = IF d = c THEN "spin" ELSE pc[d]
      /\ \A w \in Workers : pc'[w] = pc[w]
  BY <1>1, GotoMoves, ThreadKinds DEF TypeOK, RunOwnBlock
<1>3. /\ pc[c] = "run" /\ runs' = [runs EXCEPT ![0] = @ + 1]
      /\ in_pool' = [in_pool EXCEPT ![c] = FALSE]
      /\ UNCHANGED <<generation, task, num_blocks, remaining, active_workers,
                     stop, mu, region_mu, owner, blocks, gen, last_generation,
                     ctx, limit>>
  BY DEF RunOwnBlock, publication, lifecycle, locals
<1>4. \A d \in Callers : d # c => pc[d] \notin RegionStates
  BY <1>1, <1>3, OneRegion DEF RegionStates, InRegion
<1>5. /\ runs'[0] = 1
      /\ \A w \in Workers : runs'[w + 1] = runs[w + 1]
      /\ \A b \in Blocks : b # 0 => runs'[b] = runs[b]
  BY <1>1, <1>3, BlockOwner DEF TypeOK, RunsInv, InRegion
<1>6. TypeOK'
  BY <1>1, ThreadKinds, BlockOwner, NumWorkersAssumption
     DEF RunOwnBlock, Goto, TypeOK, publication, lifecycle, locals, CallerStates
<1>7. LockInv'
  <2>1. /\ \A d \in Callers : in_pool'[d] = IF d = c THEN FALSE ELSE in_pool[d]
        /\ \A w \in Workers : in_pool'[w] = in_pool[w]
    BY <1>1, <1>3, ThreadKinds DEF TypeOK
  <2>2. \A d \in Callers : (mu' = d) <=> (pc'[d] \in MuStates)
    BY <1>1, <1>2, <1>3 DEF LockInv, MuStates, Publishing
  <2>3. \A d \in Callers : (region_mu' = d) <=> (pc'[d] \in RegionStates)
    BY <1>1, <1>2, <1>3 DEF LockInv, RegionStates, Publishing, InRegion
  <2>4. \A d \in Callers : in_pool'[d] <=> (pc'[d] = "run")
    BY <1>1, <1>2, <2>1 DEF LockInv
  <2>5. \A w \in Workers : pc'[w] \notin {"unborn", "starting"} => in_pool'[w]
    BY <1>1, <1>2, <2>1 DEF LockInv
  <2>6. \A t \in Threads : pc'[t] # "nested"
    BY <1>1, <1>2 DEF LockInv, Threads
  <2>7. \A d \in Callers : pc'[d] \in {"lock"} \cup RegionStates
                              => blocks'[d] \in 2 .. (NumWorkers + 1)
    BY <1>1, <1>2, <1>3 DEF LockInv, RegionStates, Publishing, InRegion
  <2> QED
    BY <2>2, <2>3, <2>4, <2>5, <2>6, <2>7 DEF LockInv
<1>8. LifeInv'
  BY <1>1, <1>2, <1>3 DEF LifeInv
<1>9. ParityInv'
  BY <1>1, <1>2, <1>3 DEF ParityInv, Publishing
<1>10. ContentInv'
  BY <1>1, <1>2, <1>3, <1>4
     DEF ContentInv, RegionStates, Publishing, InRegion
<1>11. SpinInv'
  BY <1>1, <1>2, <1>3 DEF SpinInv
<1>12. JoinedInv'
  BY <1>1, <1>2, <1>3 DEF JoinedInv, InRegion
<1>13. RunsInv'
  BY <1>1, <1>2, <1>3, <1>4, <1>5 DEF RunsInv, RegionStates, InRegion
<1>14. QuietInv'
  BY <1>2 DEF QuietInv, InRegion
<1>15. WakeInv'
  BY <1>1, <1>2, <1>3 DEF WakeInv
<1>16. OnceInv'
  BY <1>1, <1>5 DEF OnceInv
<1>17. RemainingExact'
  <2>1. {w \in Workers : w + 1 < blocks[c] /\ (runs'[w + 1] = 0 \/ pc'[w] = "finish")}
        = {w \in Workers : w + 1 < blocks[c] /\ (runs[w + 1] = 0 \/ pc[w] = "finish")}
    BY <1>2, <1>5
  <2> QED
    BY <1>1, <1>2, <1>3, <1>4, <2>1 DEF RemainingExact, RegionStates, InRegion
<1>18. NoSleepingParticipant'
  BY <1>1, <1>2, <1>3, <1>4, <1>5 DEF NoSleepingParticipant, RegionStates, InRegion
<1> QED
  BY <1>6, <1>7, <1>8, <1>9, <1>10, <1>11, <1>12, <1>13, <1>14,
     <1>15, <1>16, <1>17, <1>18 DEF IInv

\* The heart of the join: when remaining_ is zero, every participating worker
\* has joined the region, run its block and left.
LEMMA JoinComplete ==
    ASSUME IInv, NEW c \in Callers, pc[c] \in InRegion, remaining = 0
    PROVE  \A w \in Workers :
               /\ pc[w] \notin Joined
               /\ w + 1 < blocks[c] => /\ runs[w + 1] = 1
                                       /\ last_generation[w] = generation
<1>1. TypeOK /\ LockInv /\ JoinedInv /\ RunsInv /\ RemainingExact
  BY DEF IInv
<1> DEFINE S == {w \in Workers :
                    w + 1 < blocks[c] /\ (runs[w + 1] = 0 \/ pc[w] = "finish")}
<1>2. S = {}
  <2>1. IsFiniteSet(Workers)
    BY FS_Interval, NumWorkersAssumption DEF Workers
  <2>2. IsFiniteSet(S)
    BY <2>1, FS_Subset
  <2>3. Cardinality(S) = 0
    BY <1>1 DEF RemainingExact
  <2> QED
    BY <2>2, <2>3, FS_EmptySet
<1>3. \A w \in Workers : w + 1 < blocks[c] =>
          runs[w + 1] # 0 /\ pc[w] # "finish"
  BY <1>2
<1>4. \A w \in Workers : w + 1 < blocks[c] =>
          /\ runs[w + 1] = 1
          /\ last_generation[w] = generation
          /\ pc[w] \notin Joined
  BY <1>1, <1>3 DEF RunsInv, Joined
<1>5. \A w \in Workers : pc[w] \in Joined => w + 1 < blocks[c]
  BY <1>1, OneRegion DEF JoinedInv, RegionStates
<1> QED
  BY <1>4, <1>5

\* A caller that saw remaining_ = 0 may leave its region.
LEMMA LeaveRegion ==
    ASSUME IInv, NEW c \in Callers, pc[c] \in Waiting, remaining = 0,
           TypeOK', LockInv', LifeInv', UNCHANGED Kept, UNCHANGED <<blocks, gen>>,
           \A d \in Callers : pc'[d] = IF d = c THEN "return" ELSE pc[d],
           \A w \in Workers : pc'[w] = pc[w]
    PROVE  IInv'
<1>1. /\ TypeOK /\ LockInv /\ LifeInv /\ ParityInv /\ ContentInv /\ SpinInv
      /\ JoinedInv /\ RunsInv /\ QuietInv /\ WakeInv /\ OnceInv
      /\ RemainingExact /\ NoSleepingParticipant
  BY DEF IInv
<1>2. UNCHANGED <<generation, task, num_blocks, remaining, active_workers, stop,
                  last_generation, ctx, limit, runs>>
  BY DEF Kept
<1>3. \A d \in Callers : d # c => pc[d] \notin RegionStates
  BY <1>1, OneRegion DEF Waiting, RegionStates, InRegion
<1>4. \A w \in Workers : /\ pc[w] \notin Joined
                         /\ w + 1 < blocks[c] => last_generation[w] = generation
  BY JoinComplete DEF Waiting, InRegion
<1>5. ParityInv'
  BY <1>1, <1>2 DEF ParityInv, Publishing, Waiting
<1>6. ContentInv'
  BY <1>1, <1>2 DEF ContentInv, Publishing, InRegion, Waiting
<1>7. SpinInv'
  BY <1>1, <1>2 DEF SpinInv
<1>8. JoinedInv'
  BY <1>4 DEF JoinedInv
<1>9. RunsInv'
  BY <1>1, <1>2 DEF RunsInv, InRegion, Waiting
<1>10. QuietInv'
  <2>1. active_workers = blocks[c] - 1 /\ blocks[c] \in Nat
    BY <1>1, Types DEF ContentInv, Waiting, InRegion
  <2> QED
    BY <1>2, <1>4, <2>1, BlockOwner DEF QuietInv
<1>11. WakeInv'
  BY <1>1, <1>2 DEF WakeInv
<1>12. OnceInv'
  BY <1>1, <1>2 DEF OnceInv
<1>13. RemainingExact'
  BY <1>2, <1>3 DEF RemainingExact, InRegion, RegionStates
<1>14. NoSleepingParticipant'
  BY <1>2, <1>3 DEF NoSleepingParticipant, InRegion, RegionStates
<1> QED
  BY <1>5, <1>6, <1>7, <1>8, <1>9, <1>10, <1>11, <1>12, <1>13, <1>14 DEF IInv

\* A caller stops spinning for the join.
LEMMA SpinForCompletionPreserves ==
    ASSUME IInv, NEW c \in Callers, SpinForCompletion(c)
    PROVE  IInv'
<1>1. TypeOK /\ LockInv /\ LifeInv /\ SpinInv
  BY DEF IInv
<1>2. UNCHANGED Kept /\ UNCHANGED <<blocks, gen>>
  BY DEF SpinForCompletion, Kept, publication, lifecycle, locals
<1>3. TypeOK'
  BY <1>1, ThreadKinds
     DEF SpinForCompletion, Goto, TypeOK, publication, lifecycle, locals, CallerStates
<1>4. LockInv'
  BY <1>1, ThreadKinds, CallersAssumption
     DEF SpinForCompletion, Goto, TypeOK, LockInv, MuStates, RegionStates, Publishing, InRegion
<1>5. LifeInv'
  BY <1>1, ThreadKinds
     DEF SpinForCompletion, Goto, TypeOK, LifeInv, publication, lifecycle, locals
<1>6. SpinInv'
  BY <1>1, ThreadKinds
     DEF SpinForCompletion, Goto, TypeOK, SpinInv, publication, lifecycle, locals
<1>7. pc[c] \in Waiting
  BY DEF SpinForCompletion, Waiting
<1>8. \A w \in Workers : pc'[w] = pc[w]
  BY <1>1, ThreadKinds DEF SpinForCompletion, Goto, TypeOK
<1>9. PICK l \in {"wait", "block", "return"} :
          /\ l = "return" => remaining = 0
          /\ \A d \in Callers : pc'[d] = IF d = c THEN l ELSE pc[d]
  BY <1>1, ThreadKinds DEF SpinForCompletion, Goto, TypeOK
<1>10. CASE l = "return"
  BY <1>2, <1>3, <1>4, <1>5, <1>7, <1>8, <1>9, <1>10, LeaveRegion
<1>11. CASE l # "return"
  BY <1>2, <1>3, <1>4, <1>5, <1>6, <1>7, <1>8, <1>9, <1>11, QuietMoves DEF Waiting
<1> QED
  BY <1>10, <1>11

\* A caller tests the predicate of cv_done_.wait.
LEMMA TestDonePreserves ==
    ASSUME IInv, NEW c \in Callers, TestDone(c)
    PROVE  IInv'
<1>1. TypeOK /\ LockInv /\ LifeInv /\ SpinInv
  BY DEF IInv
<1>2. UNCHANGED Kept /\ UNCHANGED <<blocks, gen>>
  BY DEF TestDone, Kept, publication, lifecycle, locals
<1>3. TypeOK'
  BY <1>1, ThreadKinds
     DEF TestDone, Goto, TypeOK, publication, lifecycle, locals, CallerStates
<1>4. LockInv'
  BY <1>1, ThreadKinds, CallersAssumption
     DEF TestDone, Goto, TypeOK, LockInv, MuStates, RegionStates, Publishing, InRegion
<1>5. LifeInv'
  BY <1>1, ThreadKinds
     DEF TestDone, Goto, TypeOK, LifeInv, publication, lifecycle, locals
<1>6. SpinInv'
  BY <1>1, ThreadKinds
     DEF TestDone, Goto, TypeOK, SpinInv, publication, lifecycle, locals
<1>7. pc[c] \in Waiting
  BY DEF TestDone, Waiting
<1>8. \A w \in Workers : pc'[w] = pc[w]
  BY <1>1, ThreadKinds DEF TestDone, Goto, TypeOK
<1>9. PICK l \in {"wait", "block", "return"} :
          /\ l = "return" => remaining = 0
          /\ \A d \in Callers : pc'[d] = IF d = c THEN l ELSE pc[d]
  BY <1>1, ThreadKinds DEF TestDone, Goto, TypeOK
<1>10. CASE l = "return"
  BY <1>2, <1>3, <1>4, <1>5, <1>7, <1>8, <1>9, <1>10, LeaveRegion
<1>11. CASE l # "return"
  BY <1>2, <1>3, <1>4, <1>5, <1>6, <1>7, <1>8, <1>9, <1>11, QuietMoves DEF Waiting
<1> QED
  BY <1>10, <1>11

\* stop_ is raised and the generation becomes odd for good.
LEMMA RaiseStopPreserves ==
    ASSUME IInv, RaiseStop
    PROVE  IInv'
<1>1. /\ TypeOK /\ LockInv /\ LifeInv /\ ParityInv /\ ContentInv /\ SpinInv
      /\ JoinedInv /\ RunsInv /\ QuietInv /\ WakeInv /\ OnceInv
      /\ RemainingExact /\ NoSleepingParticipant
  BY DEF IInv
<1>2. /\ owner = "stop" /\ owner' = "notify" /\ stop' = TRUE
      /\ generation' = generation + 1
      /\ UNCHANGED <<task, num_blocks, remaining, active_workers, mu, region_mu,
                     pc, in_pool, blocks, gen, last_generation, ctx, limit, runs>>
  BY DEF RaiseStop, lifecycle, locals
<1>3. \A c \in Callers : pc[c] = "idle"
  BY <1>1, <1>2 DEF LifeInv
<1>4. \A w \in Workers : pc[w] \notin Joined
  BY <1>1, <1>3 DEF JoinedInv, InRegion
<1>5. /\ generation \in Nat
      /\ \A w \in Workers : gen[w] \in Nat /\ last_generation[w] \in Nat
  BY <1>1, Types
<1>6. TypeOK'
  BY <1>1 DEF RaiseStop, TypeOK, lifecycle, locals, OwnerStates
<1>7. LockInv'
  BY <1>1, <1>2 DEF LockInv
<1>8. LifeInv'
  BY <1>1, <1>2 DEF LifeInv
<1>9. ParityInv'
  <2>1. generation % 2 = 0
    BY <1>1, <1>2, <1>3, <1>5 DEF ParityInv, LifeInv, Publishing
  <2>2. generation' % 2 = 1
    BY <1>2, <1>5, <2>1
  <2> QED
    BY <1>2, <2>2 DEF ParityInv
<1>10. ContentInv'
  BY <1>2, <1>3 DEF ContentInv, Publishing, InRegion
<1>11. SpinInv'
  BY <1>1, <1>2, <1>5 DEF SpinInv
<1>12. JoinedInv'
  BY <1>2, <1>4 DEF JoinedInv
<1>13. RunsInv'
  BY <1>2, <1>3 DEF RunsInv, InRegion
<1>14. QuietInv'
  BY <1>2 DEF QuietInv
<1>15. WakeInv'
  BY <1>1, <1>2 DEF WakeInv
<1>16. OnceInv'
  BY <1>1, <1>2 DEF OnceInv
<1>17. RemainingExact'
  BY <1>2, <1>3 DEF RemainingExact, InRegion
<1>18. NoSleepingParticipant'
  BY <1>1, <1>2 DEF NoSleepingParticipant
<1> QED
  BY <1>6, <1>7, <1>8, <1>9, <1>10, <1>11, <1>12, <1>13, <1>14,
     <1>15, <1>16, <1>17, <1>18 DEF IInv

\* A worker that finds itself named by the current, even generation and has not
\* joined it belongs to the open region.
LEMMA MayJoin ==
    ASSUME IInv, NEW w \in Workers, ~stop, generation # last_generation[w],
           w < active_workers, \A c \in Callers : pc[c] \notin Publishing
    PROVE  \E c \in Callers :
               /\ pc[c] \in InRegion
               /\ w + 1 < blocks[c]
               /\ task = c
               /\ num_blocks = blocks[c]
<1>1. TypeOK /\ QuietInv /\ ContentInv
  BY DEF IInv
<1>2. PICK c \in Callers : pc[c] \in InRegion
  BY <1>1 DEF QuietInv
<1>3. active_workers = blocks[c] - 1 /\ blocks[c] \in Nat /\ w \in Nat
  BY <1>1, <1>2, Types, BlockOwner DEF ContentInv
<1>4. task = c /\ num_blocks = blocks[c]
  BY <1>1, <1>2 DEF ContentInv
<1> QED
  BY <1>2, <1>3, <1>4

\* A worker joins the open region: its last_generation becomes the current one
\* and it goes to read the payload, or already has it.
LEMMA JoinRegion ==
    ASSUME IInv, NEW w \in Workers, ~stop, generation # last_generation[w],
           w < active_workers, \A c \in Callers : pc[c] \notin Publishing,
           pc[w] \notin Joined, NEW l \in {"read", "run"},
           TypeOK', LockInv', LifeInv',
           last_generation' = [last_generation EXCEPT ![w] = generation],
           UNCHANGED <<generation, task, num_blocks, remaining, active_workers,
                       stop, blocks, gen, runs>>,
           \A v \in Workers : v # w => ctx'[v] = ctx[v] /\ limit'[v] = limit[v],
           l = "run" => ctx'[w] = task /\ limit'[w] = num_blocks,
           \A d \in Callers : pc'[d] = pc[d],
           \A v \in Workers : pc'[v] = IF v = w THEN l ELSE pc[v]
    PROVE  IInv'
<1>1. /\ TypeOK /\ LockInv /\ LifeInv /\ ParityInv /\ ContentInv /\ SpinInv
      /\ JoinedInv /\ RunsInv /\ QuietInv /\ WakeInv /\ OnceInv
      /\ RemainingExact /\ NoSleepingParticipant
  BY DEF IInv
<1>2. PICK c \in Callers : /\ pc[c] \in InRegion /\ w + 1 < blocks[c]
                           /\ task = c /\ num_blocks = blocks[c]
  BY MayJoin
<1>3. \A d \in Callers : d # c => pc[d] \notin RegionStates
  BY <1>1, <1>2, OneRegion DEF RegionStates
<1>4. \A v \in Workers :
          last_generation'[v] = IF v = w THEN generation ELSE last_generation[v]
  BY <1>1 DEF TypeOK
<1>5. ParityInv'
  BY <1>1 DEF ParityInv
<1>6. ContentInv'
  BY <1>1 DEF ContentInv
<1>7. SpinInv'
  BY <1>1, <1>4, Types DEF SpinInv
<1>8. JoinedInv'
  BY <1>1, <1>2, <1>4 DEF JoinedInv, Joined
<1>9. RunsInv'
  <2>1. runs[w + 1] = 0
    BY <1>1, <1>2 DEF RunsInv
  <2>2. \A d \in Callers : pc[d] \in InRegion \cup {"return"} => d = c
    BY <1>3 DEF RegionStates
  <2>3. runs[0] = IF pc[c] = "run" THEN 0 ELSE 1
    BY <1>1, <1>2 DEF RunsInv
  <2>4. ASSUME NEW v \in Workers
        PROVE  runs[v + 1] = IF /\ v + 1 < blocks[c]
                                /\ last_generation'[v] = generation
                                /\ pc'[v] \notin {"read", "run"}
                             THEN 1 ELSE 0
    BY <1>1, <1>2, <1>4, <2>1 DEF RunsInv
  <2> QED
    BY <2>2, <2>3, <2>4 DEF RunsInv
<1>10. QuietInv'
  BY <1>2 DEF QuietInv
<1>11. WakeInv'
  BY <1>1 DEF WakeInv
<1>12. OnceInv'
  BY <1>1 DEF OnceInv
<1>13. RemainingExact'
  <2>1. ASSUME NEW d \in Callers
        PROVE  {v \in Workers : v + 1 < blocks[d] /\ (runs[v + 1] = 0 \/ pc'[v] = "finish")}
             = {v \in Workers : v + 1 < blocks[d] /\ (runs[v + 1] = 0 \/ pc[v] = "finish")}
    BY DEF Joined
  <2> QED
    BY <1>1, <2>1 DEF RemainingExact
<1>14. NoSleepingParticipant'
  BY <1>1 DEF NoSleepingParticipant
<1> QED
  BY <1>5, <1>6, <1>7, <1>8, <1>9, <1>10, <1>11, <1>12, <1>13, <1>14 DEF IInv

\* The second load of generation_ confirms the first, or the worker starts over.
LEMMA RecheckGenerationPreserves ==
    ASSUME IInv, NEW w \in Workers, RecheckGeneration(w)
    PROVE  IInv'
<1>1. TypeOK /\ LockInv /\ LifeInv /\ SpinInv /\ ParityInv
  BY DEF IInv
<1>2. TypeOK'
  BY <1>1, ThreadKinds
     DEF RecheckGeneration, Goto, TypeOK, publication, lifecycle, locals, WorkerStates
<1>3. LockInv'
  BY <1>1, ThreadKinds
     DEF RecheckGeneration, Goto, TypeOK, LockInv, publication, lifecycle, locals,
         MuStates, RegionStates, Publishing, InRegion
<1>4. LifeInv'
  BY <1>1, ThreadKinds
     DEF RecheckGeneration, Goto, TypeOK, LifeInv, publication, lifecycle, locals
<1>5. pc[w] = "recheck"
  BY DEF RecheckGeneration
<1>6. CASE generation # gen[w]
  <2>1. UNCHANGED Kept
    BY <1>6 DEF RecheckGeneration, Kept, publication, lifecycle, locals
  <2>2. SpinInv'
    BY <1>1, <1>6, ThreadKinds
       DEF RecheckGeneration, Goto, TypeOK, SpinInv, publication
  <2> QED
    BY <1>1, <1>2, <1>3, <1>4, <1>6, <2>1, <2>2, QuietMoves, ThreadKinds
       DEF RecheckGeneration, Goto, TypeOK, Roaming, Joined
<1>7. CASE generation = gen[w]
  <2>1. /\ generation % 2 = 0
        /\ generation # last_generation[w]
        /\ w < active_workers
    BY <1>1, <1>5, <1>7 DEF SpinInv
  <2>2. ~stop /\ \A c \in Callers : pc[c] \notin Publishing
    BY <1>1, <2>1 DEF ParityInv
  <2>3. /\ \A d \in Callers : pc'[d] = pc[d]
        /\ \A v \in Workers : pc'[v] = IF v = w THEN "read" ELSE pc[v]
    BY <1>1, <1>7, ThreadKinds DEF RecheckGeneration, Goto, TypeOK
  <2>4. /\ last_generation' = [last_generation EXCEPT ![w] = generation]
        /\ UNCHANGED <<generation, task, num_blocks, remaining, active_workers,
                       stop, blocks, gen, runs, ctx, limit>>
    BY <1>7 DEF RecheckGeneration, publication
  <2> QED
    BY <1>2, <1>3, <1>4, <1>5, <2>1, <2>2, <2>3, <2>4, JoinRegion DEF Joined
<1> QED
  BY <1>6, <1>7

\* The payload is read without mu_: it is the one of the open region.
LEMMA ReadPayloadPreserves ==
    ASSUME IInv, NEW w \in Workers, ReadPayload(w)
    PROVE  IInv'
<1>1. /\ TypeOK /\ LockInv /\ LifeInv /\ ParityInv /\ ContentInv /\ SpinInv
      /\ JoinedInv /\ RunsInv /\ QuietInv /\ WakeInv /\ OnceInv
      /\ RemainingExact /\ NoSleepingParticipant
  BY DEF IInv
<1>2. pc[w] = "read"
  BY DEF ReadPayload
<1>3. PICK c \in Callers : pc[c] \in InRegion /\ w + 1 < blocks[c]
  BY <1>1, <1>2 DEF JoinedInv, Joined
<1>4. task = c /\ num_blocks = blocks[c]
  BY <1>1, <1>3 DEF ContentInv
<1>5. /\ \A d \in Callers : pc'[d] = pc[d]
      /\ \A v \in Workers : pc'[v] = IF v = w THEN "run" ELSE pc[v]
  BY <1>1, <1>3, <1>4, ThreadKinds DEF ReadPayload, Goto, TypeOK
<1>6. /\ \A v \in Workers : ctx'[v] = IF v = w THEN c ELSE ctx[v]
      /\ \A v \in Workers : limit'[v] = IF v = w THEN blocks[c] ELSE limit[v]
  BY <1>1, <1>4 DEF ReadPayload, TypeOK
<1>7. UNCHANGED <<generation, task, num_blocks, remaining, active_workers, stop,
                  mu, region_mu, owner, in_pool, blocks, gen, last_generation,
                  runs>>
  BY DEF ReadPayload, publication, lifecycle
<1>8. TypeOK'
  BY <1>1, ThreadKinds
     DEF ReadPayload, Goto, TypeOK, publication, lifecycle, locals, WorkerStates
<1>9. LockInv'
  BY <1>1, <1>2, <1>5, <1>7, ThreadKinds DEF LockInv, Threads
<1>10. LifeInv'
  BY <1>1, <1>5, <1>7 DEF LifeInv
<1>11. ParityInv'
  BY <1>1, <1>5, <1>7 DEF ParityInv
<1>12. ContentInv'
  BY <1>1, <1>5, <1>7 DEF ContentInv
<1>13. SpinInv'
  BY <1>1, <1>5, <1>7 DEF SpinInv
<1>14. JoinedInv'
  BY <1>1, <1>2, <1>3, <1>5, <1>6, <1>7 DEF JoinedInv, Joined
<1>15. RunsInv'
  BY <1>1, <1>2, <1>5, <1>7 DEF RunsInv
<1>16. QuietInv'
  BY <1>1, <1>5, <1>7 DEF QuietInv
<1>17. WakeInv'
  BY <1>1, <1>5, <1>7 DEF WakeInv
<1>18. OnceInv'
  BY <1>1, <1>7 DEF OnceInv
<1>19. RemainingExact'
  <2>1. ASSUME NEW d \in Callers
        PROVE  {v \in Workers : v + 1 < blocks[d] /\ (runs[v + 1] = 0 \/ pc'[v] = "finish")}
             = {v \in Workers : v + 1 < blocks[d] /\ (runs[v + 1] = 0 \/ pc[v] = "finish")}
    BY <1>2, <1>5
  <2> QED
    BY <1>1, <1>5, <1>7, <2>1 DEF RemainingExact
<1>20. NoSleepingParticipant'
  BY <1>1, <1>5, <1>7 DEF NoSleepingParticipant
<1> QED
  BY <1>8, <1>9, <1>10, <1>11, <1>12, <1>13, <1>14, <1>15, <1>16, <1>17, <1>18,
     <1>19, <1>20 DEF IInv

\* A worker runs its block, once.
LEMMA RunBlockPreserves ==
    ASSUME IInv, NEW w \in Workers, RunBlock(w)
    PROVE  IInv'
<1>1. /\ TypeOK /\ LockInv /\ LifeInv /\ ParityInv /\ ContentInv /\ SpinInv
      /\ JoinedInv /\ RunsInv /\ QuietInv /\ WakeInv /\ OnceInv
      /\ RemainingExact /\ NoSleepingParticipant
  BY DEF IInv
<1>2. /\ \A d \in Callers : pc'[d] = pc[d]
      /\ \A v \in Workers : pc'[v] = IF v = w THEN "finish" ELSE pc[v]
  BY <1>1, GotoMoves, ThreadKinds DEF TypeOK, RunBlock
<1>3. /\ pc[w] = "run" /\ runs' = [runs EXCEPT ![w + 1] = @ + 1]
      /\ UNCHANGED <<generation, task, num_blocks, remaining, active_workers,
                     stop, mu, region_mu, owner, in_pool, blocks, gen,
                     last_generation, ctx, limit>>
  BY DEF RunBlock, publication, lifecycle, locals
<1>4. PICK c \in Callers : pc[c] \in InRegion /\ w + 1 < blocks[c]
  BY <1>1, <1>3 DEF JoinedInv, Joined
<1>5. \A d \in Callers : d # c => pc[d] \notin RegionStates
  BY <1>1, <1>4, OneRegion DEF RegionStates
<1>6. runs[w + 1] = 0 /\ last_generation[w] = generation
  BY <1>1, <1>3, <1>4 DEF RunsInv, JoinedInv, Joined
<1>7. /\ runs'[w + 1] = 1
      /\ \A b \in Blocks : b # w + 1 => runs'[b] = runs[b]
  BY <1>1, <1>3, <1>6, BlockOwner DEF TypeOK
<1>8. runs'[0] = runs[0] /\ \A v \in Workers : v # w => runs'[v + 1] = runs[v + 1]
  BY <1>7, BlockOwner
<1>9. TypeOK'
  BY <1>1, ThreadKinds, BlockOwner
     DEF RunBlock, Goto, TypeOK, publication, lifecycle, locals, WorkerStates
<1>10. LockInv'
  BY <1>1, <1>2, <1>3, ThreadKinds DEF LockInv, Threads
<1>11. LifeInv'
  BY <1>1, <1>2, <1>3 DEF LifeInv
<1>12. ParityInv'
  BY <1>1, <1>2, <1>3 DEF ParityInv
<1>13. ContentInv'
  <2>1. \A d \in Callers : pc[d] \notin Publishing
    BY <1>4, <1>5 DEF RegionStates, InRegion, Publishing
  <2> QED
    BY <1>1, <1>2, <1>3, <2>1 DEF ContentInv
<1>14. SpinInv'
  BY <1>1, <1>2, <1>3 DEF SpinInv
<1>15. JoinedInv'
  BY <1>1, <1>2, <1>3 DEF JoinedInv, Joined
<1>16. RunsInv'
  <2>1. \A d \in Callers : pc[d] \in InRegion \cup {"return"} => d = c
    BY <1>5 DEF RegionStates
  <2>2. runs'[0] = IF pc[c] = "run" THEN 0 ELSE 1
    BY <1>1, <1>4, <1>8 DEF RunsInv
  <2>3. ASSUME NEW v \in Workers
        PROVE  runs'[v + 1] = IF /\ v + 1 < blocks[c]
                                 /\ last_generation[v] = generation
                                 /\ pc'[v] \notin {"read", "run"}
                              THEN 1 ELSE 0
    <3>1. CASE v = w
      BY <1>2, <1>4, <1>6, <1>7, <3>1
    <3>2. CASE v # w
      BY <1>1, <1>2, <1>4, <1>8, <3>2 DEF RunsInv
    <3> QED
      BY <3>1, <3>2
  <2> QED
    BY <1>2, <1>3, <2>1, <2>2, <2>3 DEF RunsInv
<1>17. QuietInv'
  BY <1>1, <1>2, <1>3 DEF QuietInv
<1>18. WakeInv'
  BY <1>1, <1>2, <1>3 DEF WakeInv
<1>19. OnceInv'
  BY <1>1, <1>7 DEF OnceInv
<1>20. RemainingExact'
  <2>1. {v \in Workers : v + 1 < blocks[c] /\ (runs'[v + 1] = 0 \/ pc'[v] = "finish")}
        = {v \in Workers : v + 1 < blocks[c] /\ (runs[v + 1] = 0 \/ pc[v] = "finish")}
    BY <1>2, <1>6, <1>8
  <2> QED
    BY <1>1, <1>2, <1>3, <1>4, <1>5, <2>1 DEF RemainingExact, RegionStates
<1>21. NoSleepingParticipant'
  BY <1>1, <1>2, <1>3, <1>4, <1>5, <1>7, <1>8 DEF NoSleepingParticipant, RegionStates
<1> QED
  BY <1>9, <1>10, <1>11, <1>12, <1>13, <1>14, <1>15, <1>16, <1>17, <1>18, <1>19,
     <1>20, <1>21 DEF IInv

\* A worker leaves the region and the join counter drops by one.
LEMMA FinishBlockPreserves ==
    ASSUME IInv, NEW w \in Workers, FinishBlock(w)
    PROVE  IInv'
<1>1. /\ TypeOK /\ LockInv /\ LifeInv /\ ParityInv /\ ContentInv /\ SpinInv
      /\ JoinedInv /\ RunsInv /\ QuietInv /\ WakeInv /\ OnceInv
      /\ RemainingExact /\ NoSleepingParticipant
  BY DEF IInv
<1>2. PICK l \in {"notify", "top"} :
          /\ \A d \in Callers : pc'[d] = pc[d]
          /\ \A v \in Workers : pc'[v] = IF v = w THEN l ELSE pc[v]
  BY <1>1, ThreadKinds DEF FinishBlock, Goto, TypeOK
<1>3. /\ pc[w] = "finish" /\ remaining' = remaining - 1
      /\ UNCHANGED <<generation, task, num_blocks, active_workers, stop, mu,
                     region_mu, owner, in_pool, blocks, gen, last_generation,
                     ctx, limit, runs>>
  BY DEF FinishBlock, lifecycle, locals
<1>4. PICK c \in Callers : pc[c] \in InRegion /\ w + 1 < blocks[c]
  BY <1>1, <1>3 DEF JoinedInv, Joined
<1>5. \A d \in Callers : d # c => pc[d] \notin RegionStates
  BY <1>1, <1>4, OneRegion DEF RegionStates
<1>6. runs[w + 1] = 1 /\ last_generation[w] = generation
  BY <1>1, <1>3, <1>4 DEF RunsInv, JoinedInv, Joined
<1> DEFINE S == {v \in Workers :
                    v + 1 < blocks[c] /\ (runs[v + 1] = 0 \/ pc[v] = "finish")}
           T == {v \in Workers :
                    v + 1 < blocks[c] /\ (runs[v + 1] = 0 \/ pc'[v] = "finish")}
<1>7. /\ remaining = Cardinality(S)
      /\ Cardinality(T) = Cardinality(S) - 1
      /\ Cardinality(T) \in Nat
  <2>1. IsFiniteSet(S)
    <3>1. IsFiniteSet(Workers)
      BY FS_Interval, NumWorkersAssumption DEF Workers
    <3> QED
      BY <3>1, FS_Subset
  <2>2. w \in S
    BY <1>3, <1>4
  <2>3. T = S \ {w}
    BY <1>2, <1>3, <1>6
  <2>4. IsFiniteSet(T) /\ Cardinality(T) = Cardinality(S) - 1
    BY <2>1, <2>2, <2>3, FS_RemoveElement
  <2> QED
    BY <1>1, <1>4, <2>4, FS_CardinalityType DEF RemainingExact
<1>8. remaining' = Cardinality(T) /\ remaining' \in 0 .. NumWorkers
  BY <1>1, <1>3, <1>7, NumWorkersAssumption DEF TypeOK
<1>9. TypeOK'
  BY <1>1, <1>8, ThreadKinds
     DEF FinishBlock, Goto, TypeOK, publication, lifecycle, locals, WorkerStates
<1>10. LockInv'
  BY <1>1, <1>2, <1>3, ThreadKinds DEF LockInv, Threads
<1>11. LifeInv'
  BY <1>1, <1>2, <1>3 DEF LifeInv
<1>12. ParityInv'
  BY <1>1, <1>2, <1>3 DEF ParityInv
<1>13. ContentInv'
  <2>1. \A d \in Callers : pc[d] \notin Publishing
    BY <1>4, <1>5 DEF RegionStates, InRegion, Publishing
  <2> QED
    BY <1>1, <1>2, <1>3, <2>1 DEF ContentInv, Publishing
<1>14. SpinInv'
  BY <1>1, <1>2, <1>3 DEF SpinInv
<1>15. JoinedInv'
  BY <1>1, <1>2, <1>3 DEF JoinedInv, Joined
<1>16. RunsInv'
  BY <1>1, <1>2, <1>3 DEF RunsInv
<1>17. QuietInv'
  BY <1>1, <1>2, <1>3 DEF QuietInv
<1>18. WakeInv'
  BY <1>1, <1>2, <1>3 DEF WakeInv
<1>19. OnceInv'
  BY <1>1, <1>3 DEF OnceInv
<1>20. RemainingExact'
  BY <1>2, <1>3, <1>4, <1>5, <1>8 DEF RemainingExact, RegionStates
<1>21. NoSleepingParticipant'
  BY <1>1, <1>2, <1>3 DEF NoSleepingParticipant
<1> QED
  BY <1>9, <1>10, <1>11, <1>12, <1>13, <1>14, <1>15, <1>16, <1>17, <1>18, <1>19,
     <1>20, <1>21 DEF IInv

\* The park path: exit, join the open region, or fall asleep.
LEMMA ParkPreserves ==
    ASSUME IInv, NEW w \in Workers, Park(w)
    PROVE  IInv'
<1>1. /\ TypeOK /\ LockInv /\ LifeInv /\ ParityInv /\ ContentInv /\ SpinInv
      /\ JoinedInv /\ RunsInv /\ QuietInv /\ WakeInv /\ OnceInv
      /\ RemainingExact /\ NoSleepingParticipant
  BY DEF IInv
<1>2. pc[w] = "park" /\ mu = NoOne
  BY DEF Park
<1>3. TypeOK'
  BY <1>1, ThreadKinds
     DEF Park, Goto, TypeOK, publication, lifecycle, locals, WorkerStates
<1>4. LockInv'
  BY <1>1, ThreadKinds
     DEF Park, Goto, TypeOK, LockInv, publication, lifecycle, locals,
         MuStates, RegionStates, Publishing, InRegion
<1>5. LifeInv'
  BY <1>1, ThreadKinds
     DEF Park, Goto, TypeOK, LifeInv, publication, lifecycle, locals
<1>6. UNCHANGED <<generation, task, num_blocks, remaining, active_workers, stop,
                  blocks, gen, runs>>
  BY DEF Park, publication
<1>7. \A c \in Callers : pc[c] \notin Publishing
  BY <1>1, <1>2, CallersAssumption DEF LockInv, MuStates
<1>8. CASE stop
  <2>1. UNCHANGED Kept
    BY <1>6, <1>8 DEF Park, Kept
  <2>2. SpinInv'
    BY <1>1, <1>8, ThreadKinds DEF Park, Goto, TypeOK, SpinInv, publication
  <2> QED
    BY <1>3, <1>4, <1>5, <1>8, <2>1, <2>2, <1>1, QuietMoves, ThreadKinds
       DEF Park, Goto, TypeOK, Roaming, Joined
<1>9. CASE ~stop /\ generation # last_generation[w] /\ w < active_workers
  <2>1. PICK c \in Callers : /\ pc[c] \in InRegion /\ w + 1 < blocks[c]
                             /\ num_blocks = blocks[c]
    BY <1>7, <1>9, MayJoin
  <2>2. /\ \A d \in Callers : pc'[d] = pc[d]
        /\ \A v \in Workers : pc'[v] = IF v = w THEN "run" ELSE pc[v]
    BY <1>1, <1>9, <2>1, ThreadKinds DEF Park, Goto, TypeOK
  <2>3. /\ last_generation' = [last_generation EXCEPT ![w] = generation]
        /\ \A v \in Workers : v # w => ctx'[v] = ctx[v] /\ limit'[v] = limit[v]
        /\ ctx'[w] = task /\ limit'[w] = num_blocks
    BY <1>1, <1>9 DEF Park, TypeOK
  <2> QED
    BY <1>2, <1>3, <1>4, <1>5, <1>6, <1>7, <1>9, <2>2, <2>3, JoinRegion DEF Joined
<1>10. CASE ~stop /\ ~(generation # last_generation[w] /\ w < active_workers)
  <2>1. /\ \A d \in Callers : pc'[d] = pc[d]
        /\ \A v \in Workers : pc'[v] = IF v = w THEN "asleep" ELSE pc[v]
    BY <1>1, <1>10, ThreadKinds DEF Park, Goto, TypeOK
  <2>2. UNCHANGED <<last_generation, ctx, limit>>
    BY <1>10 DEF Park
  <2>3. ParityInv'
    BY <1>1, <1>6, <2>1 DEF ParityInv
  <2>4. ContentInv'
    BY <1>1, <1>6, <2>1 DEF ContentInv
  <2>5. SpinInv'
    BY <1>1, <1>6, <2>1, <2>2 DEF SpinInv
  <2>6. JoinedInv'
    BY <1>1, <1>6, <2>1, <2>2 DEF JoinedInv, Joined
  <2>7. RunsInv'
    BY <1>1, <1>2, <1>6, <2>1, <2>2 DEF RunsInv
  <2>8. QuietInv'
    BY <1>1, <1>6, <2>1, <2>2 DEF QuietInv
  <2>9. WakeInv'
    BY <1>1, <1>6, <1>7, <2>1 DEF WakeInv, Publishing
  <2>10. OnceInv'
    BY <1>1, <1>6 DEF OnceInv
  <2>11. RemainingExact'
    <3>1. ASSUME NEW d \in Callers
          PROVE  {v \in Workers : v + 1 < blocks[d] /\ (runs[v + 1] = 0 \/ pc'[v] = "finish")}
               = {v \in Workers : v + 1 < blocks[d] /\ (runs[v + 1] = 0 \/ pc[v] = "finish")}
      BY <1>2, <2>1
    <3> QED
      BY <1>1, <1>6, <2>1, <3>1 DEF RemainingExact
  <2>12. NoSleepingParticipant'
    <3>1. ASSUME NEW c \in Callers, pc[c] \in InRegion, w + 1 < blocks[c]
          PROVE  runs[w + 1] # 0
      <4>1. active_workers = blocks[c] - 1 /\ blocks[c] \in Nat /\ w \in Nat
        BY <1>1, <3>1, Types, BlockOwner DEF ContentInv
      <4>2. last_generation[w] = generation
        BY <1>10, <3>1, <4>1
      <4> QED
        BY <1>1, <1>2, <3>1, <4>2 DEF RunsInv
    <3> QED
      BY <1>1, <1>6, <2>1, <3>1 DEF NoSleepingParticipant
  <2> QED
    BY <1>3, <1>4, <1>5, <2>3, <2>4, <2>5, <2>6, <2>7, <2>8, <2>9, <2>10,
       <2>11, <2>12 DEF IInv
<1> QED
  BY <1>8, <1>9, <1>10

\* A nested call finds the thread flagged as in the pool and runs inline.
LEMMA NestedRunPreserves ==
    ASSUME IInv, NEW t \in Threads, NestedRun(t)
    PROVE  UNCHANGED vars
<1>1. LockInv
  BY DEF IInv
<1>2. in_pool[t]
  BY <1>1 DEF NestedRun, LockInv, Threads
<1> QED
  BY <1>2 DEF NestedRun, vars

\* A spurious wakeup.
LEMMA SpuriousWakeupPreserves ==
    ASSUME IInv, NEW t \in Threads, SpuriousWakeup(t)
    PROVE  IInv'
<1>1. TypeOK /\ LockInv /\ LifeInv /\ SpinInv
  BY DEF IInv
<1>2. UNCHANGED Kept
  BY DEF SpuriousWakeup, Kept, publication, lifecycle, locals
<1>3. \/ t \in Workers /\ pc[t] = "asleep"
      \/ t \in Callers /\ pc[t] = "blocked"
  BY <1>1, ThreadKinds DEF SpuriousWakeup, TypeOK, Threads, CallerStates, WorkerStates
<1>4. /\ \A d \in Callers : pc'[d] = IF d = t THEN "wait" ELSE pc[d]
      /\ \A v \in Workers : pc'[v] = IF v = t THEN "park" ELSE pc[v]
  BY <1>1, <1>3, ThreadKinds DEF SpuriousWakeup, Goto, TypeOK
<1>5. UNCHANGED <<generation, active_workers, stop, mu, region_mu, owner, in_pool,
                  blocks, gen, last_generation>>
  BY DEF SpuriousWakeup, publication, lifecycle, locals
<1>6. TypeOK'
  BY <1>1, <1>3, ThreadKinds
     DEF SpuriousWakeup, Goto, TypeOK, publication, lifecycle, locals,
         CallerStates, WorkerStates
<1>7. LockInv'
  BY <1>1, <1>3, <1>4, <1>5, ThreadKinds
     DEF LockInv, Threads, MuStates, RegionStates, Publishing, InRegion
<1>8. LifeInv'
  BY <1>1, <1>3, <1>4, <1>5, ThreadKinds DEF LifeInv
<1>9. SpinInv'
  BY <1>1, <1>4, <1>5 DEF SpinInv
<1> QED
  BY <1>2, <1>3, <1>4, <1>5, <1>6, <1>7, <1>8, <1>9, QuietMoves, ThreadKinds
     DEF Waiting, Roaming, Joined

\* Stuttering preserves the invariant.
LEMMA StutterPreserves ==
    ASSUME IInv, UNCHANGED vars
    PROVE  IInv'
<1>1. UNCHANGED <<generation, task, num_blocks, remaining, active_workers, stop,
                  mu, region_mu, started_workers, startup_error, owner, pc,
                  in_pool, blocks, gen, last_generation, ctx, limit, calls, runs>>
  BY DEF vars, publication, lifecycle, locals
<1>2. /\ TypeOK' = TypeOK /\ LockInv' = LockInv /\ LifeInv' = LifeInv
      /\ ParityInv' = ParityInv /\ ContentInv' = ContentInv /\ SpinInv' = SpinInv
  BY <1>1 DEF TypeOK, LockInv, LifeInv, ParityInv, ContentInv, SpinInv
<1>3. /\ JoinedInv' = JoinedInv /\ RunsInv' = RunsInv /\ QuietInv' = QuietInv
      /\ WakeInv' = WakeInv /\ OnceInv' = OnceInv
      /\ RemainingExact' = RemainingExact
      /\ NoSleepingParticipant' = NoSleepingParticipant
  BY <1>1 DEF JoinedInv, RunsInv, QuietInv, WakeInv, OnceInv, RemainingExact,
              NoSleepingParticipant
<1> QED
  BY <1>2, <1>3 DEF IInv

-----------------------------------------------------------------------------
(***************************************************************************)
(* The theorems.                                                           *)
(***************************************************************************)

\* The invariant holds in the initial state.
LEMMA InitInvariant == Init => IInv
<1> SUFFICES ASSUME Init PROVE IInv
  OBVIOUS
<1>1. /\ \A c \in Callers : pc[c] = "idle"
      /\ \A w \in Workers : pc[w] = "unborn"
  BY ThreadKinds DEF Init
<1>2. TypeOK
  <2>1. pc \in [Threads -> CallerStates \cup WorkerStates]
    BY DEF Init, CallerStates, WorkerStates
  <2>2. /\ in_pool \in [Threads -> BOOLEAN]
        /\ blocks \in [Callers -> 0 .. (NumWorkers + 2)]
        /\ gen \in [Workers -> Nat]
        /\ last_generation \in [Workers -> Nat]
        /\ ctx \in [Workers -> Callers \cup {NoOne}]
        /\ limit \in [Workers -> 0 .. (NumWorkers + 1)]
        /\ runs \in [Blocks -> Nat]
    BY NumWorkersAssumption DEF Init
  <2>3. /\ \A c \in Callers : pc[c] \in CallerStates
        /\ \A w \in Workers : pc[w] \in WorkerStates
    BY <1>1 DEF CallerStates, WorkerStates
  <2>4. /\ generation \in Nat
        /\ task \in Callers \cup {NoOne}
        /\ num_blocks \in 0 .. (NumWorkers + 1)
        /\ remaining \in 0 .. NumWorkers
        /\ active_workers \in 0 .. NumWorkers
        /\ mu \in Callers \cup {NoOne}
        /\ region_mu \in Callers \cup {NoOne}
        /\ started_workers \in Nat
        /\ calls \in 0 .. MaxCalls
    BY NumWorkersAssumption, MaxCallsAssumption DEF Init
  <2>5. stop \in BOOLEAN /\ startup_error \in BOOLEAN /\ owner \in OwnerStates
    BY DEF Init, OwnerStates
  <2> QED
    BY <2>1, <2>2, <2>3, <2>4, <2>5 DEF TypeOK
<1>3. LockInv
  BY <1>1, ThreadKinds, CallersAssumption
     DEF Init, LockInv, Threads, MuStates, RegionStates, Publishing, InRegion
<1>4. LifeInv /\ ParityInv /\ ContentInv /\ SpinInv
  BY <1>1 DEF Init, LifeInv, ParityInv, ContentInv, SpinInv, Publishing, InRegion
<1>5. JoinedInv /\ RunsInv /\ WakeInv /\ OnceInv
  <2>1. JoinedInv /\ RunsInv /\ WakeInv
    BY <1>1 DEF JoinedInv, RunsInv, WakeInv, Joined, InRegion
  <2>2. OnceInv
    BY DEF Init, OnceInv
  <2> QED
    BY <2>1, <2>2
<1>6. QuietInv
  BY NumWorkersAssumption DEF Init, QuietInv, Workers
<1>7. RemainingExact /\ NoSleepingParticipant
  BY <1>1 DEF RemainingExact, NoSleepingParticipant, InRegion
<1> QED
  BY <1>2, <1>3, <1>4, <1>5, <1>6, <1>7 DEF IInv

\* Every step preserves the invariant.
LEMMA NextInvariant == IInv /\ [Next]_vars => IInv'
<1> SUFFICES ASSUME IInv, [Next]_vars PROVE IInv'
  OBVIOUS
<1>1. CASE OwnerStep \/ Destroy
  BY <1>1, SpawnPreserves, SpawnFailsPreserves, AwaitStartedPreserves,
     DestroyPreserves, RaiseStopPreserves, NotifyAllPreserves, JoinPreserves
     DEF OwnerStep
<1>2. CASE \E c \in Callers, n \in 0 .. (NumWorkers + 2) : Call(c, n)
  BY <1>2, CallPreserves
<1>3. CASE \E c \in Callers : CallerStep(c)
  BY <1>3, RunInlinePreserves, LockRegionPreserves, BeginPublicationPreserves,
     WritePayloadPreserves, ActivatePreserves, EndPublicationPreserves,
     RunOwnBlockPreserves, SpinForCompletionPreserves, LockForWaitPreserves,
     TestDonePreserves, BlockOnDonePreserves, ReturnPreserves
     DEF CallerStep
<1>4. CASE \E w \in Workers : WorkerStep(w)
  BY <1>4, StartWorkerPreserves, LoopTopPreserves, SpinForWorkPreserves,
     CheckStopPreserves, LoadGenerationPreserves, LoadActivePreserves,
     RecheckGenerationPreserves, ReadPayloadPreserves, ParkPreserves,
     RunBlockPreserves, FinishBlockPreserves, NotifyDonePreserves
     DEF WorkerStep
<1>5. CASE \E t \in Threads : NestedRun(t) \/ SpuriousWakeup(t)
  BY <1>5, NestedRunPreserves, SpuriousWakeupPreserves, StutterPreserves
<1>6. CASE Terminated \/ UNCHANGED vars
  BY <1>6, StutterPreserves DEF Terminated
<1> QED
  BY <1>1, <1>2, <1>3, <1>4, <1>5, <1>6 DEF Next

\* The invariant gives the properties.
LEMMA InvariantImplies ==
    ASSUME IInv
    PROVE  TypeOK /\ ExactlyOnce /\ PayloadAlive
<1>1. TypeOK /\ LockInv /\ JoinedInv /\ RunsInv /\ QuietInv /\ ContentInv
      /\ OnceInv /\ LifeInv
  BY DEF IInv
<1>2. ExactlyOnce
  <2>1. ASSUME NEW c \in Callers, pc[c] = "return", NEW b \in Blocks
        PROVE  runs[b] = IF b < blocks[c] THEN 1 ELSE 0
    <3>1. blocks[c] \in 2 .. (NumWorkers + 1) /\ active_workers = blocks[c] - 1
      BY <1>1, <2>1 DEF LockInv, ContentInv, RegionStates
    <3>2. CASE b = 0
      BY <1>1, <2>1, <3>1, <3>2, NumWorkersAssumption DEF RunsInv
    <3>3. CASE b # 0
      <4>1. PICK w \in Workers : b = w + 1
        BY <3>3, BlockOwner
      <4>2. pc[w] \notin {"read", "run"}
        BY <1>1, <2>1, NoneJoined DEF RegionStates, InRegion, Joined
      <4>3. \A d \in Callers : pc[d] \notin Publishing \cup InRegion
        BY <1>1, <2>1, OneRegion DEF RegionStates, Publishing, InRegion
      <4>4. ~stop
        BY <1>1, <2>1 DEF LifeInv
      <4>5. w + 1 < blocks[c] => last_generation[w] = generation
        BY <1>1, <3>1, <4>3, <4>4, BlockOwner, NumWorkersAssumption DEF QuietInv
      <4> QED
        BY <1>1, <2>1, <4>1, <4>2, <4>5 DEF RunsInv
    <3> QED
      BY <3>2, <3>3
  <2> QED
    BY <1>1, <2>1 DEF ExactlyOnce, OnceInv
<1>3. PayloadAlive
  <2> SUFFICES ASSUME NEW w \in Workers, pc[w] \in Joined
               PROVE  /\ region_mu \in Callers
                      /\ pc[region_mu] \in InRegion
                      /\ w + 1 < blocks[region_mu]
                      /\ pc[w] # "read" => /\ ctx[w] = region_mu
                                           /\ limit[w] = blocks[region_mu]
    BY DEF PayloadAlive, Joined
  <2>1. PICK c \in Callers :
            /\ pc[c] \in InRegion
            /\ w + 1 < blocks[c]
            /\ pc[w] # "read" => ctx[w] = c /\ limit[w] = blocks[c]
    BY <1>1 DEF JoinedInv
  <2>2. region_mu = c
    BY <1>1, <2>1 DEF LockInv, RegionStates
  <2> QED
    BY <2>1, <2>2
<1> QED
  BY <1>1, <1>2, <1>3

\* For every number of workers, callers and calls, every variable keeps its
\* type; in particular the join counter remaining_ never goes below zero.
THEOREM TypeCorrect == Spec => []TypeOK
<1>1. IInv => TypeOK
  BY InvariantImplies
<1> QED
  BY <1>1, InitInvariant, NextInvariant, PTL DEF Spec

\* For every number of workers, callers and calls, no block of a region runs
\* twice and RunErased returns only when each of its blocks ran.
THEOREM RunIsExactlyOnce == Spec => []ExactlyOnce
<1>1. IInv => ExactlyOnce
  BY InvariantImplies
<1> QED
  BY <1>1, InitInvariant, NextInvariant, PTL DEF Spec

\* For every number of workers, callers and calls, a worker that reads the
\* payload without mu_ or runs a callback works for the region that is open.
THEOREM PayloadStaysAlive == Spec => []PayloadAlive
<1>1. IInv => PayloadAlive
  BY InvariantImplies
<1> QED
  BY <1>1, InitInvariant, NextInvariant, PTL DEF Spec

\* The join of a region is exact: remaining_ counts the worker blocks that are
\* not finished, so RunErased does not return early and the counter does not
\* wrap.
THEOREM JoinIsSound == Spec => []RemainingExact
<1>1. IInv => RemainingExact
  BY DEF IInv
<1> QED
  BY <1>1, InitInvariant, NextInvariant, PTL DEF Spec

\* No worker whose block of the open region has not run sleeps on its condition
\* variable: whatever the order of parking and publication, the wakeup of
\* RunErased was not lost.
THEOREM NoWakeupLost == Spec => []NoSleepingParticipant
<1>1. IInv => NoSleepingParticipant
  BY DEF IInv
<1> QED
  BY <1>1, InitInvariant, NextInvariant, PTL DEF Spec

-----------------------------------------------------------------------------
(***************************************************************************)
(* The pool implements RegionService.                                      *)
(***************************************************************************)

\* What RegionService sees of a caller.
LEMMA PhaseOf ==
    /\ Phase("idle") = "idle" /\ Phase("inline") = "inline"
    /\ Phase("lock") = "queued" /\ Phase("publish") = "queued"
    /\ \A l \in Publishing \cup InRegion \cup {"return"} : Phase(l) = "running"
  BY DEF Phase, Publishing, InRegion

\* Moving one caller changes its phase only.
LEMMA OnePhase ==
    ASSUME NEW c \in Callers, \A d \in Callers : d # c => pc'[d] = pc[d]
    PROVE  Phases' = [Phases EXCEPT ![c] = Phase(pc'[c])]
  BY DEF Phases

\* Callers that stay in their phase change nothing.
LEMMA SamePhases ==
    ASSUME \A c \in Callers :
               \/ pc'[c] = pc[c]
               \/ pc[c] \in {"lock", "publish"} /\ pc'[c] \in {"lock", "publish"}
               \/ /\ pc[c] \in Publishing \cup InRegion \cup {"return"}
                  /\ pc'[c] \in Publishing \cup InRegion \cup {"return"}
    PROVE  Phases' = Phases
<1>1. \A c \in Callers : Phase(pc'[c]) = Phase(pc[c])
  BY PhaseOf
<1> QED
  BY <1>1 DEF Phases

\* The pool that is under construction is the idle service.
LEMMA MapsInit == Init => Service!Init
<1> SUFFICES ASSUME Init PROVE Service!Init
  OBVIOUS
<1>1. \A c \in Callers : pc[c] = "idle"
  BY ThreadKinds DEF Init
<1>2. Phases = [c \in Callers |-> "idle"]
  BY <1>1, PhaseOf DEF Phases
<1>3. Service!Blocks = Blocks
  BY NumWorkersAssumption DEF Service!Blocks, Blocks
<1> QED
  BY <1>2, <1>3 DEF Init, Service!Init

\* A call is classified as the service does.
LEMMA MapsCall ==
    ASSUME IInv, NEW c \in Callers, NEW n \in 0 .. (NumWorkers + 2), Call(c, n)
    PROVE  Service!Next
<1> DEFINE l == IF n <= 0 THEN "idle"
                ELSE IF NumWorkers = 0 \/ n = 1 \/ in_pool[c] THEN "inline"
                ELSE IF n > NumWorkers + 1 THEN "idle"
                ELSE "lock"
           p == CASE n = 0 -> "idle"
                  [] n = 1 \/ (n > 1 /\ NumWorkers + 1 = 1) -> "inline"
                  [] n > NumWorkers + 1 /\ NumWorkers + 1 > 1 -> "idle"
                  [] OTHER -> "queued"
<1>1. pc[c] = "idle" /\ ~in_pool[c] /\ pc \in [Threads -> CallerStates \cup WorkerStates]
  BY DEF Call, IInv, LockInv, TypeOK
<1>2. pc' = [pc EXCEPT ![c] = l] /\ blocks' = [blocks EXCEPT ![c] = n] /\ runs' = runs
  BY DEF Call, Goto
<1>3. Phase(l) = p
  <2>1. CASE n = 0
    BY <2>1, PhaseOf
  <2>2. CASE n = 1
    <3>1. l = "inline" /\ p = "inline"
      BY <2>2, NumWorkersAssumption
    <3> QED
      BY <3>1, PhaseOf
  <2>3. CASE n > 1 /\ NumWorkers = 0
    BY <2>3, PhaseOf
  <2>4. CASE n > NumWorkers + 1 /\ NumWorkers > 0
    BY <1>1, <2>4, PhaseOf, NumWorkersAssumption
  <2>5. CASE n > 1 /\ n <= NumWorkers + 1 /\ NumWorkers > 0
    BY <1>1, <2>5, PhaseOf, NumWorkersAssumption
  <2> QED
    BY <2>1, <2>2, <2>3, <2>4, <2>5, NumWorkersAssumption
<1>4. pc'[c] = l /\ \A d \in Callers : d # c => pc'[d] = pc[d]
  <2> HIDE DEF l
  <2> QED
    BY <1>1, <1>2, ThreadKinds
<1>5. Phases' = [Phases EXCEPT ![c] = p]
  BY <1>3, <1>4, OnePhase
<1>6. Phases[c] = "idle"
  BY <1>1, PhaseOf DEF Phases
<1>7. Service!Call(c, n)
  BY <1>2, <1>5, <1>6 DEF Service!Call
<1>8. n \in 0 .. (NumWorkers + 1 + 1)
  BY NumWorkersAssumption
<1> QED
  BY <1>7, <1>8 DEF Service!Next

\* The inline loop, the publication and the return of a caller are steps of the
\* service; a region begins when mu_ is taken and the history is reset.
LEMMA MapsCaller ==
    ASSUME IInv, IInv', NEW c \in Callers,
           RunInline(c) \/ BeginPublication(c) \/ RunOwnBlock(c) \/ Return(c)
    PROVE  Service!Next
<1>0. pc \in [Threads -> CallerStates \cup WorkerStates] /\ c \in Threads
  BY ThreadKinds DEF IInv, TypeOK
<1>1. CASE RunInline(c)
  <2>1. /\ pc[c] = "inline" /\ blocks' = blocks /\ runs' = runs /\ Goto(c, "idle")
    BY <1>1 DEF RunInline
  <2>2. pc'[c] = "idle" /\ \A d \in Callers : d # c => pc'[d] = pc[d]
    BY <1>0, <2>1, GotoMoves, ThreadKinds
  <2>3. Phases' = [Phases EXCEPT ![c] = "idle"] /\ Phases[c] = "inline"
    BY <2>1, <2>2, OnePhase, PhaseOf DEF Phases
  <2> QED
    BY <2>1, <2>3 DEF Service!ReturnInline, Service!Next
<1>2. CASE BeginPublication(c)
  <2>1. /\ pc[c] = "publish" /\ blocks' = blocks /\ runs' = [b \in Blocks |-> 0]
        /\ Goto(c, "payload")
    BY <1>2 DEF BeginPublication
  <2>2. pc'[c] = "payload" /\ \A d \in Callers : d # c => pc'[d] = pc[d]
    BY <1>0, <2>1, GotoMoves, ThreadKinds
  <2>3. Phases' = [Phases EXCEPT ![c] = "running"] /\ Phases[c] = "queued"
    BY <2>1, <2>2, OnePhase, PhaseOf DEF Phases, Publishing
  <2>4. \A d \in Callers : Phases[d] # "running"
    <3>1. \A d \in Callers : d # c => pc[d] \notin RegionStates
      BY <2>1, OneRegion DEF IInv, RegionStates
    <3>2. \A d \in Callers : pc[d] \in CallerStates /\ pc[d] # "nested"
      BY ThreadKinds DEF IInv, TypeOK, LockInv
    <3>3. \A d \in Callers : d # c => pc[d] \in {"idle", "inline", "lock"}
      BY <3>1, <3>2 DEF CallerStates, RegionStates, Publishing, InRegion
    <3> QED
      BY <2>3, <3>3, PhaseOf DEF Phases
  <2>5. Service!Blocks = Blocks
    BY NumWorkersAssumption DEF Service!Blocks, Blocks
  <2> QED
    BY <2>1, <2>3, <2>4, <2>5 DEF Service!Begin, Service!Next
<1>3. CASE RunOwnBlock(c)
  <2>1. /\ pc[c] = "run" /\ blocks' = blocks /\ runs' = [runs EXCEPT ![0] = @ + 1]
        /\ Goto(c, "spin")
    BY <1>3 DEF RunOwnBlock
  <2>2. pc'[c] = "spin" /\ \A d \in Callers : d # c => pc'[d] = pc[d]
    BY <1>0, <2>1, GotoMoves, ThreadKinds
  <2>3. Phases' = Phases /\ Phases[c] = "running"
    BY <2>1, <2>2, SamePhases, PhaseOf DEF Phases, InRegion
  <2>4. runs[0] = 0 /\ 0 < blocks[c]
    BY <2>1, NumWorkersAssumption DEF IInv, RunsInv, LockInv, RegionStates, InRegion
  <2>5. runs' = [runs EXCEPT ![0] = 1]
    BY <2>1, <2>4
  <2>6. 0 \in Service!Blocks
    BY NumWorkersAssumption DEF Service!Blocks
  <2> QED
    BY <2>1, <2>3, <2>4, <2>5, <2>6 DEF Service!Execute, Service!Next
<1>4. CASE Return(c)
  <2>1. pc[c] = "return" /\ blocks' = blocks /\ runs' = runs /\ Goto(c, "idle")
    BY <1>4 DEF Return
  <2>2. pc'[c] = "idle" /\ \A d \in Callers : d # c => pc'[d] = pc[d]
    BY <1>0, <2>1, GotoMoves, ThreadKinds
  <2>3. Phases' = [Phases EXCEPT ![c] = "idle"] /\ Phases[c] = "running"
    BY <2>1, <2>2, OnePhase, PhaseOf DEF Phases
  <2>4. Service!Blocks = Blocks
    BY NumWorkersAssumption DEF Service!Blocks, Blocks
  <2>5. \A b \in Blocks : b < blocks[c] => runs[b] = 1
    BY <2>1, InvariantImplies DEF ExactlyOnce
  <2> QED
    BY <2>1, <2>3, <2>4, <2>5 DEF Service!Return, Service!Next
<1> QED
  BY <1>1, <1>2, <1>3, <1>4

\* The block of a worker is executed in the region it joined.
LEMMA MapsRunBlock ==
    ASSUME IInv, NEW w \in Workers, RunBlock(w)
    PROVE  Service!Next
<1>1. /\ pc[w] = "run" /\ blocks' = blocks /\ Goto(w, "finish")
      /\ runs' = [runs EXCEPT ![w + 1] = @ + 1]
      /\ pc \in [Threads -> CallerStates \cup WorkerStates] /\ w \in Threads
  BY ThreadKinds DEF RunBlock, IInv, TypeOK
<1>2. \A d \in Callers : pc'[d] = pc[d]
  BY <1>1, GotoMoves, ThreadKinds
<1>3. Phases' = Phases
  BY <1>2, SamePhases
<1>4. PICK c \in Callers : pc[c] \in InRegion /\ w + 1 < blocks[c]
  BY <1>1 DEF IInv, JoinedInv, Joined
<1>5. Phases[c] = "running"
  BY <1>4, PhaseOf DEF Phases
<1>6. runs[w + 1] = 0
  BY <1>1, <1>4 DEF IInv, RunsInv
<1>7. runs' = [runs EXCEPT ![w + 1] = 1]
  BY <1>1, <1>6
<1>8. w + 1 \in Service!Blocks
  BY NumWorkersAssumption DEF Service!Blocks, Workers
<1>9. Service!Execute(c, w + 1)
  BY <1>1, <1>3, <1>4, <1>5, <1>6, <1>7 DEF Service!Execute
<1> QED
  BY <1>8, <1>9 DEF Service!Next

\* No other step is visible: callers stay in their phase.
LEMMA MapsHidden ==
    ASSUME IInv, UNCHANGED <<blocks, runs>>,
           \A c \in Callers :
               \/ pc'[c] = pc[c]
               \/ pc[c] \in {"lock", "publish"} /\ pc'[c] \in {"lock", "publish"}
               \/ /\ pc[c] \in Publishing \cup InRegion \cup {"return"}
                  /\ pc'[c] \in Publishing \cup InRegion \cup {"return"}
    PROVE  UNCHANGED <<Phases, blocks, runs>>
  BY SamePhases

\* The other steps of the owner, of the callers and of the workers.
LEMMA MapsOther ==
    ASSUME IInv, IInv',
           \/ OwnerStep \/ Destroy \/ Terminated \/ UNCHANGED vars
           \/ \E c \in Callers : \/ LockRegion(c) \/ WritePayload(c) \/ Activate(c)
                                 \/ EndPublication(c) \/ SpinForCompletion(c)
                                 \/ LockForWait(c) \/ TestDone(c) \/ BlockOnDone(c)
           \/ \E w \in Workers : WorkerStep(w) /\ ~RunBlock(w)
           \/ \E t \in Threads : NestedRun(t) \/ SpuriousWakeup(t)
    PROVE  UNCHANGED <<Phases, blocks, runs>>
<1>0. pc \in [Threads -> CallerStates \cup WorkerStates]
  BY DEF IInv, TypeOK
<1>1. ASSUME NEW c \in Callers, NEW l \in CallerStates, Goto(c, l)
      PROVE  pc'[c] = l /\ \A d \in Callers : d # c => pc'[d] = pc[d]
  BY <1>0, <1>1, GotoMoves, ThreadKinds
<1>2. ASSUME NEW w \in Workers, NEW l \in WorkerStates, Goto(w, l)
      PROVE  \A d \in Callers : pc'[d] = pc[d]
  BY <1>0, <1>2, GotoMoves, ThreadKinds
<1>3. ASSUME NEW S \in SUBSET Workers, pc' = Notify(S)
      PROVE  \A d \in Callers : pc'[d] = pc[d]
  BY <1>3, ThreadKinds DEF Notify
<1>4. CASE OwnerStep \/ Destroy \/ Terminated \/ UNCHANGED vars
  <2>1. UNCHANGED <<blocks, runs>>
    BY <1>4 DEF OwnerStep, Spawn, SpawnFails, AwaitStarted, RaiseStop, NotifyAll, Join, Destroy,
                Terminated, vars
  <2>2. \A d \in Callers : pc'[d] = pc[d]
    <3>1. CASE \E w \in Workers : Spawn(w)
      BY <1>2, <3>1 DEF Spawn, WorkerStates
    <3>2. CASE NotifyAll
      BY <1>3, <3>2 DEF NotifyAll
    <3>3. CASE SpawnFails \/ AwaitStarted \/ RaiseStop \/ Join \/ Destroy \/ Terminated
               \/ UNCHANGED vars
      BY <3>3 DEF SpawnFails, AwaitStarted, RaiseStop, Join, Destroy, Terminated, vars
    <3> QED
      BY <1>4, <3>1, <3>2, <3>3 DEF OwnerStep
  <2> QED
    BY <2>1, <2>2, MapsHidden
<1>5. ASSUME NEW c \in Callers,
             \/ LockRegion(c) \/ WritePayload(c) \/ Activate(c) \/ EndPublication(c)
             \/ SpinForCompletion(c) \/ LockForWait(c) \/ TestDone(c) \/ BlockOnDone(c)
      PROVE  UNCHANGED <<Phases, blocks, runs>>
  <2>1. UNCHANGED <<blocks, runs>>
    BY <1>5 DEF LockRegion, WritePayload, Activate, EndPublication, SpinForCompletion,
                LockForWait, TestDone, BlockOnDone
  <2>2. CASE LockRegion(c)
    <3>1. pc[c] = "lock" /\ pc'[c] = "publish" /\ \A d \in Callers : d # c => pc'[d] = pc[d]
      BY <1>1, <2>2 DEF LockRegion, CallerStates
    <3> QED
      BY <2>1, <3>1, MapsHidden
  <2>3. CASE ~LockRegion(c)
    <3>1. /\ pc[c] \in Publishing \cup InRegion
          /\ pc'[c] \in Publishing \cup InRegion \cup {"return"}
          /\ \A d \in Callers : d # c => pc'[d] = pc[d]
      <4>1. CASE Activate(c)
        <5>1. pc' = [Notify(0 .. (blocks[c] - 2)) EXCEPT ![c] = "commit"]
          BY <4>1 DEF Activate
        <5>2. \A d \in Callers : Notify(0 .. (blocks[c] - 2))[d] = pc[d]
          <6>1. blocks[c] - 2 \in Int /\ blocks[c] - 2 <= NumWorkers - 1
            BY <4>1, NumWorkersAssumption DEF Activate, IInv, LockInv, RegionStates, Publishing
          <6>2. 0 .. (blocks[c] - 2) \subseteq Workers
            BY <6>1, NumWorkersAssumption DEF Workers
          <6> QED
            BY <6>2, ThreadKinds DEF Notify
        <5> QED
          BY <4>1, <5>1, <5>2, ThreadKinds DEF Activate, Notify, Publishing
      <4>2. CASE WritePayload(c)
        BY <1>1, <4>2 DEF WritePayload, CallerStates, Publishing
      <4>3. CASE EndPublication(c)
        BY <1>1, <4>3 DEF EndPublication, CallerStates, Publishing, InRegion
      <4>4. CASE SpinForCompletion(c)
        BY <1>1, <4>4 DEF SpinForCompletion, CallerStates, InRegion
      <4>5. CASE LockForWait(c)
        BY <1>1, <4>5 DEF LockForWait, CallerStates, InRegion
      <4>6. CASE TestDone(c)
        BY <1>1, <4>6 DEF TestDone, CallerStates, InRegion
      <4>7. CASE BlockOnDone(c)
        BY <1>1, <4>7 DEF BlockOnDone, CallerStates, InRegion
      <4> QED
        BY <1>5, <2>3, <4>1, <4>2, <4>3, <4>4, <4>5, <4>6, <4>7
    <3> QED
      BY <2>1, <3>1, MapsHidden
  <2> QED
    BY <2>2, <2>3
<1>6. ASSUME NEW w \in Workers, WorkerStep(w), ~RunBlock(w)
      PROVE  UNCHANGED <<Phases, blocks, runs>>
  <2>1. CASE NotifyDone(w)
    <3>1. \A d \in Callers : \/ pc'[d] = pc[d]
                             \/ pc[d] \in InRegion /\ pc'[d] \in InRegion
      BY <2>1, ThreadKinds DEF NotifyDone, InRegion
    <3>2. UNCHANGED <<blocks, runs>>
      BY <2>1 DEF NotifyDone
    <3> QED
      BY <3>1, <3>2, MapsHidden
  <2>2. CASE ~NotifyDone(w)
    <3>1. UNCHANGED <<blocks, runs>>
      BY <1>6, <2>2 DEF WorkerStep, StartWorker, LoopTop, SpinForWork, CheckStop,
         LoadGeneration, LoadActive, RecheckGeneration, ReadPayload, Park, FinishBlock
    <3>2. \E l \in WorkerStates : Goto(w, l)
      BY <1>6, <2>2 DEF WorkerStep, StartWorker, LoopTop, SpinForWork, CheckStop,
         LoadGeneration, LoadActive, RecheckGeneration, ReadPayload, Park, FinishBlock,
         WorkerStates
    <3> QED
      BY <1>2, <3>1, <3>2, MapsHidden
  <2> QED
    BY <2>1, <2>2
<1>7. ASSUME NEW t \in Threads, NestedRun(t) \/ SpuriousWakeup(t)
      PROVE  UNCHANGED <<Phases, blocks, runs>>
  <2>1. UNCHANGED <<blocks, runs>>
    BY <1>7 DEF NestedRun, SpuriousWakeup
  <2>2. \A d \in Callers : \/ pc'[d] = pc[d]
                           \/ pc[d] \in InRegion /\ pc'[d] \in InRegion
    <3>1. CASE NestedRun(t)
      <4>1. in_pool[t]
        BY <3>1 DEF NestedRun, IInv, LockInv, Threads
      <4> QED
        BY <3>1, <4>1 DEF NestedRun
    <3>2. CASE SpuriousWakeup(t)
      <4>1. \A d \in Callers : pc[d] \in CallerStates
        BY DEF IInv, TypeOK
      <4>2. pc[t] \in {"asleep", "blocked"}
            /\ pc' = [pc EXCEPT ![t] = IF t \in Workers THEN "park" ELSE "wait"]
        BY <3>2 DEF SpuriousWakeup, Goto
      <4> QED
        BY <1>0, <4>1, <4>2, ThreadKinds DEF CallerStates, InRegion, Threads
    <3> QED
      BY <1>7, <3>1, <3>2
  <2> QED
    BY <2>1, <2>2, MapsHidden
<1> QED
  BY <1>4, <1>5, <1>6, <1>7

\* Every step of the pool is a step of the service or is not visible to it.
LEMMA MapsNext == IInv /\ IInv' /\ [Next]_vars => [Service!Next]_(Service!vars)
<1> SUFFICES ASSUME IInv, IInv', [Next]_vars
             PROVE  Service!Next \/ UNCHANGED <<Phases, blocks, runs>>
  BY DEF Service!vars
<1>1. CASE \E c \in Callers, n \in 0 .. (NumWorkers + 2) : Call(c, n)
  BY <1>1, MapsCall
<1>2. CASE \E c \in Callers : CallerStep(c)
  BY <1>2, MapsCaller, MapsOther DEF CallerStep
<1>3. CASE \E w \in Workers : WorkerStep(w)
  BY <1>3, MapsRunBlock, MapsOther
<1>4. CASE \/ OwnerStep \/ Destroy \/ Terminated \/ UNCHANGED vars
           \/ \E t \in Threads : NestedRun(t) \/ SpuriousWakeup(t)
  BY <1>4, MapsOther
<1> QED
  BY <1>1, <1>2, <1>3, <1>4 DEF Next

\* For every number of workers, callers and calls, the pool is the service that
\* the class comment of ThreadPool describes: whatever the workers read without
\* the mutex and whenever they wake up, regions run one after the other, each
\* block once, and Run returns only when all blocks of its region ran.
THEOREM PoolImplementsService == Spec => ImplementsService
<1>1. Spec => []IInv
  BY InitInvariant, NextInvariant, PTL DEF Spec
<1> QED
  BY <1>1, MapsInit, MapsNext, PTL DEF Spec, ImplementsService, Service!Spec
=============================================================================
