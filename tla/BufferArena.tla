----------------------------- MODULE BufferArena -----------------------------
(***************************************************************************)
(* The three RawBufferAllocators of raw_buffer_allocator.cc: the simple    *)
(* one, the ExecutionArena, which retains freed blocks up to a cap, and    *)
(* the IOArena, which also grows and exports blocks through leases that    *)
(* outlive the context that owns the arena.  Blocks are slots of buffers_; *)
(* bytes are abstracted to sizes.  A call that throws (no slot, a buffer   *)
(* that is not live) has no effect and is not a step.                      *)
(***************************************************************************)
EXTENDS Naturals, Sequences, FiniteSets, SequencesExt, FiniteSetsExt

CONSTANTS
    Kinds,       \* the allocators to check: "simple", "execution", "io"
    Capacity,    \* slots at construction
    MaxSlots,    \* bound: slots an IOArena grows to
    MaxBytes,    \* bound: bytes of one allocation
    Caps         \* retention caps

ASSUME ArenaAssumption ==
    /\ Kinds \subseteq {"simple", "execution", "io"}
    /\ Capacity \in Nat /\ MaxSlots \in Nat /\ Capacity <= MaxSlots
    /\ MaxBytes \in Nat /\ Caps \subseteq Nat

VARIABLES
    kind,    \* the class of the allocator
    cap,     \* retention_cap_
    pool,    \* buffers_ and the structures over its free slots
    live,    \* live_slots_ (index_map_ of the simple allocator)
    leased,  \* leased_slots_
    count,   \* total and peak bytes, allocated and leased blocks
    handles, \* AllocationHandles outside the allocator
    owned    \* the context still holds the allocator

vars == <<kind, cap, pool, live, leased, count, handles, owned>>

NoBytes == [size |-> 0, capacity |-> 0]
Slots == 1..Len(pool.buffers)

Init ==
    /\ kind \in Kinds
    /\ cap \in Caps
    /\ pool = [buffers |-> [i \in 1..Capacity |-> NoBytes],
               unused |-> Reverse([i \in 1..Capacity |-> i]),
               buckets |-> [c \in 0..MaxBytes |-> <<>>],
               lru |-> <<>>, retained |-> 0, slots |-> 0]
    /\ live = {}
    /\ leased = {}
    /\ count = [total |-> 0, peak |-> 0, allocated |-> 0, leased |-> 0]
    /\ handles = {}
    /\ owned = TRUE
-----------------------------------------------------------------------------
\* RawBuffer::resize of a block that is empty: its capacity grows to n exactly
\* or is kept.
Resized(b, n) == [size |-> n, capacity |-> IF n > b.capacity THEN n ELSE b.capacity]

\* The sequence without its element i: std::list::erase of the iterator kept for i,
\* std::vector::erase of what std::find finds.
Position(s, i) == CHOOSE k \in DOMAIN s : s[k] = i
Without(s, i) == RemoveAt(s, Position(s, i))

\* Mutant of TakeFree: the bytes of the block stay retained when it must grow.
TakeFreeGrown(c, n) ==
    LET i == Last(pool.buckets[c])
    IN  [pool EXCEPT !.buffers[i] = Resized(@, n), !.buckets[c] = Front(@),
                     !.lru = Without(@, i), !.slots = @ - 1,
                     !.retained = IF n > c THEN @ ELSE @ - c]

\* The last block of the bucket of capacity c is taken and resized.
TakeFree(c, n) ==
    LET i == Last(pool.buckets[c])
    IN  [pool EXCEPT !.buffers[i] = Resized(@, n), !.buckets[c] = Front(@),
                     !.lru = Without(@, i), !.slots = @ - 1, !.retained = @ - c]

\* The end of Allocate: slot i is live and its handle belongs to the caller.
HandOut(i, n) ==
    /\ live' = live \cup {i}
    /\ count' = [count EXCEPT !.total = @ + n, !.allocated = @ + 1,
                              !.peak = Max({@, count.total + n})]
    /\ handles' = handles \cup {[slot |-> i, size |-> n, lease |-> FALSE]}
    /\ UNCHANGED <<kind, cap, leased, owned>>

FreeCapacities == {c \in 0..MaxBytes : pool.buckets[c] # <<>>}
Fitting(n) == {c \in FreeCapacities : c >= n}

\* Allocate: the smallest bucket that fits, else an unused slot, else the largest
\* bucket, else a new slot of an IOArena.
AllocateFitting(n) ==
    /\ owned
    /\ Fitting(n) # {}
    /\ LET c == Min(Fitting(n))
       IN  pool' = TakeFree(c, n) /\ HandOut(Last(pool.buckets[c]), n)

AllocateUnused(n) ==
    /\ owned
    /\ Fitting(n) = {}
    /\ pool.unused # <<>>
    /\ pool' = [pool EXCEPT !.unused = Front(@), !.buffers[Last(pool.unused)] = Resized(@, n)]
    /\ HandOut(Last(pool.unused), n)

AllocateLargest(n) ==
    /\ owned
    /\ Fitting(n) = {} /\ pool.unused = <<>> /\ FreeCapacities # {}
    /\ LET c == Max(FreeCapacities)
       IN  pool' = TakeFree(c, n) /\ HandOut(Last(pool.buckets[c]), n)

AllocateNew(n) ==
    /\ owned
    /\ kind = "io"
    /\ FreeCapacities = {} /\ pool.unused = <<>>
    /\ Len(pool.buffers) < MaxSlots
    /\ pool' = [pool EXCEPT !.buffers = Append(@, [size |-> n, capacity |-> n])]
    /\ HandOut(Len(pool.buffers) + 1, n)

Allocate(n) == AllocateFitting(n) \/ AllocateUnused(n) \/ AllocateLargest(n) \/ AllocateNew(n)
-----------------------------------------------------------------------------
\* Mutant of EvictFirst: an evicted block stays in its bucket.
EvictFirstStaleBucket(p) ==
    LET i == Head(p.lru)
        c == p.buffers[i].capacity
    IN  [p EXCEPT !.buffers[i] = NoBytes, !.unused = Append(@, i), !.lru = Tail(@),
                  !.retained = @ - c, !.slots = @ - 1]

\* The block that was freed first loses its bytes and becomes unused.
EvictFirst(p) ==
    LET i == Head(p.lru)
        c == p.buffers[i].capacity
    IN  [p EXCEPT !.buffers[i] = NoBytes, !.buckets[c] = Without(@, i),
                  !.unused = Append(@, i), !.lru = Tail(@), !.retained = @ - c, !.slots = @ - 1]

\* The pool after each round of the loop of EnforceRetentionCap.
Evictions(p) ==
    LET after[k \in 0..Len(p.lru)] == IF k = 0 THEN p ELSE EvictFirst(after[k - 1])
    IN  after

\* EnforceRetentionCap: evict until the retained bytes fit or nothing is retained.
Enforce(p, limit) ==
    LET after == Evictions(p)
    IN  after[Min({k \in 0..Len(p.lru) : after[k].retained <= limit \/ k = Len(p.lru)})]

\* Slot i goes to the bucket of its capacity, or back to the unused slots of the
\* simple allocator.
Retire(i) ==
    LET c == pool.buffers[i].capacity
    IN  IF kind = "simple"
        THEN [pool EXCEPT !.buffers[i] = NoBytes, !.unused = Append(@, i)]
        ELSE Enforce([pool EXCEPT !.buffers[i].size = 0, !.buckets[c] = Append(@, i),
                                  !.lru = Append(@, i), !.retained = @ + c, !.slots = @ + 1],
                     cap)

\* AllocationHandle::Reset of a plain handle: Free.
Free(h) ==
    /\ ~h.lease
    /\ h.slot \in live /\ h.slot \notin leased
    /\ pool' = Retire(h.slot)
    /\ live' = live \ {h.slot}
    /\ count' = [count EXCEPT !.total = @ - pool.buffers[h.slot].size, !.allocated = @ - 1]
    /\ handles' = handles \ {h}
    /\ UNCHANGED <<kind, cap, leased, owned>>

\* Mutant of Export: the handle is not released when its block is leased.
ExportKeptHandle(h) ==
    /\ kind = "io"
    /\ ~h.lease
    /\ h.slot \in live /\ h.slot \notin leased
    /\ leased' = leased \cup {h.slot}
    /\ count' = [count EXCEPT !.allocated = @ - 1, !.leased = @ + 1]
    /\ handles' = handles \cup {[h EXCEPT !.lease = TRUE]}
    /\ UNCHANGED <<kind, cap, pool, live, owned>>

\* IOArena::Export through ExportHandle: the handle becomes a lease.
Export(h) ==
    /\ kind = "io"
    /\ ~h.lease
    /\ h.slot \in live /\ h.slot \notin leased
    /\ leased' = leased \cup {h.slot}
    /\ count' = [count EXCEPT !.allocated = @ - 1, !.leased = @ + 1]
    /\ handles' = (handles \ {h}) \cup {[h EXCEPT !.lease = TRUE]}
    /\ UNCHANGED <<kind, cap, pool, live, owned>>

\* IOLease::Reset and IOArena::ReturnLease, possibly after the context is gone.
ReturnLease(h) ==
    /\ h.lease
    /\ pool' = Retire(h.slot)
    /\ live' = live \ {h.slot}
    /\ leased' = leased \ {h.slot}
    /\ count' = [count EXCEPT !.total = @ - pool.buffers[h.slot].size, !.leased = @ - 1]
    /\ handles' = handles \ {h}
    /\ UNCHANGED <<kind, cap, owned>>
-----------------------------------------------------------------------------
SetRetentionCap(limit) ==
    /\ owned /\ kind # "simple"
    /\ cap' = limit
    /\ pool' = Enforce(pool, limit)
    /\ UNCHANGED <<kind, live, leased, count, handles, owned>>

\* Trim: every retained block loses its bytes, in the order of the buckets.
Trim ==
    /\ owned /\ kind # "simple"
    /\ LET free == FlattenSeq([c \in 1..MaxBytes + 1 |-> pool.buckets[c - 1]])
       IN  pool' = [pool EXCEPT
                !.buffers = [i \in DOMAIN @ |-> IF i \in Range(free) THEN NoBytes ELSE @[i]],
                !.unused = @ \o free,
                !.buckets = [c \in DOMAIN @ |-> <<>>],
                !.lru = <<>>, !.retained = 0, !.slots = 0]
    /\ UNCHANGED <<kind, cap, live, leased, count, handles, owned>>

ResetPeak ==
    /\ owned
    /\ count' = [count EXCEPT !.peak = count.total]
    /\ UNCHANGED <<kind, cap, pool, live, leased, handles, owned>>

\* The context is destroyed: its results first, then its reference to the
\* allocator.  Leases that clients hold keep an IOArena.
DropOwner ==
    /\ owned
    /\ \A h \in handles : h.lease
    /\ owned' = FALSE
    /\ UNCHANGED <<kind, cap, pool, live, leased, count, handles>>

Next ==
    \/ \E n \in 0..MaxBytes : Allocate(n)
    \/ \E h \in handles : Free(h) \/ Export(h) \/ ReturnLease(h)
    \/ \E limit \in Caps : SetRetentionCap(limit)
    \/ Trim
    \/ ResetPeak
    \/ DropOwner

Spec == Init /\ [][Next]_vars
-----------------------------------------------------------------------------
FreeSlots == Range(pool.lru)

\* Every slot is unused, retained or live, never two of these and never twice:
\* the eviction list and the capacity buckets name the same blocks, each in the
\* bucket of the capacity it really has, and unused slots hold no bytes.
SlotsPartitioned ==
    /\ IsInjective(pool.unused) /\ IsInjective(pool.lru)
    /\ Slots = Range(pool.unused) \cup FreeSlots \cup live
    /\ Range(pool.unused) \cap FreeSlots = {}
    /\ live \cap (Range(pool.unused) \cup FreeSlots) = {}
    /\ \A i \in Range(pool.unused) : pool.buffers[i] = NoBytes
    /\ \A c \in 0..MaxBytes :
          /\ IsInjective(pool.buckets[c])
          /\ Range(pool.buckets[c]) = {i \in FreeSlots : pool.buffers[i].capacity = c}

\* The running counters of the allocator are what a walk over its slots finds
\* (bytes handed out and retained, blocks allocated, leased and retained), and
\* the retained bytes are within the cap, whoever freed them and whenever the
\* cap was lowered.
RetentionExact ==
    /\ count.total = SumFunction([i \in live |-> pool.buffers[i].size])
    /\ count.peak >= count.total
    /\ count.allocated = Cardinality(live \ leased)
    /\ count.leased = Cardinality(leased)
    /\ pool.retained = SumFunction([i \in FreeSlots |-> pool.buffers[i].capacity])
    /\ pool.slots = Cardinality(FreeSlots)
    /\ pool.retained <= cap

\* A block belongs to one handle from Allocate to its return, and its bytes are
\* neither reused nor evicted meanwhile, also after the context that owns the
\* arena is gone.
HandlesExclusive ==
    /\ \A g, h \in handles : g.slot = h.slot => g = h
    /\ {h.slot : h \in handles} = live
    /\ \A h \in handles : /\ pool.buffers[h.slot].size = h.size
                          /\ h.lease <=> h.slot \in leased
                          /\ owned \/ h.lease
=============================================================================
