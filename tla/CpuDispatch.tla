----------------------------- MODULE CpuDispatch -----------------------------
(***************************************************************************)
(* CpuExecutor::ParallelFor (onnx_threads/src/cpu_executor.cc): the choice *)
(* between inline and parallel execution, the split of the iterations into *)
(* blocks, the thread-local bindings of nested calls, and the optional     *)
(* dispatch counters.                                                      *)
(*                                                                         *)
(* The pool behind an executor runs each block of a region once and        *)
(* returns when all have run, which is what ParallelPool, BoundedPool and  *)
(* RegionService are about; here the blocks of a call run in any order.    *)
(***************************************************************************)
EXTENDS Integers, Sequences, FiniteSets

CONSTANTS
    Threads,           \* threads that call ParallelFor
    Executors,
    Bounded,           \* the executors with allow_nested_parallelism
    Pinned,            \* the executors with a caller_processor
    EffectiveThreads,  \* policy.effective_threads of every executor
    MaxTotal,          \* bound on total
    MaxCalls,          \* bound on the calls of the whole run
    MaxDepth,          \* bound on the nesting of calls of one thread
    None

ASSUME DispatchAssumption == /\ Bounded \subseteq Executors
                             /\ Pinned \subseteq Executors
                             /\ EffectiveThreads \in Nat \ {0}
                             /\ MaxTotal \in Nat
                             /\ MaxCalls \in Nat
                             /\ MaxDepth \in Nat

\* CounterState: the dispatches and the ones that ran inline.
CounterStates == [dispatches : Nat, nested_inline : Nat, limited_inline : Nat]

\* Threads are finitely many, and nullptr is not a counter state.
ASSUME CounterAssumption == IsFiniteSet(Threads) /\ None \notin CounterStates

VARIABLES
    counters,  \* CounterState of each executor, None before EnableCounters
    stack,     \* the calls of each thread, the innermost last
    region,    \* ActiveCpuExecutorRegionSlot(), thread local
    current,   \* CurrentCpuExecutor(), thread local
    calls      \* number of calls so far

vars == <<counters, stack, region, current, calls>>

Init ==
    /\ counters = [e \in Executors |-> None]
    /\ stack = [t \in Threads |-> <<>>]
    /\ region = [t \in Threads |-> None]
    /\ current = [t \in Threads |-> None]
    /\ calls = 0

Top(t) == stack[t][Len(stack[t])]
Depth(t) == Len(stack[t])

MinOf(a, b) == IF a < b THEN a ELSE b

(***************************************************************************)
(* The split of [0, total) into blocks: BlockContext::Run.                 *)
(***************************************************************************)

BlockBegin(b, total, participants) ==
    b * (total \div participants) + MinOf(b, total % participants)

\* Mutant of BlockEnd: the remainder is not distributed.
BlockEndShort(b, total, participants) ==
    BlockBegin(b, total, participants) + (total \div participants)

BlockEnd(b, total, participants) ==
    BlockBegin(b, total, participants) + (total \div participants)
        + (IF b < total % participants THEN 1 ELSE 0)

BlockRange(b, total, participants) ==
    BlockBegin(b, total, participants) .. (BlockEnd(b, total, participants) - 1)

(***************************************************************************)
(* Counters.                                                               *)
(***************************************************************************)

Zero == [dispatches |-> 0, nested_inline |-> 0, limited_inline |-> 0]

EnableCounters(e) ==
    /\ counters[e] = None
    /\ counters' = [counters EXCEPT ![e] = Zero]
    /\ UNCHANGED <<stack, region, current, calls>>

\* fetch_add on a counter, when the call found counters at its start.
Bump(e, field, counted) ==
    counters' = IF counted THEN [counters EXCEPT ![e][field] = @ + 1] ELSE counters

(***************************************************************************)
(* ParallelFor.                                                            *)
(***************************************************************************)

\* The participants of a call that is not limited.
NumBlocks(total, limit) == MinOf(limit, total)

\* A thread calls from outside or from a callback that runs.
MayCall(t) ==
    /\ calls < MaxCalls
    /\ Depth(t) < MaxDepth
    /\ Depth(t) > 0 => /\ Top(t).phase = "run"
                       /\ Cardinality(Top(t).ran) < Top(t).participants

\* The call up to its first decision: count it, install the executor.
Call(t, e, total, limit, limited) ==
    /\ MayCall(t)
    /\ limit = 1 \/ total = 1 => limited
    /\ calls' = calls + 1
    /\ Bump(e, "dispatches", counters[e] # None)
    /\ stack' = [stack EXCEPT ![t] = Append(@,
            [executor |-> e, total |-> total,
             blocks |-> IF limited THEN 1 ELSE NumBlocks(total, limit),
             nested |-> region[t] = e, limited |-> limited,
             counted |-> counters[e] # None, phase |-> "choose",
             participants |-> 1, ran |-> {}, times |-> [i \in 0 .. (total - 1) |-> 0],
             was_current |-> current[t], was_region |-> region[t]])]
    /\ current' = [current EXCEPT ![t] = e]
    /\ UNCHANGED <<region>>

\* The calling thread cannot be pinned: the call throws after it was counted, and
\* before it installs anything.
PinFails(t, e) ==
    /\ MayCall(t)
    /\ e \in Pinned
    /\ region[t] = None
    /\ calls' = calls + 1
    /\ Bump(e, "dispatches", counters[e] # None)
    /\ UNCHANGED <<stack, region, current>>

\* The frame of the innermost call, changed, and the region slot of its blocks.
Enter(t, participants) ==
    /\ stack' = [stack EXCEPT ![t][Depth(t)].phase = "run",
                              ![t][Depth(t)].participants = participants]
    /\ region' = [region EXCEPT ![t] = Top(t).executor]

\* Nested or limited without bounded nesting: count it and run inline.
RunInline(t) ==
    /\ Depth(t) > 0
    /\ LET f == Top(t) IN
        /\ f.phase = "choose"
        /\ f.executor \notin Bounded
        /\ f.nested \/ f.limited
        /\ Bump(f.executor, IF f.nested THEN "nested_inline" ELSE "limited_inline",
                f.counted)
        /\ Enter(t, 1)
    /\ UNCHANGED <<current, calls>>

\* Otherwise the pool runs the blocks; bounded admission decides how many
\* participants there are, a plain pool takes them all.
Dispatch(t) ==
    /\ Depth(t) > 0
    /\ LET f == Top(t) IN
        /\ f.phase = "choose"
        /\ f.executor \in Bounded \/ ~(f.nested \/ f.limited)
        /\ \E p \in 1 .. f.blocks :
            /\ f.executor \notin Bounded => p = f.blocks
            /\ Enter(t, p)
    /\ UNCHANGED <<counters, current, calls>>

\* A block of the innermost call runs.
RunBlock(t, b) ==
    /\ Depth(t) > 0
    /\ LET f == Top(t) IN
        /\ f.phase = "run"
        /\ b \in (0 .. (f.participants - 1)) \ f.ran
        /\ stack' = [stack EXCEPT
              ![t][Depth(t)].ran = @ \cup {b},
              ![t][Depth(t)].times = [i \in DOMAIN @ |-> @[i] +
                  IF i \in BlockRange(b, f.total, f.participants) THEN 1 ELSE 0]]
    /\ UNCHANGED <<counters, region, current, calls>>

\* The call is gone: its scopes restore the bindings of the thread.
Unwind(t) ==
    /\ stack' = [stack EXCEPT ![t] = SubSeq(@, 1, Depth(t) - 1)]
    /\ region' = [region EXCEPT ![t] = Top(t).was_region]
    /\ current' = [current EXCEPT ![t] = Top(t).was_current]

\* Mutant of Return: the counter pointer is loaded again after the region.
ReturnReloads(t) ==
    /\ Depth(t) > 0
    /\ LET f == Top(t) IN
        /\ f.phase = "run"
        /\ Cardinality(f.ran) = f.participants
        /\ Bump(f.executor, IF f.nested THEN "nested_inline" ELSE "limited_inline",
                /\ f.executor \in Bounded
                /\ f.participants = 1
                /\ counters[f.executor] # None)
        /\ Unwind(t)
    /\ UNCHANGED <<calls>>

\* Every block ran: a bounded region that admitted nobody counts as inline, and
\* ParallelFor returns.
Return(t) ==
    /\ Depth(t) > 0
    /\ LET f == Top(t) IN
        /\ f.phase = "run"
        /\ Cardinality(f.ran) = f.participants
        /\ Bump(f.executor, IF f.nested THEN "nested_inline" ELSE "limited_inline",
                f.executor \in Bounded /\ f.participants = 1 /\ f.counted)
        /\ Unwind(t)
    /\ UNCHANGED <<calls>>

\* Mutant of Throw: the bindings are not restored by scopes.
ThrowKeepsBindings(t) ==
    /\ Depth(t) > 0
    /\ Top(t).phase = "run"
    /\ Top(t).executor \notin Bounded /\ (Top(t).nested \/ Top(t).limited)
    /\ Top(t).ran = {}
    /\ stack' = [stack EXCEPT ![t] = SubSeq(@, 1, Depth(t) - 1)]
    /\ UNCHANGED <<counters, region, current, calls>>

\* The callback of an inline call throws through ParallelFor.
Throw(t) ==
    /\ Depth(t) > 0
    /\ Top(t).phase = "run"
    /\ Top(t).executor \notin Bounded /\ (Top(t).nested \/ Top(t).limited)
    /\ Top(t).ran = {}
    /\ Unwind(t)
    /\ UNCHANGED <<counters, calls>>

Next ==
    \/ \E e \in Executors : EnableCounters(e)
    \/ \E t \in Threads, e \in Executors, total \in 1 .. MaxTotal,
          limit \in 1 .. EffectiveThreads, limited \in BOOLEAN :
        Call(t, e, total, limit, limited)
    \/ \E t \in Threads, e \in Executors : PinFails(t, e)
    \/ \E t \in Threads :
        \/ RunInline(t) \/ Dispatch(t) \/ Return(t) \/ Throw(t)
        \/ \E b \in 0 .. (EffectiveThreads - 1) : RunBlock(t, b)

Spec == Init /\ [][Next]_vars

-----------------------------------------------------------------------------
(***************************************************************************)
(* Properties.                                                             *)
(***************************************************************************)

\* When ParallelFor returns, the callback has been given every iteration exactly
\* once, for every total and every number of admitted participants.
EachIterationOnce ==
    \A t \in Threads : Depth(t) > 0 =>
        (Cardinality(Top(t).ran) = Top(t).participants =>
            \A i \in DOMAIN Top(t).times : Top(t).times[i] = 1)

\* A thread outside ParallelFor has no bindings; inside a callback the current
\* executor and the active region are those of its innermost running call,
\* through nesting on one or several executors, returns and exceptions.
BindingsRestored ==
    \A t \in Threads :
        /\ Depth(t) = 0 => current[t] = None /\ region[t] = None
        /\ Depth(t) > 0 => /\ current[t] = Top(t).executor
                           /\ Top(t).phase = "run" => region[t] = Top(t).executor

\* In memory the counters are consistent although EnableCounters may come in the
\* middle of a call: inline dispatches never outnumber dispatches.
CountersConsistent ==
    \A e \in Executors : counters[e] # None =>
        counters[e].nested_inline + counters[e].limited_inline <= counters[e].dispatches

=============================================================================
