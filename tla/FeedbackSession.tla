--------------------------- MODULE FeedbackSession ---------------------------
(***************************************************************************)
(* A RuntimeSession with one persistent binding (persistent_value_state.cc,*)
(* persistent_value.cc) and the TaskCompletion passed to its calls         *)
(* (task_completion.cc).  A call borrows the retained tensor, lets the     *)
(* kernel append to it in place when nobody else holds its storage, and    *)
(* publishes the result after its completion has won against Cancel.       *)
(* Storage is a set of owners (the shared_ptr of a retained tensor) with a *)
(* row per unit of the append axis; a view is a borrowed tensor that keeps *)
(* its owner alive.  A call that is refused (busy flag, completion not     *)
(* pending, other allocators) has no effect and is not a step.             *)
(***************************************************************************)
EXTENDS Naturals, Sequences, FiniteSets

CONSTANTS
    Threads,         \* threads that call Run, Reset and Values
    Contexts,        \* RuntimeContexts, which keep intermediate results
    AllocatorOf,     \* the allocators of every context
    Tasks,           \* TaskCompletions
    Waiters,         \* threads in TaskCompletion::Wait
    Owners,          \* storage blocks
    Rows,            \* contents of a row
    InitialCapacity, \* persistent_tensor_initial_capacity, in rows
    MaxRows,         \* bound: rows of a value
    MaxViews,        \* bound: views held by clients and contexts
    None,
    Client,          \* holder of the views that clients received
    NoCall, Plain, Done  \* values of the abstract service

ASSUME FeedbackAssumption ==
    /\ Owners # {}
    /\ MaxRows \in Nat \ {0}
    /\ None \notin Owners \cup Tasks
    /\ NoCall \notin Tasks \cup {Plain}
    /\ Done \notin Tasks \cup {Plain, NoCall}
    /\ Plain \notin Tasks

VARIABLES
    values,     \* values_: owner, extent and certified capacity
    mem,        \* contents of every storage block
    views,      \* borrowed tensors outside the session, with what they showed
    busy,       \* busy_
    captured,   \* allocators captured by the first call that started
    call,       \* the call of every thread
    status,     \* status of every completion
    unnotified, \* completions that ended and have not called notify_all yet
    waiter,     \* the completion every waiter sleeps on
    awake       \* waiters that were notified

vars == <<values, mem, views, busy, captured, call, status, unnotified, waiter, awake>>
sessionVars == <<values, mem, views, busy, captured, call>>
taskVars == <<status, unnotified, waiter, awake>>

IsTerminal(s) == s \in {"succeeded", "failed", "cancelled", "suppressed"}

\* The rows a tensor shows.
Read(x) == SubSeq(mem[x.owner], 1, x.len)
View(holder, x) == [holder |-> holder, owner |-> x.owner, len |-> x.len, rows |-> Read(x)]

NoTensor == [owner |-> None, len |-> 0, cap |-> 0]
Returned == [pc |-> "idle", task |-> None, ctx |-> None, reusable |-> FALSE, next |-> NoTensor]

InUse(o) ==
    \/ values.owner = o
    \/ \E v \in views : v.owner = o
    \/ \E t \in Threads : call[t].next.owner = o
\* A new block.  Which one is irrelevant: blocks are told apart only by who
\* holds them.
Available == {o \in Owners : ~InUse(o)}
NewOwner == CHOOSE o \in Available : TRUE
\* Storage loses its contents with its last holder.
Blank == [i \in 1..MaxRows |-> None]
Collected == [o \in Owners |-> IF InUse(o)' THEN mem[o] ELSE Blank]

Init ==
    /\ values = [owner |-> CHOOSE o \in Owners : TRUE, len |-> 0, cap |-> 0]
    /\ mem = [o \in Owners |-> Blank]
    /\ views = {}
    /\ busy = FALSE
    /\ captured = None
    /\ call = [t \in Threads |-> Returned]
    /\ status = [k \in Tasks |-> "pending"]
    /\ unnotified = {}
    /\ waiter = [w \in Waiters |-> None]
    /\ awake = {}
-----------------------------------------------------------------------------
\* Mutant of BeginRun: the storage is granted whoever else holds it.
BeginRunShared(t, x, k) ==
    /\ call[t].pc = "idle"
    /\ ~busy
    /\ k \in Tasks => status[k] = "pending"
    /\ captured \in {None, AllocatorOf[x]}
    /\ busy' = TRUE
    /\ views' = {v \in views : v.holder # x}
    /\ call' = [call EXCEPT ![t] =
          [pc |-> "begun", task |-> k, ctx |-> x, next |-> NoTensor, reusable |-> values.cap # 0]]
    /\ UNCHANGED <<values, captured, taskVars>>
    /\ mem' = Collected

\* RuntimeSession::Run up to the kernels: results of earlier calls leave the
\* context, and PrepareAppend grants the storage when its owner has one holder.
BeginRun(t, x, k) ==
    /\ call[t].pc = "idle"
    /\ ~busy
    /\ k \in Tasks => status[k] = "pending"
    /\ captured \in {None, AllocatorOf[x]}
    /\ busy' = TRUE
    /\ views' = {v \in views : v.holder # x}
    /\ call' = [call EXCEPT ![t] =
          [pc |-> "begun", task |-> k, ctx |-> x, next |-> NoTensor,
           reusable |-> values.cap # 0 /\ \A v \in views' : v.owner # values.owner]]
    /\ UNCHANGED <<values, captured, taskVars>>
    /\ mem' = Collected

\* AppendLease::Reserve: the capacity of a grown block, doubled until it fits.
Doubled(c) == {c * 2^n : n \in 0..MaxRows}
Grown(cap, required) ==
    LET first == IF cap > InitialCapacity THEN cap ELSE InitialCapacity
    IN  CHOOSE c \in Doubled(first) :
            c >= required /\ \A d \in Doubled(first) : d >= required => c <= d

\* What the kernel produces from the retained value and one new row.  A fresh
\* result carries no capacity.
InPlace(t, r) ==
    /\ call[t].reusable
    /\ values.len + 1 <= values.cap
    /\ mem' = [mem EXCEPT ![values.owner][values.len + 1] = r]
    /\ call' = [call EXCEPT ![t].pc = "computed",
                            ![t].next = [values EXCEPT !.len = @ + 1]]

Relocate(t, r, o) ==
    /\ InitialCapacity # 0
    /\ ~(call[t].reusable /\ values.len + 1 <= values.cap)
    /\ mem' = [mem EXCEPT ![o] = [mem[values.owner] EXCEPT ![values.len + 1] = r]]
    /\ call' = [call EXCEPT ![t].pc = "computed",
                            ![t].next = [owner |-> o, len |-> values.len + 1,
                                         cap |-> Grown(values.cap, values.len + 1)]]

Fresh(t, r, o) ==
    /\ mem' = [mem EXCEPT ![o][1] = r]
    /\ call' = [call EXCEPT ![t].pc = "computed",
                            ![t].next = [owner |-> o, len |-> 1, cap |-> 0]]

\* The kernels run: they append or compute, and may leave an alias of the result
\* among the intermediate results of the context.
Compute(t) ==
    /\ call[t].pc = "begun"
    /\ \E r \in Rows :
          \/ values.len < MaxRows /\ InPlace(t, r)
          \/ values.len < MaxRows /\ Available # {} /\ Relocate(t, r, NewOwner)
          \/ Available # {} /\ Fresh(t, r, NewOwner)
    /\ views' \in {views, views \cup
          {[holder |-> call[t].ctx, owner |-> call'[t].next.owner, len |-> call'[t].next.len,
            rows |-> SubSeq(mem'[call'[t].next.owner], 1, call'[t].next.len)]}}
    /\ Cardinality(views') <= MaxViews
    /\ UNCHANGED <<values, busy, captured, taskVars>>

\* The outputs were validated and the completion is still pending.
CheckPending(t) ==
    /\ call[t].pc = "computed"
    /\ call[t].task \in Tasks => status[call[t].task] = "pending"
    /\ call' = [call EXCEPT ![t].pc = "checked"]
    /\ UNCHANGED <<values, mem, views, busy, captured, taskVars>>

\* TaskCompletion::Succeed of the call.
Succeed(t) ==
    /\ call[t].pc = "checked"
    /\ call[t].task \in Tasks
    /\ ~IsTerminal(status[call[t].task])
    /\ status' = [status EXCEPT ![call[t].task] = "succeeded"]
    /\ unnotified' = unnotified \cup {call[t].task}
    /\ call' = [call EXCEPT ![t].pc = "won"]
    /\ UNCHANGED <<values, mem, views, busy, captured, waiter, awake>>

\* Mutant of Publish: the completion is tested once more before the swap, and the
\* values of a call whose Succeed has ended it are lost.
PublishIfPending(t) ==
    /\ call[t].pc = IF call[t].task \in Tasks THEN "won" ELSE "checked"
    /\ call[t].task \notin unnotified
    /\ values' = IF call[t].task \in Tasks THEN values ELSE call[t].next
    /\ call' = [call EXCEPT ![t].pc = "published", ![t].next = values]
    /\ UNCHANGED <<mem, views, busy, captured, taskVars>>

\* state.values_.swap(next), after the notification of Succeed.
Publish(t) ==
    /\ call[t].pc = IF call[t].task \in Tasks THEN "won" ELSE "checked"
    /\ call[t].task \notin unnotified
    /\ values' = call[t].next
    /\ call' = [call EXCEPT ![t].pc = "published", ![t].next = values]
    /\ UNCHANGED <<mem, views, busy, captured, taskVars>>

\* The call returns its output, which the client may keep.
ReturnOutputs(t) ==
    /\ call[t].pc = "published"
    /\ views' \in {views, views \cup {View(Client, values)}}
    /\ Cardinality(views') <= MaxViews
    /\ captured' = AllocatorOf[call[t].ctx]
    /\ busy' = FALSE
    /\ call' = [call EXCEPT ![t] = Returned]
    /\ UNCHANGED <<values, taskVars>>
    /\ mem' = Collected

\* The call throws: rejected feeds, a kernel, an invalid output, a completion
\* that ended, or RetainIOBackedStorage after the publication.  cleanup captures
\* the allocators of a call whose kernels had started.
Throw(t) ==
    /\ call[t].pc \in {"begun", "computed", "checked", "published"}
    /\ captured' \in {AllocatorOf[call[t].ctx]} \cup IF call[t].pc = "begun" THEN {captured} ELSE {}
    /\ busy' = FALSE
    /\ call' = [call EXCEPT ![t] = Returned]
    /\ UNCHANGED <<values, views, taskVars>>
    /\ mem' = Collected
-----------------------------------------------------------------------------
\* PersistentValueState::Reset with storage of the client or with a view that it
\* holds.  Imported storage has no certified capacity.
Reset(t) ==
    /\ call[t].pc = "idle"
    /\ ~busy
    /\ UNCHANGED <<views, busy, captured, call, taskVars>>
    /\ \/ \E v \in views :
              /\ values' = [owner |-> v.owner, len |-> v.len, cap |-> 0]
              /\ mem' = Collected
       \/ \E r \in Rows, n \in {0, 1} :
              /\ Available # {}
              /\ values' = [owner |-> NewOwner, len |-> n, cap |-> 0]
              /\ mem' = [Collected EXCEPT ![NewOwner][1] = IF n = 1 THEN r ELSE None]

\* PersistentValueState::Values.
Values(t) ==
    /\ call[t].pc = "idle"
    /\ ~busy
    /\ Cardinality(views) < MaxViews
    /\ views' = views \cup {View(Client, values)}
    /\ UNCHANGED <<values, mem, busy, captured, call, taskVars>>

\* A client releases a view, or clears a context that no call uses.
Drop(v) ==
    /\ \A t \in Threads : call[t].ctx # v.holder
    /\ views' = views \ {v}
    /\ UNCHANGED <<values, busy, captured, call, taskVars>>
    /\ mem' = Collected
-----------------------------------------------------------------------------
\* TaskCompletion::MarkRunning, Fail, Cancel and Suppress of a scheduler.
MarkRunning(k) ==
    /\ status[k] = "pending"
    /\ status' = [status EXCEPT ![k] = "running"]
    /\ UNCHANGED <<sessionVars, unnotified, waiter, awake>>

Fail(k) ==
    /\ ~IsTerminal(status[k])
    /\ status' = [status EXCEPT ![k] = "failed"]
    /\ unnotified' = unnotified \cup {k}
    /\ UNCHANGED <<sessionVars, waiter, awake>>

\* Mutant of Cancel: the waiters are not notified.
CancelSilently(k) ==
    /\ status[k] = "pending"
    /\ status' = [status EXCEPT ![k] = "cancelled"]
    /\ UNCHANGED <<sessionVars, unnotified, waiter, awake>>

Cancel(k) ==
    /\ status[k] = "pending"
    /\ status' = [status EXCEPT ![k] = "cancelled"]
    /\ unnotified' = unnotified \cup {k}
    /\ UNCHANGED <<sessionVars, waiter, awake>>

Suppress(k) ==
    /\ status[k] = "pending"
    /\ status' = [status EXCEPT ![k] = "suppressed"]
    /\ unnotified' = unnotified \cup {k}
    /\ UNCHANGED <<sessionVars, waiter, awake>>

\* completed.notify_all(), after the mutex was released.
NotifyAll(k) ==
    /\ k \in unnotified
    /\ unnotified' = unnotified \ {k}
    /\ awake' = awake \cup {w \in Waiters : waiter[w] = k}
    /\ UNCHANGED <<sessionVars, status, waiter>>

\* TaskCompletion::Wait sleeps unless the task has ended, and tests again when
\* it is woken.
Wait(w, k) ==
    /\ waiter[w] = None
    /\ ~IsTerminal(status[k])
    /\ waiter' = [waiter EXCEPT ![w] = k]
    /\ UNCHANGED <<sessionVars, status, unnotified, awake>>

WakeUp(w) ==
    /\ w \in awake
    /\ awake' = awake \ {w}
    /\ waiter' = [waiter EXCEPT ![w] = IF IsTerminal(status[@]) THEN None ELSE @]
    /\ UNCHANGED <<sessionVars, status, unnotified>>
-----------------------------------------------------------------------------
Advance(t) ==
    \/ Compute(t)
    \/ CheckPending(t)
    \/ Succeed(t)
    \/ Publish(t)
    \/ ReturnOutputs(t)
    \/ Throw(t)

Next ==
    \/ \E t \in Threads : \/ \E x \in Contexts, k \in Tasks \cup {None} : BeginRun(t, x, k)
                          \/ Advance(t)
                          \/ Reset(t)
                          \/ Values(t)
    \/ \E v \in views : Drop(v)
    \/ \E k \in Tasks : MarkRunning(k) \/ Fail(k) \/ Cancel(k) \/ Suppress(k) \/ NotifyAll(k)
    \/ \E w \in Waiters : WakeUp(w) \/ \E k \in Tasks : Wait(w, k)

Spec == Init /\ [][Next]_vars

\* A thread inside a call continues, a thread that ended a task notifies, and a
\* notified waiter runs.
FairSpec ==
    /\ Spec
    /\ \A t \in Threads : WF_vars(Advance(t))
    /\ \A k \in Tasks : WF_vars(NotifyAll(k))
    /\ \A w \in Waiters : WF_vars(WakeUp(w))
-----------------------------------------------------------------------------
\* Whoever holds a result of an earlier call, a snapshot of Values() or an
\* intermediate result of a context keeps seeing the rows it was given, although
\* later calls append in place, fail half-way or give storage back.
SnapshotStable == \A v \in views : SubSeq(mem[v.owner], 1, v.len) = v.rows

\* The session is a FeedbackService: a call takes effect in the step in which its
\* completion succeeds, a cancelled, failed or suppressed call and a call that
\* throws before that leave the retained rows as they were, a call that takes
\* effect extends or replaces the rows that were retained at that moment, and what
\* it made of them is what it publishes: from Succeed to its return, the swap and a
\* throw after it included, the retained rows do not change again.
Won(t) == call[t].pc = "won"
Retained == IF \E t \in Threads : Won(t)
            THEN Read(call[CHOOSE t \in Threads : Won(t)].next) ELSE Read(values)
Active == [t \in Threads |->
              IF call[t].pc = "idle" THEN NoCall
              ELSE IF call[t].pc \in {"won", "published"} THEN Done
              ELSE IF call[t].task = None THEN Plain ELSE call[t].task]
Service == INSTANCE FeedbackService WITH value <- Retained, active <- Active
ImplementsService == Service!ServiceSpec

\* Every thread in TaskCompletion::Wait returns once its task has ended, whichever
\* of Succeed, Fail, Cancel and Suppress ended it and however late it notifies.
WaitReturns == \A w \in Waiters, k \in Tasks :
    (waiter[w] = k /\ IsTerminal(status[k])) ~> (waiter[w] # k)
=============================================================================
