------------------------ MODULE FeedbackSessionProofs ------------------------
(***************************************************************************)
(* Proofs about FeedbackSession: snapshots are stable, and the session     *)
(* implements FeedbackService.  Both rest on one inductive invariant.      *)
(***************************************************************************)
EXTENDS FeedbackSession, SequenceTheorems, TLAPS

\* A record of the three fields of a retained tensor, on an owner of S.
IsTensor(x, S) ==
    /\ x = [owner |-> x.owner, len |-> x.len, cap |-> x.cap]
    /\ x.owner \in S
    /\ x.len \in 0..MaxRows

Labels == {"idle", "begun", "computed", "checked", "won", "published"}

IsCall(c) ==
    /\ c = [pc |-> c.pc, task |-> c.task, ctx |-> c.ctx, reusable |-> c.reusable, next |-> c.next]
    /\ c.pc \in Labels
    /\ c.task \in Tasks \cup {None}
    /\ c.reusable \in BOOLEAN
    /\ IsTensor(c.next, Owners \cup {None})

TypeOK ==
    /\ IsTensor(values, Owners)
    /\ mem \in [Owners -> [1..MaxRows -> Rows \cup {None}]]
    /\ \A v \in views : v.owner \in Owners /\ v.len \in 0..MaxRows
    /\ busy \in BOOLEAN
    /\ call = [t \in Threads |-> call[t]]
    /\ \A t \in Threads : IsCall(call[t])
    /\ status = [k \in Tasks |-> status[k]]

\* The first n rows of a block were written.
Written(o, n) == \A i \in 1..n : mem[o][i] \in Rows

\* Who is inside a call holds the busy flag, alone.
BusyInv ==
    /\ \A t \in Threads : call[t].pc # "idle" => busy
    /\ \A t, u \in Threads : call[t].pc # "idle" /\ call[u].pc # "idle" => t = u

\* Storage that was granted for reuse has no other holder until the kernel ran.
GrantInv ==
    \A t \in Threads : call[t].pc = "begun" /\ call[t].reusable =>
        \A v \in views : v.owner # values.owner

\* What the session and the views show was written.
WrittenInv ==
    /\ Written(values.owner, values.len)
    /\ \A v \in views : Written(v.owner, v.len)

\* The result of a call is one row, or the retained rows and one row.
ResultOf(x) ==
    /\ x.owner \in Owners
    /\ \/ x.len = 1
       \/ /\ x.len = values.len + 1
          /\ \A i \in 1..values.len : mem[x.owner][i] = mem[values.owner][i]
    /\ mem[x.owner][x.len] \in Rows
ResultInv ==
    \A t \in Threads : call[t].pc \in {"computed", "checked", "won"} => ResultOf(call[t].next)

\* A call that won has a task, a thread outside calls holds no storage.
CallInv ==
    \A t \in Threads : /\ call[t].pc = "won" => call[t].task \in Tasks
                       /\ call[t].pc = "idle" => call[t].next.owner = None

IInv == TypeOK /\ BusyInv /\ GrantInv /\ WrittenInv /\ ResultInv /\ CallInv /\ SnapshotStable
-----------------------------------------------------------------------------
(***************************************************************************)
(* Facts about the operators of the model.                                 *)
(***************************************************************************)

\* Changing the call of one thread leaves the others alone.
LEMMA OneCall ==
    ASSUME TypeOK, NEW t \in Threads, NEW c, call' = [call EXCEPT ![t] = c]
    PROVE  /\ call'[t] = c
           /\ \A u \in Threads : u # t => call'[u] = call[u]
           /\ call' = [u \in Threads |-> call'[u]]
BY DEF TypeOK

MovesTo(t, l) == call' = [call EXCEPT ![t].pc = l]
LEMMA MovedCall ==
    ASSUME TypeOK, NEW t \in Threads, NEW l, MovesTo(t, l)
    PROVE  /\ call'[t] = [pc |-> l, task |-> call[t].task, ctx |-> call[t].ctx,
                          reusable |-> call[t].reusable, next |-> call[t].next]
           /\ \A u \in Threads : u # t => call'[u] = call[u]
           /\ call' = [u \in Threads |-> call'[u]]
<1>1. call[t] = [pc |-> call[t].pc, task |-> call[t].task, ctx |-> call[t].ctx,
                 reusable |-> call[t].reusable, next |-> call[t].next]
  BY DEF TypeOK, IsCall
<1>2. call = [u \in Threads |-> call[u]]
  BY DEF TypeOK
<1>3. call' = [call EXCEPT ![t] = [@ EXCEPT !.pc = l]]
  BY DEF MovesTo
<1>4. [call[t] EXCEPT !.pc = l] =
          [pc |-> l, task |-> call[t].task, ctx |-> call[t].ctx,
           reusable |-> call[t].reusable, next |-> call[t].next]
  BY <1>1
<1>5. QED
  BY <1>2, <1>3, <1>4

ChangesTo(t, l, n) == call' = [call EXCEPT ![t].pc = l, ![t].next = n]
LEMMA ChangedCall ==
    ASSUME TypeOK, NEW t \in Threads, NEW l, NEW n, ChangesTo(t, l, n)
    PROVE  /\ call'[t] = [pc |-> l, task |-> call[t].task, ctx |-> call[t].ctx,
                          reusable |-> call[t].reusable, next |-> n]
           /\ \A u \in Threads : u # t => call'[u] = call[u]
           /\ call' = [u \in Threads |-> call'[u]]
<1>1. call[t] = [pc |-> call[t].pc, task |-> call[t].task, ctx |-> call[t].ctx,
                 reusable |-> call[t].reusable, next |-> call[t].next]
  BY DEF TypeOK, IsCall
<1>2. call = [u \in Threads |-> call[u]]
  BY DEF TypeOK
<1> DEFINE moved == [call[t] EXCEPT !.pc = l]
<1>3. call' = [call EXCEPT ![t] = [moved EXCEPT !.next = n]]
  BY <1>2 DEF ChangesTo
<1>4. moved = [pc |-> l, task |-> call[t].task, ctx |-> call[t].ctx,
               reusable |-> call[t].reusable, next |-> call[t].next]
  BY <1>1
<1> HIDE DEF moved
<1>5. [moved EXCEPT !.next = n] =
          [pc |-> l, task |-> call[t].task, ctx |-> call[t].ctx,
           reusable |-> call[t].reusable, next |-> n]
  BY <1>4
<1>6. QED
  BY <1>2, <1>3, <1>5

LEMMA CallRecord ==
    ASSUME NEW l \in Labels, NEW k \in Tasks \cup {None}, NEW x, NEW b \in BOOLEAN,
           NEW n, IsTensor(n, Owners \cup {None})
    PROVE  IsCall([pc |-> l, task |-> k, ctx |-> x, reusable |-> b, next |-> n])
BY DEF IsCall

\* A block that somebody still holds keeps its contents.
LEMMA Collection ==
    ASSUME TypeOK, mem' = Collected
    PROVE  /\ mem' \in [Owners -> [1..MaxRows -> Rows \cup {None}]]
           /\ values'.owner \in Owners => mem'[values'.owner] = mem[values'.owner]
           /\ \A v \in views' : v.owner \in Owners => mem'[v.owner] = mem[v.owner]
           /\ \A t \in Threads : call'[t].next.owner \in Owners
                  => mem'[call'[t].next.owner] = mem[call'[t].next.owner]
<1>1. Blank \in [1..MaxRows -> Rows \cup {None}]
  BY DEF Blank
<1>2. mem' \in [Owners -> [1..MaxRows -> Rows \cup {None}]]
  BY <1>1 DEF TypeOK, Collected
<1>3. ASSUME NEW o \in Owners, InUse(o)' PROVE mem'[o] = mem[o]
  BY <1>3 DEF Collected
<1>4. QED
  BY <1>2, <1>3 DEF InUse

\* A new block has no holder.
LEMMA NewBlock ==
    ASSUME Available # {}
    PROVE  /\ NewOwner \in Owners
           /\ values.owner # NewOwner
           /\ \A v \in views : v.owner # NewOwner
<1>1. NewOwner \in Available
  BY DEF NewOwner
<1>2. QED
  BY <1>1 DEF Available, InUse
-----------------------------------------------------------------------------
(***************************************************************************)
(* The invariant is inductive.                                             *)
(***************************************************************************)

\* The first state: one empty tensor, no call and no view.
LEMMA InitInv == Init => IInv
<1> SUFFICES ASSUME Init PROVE IInv
  OBVIOUS
<1> USE FeedbackAssumption
<1>1. values.owner \in Owners /\ values = [owner |-> values.owner, len |-> 0, cap |-> 0]
  BY DEF Init
<1>2. Blank \in [1..MaxRows -> Rows \cup {None}]
  BY DEF Blank
<1>3. \A t \in Threads : call[t] = Returned /\ IsCall(Returned)
  BY DEF Init, Returned, NoTensor, IsCall, IsTensor, Labels
<1>4. TypeOK
  <2>1. IsTensor(values, Owners)
    BY <1>1 DEF IsTensor
  <2>2. mem \in [Owners -> [1..MaxRows -> Rows \cup {None}]] /\ busy \in BOOLEAN
    BY <1>2 DEF Init
  <2>3. call = [t \in Threads |-> call[t]] /\ status = [k \in Tasks |-> status[k]]
    BY DEF Init
  <2>4. QED
    BY <1>3, <2>1, <2>2, <2>3 DEF Init, TypeOK
<1>5. BusyInv /\ GrantInv /\ ResultInv /\ CallInv
  BY <1>3 DEF Returned, NoTensor, BusyInv, GrantInv, ResultInv, CallInv
<1>6. WrittenInv /\ SnapshotStable
  BY <1>1 DEF Init, WrittenInv, Written, SnapshotStable
<1>7. QED
  BY <1>4, <1>5, <1>6 DEF IInv

\* The steps of the completions leave the session alone.
LEMMA TaskStep ==
    ASSUME IInv, UNCHANGED sessionVars, status' = [k \in Tasks |-> status'[k]]
    PROVE  IInv'
<1> USE DEF IInv, sessionVars
<1>1. TypeOK'
  BY DEF TypeOK, IsCall, IsTensor
<1>2. BusyInv' /\ GrantInv' /\ CallInv'
  BY DEF BusyInv, GrantInv, CallInv
<1>3. ResultInv' /\ WrittenInv'
  BY DEF ResultInv, ResultOf, WrittenInv, Written
<1>4. SnapshotStable'
  BY DEF SnapshotStable
<1>5. QED
  BY <1>1, <1>2, <1>3, <1>4

\* A call begins: the busy flag is taken, and the grant is decided from the views
\* that are left.
LEMMA BeginRunStep ==
    ASSUME IInv, NEW t \in Threads, NEW x \in Contexts, NEW k \in Tasks \cup {None},
           BeginRun(t, x, k)
    PROVE  IInv'
<1> DEFINE c == [pc |-> "begun", task |-> k, ctx |-> x, next |-> NoTensor,
                 reusable |-> values.cap # 0 /\ \A v \in views' : v.owner # values.owner]
<1>0. /\ call[t].pc = "idle" /\ ~busy /\ busy' = TRUE
      /\ views' \subseteq views /\ values' = values /\ status' = status
      /\ mem' = Collected
      /\ call' = [call EXCEPT ![t] = c]
      /\ TypeOK
  BY DEF BeginRun, taskVars, IInv
<1>1. /\ call'[t] = c /\ \A u \in Threads : u # t => call'[u] = call[u]
      /\ call' = [u \in Threads |-> call'[u]]
  <2> HIDE DEF c
  <2>1. QED
    BY <1>0, OneCall
<1>2. /\ c.pc = "begun" /\ c.next = NoTensor /\ c.reusable \in BOOLEAN
      /\ c.reusable => \A v \in views' : v.owner # values.owner
  OBVIOUS
<1>3. IsCall(c)
  BY FeedbackAssumption DEF IsCall, IsTensor, NoTensor, Labels
<1> HIDE DEF c
<1>4. \A u \in Threads : u # t => call[u].pc = "idle"
  BY <1>0 DEF IInv, BusyInv
<1>5. /\ mem' \in [Owners -> [1..MaxRows -> Rows \cup {None}]]
      /\ mem'[values.owner] = mem[values.owner]
      /\ \A v \in views' : mem'[v.owner] = mem[v.owner]
  BY <1>0, Collection DEF TypeOK, IsTensor
<1>6. TypeOK'
  BY <1>0, <1>1, <1>3, <1>5 DEF TypeOK, IsTensor, IsCall
<1>7. BusyInv'
  BY <1>0, <1>1, <1>4 DEF BusyInv
<1>8. GrantInv'
  BY <1>0, <1>1, <1>2, <1>4 DEF GrantInv
<1>9. WrittenInv' /\ SnapshotStable'
  BY <1>0, <1>5 DEF IInv, WrittenInv, Written, SnapshotStable
<1>10. ResultInv' /\ CallInv'
  BY <1>1, <1>2, <1>4 DEF IInv, ResultInv, CallInv
<1>11. QED
  BY <1>6, <1>7, <1>8, <1>9, <1>10 DEF IInv

\* The kernels append in place.  Nobody else sees the block, and the row they
\* write is beyond the retained ones.
LEMMA InPlaceWrites ==
    ASSUME IInv, NEW t \in Threads, call[t].pc = "begun", NEW r \in Rows,
           values.len < MaxRows, InPlace(t, r), values' = values
    PROVE  /\ mem' \in [Owners -> [1..MaxRows -> Rows \cup {None}]]
           /\ \A v \in views : mem'[v.owner] = mem[v.owner]
           /\ \A i \in 1..values.len : mem'[values.owner][i] = mem[values.owner][i]
           /\ IsTensor(call'[t].next, Owners)
           /\ ResultOf(call[t].next)'
<1>1. /\ mem \in [Owners -> [1..MaxRows -> Rows \cup {None}]]
      /\ values.owner \in Owners /\ values.len \in 0..MaxRows /\ MaxRows \in Nat
      /\ values = [owner |-> values.owner, len |-> values.len, cap |-> values.cap]
      /\ \A v \in views : v.owner \in Owners
      /\ TypeOK
  BY FeedbackAssumption DEF IInv, TypeOK, IsTensor
<1>2. \A v \in views : v.owner # values.owner
  BY DEF IInv, GrantInv, InPlace
<1>3. mem' = [mem EXCEPT ![values.owner][values.len + 1] = r]
  BY DEF InPlace
<1>4. /\ mem' \in [Owners -> [1..MaxRows -> Rows \cup {None}]]
      /\ \A o \in Owners : o # values.owner => mem'[o] = mem[o]
      /\ \A i \in 1..values.len : mem'[values.owner][i] = mem[values.owner][i]
      /\ mem'[values.owner][values.len + 1] = r
  BY <1>1, <1>3
<1>5. call'[t].next = [owner |-> values.owner, len |-> values.len + 1, cap |-> values.cap]
  <2>1. [values EXCEPT !.len = @ + 1]
            = [owner |-> values.owner, len |-> values.len + 1, cap |-> values.cap]
    BY <1>1
  <2>2. ChangesTo(t, "computed", [values EXCEPT !.len = @ + 1])
    BY DEF InPlace, ChangesTo
  <2>3. call'[t] = [pc |-> "computed", task |-> call[t].task, ctx |-> call[t].ctx,
                    reusable |-> call[t].reusable, next |-> [values EXCEPT !.len = @ + 1]]
    BY <1>1, <2>2, ChangedCall
  <2>4. QED
    BY <2>1, <2>3
<1>6. QED
  BY <1>1, <1>2, <1>4, <1>5 DEF IsTensor, ResultOf

\* The kernels relocate the value: a new block gets the retained rows and a row.
LEMMA RelocateWrites ==
    ASSUME IInv, NEW t \in Threads, NEW r \in Rows, values.len < MaxRows,
           Available # {}, Relocate(t, r, NewOwner), values' = values
    PROVE  /\ mem' \in [Owners -> [1..MaxRows -> Rows \cup {None}]]
           /\ \A v \in views : mem'[v.owner] = mem[v.owner]
           /\ \A i \in 1..values.len : mem'[values.owner][i] = mem[values.owner][i]
           /\ IsTensor(call'[t].next, Owners)
           /\ ResultOf(call[t].next)'
<1> DEFINE o == NewOwner
<1>0. o \in Owners /\ values.owner # o /\ \A v \in views : v.owner # o
  BY NewBlock
<1>1. /\ mem \in [Owners -> [1..MaxRows -> Rows \cup {None}]]
      /\ values.owner \in Owners /\ values.len \in 0..MaxRows /\ MaxRows \in Nat
      /\ \A v \in views : v.owner \in Owners
      /\ TypeOK
  BY FeedbackAssumption DEF IInv, TypeOK, IsTensor
<1>2. mem' = [mem EXCEPT ![o] = [mem[values.owner] EXCEPT ![values.len + 1] = r]]
  BY DEF Relocate
<1>3. /\ call'[t].next = [owner |-> o, len |-> values.len + 1,
                          cap |-> Grown(values.cap, values.len + 1)]
  <2> DEFINE n == [owner |-> o, len |-> values.len + 1,
                   cap |-> Grown(values.cap, values.len + 1)]
  <2>1. ChangesTo(t, "computed", n)
    BY DEF Relocate, ChangesTo
  <2> HIDE DEF n
  <2>2. call'[t] = [pc |-> "computed", task |-> call[t].task, ctx |-> call[t].ctx,
                    reusable |-> call[t].reusable, next |-> n]
    BY <1>1, <2>1, ChangedCall
  <2>3. QED
    BY <2>2 DEF n
<1> HIDE DEF o
<1>4. /\ mem' \in [Owners -> [1..MaxRows -> Rows \cup {None}]]
      /\ \A b \in Owners : b # o => mem'[b] = mem[b]
      /\ \A i \in 1..values.len : mem'[o][i] = mem[values.owner][i]
      /\ mem'[o][values.len + 1] = r
  BY <1>0, <1>1, <1>2
<1>5. QED
  BY <1>0, <1>1, <1>3, <1>4 DEF IsTensor, ResultOf

\* The kernels compute a new value in a new block.
LEMMA FreshWrites ==
    ASSUME IInv, NEW t \in Threads, NEW r \in Rows,
           Available # {}, Fresh(t, r, NewOwner), values' = values
    PROVE  /\ mem' \in [Owners -> [1..MaxRows -> Rows \cup {None}]]
           /\ \A v \in views : mem'[v.owner] = mem[v.owner]
           /\ \A i \in 1..values.len : mem'[values.owner][i] = mem[values.owner][i]
           /\ IsTensor(call'[t].next, Owners)
           /\ ResultOf(call[t].next)'
<1> DEFINE o == NewOwner
<1>0. o \in Owners /\ values.owner # o /\ \A v \in views : v.owner # o
  BY NewBlock
<1>1. /\ mem \in [Owners -> [1..MaxRows -> Rows \cup {None}]]
      /\ values.owner \in Owners /\ values.len \in 0..MaxRows /\ MaxRows \in Nat /\ MaxRows # 0
      /\ \A v \in views : v.owner \in Owners
      /\ TypeOK
  BY FeedbackAssumption DEF IInv, TypeOK, IsTensor
<1>2. mem' = [mem EXCEPT ![o][1] = r]
  BY DEF Fresh
<1>3. call'[t].next = [owner |-> o, len |-> 1, cap |-> 0]
  <2> DEFINE n == [owner |-> o, len |-> 1, cap |-> 0]
  <2>1. ChangesTo(t, "computed", n)
    BY DEF Fresh, ChangesTo
  <2> HIDE DEF n
  <2>2. call'[t] = [pc |-> "computed", task |-> call[t].task, ctx |-> call[t].ctx,
                    reusable |-> call[t].reusable, next |-> n]
    BY <1>1, <2>1, ChangedCall
  <2>3. QED
    BY <2>2 DEF n
<1> HIDE DEF o
<1>4. /\ mem' \in [Owners -> [1..MaxRows -> Rows \cup {None}]]
      /\ \A b \in Owners : b # o => mem'[b] = mem[b]
      /\ mem'[o][1] = r
  BY <1>0, <1>1, <1>2
<1>5. QED
  BY <1>0, <1>1, <1>3, <1>4 DEF IsTensor, ResultOf

\* What the three ways to compute have in common.
LEMMA ComputeWrites ==
    ASSUME IInv, NEW t \in Threads, Compute(t)
    PROVE  /\ mem' \in [Owners -> [1..MaxRows -> Rows \cup {None}]]
           /\ \A v \in views : mem'[v.owner] = mem[v.owner]
           /\ \A i \in 1..values.len : mem'[values.owner][i] = mem[values.owner][i]
           /\ IsTensor(call'[t].next, Owners)
           /\ ResultOf(call[t].next)'
           /\ \E n : ChangesTo(t, "computed", n)
<1>1. call[t].pc = "begun" /\ values' = values
  BY DEF Compute
<1>2. PICK r \in Rows :
          \/ values.len < MaxRows /\ InPlace(t, r)
          \/ values.len < MaxRows /\ Available # {} /\ Relocate(t, r, NewOwner)
          \/ Available # {} /\ Fresh(t, r, NewOwner)
  BY DEF Compute
<1>3. CASE values.len < MaxRows /\ InPlace(t, r)
  <2>1. \E n : ChangesTo(t, "computed", n)
    BY <1>3 DEF InPlace, ChangesTo
  <2>2. QED
    BY <1>1, <1>3, <2>1, InPlaceWrites
<1>4. CASE values.len < MaxRows /\ Available # {} /\ Relocate(t, r, NewOwner)
  <2>1. \E n : ChangesTo(t, "computed", n)
    BY <1>4 DEF Relocate, ChangesTo
  <2>2. QED
    BY <1>1, <1>4, <2>1, RelocateWrites
<1>5. CASE Available # {} /\ Fresh(t, r, NewOwner)
  <2>1. \E n : ChangesTo(t, "computed", n)
    BY <1>5 DEF Fresh, ChangesTo
  <2>2. QED
    BY <1>1, <1>5, <2>1, FreshWrites
<1>6. QED
  BY <1>2, <1>3, <1>4, <1>5

\* The kernels ran: the views show what they showed, and the alias a kernel may
\* leave in the context shows the result.
LEMMA ComputeStep ==
    ASSUME IInv, NEW t \in Threads, Compute(t)
    PROVE  IInv'
<1>0. /\ call[t].pc = "begun"
      /\ values' = values /\ busy' = busy /\ status' = status
      /\ TypeOK
  BY DEF Compute, taskVars, IInv
<1>1. /\ mem' \in [Owners -> [1..MaxRows -> Rows \cup {None}]]
      /\ \A v \in views : mem'[v.owner] = mem[v.owner]
      /\ \A i \in 1..values.len : mem'[values.owner][i] = mem[values.owner][i]
      /\ IsTensor(call'[t].next, Owners)
      /\ ResultOf(call[t].next)'
  BY ComputeWrites
<1>2. PICK n : ChangesTo(t, "computed", n)
  BY ComputeWrites
<1>3. /\ call'[t] = [pc |-> "computed", task |-> call[t].task, ctx |-> call[t].ctx,
                     reusable |-> call[t].reusable, next |-> n]
      /\ \A u \in Threads : u # t => call'[u] = call[u]
      /\ call' = [u \in Threads |-> call'[u]]
  BY <1>0, <1>2, ChangedCall
<1>4. call'[t].next = n /\ call'[t].pc = "computed" /\ call'[t].task = call[t].task
      /\ call'[t].reusable = call[t].reusable
  BY <1>3
<1>5. \A u \in Threads : u # t => call[u].pc = "idle"
  BY <1>0 DEF IInv, BusyInv
<1> DEFINE x == n
           alias == [holder |-> call[t].ctx, owner |-> n.owner, len |-> n.len,
                     rows |-> SubSeq(mem'[n.owner], 1, n.len)]
<1>6. views' \subseteq views \cup {alias}
  BY <1>4 DEF Compute
<1>7. /\ alias.owner = n.owner /\ alias.len = n.len
      /\ alias.rows = SubSeq(mem'[n.owner], 1, n.len)
  OBVIOUS
<1> HIDE DEF alias
<1>8. Written(n.owner, n.len)'
  <2>1. n.len \in 0..MaxRows /\ n.owner \in Owners
    BY <1>1, <1>4 DEF IsTensor
  <2>2. /\ n.len = 1 \/ (n.len = values.len + 1
                         /\ \A i \in 1..values.len : mem'[n.owner][i] = mem'[values.owner][i])
        /\ mem'[n.owner][n.len] \in Rows
    BY <1>0, <1>1, <1>4 DEF ResultOf
  <2>3. \A i \in 1..values.len : mem[values.owner][i] \in Rows
    BY DEF IInv, WrittenInv, Written
  <2>4. values.len \in Nat
    BY <1>0 DEF TypeOK, IsTensor
  <2>5. QED
    BY <1>1, <2>1, <2>2, <2>3, <2>4 DEF Written
<1>9. TypeOK'
  <2>1. IsTensor(n, Owners)
    BY <1>1, <1>4
  <2>2. \A v \in views' : v.owner \in Owners /\ v.len \in 0..MaxRows
    BY <1>0, <1>6, <1>7, <2>1 DEF TypeOK, IsTensor
  <2>3. IsTensor(values, Owners)'
    BY <1>0 DEF TypeOK, IsTensor
  <2>4. IsCall(call'[t])
    <3>1. IsTensor(n, Owners \cup {None})
      BY <2>1 DEF IsTensor
    <3>2. call[t].task \in Tasks \cup {None} /\ call[t].reusable \in BOOLEAN
      BY <1>0 DEF TypeOK, IsCall
    <3>3. QED
      BY <1>3, <3>1, <3>2, CallRecord DEF Labels
  <2>5. \A u \in Threads : IsCall(call'[u])
    BY <1>0, <1>3, <2>4 DEF TypeOK
  <2>6. QED
    BY <1>0, <1>1, <1>3, <2>2, <2>3, <2>5 DEF TypeOK
<1>10. BusyInv'
  BY <1>0, <1>3, <1>4, <1>5 DEF IInv, BusyInv
<1>11. GrantInv'
  BY <1>3, <1>4, <1>5 DEF GrantInv
<1>12. WrittenInv'
  BY <1>0, <1>1, <1>6, <1>7, <1>8 DEF IInv, WrittenInv, Written
<1>13. ResultInv'
  BY <1>1, <1>3, <1>5 DEF ResultInv
<1>14. CallInv'
  BY <1>3, <1>4, <1>5 DEF IInv, CallInv
<1>15. SnapshotStable'
  BY <1>1, <1>6, <1>7 DEF IInv, SnapshotStable
<1>16. QED
  BY <1>9, <1>10, <1>11, <1>12, <1>13, <1>14, <1>15 DEF IInv

\* A call that moves on without touching storage: CheckPending and Succeed.
LEMMA MoveStep ==
    ASSUME IInv, NEW t \in Threads, NEW l \in {"checked", "won"},
           call[t].pc \in {"computed", "checked"}, MovesTo(t, l),
           l = "won" => call[t].task \in Tasks,
           UNCHANGED <<values, mem, views, busy>>, status' = [k \in Tasks |-> status'[k]]
    PROVE  IInv'
<1>0. TypeOK /\ values' = values /\ mem' = mem /\ views' = views /\ busy' = busy
  BY DEF IInv
<1>1. /\ call'[t] = [pc |-> l, task |-> call[t].task, ctx |-> call[t].ctx,
                     reusable |-> call[t].reusable, next |-> call[t].next]
      /\ \A u \in Threads : u # t => call'[u] = call[u]
      /\ call' = [u \in Threads |-> call'[u]]
  BY <1>0, MovedCall
<1>2. call'[t].pc = l /\ call'[t].task = call[t].task /\ call'[t].next = call[t].next
  BY <1>1
<1>3. TypeOK'
  <2>1. IsCall(call'[t])
    <3>1. /\ call[t].task \in Tasks \cup {None} /\ call[t].reusable \in BOOLEAN
          /\ IsTensor(call[t].next, Owners \cup {None})
      BY <1>0 DEF TypeOK, IsCall
    <3>2. QED
      BY <1>1, <3>1, CallRecord DEF Labels
  <2>2. \A u \in Threads : IsCall(call'[u])
    BY <1>0, <1>1, <2>1 DEF TypeOK
  <2>3. QED
    BY <1>0, <1>1, <2>2 DEF TypeOK, IsTensor
<1>4. BusyInv'
  BY <1>0, <1>1, <1>2 DEF IInv, BusyInv
<1>5. GrantInv'
  BY <1>0, <1>1, <1>2 DEF IInv, GrantInv
<1>6. ResultInv' /\ CallInv'
  BY <1>0, <1>1, <1>2 DEF IInv, ResultInv, ResultOf, CallInv
<1>7. WrittenInv' /\ SnapshotStable'
  BY <1>0 DEF IInv, WrittenInv, Written, SnapshotStable
<1>8. QED
  BY <1>3, <1>4, <1>5, <1>6, <1>7 DEF IInv

\* The publication swaps the result in; all its rows were written.
LEMMA PublishStep ==
    ASSUME IInv, NEW t \in Threads, Publish(t)
    PROVE  IInv'
<1>0. /\ call[t].pc \in {"won", "checked"}
      /\ values' = call[t].next /\ mem' = mem /\ views' = views /\ busy' = busy
      /\ status' = status /\ TypeOK
      /\ ChangesTo(t, "published", values)
  BY DEF Publish, taskVars, IInv, ChangesTo
<1>1. /\ call'[t] = [pc |-> "published", task |-> call[t].task, ctx |-> call[t].ctx,
                     reusable |-> call[t].reusable, next |-> values]
      /\ \A u \in Threads : u # t => call'[u] = call[u]
      /\ call' = [u \in Threads |-> call'[u]]
  BY <1>0, ChangedCall
<1>2. call'[t].pc = "published" /\ \A u \in Threads : u # t => call[u].pc = "idle"
  BY <1>0, <1>1 DEF IInv, BusyInv
<1>3. IsTensor(call[t].next, Owners) /\ ResultOf(call[t].next)
  BY <1>0 DEF IInv, ResultInv, ResultOf, TypeOK, IsCall, IsTensor
<1>4. TypeOK'
  <2>1. IsCall(call'[t])
    <3>1. /\ call[t].task \in Tasks \cup {None} /\ call[t].reusable \in BOOLEAN
          /\ IsTensor(values, Owners \cup {None})
      BY <1>0 DEF TypeOK, IsCall, IsTensor
    <3>2. QED
      BY <1>1, <3>1, CallRecord DEF Labels
  <2>2. \A u \in Threads : IsCall(call'[u])
    BY <1>0, <1>1, <2>1 DEF TypeOK
  <2>3. QED
    BY <1>0, <1>1, <1>3, <2>2 DEF TypeOK
<1>5. Written(call[t].next.owner, call[t].next.len)
  BY <1>0, <1>3 DEF IInv, TypeOK, IsTensor, ResultOf, WrittenInv, Written
<1>6. WrittenInv' /\ SnapshotStable'
  BY <1>0, <1>5 DEF IInv, WrittenInv, Written, SnapshotStable
<1>7. BusyInv' /\ GrantInv' /\ ResultInv' /\ CallInv'
  BY <1>0, <1>1, <1>2 DEF IInv, BusyInv, GrantInv, ResultInv, CallInv
<1>8. QED
  BY <1>4, <1>6, <1>7 DEF IInv

\* The call returns or throws: blocks without a holder are given back, and the
\* views that remain, or that the client gets of the retained value, are intact.
LEMMA EndStep ==
    ASSUME IInv, NEW t \in Threads, call[t].pc # "idle",
           call' = [call EXCEPT ![t] = Returned], busy' = FALSE,
           values' = values, status' = status, mem' = Collected,
           views' \subseteq views \cup {View(Client, values)}
    PROVE  IInv'
<1>0. TypeOK /\ values.owner \in Owners /\ values.len \in 0..MaxRows
  BY DEF IInv, TypeOK, IsTensor
<1>1. /\ call'[t] = Returned /\ \A u \in Threads : u # t => call'[u] = call[u]
      /\ call' = [u \in Threads |-> call'[u]]
  BY <1>0, OneCall
<1>2. \A u \in Threads : u # t => call[u].pc = "idle"
  BY DEF IInv, BusyInv
<1>3. IsCall(Returned) /\ Returned.pc = "idle" /\ Returned.next.owner = None
  BY FeedbackAssumption DEF Returned, NoTensor, IsCall, IsTensor, Labels
<1>4. /\ View(Client, values).owner = values.owner /\ View(Client, values).len = values.len
      /\ View(Client, values).rows = SubSeq(mem[values.owner], 1, values.len)
  BY DEF View, Read
<1>5. \A v \in views' : v.owner \in Owners /\ v.len \in 0..MaxRows
  BY <1>0, <1>4 DEF TypeOK
<1>6. /\ mem' \in [Owners -> [1..MaxRows -> Rows \cup {None}]]
      /\ mem'[values.owner] = mem[values.owner]
      /\ \A v \in views' : mem'[v.owner] = mem[v.owner]
  BY <1>0, <1>5, Collection
<1>7. TypeOK'
  BY <1>0, <1>1, <1>3, <1>5, <1>6 DEF TypeOK, IsTensor
<1>8. BusyInv' /\ GrantInv' /\ ResultInv' /\ CallInv'
  BY <1>1, <1>2, <1>3 DEF IInv, BusyInv, GrantInv, ResultInv, CallInv
<1>9. WrittenInv'
  BY <1>0, <1>4, <1>6 DEF IInv, WrittenInv, Written
<1>10. SnapshotStable'
  BY <1>0, <1>4, <1>6 DEF IInv, SnapshotStable
<1>11. QED
  BY <1>7, <1>8, <1>9, <1>10 DEF IInv

\* Outside calls a client takes a view of the retained value or releases one.
LEMMA ViewStep ==
    ASSUME IInv, UNCHANGED <<values, busy, call, status>>,
           \/ /\ mem' = mem
              /\ \A t \in Threads : call[t].pc = "idle"
              /\ views' = views \cup {View(Client, values)}
           \/ mem' = Collected /\ views' \subseteq views
    PROVE  IInv'
<1>0. TypeOK /\ values' = values /\ call' = call /\ busy' = busy /\ status' = status
      /\ values.owner \in Owners /\ values.len \in 0..MaxRows
  BY DEF IInv, TypeOK, IsTensor
<1>1. /\ View(Client, values).owner = values.owner /\ View(Client, values).len = values.len
      /\ View(Client, values).rows = SubSeq(mem[values.owner], 1, values.len)
  BY DEF View, Read
<1>2. \A v \in views' : v.owner \in Owners /\ v.len \in 0..MaxRows
  BY <1>0, <1>1 DEF TypeOK
<1>3. /\ mem' \in [Owners -> [1..MaxRows -> Rows \cup {None}]]
      /\ mem'[values.owner] = mem[values.owner]
      /\ \A v \in views' : mem'[v.owner] = mem[v.owner]
      /\ \A t \in Threads : call[t].next.owner \in Owners
             => mem'[call[t].next.owner] = mem[call[t].next.owner]
  <2>1. CASE mem' = mem
    BY <1>0, <2>1 DEF TypeOK
  <2>2. CASE mem' = Collected
    BY <1>0, <1>2, <2>2, Collection
  <2>3. QED
    BY <2>1, <2>2
<1>4. views' \subseteq views \cup {View(Client, values)}
  OBVIOUS
<1>5. TypeOK'
  BY <1>0, <1>2, <1>3 DEF TypeOK, IsTensor, IsCall
<1>6. BusyInv' /\ CallInv'
  BY <1>0 DEF IInv, BusyInv, CallInv
<1>7. GrantInv'
  BY <1>0 DEF IInv, GrantInv
<1>8. ResultInv'
  BY <1>0, <1>3 DEF IInv, ResultInv, ResultOf
<1>9. WrittenInv'
  BY <1>0, <1>1, <1>3, <1>4 DEF IInv, WrittenInv, Written
<1>10. SnapshotStable'
  BY <1>0, <1>1, <1>3, <1>4 DEF IInv, SnapshotStable
<1>11. QED
  BY <1>5, <1>6, <1>7, <1>8, <1>9, <1>10 DEF IInv

\* The block a value of the client is copied to.
LEMMA ImportWrites ==
    ASSUME IInv, Available # {}, NEW r \in Rows, NEW n \in {0, 1},
           values' = [owner |-> NewOwner, len |-> n, cap |-> 0], views' = views,
           mem' = [Collected EXCEPT ![NewOwner][1] = IF n = 1 THEN r ELSE None]
    PROVE  /\ mem' \in [Owners -> [1..MaxRows -> Rows \cup {None}]]
           /\ \A v \in views : mem'[v.owner] = mem[v.owner]
           /\ n = 1 => mem'[NewOwner][1] = r
<1> DEFINE o == NewOwner
           m == Collected
           x == IF n = 1 THEN r ELSE None
<1>1. o \in Owners /\ \A v \in views : v.owner # o
  BY NewBlock
<1>2. MaxRows \in Nat /\ MaxRows # 0 /\ \A v \in views : v.owner \in Owners
  BY FeedbackAssumption DEF IInv, TypeOK
<1>3. m \in [Owners -> [1..MaxRows -> Rows \cup {None}]]
  BY DEF Collected, Blank, IInv, TypeOK
<1>4. \A v \in views : m[v.owner] = mem[v.owner]
  BY <1>2 DEF Collected, InUse
<1>5. x \in Rows \cup {None} /\ (n = 1 => x = r)
  OBVIOUS
<1> HIDE DEF o, m, x
<1>6. mem' = [m EXCEPT ![o][1] = x]
  BY DEF o, m, x
<1>7. /\ mem' \in [Owners -> [1..MaxRows -> Rows \cup {None}]]
      /\ \A b \in Owners : b # o => mem'[b] = m[b]
      /\ mem'[o][1] = x
  <2> DEFINE row == [m[o] EXCEPT ![1] = x]
  <2>1. m[o] \in [1..MaxRows -> Rows \cup {None}] /\ 1 \in 1..MaxRows
    BY <1>1, <1>2, <1>3
  <2>2. row \in [1..MaxRows -> Rows \cup {None}] /\ row[1] = x
    BY <1>5, <2>1
  <2>3. mem' = [m EXCEPT ![o] = row]
    BY <1>6
  <2> HIDE DEF row
  <2>4. QED
    BY <1>1, <1>3, <2>2, <2>3
<1>8. \A v \in views : mem'[v.owner] = mem[v.owner]
  BY <1>1, <1>2, <1>4, <1>7
<1>9. n = 1 => mem'[o][1] = r
  BY <1>5, <1>7
<1>10. QED
  BY <1>7, <1>8, <1>9 DEF o

\* Reset: the retained value becomes a view of a client or a copy of its storage.
LEMMA ResetStep ==
    ASSUME IInv, NEW t \in Threads, Reset(t)
    PROVE  IInv'
<1>0. /\ TypeOK /\ busy' = busy /\ call' = call /\ views' = views /\ status' = status
      /\ ~busy
  BY DEF Reset, taskVars, IInv
<1>1. \A u \in Threads : call[u].pc = "idle"
  BY <1>0 DEF IInv, BusyInv
<1>2. /\ IsTensor(values', Owners)
      /\ mem' \in [Owners -> [1..MaxRows -> Rows \cup {None}]]
      /\ \A v \in views : mem'[v.owner] = mem[v.owner]
      /\ Written(values.owner, values.len)'
  <2>1. CASE \E v \in views : /\ values' = [owner |-> v.owner, len |-> v.len, cap |-> 0]
                              /\ mem' = Collected
    <3>1. PICK v \in views : /\ values' = [owner |-> v.owner, len |-> v.len, cap |-> 0]
                             /\ mem' = Collected
      BY <2>1
    <3>2. v.owner \in Owners /\ v.len \in 0..MaxRows
      BY <1>0 DEF TypeOK
    <3>3. /\ mem' \in [Owners -> [1..MaxRows -> Rows \cup {None}]]
          /\ \A w \in views : mem'[w.owner] = mem[w.owner]
      BY <1>0, <3>1, Collection DEF TypeOK
    <3>4. QED
      BY <3>1, <3>2, <3>3 DEF IInv, IsTensor, WrittenInv, Written
  <2>2. CASE \E r \in Rows, n \in {0, 1} :
                 /\ Available # {}
                 /\ values' = [owner |-> NewOwner, len |-> n, cap |-> 0]
                 /\ mem' = [Collected EXCEPT ![NewOwner][1] = IF n = 1 THEN r ELSE None]
    <3>1. PICK r \in Rows, n \in {0, 1} :
                 /\ Available # {}
                 /\ values' = [owner |-> NewOwner, len |-> n, cap |-> 0]
                 /\ mem' = [Collected EXCEPT ![NewOwner][1] = IF n = 1 THEN r ELSE None]
      BY <2>2
    <3>2. /\ mem' \in [Owners -> [1..MaxRows -> Rows \cup {None}]]
          /\ \A v \in views : mem'[v.owner] = mem[v.owner]
          /\ n = 1 => mem'[NewOwner][1] = r
      BY <1>0, <3>1, ImportWrites
    <3>3. NewOwner \in Owners
      BY <3>1, NewBlock
    <3>4. values'.owner = NewOwner /\ values'.len = n
          /\ values' = [owner |-> values'.owner, len |-> values'.len, cap |-> values'.cap]
      BY <3>1
    <3>5. QED
      BY <3>2, <3>3, <3>4, FeedbackAssumption DEF IsTensor, Written
  <2>3. QED
    BY <2>1, <2>2 DEF Reset
<1>3. TypeOK'
  BY <1>0, <1>2 DEF TypeOK, IsTensor, IsCall
<1>4. BusyInv' /\ GrantInv' /\ ResultInv' /\ CallInv'
  BY <1>0, <1>1 DEF IInv, BusyInv, GrantInv, ResultInv, CallInv
<1>5. WrittenInv' /\ SnapshotStable'
  BY <1>0, <1>2 DEF IInv, WrittenInv, Written, SnapshotStable
<1>6. QED
  BY <1>3, <1>4, <1>5 DEF IInv

\* Every step keeps the invariant.
LEMMA NextInv == IInv /\ [Next]_vars => IInv'
<1> SUFFICES ASSUME IInv, [Next]_vars PROVE IInv'
  OBVIOUS
<1>0. status = [k \in Tasks |-> status[k]]
  BY DEF IInv, TypeOK
<1>1. ASSUME NEW t \in Threads, CheckPending(t) PROVE IInv'
  <2>1. MovesTo(t, "checked") /\ UNCHANGED <<values, mem, views, busy, status>>
    BY <1>1 DEF CheckPending, MovesTo, taskVars
  <2>2. call[t].pc = "computed"
    BY <1>1 DEF CheckPending
  <2>3. QED
    BY <1>0, <2>1, <2>2, MoveStep
<1>2. ASSUME NEW t \in Threads, Succeed(t) PROVE IInv'
  <2>1. MovesTo(t, "won") /\ UNCHANGED <<values, mem, views, busy>>
    BY <1>2 DEF Succeed, MovesTo
  <2>2. call[t].pc = "checked" /\ call[t].task \in Tasks
        /\ status' = [status EXCEPT ![call[t].task] = "succeeded"]
    BY <1>2 DEF Succeed
  <2>3. status' = [k \in Tasks |-> status'[k]]
    BY <1>0, <2>2
  <2>4. QED
    BY <2>1, <2>2, <2>3, MoveStep
<1>3. ASSUME NEW t \in Threads, ReturnOutputs(t) \/ Throw(t) PROVE IInv'
  <2>1. /\ call[t].pc # "idle" /\ call' = [call EXCEPT ![t] = Returned] /\ busy' = FALSE
        /\ values' = values /\ status' = status /\ mem' = Collected
        /\ views' \subseteq views \cup {View(Client, values)}
    BY <1>3 DEF ReturnOutputs, Throw, taskVars
  <2>2. QED
    BY <2>1, EndStep
<1>4. ASSUME NEW t \in Threads, Values(t) PROVE IInv'
  <2>1. \A u \in Threads : call[u].pc = "idle"
    BY <1>4 DEF Values, IInv, BusyInv
  <2>2. QED
    BY <1>4, <2>1, ViewStep DEF Values, taskVars
<1>5. ASSUME NEW v \in views, Drop(v) PROVE IInv'
  BY <1>5, ViewStep DEF Drop, taskVars
<1>6. ASSUME NEW k \in Tasks, MarkRunning(k) \/ Fail(k) \/ Cancel(k) \/ Suppress(k) \/ NotifyAll(k)
      PROVE IInv'
  <2>1. UNCHANGED sessionVars /\ status' = [j \in Tasks |-> status'[j]]
    BY <1>0, <1>6 DEF MarkRunning, Fail, Cancel, Suppress, NotifyAll
  <2>2. QED
    BY <2>1, TaskStep
<1>7. ASSUME NEW w \in Waiters, WakeUp(w) \/ \E k \in Tasks : Wait(w, k) PROVE IInv'
  <2>1. UNCHANGED sessionVars /\ status' = [j \in Tasks |-> status'[j]]
    BY <1>0, <1>7 DEF WakeUp, Wait
  <2>2. QED
    BY <2>1, TaskStep
<1>8. CASE UNCHANGED vars
  <2>1. UNCHANGED sessionVars /\ status' = [j \in Tasks |-> status'[j]]
    BY <1>0, <1>8 DEF vars, sessionVars
  <2>2. QED
    BY <2>1, TaskStep
<1>9. QED
  BY <1>1, <1>2, <1>3, <1>4, <1>5, <1>6, <1>7, <1>8, BeginRunStep, ComputeStep, PublishStep,
     ResetStep DEF Next, Advance

\* The invariant holds in every state.
THEOREM Invariant == Spec => []IInv
BY InitInv, NextInv, PTL DEF Spec

\* Whoever holds a result of an earlier call, a snapshot of Values() or an
\* intermediate result keeps seeing its rows, however many threads, contexts,
\* blocks and rows there are: the grant of the storage to an append
\* (PrepareAppend) is decided when nobody else holds it and stays valid until
\* the kernel has written.
THEOREM SnapshotsAreStable == Spec => []SnapshotStable
<1>1. IInv => SnapshotStable
  BY DEF IInv
<1>2. QED
  BY <1>1, Invariant, PTL
-----------------------------------------------------------------------------
(***************************************************************************)
(* The session implements FeedbackService.                                 *)
(***************************************************************************)

\* The first n rows of a block are a sequence of rows.
LEMMA RowsRead ==
    ASSUME NEW f, NEW n \in Nat, \A i \in 1..n : f[i] \in Rows
    PROVE  /\ SubSeq(f, 1, n) \in Seq(Rows)
           /\ Len(SubSeq(f, 1, n)) = n
           /\ \A i \in 1..n : SubSeq(f, 1, n)[i] = f[i]
<1>1. /\ SubSeq(f, 1, n) \in Seq(Rows)
      /\ Len(SubSeq(f, 1, n)) = IF 1 <= n THEN n - 1 + 1 ELSE 0
      /\ \A i \in 1 .. n - 1 + 1 : SubSeq(f, 1, n)[i] = f[1 + i - 1]
  BY SubSeqProperties
<1>2. QED
  BY <1>1

\* Equal rows read equal.
LEMMA RowsEqual ==
    ASSUME NEW f, NEW g, NEW n \in Nat, \A i \in 1..n : f[i] \in Rows /\ g[i] = f[i]
    PROVE  SubSeq(g, 1, n) = SubSeq(f, 1, n)
<1> DEFINE a == SubSeq(f, 1, n)
           b == SubSeq(g, 1, n)
<1>1. a \in Seq(Rows) /\ Len(a) = n /\ \A i \in 1..n : a[i] = f[i]
  BY RowsRead
<1>2. b \in Seq(Rows) /\ Len(b) = n /\ \A i \in 1..n : b[i] = g[i]
  BY RowsRead
<1> HIDE DEF a, b
<1>3. a = b
  BY <1>1, <1>2, SeqEqual
<1>4. QED
  BY <1>3 DEF a, b

\* One more row is an Append.
LEMMA RowsAppended ==
    ASSUME NEW f, NEW g, NEW n \in Nat, \A i \in 1..n : f[i] \in Rows /\ g[i] = f[i],
           g[n + 1] \in Rows
    PROVE  SubSeq(g, 1, n + 1) = Append(SubSeq(f, 1, n), g[n + 1])
<1> DEFINE a == SubSeq(f, 1, n)
           b == SubSeq(g, 1, n + 1)
           c == Append(a, g[n + 1])
<1>1. a \in Seq(Rows) /\ Len(a) = n /\ \A i \in 1..n : a[i] = f[i]
  BY RowsRead
<1>2. b \in Seq(Rows) /\ Len(b) = n + 1 /\ \A i \in 1..n + 1 : b[i] = g[i]
  <2>1. \A i \in 1..n + 1 : g[i] \in Rows
    <3>1. \A i \in 1..n + 1 : i \in 1..n \/ i = n + 1
      OBVIOUS
    <3>2. QED
      BY <3>1
  <2>2. QED
    BY <2>1, RowsRead
<1> HIDE DEF a, b
<1>3. c \in Seq(Rows) /\ Len(c) = n + 1 /\ \A i \in 1..n + 1 : c[i] = g[i]
  BY <1>1
<1> HIDE DEF c
<1>4. b = c
  BY <1>2, <1>3, SeqEqual
<1>5. QED
  BY <1>4 DEF a, b, c

LEMMA OneRow ==
    ASSUME NEW g, g[1] \in Rows
    PROVE  SubSeq(g, 1, 1) = <<g[1]>>
<1> DEFINE b == SubSeq(g, 1, 1)
           c == <<g[1]>>
<1>1. b \in Seq(Rows) /\ Len(b) = 1 /\ \A i \in 1..1 : b[i] = g[i]
  BY RowsRead
<1>2. c \in Seq(Rows) /\ Len(c) = 1 /\ c[1] = g[1]
  OBVIOUS
<1> HIDE DEF b, c
<1>3. b = c
  BY <1>1, <1>2, SeqEqual
<1>4. QED
  BY <1>3 DEF b, c

\* The value the service retains, read through the refinement mapping: the
\* result of the call that won, else what the session holds.
LEMMA RetainedByWinner ==
    ASSUME BusyInv, NEW t \in Threads, call[t].pc = "won"
    PROVE  Retained = Read(call[t].next)
<1>1. Won(t) /\ (CHOOSE u \in Threads : Won(u)) = t
  <2>1. \A u \in Threads : Won(u) => u = t
    BY DEF Won, BusyInv
  <2>2. Won(t)
    BY DEF Won
  <2>3. QED
    BY <2>1, <2>2
<1>2. QED
  BY <1>1 DEF Retained

LEMMA RetainedByWinnerNext ==
    ASSUME BusyInv', NEW t \in Threads, call'[t].pc = "won"
    PROVE  Retained' = Read(call[t].next)'
<1>1. Won(t)' /\ (CHOOSE u \in Threads : Won(u)') = t
  <2>1. \A u \in Threads : Won(u)' => u = t
    BY DEF Won, BusyInv
  <2>2. Won(t)'
    BY DEF Won
  <2>3. QED
    BY <2>1, <2>2
<1>2. QED
  BY <1>1 DEF Retained

LEMMA RetainedBySession ==
    /\ (\A u \in Threads : call[u].pc # "won") => Retained = Read(values)
    /\ (\A u \in Threads : call'[u].pc # "won") => Retained' = Read(values)'
BY DEF Retained, Won

\* Changing the call of one thread changes what the service knows of it only.
LEMMA OneActive ==
    ASSUME NEW t \in Threads, \A u \in Threads : u # t => call'[u] = call[u]
    PROVE  Active' = [Active EXCEPT ![t] = Active'[t]]
BY DEF Active

\* A step that keeps the session's rows and no winner keeps the retained value.
LEMMA SameRetained ==
    ASSUME IInv, values' = values,
           \A i \in 1..values.len : mem'[values.owner][i] = mem[values.owner][i],
           \A u \in Threads : call[u].pc # "won" /\ call'[u].pc # "won"
    PROVE  Retained' = Retained
<1>1. values.len \in Nat /\ \A i \in 1..values.len : mem[values.owner][i] \in Rows
  BY FeedbackAssumption DEF IInv, TypeOK, IsTensor, WrittenInv, Written
<1>2. Read(values)' = Read(values)
  BY <1>1, RowsEqual DEF Read
<1>3. QED
  BY <1>2, RetainedBySession

\* The first state of the session is the first state of the service.
LEMMA MapsInit == Init => Service!ServiceInit
<1> SUFFICES ASSUME Init PROVE Service!ServiceInit
  OBVIOUS
<1>1. \A t \in Threads : call[t].pc = "idle"
  BY DEF Init, Returned
<1>2. Retained = Read(values) /\ values.len = 0
  BY <1>1, RetainedBySession DEF Init
<1>3. Read(values) = <<>>
  BY <1>2, SubSeqEmpty DEF Read
<1>4. Active = [t \in Threads |-> NoCall]
  BY <1>1 DEF Active
<1>5. QED
  BY <1>2, <1>3, <1>4 DEF Init, Service!ServiceInit

\* A call that begins is a call of the service.
LEMMA MapsBeginRun ==
    ASSUME IInv, IInv', NEW t \in Threads, NEW x \in Contexts, NEW k \in Tasks \cup {None},
           BeginRun(t, x, k)
    PROVE  Service!ServiceNext
<1> DEFINE c == [pc |-> "begun", task |-> k, ctx |-> x, next |-> NoTensor,
                 reusable |-> values.cap # 0 /\ \A v \in views' : v.owner # values.owner]
           a == IF k = None THEN Plain ELSE k
<1>0. /\ ~busy /\ values' = values /\ status' = status /\ mem' = Collected
      /\ k \in Tasks => status[k] = "pending"
      /\ call' = [call EXCEPT ![t] = c]
      /\ TypeOK /\ values.owner \in Owners
  BY DEF BeginRun, taskVars, IInv, TypeOK, IsTensor
<1>1. c.pc = "begun" /\ c.task = k
  OBVIOUS
<1> HIDE DEF c
<1>2. call'[t] = c /\ \A u \in Threads : u # t => call'[u] = call[u]
  BY <1>0, OneCall
<1>3. \A u \in Threads : call[u].pc = "idle"
  BY <1>0 DEF IInv, BusyInv
<1>4. Retained' = Retained
  BY <1>0, <1>1, <1>2, <1>3, Collection, SameRetained
<1>5. Active' = [Active EXCEPT ![t] = a]
  <2>1. Active'[t] = a
    BY <1>1, <1>2 DEF Active
  <2>2. QED
    BY <1>2, <2>1, OneActive
<1>6. \A u \in Threads : Active[u] = NoCall
  BY <1>3 DEF Active
<1>7. a \in Tasks \cup {Plain} /\ (a \in Tasks => a = k)
  BY FeedbackAssumption
<1>8. Service!Start(t, a)
  BY <1>0, <1>4, <1>5, <1>6, <1>7 DEF Service!Start, Service!Idle
<1>9. QED
  BY <1>7, <1>8 DEF Service!ServiceNext

\* Computing, and the check before Succeed, are not visible.
LEMMA MapsCompute ==
    ASSUME IInv, IInv', NEW t \in Threads, Compute(t) \/ CheckPending(t)
    PROVE  UNCHANGED <<Retained, status, Active>>
<1>0. /\ TypeOK /\ values' = values /\ status' = status
      /\ call[t].pc \in {"begun", "computed"}
  BY DEF IInv, Compute, CheckPending, taskVars
<1>1. /\ \A i \in 1..values.len : mem'[values.owner][i] = mem[values.owner][i]
      /\ call'[t].pc \in {"computed", "checked"} /\ call'[t].task = call[t].task
      /\ \A u \in Threads : u # t => call'[u] = call[u]
  <2>1. CASE Compute(t)
    <3>1. PICK n : ChangesTo(t, "computed", n)
      BY <2>1, ComputeWrites
    <3>2. /\ call'[t] = [pc |-> "computed", task |-> call[t].task, ctx |-> call[t].ctx,
                         reusable |-> call[t].reusable, next |-> n]
          /\ \A u \in Threads : u # t => call'[u] = call[u]
      BY <1>0, <3>1, ChangedCall
    <3>3. QED
      BY <2>1, <3>2, ComputeWrites
  <2>2. CASE CheckPending(t)
    <3>1. MovesTo(t, "checked") /\ mem' = mem
      BY <2>2 DEF CheckPending, MovesTo
    <3>2. /\ call'[t] = [pc |-> "checked", task |-> call[t].task, ctx |-> call[t].ctx,
                         reusable |-> call[t].reusable, next |-> call[t].next]
          /\ \A u \in Threads : u # t => call'[u] = call[u]
      BY <1>0, <3>1, MovedCall
    <3>3. QED
      BY <3>1, <3>2
  <2>3. QED
    BY <2>1, <2>2
<1>2. \A u \in Threads : u # t => call[u].pc = "idle"
  BY <1>0 DEF IInv, BusyInv
<1>3. Retained' = Retained
  BY <1>0, <1>1, <1>2, SameRetained
<1>4. Active' = Active
  <2>1. \A u \in Threads : Active'[u] = Active[u]
    BY <1>0, <1>1 DEF Active
  <2>2. QED
    BY <2>1 DEF Active
<1>5. QED
  BY <1>0, <1>3, <1>4

\* The rows of a result extend or replace the retained ones.
LEMMA ResultRows ==
    ASSUME IInv, NEW t \in Threads, call[t].pc \in {"computed", "checked", "won"}
    PROVE  \E r \in Rows : Read(call[t].next) \in {Append(Read(values), r), <<r>>}
<1> DEFINE x == call[t].next
           f == mem[values.owner]
           g == mem[x.owner]
           r == g[x.len]
<1>1. values.len \in Nat /\ \A i \in 1..values.len : f[i] \in Rows
  BY FeedbackAssumption DEF IInv, TypeOK, IsTensor, WrittenInv, Written
<1>2. /\ r \in Rows
      /\ x.len = 1 \/ (x.len = values.len + 1 /\ \A i \in 1..values.len : g[i] = f[i])
  BY DEF IInv, ResultInv, ResultOf
<1>3. CASE x.len = 1
  BY <1>2, <1>3, OneRow DEF Read
<1>4. CASE x.len = values.len + 1 /\ \A i \in 1..values.len : g[i] = f[i]
  <2>1. g[values.len + 1] \in Rows
    BY <1>2, <1>4
  <2> HIDE DEF f, g
  <2>2. SubSeq(g, 1, values.len + 1) = Append(SubSeq(f, 1, values.len), g[values.len + 1])
    BY <1>1, <1>4, <2>1, RowsAppended
  <2>3. Read(x) = Append(Read(values), r)
    BY <1>4, <2>2 DEF Read, f, g
  <2>4. QED
    BY <1>2, <2>3
<1>5. QED
  BY <1>2, <1>3, <1>4

\* Succeed is the moment a call with a completion takes effect.
LEMMA MapsSucceed ==
    ASSUME IInv, IInv', NEW t \in Threads, Succeed(t)
    PROVE  Service!ServiceNext
<1>0. /\ TypeOK /\ values' = values /\ mem' = mem
      /\ call[t].pc = "checked" /\ call[t].task \in Tasks
      /\ ~IsTerminal(status[call[t].task])
      /\ status' = [status EXCEPT ![call[t].task] = "succeeded"]
      /\ MovesTo(t, "won")
  BY DEF IInv, Succeed, MovesTo
<1>1. /\ call'[t] = [pc |-> "won", task |-> call[t].task, ctx |-> call[t].ctx,
                     reusable |-> call[t].reusable, next |-> call[t].next]
      /\ \A u \in Threads : u # t => call'[u] = call[u]
  BY <1>0, MovedCall
<1>2. call'[t].pc = "won" /\ call'[t].next = call[t].next
  BY <1>1
<1>3. \A u \in Threads : call[u].pc # "won"
  BY <1>0 DEF IInv, BusyInv
<1>4. Retained = Read(values)
  BY <1>3, RetainedBySession
<1>5. Retained' = Read(call[t].next)
  BY <1>0, <1>2, RetainedByWinnerNext DEF IInv, Read
<1>6. \E r \in Rows : Retained' \in {Append(Retained, r), <<r>>}
  BY <1>0, <1>4, <1>5, ResultRows
<1>7. Active[t] = call[t].task /\ Active'[t] = Done
  BY <1>0, <1>2, FeedbackAssumption DEF Active
<1>8. Active' = [Active EXCEPT ![t] = Done]
  BY <1>1, <1>7, OneActive
<1>9. Service!TakeEffect(t)
  BY <1>0, <1>6, <1>7, <1>8, FeedbackAssumption
     DEF Service!TakeEffect, Service!Terminal, IsTerminal
<1>10. QED
  BY <1>9 DEF Service!ServiceNext

\* The publication is that moment for a call without a completion; for a call
\* that won it is not visible.
LEMMA MapsPublish ==
    ASSUME IInv, IInv', NEW t \in Threads, Publish(t)
    PROVE  Service!ServiceNext \/ UNCHANGED <<Retained, status, Active>>
<1>0. /\ TypeOK /\ values' = call[t].next /\ mem' = mem /\ status' = status
      /\ call[t].pc = IF call[t].task \in Tasks THEN "won" ELSE "checked"
      /\ ChangesTo(t, "published", values)
  BY DEF IInv, Publish, ChangesTo, taskVars
<1>1. /\ call'[t] = [pc |-> "published", task |-> call[t].task, ctx |-> call[t].ctx,
                     reusable |-> call[t].reusable, next |-> values]
      /\ \A u \in Threads : u # t => call'[u] = call[u]
  BY <1>0, ChangedCall
<1>2. call'[t].pc = "published"
  BY <1>1
<1>3. \A u \in Threads : u # t => call[u].pc = "idle"
  BY <1>0 DEF IInv, BusyInv
<1>4. Retained' = Read(call[t].next)
  <2>1. \A u \in Threads : call'[u].pc # "won"
    BY <1>1, <1>2, <1>3
  <2>2. QED
    BY <1>0, <2>1, RetainedBySession DEF Read
<1>5. CASE call[t].pc = "won"
  <2>1. Retained = Read(call[t].next)
    BY <1>5, RetainedByWinner DEF IInv
  <2>2. \A u \in Threads : Active'[u] = Active[u]
    BY <1>1, <1>2, <1>5 DEF Active
  <2>3. Active' = Active
    BY <2>2 DEF Active
  <2>4. QED
    BY <1>0, <1>4, <2>1, <2>3
<1>6. CASE call[t].pc = "checked"
  <2>1. Retained = Read(values)
    BY <1>3, <1>6, RetainedBySession
  <2>2. \E r \in Rows : Retained' \in {Append(Retained, r), <<r>>}
    BY <1>4, <1>6, <2>1, ResultRows
  <2>3. call[t].task = None
    BY <1>0, <1>6 DEF TypeOK, IsCall
  <2>4. Active[t] = Plain /\ Active'[t] = Done
    BY <1>2, <1>6, <2>3 DEF Active
  <2>5. Active' = [Active EXCEPT ![t] = Done]
    BY <1>1, <2>4, OneActive
  <2>6. Service!TakeEffect(t)
    BY <1>0, <2>2, <2>4, <2>5, FeedbackAssumption DEF Service!TakeEffect
  <2>7. QED
    BY <2>6 DEF Service!ServiceNext
<1>7. QED
  BY <1>0, <1>5, <1>6

\* A call returns or throws: it leaves the service, whether it took effect or not.
LEMMA MapsEnd ==
    ASSUME IInv, IInv', NEW t \in Threads, ReturnOutputs(t) \/ Throw(t)
    PROVE  Service!ServiceNext
<1>0. /\ TypeOK /\ values' = values /\ status' = status /\ mem' = Collected
      /\ call[t].pc \in {"begun", "computed", "checked", "published"}
      /\ call' = [call EXCEPT ![t] = Returned]
      /\ values.owner \in Owners
  BY DEF IInv, ReturnOutputs, Throw, taskVars, TypeOK, IsTensor
<1>1. call'[t] = Returned /\ \A u \in Threads : u # t => call'[u] = call[u]
  BY <1>0, OneCall
<1>2. call'[t].pc = "idle"
  BY <1>1 DEF Returned
<1>3. \A u \in Threads : u # t => call[u].pc = "idle"
  BY <1>0 DEF IInv, BusyInv
<1>4. Retained' = Retained
  BY <1>0, <1>1, <1>2, <1>3, Collection, SameRetained
<1>5. Active'[t] = NoCall
  BY <1>2 DEF Active
<1>6. Active' = [Active EXCEPT ![t] = NoCall]
  BY <1>1, <1>5, OneActive
<1>7. Active[t] # NoCall
  BY <1>0, FeedbackAssumption DEF Active, TypeOK, IsCall
<1>8. Service!Leave(t)
  BY <1>0, <1>4, <1>6, <1>7 DEF Service!Leave
<1>9. QED
  BY <1>8 DEF Service!ServiceNext

\* Reset replaces the value between calls.
LEMMA MapsReset ==
    ASSUME IInv, IInv', NEW t \in Threads, Reset(t)
    PROVE  Service!ServiceNext
<1>0. /\ call' = call /\ status' = status /\ ~busy
  BY DEF Reset, taskVars
<1>1. \A u \in Threads : call[u].pc = "idle"
  BY <1>0 DEF IInv, BusyInv
<1>2. Active' = Active /\ \A u \in Threads : Active[u] = NoCall
  BY <1>0, <1>1 DEF Active
<1>3. Retained' = Read(values)'
  BY <1>0, <1>1, RetainedBySession
<1>4. values'.len \in Nat /\ \A i \in 1..values'.len : mem'[values'.owner][i] \in Rows
  BY FeedbackAssumption DEF IInv, TypeOK, IsTensor, WrittenInv, Written
<1>5. Retained' \in Seq(Rows)
  BY <1>3, <1>4, RowsRead DEF Read
<1>6. Service!Replace
  BY <1>0, <1>2, <1>5 DEF Service!Replace, Service!Idle
<1>7. QED
  BY <1>6 DEF Service!ServiceNext

\* Taking and releasing views is not visible, whether or not a call has won.
LEMMA MapsViews ==
    ASSUME IInv, IInv', UNCHANGED <<values, call, status>>, mem' = mem \/ mem' = Collected
    PROVE  UNCHANGED <<Retained, status, Active>>
<1>0. TypeOK /\ values.owner \in Owners /\ values' = values /\ call' = call /\ status' = status
  BY DEF IInv, TypeOK, IsTensor
<1>1. Active' = Active
  BY <1>0 DEF Active
<1>2. Retained' = Retained
  <2>1. CASE \A u \in Threads : call[u].pc # "won"
    BY <1>0, <2>1, Collection, SameRetained
  <2>2. CASE \E u \in Threads : call[u].pc = "won"
    <3>1. PICK u \in Threads : call[u].pc = "won"
      BY <2>2
    <3>2. call[u].next.owner \in Owners
      BY <3>1 DEF IInv, ResultInv, ResultOf
    <3>3. mem'[call[u].next.owner] = mem[call[u].next.owner]
      BY <1>0, <3>2, Collection
    <3>4. Retained = Read(call[u].next)
      BY <3>1, RetainedByWinner DEF IInv
    <3>5. Retained' = Read(call[u].next)'
      BY <1>0, <3>1, RetainedByWinnerNext DEF IInv
    <3>6. QED
      BY <1>0, <3>3, <3>4, <3>5 DEF Read
  <2>3. QED
    BY <2>1, <2>2
<1>3. QED
  BY <1>0, <1>1, <1>2

\* A scheduler settles a task.
LEMMA MapsSettle ==
    ASSUME NEW k \in Tasks, MarkRunning(k) \/ Fail(k) \/ Cancel(k) \/ Suppress(k)
    PROVE  Service!ServiceNext
<1>0. UNCHANGED <<values, mem, call>>
  BY DEF MarkRunning, Fail, Cancel, Suppress, sessionVars
<1>1. Retained' = Retained /\ Active' = Active
  BY <1>0 DEF Retained, Read, Won, Active
<1>2. Service!Settle(k)
  BY <1>1 DEF Service!Settle, Service!Terminal, IsTerminal, MarkRunning, Fail, Cancel, Suppress
<1>3. QED
  BY <1>2 DEF Service!ServiceNext

\* Every step of the session is a step of the service or is not visible to it.
LEMMA MapsNext == IInv /\ IInv' /\ [Next]_vars => [Service!ServiceNext]_(Service!serviceVars)
<1> SUFFICES ASSUME IInv, IInv', [Next]_vars
             PROVE  Service!ServiceNext \/ UNCHANGED <<Retained, status, Active>>
  BY DEF Service!serviceVars
<1>1. ASSUME NEW t \in Threads, Values(t)
      PROVE  UNCHANGED <<Retained, status, Active>>
  BY <1>1, MapsViews DEF Values, taskVars
<1>2. ASSUME NEW v \in views, Drop(v)
      PROVE  UNCHANGED <<Retained, status, Active>>
  BY <1>2, MapsViews DEF Drop, taskVars
<1>3. ASSUME \/ \E k \in Tasks : NotifyAll(k)
             \/ \E w \in Waiters : WakeUp(w) \/ \E k \in Tasks : Wait(w, k)
             \/ UNCHANGED vars
      PROVE  UNCHANGED <<Retained, status, Active>>
  BY <1>3, MapsViews DEF NotifyAll, WakeUp, Wait, vars, sessionVars
<1>4. QED
  BY <1>1, <1>2, <1>3, MapsBeginRun, MapsCompute, MapsSucceed, MapsPublish, MapsEnd, MapsReset,
     MapsSettle DEF Next, Advance

\* A session with persistent values is one atomically replaced value: a call
\* takes effect once, when its completion succeeds (or when it publishes, without
\* a completion), with the rows that were retained at that moment, and publishes
\* exactly that before it returns; a call that was cancelled, failed, suppressed or
\* threw before leaves the value alone.
THEOREM SessionImplementsService == FairSpec => ImplementsService
<1>1. Spec => []IInv
  BY Invariant
<1>2. FairSpec => Spec
  BY PTL DEF FairSpec
<1>3. QED
  BY <1>1, <1>2, MapsInit, MapsNext, PTL DEF Spec, ImplementsService, Service!ServiceSpec
=============================================================================
