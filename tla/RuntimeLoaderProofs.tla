------------------------- MODULE RuntimeLoaderProofs -------------------------
(***************************************************************************)
(* Proofs about RuntimeLoader and the KernelPreparations it extends: the   *)
(* memory limit, the hand-over between loader and Reader, the books about  *)
(* consumed initializers, the readiness of nodes and that nothing is left  *)
(* behind, for every plan, every set of preparations and every limit.      *)
(***************************************************************************)
EXTENDS RuntimeLoader, FiniteSetTheorems, SequenceTheorems, WellFoundedInduction, TLAPS

LoadLabels == {"declare", "prepare", "prepared", "stop", "notifyStop", "join", "check", "leave",
               "abandon"}
RunLabels == {"idle", "inputs", "node", "enforce", "execute", "failed"}
Callers == {"prepared", "idle", "inputs", "enforce"}
ReaderLabels == {"none", "wait", "read", "notify", "notifyError", "done"}

\* The calling thread is inside LoadSessions.
InLoad == at \in LoadLabels \/ (at \in {"loop", "threw"} /\ caller = "prepared")

PrepStates == [complete : SUBSET Preps, queue : Seq(Preps), queued : SUBSET Preps,
               blocked : SUBSET Preps, pending : Int, limit : Int, mark : Nat]
ReaderStates == [pc : ReaderLabels, i : Nat, ready : Nat, taken : Nat, stopped : BOOLEAN,
                 error : BOOLEAN]

TypeOK ==
    /\ prep \in PrepStates
    /\ store \in Nat
    /\ consumable \subseteq Consumable /\ consumed \subseteq consumable
    /\ deferred \subseteq untyped
    /\ failed \in BOOLEAN
    /\ at \in LoadLabels \cup RunLabels \cup {"loop", "threw"}
    /\ caller \in Callers \cup {"none"}
    /\ at \in LoadLabels => caller \in {"none", "prepared"}
    /\ at \in {"loop", "threw"} => caller # "none"
    /\ limit \in Nat /\ reservation \in Int
    /\ overlap \in BOOLEAN /\ external \in SUBSET Initializers
    /\ item \in Nat /\ (at # "declare" => item # 0) /\ node \in Nat
    /\ before \subseteq consumed
    /\ reader \in ReaderStates

\* Before the declaration nothing has happened.
StartInv ==
    at = "declare" =>
        /\ prep = NoPreparations /\ store = SharedBytes /\ consumed = {} /\ ~failed
        /\ values \cap Initializers = {}
        /\ item = 0 /\ reader.pc = "none"
        /\ reader.i = 0 /\ reader.ready = 0 /\ reader.taken = 0

\* A sequence that lists a set without repetition.
Lists(s, S) == s \in Seq(S) /\ IsInjective(s) /\ Range(s) = S

\* The queue holds each queued preparation once, and none that is complete.
Sound(p) == p \in PrepStates /\ Lists(p.queue, p.queued) /\ p.queued \cap p.complete = {}
\* The count is exact until a failure.
Counted(p, f) == p.pending - Cardinality(Preps \ p.complete) \in IF f THEN 0..1 ELSE {0}
QueueInv ==
    /\ Sound(prep)
    /\ store <= SharedBytes + PreparedBytes(prep.complete)
    /\ at # "declare" => Counted(prep, failed)

\* Required inputs, as a list with an index.
Books(r) ==
    /\ r.names \in Seq(Names) /\ r.index = [w \in Consumable |-> r.index[w]]
    /\ IsInjective(r.names)
    /\ \A w \in consumable \cap Range(r.names) :
        r.index[w] \in 1..Len(r.names) /\ r.names[r.index[w]] = w
BooksInv ==
    at # "declare" =>
        /\ \A w \in consumed : Consumers(w) \subseteq prep.complete /\ w \notin values \ foreign
        /\ Books(required)
        /\ Range(required.names) = Range(RequiredInputs) \ consumed

\* Only initializers that the loader has reached are in the context or consumed.
ReachedInv ==
    InLoad => \A w \in (values \cup consumed) \cap Initializers :
        \E k \in 1..Len(Calls) : w = Calls[k] /\ k <= item /\ (at = "prepare" => k < item)

\* An external one was taken from the Reader before.
TakenInv ==
    InLoad /\ Overlapped => \A w \in (values \cup consumed) \cap external :
        \E k \in 1..Len(Queued) : w = Queued[k] /\ k <= reader.taken

\* The Reader's counters, and when it may be at work.
ReaderInv ==
    /\ ~Overlapped => reader.pc = "none"
    /\ reader.taken <= reader.ready /\ reader.ready <= reader.taken + 1
    /\ at # "declare" => reader.i = reader.ready + 1
    /\ reader.pc = "read" => reader.i <= reader.taken + 1 /\ reader.i <= Len(Queued)
    /\ reader.pc \in {"wait", "read", "notify", "notifyError"} =>
        \/ at \in {"stop", "notifyStop", "join"}
        \/ at \in {"prepare", "prepared"} /\ item <= Len(Calls)
        \/ at \in {"loop", "threw"} /\ caller = "prepared" /\ item <= Len(Calls)

\* Why the loader is on its way out.
FailInv ==
    /\ at = "threw" => failed
    /\ failed => at \in {"threw", "stop", "notifyStop", "join", "abandon", "failed", "idle"}
    /\ at \in {"stop", "notifyStop", "join"} =>
        failed \/ reader.error \/ item = Len(Calls) + 1

\* The limit of the last call, and what it left in the queue.
LimitInv ==
    /\ InLoad => reservation + store <= limit
    /\ at = "loop" =>
        prep.limit = IF caller = "prepared" THEN limit - reservation ELSE Unlimited
    /\ at \in {"prepared", "check"} /\ prep.pending # 0 =>
        prep.limit = limit - reservation /\ prep.queue = <<>>
    /\ at = "inputs" /\ prep.pending # 0 => prep.limit = Unlimited /\ prep.queue = <<>>

\* What was consumed before the current call has been taken off the reservation.
ReserveInv ==
    /\ reservation = Reservation - BytesOf(before)
    /\ ~failed /\ at \in {"declare", "prepare", "stop", "notifyStop", "join"} => before = consumed

\* A pending preparation that could run is queued, or the limit blocks it.
PendingInv ==
    /\ ~failed
    /\ \/ at \in {"prepare", "prepared", "stop", "notifyStop", "join", "check", "inputs"}
       \/ at = "loop" /\ caller \in {"prepared", "inputs"}
    => \A p \in Preps \ prep.complete : Ready(p) =>
        p \in prep.queued \/ (p \in prep.blocked /\ ~Fits(p, prep.limit))

\* The nodes that are left find their inputs, or an earlier one makes them.
RunInv ==
    /\ at \in {"node", "enforce", "execute"} \/ (at = "loop" /\ caller = "enforce") =>
        /\ node \in Nodes
        /\ \A m \in node..NumNodes : NodeInputs[m] \subseteq
               values \cup consumed \cup UNION {NodeOutputs[k] : k \in node..(m - 1)}
    /\ at = "execute" => PrepsOf(node) \subseteq prep.complete

IInv ==
    /\ TypeOK /\ StartInv /\ QueueInv /\ BooksInv /\ ReachedInv /\ TakenInv /\ ReaderInv
    /\ FailInv /\ LimitInv /\ ReserveInv /\ PendingInv /\ RunInv

-----------------------------------------------------------------------------
(***************************************************************************)
(* Induction on the natural numbers.                                       *)
(***************************************************************************)

\* A set of natural numbers has a least element.
LEMMA LeastNat == ASSUME NEW S, S \subseteq Nat, S # {} PROVE \E m \in S : \A k \in S : m <= k
<1>1. PICK R : R = OpToRel(<, Nat)
  OBVIOUS
<1>2. IsWellFoundedOn(R, Nat)
  BY <1>1, NatLessThanWellFounded
<1>3. \A k, m \in Nat : <<k, m>> \in R <=> k < m
  BY <1>1 DEF OpToRel
<1>4. PICK m \in S : \A k \in S : ~(<<k, m>> \in R)
  BY ONLY <1>2, S \subseteq Nat, S # {}, WFMin
<1>5. \A k \in S : ~(k < m) /\ k \in Nat /\ m \in Nat
  BY ONLY <1>3, <1>4, S \subseteq Nat
<1>6. \A k \in S : m <= k
  BY ONLY <1>5
<1> QED
  BY ONLY <1>6, m \in S

\* Induction, by the set of counterexamples.
LEMMA NoCounterexample ==
    ASSUME NEW B, B \subseteq Nat, 0 \notin B, \A n \in Nat : n \notin B => n + 1 \notin B
    PROVE  B = {}
<1> SUFFICES ASSUME B # {} PROVE FALSE
  OBVIOUS
<1>1. PICK m \in B : \A k \in B : m <= k
  BY LeastNat
<1>2. m - 1 \in Nat /\ m - 1 \notin B /\ (m - 1) + 1 = m
  BY <1>1
<1> QED
  BY <1>2

-----------------------------------------------------------------------------
(***************************************************************************)
(* Sums.                                                                   *)
(***************************************************************************)

Chosen(s) == CHOOSE x \in s : TRUE
SumBody(f, g, s) == IF s = {} THEN 0 ELSE f[Chosen(s)] + g[s \ {Chosen(s)}]

\* g gives the sum of f over every subset of S.
IsSum(f, S, g) == g = [s \in SUBSET S |-> SumBody(f, g, s)]

LEMMA SumDef ==
    ASSUME NEW f, NEW S PROVE SumFunctionOnSet(f, S) = (CHOOSE g : IsSum(f, S, g))[S]
BY DEF SumFunctionOnSet, FoldFunctionOnSet, MapThenFoldSet, Chosen, IsSum, SumBody

LEMMA ChosenFacts ==
    ASSUME NEW s, s # {}, IsFiniteSet(s)
    PROVE  /\ Chosen(s) \in s
           /\ IsFiniteSet(s \ {Chosen(s)})
           /\ Cardinality(s) \in Nat /\ Cardinality(s \ {Chosen(s)}) = Cardinality(s) - 1
<1>1. Chosen(s) \in s
  BY DEF Chosen
<1> QED
  BY <1>1, FS_RemoveElement, FS_CardinalityType

LEMMA SumExists ==
    ASSUME NEW S, IsFiniteSet(S), NEW f \in [S -> Nat]
    PROVE  \E g \in [SUBSET S -> Nat] : IsSum(f, S, g)
<1> DEFINE Upto(n, g) == \A s \in SUBSET S : Cardinality(s) <= n => g[s] = SumBody(f, g, s)
           B == {n \in Nat : ~ \E g \in [SUBSET S -> Nat] : Upto(n, g)}
<1>0. ASSUME NEW s \in SUBSET S
      PROVE  IsFiniteSet(s) /\ Cardinality(s) \in Nat /\ (Cardinality(s) = 0 <=> s = {})
  BY FS_Subset, FS_CardinalityType, FS_EmptySet
<1>1. 0 \notin B
  <2>1. PICK g : g = [s \in SUBSET S |-> 0]
    OBVIOUS
  <2>2. g \in [SUBSET S -> Nat]
    BY <2>1
  <2>3. Upto(0, g)
    BY <2>1, <1>0 DEF SumBody
  <2> QED
    BY <2>2, <2>3
<1>2. ASSUME NEW n \in Nat, n \notin B PROVE n + 1 \notin B
  <2>1. PICK g \in [SUBSET S -> Nat] : Upto(n, g)
    BY <1>2
  <2>2. PICK h : h = [s \in SUBSET S |-> IF Cardinality(s) <= n THEN g[s] ELSE SumBody(f, g, s)]
    OBVIOUS
  <2>3. ASSUME NEW s \in SUBSET S PROVE SumBody(f, g, s) \in Nat
    <3>1. CASE s = {}
      BY <3>1 DEF SumBody
    <3>2. CASE s # {}
      <4>1. Chosen(s) \in S /\ s \ {Chosen(s)} \in SUBSET S
        BY <3>2, <1>0, ChosenFacts
      <4> QED
        BY <3>2, <4>1, <2>1 DEF SumBody
    <3> QED
      BY <3>1, <3>2
  <2>4. h \in [SUBSET S -> Nat]
    BY <2>1, <2>2, <2>3
  <2>5. ASSUME NEW s \in SUBSET S, Cardinality(s) <= n + 1 PROVE h[s] = SumBody(f, h, s)
    <3>1. h[s] = SumBody(f, g, s)
      BY <2>1, <2>2
    <3>2. CASE s = {}
      BY <3>1, <3>2 DEF SumBody
    <3>3. CASE s # {}
      <4>1. s \ {Chosen(s)} \in SUBSET S /\ Cardinality(s \ {Chosen(s)}) <= n
        BY <3>3, <2>5, <1>0, ChosenFacts
      <4>2. h[s \ {Chosen(s)}] = g[s \ {Chosen(s)}]
        BY <4>1, <2>2
      <4> QED
        BY <3>1, <3>3, <4>2 DEF SumBody
    <3> QED
      BY <3>2, <3>3
  <2>6. Upto(n + 1, h)
    BY <2>5
  <2> QED
    BY <2>4, <2>6
<1>3. B = {}
  <2> HIDE DEF Upto
  <2>1. B \subseteq Nat
    OBVIOUS
  <2> HIDE DEF B
  <2> QED
    BY <2>1, <1>1, <1>2, NoCounterexample
<1>4. PICK g \in [SUBSET S -> Nat] : Upto(Cardinality(S), g)
  BY <1>3, FS_CardinalityType
<1>5. \A s \in SUBSET S : Cardinality(s) <= Cardinality(S)
  BY FS_Subset
<1>6. IsSum(f, S, g)
  BY <1>4, <1>5 DEF IsSum
<1> QED
  BY <1>6

\* The sum over a set depends only on what the function is there.
LEMMA SumAgree ==
    ASSUME NEW S, IsFiniteSet(S), NEW T, T \subseteq S, NEW f, NEW h,
           \A t \in T : f[t] = h[t],
           NEW u, IsSum(f, S, u), NEW v, IsSum(h, T, v)
    PROVE  \A s \in SUBSET T : u[s] = v[s]
<1> DEFINE B == {n \in Nat : \E s \in SUBSET T : Cardinality(s) = n /\ u[s] # v[s]}
<1>0. ASSUME NEW s \in SUBSET T
      PROVE  /\ IsFiniteSet(s) /\ Cardinality(s) \in Nat /\ (Cardinality(s) = 0 <=> s = {})
             /\ u[s] = SumBody(f, u, s) /\ v[s] = SumBody(h, v, s)
  BY FS_Subset, FS_CardinalityType, FS_EmptySet DEF IsSum
<1>1. 0 \notin B
  BY <1>0 DEF SumBody
<1>2. ASSUME NEW n \in Nat, n \notin B PROVE n + 1 \notin B
  <2> SUFFICES ASSUME NEW s \in SUBSET T, Cardinality(s) = n + 1 PROVE u[s] = v[s]
    OBVIOUS
  <2>1. s # {}
    BY <1>0
  <2>2. Chosen(s) \in T /\ s \ {Chosen(s)} \in SUBSET T /\ Cardinality(s \ {Chosen(s)}) = n
    BY <2>1, <1>0, ChosenFacts
  <2>3. u[s \ {Chosen(s)}] = v[s \ {Chosen(s)}]
    BY <2>2, <1>2
  <2>4. f[Chosen(s)] = h[Chosen(s)]
    BY <2>2
  <2> QED
    BY <1>0, <2>1, <2>3, <2>4 DEF SumBody
<1>3. B = {}
  <2>1. B \subseteq Nat
    OBVIOUS
  <2> HIDE DEF B
  <2> QED
    BY <2>1, <1>1, <1>2, NoCounterexample
<1> QED
  BY <1>0, <1>3

\* The elements may be summed in any order.
Splits(f, S, g) == \A s \in SUBSET S : \A x \in s : g[s] = f[x] + g[s \ {x}]

LEMMA SumSplit ==
    ASSUME NEW S, IsFiniteSet(S), NEW f \in [S -> Nat], NEW g \in [SUBSET S -> Nat],
           IsSum(f, S, g)
    PROVE  Splits(f, S, g)
<1> DEFINE B == {n \in Nat : \E s \in SUBSET S : Cardinality(s) = n
                                 /\ \E x \in s : g[s] # f[x] + g[s \ {x}]}
<1>0. ASSUME NEW s \in SUBSET S
      PROVE  /\ IsFiniteSet(s) /\ Cardinality(s) \in Nat /\ (Cardinality(s) = 0 <=> s = {})
             /\ g[s] = SumBody(f, g, s)
             /\ \A x \in s : s \ {x} \in SUBSET S /\ Cardinality(s \ {x}) = Cardinality(s) - 1
  BY FS_Subset, FS_CardinalityType, FS_EmptySet, FS_RemoveElement DEF IsSum
<1>1. 0 \notin B
  BY <1>0
<1>2. ASSUME NEW n \in Nat, n \notin B PROVE n + 1 \notin B
  <2> SUFFICES ASSUME NEW s \in SUBSET S, Cardinality(s) = n + 1, NEW x \in s
               PROVE  g[s] = f[x] + g[s \ {x}]
    OBVIOUS
  <2>1. PICK y : y = Chosen(s)
    OBVIOUS
  <2>2. y \in s
    BY <2>1, <1>0, ChosenFacts
  <2>3. g[s] = f[y] + g[s \ {y}]
    BY <1>0, <2>1, <2>2 DEF SumBody
  <2>4. CASE x = y
    BY <2>3, <2>4
  <2>5. CASE x # y
    <3>1. s \ {y} \in SUBSET S /\ x \in s \ {y} /\ Cardinality(s \ {y}) = n
      BY <1>0, <2>2, <2>5
    <3>2. s \ {x} \in SUBSET S /\ y \in s \ {x} /\ Cardinality(s \ {x}) = n
      BY <1>0, <2>2, <2>5
    <3>3. g[s \ {y}] = f[x] + g[(s \ {y}) \ {x}]
      BY <3>1, <1>2
    <3>4. g[s \ {x}] = f[y] + g[(s \ {x}) \ {y}]
      BY <3>2, <1>2
    <3>5. (s \ {y}) \ {x} = (s \ {x}) \ {y}
      OBVIOUS
    <3>6. (s \ {x}) \ {y} \in SUBSET S /\ x \in S /\ y \in S
      BY <2>2
    <3>7. f[x] \in Nat /\ f[y] \in Nat /\ g[(s \ {x}) \ {y}] \in Nat
      BY <3>6
    <3>8. PICK a, b, c : a = f[x] /\ b = f[y] /\ c = g[(s \ {x}) \ {y}]
      OBVIOUS
    <3>9. g[s \ {y}] = a + c /\ g[s \ {x}] = b + c
      BY <3>3, <3>4, <3>5, <3>8
    <3> QED
      BY <2>3, <3>7, <3>8, <3>9
  <2> QED
    BY <2>4, <2>5
<1>3. B = {}
  <2>1. B \subseteq Nat
    OBVIOUS
  <2> HIDE DEF B
  <2> QED
    BY <2>1, <1>1, <1>2, NoCounterexample
<1> QED
  BY <1>0, <1>3 DEF Splits

LEMMA SumIs ==
    ASSUME NEW S, IsFiniteSet(S), NEW f \in [S -> Nat]
    PROVE  \E g \in [SUBSET S -> Nat] : IsSum(f, S, g) /\ SumFunctionOnSet(f, S) = g[S]
<1>1. PICK w \in [SUBSET S -> Nat] : IsSum(f, S, w)
  BY SumExists
<1>2. PICK g : g = CHOOSE h : IsSum(f, S, h)
  OBVIOUS
<1>3. IsSum(f, S, g)
  BY <1>1, <1>2
<1>4. \A s \in SUBSET S : w[s] = g[s]
  BY <1>1, <1>3, SumAgree
<1>5. g \in [SUBSET S -> Nat]
  BY <1>1, <1>3, <1>4 DEF IsSum
<1>6. SumFunctionOnSet(f, S) = g[S]
  BY <1>2, SumDef
<1> QED
  BY <1>3, <1>5, <1>6

LEMMA SumType ==
    ASSUME NEW S, IsFiniteSet(S), NEW f \in [S -> Nat]
    PROVE  SumFunction(f) \in Nat
<1>1. DOMAIN f = S /\ S \in SUBSET S
  OBVIOUS
<1>2. PICK g \in [SUBSET S -> Nat] : SumFunctionOnSet(f, S) = g[S]
  BY ONLY IsFiniteSet(S), f \in [S -> Nat], SumIs
<1> QED
  BY <1>1, <1>2 DEF SumFunction

LEMMA SumEmpty == ASSUME NEW f \in [{} -> Nat] PROVE SumFunction(f) = 0
<1>1. PICK g \in [SUBSET {} -> Nat] : IsSum(f, {}, g) /\ SumFunctionOnSet(f, {}) = g[{}]
  BY SumIs, FS_EmptySet
<1>2. DOMAIN f = {}
  OBVIOUS
<1> QED
  BY <1>1, <1>2 DEF SumFunction, IsSum, SumBody

LEMMA SumRemove ==
    ASSUME NEW S, IsFiniteSet(S), NEW x \in S,
           NEW f \in [S -> Nat], NEW h \in [S \ {x} -> Nat],
           \A t \in S \ {x} : f[t] = h[t]
    PROVE  SumFunction(f) = f[x] + SumFunction(h)
<1> DEFINE T == S \ {x}
<1>1. PICK u \in [SUBSET S -> Nat] : IsSum(f, S, u) /\ SumFunctionOnSet(f, S) = u[S]
  BY SumIs
<1>2. IsFiniteSet(T) /\ T \subseteq S
  BY FS_RemoveElement
<1>3. PICK v \in [SUBSET T -> Nat] : IsSum(h, T, v) /\ SumFunctionOnSet(h, T) = v[T]
  BY <1>2, SumIs
<1>4. u[T] = v[T]
  <2> HIDE DEF T
  <2> QED
    BY <1>1, <1>2, <1>3, SumAgree DEF T
<1>5. u[S] = f[x] + u[T]
  <2>1. S \in SUBSET S
    OBVIOUS
  <2>2. Splits(f, S, u)
    <3>1. IsSum(f, S, u) /\ u \in [SUBSET S -> Nat]
      BY <1>1
    <3> QED
      BY ONLY IsFiniteSet(S), f \in [S -> Nat], <3>1, SumSplit
  <2> QED
    BY <2>1, <2>2 DEF Splits
<1>6. DOMAIN f = S /\ DOMAIN h = T
  OBVIOUS
<1> QED
  BY <1>1, <1>3, <1>4, <1>5, <1>6 DEF SumFunction

-----------------------------------------------------------------------------
(***************************************************************************)
(* Lists without repetition.                                               *)
(***************************************************************************)

LEMMA ListsFacts ==
    ASSUME NEW s, NEW S, Lists(s, S)
    PROVE  /\ s \in Seq(S) /\ Len(s) \in Nat /\ DOMAIN s = 1..Len(s)
           /\ \A k \in 1..Len(s) : s[k] \in S
           /\ \A x \in S : \E k \in 1..Len(s) : s[k] = x
           /\ \A k, m \in 1..Len(s) : s[k] = s[m] => k = m
<1>1. s \in Seq(S) /\ DOMAIN s = 1..Len(s) /\ Len(s) \in Nat
  BY DEF Lists
<1> QED
  BY <1>1 DEF Lists, IsInjective, Range

LEMMA ListsIf ==
    ASSUME NEW s, NEW T, s \in Seq(T), NEW S,
           \A k \in 1..Len(s) : s[k] \in S,
           \A x \in S : \E k \in 1..Len(s) : s[k] = x,
           \A k, m \in 1..Len(s) : s[k] = s[m] => k = m
    PROVE  Lists(s, S)
<1>1. DOMAIN s = 1..Len(s) /\ Len(s) \in Nat /\ s = [k \in 1..Len(s) |-> s[k]]
  OBVIOUS
<1>2. s \in [1..Len(s) -> S]
  BY <1>1
<1>3. s \in Seq(S)
  BY <1>1, <1>2
<1> QED
  BY <1>1, <1>3 DEF Lists, IsInjective, Range

LEMMA SeqOfMore == ASSUME NEW S, NEW T, S \subseteq T, NEW s \in Seq(S) PROVE s \in Seq(T)
<1>1. Len(s) \in Nat /\ DOMAIN s = 1..Len(s) /\ s = [k \in 1..Len(s) |-> s[k]]
  OBVIOUS
<1>2. \A k \in 1..Len(s) : s[k] \in T
  BY <1>1
<1>3. s \in [1..Len(s) -> T]
  BY <1>1, <1>2
<1> QED
  BY <1>1, <1>3

LEMMA ListsConcat ==
    ASSUME NEW s, NEW S, Lists(s, S), NEW t, NEW T, Lists(t, T), S \cap T = {}
    PROVE  /\ Lists(s \o t, S \cup T) /\ Len(s \o t) = Len(s) + Len(t)
           /\ \A k \in 1..Len(s) : (s \o t)[k] = s[k]
           /\ \A k \in 1..Len(t) : (s \o t)[Len(s) + k] = t[k]
<1>1. /\ s \in Seq(S) /\ Len(s) \in Nat
      /\ \A k \in 1..Len(s) : s[k] \in S
      /\ \A y \in S : \E k \in 1..Len(s) : s[k] = y
      /\ \A k, m \in 1..Len(s) : s[k] = s[m] => k = m
  BY ListsFacts
<1>2. /\ t \in Seq(T) /\ Len(t) \in Nat
      /\ \A k \in 1..Len(t) : t[k] \in T
      /\ \A y \in T : \E k \in 1..Len(t) : t[k] = y
      /\ \A k, m \in 1..Len(t) : t[k] = t[m] => k = m
  BY ListsFacts
<1>3. PICK r : r = s \o t
  OBVIOUS
<1>4. /\ r \in Seq(S \cup T) /\ Len(r) = Len(s) + Len(t)
      /\ \A k \in 1..Len(s) : r[k] = s[k]
      /\ \A k \in 1..Len(t) : r[Len(s) + k] = t[k]
  <2>1. s \in Seq(S \cup T) /\ t \in Seq(S \cup T)
    BY <1>1, <1>2
  <2> QED
    BY <1>3, <2>1
<1>5. \A k \in 1..Len(r) : k \in 1..Len(s) \/ \E m \in 1..Len(t) : k = Len(s) + m
  <2> SUFFICES ASSUME NEW k \in 1..Len(r), k \notin 1..Len(s)
               PROVE  \E m \in 1..Len(t) : k = Len(s) + m
    OBVIOUS
  <2>1. k - Len(s) \in 1..Len(t) /\ k = Len(s) + (k - Len(s))
    BY <1>1, <1>2, <1>4
  <2> QED
    BY <2>1
<1>6. ASSUME NEW k \in 1..Len(r) PROVE r[k] \in S \cup T
  <2>1. CASE k \in 1..Len(s)
    BY <1>1, <1>4, <2>1
  <2>2. ASSUME NEW m \in 1..Len(t), k = Len(s) + m PROVE r[k] \in S \cup T
    BY <1>2, <1>4, <2>2
  <2> QED
    BY <1>5, <2>1, <2>2
<1>7. \A y \in S \cup T : \E k \in 1..Len(r) : r[k] = y
  <2>1. \A k \in 1..Len(s) : k \in 1..Len(r)
    BY <1>1, <1>2, <1>4
  <2>2. \A k \in 1..Len(t) : Len(s) + k \in 1..Len(r)
    BY <1>1, <1>2, <1>4
  <2>3. ASSUME NEW y \in S PROVE \E k \in 1..Len(r) : r[k] = y
    <3>1. PICK k \in 1..Len(s) : s[k] = y
      BY <1>1
    <3> QED
      BY <1>4, <2>1, <3>1
  <2>4. ASSUME NEW y \in T PROVE \E k \in 1..Len(r) : r[k] = y
    <3>1. PICK k \in 1..Len(t) : t[k] = y
      BY <1>2
    <3>2. r[Len(s) + k] = y
      BY <1>4, <3>1
    <3> QED
      BY <2>2, <3>2
  <2> QED
    BY <2>3, <2>4
<1>8. ASSUME NEW k \in 1..Len(r), NEW m \in 1..Len(r), r[k] = r[m] PROVE k = m
  <2>1. ASSUME NEW i \in 1..Len(s), NEW j \in 1..Len(t) PROVE r[i] # r[Len(s) + j]
    <3>1. r[i] \in S /\ r[Len(s) + j] \in T
      BY <1>1, <1>2, <1>4
    <3> QED
      BY <3>1
  <2>2. CASE k \in 1..Len(s) /\ m \in 1..Len(s)
    BY <1>1, <1>4, <1>8, <2>2
  <2>3. CASE \E i, j \in 1..Len(t) : k = Len(s) + i /\ m = Len(s) + j
    <3>1. PICK i, j \in 1..Len(t) : k = Len(s) + i /\ m = Len(s) + j
      BY <2>3
    <3>2. t[i] = t[j]
      BY <1>4, <1>8, <3>1
    <3>3. i = j
      BY <1>2, <3>2
    <3> QED
      BY <3>1, <3>3
  <2> QED
    BY <1>5, <1>8, <2>1, <2>2, <2>3
<1>9. Lists(r, S \cup T)
  BY <1>4, <1>6, <1>7, <1>8, ListsIf
<1> QED
  BY <1>3, <1>4, <1>9

LEMMA ListsTail ==
    ASSUME NEW s, NEW S, Lists(s, S), s # <<>>
    PROVE  Head(s) \in S /\ Lists(Tail(s), S \ {Head(s)})
<1>1. /\ s \in Seq(S) /\ Len(s) \in Nat
      /\ \A k \in 1..Len(s) : s[k] \in S
      /\ \A y \in S : \E k \in 1..Len(s) : s[k] = y
      /\ \A k, m \in 1..Len(s) : s[k] = s[m] => k = m
  BY ListsFacts
<1>2. PICK t : t = Tail(s)
  OBVIOUS
<1>3. /\ Len(s) > 0 /\ Head(s) = s[1]
      /\ t \in Seq(S) /\ Len(t) = Len(s) - 1 /\ \A k \in 1..Len(t) : t[k] = s[k + 1]
  BY <1>1, <1>2
<1>4. 1 \in 1..Len(s) /\ \A k \in 1..Len(t) : k + 1 \in 1..Len(s) /\ k + 1 # 1
  BY ONLY <1>1, <1>3
<1>5. ASSUME NEW k \in 1..Len(t) PROVE t[k] \in S \ {s[1]}
  <2>1. t[k] = s[k + 1] /\ k + 1 \in 1..Len(s) /\ k + 1 # 1
    BY <1>3, <1>4
  <2>2. s[k + 1] # s[1]
    BY ONLY <1>1, <1>4, <2>1
  <2> QED
    BY <1>1, <2>1, <2>2
<1>6. ASSUME NEW x \in S \ {s[1]} PROVE \E k \in 1..Len(t) : t[k] = x
  <2>1. PICK k \in 1..Len(s) : s[k] = x
    BY <1>1
  <2>2. k - 1 \in 1..Len(t) /\ (k - 1) + 1 = k
    <3>1. k # 1
      BY <2>1
    <3> QED
      BY ONLY <3>1, <1>1, <1>3, k \in 1..Len(s)
  <2> QED
    BY <1>3, <2>1, <2>2
<1>7. ASSUME NEW k \in 1..Len(t), NEW m \in 1..Len(t), t[k] = t[m] PROVE k = m
  <2>0. s[k + 1] = s[m + 1] /\ k + 1 \in 1..Len(s) /\ m + 1 \in 1..Len(s)
    BY <1>3, <1>4, <1>7
  <2>1. k + 1 = m + 1
    BY ONLY <1>1, <2>0
  <2> QED
    BY ONLY <2>1, <1>1, <1>3, k \in 1..Len(t), m \in 1..Len(t)
<1>8. Lists(t, S \ {s[1]})
  BY <1>3, <1>5, <1>6, <1>7, ListsIf
<1> QED
  BY <1>1, <1>2, <1>3, <1>4, <1>8

\* The members of a finite set of numbers can be listed in ascending order.
IsAscending(T, s) ==
    s \in [1..Cardinality(T) -> T] /\ \A i, j \in 1..Cardinality(T) : i < j => s[i] < s[j]

LEMMA AscendingExists ==
    ASSUME NEW S, IsFiniteSet(S), S \subseteq Nat PROVE \E s : IsAscending(S, s)
<1> DEFINE B == {n \in Nat : \E T \in SUBSET S : Cardinality(T) = n /\ ~ \E s : IsAscending(T, s)}
<1>0. ASSUME NEW T \in SUBSET S
      PROVE  IsFiniteSet(T) /\ Cardinality(T) \in Nat /\ (Cardinality(T) = 0 <=> T = {})
  BY FS_Subset, FS_CardinalityType, FS_EmptySet
<1>1. 0 \notin B
  <2> SUFFICES ASSUME NEW T \in SUBSET S, Cardinality(T) = 0 PROVE \E s : IsAscending(T, s)
    OBVIOUS
  <2>1. PICK s : s = [k \in 1..0 |-> 0]
    OBVIOUS
  <2>2. 1..0 = {}
    OBVIOUS
  <2>3. s \in [1..0 -> T] /\ \A i, j \in 1..0 : i < j => s[i] < s[j]
    BY <2>1, <2>2
  <2> QED
    BY <2>3 DEF IsAscending
<1>2. ASSUME NEW n \in Nat, n \notin B PROVE n + 1 \notin B
  <2> SUFFICES ASSUME NEW T \in SUBSET S, Cardinality(T) = n + 1 PROVE \E s : IsAscending(T, s)
    OBVIOUS
  <2>1. T # {} /\ T \subseteq Nat /\ IsFiniteSet(T)
    BY <1>0
  <2>2. PICK m \in T : \A k \in T : m <= k
    BY <2>1, LeastNat
  <2>3. T \ {m} \in SUBSET S /\ Cardinality(T \ {m}) = n
    <3>1. Cardinality(T \ {m}) = Cardinality(T) - 1
      BY ONLY <2>1, m \in T, FS_RemoveElement
    <3> QED
      BY <3>1
  <2>4. PICK t : IsAscending(T \ {m}, t)
    BY <2>3, <1>2
  <2>5. t \in [1..n -> T \ {m}] /\ \A i, j \in 1..n : i < j => t[i] < t[j]
    BY <2>3, <2>4 DEF IsAscending
  <2>6. PICK s : s = [k \in 1..(n + 1) |-> IF k = 1 THEN m ELSE t[k - 1]]
    OBVIOUS
  <2>7. \A k \in 1..(n + 1) : k # 1 => k - 1 \in 1..n
    OBVIOUS
  <2>8. \A k \in 1..(n + 1) : /\ k = 1 => s[k] = m
                              /\ k # 1 => s[k] = t[k - 1] /\ s[k] \in T \ {m}
    BY <2>5, <2>6, <2>7
  <2>9. s \in [1..(n + 1) -> T]
    BY <2>2, <2>6, <2>8
  <2>10. ASSUME NEW i \in 1..(n + 1), NEW j \in 1..(n + 1), i < j PROVE s[i] < s[j]
    <3>1. j # 1 /\ j - 1 \in 1..n
      BY <2>10
    <3>2. CASE i = 1
      <4>1. s[i] = m /\ s[j] \in T /\ s[j] # m
        BY <2>8, <3>1, <3>2
      <4>2. m <= s[j] /\ m \in Nat /\ s[j] \in Nat
        BY <2>1, <2>2, <4>1
      <4> QED
        BY <4>1, <4>2
    <3>3. CASE i # 1
      <4>1. i - 1 \in 1..n /\ i - 1 < j - 1
        BY <2>10, <3>3
      <4> QED
        BY <2>5, <2>8, <3>1, <3>3, <4>1
    <3> QED
      BY <3>2, <3>3
  <2> QED
    BY <2>9, <2>10 DEF IsAscending
<1>3. B = {}
  <2>1. B \subseteq Nat
    OBVIOUS
  <2> HIDE DEF B
  <2> QED
    BY <2>1, <1>1, <1>2, NoCounterexample
<1>4. S \in SUBSET S /\ Cardinality(S) \in Nat
  BY <1>0
<1> QED
  BY <1>3, <1>4

LEMMA AscendingLists ==
    ASSUME NEW S, IsFiniteSet(S), S \subseteq Nat
    PROVE  Lists(Ascending(S), S) /\ Len(Ascending(S)) = Cardinality(S)
<1>1. PICK n \in Nat : n = Cardinality(S)
  BY FS_CardinalityType
<1>2. PICK s : s = Ascending(S)
  OBVIOUS
<1>3. \E r \in [1..n -> S] : \A i, j \in DOMAIN r : i < j => r[i] < r[j]
  <2>1. PICK r : IsAscending(S, r)
    BY AscendingExists
  <2>2. r \in [1..n -> S] /\ DOMAIN r = 1..n /\ \A i, j \in 1..n : i < j => r[i] < r[j]
    BY <1>1, <2>1 DEF IsAscending
  <2> QED
    BY <2>2
<1>4. s \in [1..n -> S] /\ \A i, j \in DOMAIN s : i < j => s[i] < s[j]
  BY <1>1, <1>2, <1>3 DEF Ascending
<1>5. \A i, j \in 1..n : i < j => s[i] < s[j]
  BY <1>4
<1>6. ASSUME NEW i \in 1..n, NEW j \in 1..n, s[i] = s[j] PROVE i = j
  <2>1. s[i] \in Nat /\ s[j] \in Nat
    BY <1>4
  <2>2. ~(i < j) /\ ~(j < i)
    BY <1>5, <1>6, <2>1
  <2> QED
    BY <2>2
<1>7. s \in Injection(1..n, S)
  BY <1>4, <1>6 DEF Injection, IsInjective
<1>8. Cardinality(1..n) = n
  BY FS_Interval
<1>9. s \in Surjection(1..n, S)
  BY <1>1, <1>7, <1>8, FS_Injection
<1>10. \A x \in S : \E k \in 1..n : s[k] = x
  BY <1>9 DEF Surjection
<1>11. s \in Seq(S) /\ Len(s) = n
  BY <1>4
<1>12. Lists(s, S)
  <2>1. \A k \in 1..n : s[k] \in S
    BY <1>4
  <2>2. \A k, m \in 1..n : s[k] = s[m] => k = m
    BY <1>6
  <2> QED
    BY ONLY <1>10, <1>11, <2>1, <2>2, ListsIf
<1> QED
  BY <1>1, <1>2, <1>11, <1>12

-----------------------------------------------------------------------------
(***************************************************************************)
(* The queue of preparations.                                              *)
(***************************************************************************)

LEMMA PrepFacts ==
    /\ Preps \subseteq Nat /\ IsFiniteSet(Preps) /\ \A S \in SUBSET Preps : IsFiniteSet(S)
    /\ \A S \in SUBSET Preps : Cardinality(S) \in Nat /\ (Cardinality(S) = 0 <=> S = {})
    /\ Cardinality(Preps) = NumPreps
<1>1. NumPreps \in Nat
  BY PreparationAssumption
<1>2. Preps \subseteq Nat /\ IsFiniteSet(Preps) /\ Cardinality(Preps) = NumPreps
  BY <1>1, FS_Interval DEF Preps
<1>3. ASSUME NEW S \in SUBSET Preps PROVE IsFiniteSet(S)
  BY <1>2, FS_Subset
<1> QED
  BY <1>2, <1>3, FS_CardinalityType, FS_EmptySet

\* What Queue does: it adds what is neither complete nor queued.
Requeued(p, S, q) ==
    /\ Sound(q)
    /\ q.complete = p.complete /\ q.blocked = p.blocked /\ q.pending = p.pending
    /\ q.limit = p.limit /\ q.mark = p.mark
    /\ q.queued = p.queued \cup (S \ p.complete)

LEMMA QueueAdds ==
    ASSUME NEW p, Sound(p), NEW S, S \subseteq Preps
    PROVE  Requeued(p, S, Queue(p, S))
<1>1. PICK new : new = S \ (p.complete \cup p.queued)
  OBVIOUS
<1>2. PICK a : a = Ascending(new)
  OBVIOUS
<1>3. /\ p.complete \in SUBSET Preps /\ p.queue \in Seq(Preps) /\ p.queued \in SUBSET Preps
      /\ Lists(p.queue, p.queued) /\ p.queued \cap p.complete = {} /\ p \in PrepStates
  BY DEF Sound, PrepStates
<1>4. new \in SUBSET Preps /\ IsFiniteSet(new) /\ new \subseteq Nat
  BY <1>1, PrepFacts
<1>5. Lists(a, new)
  BY <1>2, <1>4, AscendingLists
<1>6. PICK c : c = p.queue \o a
  OBVIOUS
<1>7. Lists(c, p.queued \cup new)
  BY <1>1, <1>3, <1>5, <1>6, ListsConcat
<1>8. c \in Seq(Preps)
  <2>1. a \in Seq(new) /\ new \subseteq Preps
    BY <1>4, <1>5 DEF Lists
  <2>2. a \in Seq(Preps)
    BY ONLY <2>1, SeqOfMore
  <2> QED
    BY ONLY <1>3, <1>6, <2>2
<1>9. PICK u : u = p.queued \cup new
  OBVIOUS
<1>10. PICK q : q = Queue(p, S)
  OBVIOUS
<1>11. q = [p EXCEPT !.queue = c, !.queued = u]
  BY <1>1, <1>2, <1>6, <1>9, <1>10 DEF Queue
<1>12. u \in SUBSET Preps
  BY <1>3, <1>4, <1>9
<1>13. /\ q \in PrepStates /\ q.queue = c /\ q.queued = u
       /\ q.complete = p.complete /\ q.blocked = p.blocked /\ q.pending = p.pending
       /\ q.limit = p.limit /\ q.mark = p.mark
  BY ONLY <1>3, <1>8, <1>11, <1>12 DEF PrepStates
<1>14. u = p.queued \cup (S \ p.complete) /\ u \cap p.complete = {}
  BY <1>1, <1>3, <1>9
<1> QED
  BY <1>7, <1>9, <1>10, <1>13, <1>14 DEF Requeued, Sound

\* A call of ExecutePreparationsImpl.
Called(l, S, back) ==
    /\ Sound(prep')
    /\ prep'.complete = prep.complete /\ prep'.blocked = prep.blocked
    /\ prep'.pending = prep.pending
    /\ prep.pending = 0 => prep' = prep /\ at' = back /\ caller' = caller
    /\ prep.pending # 0 =>
        /\ at' = "loop" /\ caller' = back /\ prep'.limit = l
        /\ prep.queued \subseteq prep'.queued /\ S \ prep.complete \subseteq prep'.queued
        /\ l > prep.limit => prep.blocked \ prep.complete \subseteq prep'.queued

LEMMA CallQueues ==
    ASSUME Sound(prep), NEW l \in Int, NEW S, S \subseteq Preps, NEW back, Call(prep, l, S, back)
    PROVE  Called(l, S, back)
<1>1. CASE prep.pending = 0
  BY <1>1 DEF Call, Called
<1>2. CASE prep.pending # 0
  <2>1. PICK retry : retry = IF l > prep.limit \/ store < prep.mark THEN prep.blocked ELSE {}
    OBVIOUS
  <2>2. prep.blocked \subseteq Preps /\ retry \subseteq Preps
    BY <2>1 DEF Sound, PrepStates
  <2>3. PICK q : q = Queue(prep, S)
    OBVIOUS
  <2>4. Requeued(prep, S, q)
    BY <2>3, QueueAdds
  <2>5. PICK r : r = Queue(q, retry)
    OBVIOUS
  <2>6. Requeued(q, retry, r)
    BY <2>2, <2>4, <2>5, QueueAdds DEF Requeued
  <2>7. prep' = [r EXCEPT !.limit = l] /\ at' = "loop" /\ caller' = back
    BY <1>2, <2>1, <2>3, <2>5 DEF Call
  <2>8. r \in PrepStates
    BY <2>6 DEF Requeued, Sound
  <2>9. /\ prep' \in PrepStates /\ prep'.limit = l /\ prep'.queue = r.queue
        /\ prep'.queued = r.queued /\ prep'.complete = r.complete
        /\ prep'.blocked = r.blocked /\ prep'.pending = r.pending
    BY ONLY <2>7, <2>8, l \in Int DEF PrepStates
  <2>10. Sound(prep')
    BY <2>6, <2>9 DEF Requeued, Sound
  <2>11. /\ prep'.complete = prep.complete /\ prep'.blocked = prep.blocked
         /\ prep'.pending = prep.pending
         /\ prep'.queued = (prep.queued \cup (S \ prep.complete)) \cup (retry \ prep.complete)
    BY <2>4, <2>6, <2>9 DEF Requeued
  <2> QED
    BY <1>2, <2>1, <2>7, <2>9, <2>10, <2>11 DEF Called
<1> QED
  BY <1>1, <1>2

\* Taking the next candidate out of the queue.
LEMMA PopFacts ==
    ASSUME Sound(prep), prep.queue # <<>>
    PROVE  /\ Candidate \in Preps /\ Candidate \in prep.queued /\ Candidate \notin prep.complete
           /\ Sound(Popped)
           /\ Popped.queued = prep.queued \ {Candidate} /\ Popped.complete = prep.complete
           /\ Popped.blocked = prep.blocked /\ Popped.pending = prep.pending
           /\ Popped.limit = prep.limit /\ Popped.mark = prep.mark
<1>1. /\ prep \in PrepStates /\ Lists(prep.queue, prep.queued)
      /\ prep.queued \cap prep.complete = {} /\ prep.queued \in SUBSET Preps
  BY DEF Sound, PrepStates
<1>2. Candidate \in prep.queued /\ Lists(Tail(prep.queue), prep.queued \ {Candidate})
  BY <1>1, ListsTail DEF Candidate
<1>3. PICK t, u : t = Tail(prep.queue) /\ u = prep.queued \ {Candidate}
  OBVIOUS
<1>4. t \in Seq(Preps) /\ u \in SUBSET Preps
  BY <1>1, <1>2, <1>3 DEF Lists
<1>5. PICK q : q = Popped
  OBVIOUS
<1>6. q = [prep EXCEPT !.queue = t, !.queued = u]
  BY <1>3, <1>5 DEF Popped
<1>7. /\ q \in PrepStates /\ q.queue = t /\ q.queued = u
      /\ q.complete = prep.complete /\ q.blocked = prep.blocked /\ q.pending = prep.pending
      /\ q.limit = prep.limit /\ q.mark = prep.mark
  BY ONLY <1>1, <1>4, <1>6 DEF PrepStates
<1> QED
  BY <1>1, <1>2, <1>3, <1>5, <1>7 DEF Sound

-----------------------------------------------------------------------------
(***************************************************************************)
(* The calls of the loader, and sizes.                                     *)
(***************************************************************************)

\* InOrder lists its set.
LEMMA InOrderLists ==
    ASSUME NEW S, S \subseteq Initializers PROVE Lists(InOrder(S), S)
<1> DEFINE N == Len(InitializerOrder)
<1>1. /\ InitializerOrder \in Seq(Initializers) /\ N \in Nat
      /\ \A k \in 1..N : InitializerOrder[k] \in Initializers
      /\ \A x \in Initializers : \E k \in 1..N : InitializerOrder[k] = x
      /\ \A k, m \in 1..N : InitializerOrder[k] = InitializerOrder[m] => k = m
  <2>1. Lists(InitializerOrder, Initializers)
    BY LoaderAssumption DEF Lists
  <2> QED
    BY <2>1, ListsFacts
<1>2. PICK K : K = {k \in 1..N : InitializerOrder[k] \in S}
  OBVIOUS
<1>3. IsFiniteSet(K) /\ K \subseteq Nat
  <2>1. IsFiniteSet(1..N) /\ 1..N \subseteq Nat /\ K \subseteq 1..N
    BY <1>1, <1>2, FS_Interval
  <2> QED
    BY <2>1, FS_Subset
<1>4. PICK a : a = Ascending(K)
  OBVIOUS
<1>5. Lists(a, K)
  BY <1>3, <1>4, AscendingLists
<1>6. /\ Len(a) \in Nat
      /\ \A k \in 1..Len(a) : a[k] \in K
      /\ \A x \in K : \E k \in 1..Len(a) : a[k] = x
      /\ \A k, m \in 1..Len(a) : a[k] = a[m] => k = m
  BY <1>5, ListsFacts
<1>7. PICK s : s = [k \in 1..Len(a) |-> InitializerOrder[a[k]]]
  OBVIOUS
<1>8. s = InOrder(S)
  BY <1>2, <1>4, <1>7 DEF InOrder
<1>9. \A k \in 1..Len(a) : s[k] = InitializerOrder[a[k]] /\ s[k] \in S
  BY <1>2, <1>6, <1>7
<1>10. s \in Seq(S) /\ Len(s) = Len(a)
  BY <1>6, <1>7, <1>9
<1>11. \A x \in S : \E k \in 1..Len(s) : s[k] = x
  <2> SUFFICES ASSUME NEW x \in S PROVE \E k \in 1..Len(s) : s[k] = x
    OBVIOUS
  <2>1. PICK j \in 1..N : InitializerOrder[j] = x
    BY <1>1
  <2>2. PICK k \in 1..Len(a) : a[k] = j
    BY <1>2, <1>6, <2>1
  <2> QED
    BY <1>9, <1>10, <2>1, <2>2
<1>12. ASSUME NEW k \in 1..Len(s), NEW m \in 1..Len(s), s[k] = s[m] PROVE k = m
  <2>1. InitializerOrder[a[k]] = InitializerOrder[a[m]] /\ a[k] \in K /\ a[m] \in K
    BY <1>6, <1>9, <1>10, <1>12
  <2>2. a[k] \in 1..N /\ a[m] \in 1..N
    BY <1>2, <2>1
  <2>3. a[k] = a[m]
    BY ONLY <1>1, <2>1, <2>2
  <2> QED
    BY <1>6, <1>10, <2>3
<1>13. Lists(s, S)
  BY <1>9, <1>10, <1>11, <1>12, ListsIf
<1> QED
  BY <1>8, <1>13

\* The calls of the loader: inline initializers, then the ones the Reader reads.
CallOrder ==
    /\ Len(Calls) \in Nat /\ NumInline \in Nat /\ Len(Queued) \in Nat
    /\ Len(Calls) = NumInline + Len(Queued)
    /\ \A k \in 1..Len(Calls) : Calls[k] \in Initializers
    /\ \A w \in Initializers : \E k \in 1..Len(Calls) : Calls[k] = w
    /\ \A k, m \in 1..Len(Calls) : Calls[k] = Calls[m] => k = m
    /\ \A k \in 1..NumInline : Calls[k] \notin external
    /\ \A k \in 1..Len(Queued) : Calls[NumInline + k] = Queued[k] /\ Queued[k] \in external
    /\ \A w \in external : \E k \in 1..Len(Queued) : Queued[k] = w
    /\ \A k, m \in 1..Len(Queued) : Queued[k] = Queued[m] => k = m
    /\ external # {} => Len(Queued) > 0

LEMMA CallFacts == ASSUME external \in SUBSET Initializers PROVE CallOrder
<1>1. PICK s, t : s = InOrder(Initializers \ external) /\ t = InOrder(external)
  OBVIOUS
<1>2. Lists(s, Initializers \ external) /\ Lists(t, external)
  BY <1>1, InOrderLists
<1>3. Calls = s \o t /\ Queued = t
  BY <1>1 DEF Calls, Queued
<1>4. PICK c : c = s \o t
  OBVIOUS
<1>5. /\ Lists(c, (Initializers \ external) \cup external) /\ Len(c) = Len(s) + Len(t)
      /\ \A k \in 1..Len(s) : c[k] = s[k]
      /\ \A k \in 1..Len(t) : c[Len(s) + k] = t[k]
  BY <1>2, <1>4, ListsConcat
<1>6. Lists(c, Initializers)
  <2>1. (Initializers \ external) \cup external = Initializers
    OBVIOUS
  <2> QED
    BY <1>5, <2>1
<1>7. /\ Len(c) \in Nat
      /\ \A k \in 1..Len(c) : c[k] \in Initializers
      /\ \A w \in Initializers : \E k \in 1..Len(c) : c[k] = w
      /\ \A k, m \in 1..Len(c) : c[k] = c[m] => k = m
  BY <1>6, ListsFacts
<1>8. /\ Len(s) \in Nat /\ \A k \in 1..Len(s) : s[k] \in Initializers \ external
  BY <1>2, ListsFacts
<1>9. /\ Len(t) \in Nat
      /\ \A k \in 1..Len(t) : t[k] \in external
      /\ \A w \in external : \E k \in 1..Len(t) : t[k] = w
      /\ \A k, m \in 1..Len(t) : t[k] = t[m] => k = m
  BY <1>2, ListsFacts
<1>10. Calls = c /\ Queued = t /\ NumInline = Len(s)
  <2>1. Calls = c /\ Queued = t
    BY <1>3, <1>4
  <2>2. NumInline = Len(c) - Len(t)
    BY <2>1 DEF NumInline
  <2> QED
    BY <1>5, <1>8, <1>9, <2>1, <2>2
<1>11. external # {} => Len(t) > 0
  <2> SUFFICES ASSUME external # {} PROVE Len(t) > 0
    OBVIOUS
  <2>1. PICK k \in 1..Len(t) : TRUE
    BY <1>9
  <2> QED
    BY <1>9, <2>1
<1> QED
  BY <1>5, <1>7, <1>8, <1>9, <1>10, <1>11 DEF CallOrder

LEMMA BytesType == ASSUME NEW S, S \subseteq Initializers PROVE BytesOf(S) \in Nat
<1>1. IsFiniteSet(S)
  BY PlanAssumption, FS_Subset
<1>2. PICK f : f = [w \in S |-> Bytes[w]]
  OBVIOUS
<1>3. f \in [S -> Nat]
  BY <1>2, LoaderAssumption
<1>4. SumFunction(f) \in Nat
  BY ONLY <1>1, <1>3, SumType
<1> QED
  BY <1>2, <1>4 DEF BytesOf

LEMMA BytesEmpty == BytesOf({}) = 0
<1>1. PICK f : f = [w \in {} |-> Bytes[w]]
  OBVIOUS
<1>2. f \in [{} -> Nat]
  BY <1>1
<1>3. SumFunction(f) = 0
  BY ONLY <1>2, SumEmpty
<1> QED
  BY <1>1, <1>3 DEF BytesOf

LEMMA BytesRemove ==
    ASSUME NEW S, S \subseteq Initializers, NEW x \in S
    PROVE  BytesOf(S) = Bytes[x] + BytesOf(S \ {x})
<1>1. IsFiniteSet(S)
  BY PlanAssumption, FS_Subset
<1>2. PICK f, h : f = [w \in S |-> Bytes[w]] /\ h = [w \in S \ {x} |-> Bytes[w]]
  OBVIOUS
<1>3. f \in [S -> Nat] /\ f[x] = Bytes[x]
  BY <1>2, LoaderAssumption
<1>4. h \in [S \ {x} -> Nat]
  BY <1>2, LoaderAssumption
<1>5. \A t \in S \ {x} : f[t] = h[t]
  BY <1>2
<1>6. SumFunction(f) = f[x] + SumFunction(h)
  BY ONLY SMTT(30), <1>1, <1>3, <1>4, <1>5, x \in S, SumRemove
<1> QED
  BY <1>2, <1>3, <1>6 DEF BytesOf

\* The bytes of a set are those of a part and those of the rest.
LEMMA BytesSplit ==
    ASSUME NEW T, NEW S, S \subseteq Initializers, T \subseteq S
    PROVE  BytesOf(S) = BytesOf(T) + BytesOf(S \ T)
<1> DEFINE Good(s) == BytesOf(s) = BytesOf(T) + BytesOf(s \ T)
           B == {n \in Nat : \E s \in SUBSET S : T \subseteq s /\ Cardinality(s \ T) = n /\ ~Good(s)}
<1>0. ASSUME NEW s \in SUBSET S
      PROVE  /\ IsFiniteSet(s \ T) /\ Cardinality(s \ T) \in Nat
             /\ Cardinality(s \ T) = 0 <=> s \ T = {}
             /\ BytesOf(s) \in Nat /\ BytesOf(s \ T) \in Nat /\ BytesOf(T) \in Nat
  <2>1. IsFiniteSet(s \ T)
    BY PlanAssumption, FS_Subset
  <2>2. s \subseteq Initializers /\ s \ T \subseteq Initializers /\ T \subseteq Initializers
    OBVIOUS
  <2> QED
    BY <2>1, <2>2, FS_CardinalityType, FS_EmptySet, BytesType
<1>1. 0 \notin B
  <2> SUFFICES ASSUME NEW s \in SUBSET S, T \subseteq s, Cardinality(s \ T) = 0 PROVE Good(s)
    OBVIOUS
  <2>1. s \ T = {} /\ s = T
    BY <1>0
  <2>2. PICK b : b = BytesOf(T)
    OBVIOUS
  <2>3. b \in Nat
    BY <1>0, <2>2
  <2>4. b = b + 0
    BY ONLY <2>3
  <2>5. BytesOf(s) = b /\ BytesOf(s \ T) = 0
    BY <2>1, <2>2, BytesEmpty
  <2> QED
    BY <2>2, <2>4, <2>5
<1>2. ASSUME NEW n \in Nat, n \notin B PROVE n + 1 \notin B
  <2> SUFFICES ASSUME NEW s \in SUBSET S, T \subseteq s, Cardinality(s \ T) = n + 1 PROVE Good(s)
    OBVIOUS
  <2>1. PICK x : x \in s \ T
    BY <1>0
  <2>2. PICK r : r = s \ {x}
    OBVIOUS
  <2>3. r \in SUBSET S /\ T \subseteq r /\ r \ T = (s \ T) \ {x}
    BY <2>1, <2>2
  <2>4. Cardinality(r \ T) = n
    <3>1. Cardinality((s \ T) \ {x}) = Cardinality(s \ T) - 1
      BY <1>0, <2>1, FS_RemoveElement
    <3> QED
      BY <2>3, <3>1
  <2>5. Good(r)
    BY <1>2, <2>3, <2>4
  <2>6. BytesOf(s) = Bytes[x] + BytesOf(r) /\ BytesOf(s \ T) = Bytes[x] + BytesOf(r \ T)
    <3>1. s \subseteq Initializers /\ x \in s /\ s \ T \subseteq Initializers
      BY <2>1
    <3> QED
      BY <2>1, <2>2, <2>3, <3>1, BytesRemove
  <2>7. PICK a, b, c : a = Bytes[x] /\ b = BytesOf(T) /\ c = BytesOf(r \ T)
    OBVIOUS
  <2>8. a \in Nat /\ b \in Nat /\ c \in Nat
    BY <1>0, <2>1, <2>3, <2>7, LoaderAssumption
  <2>9. BytesOf(s) = a + (b + c) /\ BytesOf(s \ T) = a + c
    BY <2>5, <2>6, <2>7
  <2>10. BytesOf(s) = b + BytesOf(s \ T)
    BY ONLY <2>8, <2>9
  <2> QED
    BY <2>7, <2>10
<1>3. B = {}
  <2> HIDE DEF Good
  <2>1. B \subseteq Nat
    OBVIOUS
  <2> HIDE DEF B
  <2> QED
    BY <2>1, <1>1, <1>2, NoCounterexample
<1>4. S \in SUBSET S
  OBVIOUS
<1> QED
  BY <1>0, <1>3, <1>4

LEMMA PreparedEmpty == PreparedBytes({}) = 0
<1>1. PICK f : f = [p \in {} |-> Memory[p].prepared]
  OBVIOUS
<1>2. f \in [{} -> Nat]
  BY <1>1
<1>3. SumFunction(f) = 0
  BY ONLY <1>2, SumEmpty
<1> QED
  BY <1>1, <1>3 DEF PreparedBytes

LEMMA PreparedType == ASSUME NEW S \in SUBSET Preps PROVE PreparedBytes(S) \in Nat
<1>1. PICK f : f = [p \in S |-> Memory[p].prepared]
  OBVIOUS
<1>2. f \in [S -> Nat]
  BY <1>1, PreparationAssumption
<1>3. IsFiniteSet(S)
  BY PrepFacts
<1>4. SumFunction(f) \in Nat
  BY ONLY <1>2, <1>3, SumType
<1> QED
  BY <1>1, <1>4 DEF PreparedBytes

LEMMA PreparedAdd ==
    ASSUME NEW S \in SUBSET Preps, NEW p \in Preps, p \notin S
    PROVE  PreparedBytes(S \cup {p}) = PreparedBytes(S) + Memory[p].prepared
<1>1. IsFiniteSet(S) /\ IsFiniteSet(S \cup {p})
  BY PrepFacts
<1>2. (S \cup {p}) \ {p} = S /\ p \in S \cup {p}
  OBVIOUS
<1>3. \A q \in Preps : Memory[q].prepared \in Nat
  BY PreparationAssumption
<1>4. PICK f, h : /\ f = [q \in S \cup {p} |-> Memory[q].prepared]
                  /\ h = [q \in S |-> Memory[q].prepared]
  OBVIOUS
<1>5. f \in [S \cup {p} -> Nat] /\ h \in [S -> Nat] /\ \A q \in S : f[q] = h[q]
  BY <1>3, <1>4
<1>6. SumFunction(f) = f[p] + SumFunction(h)
  <2>1. f \in [S \cup {p} -> Nat]
    BY <1>5
  <2>2. h \in [(S \cup {p}) \ {p} -> Nat] /\ \A q \in (S \cup {p}) \ {p} : f[q] = h[q]
    BY <1>2, <1>5
  <2>3. IsFiniteSet(S \cup {p}) /\ p \in S \cup {p}
    BY <1>1, <1>2
  <2> QED
    BY ONLY SMTT(30), <2>1, <2>2, <2>3, SumRemove
<1>7. SumFunction(h) \in Nat
  BY ONLY <1>1, <1>5, SumType
<1>8. f[p] = Memory[p].prepared /\ f[p] \in Nat
  BY <1>3, <1>4
<1>9. PreparedBytes(S \cup {p}) = SumFunction(f) /\ PreparedBytes(S) = SumFunction(h)
  BY <1>4 DEF PreparedBytes
<1>10. SumFunction(f) = SumFunction(h) + f[p]
  BY ONLY <1>6, <1>7, <1>8
<1> QED
  BY ONLY <1>8, <1>9, <1>10

LEMMA MemoryTypes ==
    ASSUME NEW p \in Preps
    PROVE  Memory[p].source \in Nat /\ Memory[p].temporary \in Nat /\ Memory[p].prepared \in Nat
BY PreparationAssumption

-----------------------------------------------------------------------------
(***************************************************************************)
(* The required inputs.                                                    *)
(***************************************************************************)

LEMMA BookFacts ==
    ASSUME NEW r, Books(r)
    PROVE  /\ r.names \in Seq(Names) /\ Len(r.names) \in Nat /\ DOMAIN r.names = 1..Len(r.names)
           /\ \A k, m \in 1..Len(r.names) : r.names[k] = r.names[m] => k = m
           /\ \A x : x \in Range(r.names) <=> \E k \in 1..Len(r.names) : r.names[k] = x
<1>1. r.names \in Seq(Names) /\ IsInjective(r.names)
  BY DEF Books
<1>2. Len(r.names) \in Nat /\ DOMAIN r.names = 1..Len(r.names)
  BY <1>1
<1> QED
  BY <1>1, <1>2 DEF IsInjective, Range

\* Removing one input keeps the list and its index in step.
Removed(r, w, q) == Books(q) /\ Range(q.names) = Range(r.names) \ {w}

LEMMA WithoutKeeps ==
    ASSUME consumable \subseteq Consumable, NEW r, Books(r),
           NEW w \in consumable \cap Range(r.names)
    PROVE  Removed(r, w, WithoutRequired(r, w))
<1>1. PICK s, x : s = r.names /\ x = r.index
  OBVIOUS
<1>2. PICK N : N = Len(s)
  OBVIOUS
<1>3. /\ s \in Seq(Names) /\ N \in Nat /\ DOMAIN s = 1..N
      /\ \A k, m \in 1..N : s[k] = s[m] => k = m
      /\ \A y : y \in Range(s) <=> \E k \in 1..N : s[k] = y
  BY <1>1, <1>2, BookFacts
<1>4. /\ x = [v \in Consumable |-> x[v]]
      /\ \A v \in consumable \cap Range(s) : x[v] \in 1..N /\ s[x[v]] = v
  BY <1>1, <1>2 DEF Books
<1>5. PICK j : j = x[w]
  OBVIOUS
<1>6. w \in Range(s) /\ j \in 1..N /\ s[j] = w /\ w \in consumable
  BY <1>1, <1>4, <1>5
<1>7. N - 1 \in Nat /\ N \in 1..N
  BY <1>3, <1>6
<1>8. PICK moved : moved = s[N]
  OBVIOUS
<1>9. PICK e : e = [s EXCEPT ![j] = moved]
  OBVIOUS
<1>10. /\ e \in Seq(Names) /\ Len(e) = N
       /\ \A k \in 1..N : e[k] = IF k = j THEN moved ELSE s[k]
  <2>1. moved \in Names
    BY <1>3, <1>7, <1>8
  <2> QED
    BY <1>2, <1>3, <1>6, <1>9, <2>1
<1>11. PICK t : t = Front(e)
  OBVIOUS
<1>12. /\ t \in Seq(Names) /\ Len(t) = N - 1
       /\ \A k \in 1..(N - 1) : t[k] = e[k]
  <2>1. t = SubSeq(e, 1, N - 1)
    BY <1>10, <1>11 DEF Front
  <2> QED
    BY <1>7, <1>10, <2>1
<1>13. PICK y : y = IF moved \in consumable THEN [x EXCEPT ![moved] = j] ELSE x
  OBVIOUS
<1>14. y = [v \in Consumable |-> y[v]]
  BY <1>4, <1>13
<1>15. \A k \in 1..(N - 1) : k \in 1..N /\ k # N /\ t[k] = IF k = j THEN s[N] ELSE s[k]
  BY <1>3, <1>8, <1>10, <1>12
<1>16. ASSUME NEW k \in 1..(N - 1), NEW m \in 1..(N - 1), t[k] = t[m] PROVE k = m
  <2>1. k \in 1..N /\ m \in 1..N /\ k # N /\ m # N
    BY <1>15
  <2>2. CASE k = j /\ m # j
    <3>1. s[N] = s[m]
      BY <1>15, <1>16, <2>2
    <3> QED
      BY <1>3, <1>7, <2>1, <3>1
  <2>3. CASE k # j /\ m = j
    <3>1. s[N] = s[k]
      BY <1>15, <1>16, <2>3
    <3> QED
      BY <1>3, <1>7, <2>1, <3>1
  <2>4. CASE k # j /\ m # j
    <3>1. s[k] = s[m]
      BY <1>15, <1>16, <2>4
    <3> QED
      BY <1>3, <2>1, <3>1
  <2> QED
    BY <2>2, <2>3, <2>4
<1>17. DOMAIN t = 1..(N - 1)
  BY <1>7, <1>12
<1>18. ASSUME NEW v PROVE v \in Range(t) <=> v \in Range(s) /\ v # w
  <2>0. v \in Range(t) <=> \E k \in 1..(N - 1) : t[k] = v
    BY <1>17 DEF Range
  <2>1. ASSUME NEW k \in 1..(N - 1), t[k] = v PROVE v \in Range(s) /\ v # w
    <3>1. CASE k = j
      <4>1. v = s[N] /\ N # j
        BY <1>15, <2>1, <3>1
      <4> QED
        BY <1>3, <1>6, <1>7, <4>1
    <3>2. CASE k # j
      <4>1. v = s[k] /\ k \in 1..N
        BY <1>15, <2>1, <3>2
      <4> QED
        BY <1>3, <1>6, <3>2, <4>1
    <3> QED
      BY <3>1, <3>2
  <2>2. ASSUME NEW k \in 1..N, s[k] = v, v # w PROVE \E m \in 1..(N - 1) : t[m] = v
    <3>1. k # j
      BY <1>6, <2>2
    <3>2. CASE k = N
      <4>1. j \in 1..(N - 1)
        BY <1>6, <1>7, <3>1, <3>2
      <4>2. t[j] = v
        BY <1>15, <2>2, <3>2, <4>1
      <4> QED
        BY <4>1, <4>2
    <3>3. CASE k # N
      <4>1. k \in 1..(N - 1)
        BY <1>7, <3>3
      <4>2. t[k] = v
        BY <1>15, <2>2, <3>1, <4>1
      <4> QED
        BY <4>1, <4>2
    <3> QED
      BY <3>2, <3>3
  <2>3. v \in Range(s) <=> \E k \in 1..N : s[k] = v
    BY <1>3
  <2> QED
    BY <2>0, <2>1, <2>2, <2>3
<1>19. ASSUME NEW v \in consumable \cap Range(t) PROVE y[v] \in 1..(N - 1) /\ t[y[v]] = v
  <2>1. v \in Range(s) /\ v # w /\ v \in Consumable /\ x[v] \in 1..N /\ s[x[v]] = v
    BY <1>4, <1>18
  <2>2. CASE v = moved
    <3>1. j # N
      BY <1>6, <1>8, <2>1, <2>2
    <3>2. y[v] = j /\ j \in 1..(N - 1)
      BY <1>4, <1>6, <1>7, <1>13, <2>1, <2>2, <3>1
    <3> QED
      BY <1>8, <1>15, <2>2, <3>2
  <2>3. CASE v # moved
    <3>1. y[v] = x[v]
      BY <1>4, <1>13, <2>1, <2>3
    <3>2. x[v] # N /\ x[v] # j
      BY <1>6, <1>8, <2>1, <2>3
    <3>3. x[v] \in 1..(N - 1)
      BY <1>7, <2>1, <3>2
    <3> QED
      BY <1>15, <2>1, <3>1, <3>2, <3>3
  <2> QED
    BY <2>2, <2>3
<1>20. PICK q : q = WithoutRequired(r, w)
  OBVIOUS
<1>21. q = [names |-> t, index |-> y]
  BY <1>1, <1>2, <1>5, <1>8, <1>9, <1>11, <1>13, <1>20 DEF WithoutRequired, Last
<1>22. q.names = t /\ q.index = y
  BY <1>21
<1>23. IsInjective(t)
  BY <1>16, <1>17 DEF IsInjective
<1>24. Range(t) = Range(s) \ {w}
  BY <1>18
<1>25. Books(q)
  BY <1>12, <1>14, <1>19, <1>22, <1>23 DEF Books
<1> QED
  BY <1>1, <1>20, <1>22, <1>24, <1>25 DEF Removed

\* The loop over the sources of a preparation.
LossBody(s, gone, after, k) ==
    IF k = 0 THEN required
    ELSE IF s[k] \in gone \ {s[j] : j \in 1..(k - 1)}
         THEN WithoutRequired(after[k - 1], s[k])
         ELSE after[k - 1]
AreLosses(s, gone, after) == after = [k \in 0..Len(s) |-> LossBody(s, gone, after, k)]

LEMMA LossesExist ==
    ASSUME NEW s, Len(s) \in Nat, NEW gone PROVE \E after : AreLosses(s, gone, after)
<1> DEFINE N == Len(s)
           Upto(n, a) == /\ a = [k \in 0..N |-> a[k]]
                         /\ \A k \in 0..N : k <= n => a[k] = LossBody(s, gone, a, k)
           B == {n \in Nat : ~ \E a : Upto(n, a)}
<1>1. 0 \notin B
  <2>1. PICK a : a = [k \in 0..N |-> required]
    OBVIOUS
  <2>2. Upto(0, a)
    BY <2>1 DEF LossBody
  <2> QED
    BY <2>2
<1>2. ASSUME NEW n \in Nat, n \notin B PROVE n + 1 \notin B
  <2>1. PICK a : Upto(n, a)
    BY <1>2
  <2>2. PICK h : h = [k \in 0..N |-> IF k <= n THEN a[k] ELSE LossBody(s, gone, a, k)]
    OBVIOUS
  <2>3. h = [k \in 0..N |-> h[k]]
    BY <2>2
  <2>4. ASSUME NEW k \in 0..N, k <= n + 1 PROVE h[k] = LossBody(s, gone, h, k)
    <3>1. h[k] = LossBody(s, gone, a, k)
      BY <2>1, <2>2
    <3>2. CASE k = 0
      BY <3>1, <3>2 DEF LossBody
    <3>3. CASE k # 0
      <4>1. k - 1 \in 0..N /\ k - 1 <= n
        BY <2>4, <3>3
      <4>2. h[k - 1] = a[k - 1]
        BY <2>2, <4>1
      <4> QED
        BY <3>1, <3>3, <4>2 DEF LossBody
    <3> QED
      BY <3>2, <3>3
  <2>5. Upto(n + 1, h)
    BY <2>3, <2>4
  <2> QED
    BY <2>5
<1>3. B = {}
  <2> HIDE DEF Upto
  <2>1. B \subseteq Nat
    OBVIOUS
  <2> HIDE DEF B
  <2> QED
    BY <2>1, <1>1, <1>2, NoCounterexample
<1>4. PICK a : Upto(N, a)
  BY <1>3
<1>5. \A k \in 0..N : a[k] = LossBody(s, gone, a, k)
  BY <1>4
<1>6. a = [k \in 0..N |-> LossBody(s, gone, a, k)]
  BY <1>4, <1>5
<1> QED
  BY <1>6 DEF AreLosses

\* Every consumed source leaves the required inputs, once.
RemovedAll(r, gone, q) == Books(q) /\ Range(q.names) = Range(r.names) \ gone

LEMMA RequiredKeeps ==
    ASSUME consumable \subseteq Consumable, Books(required),
           NEW s, Len(s) \in Nat, DOMAIN s = 1..Len(s),
           NEW gone, gone \subseteq consumable \cap Range(required.names), gone \subseteq Range(s)
    PROVE  RemovedAll(required, gone, RequiredWithout(s, gone))
<1>1. PICK a : a = CHOOSE after : AreLosses(s, gone, after)
  OBVIOUS
<1>2. AreLosses(s, gone, a)
  BY <1>1, LossesExist
<1>3. RequiredWithout(s, gone) = a[Len(s)]
  BY <1>1 DEF RequiredWithout, AreLosses, LossBody
<1> DEFINE N == Len(s)
           First(k) == {s[j] : j \in 1..k}
           Good(k) == RemovedAll(required, gone \cap First(k), a[k])
           B == {k \in Nat : k <= N /\ ~Good(k)}
<1>4. \A k \in 0..N : a[k] = LossBody(s, gone, a, k)
  BY <1>2 DEF AreLosses
<1>5. 0 \notin B
  <2>1. a[0] = required
    BY <1>4 DEF LossBody
  <2>2. gone \cap First(0) = {}
    OBVIOUS
  <2> HIDE DEF First
  <2> QED
    BY <2>1, <2>2 DEF RemovedAll
<1>6. ASSUME NEW k \in Nat, k \notin B PROVE k + 1 \notin B
  <2> SUFFICES ASSUME k + 1 <= N PROVE Good(k + 1)
    OBVIOUS
  <2>1. k \in 0..N /\ k + 1 \in 0..N /\ (k + 1) - 1 = k /\ k + 1 # 0
    OBVIOUS
  <2>2. Good(k)
    BY <1>6, <2>1
  <2>3. PICK w : w = s[k + 1]
    OBVIOUS
  <2>4. First(k + 1) = First(k) \cup {w}
    <3>1. \A j \in 1..(k + 1) : j \in 1..k \/ j = k + 1
      OBVIOUS
    <3>2. 1..k \subseteq 1..(k + 1) /\ k + 1 \in 1..(k + 1)
      OBVIOUS
    <3> QED
      BY <2>3, <3>1, <3>2
  <2>5. a[k + 1] = IF w \in gone \ First(k) THEN WithoutRequired(a[k], w) ELSE a[k]
    BY <1>4, <2>1, <2>3 DEF LossBody
  <2> HIDE DEF First
  <2>6. CASE w \in gone \ First(k)
    <3>1. PICK r, q : r = a[k] /\ q = WithoutRequired(r, w)
      OBVIOUS
    <3>2. Books(r) /\ Range(r.names) = Range(required.names) \ (gone \cap First(k))
      BY <2>2, <3>1 DEF RemovedAll
    <3>3. w \in consumable \cap Range(r.names)
      BY <2>6, <3>2
    <3>4. Removed(r, w, q)
      BY <3>1, <3>2, <3>3, WithoutKeeps
    <3>5. Books(q) /\ Range(q.names) = Range(required.names) \ (gone \cap First(k + 1))
      BY <2>4, <2>6, <3>2, <3>4 DEF Removed
    <3>6. a[k + 1] = q
      BY <2>5, <2>6, <3>1
    <3> QED
      BY <3>5, <3>6 DEF RemovedAll
  <2>7. CASE w \notin gone \ First(k)
    <3>1. a[k + 1] = a[k]
      BY <2>5, <2>7
    <3>2. gone \cap First(k + 1) = gone \cap First(k)
      BY <2>4, <2>7
    <3> QED
      BY <2>2, <3>1, <3>2
  <2> QED
    BY <2>6, <2>7
<1>7. B = {}
  <2> HIDE DEF Good
  <2>1. B \subseteq Nat
    OBVIOUS
  <2> HIDE DEF B
  <2> QED
    BY <2>1, <1>5, <1>6, NoCounterexample
<1>8. Good(N)
  <2> HIDE DEF Good
  <2> QED
    BY <1>7
<1>9. First(N) = Range(s)
  BY DEF Range
<1>10. gone \cap First(N) = gone
  BY <1>9
<1> QED
  BY <1>3, <1>8, <1>10

-----------------------------------------------------------------------------
(***************************************************************************)
(* The initial states.                                                     *)
(***************************************************************************)

LEMMA EmptyQueue == Sound(NoPreparations)
<1>1. /\ NoPreparations.complete = {} /\ NoPreparations.queue = <<>>
      /\ NoPreparations.queued = {}
      /\ NoPreparations \in PrepStates
  BY DEF NoPreparations, PrepStates
<1>2. Lists(<<>>, {})
  <2>1. PICK e : e = <<>>
    OBVIOUS
  <2>2. e \in Seq({}) /\ DOMAIN e = {}
    BY <2>1
  <2>3. Lists(e, {})
    BY <2>2 DEF Lists, IsInjective, Range
  <2> QED
    BY <2>1, <2>3
<1> QED
  BY <1>1, <1>2 DEF Sound

LEMMA InitInv == ASSUME Init PROVE IInv
<1>1. /\ prep = NoPreparations /\ store = SharedBytes /\ consumed = {} /\ failed = FALSE /\ deferred = {}
      /\ at = "declare" /\ caller = "none" /\ node = 0 /\ item = 0 /\ before = {}
      /\ consumable \in {{}, Consumable} /\ overlap \in BOOLEAN
      /\ external \in Externals /\ limit \in Limits /\ limit >= Reservation + SharedBytes
      /\ reservation = Reservation
      /\ values \in SUBSET (Range(RequiredInputs) \ Initializers)
      /\ reader = [pc |-> "none", i |-> 0, ready |-> 0, taken |-> 0, stopped |-> FALSE,
                   error |-> FALSE]
  BY DEF Init, SessionInit
<1>2. /\ reader \in ReaderStates /\ reader.pc = "none" /\ reader.i = 0 /\ reader.ready = 0
      /\ reader.taken = 0
  BY <1>1 DEF ReaderStates, ReaderLabels
<1>3. prep \in PrepStates /\ Sound(prep) /\ prep.complete = {}
  BY <1>1, EmptyQueue DEF Sound, NoPreparations
<1>4. TypeOK
  <2>1. external \in SUBSET Initializers /\ limit \in Nat /\ reservation \in Int
    BY <1>1, LoaderAssumption
  <2>2. store \in Nat
    BY <1>1, PreparationAssumption
  <2> QED
    BY <1>1, <1>2, <1>3, <2>1, <2>2 DEF TypeOK, LoadLabels, Callers
<1>5. StartInv
  BY <1>1, <1>2 DEF StartInv
<1>6. QueueInv
  BY <1>1, <1>3, PreparedEmpty, PreparationAssumption DEF QueueInv
<1>7. BooksInv
  BY <1>1 DEF BooksInv
<1>8. ReachedInv /\ TakenInv
  <2>1. (values \cup consumed) \cap Initializers = {}
    BY <1>1
  <2>2. (values \cup consumed) \cap external = {}
    BY <2>1, <1>4 DEF TypeOK
  <2> QED
    BY <2>1, <2>2 DEF ReachedInv, TakenInv
<1>9. ReaderInv
  BY <1>1, <1>2 DEF ReaderInv
<1>10. FailInv
  BY <1>1 DEF FailInv
<1>11. LimitInv
  BY <1>1, LoaderAssumption, PreparationAssumption DEF LimitInv
<1>12. ReserveInv
  BY <1>1, BytesEmpty, LoaderAssumption DEF ReserveInv
<1>13. PendingInv /\ RunInv
  BY <1>1 DEF PendingInv, RunInv
<1> QED
  BY <1>4, <1>5, <1>6, <1>7, <1>8, <1>9, <1>10, <1>11, <1>12, <1>13 DEF IInv

-----------------------------------------------------------------------------
(***************************************************************************)
(* Steps that leave the session and the loader's books alone.              *)
(***************************************************************************)

LEMMA SameCalls ==
    ASSUME external' = external, overlap' = overlap
    PROVE  /\ Calls' = Calls /\ Queued' = Queued /\ NumInline' = NumInline
           /\ Overlapped' = Overlapped
BY DEF Calls, Queued, NumInline, InOrder, Overlapped

\* What a step that only moves the thread or the Reader owes.
Moved ==
    /\ UNCHANGED <<sessionVars, loaderVars>>
    /\ at # "declare" /\ at' # "declare"
    /\ InLoad' => InLoad
    /\ at' = "prepare" => at = "prepare" \/ item > Len(Calls)
    /\ at' \in {"loop", "prepared", "check", "inputs", "node", "enforce"} => at' = at
    /\ at' = "execute" => at = "execute" \/ (at = "enforce" /\ PrepsOf(node) \subseteq prep.complete)
    /\ at' \in {"prepare", "stop", "notifyStop", "join"} =>
        failed \/ at \in {"prepare", "stop", "notifyStop", "join"}
    /\ reader.taken <= reader'.taken
    /\ TypeOK' /\ ReaderInv' /\ FailInv'

LEMMA MovedKeeps == ASSUME IInv, Moved PROVE IInv'
<1>1. /\ UNCHANGED <<consumable, untyped, foreign, prep, store, deferred, required, consumed, failed, values,
                     outputs, releases, caller, node>>
      /\ UNCHANGED <<overlap, external, limit, reservation, seeded, item, before>>
      /\ at # "declare" /\ at' # "declare"
  BY DEF Moved, sessionVars, loaderVars
<1>2. Calls' = Calls /\ Queued' = Queued /\ Overlapped' = Overlapped
  BY <1>1, SameCalls
<1>3. StartInv'
  BY <1>1 DEF StartInv
<1>4. QueueInv'
  BY <1>1 DEF IInv, QueueInv, Sound, PreparedBytes, Counted
<1>5. BooksInv'
  BY <1>1 DEF IInv, BooksInv, Books, Consumers
<1>6. ReachedInv'
  <2> SUFFICES ASSUME InLoad', NEW w \in (values \cup consumed) \cap Initializers
               PROVE  \E k \in 1..Len(Calls) : w = Calls[k] /\ k <= item /\ (at' = "prepare" => k < item)
    BY <1>1, <1>2 DEF ReachedInv
  <2>1. PICK k \in 1..Len(Calls) : w = Calls[k] /\ k <= item /\ (at = "prepare" => k < item)
    BY DEF Moved, IInv, ReachedInv
  <2>2. at' = "prepare" => k < item
    <3>1. CASE at = "prepare"
      BY <2>1, <3>1
    <3>2. CASE item > Len(Calls)
      <4>1. external \in SUBSET Initializers /\ item \in Nat
        BY DEF IInv, TypeOK
      <4>2. Len(Calls) \in Nat
        BY <4>1, CallFacts DEF CallOrder
      <4> QED
        BY <4>1, <4>2, <3>2, k \in 1..Len(Calls)
    <3> QED
      BY <3>1, <3>2 DEF Moved
  <2> QED
    BY <2>1, <2>2
<1>7. TakenInv'
  <2> SUFFICES ASSUME InLoad', Overlapped, NEW w \in (values \cup consumed) \cap external
               PROVE  \E k \in 1..Len(Queued) : w = Queued[k] /\ k <= reader'.taken
    BY <1>1, <1>2 DEF TakenInv
  <2>1. PICK k \in 1..Len(Queued) : w = Queued[k] /\ k <= reader.taken
    BY DEF Moved, IInv, TakenInv
  <2>2. reader.taken \in Nat /\ reader'.taken \in Nat /\ reader.taken <= reader'.taken
    BY DEF Moved, IInv, TypeOK, ReaderStates
  <2> QED
    BY <2>1, <2>2
<1>8. LimitInv'
  <2>1. InLoad' => reservation' + store' <= limit'
    BY <1>1 DEF Moved, IInv, LimitInv
  <2> QED
    BY <1>1, <2>1 DEF Moved, IInv, LimitInv
<1>9. PendingInv'
  <2>1. \A p : Ready(p)' <=> Ready(p)
    BY <1>1 DEF Ready, StillDeferred, Visible
  <2>2. \A p, l : Fits(p, l)' <=> Fits(p, l)
    BY <1>1 DEF Fits
  <2> QED
    BY <1>1, <2>1, <2>2 DEF Moved, IInv, PendingInv
<1>10. RunInv'
  BY <1>1 DEF Moved, IInv, RunInv
<1>11. ReserveInv'
  BY <1>1 DEF Moved, IInv, ReserveInv, BytesOf
<1> QED
  BY <1>3, <1>4, <1>5, <1>6, <1>7, <1>8, <1>9, <1>10, <1>11 DEF Moved, IInv

LEMMA ReaderTypes ==
    ASSUME IInv
    PROVE  /\ reader \in ReaderStates /\ reader.pc \in ReaderLabels
           /\ reader.i \in Nat /\ reader.ready \in Nat /\ reader.taken \in Nat
           /\ item \in Nat /\ external \in SUBSET Initializers
           /\ CallOrder
<1>1. reader \in ReaderStates /\ item \in Nat /\ external \in SUBSET Initializers
  BY DEF IInv, TypeOK
<1> QED
  BY <1>1, CallFacts DEF ReaderStates

\* The loader takes the next payload, or sleeps, or learns of the error.
LEMMA TakeKeeps == ASSUME IInv, Take PROVE IInv'
<1>1. /\ at = "prepare" /\ Overlapped /\ Current \in 1..Len(Queued) /\ reader.taken < Current
      /\ UNCHANGED <<sessionVars, loaderVars>>
  BY DEF Take
<1>2. /\ UNCHANGED <<prep, store, consumable, consumed, failed, caller, node, deferred, untyped>>
      /\ UNCHANGED <<overlap, external, limit, reservation, item, before>>
  BY <1>1 DEF sessionVars, loaderVars
<1>3. /\ reader \in ReaderStates /\ reader.ready \in Nat /\ reader.taken \in Nat /\ item \in Nat
      /\ reader.i \in Nat /\ CallOrder
  BY ReaderTypes
<1>4. Calls' = Calls /\ Queued' = Queued /\ Overlapped' = Overlapped
  BY <1>2, SameCalls
<1>5. Current \in Nat
  BY <1>1, <1>3 DEF CallOrder
<1>6. CASE at' = "stop" /\ reader' = reader /\ reader.error
  <2>1. TypeOK'
    BY <1>1, <1>2, <1>6 DEF IInv, TypeOK, LoadLabels
  <2>2. ReaderInv' /\ FailInv'
    BY <1>1, <1>2, <1>4, <1>6 DEF IInv, ReaderInv, FailInv
  <2>3. Moved
    BY <1>1, <1>3, <1>6, <2>1, <2>2 DEF Moved, InLoad, LoadLabels
  <2> QED
    BY <2>3, MovedKeeps
<1>7. CASE at' = at /\ reader' = [reader EXCEPT !.taken = Current] /\ reader.ready >= Current
  <2>1. /\ reader' \in ReaderStates /\ reader'.taken = Current /\ reader'.ready = reader.ready
        /\ reader'.pc = reader.pc /\ reader'.i = reader.i /\ reader'.error = reader.error
    BY ONLY <1>3, <1>5, <1>7 DEF ReaderStates
  <2>2. TypeOK'
    BY <1>1, <1>2, <1>7, <2>1 DEF IInv, TypeOK
  <2>3. /\ reader'.taken <= reader'.ready /\ reader'.ready <= reader'.taken + 1
        /\ reader'.i = reader'.ready + 1
        /\ reader.taken <= reader'.taken
        /\ reader.i <= reader.taken + 1 => reader'.i <= reader'.taken + 1
    BY <1>1, <1>3, <1>5, <1>7, <2>1 DEF IInv, ReaderInv
  <2>4. ReaderInv'
    BY <1>1, <1>2, <1>4, <1>7, <2>1, <2>3 DEF IInv, ReaderInv
  <2>5. FailInv'
    BY <1>1, <1>2, <1>4, <1>7, <2>1 DEF IInv, FailInv
  <2>6. Moved
    BY <1>1, <1>2, <1>7, <2>2, <2>3, <2>4, <2>5 DEF Moved, InLoad, LoadLabels
  <2> QED
    BY <2>6, MovedKeeps
<1>8. CASE at' = at /\ reader' = reader
  <2>1. TypeOK' /\ ReaderInv' /\ FailInv'
    BY <1>1, <1>2, <1>4, <1>8 DEF IInv, TypeOK, ReaderInv, FailInv
  <2>2. Moved
    BY <1>1, <1>3, <1>8, <2>1 DEF Moved, InLoad, LoadLabels
  <2> QED
    BY <2>2, MovedKeeps
<1> QED
  BY <1>6, <1>7, <1>8 DEF Take

\* The steps of the Reader.
LEMMA ReaderKeeps == ASSUME IInv, ReaderStep PROVE IInv'
<1>1. /\ at' = at /\ UNCHANGED <<sessionVars, loaderVars>>
      /\ reader.pc \in {"wait", "read", "notify", "notifyError"}
  BY DEF ReaderStep, ReaderWaits, ReaderReads, ReaderNotifies
<1>2. /\ UNCHANGED <<prep, store, consumable, consumed, failed, caller, node, deferred, untyped>>
      /\ UNCHANGED <<overlap, external, limit, reservation, item, before>>
  BY <1>1 DEF sessionVars, loaderVars
<1>3. /\ reader \in ReaderStates /\ reader.ready \in Nat /\ reader.taken \in Nat /\ item \in Nat
      /\ reader.i \in Nat /\ CallOrder /\ at # "declare"
  BY <1>1, ReaderTypes DEF IInv, StartInv
<1>4. Calls' = Calls /\ Queued' = Queued /\ Overlapped' = Overlapped /\ Overlapped
  BY <1>1, <1>2, SameCalls DEF IInv, ReaderInv
<1>5. ASSUME TypeOK', ReaderInv', FailInv', reader'.taken = reader.taken PROVE IInv'
  <2>1. Moved
    BY <1>1, <1>2, <1>3, <1>5 DEF Moved, InLoad
  <2> QED
    BY <2>1, MovedKeeps
<1>6. ASSUME reader' \in ReaderStates PROVE TypeOK'
  BY <1>1, <1>2, <1>6 DEF IInv, TypeOK
<1>7. ASSUME reader.error => reader'.error PROVE FailInv'
  BY <1>1, <1>2, <1>4, <1>7 DEF IInv, FailInv
<1>8. CASE ReaderWaits
  <2>1. CASE reader' = reader
    BY <1>1, <1>2, <1>3, <1>4, <1>5, <1>6, <1>7, <2>1 DEF IInv, ReaderInv
  <2>2. CASE reader' = [reader EXCEPT !.pc = "done"]
    <3>1. /\ reader' \in ReaderStates /\ reader'.pc = "done" /\ reader'.i = reader.i
          /\ reader'.ready = reader.ready /\ reader'.taken = reader.taken
          /\ reader'.error = reader.error
      BY ONLY <1>3, <2>2 DEF ReaderStates, ReaderLabels
    <3>2. ReaderInv'
      BY <1>1, <1>2, <1>4, <3>1 DEF IInv, ReaderInv
    <3> QED
      BY <1>5, <1>6, <1>7, <3>1, <3>2
  <2>3. CASE /\ reader' = [reader EXCEPT !.pc = "read"]
             /\ reader.i <= reader.taken + 1 /\ ~(reader.i > Len(Queued))
    <3>1. /\ reader' \in ReaderStates /\ reader'.pc = "read" /\ reader'.i = reader.i
          /\ reader'.ready = reader.ready /\ reader'.taken = reader.taken
          /\ reader'.error = reader.error
      BY ONLY <1>3, <2>3 DEF ReaderStates, ReaderLabels
    <3>2. reader.i <= Len(Queued)
      BY <1>3, <2>3 DEF CallOrder
    <3>3. ReaderInv'
      BY <1>1, <1>2, <1>4, <2>3, <3>1, <3>2 DEF IInv, ReaderInv
    <3> QED
      BY <1>5, <1>6, <1>7, <3>1, <3>3
  <2> QED
    BY <1>8, <2>1, <2>2, <2>3 DEF ReaderWaits
<1>9. CASE ReaderReads
  <2>1. CASE reader' = [reader EXCEPT !.pc = "notify", !.ready = reader.i, !.i = @ + 1]
    <3>1. /\ reader' \in ReaderStates /\ reader'.pc = "notify" /\ reader'.i = reader.i + 1
          /\ reader'.ready = reader.i /\ reader'.taken = reader.taken
          /\ reader'.error = reader.error
      <4>1. PICK i, n : i = reader.i /\ n = reader.i + 1
        OBVIOUS
      <4>2. i \in Nat /\ n \in Nat
        BY <1>3, <4>1
      <4>3. reader' = [reader EXCEPT !.pc = "notify", !.ready = i, !.i = n]
        BY <1>3, <2>1, <4>1 DEF ReaderStates
      <4>4. /\ reader' \in ReaderStates /\ reader'.pc = "notify" /\ reader'.i = n
            /\ reader'.ready = i /\ reader'.taken = reader.taken
            /\ reader'.error = reader.error
        BY ONLY <1>3, <4>2, <4>3 DEF ReaderStates, ReaderLabels
      <4> QED
        BY <4>1, <4>4
    <3>2. reader.i <= reader.taken + 1 /\ reader.i = reader.ready + 1 /\ reader.taken <= reader.ready
      BY <1>3, <1>9 DEF IInv, ReaderInv, ReaderReads
    <3>3. reader'.taken <= reader'.ready /\ reader'.ready <= reader'.taken + 1
      BY <1>3, <3>1, <3>2
    <3>4. ReaderInv'
      BY <1>1, <1>2, <1>4, <3>1, <3>3 DEF IInv, ReaderInv
    <3> QED
      BY <1>5, <1>6, <1>7, <3>1, <3>4
  <2>2. CASE reader' = [reader EXCEPT !.pc = "notifyError", !.error = TRUE]
    <3>1. /\ reader' \in ReaderStates /\ reader'.pc = "notifyError" /\ reader'.i = reader.i
          /\ reader'.ready = reader.ready /\ reader'.taken = reader.taken
          /\ reader'.error = TRUE
      BY ONLY <1>3, <2>2 DEF ReaderStates, ReaderLabels
    <3>2. ReaderInv'
      BY <1>1, <1>2, <1>4, <3>1 DEF IInv, ReaderInv
    <3> QED
      BY <1>5, <1>6, <1>7, <3>1, <3>2
  <2> QED
    BY <1>9, <2>1, <2>2 DEF ReaderReads
<1>10. CASE ReaderNotifies
  <2>1. PICK pc : pc = IF reader.pc = "notify" THEN "wait" ELSE "done"
    OBVIOUS
  <2>2. reader' = [reader EXCEPT !.pc = pc] /\ pc \in {"wait", "done"}
    BY <1>10, <2>1 DEF ReaderNotifies
  <2>3. /\ reader' \in ReaderStates /\ reader'.pc \in {"wait", "done"} /\ reader'.i = reader.i
        /\ reader'.ready = reader.ready /\ reader'.taken = reader.taken
        /\ reader'.error = reader.error
    BY ONLY <1>3, <2>2 DEF ReaderStates, ReaderLabels
  <2>4. ReaderInv'
    BY <1>1, <1>2, <1>4, <2>3 DEF IInv, ReaderInv
  <2> QED
    BY <1>5, <1>6, <1>7, <2>3, <2>4
<1> QED
  BY <1>8, <1>9, <1>10 DEF ReaderStep

\* The way out of the loading loop, and the steps of Run that only move.
LEMMA MovesKeep ==
    ASSUME IInv,
           \/ LoadThrows \/ StopReader \/ NotifyStop \/ JoinReader \/ CheckPending
           \/ (Enforce \/ KernelThrows \/ Unwind) /\ UNCHANGED <<loaderVars, reader, asleep>>
    PROVE  IInv'
<1>1. UNCHANGED <<sessionVars, loaderVars>>
  BY DEF LoadThrows, StopReader, NotifyStop, JoinReader, CheckPending, Enforce, KernelThrows, Unwind,
         sessionVars, loaderVars
<1>2. /\ UNCHANGED <<prep, store, consumable, consumed, failed, caller, node, deferred, untyped>>
      /\ UNCHANGED <<overlap, external, limit, reservation, item, before>>
  BY <1>1 DEF sessionVars, loaderVars
<1>3. /\ reader \in ReaderStates /\ reader.ready \in Nat /\ reader.taken \in Nat /\ item \in Nat
      /\ reader.i \in Nat /\ CallOrder /\ reader.pc \in ReaderLabels
  BY ReaderTypes
<1>4. Calls' = Calls /\ Queued' = Queued /\ Overlapped' = Overlapped
  BY <1>2, SameCalls
<1>5. CASE LoadThrows
  <2>1. /\ at = "threw" /\ caller = "prepared" /\ reader' = reader
        /\ at' = IF Overlapped /\ item <= Len(Calls) THEN "stop" ELSE "abandon"
    BY <1>5 DEF LoadThrows
  <2>2. TypeOK'
    BY <1>2, <2>1 DEF IInv, TypeOK, LoadLabels
  <2>3. ReaderInv'
    BY <1>2, <1>4, <2>1 DEF IInv, ReaderInv
  <2>4. FailInv'
    BY <1>2, <1>4, <2>1 DEF IInv, FailInv
  <2>5. Moved
    BY <1>1, <1>3, <2>1, <2>2, <2>3, <2>4 DEF Moved, InLoad, LoadLabels, IInv, FailInv
  <2> QED
    BY <2>5, MovedKeeps
<1>6. CASE StopReader
  <2>1. at = "stop" /\ at' = "notifyStop" /\ reader' = [reader EXCEPT !.stopped = TRUE]
    BY <1>6 DEF StopReader
  <2>2. /\ reader' \in ReaderStates /\ reader'.pc = reader.pc /\ reader'.i = reader.i
        /\ reader'.ready = reader.ready /\ reader'.taken = reader.taken
        /\ reader'.error = reader.error
    BY ONLY <1>3, <2>1 DEF ReaderStates
  <2>3. TypeOK'
    BY <1>2, <2>1, <2>2 DEF IInv, TypeOK, LoadLabels
  <2>4. ReaderInv'
    BY <1>2, <1>4, <2>1, <2>2 DEF IInv, ReaderInv
  <2>5. FailInv'
    BY <1>2, <1>4, <2>1, <2>2 DEF IInv, FailInv
  <2>6. Moved
    BY <1>1, <1>3, <2>1, <2>2, <2>3, <2>4, <2>5 DEF Moved, InLoad, LoadLabels
  <2> QED
    BY <2>6, MovedKeeps
<1>7. CASE NotifyStop
  <2>1. at = "notifyStop" /\ at' = "join" /\ reader' = reader
    BY <1>7 DEF NotifyStop
  <2>2. TypeOK'
    BY <1>2, <2>1 DEF IInv, TypeOK, LoadLabels
  <2>3. ReaderInv' /\ FailInv'
    BY <1>2, <1>4, <2>1 DEF IInv, ReaderInv, FailInv
  <2>4. Moved
    BY <1>1, <1>3, <2>1, <2>2, <2>3 DEF Moved, InLoad, LoadLabels
  <2> QED
    BY <2>4, MovedKeeps
<1>8. CASE JoinReader
  <2>1. /\ at = "join" /\ reader.pc = "done" /\ reader' = reader
        /\ at' = IF failed \/ reader.error THEN "abandon" ELSE "prepare"
    BY <1>8 DEF JoinReader
  <2>2. TypeOK'
    BY <1>2, <2>1 DEF IInv, TypeOK, LoadLabels
  <2>3. ReaderInv'
    BY <1>2, <1>4, <2>1 DEF IInv, ReaderInv
  <2>4. FailInv'
    BY <1>2, <1>4, <2>1 DEF IInv, FailInv
  <2>5. at' = "prepare" => item > Len(Calls)
    BY <1>3, <2>1 DEF IInv, FailInv, CallOrder
  <2>6. Moved
    BY <1>1, <1>3, <2>1, <2>2, <2>3, <2>4, <2>5 DEF Moved, InLoad, LoadLabels
  <2> QED
    BY <2>6, MovedKeeps
<1>9. CASE CheckPending
  <2>1. at = "check" /\ at' \in {"leave", "abandon"} /\ reader' = reader
    BY <1>9 DEF CheckPending
  <2>2. TypeOK'
    BY <1>2, <2>1 DEF IInv, TypeOK, LoadLabels
  <2>3. ReaderInv' /\ FailInv'
    BY <1>2, <1>4, <2>1 DEF IInv, ReaderInv, FailInv
  <2>4. Moved
    BY <1>1, <1>3, <2>1, <2>2, <2>3 DEF Moved, InLoad, LoadLabels
  <2> QED
    BY <2>4, MovedKeeps
<1>10. CASE (Enforce \/ KernelThrows \/ Unwind) /\ UNCHANGED <<loaderVars, reader, asleep>>
  <2>1. /\ at \in {"enforce", "execute"} \/ (at = "threw" /\ caller \in {"idle", "inputs", "enforce"})
        /\ reader' = reader
        /\ \/ at' = "idle"
           \/ at = "enforce" /\ at' = "execute" /\ PrepsOf(node) \subseteq prep.complete
    BY <1>10 DEF Enforce, KernelThrows, Unwind
  <2>2. TypeOK'
    BY <1>2, <2>1 DEF IInv, TypeOK, LoadLabels, RunLabels
  <2>3. ReaderInv'
    BY <1>2, <1>4, <2>1 DEF IInv, ReaderInv
  <2>4. FailInv'
    BY <1>2, <1>4, <2>1 DEF IInv, FailInv
  <2>5. Moved
    BY <1>1, <1>3, <2>1, <2>2, <2>3, <2>4 DEF Moved, InLoad, LoadLabels
  <2> QED
    BY <2>5, MovedKeeps
<1> QED
  BY <1>5, <1>6, <1>7, <1>8, <1>9, <1>10

-----------------------------------------------------------------------------
(***************************************************************************)
(* The loop over the candidates.                                           *)
(***************************************************************************)

\* What a step on a candidate owes.
Worked ==
    /\ at = "loop"
    /\ UNCHANGED <<consumable, untyped, foreign, outputs, releases, caller, node>>
    /\ UNCHANGED <<loaderVars, reader>>
    /\ (at' = at /\ failed' = failed) \/ (at' = "threw" /\ failed' = TRUE)
    /\ Sound(prep') /\ prep'.limit = prep.limit
    /\ store' \in Nat /\ store' <= SharedBytes + PreparedBytes(prep'.complete)
    /\ Counted(prep', failed')
    /\ consumed \subseteq consumed' /\ consumed' \subseteq consumable
    /\ values' \cup consumed' = values \cup consumed
    /\ InLoad => reservation + store' <= limit
    /\ deferred' \subseteq deferred
    /\ BooksInv' /\ PendingInv'

LEMMA WorkedKeeps == ASSUME IInv, Worked PROVE IInv'
<1>1. /\ UNCHANGED <<consumable, untyped, foreign, outputs, releases, caller, node>>
      /\ UNCHANGED <<overlap, external, limit, reservation, seeded, item, before, reader>>
      /\ at = "loop" /\ at' \in {"loop", "threw"}
      /\ values' \cup consumed' = values \cup consumed
  BY DEF Worked, loaderVars
<1>2. Calls' = Calls /\ Queued' = Queued /\ Overlapped' = Overlapped
  BY <1>1, SameCalls
<1>3. prep' \in PrepStates
  BY DEF Worked, Sound
<1>4. TypeOK'
  <2>1. /\ consumable' \subseteq Consumable /\ consumed' \subseteq consumable'
        /\ deferred' \subseteq untyped' /\ before' \subseteq consumed'
    BY <1>1 DEF Worked, IInv, TypeOK
  <2>2. store' \in Nat /\ failed' \in BOOLEAN
    BY DEF Worked, IInv, TypeOK
  <2> QED
    BY <1>1, <1>3, <2>1, <2>2 DEF IInv, TypeOK, LoadLabels, RunLabels
<1>5. StartInv'
  BY <1>1 DEF StartInv
<1>6. QueueInv'
  <2>1. PreparedBytes(prep'.complete) = PreparedBytes(prep.complete)'
    BY DEF PreparedBytes
  <2> QED
    BY <2>1 DEF Worked, QueueInv, Sound, Counted
<1>7. InLoad' <=> InLoad
  BY <1>1 DEF InLoad, LoadLabels
<1>8. ReachedInv'
  BY <1>1, <1>2, <1>7 DEF IInv, ReachedInv
<1>9. TakenInv'
  BY <1>1, <1>2, <1>7 DEF IInv, TakenInv
<1>10. ReaderInv'
  BY <1>1, <1>2 DEF IInv, ReaderInv
<1>11. FailInv'
  BY <1>1, <1>2 DEF Worked, IInv, FailInv
<1>12. LimitInv'
  BY <1>1, <1>7 DEF Worked, IInv, LimitInv
<1>13. RunInv'
  BY <1>1 DEF IInv, RunInv
<1>14. ReserveInv'
  BY <1>1 DEF IInv, ReserveInv, BytesOf
<1> QED
  BY <1>4, <1>5, <1>6, <1>8, <1>9, <1>10, <1>11, <1>12, <1>13, <1>14 DEF Worked, IInv

\* Resolving the tuning of the candidate's node makes no other preparation ready.
LEMMA ResolvedFacts ==
    ASSUME deferred' = Resolved, values' \subseteq values, outputs' = outputs
    PROVE  /\ deferred' \subseteq deferred
           /\ \A n : ~StillDeferred(n)' => ~StillDeferred(n)
           /\ \A w : Visible(w)' => Visible(w)
<1>1. deferred' \subseteq deferred
      /\ \A n \in deferred : n \notin deferred' => ~StillDeferred(n)
  BY DEF Resolved
<1>2. \A w : Visible(w)' => Visible(w)
  BY DEF Visible
<1>3. ASSUME NEW n, ~StillDeferred(n)' PROVE ~StillDeferred(n)
  <2>1. n \notin deferred' \/ \E w \in TuningInputs[n] : Visible(w)'
    BY <1>3 DEF StillDeferred
  <2>2. CASE n \notin deferred'
    BY <1>1, <2>2 DEF StillDeferred
  <2>3. CASE \E w \in TuningInputs[n] : Visible(w)'
    BY <1>2, <2>3 DEF StillDeferred
  <2> QED
    BY <2>1, <2>2, <2>3
<1> QED
  BY <1>1, <1>2, <1>3

LEMMA ReadyBefore ==
    ASSUME deferred' = Resolved, values' \subseteq values, outputs' = outputs, NEW p, Ready(p)'
    PROVE  /\ ~StillDeferred(NodeOf[p]) /\ \A w \in SourceSet(p) : Visible(w)
           /\ Dependencies[p] \subseteq prep'.complete
<1>1. /\ ~StillDeferred(NodeOf[p])'
      /\ \A w \in SourceSet(p) : Visible(w)'
      /\ Dependencies[p] \subseteq prep'.complete
  BY DEF Ready, SourceSet
<1> QED
  BY <1>1, ResolvedFacts

LEMMA PopKeeps ==
    ASSUME IInv, UNCHANGED <<loaderVars, reader>>,
           SkipCandidate \/ BlockCandidate \/ CandidateThrows
    PROVE  IInv'
<1>1. /\ at = "loop" /\ prep.queue # <<>>
      /\ deferred' = Resolved \/ (deferred' = deferred /\ CandidateThrows)
      /\ UNCHANGED <<consumable, untyped, foreign, store, required, consumed, values, outputs, releases,
                     caller, node>>
      /\ (at' = at /\ failed' = failed) \/ (at' = "threw" /\ failed' = TRUE)
  BY DEF SkipCandidate, BlockCandidate, CandidateThrows
<1>2. Sound(prep) /\ Counted(prep, failed)
      /\ store <= SharedBytes + PreparedBytes(prep.complete) /\ store \in Nat
  BY <1>1 DEF IInv, QueueInv, TypeOK
<1>3. /\ Candidate \in Preps /\ Candidate \in prep.queued /\ Candidate \notin prep.complete
      /\ Sound(Popped)
      /\ Popped.queued = prep.queued \ {Candidate} /\ Popped.complete = prep.complete
      /\ Popped.blocked = prep.blocked /\ Popped.pending = prep.pending
      /\ Popped.limit = prep.limit
  BY <1>1, <1>2, PopFacts
<1>4. /\ Sound(prep')
      /\ prep'.queued = prep.queued \ {Candidate} /\ prep'.complete = prep.complete
      /\ prep'.pending = prep.pending /\ prep'.limit = prep.limit
      /\ prep.blocked \subseteq prep'.blocked
      /\ BlockCandidate => Candidate \in prep'.blocked
  <2>1. CASE prep' = Popped /\ ~BlockCandidate
    BY <1>3, <2>1
  <2>2. CASE BlockCandidate
    <3>1. PICK q, b : q = Popped /\ b = prep.blocked \cup {Candidate}
      OBVIOUS
    <3>2. q \in PrepStates /\ b \in SUBSET Preps
      BY <1>2, <1>3, <3>1 DEF Sound, PrepStates
    <3>3. prep' = [q EXCEPT !.blocked = b]
      BY <1>3, <2>2, <3>1 DEF BlockCandidate
    <3>4. /\ prep' \in PrepStates /\ prep'.blocked = b /\ prep'.queue = q.queue
          /\ prep'.queued = q.queued /\ prep'.complete = q.complete
          /\ prep'.pending = q.pending /\ prep'.limit = q.limit
      BY ONLY <3>2, <3>3 DEF PrepStates
    <3>5. Sound(prep')
      BY <1>3, <3>1, <3>4 DEF Sound
    <3> QED
      BY <1>3, <3>1, <3>4, <3>5
  <2> QED
    BY <2>1, <2>2 DEF SkipCandidate, CandidateThrows
<1>5. deferred' \subseteq deferred
  BY <1>1, ResolvedFacts
<1>6. BooksInv'
  BY <1>1, <1>4 DEF IInv, BooksInv, Books, Consumers
<1>7. PendingInv'
  <2>1. CASE CandidateThrows
    BY <2>1 DEF CandidateThrows, PendingInv
  <2>2. ASSUME SkipCandidate \/ BlockCandidate, ~failed', caller \in {"prepared", "inputs"},
               NEW p \in Preps, p \notin prep'.complete, Ready(p)'
        PROVE  p \in prep'.queued \/ (p \in prep'.blocked /\ ~Fits(p, prep'.limit))
    <3>1. Ready(p)
      <4>1. deferred' = Resolved
        BY <2>2 DEF SkipCandidate, BlockCandidate
      <4> QED
        BY <1>1, <1>4, <2>2, <4>1, ReadyBefore DEF Ready
    <3>2. ~failed
      BY <1>1, <2>2 DEF SkipCandidate, BlockCandidate
    <3>3. p \in prep.queued \/ (p \in prep.blocked /\ ~Fits(p, prep.limit))
      BY <1>1, <1>4, <2>2, <3>1, <3>2 DEF IInv, PendingInv
    <3>4. CASE p # Candidate
      BY <1>4, <3>3, <3>4
    <3>5. CASE p = Candidate
      BY <1>4, <2>2, <3>1, <3>5 DEF SkipCandidate, BlockCandidate
    <3> QED
      BY <3>4, <3>5
  <2>3. \A p, l : Fits(p, l)' <=> Fits(p, l)
    BY <1>1 DEF Fits
  <2>4. ~CandidateThrows => (SkipCandidate \/ BlockCandidate) /\ at' = "loop"
    BY <1>1 DEF SkipCandidate, BlockCandidate
  <2> QED
    BY <1>1, <2>1, <2>2, <2>3, <2>4 DEF PendingInv
<1>8. InLoad => reservation + store' <= limit
  BY <1>1 DEF IInv, LimitInv
<1>9. consumed' \subseteq consumable
  BY <1>1 DEF IInv, TypeOK
<1>10. Counted(prep', failed')
  BY <1>1, <1>2, <1>4 DEF Counted
<1>11. Worked
  BY <1>1, <1>2, <1>4, <1>5, <1>6, <1>7, <1>8, <1>9, <1>10 DEF Worked
<1> QED
  BY <1>11, WorkedKeeps

\* Completing a preparation: the queue, the count and the bytes follow.
Completed(c) ==
    /\ Sound(prep')
    /\ prep'.complete = prep.complete \cup {c} /\ prep'.limit = prep.limit
    /\ Counted(prep', FALSE)
    /\ prep'.blocked = prep.blocked \ {c}
    /\ prep.queued \ {c} \subseteq prep'.queued
    /\ {q \in Preps : c \in Dependencies[q]} \ prep'.complete \subseteq prep'.queued

LEMMA CompleteFacts ==
    ASSUME IInv, ExecuteCandidate PROVE Completed(Candidate) /\ Candidate \in Preps
<1>1. PICK c : c = Candidate
  OBVIOUS
<1>2. at = "loop" /\ prep.queue # <<>>
  BY DEF ExecuteCandidate, Execute
<1>3. /\ Sound(prep) /\ prep.pending - Cardinality(Preps \ prep.complete) = 0
      /\ prep \in PrepStates
  BY <1>2 DEF IInv, QueueInv, TypeOK, FailInv, Counted
<1>4. PICK q : q = Popped
  OBVIOUS
<1>5. /\ c \in Preps /\ c \in prep.queued /\ c \notin prep.complete
      /\ Sound(q)
      /\ q.queued = prep.queued \ {c} /\ q.complete = prep.complete
      /\ q.blocked = prep.blocked /\ q.pending = prep.pending /\ q.limit = prep.limit
  BY <1>1, <1>2, <1>3, <1>4, PopFacts
<1>6. /\ prep.complete \in SUBSET Preps /\ prep.blocked \in SUBSET Preps /\ prep.pending \in Int
      /\ q \in PrepStates
  BY <1>3, <1>5 DEF PrepStates, Sound
<1>7. PICK done, b, n, cs : /\ done = [q EXCEPT !.complete = cs, !.pending = n, !.blocked = b]
                            /\ cs = prep.complete \cup {c} /\ n = prep.pending - 1
                            /\ b = prep.blocked \ {c}
  OBVIOUS
<1>8. done = [Popped EXCEPT !.complete = @ \cup {Candidate}, !.pending = @ - 1,
                            !.blocked = @ \ {Candidate}]
  BY <1>1, <1>4, <1>5, <1>6, <1>7 DEF PrepStates
<1>9. PICK S : S = {p \in Preps : c \in Dependencies[p]}
  OBVIOUS
<1>10. prep' = Queue(done, S)
  BY <1>1, <1>8, <1>9 DEF ExecuteCandidate
<1>11. cs \in SUBSET Preps /\ n \in Int /\ b \in SUBSET Preps
  BY <1>5, <1>6, <1>7
<1>12. /\ done \in PrepStates /\ done.complete = cs /\ done.pending = n /\ done.blocked = b
       /\ done.queue = q.queue /\ done.queued = q.queued /\ done.limit = q.limit
  BY ONLY <1>6, <1>7, <1>11 DEF PrepStates
<1>13. Sound(done)
  <2>1. q.queued \cap cs = {}
    BY <1>5, <1>7 DEF Sound
  <2> QED
    BY <1>5, <1>12, <2>1 DEF Sound
<1>14. S \subseteq Preps
  BY <1>9
<1>15. Requeued(done, S, prep')
  BY <1>10, <1>13, <1>14, QueueAdds
<1>16. /\ Sound(prep') /\ prep'.complete = cs /\ prep'.limit = prep.limit /\ prep'.pending = n
       /\ prep'.blocked = b /\ prep'.queued = (prep.queued \ {c}) \cup (S \ cs)
  BY <1>5, <1>12, <1>15 DEF Requeued
<1>17. n - Cardinality(Preps \ cs) = 0
  <2>1. PICK R : R = Preps \ prep.complete
    OBVIOUS
  <2>2. R \in SUBSET Preps /\ c \in R /\ Preps \ cs = R \ {c}
    BY <1>5, <1>7, <2>1
  <2>3. IsFiniteSet(R)
    BY <2>2, PrepFacts
  <2>4. Cardinality(R \ {c}) = Cardinality(R) - 1
    BY ONLY <2>2, <2>3, FS_RemoveElement
  <2>5. Cardinality(R) \in Nat
    BY ONLY <2>3, FS_CardinalityType
  <2>6. PICK x, y : x = Cardinality(R) /\ y = Cardinality(Preps \ cs)
    OBVIOUS
  <2>7. x \in Nat /\ y = x - 1 /\ prep.pending - x = 0 /\ n = prep.pending - 1
    BY <1>3, <1>7, <2>1, <2>2, <2>4, <2>5, <2>6
  <2>8. n - y = 0
    BY ONLY <1>6, <2>7
  <2> QED
    BY <2>6, <2>8
<1>18. Counted(prep', FALSE)
  BY <1>16, <1>17 DEF Counted
<1> QED
  BY <1>1, <1>5, <1>7, <1>9, <1>16, <1>18 DEF Completed

\* The consumed sources were in the context, were required and have no reader left.
LEMMA ConsumptionFacts ==
    ASSUME IInv, at = "loop", Ready(Candidate), Candidate \in Preps
    PROVE  /\ Consumption(Candidate) \subseteq consumable \ consumed
           /\ Consumption(Candidate) \subseteq values
           /\ Consumption(Candidate) \subseteq Range(required.names)
           /\ Consumption(Candidate) \subseteq SourceSet(Candidate)
           /\ \A w \in Consumption(Candidate) : Consumers(w) \subseteq prep.complete \cup {Candidate}
<1>1. /\ Consumption(Candidate) \subseteq consumable \ consumed
      /\ Consumption(Candidate) \subseteq SourceSet(Candidate)
      /\ \A w \in Consumption(Candidate) : Consumers(w) \subseteq prep.complete \cup {Candidate}
  BY DEF Consumption
<1>2. SourceSet(Candidate) \subseteq values
  BY DEF Ready, Visible
<1>3. consumable \subseteq Range(RequiredInputs)
  BY PlanAssumption DEF IInv, TypeOK
<1>4. Range(required.names) = Range(RequiredInputs) \ consumed
  BY DEF IInv, BooksInv
<1> QED
  BY <1>1, <1>2, <1>3, <1>4

\* What running the candidate and dropping some of its sources keeps.
Executed(gone) ==
    /\ BooksInv'
    /\ store' \in Nat /\ store <= store' /\ store' <= SharedBytes + PreparedBytes(prep'.complete)
    /\ InLoad => reservation + store' <= limit
    /\ consumed \subseteq consumed' /\ consumed' \subseteq consumable
    /\ values' \cup consumed' = values \cup consumed
    /\ values' \subseteq values

LEMMA ExecutedFacts ==
    ASSUME IInv, Candidate \in Preps, Candidate \notin prep.complete,
           prep'.complete = prep.complete \cup {Candidate},
           NEW gone, gone \subseteq Consumption(Candidate), Execute(gone)
    PROVE  Executed(gone)
<1>1. PICK c : c = Candidate
  OBVIOUS
<1>2. /\ at = "loop" /\ Ready(c) /\ Fits(c, prep.limit) /\ c \in Preps
      /\ consumed' = consumed \cup gone /\ values' = values \ gone
      /\ required' = RequiredWithout(Sources[c], gone)
      /\ store' \in store..(store + Memory[c].prepared)
      /\ UNCHANGED <<consumable, untyped, foreign>>
  BY <1>1 DEF Execute
<1>3. prep'.complete = prep.complete \cup {c} /\ c \notin prep.complete
  BY <1>1
<1>4. /\ gone \subseteq consumable \ consumed /\ gone \subseteq values
      /\ gone \subseteq Range(required.names) /\ gone \subseteq SourceSet(c)
      /\ \A w \in gone : Consumers(w) \subseteq prep.complete \cup {c}
  BY <1>1, <1>2, ConsumptionFacts
<1>5. /\ Memory[c].source \in Nat /\ Memory[c].temporary \in Nat /\ Memory[c].prepared \in Nat
  BY <1>2, MemoryTypes
<1>6. store \in Nat /\ limit \in Nat /\ reservation \in Int
  BY DEF IInv, TypeOK
<1>7. store' \in Nat /\ store <= store' /\ store' <= store + Memory[c].prepared
  <2>1. PICK m : m = Memory[c].prepared
    OBVIOUS
  <2>2. store' \in store..(store + m) /\ m \in Nat
    BY <1>2, <1>5, <2>1
  <2>3. store' \in Nat /\ store <= store' /\ store' <= store + m
    BY ONLY <1>6, <2>2
  <2> QED
    BY <2>1, <2>3
<1>8. store' <= SharedBytes + PreparedBytes(prep'.complete)
  <2>1. prep.complete \in SUBSET Preps /\ store <= SharedBytes + PreparedBytes(prep.complete)
    BY DEF IInv, QueueInv, TypeOK, PrepStates
  <2>2. PreparedBytes(prep'.complete) = PreparedBytes(prep.complete) + Memory[c].prepared
    BY <1>2, <1>3, <2>1, PreparedAdd
  <2>3. PreparedBytes(prep.complete) \in Nat /\ SharedBytes \in Nat
    BY <2>1, PreparedType, PreparationAssumption
  <2> QED
    BY ONLY <1>5, <1>6, <1>7, <2>1, <2>2, <2>3
<1>9. BooksInv'
  <2>1. /\ \A w \in consumed : Consumers(w) \subseteq prep.complete /\ w \notin values \ foreign
        /\ Books(required) /\ Range(required.names) = Range(RequiredInputs) \ consumed
    BY <1>2 DEF IInv, BooksInv
  <2>2. RemovedAll(required, gone, required')
    <3>1. PICK s : s = Sources[c]
      OBVIOUS
    <3>2. s \in Seq(Names)
      BY <1>2, <3>1, PreparationAssumption
    <3>3. Len(s) \in Nat /\ DOMAIN s = 1..Len(s)
      BY <3>2
    <3>4. gone \subseteq Range(s) /\ gone \subseteq consumable \cap Range(required.names)
      BY <1>4, <3>1 DEF SourceSet
    <3>5. consumable \subseteq Consumable
      BY DEF IInv, TypeOK
    <3> QED
      BY <1>2, <2>1, <3>1, <3>3, <3>4, <3>5, RequiredKeeps
  <2>3. Books(required')
    BY <2>2 DEF RemovedAll
  <2>4. Books(required)'
    BY <1>2, <2>3 DEF Books
  <2>5. Range(required'.names) = Range(RequiredInputs) \ consumed'
    BY <1>2, <2>1, <2>2 DEF RemovedAll
  <2>6. \A w : Consumers(w)' = Consumers(w)
    BY <1>2 DEF Consumers
  <2>7. \A w \in consumed' : Consumers(w)' \subseteq prep'.complete /\ w \notin values' \ foreign'
    BY <1>2, <1>3, <1>4, <2>1, <2>6
  <2> QED
    BY <2>4, <2>5, <2>7 DEF BooksInv
<1>10. ASSUME InLoad PROVE reservation + store' <= limit
  <2>1. prep.limit = limit - reservation
    BY <1>2, <1>10 DEF IInv, LimitInv, InLoad, LoadLabels
  <2>2. store + Memory[c].source + Memory[c].temporary + Memory[c].prepared <= limit - reservation
    BY <1>2, <2>1 DEF Fits
  <2>3. PICK x, y, z, s : x = Memory[c].source /\ y = Memory[c].temporary
                         /\ z = Memory[c].prepared /\ s = store'
    OBVIOUS
  <2>4. /\ x \in Nat /\ y \in Nat /\ z \in Nat /\ s \in Nat /\ s <= store + z
        /\ store + x + y + z <= limit - reservation
    BY <1>5, <1>7, <2>2, <2>3
  <2>5. reservation + s <= limit
    BY ONLY <1>6, <2>4
  <2> QED
    BY <2>3, <2>5
<1>11. /\ consumed \subseteq consumed' /\ consumed' \subseteq consumable
       /\ values' \cup consumed' = values \cup consumed /\ values' \subseteq values
  BY <1>2, <1>4 DEF IInv, TypeOK
<1> QED
  BY <1>7, <1>8, <1>9, <1>10, <1>11 DEF Executed

LEMMA ExecuteKeeps ==
    ASSUME IInv, UNCHANGED <<loaderVars, reader>>, ExecuteCandidate
    PROVE  IInv'
<1>1. PICK c : c = Candidate
  OBVIOUS
<1>2. /\ at = "loop" /\ Ready(c) /\ Fits(c, prep.limit) /\ deferred' = Resolved
      /\ UNCHANGED <<consumable, untyped, foreign, failed, outputs, releases, at, caller, node>>
  BY <1>1 DEF ExecuteCandidate, Execute
<1>3. Completed(c) /\ c \in Preps /\ c \notin prep.complete
  <2>1. Sound(prep) /\ prep.queue # <<>>
    BY DEF IInv, QueueInv, ExecuteCandidate, Execute
  <2> QED
    BY <1>1, <2>1, CompleteFacts, PopFacts
<1>4. Executed(Consumption(Candidate))
  <2>1. PICK gone : gone = Consumption(Candidate)
    OBVIOUS
  <2>2. Execute(gone) /\ gone \subseteq Consumption(Candidate)
    BY <2>1 DEF ExecuteCandidate
  <2>3. prep'.complete = prep.complete \cup {Candidate}
    BY <1>1, <1>3 DEF Completed
  <2> QED
    BY <1>1, <1>3, <2>1, <2>2, <2>3, ExecutedFacts
<1>5. values' \subseteq values /\ store' \in Nat /\ store <= store'
  BY <1>4 DEF Executed
<1>6. deferred' \subseteq deferred
  BY <1>2, <1>5, ResolvedFacts
<1>7. PendingInv'
  <2> SUFFICES ASSUME ~failed, caller \in {"prepared", "inputs"},
                      NEW p \in Preps, p \notin prep'.complete, Ready(p)'
               PROVE  p \in prep'.queued \/ (p \in prep'.blocked /\ ~Fits(p, prep.limit)')
    BY <1>2 DEF PendingInv
  <2>1. /\ ~StillDeferred(NodeOf[p]) /\ \A w \in SourceSet(p) : Visible(w)
        /\ Dependencies[p] \subseteq prep'.complete
    BY <1>2, <1>5, ReadyBefore
  <2>2. CASE c \in Dependencies[p]
    BY <1>3, <2>2 DEF Completed
  <2>3. CASE c \notin Dependencies[p]
    <3>1. p # c /\ p \notin prep.complete
      BY <1>3 DEF Completed
    <3>2. Ready(p)
      BY <1>3, <2>1, <2>3 DEF Completed, Ready
    <3>3. p \in prep.queued \/ (p \in prep.blocked /\ ~Fits(p, prep.limit))
      BY <1>2, <3>1, <3>2 DEF IInv, PendingInv
    <3>4. ASSUME ~Fits(p, prep.limit) PROVE ~Fits(p, prep.limit)'
      <4>1. /\ Memory[p].source \in Nat /\ Memory[p].temporary \in Nat /\ Memory[p].prepared \in Nat
        BY MemoryTypes
      <4>2. store \in Nat /\ store' \in Nat /\ store <= store' /\ prep.limit \in Int
        BY <1>5 DEF IInv, TypeOK, PrepStates
      <4>3. prep'.limit = prep.limit
        BY <1>3 DEF Completed
      <4>4. ~(store + Memory[p].source + Memory[p].temporary + Memory[p].prepared <= prep.limit)
        BY <3>4 DEF Fits
      <4>5. ~(store' + Memory[p].source + Memory[p].temporary + Memory[p].prepared <= prep.limit)
        BY ONLY <4>1, <4>2, <4>4
      <4> QED
        BY <4>3, <4>5 DEF Fits
    <3> QED
      BY <1>3, <3>1, <3>3, <3>4 DEF Completed
  <2> QED
    BY <2>2, <2>3
<1>8. Counted(prep', failed')
  BY <1>2, <1>3 DEF Completed, IInv, FailInv, TypeOK
<1>9. Worked
  BY <1>2, <1>3, <1>4, <1>6, <1>7, <1>8 DEF Worked, Completed, Executed
<1> QED
  BY <1>9, WorkedKeeps

\* A source that is not the owned initializer: the preparation is complete, the
\* count is one too high, and the session has failed.
LEMMA ConsumeThrowsKeeps ==
    ASSUME IInv, UNCHANGED <<loaderVars, reader>>, ConsumeThrows
    PROVE  IInv'
<1>1. PICK c, gone : c = Candidate /\ gone = DroppedBefore(Candidate)
  OBVIOUS
<1>2. /\ at = "loop" /\ prep.queue # <<>> /\ Execute(gone) /\ deferred' = Resolved
      /\ failed' = TRUE /\ at' = "threw"
      /\ UNCHANGED <<consumable, untyped, foreign, outputs, releases, caller, node>>
  BY <1>1 DEF ConsumeThrows, Execute
<1>3. /\ Sound(prep) /\ prep.pending - Cardinality(Preps \ prep.complete) = 0
      /\ prep \in PrepStates
  BY <1>2 DEF IInv, QueueInv, TypeOK, FailInv, Counted
<1>4. PICK q, cs : q = Popped /\ cs = prep.complete \cup {c}
  OBVIOUS
<1>5. /\ c \in Preps /\ c \in prep.queued /\ c \notin prep.complete
      /\ Sound(q)
      /\ q.queued = prep.queued \ {c} /\ q.complete = prep.complete
      /\ q.blocked = prep.blocked /\ q.pending = prep.pending /\ q.limit = prep.limit
  BY <1>1, <1>2, <1>3, <1>4, PopFacts
<1>6. /\ cs \in SUBSET Preps /\ prep.pending \in Int /\ q \in PrepStates
  BY <1>3, <1>4, <1>5 DEF PrepStates, Sound
<1>7. prep' = [q EXCEPT !.complete = cs]
  BY <1>1, <1>4, <1>5, <1>6 DEF ConsumeThrows, PrepStates
<1>8. /\ prep' \in PrepStates /\ prep'.complete = cs /\ prep'.pending = q.pending
      /\ prep'.queue = q.queue /\ prep'.queued = q.queued /\ prep'.limit = q.limit
  BY ONLY <1>6, <1>7 DEF PrepStates
<1>9. Sound(prep')
  <2>1. q.queued \cap cs = {}
    BY <1>4, <1>5 DEF Sound
  <2> QED
    BY <1>5, <1>8, <2>1 DEF Sound
<1>10. Counted(prep', failed')
  <2>1. PICK R : R = Preps \ prep.complete
    OBVIOUS
  <2>2. R \in SUBSET Preps /\ c \in R /\ Preps \ cs = R \ {c}
    BY <1>4, <1>5, <2>1
  <2>3. IsFiniteSet(R)
    BY <2>2, PrepFacts
  <2>4. Cardinality(R \ {c}) = Cardinality(R) - 1 /\ Cardinality(R) \in Nat
    BY ONLY <2>2, <2>3, FS_RemoveElement, FS_CardinalityType
  <2>5. PICK x, y : x = Cardinality(R) /\ y = Cardinality(Preps \ cs)
    OBVIOUS
  <2>6. x \in Nat /\ y = x - 1 /\ prep.pending - x = 0
    BY <1>3, <2>1, <2>2, <2>4, <2>5
  <2>7. prep.pending - y = 1
    BY ONLY <1>6, <2>6
  <2>8. prep'.pending - Cardinality(Preps \ prep'.complete) = 1
    BY <1>5, <1>8, <2>5, <2>7
  <2> QED
    BY <1>2, <2>8 DEF Counted
<1>11. Executed(gone)
  <2>1. gone \subseteq Consumption(Candidate)
    BY <1>1 DEF DroppedBefore
  <2> QED
    BY <1>1, <1>2, <1>4, <1>5, <1>8, <2>1, ExecutedFacts
<1>12. deferred' \subseteq deferred
  BY <1>2, <1>11, ResolvedFacts DEF Executed
<1>13. PendingInv'
  BY <1>2 DEF PendingInv
<1>14. Worked
  BY <1>2, <1>5, <1>8, <1>9, <1>10, <1>11, <1>12, <1>13 DEF Worked, Executed
<1> QED
  BY <1>14, WorkedKeeps

LEMMA DoneKeeps ==
    ASSUME IInv, UNCHANGED <<loaderVars, reader>>, LoopDone
    PROVE  IInv'
<1>1. /\ at = "loop" /\ prep.queue = <<>> /\ prep' = [prep EXCEPT !.mark = store] /\ at' = caller
      /\ UNCHANGED <<consumable, untyped, foreign, store, deferred, required, consumed, failed, values, outputs,
                     releases, caller, node>>
      /\ UNCHANGED <<overlap, external, limit, reservation, seeded, item, before, reader>>
  BY DEF LoopDone, loaderVars
<1>2. Calls' = Calls /\ Queued' = Queued /\ Overlapped' = Overlapped
  BY <1>1, SameCalls
<1>3. prep \in PrepStates /\ store \in Nat /\ caller \in Callers
  BY <1>1 DEF IInv, TypeOK, Callers
<1>4. /\ prep' \in PrepStates /\ prep'.complete = prep.complete /\ prep'.queue = prep.queue
      /\ prep'.queued = prep.queued /\ prep'.blocked = prep.blocked
      /\ prep'.pending = prep.pending /\ prep'.limit = prep.limit
  <2>1. PICK n : n = store
    OBVIOUS
  <2>2. prep' = [prep EXCEPT !.mark = n] /\ n \in Nat
    BY <1>1, <1>3, <2>1
  <2> QED
    BY ONLY <1>3, <2>2 DEF PrepStates
<1>5. at' \in Callers /\ at' # "declare" /\ (InLoad' => InLoad)
  BY <1>1, <1>3 DEF Callers, InLoad, LoadLabels
<1>6. TypeOK'
  BY <1>1, <1>4, <1>5 DEF IInv, TypeOK, LoadLabels, RunLabels, Callers
<1>7. StartInv'
  BY <1>5 DEF StartInv
<1>8. QueueInv'
  BY <1>1, <1>4 DEF IInv, QueueInv, Sound, PreparedBytes, Counted
<1>9. BooksInv'
  BY <1>1, <1>4 DEF IInv, BooksInv, Books, Consumers
<1>10. ReachedInv' /\ TakenInv'
  <2>1. at' # "prepare"
    BY <1>5 DEF Callers
  <2> QED
    BY <1>1, <1>2, <1>5, <2>1 DEF IInv, ReachedInv, TakenInv
<1>11. ReaderInv'
  BY <1>1, <1>2 DEF IInv, ReaderInv
<1>12. FailInv'
  BY <1>1, <1>2, <1>5 DEF IInv, FailInv, Callers
<1>13. LimitInv'
  BY <1>1, <1>4, <1>5 DEF IInv, LimitInv, Callers
<1>14. PendingInv'
  <2>1. \A p : Ready(p)' <=> Ready(p)
    BY <1>1, <1>4 DEF Ready, StillDeferred, Visible
  <2>2. \A p, l : Fits(p, l)' <=> Fits(p, l)
    BY <1>1 DEF Fits
  <2> QED
    BY <1>1, <1>4, <1>5, <2>1, <2>2 DEF IInv, PendingInv, Callers
<1>15. RunInv'
  BY <1>1, <1>4, <1>5 DEF IInv, RunInv, Callers
<1>16. ReserveInv'
  BY <1>1, <1>5 DEF IInv, ReserveInv, BytesOf, Callers
<1> QED
  BY <1>6, <1>7, <1>8, <1>9, <1>10, <1>11, <1>12, <1>13, <1>14, <1>15, <1>16 DEF IInv

-----------------------------------------------------------------------------
(***************************************************************************)
(* The steps of the loader.                                                *)
(***************************************************************************)

LEMMA CalledQueue ==
    ASSUME IInv, at # "declare", NEW l, NEW S, NEW back, Called(l, S, back), store' = store,
           failed' = failed
    PROVE  prep' \in PrepStates /\ QueueInv'
<1>1. /\ Sound(prep') /\ prep'.complete = prep.complete /\ prep'.pending = prep.pending
  BY DEF Called
<1>2. /\ store' <= SharedBytes + PreparedBytes(prep.complete)'
      /\ Counted(prep', failed) /\ failed' = failed
  BY <1>1 DEF IInv, QueueInv, PreparedBytes, Counted
<1> QED
  BY <1>1, <1>2 DEF QueueInv, Sound, Counted

\* With nothing pending every preparation is complete.
LEMMA NonePending == ASSUME IInv, at # "declare", prep.pending = 0 PROVE Preps \ prep.complete = {}
<1>1. Preps \ prep.complete \in SUBSET Preps
  OBVIOUS
<1>2. Cardinality(Preps \ prep.complete) \in Nat
  <2>1. IsFiniteSet(Preps \ prep.complete)
    BY <1>1, PrepFacts
  <2> QED
    BY ONLY <2>1, FS_CardinalityType
<1>3. prep.pending - Cardinality(Preps \ prep.complete) \in {0, 1}
  BY DEF IInv, QueueInv, Counted
<1>4. Cardinality(Preps \ prep.complete) = 0
  BY <1>2, <1>3
<1> QED
  BY <1>1, <1>4, PrepFacts

LEMMA DeclareKeeps == ASSUME IInv, Declare PROVE IInv'
<1>1. /\ at = "declare" /\ Declared
      /\ prep' = Queue([prep EXCEPT !.pending = NumPreps], Preps)
      /\ item' = 1
      /\ at' \in {"prepare"} \cup IF Overlapped \/ external = {} THEN {} ELSE {"abandon"}
      /\ reader' = [reader EXCEPT !.pc = IF Overlapped THEN "wait" ELSE @, !.i = 1]
      /\ UNCHANGED <<consumable, foreign, store, consumed, failed, values, outputs, releases, caller, node,
                     overlap, external, limit, reservation, seeded, before>>
  BY DEF Declare
<1>2. /\ prep = NoPreparations /\ store = SharedBytes /\ consumed = {} /\ ~failed
      /\ values \cap Initializers = {}
      /\ reader.pc = "none" /\ reader.i = 0 /\ reader.ready = 0 /\ reader.taken = 0
  BY <1>1 DEF IInv, StartInv
<1>3. Calls' = Calls /\ Queued' = Queued /\ Overlapped' = Overlapped
  BY <1>1, SameCalls
<1>4. reader \in ReaderStates /\ CallOrder
  BY ReaderTypes
<1>5. /\ reader' \in ReaderStates /\ reader'.pc = (IF Overlapped THEN "wait" ELSE "none")
      /\ reader'.i = 1 /\ reader'.ready = 0 /\ reader'.taken = 0
  <2>1. PICK pc : pc = IF Overlapped THEN "wait" ELSE "none"
    OBVIOUS
  <2>2. reader' = [reader EXCEPT !.pc = pc, !.i = 1] /\ pc \in {"wait", "none"}
    BY <1>1, <1>2, <1>4, <2>1 DEF ReaderStates
  <2>3. /\ reader' \in ReaderStates /\ reader'.pc = pc /\ reader'.i = 1
        /\ reader'.ready = reader.ready /\ reader'.taken = reader.taken
    BY ONLY <1>4, <2>2 DEF ReaderStates, ReaderLabels
  <2> QED
    BY <1>2, <2>1, <2>3
<1>6. /\ Sound(prep') /\ prep'.complete = {} /\ prep'.pending = NumPreps
      /\ prep'.queued = Preps
  <2>1. PICK p : p = [prep EXCEPT !.pending = NumPreps]
    OBVIOUS
  <2>2. prep \in PrepStates /\ Sound(prep) /\ prep.complete = {} /\ prep.queued = {}
    BY <1>2, EmptyQueue DEF Sound, NoPreparations
  <2>3. NumPreps \in Int
    BY PreparationAssumption
  <2>4. /\ p \in PrepStates /\ p.complete = prep.complete /\ p.queued = prep.queued
        /\ p.queue = prep.queue /\ p.pending = NumPreps
    BY ONLY <2>1, <2>2, <2>3 DEF PrepStates
  <2>5. Sound(p)
    BY <2>2, <2>4 DEF Sound
  <2>6. Requeued(p, Preps, prep')
    BY <1>1, <2>1, <2>5, QueueAdds
  <2> QED
    BY <2>2, <2>4, <2>6 DEF Requeued
<1>7. at' \in {"prepare", "abandon"} /\ (Overlapped => at' = "prepare")
  BY <1>1
<1>8. TypeOK'
  <2>1. deferred' \subseteq untyped'
    BY <1>1 DEF Declared
  <2> QED
    BY <1>1, <1>5, <1>6, <1>7, <2>1 DEF IInv, TypeOK, LoadLabels, Sound
<1>9. StartInv'
  BY <1>7 DEF StartInv
<1>10. QueueInv'
  <2>1. PreparedBytes(prep.complete)' = 0
    BY <1>6, PreparedEmpty DEF PreparedBytes
  <2>2. prep'.pending - Cardinality(Preps \ prep'.complete) = 0
    BY <1>6, PrepFacts
  <2>3. Counted(prep', failed')
    BY <1>1, <1>2, <2>2 DEF Counted
  <2>4. store' <= SharedBytes + PreparedBytes(prep.complete)'
    BY <1>1, <1>2, <2>1, PreparationAssumption
  <2> QED
    BY <1>6, <2>3, <2>4 DEF QueueInv, Sound, Counted
<1>11. BooksInv'
  <2>1. PICK x : x = [w \in Consumable |->
                        CHOOSE j \in 1..Len(RequiredInputs) : RequiredInputs[j] = w]
    OBVIOUS
  <2>2. required' = [names |-> RequiredInputs, index |-> x]
    BY <1>1, <2>1 DEF Declared
  <2>3. /\ RequiredInputs \in Seq(Range(RequiredInputs)) /\ IsInjective(RequiredInputs)
        /\ Consumable \subseteq Range(RequiredInputs)
    BY PlanAssumption
  <2>4. RequiredInputs \in Seq(Names)
    <3>1. Range(RequiredInputs) \subseteq Names
      BY DEF Names
    <3> QED
      BY ONLY <2>3, <3>1, SeqOfMore
  <2>5. DOMAIN RequiredInputs = 1..Len(RequiredInputs)
    BY <2>3
  <2>6. ASSUME NEW w \in Consumable
        PROVE  x[w] \in 1..Len(RequiredInputs) /\ RequiredInputs[x[w]] = w
    <3>1. \E j \in 1..Len(RequiredInputs) : RequiredInputs[j] = w
      BY <2>3, <2>5 DEF Range
    <3> QED
      BY <2>1, <3>1
  <2>7. x = [w \in Consumable |-> x[w]]
    BY <2>1
  <2>8. consumable' \subseteq Consumable
    BY <1>8 DEF TypeOK
  <2>9. required'.names = RequiredInputs /\ required'.index = x
    BY <2>2
  <2>10. Books(required)'
    BY <2>3, <2>4, <2>6, <2>7, <2>8, <2>9 DEF Books
  <2> QED
    BY <1>1, <1>2, <2>9, <2>10 DEF BooksInv
<1>12. ReachedInv' /\ TakenInv'
  <2>1. (values' \cup consumed') \cap Initializers = {}
    BY <1>1, <1>2
  <2>2. (values' \cup consumed') \cap external' = {}
    BY <2>1, <1>8 DEF TypeOK
  <2> QED
    BY <2>1, <2>2 DEF ReachedInv, TakenInv
<1>13. ReaderInv'
  <2>1. Overlapped => 1 <= Len(Calls)
    BY <1>4 DEF CallOrder, Overlapped
  <2> QED
    BY <1>1, <1>3, <1>5, <1>7, <2>1 DEF ReaderInv
<1>14. FailInv'
  BY <1>1, <1>2, <1>7 DEF FailInv
<1>15. LimitInv'
  BY <1>1, <1>7 DEF IInv, LimitInv, InLoad, LoadLabels
<1>16. PendingInv'
  BY <1>6 DEF PendingInv
<1>17. RunInv'
  BY <1>7 DEF RunInv
<1>18. ReserveInv'
  BY <1>1, <1>2 DEF IInv, ReserveInv, BytesOf
<1> QED
  BY <1>8, <1>9, <1>10, <1>11, <1>12, <1>13, <1>14, <1>15, <1>16, <1>17, <1>18 DEF IInv

\* A value that arrives makes only its consumers ready.
LEMMA ReadyAfter ==
    ASSUME deferred \subseteq untyped, UNCHANGED <<untyped, deferred, outputs>>,
           prep'.complete = prep.complete,
           NEW w, values' \subseteq values \cup {w}, NEW p \in Preps, Ready(p)', p \notin Consumers(w)
    PROVE  Ready(p)
<1>1. /\ w \notin SourceSet(p)
      /\ NodeOf[p] \in untyped => w \notin TuningInputs[NodeOf[p]]
  BY DEF Consumers
<1>2. \A v : Visible(v)' /\ v # w => Visible(v)
  BY DEF Visible
<1>3. \A v \in SourceSet(p) : Visible(v)
  BY <1>1, <1>2 DEF Ready
<1>4. ~StillDeferred(NodeOf[p])
  <2>1. ~StillDeferred(NodeOf[p])'
    BY DEF Ready
  <2>2. CASE NodeOf[p] \notin deferred
    BY <2>2 DEF StillDeferred
  <2>3. CASE NodeOf[p] \in deferred
    <3>1. PICK v \in TuningInputs[NodeOf[p]] : Visible(v)'
      BY <2>1, <2>3 DEF StillDeferred
    <3>2. v # w
      BY <1>1, <2>3
    <3> QED
      BY <1>2, <3>1, <3>2 DEF StillDeferred
  <2> QED
    BY <2>2, <2>3
<1>5. Dependencies[p] \subseteq prep.complete
  BY DEF Ready
<1> QED
  BY <1>3, <1>4, <1>5 DEF Ready

\* A new call keeps what is queued, and what its limit still blocks.
LEMMA StillPending ==
    ASSUME IInv, NEW l \in Int, NEW S, NEW back, Called(l, S, back), prep.pending # 0, store' = store,
           NEW p \in Preps, p \notin prep.complete,
           p \in prep.queued \/ (p \in prep.blocked /\ ~Fits(p, prep.limit))
    PROVE  p \in prep'.queued \/ (p \in prep'.blocked /\ ~Fits(p, prep.limit)')
<1>1. /\ prep'.limit = l /\ prep.queued \subseteq prep'.queued /\ prep'.blocked = prep.blocked
      /\ l > prep.limit => prep.blocked \ prep.complete \subseteq prep'.queued
  BY DEF Called
<1>2. CASE p \in prep.queued \/ l > prep.limit
  BY <1>1, <1>2
<1>3. CASE p \in prep.blocked /\ ~Fits(p, prep.limit) /\ ~(l > prep.limit)
  <2>1. /\ Memory[p].source \in Nat /\ Memory[p].temporary \in Nat /\ Memory[p].prepared \in Nat
    BY MemoryTypes
  <2>2. store \in Nat /\ prep.limit \in Int
    BY DEF IInv, TypeOK, PrepStates
  <2>3. ~(store + Memory[p].source + Memory[p].temporary + Memory[p].prepared <= prep.limit)
    BY <1>3 DEF Fits
  <2>4. ~(store' + Memory[p].source + Memory[p].temporary + Memory[p].prepared <= l)
    BY <1>3, <2>1, <2>2, <2>3
  <2> QED
    BY <1>1, <1>3, <2>4 DEF Fits
<1> QED
  BY <1>2, <1>3

LEMMA PrepareKeeps == ASSUME IInv, PrepareItem PROVE IInv'
<1>1. PICK S : S = IF Named THEN Consumers(Calls[item]) ELSE {}
  OBVIOUS
<1>2. /\ at = "prepare" /\ Arrived
      /\ values' = IF Named THEN values \cup {Calls[item]} ELSE values
      /\ before' = consumed
      /\ Call(prep, limit - reservation, S, "prepared")
      /\ UNCHANGED <<consumable, untyped, foreign, store, deferred, required, consumed, failed, outputs,
                     releases, node, overlap, external, limit, reservation, item, reader>>
  BY <1>1 DEF PrepareItem
<1>3. Calls' = Calls /\ Queued' = Queued /\ Overlapped' = Overlapped
  BY <1>2, SameCalls
<1>4. /\ item \in Nat /\ item # 0 /\ CallOrder /\ external \in SUBSET Initializers
      /\ limit - reservation \in Int
  BY <1>2, ReaderTypes DEF IInv, TypeOK
<1>5. S \subseteq Preps
  BY <1>1 DEF Consumers
<1>6. Called(limit - reservation, S, "prepared")
  <2>1. Sound(prep)
    BY DEF IInv, QueueInv
  <2> QED
    BY <1>2, <1>4, <1>5, <2>1, CallQueues
<1>7. prep' \in PrepStates /\ QueueInv'
  BY <1>2, <1>6, CalledQueue
<1>8. /\ prep'.complete = prep.complete /\ prep'.pending = prep.pending
      /\ prep.pending = 0 => prep' = prep /\ at' = "prepared" /\ caller' = caller
      /\ prep.pending # 0 => at' = "loop" /\ caller' = "prepared" /\ prep'.limit = limit - reservation
                             /\ S \ prep.complete \subseteq prep'.queued
  BY <1>6 DEF Called
<1>9. at' \in {"prepared", "loop"} /\ (at' = "loop" => caller' = "prepared")
      /\ caller' \in {"none", "prepared"}
  BY <1>2, <1>8 DEF IInv, TypeOK, LoadLabels
<1>10. TypeOK'
  BY <1>2, <1>7, <1>9 DEF IInv, TypeOK, LoadLabels, Callers
<1>11. StartInv'
  BY <1>9 DEF StartInv
<1>12. ASSUME Named PROVE /\ item \in 1..Len(Calls) /\ Calls[item] \in Initializers
                          /\ Calls[item] \notin consumed
  <2>1. item \in 1..Len(Calls)
    BY <1>4, <1>12 DEF Named, CallOrder
  <2>2. ASSUME Calls[item] \in consumed PROVE FALSE
    <3>1. Calls[item] \in Initializers
      BY <1>4, <2>1 DEF CallOrder
    <3>2. PICK k \in 1..Len(Calls) : Calls[item] = Calls[k] /\ k < item
      BY <1>2, <2>2, <3>1 DEF IInv, ReachedInv, InLoad, LoadLabels
    <3>3. k = item
      BY <1>4, <2>1, <3>2 DEF CallOrder
    <3> QED
      BY <1>4, <3>2, <3>3
  <2> QED
    BY <1>4, <2>1, <2>2 DEF CallOrder
<1>13. BooksInv'
  <2>1. \A w \in consumed : w \notin values' \ foreign'
    BY <1>2, <1>12 DEF IInv, BooksInv
  <2> QED
    BY <1>2, <1>8, <2>1 DEF IInv, BooksInv, Books, Consumers
<1>14. ReachedInv'
  <2> SUFFICES ASSUME NEW w \in (values' \cup consumed) \cap Initializers
               PROVE  \E k \in 1..Len(Calls) : w = Calls[k] /\ k <= item
    BY <1>2, <1>3, <1>9 DEF ReachedInv
  <2>1. CASE w \in values \cup consumed
    BY <1>2, <2>1 DEF IInv, ReachedInv, InLoad, LoadLabels
  <2>2. CASE w \notin values \cup consumed
    <3>1. Named /\ w = Calls[item]
      BY <1>2, <2>2
    <3>2. item \in 1..Len(Calls) /\ item <= item
      BY <1>4, <1>12, <3>1
    <3> QED
      BY <3>1, <3>2
  <2> QED
    BY <2>1, <2>2
<1>15. TakenInv'
  <2> SUFFICES ASSUME Overlapped, NEW w \in (values' \cup consumed) \cap external
               PROVE  \E k \in 1..Len(Queued) : w = Queued[k] /\ k <= reader.taken
    BY <1>2, <1>3 DEF TakenInv
  <2>1. CASE w \in values \cup consumed
    BY <1>2, <2>1 DEF IInv, TakenInv, InLoad, LoadLabels
  <2>2. CASE w \notin values \cup consumed
    <3>1. Named /\ w = Calls[item] /\ item \in 1..Len(Calls)
      BY <1>2, <1>12, <2>2
    <3>2. item \notin 1..NumInline
      BY <1>4, <3>1 DEF CallOrder
    <3>3. Current \in 1..Len(Queued) /\ NumInline + Current = item
      BY <1>4, <3>1, <3>2 DEF CallOrder, Current
    <3>4. w = Queued[Current]
      BY <1>4, <3>1, <3>3 DEF CallOrder
    <3>5. reader.taken >= Current
      BY <1>2, <3>3 DEF Arrived
    <3>6. reader.taken \in Nat /\ Current \in Nat
      BY <1>4, <3>3, ReaderTypes DEF CallOrder
    <3> QED
      BY <3>3, <3>4, <3>5, <3>6
  <2> QED
    BY <2>1, <2>2
<1>16. ReaderInv'
  BY <1>2, <1>3, <1>9 DEF IInv, ReaderInv
<1>17. ~failed /\ FailInv'
  BY <1>2, <1>9 DEF IInv, FailInv
<1>18. LimitInv'
  <2>1. reservation' + store' <= limit'
    BY <1>2 DEF IInv, LimitInv, InLoad, LoadLabels
  <2> QED
    BY <1>2, <1>8, <1>9, <2>1 DEF LimitInv
<1>19. PendingInv'
  <2> SUFFICES ASSUME NEW p \in Preps, p \notin prep.complete, Ready(p)'
               PROVE  p \in prep'.queued \/ (p \in prep'.blocked /\ ~Fits(p, prep.limit)')
    BY <1>8 DEF PendingInv
  <2>1. prep.pending # 0
    BY <1>2, NonePending
  <2>2. deferred \subseteq untyped
    BY DEF IInv, TypeOK
  <2>3. ASSUME Ready(p) PROVE p \in prep.queued \/ (p \in prep.blocked /\ ~Fits(p, prep.limit))
    BY <1>2, <1>17, <2>3 DEF IInv, PendingInv
  <2>4. CASE Ready(p)
    BY <1>2, <1>4, <1>6, <2>1, <2>3, <2>4, StillPending
  <2>5. CASE ~Ready(p)
    <3>1. Named
      <4> SUFFICES ASSUME ~Named PROVE FALSE
        OBVIOUS
      <4>1. UNCHANGED <<values, deferred, outputs>> /\ prep'.complete = prep.complete
        BY <1>2, <1>8
      <4> QED
        BY <2>5, <4>1 DEF Ready, StillDeferred, Visible
    <3>2. PICK w : w = Calls[item]
      OBVIOUS
    <3>3. values' \subseteq values \cup {w}
      BY <1>2, <3>2
    <3>4. p \in Consumers(w)
      BY <1>2, <1>8, <2>2, <2>5, <3>3, ReadyAfter
    <3>5. p \in S
      BY <1>1, <3>1, <3>2, <3>4
    <3> QED
      BY <1>8, <2>1, <3>5
  <2> QED
    BY <2>4, <2>5
<1>20. RunInv'
  BY <1>9 DEF RunInv
<1>21. ReserveInv'
  BY <1>2, <1>9, <1>17 DEF IInv, ReserveInv, BytesOf
<1> QED
  BY <1>7, <1>10, <1>11, <1>13, <1>14, <1>15, <1>16, <1>17, <1>18, <1>19, <1>20, <1>21 DEF IInv

LEMMA PreparedKeeps == ASSUME IInv, PreparedItem PROVE IInv'
<1>1. PICK S, n, l : /\ S = IF Named THEN Consumers(Calls[item]) ELSE {}
                     /\ n = BytesOf(consumed \ before) /\ l = limit - (reservation - n)
  OBVIOUS
<1>2. /\ at = "prepared" /\ reservation' = reservation - n /\ before' = consumed
      /\ UNCHANGED <<consumable, untyped, foreign, store, deferred, required, consumed, failed, values, outputs,
                     releases, node, overlap, external, limit, seeded, reader>>
  BY <1>1 DEF PreparedItem
<1>3. Calls' = Calls /\ Queued' = Queued /\ Overlapped' = Overlapped
  BY <1>2, SameCalls
<1>4. /\ item \in Nat /\ item # 0 /\ CallOrder /\ limit \in Nat /\ reservation \in Int
      /\ store \in Nat
  BY <1>2, ReaderTypes DEF IInv, TypeOK
<1>5. n \in Nat
  <2>1. consumed \ before \subseteq Initializers
    BY PlanAssumption DEF IInv, TypeOK
  <2> QED
    BY <1>1, <2>1, BytesType
<1>6. ~failed
  BY <1>2 DEF IInv, FailInv
<1>7. reservation' + store' <= limit' /\ l \in Int /\ reservation' \in Int
  <2>1. reservation + store <= limit
    BY <1>2 DEF IInv, LimitInv, InLoad, LoadLabels
  <2> QED
    BY <1>1, <1>2, <1>4, <1>5, <2>1
<1>10. ReserveInv'
  <2>1. consumed \subseteq Initializers /\ before \subseteq consumed
    BY PlanAssumption DEF IInv, TypeOK
  <2>2. BytesOf(consumed) = BytesOf(before) + n
    BY <1>1, <2>1, BytesSplit
  <2>3. reservation = Reservation - BytesOf(before)
    BY DEF IInv, ReserveInv
  <2>4. Reservation \in Nat /\ BytesOf(before) \in Nat /\ BytesOf(consumed) \in Nat
    <3>1. before \subseteq Initializers
      BY <2>1
    <3> QED
      BY <2>1, <3>1, BytesType, LoaderAssumption
  <2>5. Reservation - BytesOf(before) - n = Reservation - BytesOf(consumed)
    BY ONLY <1>5, <2>2, <2>4
  <2>6. reservation' = Reservation - BytesOf(consumed)
    BY <1>2, <2>3, <2>5
  <2> QED
    BY <1>2, <2>6 DEF ReserveInv, BytesOf
<1>8. ASSUME n # 0 PROVE IInv'
  <2>1. Call(prep, l, S, "prepared") /\ item' = item
    BY <1>1, <1>2, <1>8 DEF PreparedItem
  <2>2. Called(l, S, "prepared")
    <3>1. Sound(prep) /\ S \subseteq Preps
      BY <1>1 DEF IInv, QueueInv, Consumers
    <3> QED
      BY <1>7, <2>1, <3>1, CallQueues
  <2>3. prep' \in PrepStates /\ QueueInv'
    BY <1>2, <2>2, CalledQueue
  <2>4. /\ prep'.complete = prep.complete /\ prep'.pending = prep.pending
        /\ prep.pending = 0 => prep' = prep /\ at' = "prepared" /\ caller' = caller
        /\ prep.pending # 0 => at' = "loop" /\ caller' = "prepared" /\ prep'.limit = l
    BY <2>2 DEF Called
  <2>5. at' \in {"prepared", "loop"} /\ (at' = "loop" => caller' = "prepared")
        /\ caller' \in {"none", "prepared"}
    BY <1>2, <2>4 DEF IInv, TypeOK, LoadLabels
  <2>6. TypeOK'
    BY <1>2, <1>7, <2>1, <2>3, <2>5 DEF IInv, TypeOK, LoadLabels, Callers
  <2>7. StartInv'
    BY <2>5 DEF StartInv
  <2>8. BooksInv'
    BY <1>2, <2>4 DEF IInv, BooksInv, Books, Consumers
  <2>9. ReachedInv' /\ TakenInv'
    BY <1>2, <1>3, <2>1, <2>5 DEF IInv, ReachedInv, TakenInv, InLoad, LoadLabels
  <2>10. ReaderInv'
    BY <1>2, <1>3, <2>1, <2>5 DEF IInv, ReaderInv
  <2>11. FailInv'
    BY <1>2, <1>6, <2>5 DEF FailInv
  <2>12. LimitInv'
    <3>1. limit' - reservation' = l
      BY <1>1, <1>2
    <3> QED
      BY <1>7, <2>4, <2>5, <3>1 DEF LimitInv
  <2>13. PendingInv'
    <3> SUFFICES ASSUME NEW p \in Preps, p \notin prep.complete, Ready(p)'
                 PROVE  p \in prep'.queued \/ (p \in prep'.blocked /\ ~Fits(p, prep.limit)')
      BY <2>4 DEF PendingInv
    <3>1. prep.pending # 0
      BY <1>2, NonePending
    <3>2. Ready(p)
      BY <1>2, <2>4 DEF Ready, StillDeferred, Visible
    <3>3. p \in prep.queued \/ (p \in prep.blocked /\ ~Fits(p, prep.limit))
      BY <1>2, <1>6, <3>2 DEF IInv, PendingInv
    <3> QED
      BY <1>2, <1>7, <2>2, <3>1, <3>3, StillPending
  <2>14. RunInv'
    BY <2>5 DEF RunInv
  <2> QED
    BY <1>10, <2>3, <2>6, <2>7, <2>8, <2>9, <2>10, <2>11, <2>12, <2>13, <2>14 DEF IInv
<1>9. ASSUME n = 0 PROVE IInv'
  <2>1. /\ at' = IF item > Len(Calls) THEN "check"
                 ELSE IF Overlapped /\ item = Len(Calls) THEN "stop" ELSE "prepare"
        /\ item' = item + 1 /\ UNCHANGED <<prep, caller>>
    BY <1>1, <1>2, <1>9 DEF PreparedItem
  <2>2. reservation' = reservation /\ at' \in {"check", "stop", "prepare"}
    BY <1>2, <1>4, <1>9, <2>1
  <2>3. TypeOK'
    <3>1. item' \in Nat /\ item' # 0
      BY <1>4, <2>1
    <3> QED
      BY <1>2, <1>7, <2>1, <2>2, <3>1 DEF IInv, TypeOK, LoadLabels
  <2>4. StartInv'
    BY <2>2 DEF StartInv
  <2>5. QueueInv'
    BY <1>2, <2>1, <2>2 DEF IInv, QueueInv, Sound, PreparedBytes
  <2>6. BooksInv'
    BY <1>2, <2>1, <2>2 DEF IInv, BooksInv, Books, Consumers
  <2>7. ReachedInv'
    <3> SUFFICES ASSUME NEW w \in (values \cup consumed) \cap Initializers
                 PROVE  \E k \in 1..Len(Calls) : w = Calls[k] /\ k < item + 1
      BY <1>2, <1>3, <1>4, <2>1 DEF ReachedInv, CallOrder
    <3>1. PICK k \in 1..Len(Calls) : w = Calls[k] /\ k <= item
      BY <1>2 DEF IInv, ReachedInv, InLoad, LoadLabels
    <3> QED
      BY <1>4, <3>1 DEF CallOrder
  <2>8. TakenInv'
    BY <1>2, <1>3, <2>2 DEF IInv, TakenInv, InLoad, LoadLabels
  <2>9. ReaderInv'
    <3>1. at' = "prepare" /\ Overlapped => item' <= Len(Calls)
      BY <1>4, <2>1 DEF CallOrder
    <3>2. at' = "check" => ~(item <= Len(Calls))
      BY <1>4, <2>1 DEF CallOrder
    <3> QED
      BY <1>2, <1>3, <2>1, <2>2, <3>1, <3>2 DEF IInv, ReaderInv
  <2>10. FailInv'
    BY <1>2, <1>3, <1>4, <1>6, <2>1, <2>2 DEF FailInv
  <2>11. LimitInv'
    BY <1>2, <1>7, <2>1, <2>2 DEF IInv, LimitInv
  <2>12. PendingInv'
    <3>1. \A p : Ready(p)' <=> Ready(p)
      BY <1>2, <2>1 DEF Ready, StillDeferred, Visible
    <3>2. \A p, k : Fits(p, k)' <=> Fits(p, k)
      BY <1>2 DEF Fits
    <3> QED
      BY <1>2, <2>1, <3>1, <3>2 DEF IInv, PendingInv
  <2>13. RunInv'
    BY <2>2 DEF RunInv
  <2> QED
    BY <1>10, <2>3, <2>4, <2>5, <2>6, <2>7, <2>8, <2>9, <2>10, <2>11, <2>12, <2>13 DEF IInv
<1> QED
  BY <1>5, <1>8, <1>9

LEMMA CleanupKeeps == ASSUME IInv, Cleanup PROVE IInv'
<1>1. /\ at \in {"leave", "abandon"} /\ at' \in {"idle", "failed"} /\ (at = "leave" => at' = "idle")
      /\ (at = "abandon" => at' = "failed")
      /\ values' \subseteq values
      /\ UNCHANGED <<consumable, untyped, foreign, prep, store, deferred, required, consumed, failed, outputs,
                     releases, caller, node, overlap, external, limit, reservation, seeded, item,
                     before, reader>>
  BY DEF Cleanup, loaderVars
<1>2. Calls' = Calls /\ Queued' = Queued /\ Overlapped' = Overlapped
  BY <1>1, SameCalls
<1>3. TypeOK'
  BY <1>1 DEF IInv, TypeOK, LoadLabels, RunLabels
<1>4. StartInv'
  BY <1>1 DEF StartInv
<1>5. QueueInv'
  BY <1>1 DEF IInv, QueueInv, Sound, PreparedBytes
<1>6. BooksInv'
  BY <1>1 DEF IInv, BooksInv, Books, Consumers
<1>7. ~InLoad'
  BY <1>1 DEF InLoad, LoadLabels
<1>8. ReachedInv' /\ TakenInv'
  BY <1>7 DEF ReachedInv, TakenInv
<1>9. ReaderInv'
  BY <1>1, <1>2 DEF IInv, ReaderInv
<1>10. FailInv'
  BY <1>1 DEF IInv, FailInv
<1>11. LimitInv' /\ PendingInv' /\ RunInv'
  BY <1>1, <1>7 DEF LimitInv, PendingInv, RunInv
<1>12. ReserveInv'
  BY <1>1 DEF IInv, ReserveInv, BytesOf
<1> QED
  BY <1>3, <1>4, <1>5, <1>6, <1>8, <1>9, <1>10, <1>11, <1>12 DEF IInv

-----------------------------------------------------------------------------
(***************************************************************************)
(* The steps of Prepare, Run and the client.                               *)
(***************************************************************************)

\* What a step outside LoadSessions owes.
Ran ==
    /\ UNCHANGED <<consumable, untyped, store, consumed, releases>>
    /\ failed' = failed \/ failed' = TRUE
    /\ UNCHANGED <<required, loaderVars, reader>>
    /\ at \in RunLabels \ {"failed"}
    /\ at' \in (RunLabels \ {"failed"}) \cup {"loop"}
    /\ caller' \in Callers \cup {"none"}
    /\ at' = "loop" => caller' \in {"idle", "inputs", "enforce"}
    /\ node' \in Nat
    /\ failed' => at' = "idle"
    /\ Sound(prep') /\ prep'.complete = prep.complete /\ prep'.pending = prep.pending
    /\ deferred' \subseteq deferred
    /\ values' \cap consumed \subseteq foreign'
    /\ at' = "loop" => prep'.limit = Unlimited
    /\ at' = "inputs" => prep'.pending = 0
    /\ at' = "loop" /\ caller' = "inputs" => Preps \ prep'.complete \subseteq prep'.queued
    /\ RunInv'

LEMMA RanKeeps == ASSUME IInv, Ran PROVE IInv'
<1>1. /\ UNCHANGED <<consumable, untyped, store, consumed, releases, required>>
      /\ UNCHANGED <<overlap, external, limit, reservation, seeded, item, before, reader>>
      /\ at \in {"idle", "inputs", "node", "enforce", "execute"}
      /\ at' \in {"idle", "inputs", "node", "enforce", "execute", "loop"}
      /\ at' = "loop" => caller' \in {"idle", "inputs", "enforce"}
  BY DEF Ran, RunLabels, loaderVars
<1>2. Calls' = Calls /\ Queued' = Queued /\ Overlapped' = Overlapped
  BY <1>1, SameCalls
<1>3. prep' \in PrepStates
  BY DEF Ran, Sound
<1>4. TypeOK'
  <2>1. caller' \in Callers \cup {"none"} /\ deferred' \subseteq untyped' /\ node' \in Nat
    BY <1>1 DEF Ran, IInv, TypeOK
  <2>2. failed' \in BOOLEAN
    BY DEF Ran, IInv, TypeOK
  <2> QED
    BY <1>1, <1>3, <2>1, <2>2 DEF IInv, TypeOK, LoadLabels, RunLabels
<1>5. StartInv'
  BY <1>1 DEF StartInv
<1>6. QueueInv'
  <2>1. store' <= SharedBytes + PreparedBytes(prep.complete)'
    BY <1>1 DEF Ran, IInv, QueueInv, PreparedBytes
  <2>2. Counted(prep', failed')
    BY <1>1 DEF Ran, IInv, QueueInv, Counted
  <2> QED
    BY <2>1, <2>2 DEF Ran, QueueInv, Sound, Counted
<1>7. BooksInv'
  BY <1>1 DEF Ran, IInv, BooksInv, Books, Consumers
<1>8. ~InLoad'
  BY <1>1 DEF InLoad, LoadLabels
<1>9. ReachedInv' /\ TakenInv'
  BY <1>8 DEF ReachedInv, TakenInv
<1>10. ReaderInv'
  BY <1>1, <1>2 DEF IInv, ReaderInv
<1>11. FailInv'
  BY <1>1 DEF Ran, FailInv
<1>12. LimitInv'
  BY <1>1, <1>8 DEF Ran, LimitInv
<1>13. PendingInv'
  <2>1. ASSUME at' = "inputs" PROVE Preps \ prep'.complete = {}
    BY <1>1, <2>1, NonePending DEF Ran
  <2> QED
    BY <1>1, <2>1 DEF Ran, PendingInv
<1>14. ReserveInv'
  BY <1>1 DEF IInv, ReserveInv, BytesOf
<1> QED
  BY <1>4, <1>5, <1>6, <1>7, <1>9, <1>10, <1>11, <1>12, <1>13, <1>14 DEF Ran, IInv

\* Nothing outside the loop touches a consumed initializer.
LEMMA ConsumedFacts ==
    ASSUME IInv, at # "declare"
    PROVE  /\ consumed \subseteq Initializers /\ values \cap consumed \subseteq foreign
           /\ consumed \cap Produced = {}
<1>1. consumed \subseteq Initializers
  BY PlanAssumption DEF IInv, TypeOK
<1>2. values \cap consumed \subseteq foreign
  BY DEF IInv, BooksInv
<1> QED
  BY <1>1, <1>2, PlanAssumption

LEMMA UnlimitedType == Unlimited \in Int
BY PreparationAssumption

LEMMA EnterKeeps ==
    ASSUME IInv, UNCHANGED <<loaderVars, reader>>, NEW back \in {"idle", "inputs"}, Enter(back)
    PROVE  IInv'
<1>1. /\ at = "idle" /\ ~failed /\ values' = values \cup (Initializers \ consumed)
      /\ foreign' = foreign \cap values
      /\ Call(prep, Unlimited, Preps, back)
      /\ UNCHANGED <<consumable, untyped, store, deferred, required, consumed, failed, releases, node>>
  BY DEF Enter, Seed
<1>2. Sound(prep) /\ node \in Nat /\ caller \in Callers \cup {"none"}
  BY DEF IInv, QueueInv, TypeOK
<1>3. Called(Unlimited, Preps, back)
  BY <1>1, <1>2, CallQueues, UnlimitedType
<1>4. /\ Sound(prep') /\ prep'.complete = prep.complete /\ prep'.pending = prep.pending
      /\ prep.pending = 0 => prep' = prep /\ at' = back /\ caller' = caller
      /\ prep.pending # 0 => /\ at' = "loop" /\ caller' = back /\ prep'.limit = Unlimited
                             /\ Preps \ prep.complete \subseteq prep'.queued
  BY <1>3 DEF Called
<1>5. values' \cap consumed \subseteq foreign'
  BY <1>1, ConsumedFacts
<1>6. at' \in {"idle", "inputs", "loop"} /\ (at' = "loop" => caller' \in {"idle", "inputs"})
      /\ caller' \in Callers \cup {"none"}
  BY <1>2, <1>4 DEF Callers
<1>7. RunInv'
  BY <1>6 DEF RunInv
<1>8. Ran
  BY <1>1, <1>2, <1>4, <1>5, <1>6, <1>7 DEF Ran, RunLabels
<1> QED
  BY <1>8, RanKeeps

LEMMA CheckKeeps ==
    ASSUME IInv, UNCHANGED <<loaderVars, reader>>, CheckInputs
    PROVE  IInv'
<1>1. /\ at = "inputs"
      /\ \/ Range(required.names) \subseteq values /\ at' = "node" /\ node' = 1
         \/ at' = "idle" /\ node' = node
      /\ UNCHANGED <<consumable, untyped, foreign, prep, store, deferred, required, consumed, failed, values,
                     outputs, releases, caller>>
  BY DEF CheckInputs
<1>2. /\ Sound(prep) /\ node \in Nat /\ caller \in Callers \cup {"none"} /\ ~failed
  BY <1>1 DEF IInv, QueueInv, TypeOK, FailInv
<1>3. RunInv'
  <2>1. CASE at' = "idle"
    BY <2>1 DEF RunInv
  <2>2. CASE Range(required.names) \subseteq values /\ at' = "node" /\ node' = 1
    <3>1. Range(RequiredInputs) \subseteq values \cup consumed
      BY <1>1, <2>2 DEF IInv, BooksInv
    <3>2. 1 \in Nodes /\ 1..NumNodes = Nodes
      BY PlanAssumption DEF Nodes
    <3>3. \A m \in Nodes : NodeInputs[m] \subseteq
              Range(RequiredInputs) \cup UNION {NodeOutputs[k] : k \in 1..(m - 1)}
      BY PlanAssumption
    <3>4. \A m \in 1..NumNodes : NodeInputs[m] \subseteq
              values \cup consumed \cup UNION {NodeOutputs[k] : k \in 1..(m - 1)}
      BY <3>1, <3>2, <3>3
    <3> QED
      BY <1>1, <2>2, <3>2, <3>4 DEF RunInv
  <2> QED
    BY <1>1, <2>1, <2>2
<1>4. values' \cap consumed \subseteq foreign'
  BY <1>1, ConsumedFacts
<1>5. Ran
  BY <1>1, <1>2, <1>3, <1>4 DEF Ran, RunLabels
<1> QED
  BY <1>5, RanKeeps

LEMMA ReachKeeps ==
    ASSUME IInv, UNCHANGED <<loaderVars, reader>>, ReachNode
    PROVE  IInv'
<1>1. /\ at = "node" /\ deferred' = deferred \ {node}
      /\ IF prep.pending # 0 /\ PrepsOf(node) # {}
         THEN Call(prep, Unlimited, PrepsOf(node), "enforce")
         ELSE at' = "execute" /\ UNCHANGED <<prep, caller>>
      /\ UNCHANGED <<consumable, untyped, foreign, store, required, consumed, failed, values, outputs, releases,
                     node>>
  BY DEF ReachNode
<1>2. /\ Sound(prep) /\ node \in Nat /\ caller \in Callers \cup {"none"} /\ ~failed
  BY <1>1 DEF IInv, QueueInv, TypeOK, FailInv
<1>3. values' \cap consumed \subseteq foreign'
  BY <1>1, ConsumedFacts
<1>4. PrepsOf(node) \subseteq Preps
  BY DEF PrepsOf
<1>5. CASE prep.pending # 0 /\ PrepsOf(node) # {}
  <2>1. Called(Unlimited, PrepsOf(node), "enforce")
    BY <1>1, <1>2, <1>4, <1>5, CallQueues, UnlimitedType
  <2>2. /\ Sound(prep') /\ prep'.complete = prep.complete /\ prep'.pending = prep.pending
        /\ at' = "loop" /\ caller' = "enforce" /\ prep'.limit = Unlimited
    BY <1>5, <2>1 DEF Called
  <2>3. RunInv'
    BY <1>1, <2>2 DEF IInv, RunInv
  <2>4. Ran
    BY <1>1, <1>2, <1>3, <2>2, <2>3 DEF Ran, RunLabels, Callers
  <2> QED
    BY <2>4, RanKeeps
<1>6. CASE ~(prep.pending # 0 /\ PrepsOf(node) # {})
  <2>1. at' = "execute" /\ UNCHANGED <<prep, caller>>
    BY <1>1, <1>6
  <2>2. PrepsOf(node) \subseteq prep.complete
    BY <1>1, <1>4, <1>6, NonePending
  <2>3. PrepsOf(node)' = PrepsOf(node)
    BY <1>1 DEF PrepsOf
  <2>4. RunInv'
    BY <1>1, <2>1, <2>2, <2>3 DEF IInv, RunInv
  <2>5. Ran
    BY <1>1, <1>2, <1>3, <2>1, <2>4 DEF Ran, RunLabels
  <2> QED
    BY <2>5, RanKeeps
<1> QED
  BY <1>5, <1>6

LEMMA NodeKeeps ==
    ASSUME IInv, UNCHANGED <<loaderVars, reader>>, ExecuteNode
    PROVE  IInv'
<1>1. /\ at = "execute"
      /\ values' = (values \cup NodeOutputs[node]) \ IF releases THEN Deleted[node] ELSE {}
      /\ prep' = prep \/ prep' = Queue(prep, UNION {Consumers(w) : w \in NodeOutputs[node]})
      /\ node' = IF node = NumNodes THEN 0 ELSE node + 1
      /\ at' = IF node = NumNodes THEN "idle" ELSE "node"
      /\ UNCHANGED <<consumable, untyped, foreign, store, deferred, required, consumed, failed, releases, caller>>
  BY DEF ExecuteNode
<1>2. /\ Sound(prep) /\ caller \in Callers \cup {"none"} /\ ~failed
  BY <1>1 DEF IInv, QueueInv, TypeOK, FailInv
<1>3. /\ node \in Nodes
      /\ \A m \in node..NumNodes : NodeInputs[m] \subseteq
             values \cup consumed \cup UNION {NodeOutputs[k] : k \in node..(m - 1)}
  BY <1>1 DEF IInv, RunInv
<1>4. NumNodes \in Nat /\ node \in Nat /\ 1 <= node /\ node <= NumNodes
  BY <1>3, PlanAssumption DEF Nodes
<1>5. /\ Sound(prep') /\ prep'.complete = prep.complete /\ prep'.pending = prep.pending
  <2>1. CASE prep' = prep
    BY <1>2, <2>1
  <2>2. CASE prep' = Queue(prep, UNION {Consumers(w) : w \in NodeOutputs[node]})
    <3>1. PICK S : S = UNION {Consumers(w) : w \in NodeOutputs[node]}
      OBVIOUS
    <3>2. S \subseteq Preps
      BY <3>1 DEF Consumers
    <3>3. Requeued(prep, S, prep')
      BY <1>2, <2>2, <3>1, <3>2, QueueAdds
    <3> QED
      BY <3>3 DEF Requeued
  <2> QED
    BY <1>1, <2>1, <2>2
<1>6. values' \cap consumed \subseteq foreign'
  <2>1. NodeOutputs[node] \subseteq Produced
    BY <1>3 DEF Produced
  <2> QED
    BY <1>1, <2>1, ConsumedFacts
<1>7. node' \in Nat /\ at' \in {"idle", "node"}
  BY <1>1, <1>4
<1>8. RunInv'
  <2>1. CASE node = NumNodes
    BY <1>1, <2>1 DEF RunInv
  <2>2. CASE node # NumNodes
    <3>1. node' = node + 1 /\ node + 1 \in Nodes /\ at' = "node"
      BY <1>1, <1>4, <2>2 DEF Nodes
    <3>2. ASSUME NEW m \in (node + 1)..NumNodes
          PROVE  NodeInputs[m] \subseteq
                     values' \cup consumed \cup UNION {NodeOutputs[k] : k \in (node + 1)..(m - 1)}
      <4>1. m \in node..NumNodes /\ m \in Nodes /\ node \in 1..(m - 1)
        BY <1>4 DEF Nodes
      <4>2. Deleted[node] \cap NodeInputs[m] = {}
        BY <4>1, PlanAssumption
      <4>3. NodeInputs[m] \subseteq
                values \cup consumed \cup UNION {NodeOutputs[k] : k \in node..(m - 1)}
        BY <1>3, <4>1
      <4>4. \A k \in node..(m - 1) : k = node \/ k \in (node + 1)..(m - 1)
        BY <1>4
      <4>5. \A x \in NodeInputs[m] : x \in values \cup NodeOutputs[node] => x \in values'
        BY <1>1, <4>2
      <4> QED
        BY <4>3, <4>4, <4>5
    <3> QED
      BY <1>1, <3>1, <3>2 DEF RunInv
  <2> QED
    BY <2>1, <2>2
<1>9. Ran
  BY <1>1, <1>2, <1>5, <1>6, <1>7, <1>8 DEF Ran, RunLabels
<1> QED
  BY <1>9, RanKeeps

\* A value of the client may have the name of a consumed initializer.
LEMMA FeedKeeps ==
    ASSUME IInv, UNCHANGED <<loaderVars, reader>>, Feed \/ RethrowRun
    PROVE  IInv'
<1>1. /\ at = "idle" /\ at' = "idle"
      /\ \/ \E w \in Range(RequiredInputs) :
              values' = values \cup {w} /\ foreign' = foreign \cup ({w} \cap Initializers)
         \/ values' = {} /\ foreign' = {}
         \/ values' = values \cup (Initializers \ consumed) /\ foreign' = foreign \cap values
      /\ UNCHANGED <<consumable, untyped, prep, store, deferred, required, consumed, failed, outputs,
                     releases, caller, node>>
  BY DEF Feed, RethrowRun, Seed
<1>2. /\ Sound(prep) /\ node \in Nat /\ caller \in Callers \cup {"none"}
  BY DEF IInv, QueueInv, TypeOK
<1>3. values' \cap consumed \subseteq foreign'
  BY <1>1, ConsumedFacts
<1>4. RunInv'
  BY <1>1 DEF RunInv
<1>5. Ran
  BY <1>1, <1>2, <1>3, <1>4 DEF Ran, RunLabels
<1> QED
  BY <1>5, RanKeeps

\* The tuning of a node fails when its turn comes.
LEMMA TuningKeeps ==
    ASSUME IInv, UNCHANGED <<loaderVars, reader>>, TuningThrows
    PROVE  IInv'
<1>1. /\ at = "node" /\ at' = "idle" /\ failed' = TRUE
      /\ UNCHANGED <<consumable, untyped, foreign, prep, store, deferred, required, consumed, values,
                     outputs, releases, caller, node>>
  BY DEF TuningThrows
<1>2. /\ Sound(prep) /\ node \in Nat /\ caller \in Callers \cup {"none"}
  BY DEF IInv, QueueInv, TypeOK
<1>3. values' \cap consumed \subseteq foreign'
  BY <1>1, ConsumedFacts
<1>4. RunInv'
  BY <1>1 DEF RunInv
<1>5. Ran
  BY <1>1, <1>2, <1>3, <1>4 DEF Ran, RunLabels
<1> QED
  BY <1>5, RanKeeps

-----------------------------------------------------------------------------
(***************************************************************************)
(* The theorems.                                                           *)
(***************************************************************************)

LEMMA StutterKeeps == ASSUME IInv, UNCHANGED vars PROVE IInv'
<1>1. /\ UNCHANGED <<consumable, untyped, foreign, prep, store, deferred, required, consumed, failed, values,
                     outputs, releases, caller, node, at>>
      /\ UNCHANGED <<overlap, external, limit, reservation, seeded, item, before, reader>>
  BY DEF vars, sessionVars, loaderVars
<1>2. Calls' = Calls /\ Queued' = Queued /\ Overlapped' = Overlapped
  BY <1>1, SameCalls
<1>3. TypeOK' /\ StartInv'
  BY <1>1 DEF IInv, TypeOK, StartInv
<1>4. QueueInv'
  BY <1>1 DEF IInv, QueueInv, Sound, PreparedBytes, Counted
<1>5. BooksInv'
  BY <1>1 DEF IInv, BooksInv, Books, Consumers
<1>6. ReachedInv' /\ TakenInv'
  BY <1>1, <1>2 DEF IInv, ReachedInv, TakenInv, InLoad
<1>7. ReaderInv' /\ FailInv'
  BY <1>1, <1>2 DEF IInv, ReaderInv, FailInv
<1>8. LimitInv' /\ RunInv' /\ ReserveInv'
  BY <1>1 DEF IInv, LimitInv, InLoad, RunInv, PrepsOf, ReserveInv, BytesOf
<1>9. PendingInv'
  <2>1. \A p : Ready(p)' <=> Ready(p)
    BY <1>1 DEF Ready, StillDeferred, Visible
  <2>2. \A p, l : Fits(p, l)' <=> Fits(p, l)
    BY <1>1 DEF Fits
  <2> QED
    BY <1>1, <2>1, <2>2 DEF IInv, PendingInv
<1> QED
  BY <1>3, <1>4, <1>5, <1>6, <1>7, <1>8, <1>9 DEF IInv

LEMMA NextKeeps == ASSUME IInv, Next PROVE IInv'
<1>1. CASE Loading
  BY <1>1, DeclareKeeps, TakeKeeps, PrepareKeeps, PreparedKeeps, CleanupKeeps, MovesKeep DEF Loading
<1>2. CASE ReaderStep
  BY <1>2, ReaderKeeps
<1>3. CASE Session /\ UNCHANGED <<loaderVars, reader, asleep>>
  <2>1. CASE Preparing
    BY <1>3, <2>1, PopKeeps, ExecuteKeeps, ConsumeThrowsKeeps, DoneKeeps DEF Preparing
  <2>2. CASE Running
    BY <1>3, <2>2, CheckKeeps, ReachKeeps, TuningKeeps, NodeKeeps, MovesKeep DEF Running
  <2> QED
    BY <1>3, <2>1, <2>2 DEF Session
<1>4. CASE Client /\ UNCHANGED <<loaderVars, reader, asleep>>
  BY <1>4, EnterKeeps, FeedKeeps DEF Client, BeginRun, Prepare
<1> QED
  BY <1>1, <1>2, <1>3, <1>4 DEF Next

\* The inductive invariant holds of every load and of every run of the loaded
\* session, whatever the Reader, a preparation, a kernel or the client does.
THEOREM Invariant == Spec => []IInv
<1>1. Init => IInv
  BY InitInv
<1>2. IInv /\ [Next]_vars => IInv'
  BY NextKeeps, StutterKeeps
<1> QED
  BY <1>1, <1>2, PTL DEF Spec

\* LoadSessions never holds more than memory_limit: what is still reserved for
\* sources and what preparations have stored, after every release and admission;
\* and the releases never take more than was reserved.
THEOREM LoadStaysWithinLimit == Spec => []AdmittedBytes
<1>1. ASSUME IInv PROVE AdmittedBytes
  <2>1. Loader => reservation + store <= limit
    BY <1>1 DEF IInv, TypeOK, LimitInv, Loader, InLoad, LoadLabels
  <2>2. 0 <= reservation
    <3>1. before \subseteq Initializers
      BY <1>1, PlanAssumption DEF IInv, TypeOK
    <3>2. BytesOf(Initializers) = BytesOf(before) + BytesOf(Initializers \ before)
      BY <3>1, BytesSplit
    <3>3. BytesOf(before) \in Nat /\ BytesOf(Initializers \ before) \in Nat
      BY <3>1, BytesType
    <3>4. Reservation \in Nat /\ BytesOf(Initializers) <= Reservation
      BY LoaderAssumption
    <3>5. reservation = Reservation - BytesOf(before)
      BY <1>1 DEF IInv, ReserveInv
    <3> QED
      BY ONLY <3>2, <3>3, <3>4, <3>5
  <2> QED
    BY <2>1, <2>2 DEF AdmittedBytes
<1> QED
  BY <1>1, Invariant, PTL

\* The Reader reads only a tensor the loader has not come to, is at most one
\* ahead of Take, and is gone when LoadSessions checks, returns or throws.
THEOREM ReaderHandsOver == Spec => []ReaderHandoff
<1>1. ASSUME IInv PROVE ReaderHandoff
  <2>1. /\ reader.pc \in ReaderLabels /\ CallOrder
        /\ reader.i \in Nat /\ reader.ready \in Nat /\ reader.taken \in Nat
    BY <1>1, ReaderTypes
  <2>2. ASSUME reader.pc = "read" PROVE Queued[reader.i] \notin values \cup consumed
    <3>1. InLoad /\ Overlapped /\ at # "declare"
      BY <1>1, <2>2 DEF IInv, StartInv, ReaderInv, InLoad, LoadLabels
    <3>2. reader.i = reader.taken + 1 /\ reader.i \in 1..Len(Queued)
      <4>1. /\ reader.i = reader.ready + 1 /\ reader.taken <= reader.ready
            /\ reader.i <= reader.taken + 1 /\ reader.i <= Len(Queued)
        BY <1>1, <2>2, <3>1 DEF IInv, ReaderInv
      <4>2. Len(Queued) \in Nat
        BY <2>1 DEF CallOrder
      <4> QED
        BY ONLY <2>1, <4>1, <4>2
    <3>3. Queued[reader.i] \in external
      BY <2>1, <3>2 DEF CallOrder
    <3>4. ASSUME Queued[reader.i] \in values \cup consumed PROVE FALSE
      <4>1. PICK k \in 1..Len(Queued) : Queued[reader.i] = Queued[k] /\ k <= reader.taken
        BY <1>1, <3>1, <3>3, <3>4 DEF IInv, TakenInv
      <4>2. k = reader.i
        BY <2>1, <3>2, <4>1 DEF CallOrder
      <4> QED
        BY <2>1, <3>2, <4>1, <4>2
    <3> QED
      BY <3>4
  <2>3. reader.ready <= reader.taken + 1
    BY <1>1 DEF IInv, ReaderInv
  <2>4. at \in {"check", "leave", "abandon", "failed", "idle"} => reader.pc \in {"none", "done"}
    BY <1>1, <2>1 DEF IInv, ReaderInv, ReaderLabels
  <2> QED
    BY <2>2, <2>3, <2>4 DEF ReaderHandoff
<1> QED
  BY <1>1, Invariant, PTL

\* ConsumePreparationSources keeps the books: a consumed initializer has no
\* reader left, required_inputs_ holds the other external inputs once each at
\* the recorded index, and the count of pending preparations is exact, or one too
\* high after a failure.
THEOREM SourcesAreAccounted == Spec => []SourcesAccounted
<1>1. ASSUME IInv PROVE SourcesAccounted
  <2> SUFFICES ASSUME at # "declare"
               PROVE  /\ \A w \in consumed : Consumers(w) \subseteq prep.complete /\ w \notin values \ foreign
                      /\ IsInjective(required.names)
                      /\ Range(required.names) = Range(RequiredInputs) \ consumed
                      /\ \A w \in consumable \ consumed : required.names[required.index[w]] = w
                      /\ Counted(prep, failed)
    BY DEF SourcesAccounted, Counted
  <2>1. /\ \A w \in consumed : Consumers(w) \subseteq prep.complete /\ w \notin values \ foreign
        /\ Books(required) /\ Range(required.names) = Range(RequiredInputs) \ consumed
        /\ Counted(prep, failed)
    BY <1>1 DEF IInv, BooksInv, QueueInv
  <2>2. consumable \subseteq Range(RequiredInputs)
    BY <1>1, PlanAssumption DEF IInv, TypeOK
  <2> QED
    BY <2>1, <2>2 DEF Books
<1> QED
  BY <1>1, Invariant, PTL

\* A kernel runs with its preparations complete and with every input in the
\* context or consumed by a preparation.
THEOREM NodesAreReady == Spec => []NodeReady
<1>1. ASSUME IInv PROVE NodeReady
  <2> SUFFICES ASSUME at = "execute"
               PROVE  PrepsOf(node) \subseteq prep.complete
                      /\ NodeInputs[node] \subseteq values \cup consumed
    BY DEF NodeReady
  <2>1. /\ node \in Nodes /\ PrepsOf(node) \subseteq prep.complete
        /\ \A m \in node..NumNodes : NodeInputs[m] \subseteq
               values \cup consumed \cup UNION {NodeOutputs[k] : k \in node..(m - 1)}
    BY <1>1 DEF IInv, RunInv
  <2>2. node \in node..NumNodes /\ node..(node - 1) = {}
    BY <2>1, PlanAssumption DEF Nodes
  <2>3. UNION {NodeOutputs[k] : k \in node..(node - 1)} = {}
    BY <2>2
  <2> QED
    BY <2>1, <2>2, <2>3
<1> QED
  BY <1>1, Invariant, PTL

\* When the loader checks what is pending, each preparation that is ready does
\* not fit in what is left of memory_limit; when Run checks its inputs, none is
\* ready.
THEOREM NothingIsForgotten == Spec => []NothingForgotten
<1>1. ASSUME IInv PROVE NothingForgotten
  <2>1. ASSUME at \in {"check", "inputs"}, NEW p \in Preps, p \notin prep.complete, Ready(p)
        PROVE  ~Fits(p, prep.limit)
               /\ prep.limit = IF at = "check" THEN limit - reservation ELSE Unlimited
    <3>1. ~failed /\ at # "declare"
      BY <1>1, <2>1 DEF IInv, FailInv
    <3>2. prep.pending # 0
      BY <1>1, <2>1, <3>1, NonePending
    <3>3. /\ prep.limit = IF at = "check" THEN limit - reservation ELSE Unlimited
          /\ prep.queue = <<>>
      BY <1>1, <2>1, <3>2 DEF IInv, LimitInv
    <3>4. prep.queued = {}
      <4>1. Lists(prep.queue, prep.queued)
        BY <1>1 DEF IInv, QueueInv, Sound
      <4>2. \A x \in prep.queued : \E k \in 1..Len(prep.queue) : prep.queue[k] = x
        BY <4>1, ListsFacts
      <4>3. Len(prep.queue) = 0
        BY <3>3
      <4> QED
        BY <4>2, <4>3
    <3>5. p \in prep.queued \/ ~Fits(p, prep.limit)
      BY <1>1, <2>1, <3>1 DEF IInv, PendingInv
    <3> QED
      BY <3>3, <3>4, <3>5
  <2>2. ASSUME NEW p \in Preps PROVE Fits(p, Unlimited)
    <3>1. /\ store <= SharedBytes + PreparedBytes(prep.complete) /\ store \in Nat
          /\ prep.complete \in SUBSET Preps
      BY <1>1 DEF IInv, QueueInv, TypeOK, PrepStates
    <3>2. /\ SharedBytes + PreparedBytes(prep.complete)
              + Memory[p].source + Memory[p].temporary + Memory[p].prepared <= Unlimited
          /\ SharedBytes \in Nat /\ Unlimited \in Nat
      BY <2>2, <3>1, PreparationAssumption
    <3>3. Memory[p].source \in Nat /\ Memory[p].temporary \in Nat /\ Memory[p].prepared \in Nat
      BY <2>2, MemoryTypes
    <3>4. PreparedBytes(prep.complete) \in Nat
      BY <3>1, PreparedType
    <3>5. store + Memory[p].source + Memory[p].temporary + Memory[p].prepared <= Unlimited
      BY ONLY <3>1, <3>2, <3>3, <3>4
    <3> QED
      BY <3>5 DEF Fits
  <2>3. at = "check" => \A p \in Preps \ prep.complete : Ready(p) => ~Fits(p, limit - reservation)
    BY <2>1
  <2>4. NothingForgottenByRun
    BY <2>1, <2>2 DEF NothingForgottenByRun
  <2> QED
    BY <2>3, <2>4 DEF NothingForgotten
<1> QED
  BY <1>1, Invariant, PTL

=============================================================================
