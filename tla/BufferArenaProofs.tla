-------------------------- MODULE BufferArenaProofs --------------------------
(***************************************************************************)
(* Proofs about BufferArena, for every number of slots, every block size   *)
(* and every retention cap.  The counters of an arena are sums over its    *)
(* slots, and eviction is a loop: the first part of the module is about    *)
(* sums and loops, by induction on the natural numbers in the form that    *)
(* every set of natural numbers has a least element.                       *)
(***************************************************************************)
EXTENDS BufferArena, FiniteSetTheorems, SequenceTheorems, WellFoundedInduction, TLAPS

LEMMA LeastNat == ASSUME NEW S, S \subseteq Nat, S # {} PROVE \E m \in S : \A k \in S : m <= k
<1>1. PICK R : R = OpToRel(<, Nat)
  OBVIOUS
<1>2. IsWellFoundedOn(R, Nat)
  BY <1>1, NatLessThanWellFounded
<1>3. \A k, m \in Nat : <<k, m>> \in R <=> k < m
  BY <1>1 DEF OpToRel
<1>4. PICK m \in S : \A k \in S : ~(<<k, m>> \in R)
  BY ONLY <1>2, S \subseteq Nat, S # {}, WFMin
<1>5. \A k \in S : ~(k < m) /\ k \in Nat /\ m \in Nat
  BY ONLY <1>3, <1>4, S \subseteq Nat
<1>6. \A k \in S : m <= k
  BY ONLY <1>5
<1> QED
  BY ONLY <1>6, m \in S

\* Induction, by the set of counterexamples.
LEMMA NoCounterexample ==
    ASSUME NEW B, B \subseteq Nat, 0 \notin B, \A n \in Nat : n \notin B => n + 1 \notin B
    PROVE  B = {}
<1> SUFFICES ASSUME B # {} PROVE FALSE
  OBVIOUS
<1>1. PICK m \in B : \A k \in B : m <= k
  BY LeastNat
<1>2. m - 1 \in Nat /\ m - 1 \notin B /\ (m - 1) + 1 = m
  BY <1>1
<1> QED
  BY <1>2

-----------------------------------------------------------------------------
(***************************************************************************)
(* Sums.                                                                   *)
(***************************************************************************)

Chosen(s) == CHOOSE x \in s : TRUE
SumBody(f, g, s) == IF s = {} THEN 0 ELSE f[Chosen(s)] + g[s \ {Chosen(s)}]

\* g gives the sum of f over every subset of S.
IsSum(f, S, g) == g = [s \in SUBSET S |-> SumBody(f, g, s)]

LEMMA SumDef ==
    ASSUME NEW f, NEW S PROVE SumFunctionOnSet(f, S) = (CHOOSE g : IsSum(f, S, g))[S]
BY DEF SumFunctionOnSet, FoldFunctionOnSet, MapThenFoldSet, Chosen, IsSum, SumBody

LEMMA ChosenFacts ==
    ASSUME NEW s, s # {}, IsFiniteSet(s)
    PROVE  /\ Chosen(s) \in s
           /\ IsFiniteSet(s \ {Chosen(s)})
           /\ Cardinality(s) \in Nat /\ Cardinality(s \ {Chosen(s)}) = Cardinality(s) - 1
<1>1. Chosen(s) \in s
  BY DEF Chosen
<1> QED
  BY <1>1, FS_RemoveElement, FS_CardinalityType

LEMMA SumExists ==
    ASSUME NEW S, IsFiniteSet(S), NEW f \in [S -> Nat]
    PROVE  \E g \in [SUBSET S -> Nat] : IsSum(f, S, g)
<1> DEFINE Upto(n, g) == \A s \in SUBSET S : Cardinality(s) <= n => g[s] = SumBody(f, g, s)
           B == {n \in Nat : ~ \E g \in [SUBSET S -> Nat] : Upto(n, g)}
<1>0. ASSUME NEW s \in SUBSET S
      PROVE  IsFiniteSet(s) /\ Cardinality(s) \in Nat /\ (Cardinality(s) = 0 <=> s = {})
  BY FS_Subset, FS_CardinalityType, FS_EmptySet
<1>1. 0 \notin B
  <2>1. PICK g : g = [s \in SUBSET S |-> 0]
    OBVIOUS
  <2>2. g \in [SUBSET S -> Nat]
    BY <2>1
  <2>3. Upto(0, g)
    BY <2>1, <1>0 DEF SumBody
  <2> QED
    BY <2>2, <2>3
<1>2. ASSUME NEW n \in Nat, n \notin B PROVE n + 1 \notin B
  <2>1. PICK g \in [SUBSET S -> Nat] : Upto(n, g)
    BY <1>2
  <2>2. PICK h : h = [s \in SUBSET S |-> IF Cardinality(s) <= n THEN g[s] ELSE SumBody(f, g, s)]
    OBVIOUS
  <2>3. ASSUME NEW s \in SUBSET S PROVE SumBody(f, g, s) \in Nat
    <3>1. CASE s = {}
      BY <3>1 DEF SumBody
    <3>2. CASE s # {}
      <4>1. Chosen(s) \in S /\ s \ {Chosen(s)} \in SUBSET S
        BY <3>2, <1>0, ChosenFacts
      <4> QED
        BY <3>2, <4>1, <2>1 DEF SumBody
    <3> QED
      BY <3>1, <3>2
  <2>4. h \in [SUBSET S -> Nat]
    BY <2>1, <2>2, <2>3
  <2>5. ASSUME NEW s \in SUBSET S, Cardinality(s) <= n + 1 PROVE h[s] = SumBody(f, h, s)
    <3>1. h[s] = SumBody(f, g, s)
      BY <2>1, <2>2
    <3>2. CASE s = {}
      BY <3>1, <3>2 DEF SumBody
    <3>3. CASE s # {}
      <4>1. s \ {Chosen(s)} \in SUBSET S /\ Cardinality(s \ {Chosen(s)}) <= n
        BY <3>3, <2>5, <1>0, ChosenFacts
      <4>2. h[s \ {Chosen(s)}] = g[s \ {Chosen(s)}]
        BY <4>1, <2>2
      <4> QED
        BY <3>1, <3>3, <4>2 DEF SumBody
    <3> QED
      BY <3>2, <3>3
  <2>6. Upto(n + 1, h)
    BY <2>5
  <2> QED
    BY <2>4, <2>6
<1>3. B = {}
  <2> HIDE DEF Upto
  <2>1. B \subseteq Nat
    OBVIOUS
  <2> HIDE DEF B
  <2> QED
    BY <2>1, <1>1, <1>2, NoCounterexample
<1>4. PICK g \in [SUBSET S -> Nat] : Upto(Cardinality(S), g)
  BY <1>3, FS_CardinalityType
<1>5. \A s \in SUBSET S : Cardinality(s) <= Cardinality(S)
  BY FS_Subset
<1>6. IsSum(f, S, g)
  BY <1>4, <1>5 DEF IsSum
<1> QED
  BY <1>6

\* The sum over a set depends only on what the function is there.
LEMMA SumAgree ==
    ASSUME NEW S, IsFiniteSet(S), NEW T, T \subseteq S, NEW f, NEW h,
           \A t \in T : f[t] = h[t],
           NEW u, IsSum(f, S, u), NEW v, IsSum(h, T, v)
    PROVE  \A s \in SUBSET T : u[s] = v[s]
<1> DEFINE B == {n \in Nat : \E s \in SUBSET T : Cardinality(s) = n /\ u[s] # v[s]}
<1>0. ASSUME NEW s \in SUBSET T
      PROVE  /\ IsFiniteSet(s) /\ Cardinality(s) \in Nat /\ (Cardinality(s) = 0 <=> s = {})
             /\ u[s] = SumBody(f, u, s) /\ v[s] = SumBody(h, v, s)
  BY FS_Subset, FS_CardinalityType, FS_EmptySet DEF IsSum
<1>1. 0 \notin B
  BY <1>0 DEF SumBody
<1>2. ASSUME NEW n \in Nat, n \notin B PROVE n + 1 \notin B
  <2> SUFFICES ASSUME NEW s \in SUBSET T, Cardinality(s) = n + 1 PROVE u[s] = v[s]
    OBVIOUS
  <2>1. s # {}
    BY <1>0
  <2>2. Chosen(s) \in T /\ s \ {Chosen(s)} \in SUBSET T /\ Cardinality(s \ {Chosen(s)}) = n
    BY <2>1, <1>0, ChosenFacts
  <2>3. u[s \ {Chosen(s)}] = v[s \ {Chosen(s)}]
    BY <2>2, <1>2
  <2>4. f[Chosen(s)] = h[Chosen(s)]
    BY <2>2
  <2> QED
    BY <1>0, <2>1, <2>3, <2>4 DEF SumBody
<1>3. B = {}
  <2>1. B \subseteq Nat
    OBVIOUS
  <2> HIDE DEF B
  <2> QED
    BY <2>1, <1>1, <1>2, NoCounterexample
<1> QED
  BY <1>0, <1>3

\* The elements may be summed in any order.
Splits(f, S, g) == \A s \in SUBSET S : \A x \in s : g[s] = f[x] + g[s \ {x}]

LEMMA SumSplit ==
    ASSUME NEW S, IsFiniteSet(S), NEW f \in [S -> Nat], NEW g \in [SUBSET S -> Nat],
           IsSum(f, S, g)
    PROVE  Splits(f, S, g)
<1> DEFINE B == {n \in Nat : \E s \in SUBSET S : Cardinality(s) = n
                                 /\ \E x \in s : g[s] # f[x] + g[s \ {x}]}
<1>0. ASSUME NEW s \in SUBSET S
      PROVE  /\ IsFiniteSet(s) /\ Cardinality(s) \in Nat /\ (Cardinality(s) = 0 <=> s = {})
             /\ g[s] = SumBody(f, g, s)
             /\ \A x \in s : s \ {x} \in SUBSET S /\ Cardinality(s \ {x}) = Cardinality(s) - 1
  BY FS_Subset, FS_CardinalityType, FS_EmptySet, FS_RemoveElement DEF IsSum
<1>1. 0 \notin B
  BY <1>0
<1>2. ASSUME NEW n \in Nat, n \notin B PROVE n + 1 \notin B
  <2> SUFFICES ASSUME NEW s \in SUBSET S, Cardinality(s) = n + 1, NEW x \in s
               PROVE  g[s] = f[x] + g[s \ {x}]
    OBVIOUS
  <2>1. PICK y : y = Chosen(s)
    OBVIOUS
  <2>2. y \in s
    BY <2>1, <1>0, ChosenFacts
  <2>3. g[s] = f[y] + g[s \ {y}]
    BY <1>0, <2>1, <2>2 DEF SumBody
  <2>4. CASE x = y
    BY <2>3, <2>4
  <2>5. CASE x # y
    <3>1. s \ {y} \in SUBSET S /\ x \in s \ {y} /\ Cardinality(s \ {y}) = n
      BY <1>0, <2>2, <2>5
    <3>2. s \ {x} \in SUBSET S /\ y \in s \ {x} /\ Cardinality(s \ {x}) = n
      BY <1>0, <2>2, <2>5
    <3>3. g[s \ {y}] = f[x] + g[(s \ {y}) \ {x}]
      BY <3>1, <1>2
    <3>4. g[s \ {x}] = f[y] + g[(s \ {x}) \ {y}]
      BY <3>2, <1>2
    <3>5. (s \ {y}) \ {x} = (s \ {x}) \ {y}
      OBVIOUS
    <3>6. (s \ {x}) \ {y} \in SUBSET S /\ x \in S /\ y \in S
      BY <2>2
    <3>7. f[x] \in Nat /\ f[y] \in Nat /\ g[(s \ {x}) \ {y}] \in Nat
      BY <3>6
    <3>8. PICK a, b, c : a = f[x] /\ b = f[y] /\ c = g[(s \ {x}) \ {y}]
      OBVIOUS
    <3>9. g[s \ {y}] = a + c /\ g[s \ {x}] = b + c
      BY <3>3, <3>4, <3>5, <3>8
    <3> QED
      BY <2>3, <3>7, <3>8, <3>9
  <2> QED
    BY <2>4, <2>5
<1>3. B = {}
  <2>1. B \subseteq Nat
    OBVIOUS
  <2> HIDE DEF B
  <2> QED
    BY <2>1, <1>1, <1>2, NoCounterexample
<1> QED
  BY <1>0, <1>3 DEF Splits

LEMMA SumIs ==
    ASSUME NEW S, IsFiniteSet(S), NEW f \in [S -> Nat]
    PROVE  \E g \in [SUBSET S -> Nat] : IsSum(f, S, g) /\ SumFunctionOnSet(f, S) = g[S]
<1>1. PICK w \in [SUBSET S -> Nat] : IsSum(f, S, w)
  BY SumExists
<1>2. PICK g : g = CHOOSE h : IsSum(f, S, h)
  OBVIOUS
<1>3. IsSum(f, S, g)
  BY <1>1, <1>2
<1>4. \A s \in SUBSET S : w[s] = g[s]
  BY <1>1, <1>3, SumAgree
<1>5. g \in [SUBSET S -> Nat]
  BY <1>1, <1>3, <1>4 DEF IsSum
<1>6. SumFunctionOnSet(f, S) = g[S]
  BY <1>2, SumDef
<1> QED
  BY <1>3, <1>5, <1>6

LEMMA SumType ==
    ASSUME NEW S, IsFiniteSet(S), NEW f \in [S -> Nat]
    PROVE  SumFunction(f) \in Nat
<1>1. DOMAIN f = S /\ S \in SUBSET S
  OBVIOUS
<1>2. PICK g \in [SUBSET S -> Nat] : SumFunctionOnSet(f, S) = g[S]
  BY ONLY IsFiniteSet(S), f \in [S -> Nat], SumIs
<1> QED
  BY <1>1, <1>2 DEF SumFunction

LEMMA SumEmpty == ASSUME NEW f \in [{} -> Nat] PROVE SumFunction(f) = 0
<1>1. PICK g \in [SUBSET {} -> Nat] : IsSum(f, {}, g) /\ SumFunctionOnSet(f, {}) = g[{}]
  BY SumIs, FS_EmptySet
<1>2. DOMAIN f = {}
  OBVIOUS
<1> QED
  BY <1>1, <1>2 DEF SumFunction, IsSum, SumBody

LEMMA SumRemove ==
    ASSUME NEW S, IsFiniteSet(S), NEW x \in S,
           NEW f \in [S -> Nat], NEW h \in [S \ {x} -> Nat],
           \A t \in S \ {x} : f[t] = h[t]
    PROVE  SumFunction(f) = f[x] + SumFunction(h)
<1> DEFINE T == S \ {x}
<1>1. PICK u \in [SUBSET S -> Nat] : IsSum(f, S, u) /\ SumFunctionOnSet(f, S) = u[S]
  BY SumIs
<1>2. IsFiniteSet(T) /\ T \subseteq S
  BY FS_RemoveElement
<1>3. PICK v \in [SUBSET T -> Nat] : IsSum(h, T, v) /\ SumFunctionOnSet(h, T) = v[T]
  BY <1>2, SumIs
<1>4. u[T] = v[T]
  <2> HIDE DEF T
  <2> QED
    BY <1>1, <1>2, <1>3, SumAgree DEF T
<1>5. u[S] = f[x] + u[T]
  <2>1. S \in SUBSET S
    OBVIOUS
  <2>2. Splits(f, S, u)
    <3>1. IsSum(f, S, u) /\ u \in [SUBSET S -> Nat]
      BY <1>1
    <3> QED
      BY ONLY IsFiniteSet(S), f \in [S -> Nat], <3>1, SumSplit
  <2> QED
    BY <2>1, <2>2 DEF Splits
<1>6. DOMAIN f = S /\ DOMAIN h = T
  OBVIOUS
<1> QED
  BY <1>1, <1>3, <1>4, <1>5, <1>6 DEF SumFunction

-----------------------------------------------------------------------------
(***************************************************************************)
(* Lists without repetition, and the sets they list.                       *)
(***************************************************************************)

Lists(s, S) == s \in Seq(Nat) /\ IsInjective(s) /\ Range(s) = S

\* Lists, element by element.
LEMMA ListsIff ==
    ASSUME NEW s \in Seq(Nat), NEW S
    PROVE  Lists(s, S) <=> /\ \A k \in 1..Len(s) : s[k] \in S
                           /\ \A x \in S : \E k \in 1..Len(s) : s[k] = x
                           /\ \A k, m \in 1..Len(s) : s[k] = s[m] => k = m
<1>1. DOMAIN s = 1..Len(s)
  OBVIOUS
<1> QED
  BY <1>1 DEF Lists, IsInjective, Range

LEMMA ListsFacts ==
    ASSUME NEW s, NEW S, Lists(s, S)
    PROVE  /\ s \in Seq(Nat) /\ S \subseteq Nat /\ Len(s) \in Nat /\ DOMAIN s = 1..Len(s)
           /\ \A k \in 1..Len(s) : s[k] \in S
           /\ \A x \in S : \E k \in 1..Len(s) : s[k] = x
           /\ \A k, m \in 1..Len(s) : s[k] = s[m] => k = m
           /\ s = <<>> <=> S = {}
           /\ Range(s) = S /\ IsInjective(s)
<1>1. s \in Seq(Nat) /\ DOMAIN s = 1..Len(s) /\ Len(s) \in Nat /\ Range(s) = S /\ IsInjective(s)
  BY DEF Lists
<1>2. \A k \in 1..Len(s) : s[k] \in S
  BY <1>1, ListsIff
<1>3. \A x \in S : \E k \in 1..Len(s) : s[k] = x
  BY <1>1, ListsIff
<1>4. \A k, m \in 1..Len(s) : s[k] = s[m] => k = m
  BY <1>1, ListsIff
<1>5. S \subseteq Nat
  BY <1>1, <1>3
<1>6. s = <<>> <=> S = {}
  <2>1. s = <<>> => S = {}
    BY <1>3
  <2>2. s # <<>> => Len(s) # 0
    BY <1>1
  <2>3. s # <<>> => S # {}
    BY <1>1, <1>2, <2>2
  <2> QED
    BY <2>1, <2>3
<1> QED
  BY <1>1, <1>2, <1>3, <1>4, <1>5, <1>6

LEMMA ListsFinite == ASSUME NEW s, NEW S, Lists(s, S) PROVE IsFiniteSet(S)
<1>1. /\ s \in Seq(Nat) /\ Len(s) \in Nat
      /\ \A k \in 1..Len(s) : s[k] \in S
      /\ \A x \in S : \E k \in 1..Len(s) : s[k] = x
  BY ListsFacts
<1>2. IsFiniteSet(1..Len(s))
  BY <1>1, FS_Interval
<1>3. PICK f : f = [k \in 1..Len(s) |-> s[k]]
  OBVIOUS
<1>4. f \in Surjection(1..Len(s), S)
  BY <1>1, <1>3 DEF Surjection
<1> QED
  BY <1>2, <1>4, FS_Surjection

LEMMA ListsEmpty == Lists(<<>>, {})
<1>1. PICK s : s = <<>>
  OBVIOUS
<1>2. s \in Seq(Nat) /\ DOMAIN s = {}
  BY <1>1
<1>3. Lists(s, {})
  BY <1>2 DEF Lists, Range, IsInjective
<1> QED
  BY <1>1, <1>3

LEMMA ListsAppend ==
    ASSUME NEW s, NEW S, Lists(s, S), NEW x \in Nat, x \notin S
    PROVE  Lists(Append(s, x), S \cup {x}) /\ Len(Append(s, x)) = Len(s) + 1
<1>1. /\ s \in Seq(Nat) /\ Len(s) \in Nat
      /\ \A k \in 1..Len(s) : s[k] \in S
      /\ \A y \in S : \E k \in 1..Len(s) : s[k] = y
      /\ \A k, m \in 1..Len(s) : s[k] = s[m] => k = m
  BY ListsFacts
<1>2. PICK t : t = Append(s, x)
  OBVIOUS
<1>3. /\ t \in Seq(Nat) /\ Len(t) = Len(s) + 1 /\ t[Len(s) + 1] = x
      /\ \A k \in 1..Len(s) : t[k] = s[k]
  BY <1>1, <1>2
<1>4. \A k \in 1..Len(t) : k \in 1..Len(s) \/ k = Len(s) + 1
  BY <1>1, <1>3
<1>5. \A k \in 1..Len(t) : t[k] \in S \cup {x}
  BY <1>1, <1>3, <1>4
<1>6. \A y \in S \cup {x} : \E k \in 1..Len(t) : t[k] = y
  <2>1. \A k \in 1..Len(s) : k \in 1..Len(t)
    BY <1>1, <1>3
  <2>2. Len(s) + 1 \in 1..Len(t)
    BY <1>1, <1>3
  <2> QED
    BY <1>1, <1>3, <2>1, <2>2
<1>7. \A k, m \in 1..Len(t) : t[k] = t[m] => k = m
  BY <1>1, <1>3, <1>4
<1>8. Lists(t, S \cup {x})
  BY <1>3, <1>5, <1>6, <1>7, ListsIff
<1> QED
  BY <1>2, <1>3, <1>8

\* The list without its position k.
LEMMA ListsRemoveAt ==
    ASSUME NEW s, NEW S, Lists(s, S), NEW k \in 1..Len(s)
    PROVE  Lists(RemoveAt(s, k), S \ {s[k]}) /\ Len(RemoveAt(s, k)) = Len(s) - 1
<1>1. /\ s \in Seq(Nat) /\ Len(s) \in Nat
      /\ \A j \in 1..Len(s) : s[j] \in S
      /\ \A y \in S : \E j \in 1..Len(s) : s[j] = y
      /\ \A j, m \in 1..Len(s) : s[j] = s[m] => j = m
  BY ListsFacts
<1>2. PICK t : t = RemoveAt(s, k)
  OBVIOUS
<1>3. /\ t \in Seq(Nat) /\ Len(t) = Len(s) - 1
      /\ \A j \in 1..Len(t) : t[j] = IF j < k THEN s[j] ELSE s[j + 1]
  <2>1. PICK a, b : a = SubSeq(s, 1, k - 1) /\ b = SubSeq(s, k + 1, Len(s))
    OBVIOUS
  <2>2. /\ a \in Seq(Nat) /\ Len(a) = k - 1 /\ \A j \in 1..(k - 1) : a[j] = s[j]
    BY <1>1, <2>1
  <2>3. /\ b \in Seq(Nat) /\ Len(b) = Len(s) - k /\ \A j \in 1..(Len(s) - k) : b[j] = s[k + j]
    BY <1>1, <2>1
  <2>4. t = a \o b
    BY <1>2, <2>1 DEF RemoveAt
  <2>5. t \in Seq(Nat) /\ Len(t) = Len(s) - 1
    <3>1. t \in Seq(Nat) /\ Len(t) = Len(a) + Len(b)
      BY ONLY <2>2, <2>3, <2>4, ConcatProperties
    <3>2. (k - 1) + (Len(s) - k) = Len(s) - 1
      BY <1>1
    <3> QED
      BY <2>2, <2>3, <3>1, <3>2
  <2>6. ASSUME NEW j \in 1..Len(t) PROVE t[j] = IF j < k THEN s[j] ELSE s[j + 1]
    <3>1. CASE j < k
      BY <1>1, <2>2, <2>3, <2>4, <2>5, <3>1
    <3>2. CASE ~(j < k)
      <4>1. j - (k - 1) \in 1..(Len(s) - k)
        BY <1>1, <2>5, <3>2
      <4>2. t[j] = b[j - (k - 1)]
        <5>1. t[j] = b[j - Len(a)]
          <6>1. j \in 1..(Len(a) + Len(b)) /\ j > Len(a)
            BY <1>1, <2>2, <2>3, <2>5, <3>2
          <6> QED
            BY <2>2, <2>3, <2>4, <6>1, ConcatProperties
        <5> QED
          BY <2>2, <5>1
      <4>3. b[j - (k - 1)] = s[k + (j - (k - 1))]
        BY <2>3, <4>1
      <4>4. k + (j - (k - 1)) = j + 1
        BY <1>1, <2>5
      <4> QED
        BY <4>2, <4>3, <4>4, <3>2
    <3> QED
      BY <3>1, <3>2
  <2> QED
    BY <2>5, <2>6
<1>4. ASSUME NEW j \in 1..Len(t) PROVE t[j] \in S \ {s[k]}
  <2>1. CASE j < k
    <3>1. j \in 1..Len(s) /\ j # k
      BY ONLY <1>1, <1>3, <2>1, k \in 1..Len(s), j \in 1..Len(t)
    <3>2. t[j] = s[j]
      BY <1>3, <2>1
    <3> QED
      BY ONLY <1>1, <3>1, <3>2, k \in 1..Len(s)
  <2>2. CASE ~(j < k)
    <3>1. j + 1 \in 1..Len(s) /\ j + 1 # k
      BY ONLY <1>1, <1>3, <2>2, k \in 1..Len(s), j \in 1..Len(t)
    <3>2. t[j] = s[j + 1]
      BY <1>3, <2>2
    <3> QED
      BY ONLY <1>1, <3>1, <3>2, k \in 1..Len(s)
  <2> QED
    BY <2>1, <2>2
<1>5. ASSUME NEW y \in S \ {s[k]} PROVE \E j \in 1..Len(t) : t[j] = y
  <2>1. PICK j \in 1..Len(s) : s[j] = y
    BY <1>1
  <2>2. j # k
    BY <2>1
  <2>3. CASE j < k
    <3>1. j \in 1..Len(t)
      BY ONLY <1>1, <1>3, <2>1, <2>3, k \in 1..Len(s)
    <3> QED
      BY <1>3, <2>1, <2>3, <3>1
  <2>4. CASE j > k
    <3>1. j - 1 \in 1..Len(t) /\ ~(j - 1 < k) /\ (j - 1) + 1 = j
      BY ONLY <1>1, <1>3, <2>1, <2>4, k \in 1..Len(s)
    <3> QED
      BY <1>3, <2>1, <3>1
  <2> QED
    BY <2>2, <2>3, <2>4, <1>1
<1>6. ASSUME NEW j \in 1..Len(t), NEW m \in 1..Len(t), t[j] = t[m] PROVE j = m
  <2> DEFINE at(i) == IF i < k THEN i ELSE i + 1
  <2>1. \A i \in 1..Len(t) : at(i) \in 1..Len(s)
    BY ONLY <1>1, <1>3, k \in 1..Len(s)
  <2>2. \A i \in 1..Len(t) : t[i] = s[at(i)]
    BY <1>3
  <2>3. at(j) = at(m)
    <3> HIDE DEF at
    <3>1. s[at(j)] = s[at(m)] /\ at(j) \in 1..Len(s) /\ at(m) \in 1..Len(s)
      BY <2>1, <2>2, <1>6
    <3> QED
      BY ONLY <1>1, <3>1
  <2>4. j \in Nat /\ m \in Nat /\ k \in Nat
    BY ONLY <1>1, <1>3, k \in 1..Len(s), j \in 1..Len(t), m \in 1..Len(t)
  <2> QED
    BY ONLY <2>3, <2>4
<1>7. Lists(t, S \ {s[k]})
  BY <1>3, <1>4, <1>5, <1>6, ListsIff
<1> QED
  BY <1>2, <1>3, <1>7

LEMMA ListsWithout ==
    ASSUME NEW s, NEW S, Lists(s, S), NEW x \in S
    PROVE  Lists(Without(s, x), S \ {x}) /\ Len(Without(s, x)) = Len(s) - 1
<1>1. DOMAIN s = 1..Len(s) /\ \E k \in 1..Len(s) : s[k] = x
  BY ListsFacts
<1>2. Position(s, x) \in 1..Len(s) /\ s[Position(s, x)] = x
  BY <1>1 DEF Position
<1> QED
  BY <1>2, ListsRemoveAt DEF Without

LEMMA ListsFront ==
    ASSUME NEW s, NEW S, Lists(s, S), s # <<>>
    PROVE  /\ Last(s) \in S
           /\ Lists(Front(s), S \ {Last(s)})
<1>1. s \in Seq(Nat) /\ Len(s) \in Nat /\ Len(s) # 0 /\ \A k \in 1..Len(s) : s[k] \in S
  BY ListsFacts
<1>2. Len(s) \in 1..Len(s)
  BY <1>1
<1>3. Lists(RemoveAt(s, Len(s)), S \ {s[Len(s)]})
  BY <1>2, ListsRemoveAt
<1>4. RemoveAt(s, Len(s)) = Front(s)
  BY <1>1 DEF RemoveAt, Front
<1> QED
  BY <1>1, <1>2, <1>3, <1>4 DEF Last

LEMMA ListsTail ==
    ASSUME NEW s, NEW S, Lists(s, S), s # <<>>
    PROVE  /\ Head(s) \in S
           /\ Lists(Tail(s), S \ {Head(s)}) /\ Len(Tail(s)) = Len(s) - 1
<1>1. s \in Seq(Nat) /\ Len(s) \in Nat /\ Len(s) # 0 /\ \A k \in 1..Len(s) : s[k] \in S
  BY ListsFacts
<1>2. 1 \in 1..Len(s)
  BY <1>1
<1>3. Lists(RemoveAt(s, 1), S \ {s[1]}) /\ Len(RemoveAt(s, 1)) = Len(s) - 1
  BY <1>2, ListsRemoveAt
<1>4. RemoveAt(s, 1) = Tail(s) /\ Head(s) = s[1]
  BY <1>1 DEF RemoveAt
<1> QED
  BY <1>1, <1>2, <1>3, <1>4

LEMMA ListsConcat ==
    ASSUME NEW s, NEW S, Lists(s, S), NEW t, NEW T, Lists(t, T), S \cap T = {}
    PROVE  Lists(s \o t, S \cup T)
<1>1. /\ s \in Seq(Nat) /\ Len(s) \in Nat
      /\ \A k \in 1..Len(s) : s[k] \in S
      /\ \A y \in S : \E k \in 1..Len(s) : s[k] = y
      /\ \A k, m \in 1..Len(s) : s[k] = s[m] => k = m
  BY ListsFacts
<1>2. /\ t \in Seq(Nat) /\ Len(t) \in Nat
      /\ \A k \in 1..Len(t) : t[k] \in T
      /\ \A y \in T : \E k \in 1..Len(t) : t[k] = y
      /\ \A k, m \in 1..Len(t) : t[k] = t[m] => k = m
  BY ListsFacts
<1>3. PICK r : r = s \o t
  OBVIOUS
<1>4. /\ r \in Seq(Nat) /\ Len(r) = Len(s) + Len(t)
      /\ \A k \in 1..Len(s) : r[k] = s[k]
      /\ \A k \in 1..Len(t) : r[Len(s) + k] = t[k]
  BY <1>1, <1>2, <1>3
<1>5. \A k \in 1..Len(r) : k \in 1..Len(s) \/ \E m \in 1..Len(t) : k = Len(s) + m
  <2> SUFFICES ASSUME NEW k \in 1..Len(r), k \notin 1..Len(s)
               PROVE  \E m \in 1..Len(t) : k = Len(s) + m
    OBVIOUS
  <2>1. k - Len(s) \in 1..Len(t) /\ k = Len(s) + (k - Len(s))
    BY <1>1, <1>2, <1>4
  <2> QED
    BY <2>1
<1>6. ASSUME NEW k \in 1..Len(r) PROVE r[k] \in S \cup T
  <2>1. CASE k \in 1..Len(s)
    BY <1>1, <1>4, <2>1
  <2>2. ASSUME NEW m \in 1..Len(t), k = Len(s) + m PROVE r[k] \in S \cup T
    BY <1>2, <1>4, <2>2
  <2> QED
    BY <1>5, <2>1, <2>2
<1>7. \A y \in S \cup T : \E k \in 1..Len(r) : r[k] = y
  <2>1. \A k \in 1..Len(s) : k \in 1..Len(r)
    BY <1>1, <1>2, <1>4
  <2>2. \A k \in 1..Len(t) : Len(s) + k \in 1..Len(r)
    BY <1>1, <1>2, <1>4
  <2>3. ASSUME NEW y \in S PROVE \E k \in 1..Len(r) : r[k] = y
    <3>1. PICK k \in 1..Len(s) : s[k] = y
      BY <1>1
    <3> QED
      BY <1>4, <2>1, <3>1
  <2>4. ASSUME NEW y \in T PROVE \E k \in 1..Len(r) : r[k] = y
    <3>1. PICK k \in 1..Len(t) : t[k] = y
      BY <1>2
    <3>2. r[Len(s) + k] = y
      BY <1>4, <3>1
    <3> QED
      BY <2>2, <3>2
  <2> QED
    BY <2>3, <2>4
<1>8. ASSUME NEW k \in 1..Len(r), NEW m \in 1..Len(r), r[k] = r[m] PROVE k = m
  <2>1. ASSUME NEW i \in 1..Len(s), NEW j \in 1..Len(t) PROVE r[i] # r[Len(s) + j]
    <3>1. r[i] \in S /\ r[Len(s) + j] \in T
      BY <1>1, <1>2, <1>4
    <3> QED
      BY <3>1
  <2>2. CASE k \in 1..Len(s) /\ m \in 1..Len(s)
    BY <1>1, <1>4, <1>8, <2>2
  <2>3. CASE \E i, j \in 1..Len(t) : k = Len(s) + i /\ m = Len(s) + j
    <3>1. PICK i, j \in 1..Len(t) : k = Len(s) + i /\ m = Len(s) + j
      BY <2>3
    <3>2. t[i] = t[j]
      BY <1>4, <1>8, <3>1
    <3>3. i = j
      BY <1>2, <3>2
    <3> QED
      BY <3>1, <3>3
  <2> QED
    BY <1>5, <1>8, <2>1, <2>2, <2>3
<1>9. Lists(r, S \cup T)
  BY <1>4, <1>6, <1>7, <1>8, ListsIff
<1> QED
  BY <1>3, <1>9

-----------------------------------------------------------------------------
(***************************************************************************)
(* The pool of blocks: U are its unused slots, F its retained ones, L the  *)
(* live ones.                                                              *)
(***************************************************************************)

Blocks == [size : 0..MaxBytes, capacity : 0..MaxBytes]
Pools == [buffers : Seq(Blocks), unused : Seq(Nat), buckets : [0..MaxBytes -> Seq(Nat)],
          lru : Seq(Nat), retained : Nat, slots : Nat]

PoolInv(p, U, F, L) ==
    /\ p \in Pools
    /\ Lists(p.unused, U) /\ Lists(p.lru, F)
    /\ 1..Len(p.buffers) = U \cup F \cup L
    /\ U \cap F = {} /\ L \cap U = {} /\ L \cap F = {}
    /\ \A i \in U : p.buffers[i] = NoBytes
    /\ \A c \in 0..MaxBytes : Lists(p.buckets[c], {i \in F : p.buffers[i].capacity = c})
    /\ p.retained = SumFunction([i \in F |-> p.buffers[i].capacity])
    /\ p.slots = Cardinality(F)

LEMMA PoolFacts ==
    ASSUME NEW p, NEW U, NEW F, NEW L, PoolInv(p, U, F, L)
    PROVE  /\ p \in Pools
           /\ p.buffers \in Seq(Blocks) /\ p.unused \in Seq(Nat) /\ p.lru \in Seq(Nat)
           /\ p.buckets \in [0..MaxBytes -> Seq(Nat)] /\ p.retained \in Nat /\ p.slots \in Nat
           /\ Lists(p.unused, U) /\ Lists(p.lru, F)
           /\ 1..Len(p.buffers) = U \cup F \cup L
           /\ U \cap F = {} /\ L \cap U = {} /\ L \cap F = {}
           /\ \A i \in U \cup F \cup L : /\ i \in Nat /\ p.buffers[i] \in Blocks
                                         /\ p.buffers[i].capacity \in 0..MaxBytes
                                         /\ p.buffers[i].size \in 0..MaxBytes
           /\ IsFiniteSet(U) /\ IsFiniteSet(F) /\ IsFiniteSet(L)
           /\ NoBytes \in Blocks
<1>1. p \in Pools /\ 1..Len(p.buffers) = U \cup F \cup L
  BY DEF PoolInv
<1>2. /\ p.buffers \in Seq(Blocks) /\ p.unused \in Seq(Nat) /\ p.lru \in Seq(Nat)
      /\ p.buckets \in [0..MaxBytes -> Seq(Nat)] /\ p.retained \in Nat /\ p.slots \in Nat
  BY <1>1 DEF Pools
<1>3. \A i \in U \cup F \cup L : i \in Nat /\ p.buffers[i] \in Blocks
  <2>1. \A i \in 1..Len(p.buffers) : i \in Nat /\ p.buffers[i] \in Blocks
    BY <1>2
  <2> QED
    BY <1>1, <2>1
<1>4. \A b \in Blocks : b.capacity \in 0..MaxBytes /\ b.size \in 0..MaxBytes
  BY DEF Blocks
<1>5. IsFiniteSet(U \cup F \cup L)
  <2>1. Len(p.buffers) \in Nat
    BY <1>2
  <2>2. IsFiniteSet(1..Len(p.buffers))
    BY <2>1, FS_Interval
  <2> QED
    BY <1>1, <2>2
<1>6. IsFiniteSet(U) /\ IsFiniteSet(F) /\ IsFiniteSet(L)
  BY <1>5, FS_Subset
<1>7. NoBytes \in Blocks
  BY ArenaAssumption DEF NoBytes, Blocks
<1> QED
  BY <1>1, <1>2, <1>3, <1>4, <1>6, <1>7 DEF PoolInv

\* What is left of the free blocks when slot i is no longer one of them.
Remains(p, F, i, b, c, t) ==
    /\ p.retained - c = SumFunction([j \in F \ {i} |-> b[j].capacity])
    /\ p.retained - c \in Nat
    /\ p.slots - 1 = Cardinality(F \ {i}) /\ p.slots - 1 \in Nat
    /\ t \in [0..MaxBytes -> Seq(Nat)]
    /\ \A d \in 0..MaxBytes : Lists(t[d], {j \in F \ {i} : b[j].capacity = d})

LEMMA Unretained ==
    ASSUME NEW p, NEW U, NEW F, NEW L, PoolInv(p, U, F, L), NEW i \in F,
           NEW b, \A j \in F \ {i} : b[j] = p.buffers[j],
           NEW c, c = p.buffers[i].capacity,
           NEW s, Lists(s, {j \in F : p.buffers[j].capacity = c} \ {i}),
           NEW t, t = [p.buckets EXCEPT ![c] = s]
    PROVE  Remains(p, F, i, b, c, t)
<1>1. /\ p.buckets \in [0..MaxBytes -> Seq(Nat)] /\ p.retained \in Nat /\ p.slots \in Nat
      /\ IsFiniteSet(F) /\ c \in 0..MaxBytes
      /\ \A j \in F : p.buffers[j].capacity \in 0..MaxBytes
  BY PoolFacts
<1>2. PICK f, h : /\ f = [j \in F |-> p.buffers[j].capacity]
                  /\ h = [j \in F \ {i} |-> b[j].capacity]
  OBVIOUS
<1>3. f \in [F -> Nat] /\ h \in [F \ {i} -> Nat] /\ \A j \in F \ {i} : f[j] = h[j]
  <2>1. \A j \in F : p.buffers[j].capacity \in Nat
    BY <1>1, ArenaAssumption
  <2>2. f \in [F -> Nat]
    BY <1>2, <2>1
  <2>3. \A j \in F \ {i} : f[j] = h[j]
    BY <1>2
  <2>4. h \in [F \ {i} -> Nat]
    BY <1>2, <2>1
  <2> QED
    BY <2>2, <2>3, <2>4
<1>4. SumFunction(f) = f[i] + SumFunction(h)
  <2>1. IsFiniteSet(F) /\ i \in F
    BY <1>1
  <2> QED
    BY ONLY <2>1, <1>3, SumRemove
<1>5. SumFunction(h) \in Nat
  BY <1>1, <1>3, SumType, FS_RemoveElement
<1>6. p.retained = SumFunction(f) /\ f[i] = c
  BY <1>2 DEF PoolInv
<1>7. p.retained - c = SumFunction(h) /\ p.retained - c \in Nat
  <2>1. PICK x : x = SumFunction(h)
    OBVIOUS
  <2>2. p.retained = c + x /\ x \in Nat /\ c \in Nat
    BY <1>1, <1>4, <1>5, <1>6, <2>1, ArenaAssumption
  <2> QED
    BY <2>1, <2>2
<1>8. p.slots - 1 = Cardinality(F \ {i}) /\ p.slots - 1 \in Nat
  <2>1. p.slots = Cardinality(F)
    BY DEF PoolInv
  <2>2. /\ IsFiniteSet(F \ {i}) /\ Cardinality(F \ {i}) = Cardinality(F) - 1
        /\ Cardinality(F \ {i}) \in Nat
    BY <1>1, FS_RemoveElement, FS_CardinalityType
  <2> QED
    BY <2>1, <2>2
<1>9. t \in [0..MaxBytes -> Seq(Nat)]
  BY <1>1 DEF Lists
<1>10. ASSUME NEW d \in 0..MaxBytes
       PROVE  Lists(t[d], {j \in F \ {i} : b[j].capacity = d})
  <2>1. Lists(p.buckets[d], {j \in F : p.buffers[j].capacity = d})
    BY DEF PoolInv
  <2>2. {j \in F \ {i} : b[j].capacity = d} = {j \in F : p.buffers[j].capacity = d} \ {i}
    OBVIOUS
  <2>3. CASE d = c
    BY <2>2, <2>3, <1>1
  <2>4. CASE d # c
    <3>1. t[d] = p.buckets[d]
      BY <1>1, <2>4
    <3>2. {j \in F \ {i} : b[j].capacity = d} = {j \in F : p.buffers[j].capacity = d}
      BY <2>2, <2>4
    <3> QED
      BY <2>1, <3>1, <3>2
  <2> QED
    BY <2>3, <2>4
<1> QED
  BY <1>2, <1>7, <1>8, <1>9, <1>10 DEF Remains

\* The pool q after slot i was handed out with n bytes, and after it was returned.
HandedOut(q, i, n, U, F, L) ==
    /\ PoolInv(q, U, F, L \cup {i})
    /\ q.retained <= pool.retained
    /\ q.buffers[i].size = n
    /\ \A j \in L : q.buffers[j] = pool.buffers[j]

Returned(q, i, U, F, L) ==
    /\ PoolInv(q, U, F, L \ {i})
    /\ \A j \in L \ {i} : q.buffers[j] = pool.buffers[j]

\* The last block of a bucket is handed out.
LEMMA TakeFreeInv ==
    ASSUME NEW U, NEW F, NEW L, PoolInv(pool, U, F, L),
           NEW n \in 0..MaxBytes, NEW c \in 0..MaxBytes, pool.buckets[c] # <<>>,
           NEW i, i = Last(pool.buckets[c]), NEW q, q = TakeFree(c, n)
    PROVE  i \in F /\ HandedOut(q, i, n, U, F \ {i}, L)
<1>1. /\ pool \in Pools
      /\ pool.buffers \in Seq(Blocks)
      /\ pool.buckets \in [0..MaxBytes -> Seq(Nat)] /\ pool.retained \in Nat
      /\ 1..Len(pool.buffers) = U \cup F \cup L
      /\ U \cap F = {} /\ L \cap U = {} /\ L \cap F = {}
      /\ Lists(pool.lru, F) /\ Lists(pool.unused, U)
  BY PoolFacts
<1>2. Lists(pool.buckets[c], {j \in F : pool.buffers[j].capacity = c})
  BY DEF PoolInv
<1>3. i \in F /\ pool.buffers[i].capacity = c
  <2>1. i \in {j \in F : pool.buffers[j].capacity = c}
    BY <1>2, ListsFront
  <2> QED
    BY <2>1
<1>4. Lists(Front(pool.buckets[c]), {j \in F : pool.buffers[j].capacity = c} \ {i})
  BY <1>2, ListsFront
<1>5. PICK b, s, t, u : /\ b = [pool.buffers EXCEPT ![i] = Resized(pool.buffers[i], n)]
                        /\ s = Front(pool.buckets[c])
                        /\ t = [pool.buckets EXCEPT ![c] = s]
                        /\ u = Without(pool.lru, i)
  OBVIOUS
<1>6. q = [pool EXCEPT !.buffers = b, !.buckets = t, !.lru = u, !.slots = pool.slots - 1,
                       !.retained = pool.retained - c]
  BY <1>5 DEF TakeFree
<1>7. Resized(pool.buffers[i], n) \in Blocks /\ Resized(pool.buffers[i], n).size = n
  <2>1. pool.buffers[i].capacity \in 0..MaxBytes
    BY <1>3
  <2> QED
    BY <2>1, ArenaAssumption DEF Resized, Blocks
<1>8. /\ b \in Seq(Blocks) /\ Len(b) = Len(pool.buffers) /\ b[i].size = n
      /\ \A j \in (U \cup F \cup L) \ {i} : b[j] = pool.buffers[j]
  <2>1. i \in 1..Len(pool.buffers)
    BY <1>1, <1>3
  <2>2. /\ b \in Seq(Blocks) /\ Len(b) = Len(pool.buffers) /\ b[i] = Resized(pool.buffers[i], n)
        /\ \A j \in 1..Len(pool.buffers) : j # i => b[j] = pool.buffers[j]
    BY <1>1, <1>5, <1>7, <2>1
  <2> QED
    BY <1>1, <1>7, <2>2
<1>9. /\ pool.retained - c = SumFunction([j \in F \ {i} |-> b[j].capacity])
      /\ pool.retained - c \in Nat
      /\ pool.slots - 1 = Cardinality(F \ {i}) /\ pool.slots - 1 \in Nat
      /\ t \in [0..MaxBytes -> Seq(Nat)]
      /\ \A d \in 0..MaxBytes : Lists(t[d], {j \in F \ {i} : b[j].capacity = d})
  <2>1. \A j \in F \ {i} : b[j] = pool.buffers[j]
    BY <1>8
  <2>2. Lists(s, {j \in F : pool.buffers[j].capacity = c} \ {i})
    BY <1>4, <1>5
  <2>3. t = [pool.buckets EXCEPT ![c] = s] /\ c = pool.buffers[i].capacity
    BY <1>3, <1>5
  <2>4. Remains(pool, F, i, b, c, t)
    BY <1>3, <2>1, <2>2, <2>3, Unretained
  <2> QED
    BY <2>4 DEF Remains
<1>10. Lists(u, F \ {i})
  BY <1>1, <1>3, <1>5, ListsWithout
<1>11. /\ q \in Pools
       /\ q.buffers = b /\ q.buckets = t /\ q.lru = u /\ q.slots = pool.slots - 1
       /\ q.retained = pool.retained - c /\ q.unused = pool.unused
  <2>1. u \in Seq(Nat)
    BY <1>10 DEF Lists
  <2> QED
    BY <1>1, <1>6, <1>8, <1>9, <2>1 DEF Pools
<1>12. PoolInv(q, U, F \ {i}, L \cup {i})
  <2>1. 1..Len(q.buffers) = U \cup (F \ {i}) \cup (L \cup {i})
    BY <1>1, <1>3, <1>8, <1>11
  <2>2. U \cap (F \ {i}) = {} /\ (L \cup {i}) \cap U = {} /\ (L \cup {i}) \cap (F \ {i}) = {}
    BY <1>1, <1>3
  <2>3. \A j \in U : q.buffers[j] = NoBytes
    BY <1>1, <1>3, <1>8, <1>11 DEF PoolInv
  <2> QED
    BY <1>1, <1>9, <1>10, <1>11, <2>1, <2>2, <2>3 DEF PoolInv
<1>13. q.retained <= pool.retained
  BY <1>1, <1>9, <1>11
<1>14. \A j \in L : q.buffers[j] = pool.buffers[j]
  BY <1>1, <1>3, <1>8, <1>11
<1> QED
  BY <1>3, <1>8, <1>11, <1>12, <1>13, <1>14 DEF HandedOut

\* The block that was freed first is evicted.
EvictedOne(p, q, i, U, F, L) ==
    /\ PoolInv(q, U \cup {i}, F \ {i}, L)
    /\ Len(q.lru) = Len(p.lru) - 1
    /\ \A j \in L : q.buffers[j] = p.buffers[j]

LEMMA EvictInv ==
    ASSUME NEW p, NEW U, NEW F, NEW L, PoolInv(p, U, F, L), p.lru # <<>>,
           NEW i, i = Head(p.lru), NEW q, q = EvictFirst(p)
    PROVE  EvictedOne(p, q, i, U, F, L)
<1>1. /\ p \in Pools
      /\ p.buffers \in Seq(Blocks)
      /\ p.buckets \in [0..MaxBytes -> Seq(Nat)] /\ p.retained \in Nat
      /\ 1..Len(p.buffers) = U \cup F \cup L
      /\ U \cap F = {} /\ L \cap U = {} /\ L \cap F = {}
      /\ Lists(p.lru, F) /\ Lists(p.unused, U)
      /\ NoBytes \in Blocks
  BY PoolFacts
<1>2. i \in F /\ Lists(Tail(p.lru), F \ {i}) /\ Len(Tail(p.lru)) = Len(p.lru) - 1
  BY <1>1, ListsTail
<1>3. PICK c : c = p.buffers[i].capacity
  OBVIOUS
<1>4. c \in 0..MaxBytes /\ i \in Nat
  BY <1>2, <1>3, PoolFacts
<1>5. Lists(p.buckets[c], {j \in F : p.buffers[j].capacity = c})
  BY <1>4 DEF PoolInv
<1>6. Lists(Without(p.buckets[c], i), {j \in F : p.buffers[j].capacity = c} \ {i})
  BY <1>2, <1>3, <1>5, ListsWithout
<1>7. PICK b, s, t : /\ b = [p.buffers EXCEPT ![i] = NoBytes]
                     /\ s = Without(p.buckets[c], i)
                     /\ t = [p.buckets EXCEPT ![c] = s]
  OBVIOUS
<1>8. PICK u, v : u = Append(p.unused, i) /\ v = Tail(p.lru)
  OBVIOUS
<1>9. q = [p EXCEPT !.buffers = b, !.buckets = t, !.unused = u, !.lru = v,
                    !.retained = p.retained - c, !.slots = p.slots - 1]
  BY <1>3, <1>7, <1>8 DEF EvictFirst
<1>10. /\ b \in Seq(Blocks) /\ Len(b) = Len(p.buffers) /\ b[i] = NoBytes
       /\ \A j \in (U \cup F \cup L) \ {i} : b[j] = p.buffers[j]
  <2>1. i \in 1..Len(p.buffers)
    BY <1>1, <1>2
  <2>2. /\ b \in Seq(Blocks) /\ Len(b) = Len(p.buffers) /\ b[i] = NoBytes
        /\ \A j \in 1..Len(p.buffers) : j # i => b[j] = p.buffers[j]
    BY <1>1, <1>7, <2>1
  <2> QED
    BY <1>1, <2>2
<1>11. Remains(p, F, i, b, c, t)
  <2>1. \A j \in F \ {i} : b[j] = p.buffers[j]
    BY <1>10
  <2>2. Lists(s, {j \in F : p.buffers[j].capacity = c} \ {i})
    BY <1>6, <1>7
  <2> QED
    BY <1>2, <1>3, <1>7, <2>1, <2>2, Unretained
<1>12. Lists(u, U \cup {i}) /\ Lists(v, F \ {i})
  BY <1>1, <1>2, <1>4, <1>8, ListsAppend
<1>13. /\ q \in Pools
       /\ q.buffers = b /\ q.buckets = t /\ q.lru = v /\ q.slots = p.slots - 1
       /\ q.retained = p.retained - c /\ q.unused = u
  <2>1. u \in Seq(Nat) /\ v \in Seq(Nat)
    BY <1>12 DEF Lists
  <2> QED
    BY <1>1, <1>9, <1>10, <1>11, <2>1 DEF Pools, Remains
<1>14. PoolInv(q, U \cup {i}, F \ {i}, L)
  <2>1. 1..Len(q.buffers) = (U \cup {i}) \cup (F \ {i}) \cup L
    BY <1>1, <1>2, <1>10, <1>13
  <2>2. (U \cup {i}) \cap (F \ {i}) = {} /\ L \cap (U \cup {i}) = {} /\ L \cap (F \ {i}) = {}
    BY <1>1, <1>2
  <2>3. \A j \in U \cup {i} : q.buffers[j] = NoBytes
    BY <1>1, <1>2, <1>10, <1>13 DEF PoolInv
  <2> QED
    BY <1>11, <1>12, <1>13, <2>1, <2>2, <2>3 DEF PoolInv, Remains
<1>15. \A j \in L : q.buffers[j] = p.buffers[j]
  BY <1>1, <1>2, <1>10, <1>13
<1> QED
  BY <1>2, <1>8, <1>13, <1>14, <1>15 DEF EvictedOne

\* A live block is retained: the pool before the cap is enforced.
Retain(i) ==
    [pool EXCEPT !.buffers[i].size = 0,
                 !.buckets[pool.buffers[i].capacity] = Append(@, i),
                 !.lru = Append(@, i),
                 !.retained = @ + pool.buffers[i].capacity, !.slots = @ + 1]

LEMMA RetainInv ==
    ASSUME NEW U, NEW F, NEW L, PoolInv(pool, U, F, L), NEW i \in L,
           NEW q, q = Retain(i)
    PROVE  Returned(q, i, U, F \cup {i}, L)
<1>1. /\ pool \in Pools
      /\ pool.buffers \in Seq(Blocks)
      /\ pool.buckets \in [0..MaxBytes -> Seq(Nat)] /\ pool.retained \in Nat /\ pool.slots \in Nat
      /\ 1..Len(pool.buffers) = U \cup F \cup L
      /\ U \cap F = {} /\ L \cap U = {} /\ L \cap F = {}
      /\ Lists(pool.lru, F) /\ Lists(pool.unused, U)
      /\ i \in Nat /\ pool.buffers[i] \in Blocks /\ IsFiniteSet(F)
      /\ \A j \in F : pool.buffers[j].capacity \in 0..MaxBytes
  BY PoolFacts
<1>2. i \notin F /\ i \notin U /\ i \in 1..Len(pool.buffers)
  BY <1>1
<1>3. PICK c : c = pool.buffers[i].capacity
  OBVIOUS
<1>4. c \in 0..MaxBytes /\ c \in Nat
  BY ONLY SMTT(30), <1>1, <1>3, ArenaAssumption DEF Blocks
<1>5. PICK b, s, t, u : /\ b = [pool.buffers EXCEPT ![i] = [pool.buffers[i] EXCEPT !.size = 0]]
                        /\ s = Append(pool.buckets[c], i)
                        /\ t = [pool.buckets EXCEPT ![c] = s]
                        /\ u = Append(pool.lru, i)
  OBVIOUS
<1>6. q = [pool EXCEPT !.buffers = b, !.buckets = t, !.lru = u,
                       !.retained = pool.retained + c, !.slots = pool.slots + 1]
  BY <1>3, <1>5 DEF Retain
<1>7. /\ [pool.buffers[i] EXCEPT !.size = 0] \in Blocks
      /\ [pool.buffers[i] EXCEPT !.size = 0].capacity = c
  <2>1. \A x \in Blocks : /\ [x EXCEPT !.size = 0] \in Blocks
                          /\ [x EXCEPT !.size = 0].capacity = x.capacity
    BY ArenaAssumption DEF Blocks
  <2> QED
    BY <1>1, <1>3, <2>1
<1>8. /\ b \in Seq(Blocks) /\ Len(b) = Len(pool.buffers) /\ b[i].capacity = c
      /\ \A j \in (U \cup F \cup L) \ {i} : b[j] = pool.buffers[j]
  <2>1. /\ b \in Seq(Blocks) /\ Len(b) = Len(pool.buffers)
        /\ b[i] = [pool.buffers[i] EXCEPT !.size = 0]
        /\ \A j \in 1..Len(pool.buffers) : j # i => b[j] = pool.buffers[j]
    BY <1>1, <1>2, <1>5, <1>7
  <2> QED
    BY <1>1, <1>7, <2>1
<1>9. Lists(pool.buckets[c], {j \in F : pool.buffers[j].capacity = c})
  BY <1>4 DEF PoolInv
<1>10. Lists(s, {j \in F : pool.buffers[j].capacity = c} \cup {i})
  BY <1>1, <1>2, <1>5, <1>9, ListsAppend
<1>11. t \in [0..MaxBytes -> Seq(Nat)]
  BY <1>1, <1>5, <1>10 DEF Lists
<1>12. ASSUME NEW d \in 0..MaxBytes
       PROVE  Lists(t[d], {j \in F \cup {i} : b[j].capacity = d})
  <2>1. Lists(pool.buckets[d], {j \in F : pool.buffers[j].capacity = d})
    BY DEF PoolInv
  <2>2. CASE d = c
    <3>1. {j \in F \cup {i} : b[j].capacity = d} = {j \in F : pool.buffers[j].capacity = c} \cup {i}
      BY <1>2, <1>8, <2>2
    <3> QED
      BY <1>1, <1>5, <1>10, <2>2, <3>1
  <2>3. CASE d # c
    <3>1. t[d] = pool.buckets[d]
      BY <1>1, <1>5, <2>3
    <3>2. {j \in F \cup {i} : b[j].capacity = d} = {j \in F : pool.buffers[j].capacity = d}
      BY <1>2, <1>8, <2>3
    <3> QED
      BY <2>1, <3>1, <3>2
  <2> QED
    BY <2>2, <2>3
<1>13. pool.retained + c = SumFunction([j \in F \cup {i} |-> b[j].capacity])
  <2>1. PICK f, h : /\ h = [j \in F |-> pool.buffers[j].capacity]
                    /\ f = [j \in F \cup {i} |-> b[j].capacity]
    OBVIOUS
  <2>2. \A j \in F : pool.buffers[j].capacity \in Nat
    BY <1>1, ArenaAssumption
  <2>3. h \in [F -> Nat]
    BY <2>1, <2>2
  <2>4. \A j \in F : f[j] = h[j]
    BY <1>2, <1>8, <2>1
  <2>5. f[i] = c
    BY <1>8, <2>1
  <2>6. f \in [F \cup {i} -> Nat]
    BY <1>4, <2>1, <2>3, <2>4, <2>5
  <2>7. (F \cup {i}) \ {i} = F /\ IsFiniteSet(F \cup {i}) /\ i \in F \cup {i}
    BY <1>1, <1>2, FS_AddElement
  <2>8. SumFunction(f) = f[i] + SumFunction(h)
    <3>1. h \in [(F \cup {i}) \ {i} -> Nat] /\ \A j \in (F \cup {i}) \ {i} : f[j] = h[j]
      BY <2>3, <2>4, <2>7
    <3> QED
      BY ONLY <2>6, <2>7, <3>1, SumRemove
  <2>9. pool.retained = SumFunction(h)
    BY <2>1 DEF PoolInv
  <2> QED
    BY <1>1, <1>4, <2>1, <2>5, <2>8, <2>9
<1>14. pool.slots + 1 = Cardinality(F \cup {i})
  BY <1>1, <1>2, FS_AddElement DEF PoolInv
<1>15. Lists(u, F \cup {i})
  BY <1>1, <1>2, <1>5, ListsAppend
<1>16. /\ q \in Pools
       /\ q.buffers = b /\ q.buckets = t /\ q.lru = u /\ q.slots = pool.slots + 1
       /\ q.retained = pool.retained + c /\ q.unused = pool.unused
  <2>1. u \in Seq(Nat) /\ pool.slots + 1 \in Nat /\ pool.retained + c \in Nat
    BY <1>1, <1>4, <1>15 DEF Lists
  <2> QED
    BY <1>1, <1>6, <1>8, <1>11, <2>1 DEF Pools
<1>17. PoolInv(q, U, F \cup {i}, L \ {i})
  <2>1. 1..Len(q.buffers) = U \cup (F \cup {i}) \cup (L \ {i})
    BY <1>1, <1>8, <1>16
  <2>2. U \cap (F \cup {i}) = {} /\ (L \ {i}) \cap U = {} /\ (L \ {i}) \cap (F \cup {i}) = {}
    BY <1>1, <1>2
  <2>3. \A j \in U : q.buffers[j] = NoBytes
    BY <1>2, <1>8, <1>16 DEF PoolInv
  <2> QED
    BY <1>1, <1>12, <1>13, <1>14, <1>15, <1>16, <2>1, <2>2, <2>3 DEF PoolInv
<1> QED
  BY <1>8, <1>16, <1>17 DEF Returned

\* An unused slot is handed out.
LEMMA UnusedInv ==
    ASSUME NEW U, NEW F, NEW L, PoolInv(pool, U, F, L), NEW n \in 0..MaxBytes,
           pool.unused # <<>>, NEW i, i = Last(pool.unused), NEW q,
           q = [pool EXCEPT !.unused = Front(@), !.buffers[Last(pool.unused)] = Resized(@, n)]
    PROVE  i \in U /\ HandedOut(q, i, n, U \ {i}, F, L)
<1>1. /\ pool \in Pools
      /\ pool.buffers \in Seq(Blocks)
      /\ 1..Len(pool.buffers) = U \cup F \cup L
      /\ U \cap F = {} /\ L \cap U = {} /\ L \cap F = {}
      /\ Lists(pool.lru, F) /\ Lists(pool.unused, U)
      /\ \A j \in U \cup F \cup L : pool.buffers[j].capacity \in 0..MaxBytes
  BY PoolFacts
<1>2. i \in U /\ Lists(Front(pool.unused), U \ {i})
  BY <1>1, ListsFront
<1>3. PICK b, u : /\ b = [pool.buffers EXCEPT ![i] = Resized(pool.buffers[i], n)]
                  /\ u = Front(pool.unused)
  OBVIOUS
<1>4. q = [pool EXCEPT !.unused = u, !.buffers = b]
  BY <1>3
<1>5. Resized(pool.buffers[i], n) \in Blocks /\ Resized(pool.buffers[i], n).size = n
  BY <1>1, <1>2, ArenaAssumption DEF Resized, Blocks
<1>6. /\ b \in Seq(Blocks) /\ Len(b) = Len(pool.buffers) /\ b[i].size = n
      /\ \A j \in (U \cup F \cup L) \ {i} : b[j] = pool.buffers[j]
  <2>1. i \in 1..Len(pool.buffers)
    BY <1>1, <1>2
  <2>2. /\ b \in Seq(Blocks) /\ Len(b) = Len(pool.buffers) /\ b[i] = Resized(pool.buffers[i], n)
        /\ \A j \in 1..Len(pool.buffers) : j # i => b[j] = pool.buffers[j]
    BY <1>1, <1>3, <1>5, <2>1
  <2> QED
    BY <1>1, <1>5, <2>2
<1>7. /\ q \in Pools
      /\ q.buffers = b /\ q.unused = u /\ q.buckets = pool.buckets /\ q.lru = pool.lru
      /\ q.slots = pool.slots /\ q.retained = pool.retained
  <2>1. u \in Seq(Nat)
    BY <1>2, <1>3 DEF Lists
  <2> QED
    BY <1>1, <1>4, <1>6, <2>1 DEF Pools
<1>8. \A j \in F \cup L : q.buffers[j] = pool.buffers[j]
  BY <1>1, <1>2, <1>6, <1>7
<1>9. PoolInv(q, U \ {i}, F, L \cup {i})
  <2>1. 1..Len(q.buffers) = (U \ {i}) \cup F \cup (L \cup {i})
    BY <1>1, <1>2, <1>6, <1>7
  <2>2. (U \ {i}) \cap F = {} /\ (L \cup {i}) \cap (U \ {i}) = {} /\ (L \cup {i}) \cap F = {}
    BY <1>1, <1>2
  <2>3. \A j \in U \ {i} : q.buffers[j] = NoBytes
    BY <1>6, <1>7 DEF PoolInv
  <2>4. ASSUME NEW c \in 0..MaxBytes
        PROVE  Lists(q.buckets[c], {j \in F : q.buffers[j].capacity = c})
    <3>1. {j \in F : q.buffers[j].capacity = c} = {j \in F : pool.buffers[j].capacity = c}
      BY <1>8
    <3> QED
      BY <3>1, <1>7 DEF PoolInv
  <2>5. q.retained = SumFunction([j \in F |-> q.buffers[j].capacity])
    <3>1. [j \in F |-> q.buffers[j].capacity] = [j \in F |-> pool.buffers[j].capacity]
      BY <1>8
    <3> QED
      BY <3>1, <1>7 DEF PoolInv
  <2>6. q.slots = Cardinality(F)
    BY <1>7 DEF PoolInv
  <2>7. Lists(q.unused, U \ {i}) /\ Lists(q.lru, F)
    BY <1>1, <1>2, <1>3, <1>7
  <2> QED
    BY <1>7, <2>1, <2>2, <2>3, <2>4, <2>5, <2>6, <2>7 DEF PoolInv
<1> QED
  BY <1>2, <1>6, <1>7, <1>8, <1>9, PoolFacts DEF HandedOut

\* A slot is added and handed out.
LEMMA NewInv ==
    ASSUME NEW U, NEW F, NEW L, PoolInv(pool, U, F, L), NEW n \in 0..MaxBytes,
           NEW i, i = Len(pool.buffers) + 1, NEW q,
           q = [pool EXCEPT !.buffers = Append(@, [size |-> n, capacity |-> n])]
    PROVE  i \notin L /\ HandedOut(q, i, n, U, F, L)
<1>1. /\ pool \in Pools
      /\ pool.buffers \in Seq(Blocks)
      /\ 1..Len(pool.buffers) = U \cup F \cup L
      /\ U \cap F = {} /\ L \cap U = {} /\ L \cap F = {}
      /\ Lists(pool.lru, F) /\ Lists(pool.unused, U)
  BY PoolFacts
<1>2. Len(pool.buffers) \in Nat
  BY <1>1
<1>3. i \notin U \cup F \cup L
  BY <1>1, <1>2
<1>4. PICK x, b : x = [size |-> n, capacity |-> n] /\ b = Append(pool.buffers, x)
  OBVIOUS
<1>5. x \in Blocks /\ x.size = n
  BY <1>4 DEF Blocks
<1>6. /\ b \in Seq(Blocks) /\ Len(b) = Len(pool.buffers) + 1 /\ b[i] = x
      /\ \A j \in 1..Len(pool.buffers) : b[j] = pool.buffers[j]
  BY <1>1, <1>2, <1>4, <1>5
<1>7. /\ q \in Pools
      /\ q.buffers = b /\ q.unused = pool.unused /\ q.buckets = pool.buckets
      /\ q.lru = pool.lru /\ q.slots = pool.slots /\ q.retained = pool.retained
  BY <1>1, <1>4, <1>6 DEF Pools
<1>8. \A j \in U \cup F \cup L : q.buffers[j] = pool.buffers[j]
  BY <1>1, <1>6, <1>7
<1>9. PoolInv(q, U, F, L \cup {i})
  <2>1. 1..Len(q.buffers) = U \cup F \cup (L \cup {i})
    <3>1. 1..Len(b) = 1..Len(pool.buffers) \cup {i}
      BY <1>2, <1>6
    <3> QED
      BY <1>1, <1>7, <3>1
  <2>2. U \cap F = {} /\ (L \cup {i}) \cap U = {} /\ (L \cup {i}) \cap F = {}
    BY <1>1, <1>3
  <2>3. \A j \in U : q.buffers[j] = NoBytes
    BY <1>8 DEF PoolInv
  <2>4. ASSUME NEW c \in 0..MaxBytes
        PROVE  Lists(q.buckets[c], {j \in F : q.buffers[j].capacity = c})
    <3>1. {j \in F : q.buffers[j].capacity = c} = {j \in F : pool.buffers[j].capacity = c}
      BY <1>8
    <3> QED
      BY <3>1, <1>7 DEF PoolInv
  <2>5. q.retained = SumFunction([j \in F |-> q.buffers[j].capacity])
    <3>0. \A j \in F : q.buffers[j].capacity = pool.buffers[j].capacity
      BY <1>8
    <3>1. [j \in F |-> q.buffers[j].capacity] = [j \in F |-> pool.buffers[j].capacity]
      BY <3>0
    <3> QED
      BY <3>1, <1>7 DEF PoolInv
  <2>6. q.slots = Cardinality(F)
    BY <1>7 DEF PoolInv
  <2>7. Lists(q.unused, U) /\ Lists(q.lru, F)
    BY <1>1, <1>7
  <2> QED
    BY <1>7, <2>1, <2>2, <2>3, <2>4, <2>5, <2>6, <2>7 DEF PoolInv
<1> QED
  BY <1>3, <1>5, <1>6, <1>7, <1>8, <1>9, PoolFacts DEF HandedOut

\* A live block of the simple allocator becomes unused.
LEMMA ReleaseInv ==
    ASSUME NEW U, NEW F, NEW L, PoolInv(pool, U, F, L), NEW i \in L, NEW q,
           q = [pool EXCEPT !.buffers[i] = NoBytes, !.unused = Append(@, i)]
    PROVE  Returned(q, i, U \cup {i}, F, L) /\ q.retained = pool.retained
<1>1. /\ pool \in Pools
      /\ pool.buffers \in Seq(Blocks)
      /\ 1..Len(pool.buffers) = U \cup F \cup L
      /\ U \cap F = {} /\ L \cap U = {} /\ L \cap F = {}
      /\ Lists(pool.lru, F) /\ Lists(pool.unused, U)
      /\ i \in Nat /\ NoBytes \in Blocks
  BY PoolFacts
<1>2. i \notin U /\ i \notin F
  BY <1>1
<1>3. PICK b, u : /\ b = [pool.buffers EXCEPT ![i] = NoBytes]
                  /\ u = Append(pool.unused, i)
  OBVIOUS
<1>4. q = [pool EXCEPT !.buffers = b, !.unused = u]
  BY <1>3
<1>5. Lists(u, U \cup {i})
  BY <1>1, <1>2, <1>3, ListsAppend
<1>6. /\ b \in Seq(Blocks) /\ Len(b) = Len(pool.buffers) /\ b[i] = NoBytes
      /\ \A j \in (U \cup F \cup L) \ {i} : b[j] = pool.buffers[j]
  <2>1. i \in 1..Len(pool.buffers)
    BY <1>1
  <2>2. /\ b \in Seq(Blocks) /\ Len(b) = Len(pool.buffers) /\ b[i] = NoBytes
        /\ \A j \in 1..Len(pool.buffers) : j # i => b[j] = pool.buffers[j]
    BY <1>1, <1>3, <2>1
  <2> QED
    BY <1>1, <2>2
<1>7. /\ q \in Pools
      /\ q.buffers = b /\ q.unused = u /\ q.buckets = pool.buckets /\ q.lru = pool.lru
      /\ q.slots = pool.slots /\ q.retained = pool.retained
  <2>1. u \in Seq(Nat)
    BY <1>5 DEF Lists
  <2> QED
    BY <1>1, <1>4, <1>6, <2>1 DEF Pools
<1>8. \A j \in F \cup (L \ {i}) : q.buffers[j] = pool.buffers[j]
  BY <1>1, <1>2, <1>6, <1>7
<1>9. PoolInv(q, U \cup {i}, F, L \ {i})
  <2>1. 1..Len(q.buffers) = (U \cup {i}) \cup F \cup (L \ {i})
    BY <1>1, <1>6, <1>7
  <2>2. (U \cup {i}) \cap F = {} /\ (L \ {i}) \cap (U \cup {i}) = {} /\ (L \ {i}) \cap F = {}
    BY <1>1, <1>2
  <2>3. \A j \in U \cup {i} : q.buffers[j] = NoBytes
    BY <1>6, <1>7 DEF PoolInv
  <2>4. ASSUME NEW c \in 0..MaxBytes
        PROVE  Lists(q.buckets[c], {j \in F : q.buffers[j].capacity = c})
    <3>1. {j \in F : q.buffers[j].capacity = c} = {j \in F : pool.buffers[j].capacity = c}
      BY <1>8
    <3> QED
      BY <3>1, <1>7 DEF PoolInv
  <2>5. q.retained = SumFunction([j \in F |-> q.buffers[j].capacity])
    <3>1. [j \in F |-> q.buffers[j].capacity] = [j \in F |-> pool.buffers[j].capacity]
      BY <1>8
    <3> QED
      BY <3>1, <1>7 DEF PoolInv
  <2>6. q.slots = Cardinality(F)
    BY <1>7 DEF PoolInv
  <2>7. Lists(q.unused, U \cup {i}) /\ Lists(q.lru, F)
    BY <1>1, <1>5, <1>7
  <2> QED
    BY <1>7, <2>1, <2>2, <2>3, <2>4, <2>5, <2>6, <2>7 DEF PoolInv
<1> QED
  BY <1>7, <1>8, <1>9 DEF Returned

-----------------------------------------------------------------------------
(***************************************************************************)
(* The loop of EnforceRetentionCap, and the walk over the buckets of Trim. *)
(***************************************************************************)

RoundBody(p, after, k) == IF k = 0 THEN p ELSE EvictFirst(after[k - 1])
AreRounds(p, after) == after = [k \in 0..Len(p.lru) |-> RoundBody(p, after, k)]

LEMMA RoundsExist ==
    ASSUME NEW p, Len(p.lru) \in Nat PROVE \E after : AreRounds(p, after)
<1> DEFINE N == Len(p.lru)
           Upto(n, a) == /\ a = [k \in 0..N |-> a[k]]
                         /\ \A k \in 0..N : k <= n => a[k] = RoundBody(p, a, k)
           B == {n \in Nat : ~ \E a : Upto(n, a)}
<1>1. 0 \notin B
  <2>1. PICK a : a = [k \in 0..N |-> p]
    OBVIOUS
  <2>2. Upto(0, a)
    BY <2>1 DEF RoundBody
  <2> QED
    BY <2>2
<1>2. ASSUME NEW n \in Nat, n \notin B PROVE n + 1 \notin B
  <2>1. PICK a : Upto(n, a)
    BY <1>2
  <2>2. PICK h : h = [k \in 0..N |-> IF k <= n THEN a[k] ELSE RoundBody(p, a, k)]
    OBVIOUS
  <2>3. h = [k \in 0..N |-> h[k]]
    BY <2>2
  <2>4. ASSUME NEW k \in 0..N, k <= n + 1 PROVE h[k] = RoundBody(p, h, k)
    <3>1. h[k] = RoundBody(p, a, k)
      BY <2>1, <2>2
    <3>2. CASE k = 0
      BY <3>1, <3>2 DEF RoundBody
    <3>3. CASE k # 0
      <4>1. k - 1 \in 0..N /\ k - 1 <= n
        BY <2>4, <3>3
      <4>2. h[k - 1] = a[k - 1]
        BY <2>2, <4>1
      <4> QED
        BY <3>1, <3>3, <4>2 DEF RoundBody
    <3> QED
      BY <3>2, <3>3
  <2>5. Upto(n + 1, h)
    BY <2>3, <2>4
  <2> QED
    BY <2>5
<1>3. B = {}
  <2> HIDE DEF Upto
  <2>1. B \subseteq Nat
    OBVIOUS
  <2> HIDE DEF B
  <2> QED
    BY <2>1, <1>1, <1>2, NoCounterexample
<1>4. PICK a : Upto(N, a)
  BY <1>3
<1>5. \A k \in 0..N : a[k] = RoundBody(p, a, k)
  BY <1>4
<1>6. a = [k \in 0..N |-> RoundBody(p, a, k)]
  BY <1>4, <1>5
<1> QED
  BY <1>6 DEF AreRounds

LEMMA EvictionsRounds ==
    ASSUME NEW p, Len(p.lru) \in Nat
    PROVE  /\ Evictions(p)[0] = p
           /\ \A k \in 1..Len(p.lru) : Evictions(p)[k] = EvictFirst(Evictions(p)[k - 1])
<1>1. PICK a : a = Evictions(p)
  OBVIOUS
<1>2. a = CHOOSE after : AreRounds(p, after)
  BY <1>1 DEF Evictions, AreRounds, RoundBody
<1>3. AreRounds(p, a)
  BY <1>2, RoundsExist
<1>4. \A k \in 0..Len(p.lru) : a[k] = RoundBody(p, a, k)
  BY <1>3 DEF AreRounds
<1> QED
  BY <1>1, <1>4 DEF RoundBody

\* The pool q is the pool p after some blocks were evicted.
Evicted(p, q, L) ==
    /\ \E U, F : PoolInv(q, U, F, L)
    /\ \A j \in L : q.buffers[j] = p.buffers[j]

LEMMA RoundsInv ==
    ASSUME NEW p, NEW U, NEW F, NEW L, PoolInv(p, U, F, L)
    PROVE  \A k \in 0..Len(p.lru) : /\ Evicted(p, Evictions(p)[k], L)
                                    /\ Len(Evictions(p)[k].lru) = Len(p.lru) - k
<1> DEFINE N == Len(p.lru)
           Good(k) == Evicted(p, Evictions(p)[k], L) /\ Len(Evictions(p)[k].lru) = N - k
           B == {k \in Nat : k <= N /\ ~Good(k)}
<1>0. N \in Nat /\ p.lru \in Seq(Nat)
  BY PoolFacts
<1>1. 0 \notin B
  <2>1. Evictions(p)[0] = p
    BY <1>0, EvictionsRounds
  <2>2. Evicted(p, p, L)
    BY DEF Evicted
  <2>3. N = N - 0
    BY <1>0
  <2> QED
    BY <2>1, <2>2, <2>3
<1>2. ASSUME NEW k \in Nat, k \notin B PROVE k + 1 \notin B
  <2> SUFFICES ASSUME k + 1 <= N PROVE Good(k + 1)
    OBVIOUS
  <2>1. k <= N /\ k + 1 \in 1..N /\ (k + 1) - 1 = k
    BY <1>0
  <2>2. Good(k)
    BY <1>2, <2>1
  <2>3. PICK q, r : q = Evictions(p)[k] /\ r = EvictFirst(q)
    OBVIOUS
  <2>4. Evictions(p)[k + 1] = r
    BY <1>0, <2>1, <2>3, EvictionsRounds
  <2>5. PICK V, G : PoolInv(q, V, G, L)
    BY <2>2, <2>3 DEF Evicted
  <2>6. Len(q.lru) = N - k /\ q.lru \in Seq(Nat)
    BY <2>2, <2>3, <2>5, PoolFacts
  <2>7. q.lru # <<>>
    BY <1>0, <2>1, <2>6
  <2>8. PICK i : /\ PoolInv(r, V \cup {i}, G \ {i}, L)
                 /\ Len(r.lru) = Len(q.lru) - 1
                 /\ \A j \in L : r.buffers[j] = q.buffers[j]
    <3>1. PICK i : i = Head(q.lru)
      OBVIOUS
    <3>2. r = EvictFirst(q)
      BY <2>3
    <3>3. EvictedOne(q, r, i, V, G, L)
      BY ONLY <3>1, <3>2, <2>5, <2>7, EvictInv
    <3> QED
      BY ONLY <3>3 DEF EvictedOne
  <2>9. \A j \in L : q.buffers[j] = p.buffers[j]
    BY <2>2, <2>3 DEF Evicted
  <2>10. Evicted(p, r, L)
    BY <2>8, <2>9 DEF Evicted
  <2>11. Len(r.lru) = N - (k + 1)
    BY <1>0, <2>1, <2>6, <2>8
  <2> QED
    BY <2>4, <2>10, <2>11
<1>3. B = {}
  <2> HIDE DEF Good
  <2>1. B \subseteq Nat
    OBVIOUS
  <2> HIDE DEF B
  <2> QED
    BY <2>1, <1>1, <1>2, NoCounterexample
<1>4. ASSUME NEW k \in 0..N PROVE Good(k)
  <2> HIDE DEF Good
  <2> QED
    BY <1>0, <1>3
<1> QED
  BY <1>4

LEMMA MinNat ==
    ASSUME NEW S, S \subseteq Nat, S # {} PROVE Min(S) \in S /\ \A k \in S : Min(S) <= k
BY LeastNat DEF Min

\* EnforceRetentionCap leaves the live blocks alone and retains no more than the cap.
LEMMA EnforceInv ==
    ASSUME NEW p, NEW U, NEW F, NEW L, PoolInv(p, U, F, L), NEW limit \in Nat
    PROVE  Evicted(p, Enforce(p, limit), L) /\ Enforce(p, limit).retained <= limit
<1>1. PICK after : after = Evictions(p)
  OBVIOUS
<1>2. PICK S : S = {k \in 0..Len(p.lru) : after[k].retained <= limit \/ k = Len(p.lru)}
  OBVIOUS
<1>3. Len(p.lru) \in Nat
  BY PoolFacts
<1>4. S \subseteq Nat /\ Len(p.lru) \in S
  BY <1>2, <1>3
<1>5. PICK m : m = Min(S)
  OBVIOUS
<1>6. m \in S
  BY <1>4, <1>5, MinNat
<1>7. Enforce(p, limit) = after[m]
  BY <1>1, <1>2, <1>5 DEF Enforce
<1>8. PICK q : q = after[m]
  OBVIOUS
<1>9. Evicted(p, q, L) /\ Len(q.lru) = Len(p.lru) - m
  BY <1>1, <1>2, <1>6, <1>8, RoundsInv
<1>10. q.retained <= limit
  <2>1. CASE m = Len(p.lru)
    <3>1. PICK V, G : PoolInv(q, V, G, L)
      BY <1>9 DEF Evicted
    <3>2. Lists(q.lru, G) /\ q.lru \in Seq(Nat)
      BY <3>1, PoolFacts
    <3>3. Len(q.lru) = 0
      BY <1>3, <1>9, <2>1
    <3>4. G = {}
      BY <3>2, <3>3, ListsFacts
    <3>5. q.retained = SumFunction([i \in G |-> q.buffers[i].capacity])
      BY <3>1 DEF PoolInv
    <3>6. [i \in G |-> q.buffers[i].capacity] \in [{} -> Nat]
      BY <3>4
    <3>7. q.retained = 0
      BY <3>5, <3>6, SumEmpty
    <3> QED
      BY <3>7
  <2>2. CASE m # Len(p.lru)
    BY <1>2, <1>6, <1>8, <2>2
  <2> QED
    BY <2>1, <2>2
<1> QED
  BY <1>7, <1>8, <1>9, <1>10

\* The concatenation of the first k sequences of s.
JoinBody(s, f, k) == IF k = 1 THEN s[k] ELSE f[k - 1] \o s[k]
AreJoins(s, f) == f = [k \in 1..Len(s) |-> JoinBody(s, f, k)]

LEMMA JoinsExist ==
    ASSUME NEW s, Len(s) \in Nat PROVE \E f : AreJoins(s, f)
<1> DEFINE N == Len(s)
           Upto(n, a) == /\ a = [k \in 1..N |-> a[k]]
                         /\ \A k \in 1..N : k <= n => a[k] = JoinBody(s, a, k)
           B == {n \in Nat : ~ \E a : Upto(n, a)}
<1>1. 0 \notin B
  <2>1. PICK a : a = [k \in 1..N |-> <<>>]
    OBVIOUS
  <2>2. Upto(0, a)
    BY <2>1
  <2> QED
    BY <2>2
<1>2. ASSUME NEW n \in Nat, n \notin B PROVE n + 1 \notin B
  <2>1. PICK a : Upto(n, a)
    BY <1>2
  <2>2. PICK h : h = [k \in 1..N |-> IF k <= n THEN a[k] ELSE JoinBody(s, a, k)]
    OBVIOUS
  <2>3. h = [k \in 1..N |-> h[k]]
    BY <2>2
  <2>4. ASSUME NEW k \in 1..N, k <= n + 1 PROVE h[k] = JoinBody(s, h, k)
    <3>1. h[k] = JoinBody(s, a, k)
      BY <2>1, <2>2
    <3>2. CASE k = 1
      BY <3>1, <3>2 DEF JoinBody
    <3>3. CASE k # 1
      <4>1. k - 1 \in 1..N /\ k - 1 <= n
        BY <2>4, <3>3
      <4>2. h[k - 1] = a[k - 1]
        BY <2>2, <4>1
      <4> QED
        BY <3>1, <3>3, <4>2 DEF JoinBody
    <3> QED
      BY <3>2, <3>3
  <2>5. Upto(n + 1, h)
    BY <2>3, <2>4
  <2> QED
    BY <2>5
<1>3. B = {}
  <2> HIDE DEF Upto
  <2>1. B \subseteq Nat
    OBVIOUS
  <2> HIDE DEF B
  <2> QED
    BY <2>1, <1>1, <1>2, NoCounterexample
<1>4. PICK a : Upto(N, a)
  BY <1>3
<1>5. \A k \in 1..N : a[k] = JoinBody(s, a, k)
  BY <1>4
<1>6. a = [k \in 1..N |-> JoinBody(s, a, k)]
  BY <1>4, <1>5
<1> QED
  BY <1>6 DEF AreJoins

\* The lists of disjoint sets, one after another, are a list of their union.
LEMMA FlattenLists ==
    ASSUME NEW s, Len(s) \in Nat, Len(s) >= 1, NEW S, NEW rank,
           \A x \in S : rank[x] \in 1..Len(s),
           \A k \in 1..Len(s) : Lists(s[k], {x \in S : rank[x] = k})
    PROVE  Lists(FlattenSeq(s), S)
<1> DEFINE N == Len(s)
<1>1. PICK f : f = CHOOSE g : AreJoins(s, g)
  OBVIOUS
<1>2. AreJoins(s, f)
  BY <1>1, JoinsExist
<1>3. FlattenSeq(s) = f[N]
  <2>1. N # 0
    OBVIOUS
  <2> QED
    BY <1>1, <2>1 DEF FlattenSeq, AreJoins, JoinBody
<1>4. \A k \in 1..N : f[k] = JoinBody(s, f, k)
  BY <1>2 DEF AreJoins
<1> DEFINE Good(k) == Lists(f[k], {x \in S : rank[x] <= k})
           B == {k \in Nat : k \in 1..N /\ ~Good(k)}
<1>5. 0 \notin B
  OBVIOUS
<1>6. ASSUME NEW k \in Nat, k \notin B PROVE k + 1 \notin B
  <2> SUFFICES ASSUME k + 1 \in 1..N PROVE Good(k + 1)
    OBVIOUS
  <2>1. Lists(s[k + 1], {x \in S : rank[x] = k + 1})
    OBVIOUS
  <2>2. CASE k = 0
    <3>1. {x \in S : rank[x] = 0 + 1} = {x \in S : rank[x] <= 0 + 1}
      OBVIOUS
    <3>2. f[k + 1] = s[k + 1]
      BY <1>4, <2>2 DEF JoinBody
    <3> QED
      BY <2>1, <2>2, <3>1, <3>2
  <2>3. CASE k # 0
    <3>1. k \in 1..N /\ (k + 1) - 1 = k
      BY <2>3
    <3>2. Lists(f[k], {x \in S : rank[x] <= k})
      BY <1>6, <3>1
    <3>3. f[k + 1] = f[k] \o s[k + 1]
      <4>1. f[k + 1] = JoinBody(s, f, k + 1) /\ k + 1 # 1
        BY <1>4, <2>3
      <4> QED
        BY <3>1, <4>1 DEF JoinBody
    <3>4. {x \in S : rank[x] <= k} \cap {x \in S : rank[x] = k + 1} = {}
      BY <3>1
    <3>5. {x \in S : rank[x] <= k} \cup {x \in S : rank[x] = k + 1} = {x \in S : rank[x] <= k + 1}
      BY <3>1
    <3>6. Lists(f[k] \o s[k + 1], {x \in S : rank[x] <= k} \cup {x \in S : rank[x] = k + 1})
      BY ONLY <2>1, <3>2, <3>4, ListsConcat
    <3> QED
      BY <3>3, <3>5, <3>6
  <2> QED
    BY <2>2, <2>3
<1>7. B = {}
  <2> HIDE DEF Good
  <2>1. B \subseteq Nat
    OBVIOUS
  <2> HIDE DEF B
  <2> QED
    BY <2>1, <1>5, <1>6, NoCounterexample
<1>8. Good(N)
  <2> HIDE DEF Good
  <2> QED
    BY <1>7
<1>9. {x \in S : rank[x] <= N} = S
  OBVIOUS
<1> QED
  BY <1>3, <1>8, <1>9

\* Trim empties the retained blocks.
LEMMA TrimInv ==
    ASSUME NEW U, NEW F, NEW L, PoolInv(pool, U, F, L), Trim
    PROVE  /\ \E V, G : PoolInv(pool', V, G, L)
           /\ pool'.retained = 0
           /\ \A j \in L : pool'.buffers[j] = pool.buffers[j]
<1>1. /\ pool \in Pools
      /\ pool.buffers \in Seq(Blocks)
      /\ pool.buckets \in [0..MaxBytes -> Seq(Nat)]
      /\ 1..Len(pool.buffers) = U \cup F \cup L
      /\ U \cap F = {} /\ L \cap U = {} /\ L \cap F = {}
      /\ Lists(pool.lru, F) /\ Lists(pool.unused, U)
      /\ NoBytes \in Blocks
      /\ \A i \in U \cup F \cup L : /\ pool.buffers[i] \in Blocks
                                    /\ pool.buffers[i].capacity \in 0..MaxBytes
  BY PoolFacts
<1>2. PICK s : s = [c \in 1..MaxBytes + 1 |-> pool.buckets[c - 1]]
  OBVIOUS
<1>3. PICK free : free = FlattenSeq(s)
  OBVIOUS
<1>4. Lists(free, F)
  <2>1. Len(s) = MaxBytes + 1 /\ Len(s) \in Nat /\ Len(s) >= 1
    <3>1. s \in [1..MaxBytes + 1 -> Seq(Nat)]
      BY <1>1, <1>2, ArenaAssumption
    <3>2. s \in Seq(Seq(Nat)) /\ DOMAIN s = 1..MaxBytes + 1
      BY <3>1, ArenaAssumption, IsASeq
    <3> QED
      BY <3>2, ArenaAssumption, LenProperties
  <2>2. PICK rank : rank = [i \in F |-> pool.buffers[i].capacity + 1]
    OBVIOUS
  <2>3. \A i \in F : rank[i] \in 1..Len(s)
    BY <1>1, <2>1, <2>2, ArenaAssumption
  <2>4. ASSUME NEW k \in 1..Len(s) PROVE Lists(s[k], {x \in F : rank[x] = k})
    <3>1. k - 1 \in 0..MaxBytes /\ s[k] = pool.buckets[k - 1]
      BY <1>2, <2>1, ArenaAssumption
    <3>2. Lists(pool.buckets[k - 1], {i \in F : pool.buffers[i].capacity = k - 1})
      BY <3>1 DEF PoolInv
    <3>3. ASSUME NEW i \in F PROVE rank[i] = k <=> pool.buffers[i].capacity = k - 1
      <4>1. pool.buffers[i].capacity \in Nat /\ k \in Nat
        BY <1>1, <2>1, ArenaAssumption
      <4>2. rank[i] = pool.buffers[i].capacity + 1
        BY <2>2
      <4> QED
        BY <4>1, <4>2
    <3>4. {x \in F : rank[x] = k} = {i \in F : pool.buffers[i].capacity = k - 1}
      BY <3>3
    <3> QED
      BY <3>1, <3>2, <3>4
  <2> QED
    BY ONLY <1>3, <2>1, <2>3, <2>4, FlattenLists
<1>5. Range(free) = F
  BY <1>4 DEF Lists
<1>6. PICK b, t, u :
          /\ b = [i \in DOMAIN pool.buffers |-> IF i \in Range(free) THEN NoBytes ELSE pool.buffers[i]]
          /\ t = [c \in DOMAIN pool.buckets |-> <<>>]
          /\ u = pool.unused \o free
  OBVIOUS
<1>7. pool' = [pool EXCEPT !.buffers = b, !.unused = u, !.buckets = t, !.lru = <<>>,
                           !.retained = 0, !.slots = 0]
  BY <1>2, <1>3, <1>6 DEF Trim
<1>8. /\ b \in Seq(Blocks) /\ Len(b) = Len(pool.buffers)
      /\ \A i \in F : b[i] = NoBytes
      /\ \A i \in U \cup L : b[i] = pool.buffers[i]
  <2>1. DOMAIN pool.buffers = 1..Len(pool.buffers) /\ Len(pool.buffers) \in Nat
    BY <1>1
  <2>2. \A i \in 1..Len(pool.buffers) : b[i] = IF i \in F THEN NoBytes ELSE pool.buffers[i]
    BY <1>5, <1>6, <2>1
  <2>3. b \in [1..Len(pool.buffers) -> Blocks]
    BY <1>1, <1>5, <1>6, <2>1
  <2>4. b \in Seq(Blocks) /\ Len(b) = Len(pool.buffers)
    BY <2>1, <2>3, IsASeq, LenProperties
  <2> QED
    BY <1>1, <2>2, <2>4
<1>9. t \in [0..MaxBytes -> Seq(Nat)] /\ \A c \in 0..MaxBytes : t[c] = <<>>
  <2>1. <<>> \in Seq(Nat) /\ DOMAIN pool.buckets = 0..MaxBytes
    BY <1>1
  <2>2. t = [c \in 0..MaxBytes |-> <<>>]
    BY <1>6, <2>1
  <2> QED
    BY <2>1, <2>2
<1>10. Lists(u, U \cup F)
  BY <1>1, <1>4, <1>6, ListsConcat
<1>11. PICK q : q = pool'
  OBVIOUS
<1>12. /\ q \in Pools
       /\ q.buffers = b /\ q.buckets = t /\ q.lru = <<>> /\ q.slots = 0
       /\ q.retained = 0 /\ q.unused = u
  <2>1. u \in Seq(Nat) /\ <<>> \in Seq(Nat)
    BY <1>10 DEF Lists
  <2> QED
    BY <1>1, <1>7, <1>8, <1>9, <1>11, <2>1 DEF Pools
<1>13. PoolInv(q, U \cup F, {}, L)
  <2>1. 1..Len(q.buffers) = (U \cup F) \cup {} \cup L
    BY <1>1, <1>8, <1>12
  <2>2. (U \cup F) \cap {} = {} /\ L \cap (U \cup F) = {} /\ L \cap {} = {}
    BY <1>1
  <2>3. \A j \in U \cup F : q.buffers[j] = NoBytes
    BY <1>8, <1>12 DEF PoolInv
  <2>4. ASSUME NEW c \in 0..MaxBytes
        PROVE  Lists(q.buckets[c], {j \in {} : q.buffers[j].capacity = c})
    <3>1. {j \in {} : q.buffers[j].capacity = c} = {}
      OBVIOUS
    <3> QED
      BY <1>9, <1>12, <3>1, ListsEmpty
  <2>5. q.retained = SumFunction([j \in {} |-> q.buffers[j].capacity])
    <3>1. [j \in {} |-> q.buffers[j].capacity] \in [{} -> Nat]
      OBVIOUS
    <3> QED
      BY <1>12, <3>1, SumEmpty
  <2>6. q.slots = Cardinality({})
    BY <1>12, FS_EmptySet
  <2>7. Lists(q.unused, U \cup F) /\ Lists(q.lru, {})
    BY <1>10, <1>12, ListsEmpty
  <2> QED
    BY <1>12, <2>1, <2>2, <2>3, <2>4, <2>5, <2>6, <2>7 DEF PoolInv
<1> QED
  BY <1>8, <1>11, <1>12, <1>13

-----------------------------------------------------------------------------
(***************************************************************************)
(* The inductive invariant: the pool is well formed around the live slots, *)
(* it retains no more than the cap, and the counters and the handles       *)
(* account for the live slots.                                             *)
(***************************************************************************)

Handles == [slot : Nat, size : 0..MaxBytes, lease : BOOLEAN]

PoolOK == PoolInv(pool, Range(pool.unused), FreeSlots, live)
CapOK == cap \in Nat /\ pool.retained <= cap
CountOK ==
    /\ leased \subseteq live
    /\ count \in [total : Nat, peak : Nat, allocated : Nat, leased : Nat]
    /\ count.total = SumFunction([i \in live |-> pool.buffers[i].size])
    /\ count.peak >= count.total
    /\ count.allocated = Cardinality(live \ leased)
    /\ count.leased = Cardinality(leased)
HandlesOK == handles \subseteq Handles /\ HandlesExclusive

IInv == PoolOK /\ CapOK /\ CountOK /\ HandlesOK

\* The sets of a well-formed pool are the ones its lists name.
LEMMA PoolSets ==
    ASSUME NEW p, NEW U, NEW F, NEW L, PoolInv(p, U, F, L)
    PROVE  PoolInv(p, Range(p.unused), Range(p.lru), L)
<1>1. Range(p.unused) = U /\ Range(p.lru) = F
  BY DEF PoolInv, Lists
<1> QED
  BY <1>1

LEMMA CountFacts ==
    ASSUME NEW x \in [total : Nat, peak : Nat, allocated : Nat, leased : Nat]
    PROVE  x.total \in Nat /\ x.peak \in Nat /\ x.allocated \in Nat /\ x.leased \in Nat
OBVIOUS

\* The bytes of the live blocks, when slot i joins them.
BytesAdded(L, i, b, d) ==
    SumFunction([j \in L \cup {i} |-> d[j].size])
      = d[i].size + SumFunction([j \in L |-> b[j].size])

LEMMA LiveBytes ==
    ASSUME NEW L, IsFiniteSet(L), NEW i, i \notin L, NEW b, NEW d,
           \A j \in L : d[j] = b[j] /\ b[j].size \in Nat, d[i].size \in Nat
    PROVE  BytesAdded(L, i, b, d)
<1>1. PICK f, h : /\ f = [j \in L \cup {i} |-> d[j].size]
                  /\ h = [j \in L |-> b[j].size]
  OBVIOUS
<1>2. h \in [L -> Nat]
  BY <1>1
<1>3. \A j \in L : f[j] = h[j]
  BY <1>1
<1>4. f[i] = d[i].size
  BY <1>1
<1>5. f \in [L \cup {i} -> Nat]
  BY <1>1, <1>2, <1>3, <1>4
<1>6. (L \cup {i}) \ {i} = L /\ IsFiniteSet(L \cup {i}) /\ i \in L \cup {i}
  BY FS_AddElement
<1>7. SumFunction(f) = f[i] + SumFunction(h)
  <2>1. h \in [(L \cup {i}) \ {i} -> Nat] /\ \A j \in (L \cup {i}) \ {i} : f[j] = h[j]
    BY <1>2, <1>3, <1>6
  <2> QED
    BY ONLY SMTT(30), <1>5, <1>6, <2>1, SumRemove
<1> QED
  BY <1>1, <1>4, <1>7 DEF BytesAdded

\* The end of Allocate, whichever slot it found.
LEMMA HandOutInv ==
    ASSUME IInv, owned, NEW n \in 0..MaxBytes, NEW i \in Nat, i \notin live, HandOut(i, n),
           \E U, F : PoolInv(pool', U, F, live \cup {i}),
           pool'.retained <= pool.retained,
           pool'.buffers[i].size = n,
           \A j \in live : pool'.buffers[j] = pool.buffers[j]
    PROVE  IInv'
<1>1. /\ live' = live \cup {i} /\ cap' = cap /\ leased' = leased /\ owned' = owned
      /\ handles' = handles \cup {[slot |-> i, size |-> n, lease |-> FALSE]}
      /\ count' = [count EXCEPT !.total = count.total + n, !.allocated = count.allocated + 1,
                                !.peak = Max({count.peak, count.total + n})]
  BY DEF HandOut
<1>2. /\ pool.buffers \in Seq(Blocks) /\ pool.retained \in Nat /\ IsFiniteSet(live)
      /\ \A j \in live : pool.buffers[j].size \in Nat
  BY PoolFacts, ArenaAssumption DEF IInv, PoolOK
<1>3. PoolOK'
  BY <1>1, PoolSets DEF PoolOK, FreeSlots
<1>4. pool'.retained \in Nat
  BY <1>3, PoolFacts DEF PoolOK
<1>5. CapOK'
  BY <1>1, <1>2, <1>4 DEF IInv, CapOK
<1>6. n \in Nat
  BY ArenaAssumption
<1>7. CountOK'
  <2>1. /\ leased \subseteq live
        /\ count.total \in Nat /\ count.peak \in Nat /\ count.allocated \in Nat
        /\ count \in [total : Nat, peak : Nat, allocated : Nat, leased : Nat]
    BY CountFacts DEF IInv, CountOK
  <2>2. PICK m : m = Max({count.peak, count.total + n})
    OBVIOUS
  <2>3. m \in Nat /\ m >= count.total + n
    BY <1>6, <2>1, <2>2 DEF Max
  <2>4. /\ count' \in [total : Nat, peak : Nat, allocated : Nat, leased : Nat]
        /\ count'.total = count.total + n /\ count'.peak = m
        /\ count'.allocated = count.allocated + 1 /\ count'.leased = count.leased
    <3>1. PICK x, y, z : x = count.total + n /\ y = count.allocated + 1 /\ z = count
      OBVIOUS
    <3>2. x \in Nat /\ y \in Nat /\ z \in [total : Nat, peak : Nat, allocated : Nat, leased : Nat]
      BY <1>6, <2>1, <3>1
    <3>3. count' = [z EXCEPT !.total = x, !.allocated = y, !.peak = m]
      BY <1>1, <2>2, <3>1
    <3>4. /\ count' \in [total : Nat, peak : Nat, allocated : Nat, leased : Nat]
          /\ count'.total = x /\ count'.peak = m /\ count'.allocated = y
          /\ count'.leased = z.leased
      BY ONLY <2>3, <3>2, <3>3
    <3> QED
      BY <3>1, <3>4
  <2>5. count'.total = SumFunction([j \in live' |-> pool'.buffers[j].size])
    <3>1. PICK b, d : b = pool.buffers /\ d = pool'.buffers
      OBVIOUS
    <3>2. count.total = SumFunction([j \in live |-> b[j].size])
      BY <3>1 DEF IInv, CountOK
    <3>3. (\A j \in live : d[j] = b[j] /\ b[j].size \in Nat) /\ d[i].size \in Nat /\ d[i].size = n
      BY <1>2, <1>6, <3>1
    <3>4. SumFunction([j \in live \cup {i} |-> d[j].size])
            = d[i].size + SumFunction([j \in live |-> b[j].size])
      <4>1. (\A j \in live : d[j] = b[j] /\ b[j].size \in Nat) /\ d[i].size \in Nat
        BY <3>3
      <4>2. IsFiniteSet(live) /\ i \notin live
        BY <1>2
      <4>3. BytesAdded(live, i, b, d)
        BY ONLY <4>1, <4>2, LiveBytes
      <4> QED
        BY <4>3 DEF BytesAdded
    <3>5. count.total + n = SumFunction([j \in live \cup {i} |-> d[j].size])
      BY <1>6, <2>1, <3>2, <3>3, <3>4
    <3> QED
      BY <1>1, <2>4, <3>1, <3>5
  <2>6. count'.allocated = Cardinality(live' \ leased')
    <3>1. live' \ leased' = (live \ leased) \cup {i} /\ i \notin live \ leased
      BY <1>1, <2>1
    <3>2. IsFiniteSet(live \ leased)
      BY <1>2, FS_Subset
    <3>3. Cardinality((live \ leased) \cup {i}) = Cardinality(live \ leased) + 1
      BY <3>1, <3>2, FS_AddElement
    <3> QED
      BY <2>4, <3>1, <3>3 DEF IInv, CountOK
  <2> QED
    BY <1>1, <2>1, <2>3, <2>4, <2>5, <2>6 DEF IInv, CountOK
<1>8. HandlesOK'
  <2>1. handles \subseteq Handles /\ HandlesExclusive
    BY DEF IInv, HandlesOK
  <2>2. PICK g : g = [slot |-> i, size |-> n, lease |-> FALSE]
    OBVIOUS
  <2>3. g \in Handles /\ g.slot = i /\ g.size = n /\ g.lease = FALSE /\ handles' = handles \cup {g}
    BY <1>1, <2>2 DEF Handles
  <2>4. \A h \in handles : h.slot \in live
    BY <2>1 DEF HandlesExclusive
  <2>5. \A e, h \in handles' : e.slot = h.slot => e = h
    BY <2>1, <2>3, <2>4 DEF HandlesExclusive
  <2>6. {h.slot : h \in handles'} = live'
    BY <1>1, <2>1, <2>3 DEF HandlesExclusive
  <2>7. i \notin leased
    BY DEF IInv, CountOK
  <2>8. ASSUME NEW h \in handles'
        PROVE  /\ pool'.buffers[h.slot].size = h.size
               /\ h.lease <=> h.slot \in leased'
               /\ owned' \/ h.lease
    <3>1. CASE h = g
      BY <1>1, <2>3, <2>7, <3>1
    <3>2. CASE h \in handles
      BY <1>1, <2>1, <2>4, <3>2 DEF HandlesExclusive
    <3> QED
      BY <2>3, <3>1, <3>2
  <2>9. HandlesExclusive'
    BY <2>5, <2>6, <2>8 DEF HandlesExclusive
  <2> QED
    BY <2>1, <2>3, <2>9 DEF HandlesOK
<1> QED
  BY <1>3, <1>5, <1>7, <1>8 DEF IInv

LEMMA MaxBounded ==
    ASSUME NEW N \in Nat, NEW S, S \subseteq 0..N, S # {} PROVE Max(S) \in S
<1>1. PICK T : T = {N - x : x \in S}
  OBVIOUS
<1>2. T \subseteq Nat /\ T # {}
  <2>1. \A x \in S : N - x \in Nat
    OBVIOUS
  <2> QED
    BY <1>1, <2>1
<1>3. PICK m \in T : \A k \in T : m <= k
  BY <1>2, LeastNat
<1>4. PICK x \in S : m = N - x
  BY <1>1, <1>3
<1>5. \A y \in S : N - x <= N - y
  BY <1>1, <1>3, <1>4
<1>6. \A y \in S : x >= y
  <2> SUFFICES ASSUME NEW y \in S PROVE x >= y
    OBVIOUS
  <2>1. N - x <= N - y /\ x \in Nat /\ y \in Nat
    BY <1>5
  <2> QED
    BY <2>1
<1> QED
  BY <1>6 DEF Max

\* Allocate from a bucket.
LEMMA AllocateFreeInv ==
    ASSUME IInv, owned, NEW n \in 0..MaxBytes, NEW c \in FreeCapacities,
           pool' = TakeFree(c, n), HandOut(Last(pool.buckets[c]), n)
    PROVE  IInv'
<1>1. PICK U, F : PoolInv(pool, U, F, live)
  BY DEF IInv, PoolOK
<1>2. PICK i, q : i = Last(pool.buckets[c]) /\ q = pool'
  OBVIOUS
<1>3. c \in 0..MaxBytes /\ pool.buckets[c] # <<>>
  BY DEF FreeCapacities
<1>4. q = TakeFree(c, n)
  BY <1>2
<1>5. i \in F /\ HandedOut(q, i, n, U, F \ {i}, live)
  BY <1>1, <1>2, <1>3, <1>4, TakeFreeInv
<1>6. i \in Nat /\ i \notin live
  BY <1>1, <1>5, PoolFacts
<1> QED
  BY <1>2, <1>5, <1>6, HandOutInv DEF HandedOut

LEMMA AllocateInv == ASSUME IInv, NEW n \in 0..MaxBytes, Allocate(n) PROVE IInv'
<1>0. MaxBytes \in Nat
  BY ArenaAssumption
<1>1. CASE AllocateFitting(n)
  <2>1. PICK c : c = Min(Fitting(n))
    OBVIOUS
  <2>2. Fitting(n) \subseteq Nat /\ Fitting(n) # {}
    BY <1>0, <1>1 DEF AllocateFitting, Fitting, FreeCapacities
  <2>3. c \in FreeCapacities
    BY <2>1, <2>2, MinNat DEF Fitting
  <2>4. owned /\ pool' = TakeFree(c, n) /\ HandOut(Last(pool.buckets[c]), n)
    BY <1>1, <2>1 DEF AllocateFitting
  <2> QED
    BY <2>3, <2>4, AllocateFreeInv
<1>2. CASE AllocateLargest(n)
  <2>1. PICK c : c = Max(FreeCapacities)
    OBVIOUS
  <2>2. FreeCapacities \subseteq 0..MaxBytes /\ FreeCapacities # {}
    BY <1>2 DEF AllocateLargest, FreeCapacities
  <2>3. c \in FreeCapacities
    BY <1>0, <2>1, <2>2, MaxBounded
  <2>4. owned /\ pool' = TakeFree(c, n) /\ HandOut(Last(pool.buckets[c]), n)
    BY <1>2, <2>1 DEF AllocateLargest
  <2> QED
    BY <2>3, <2>4, AllocateFreeInv
<1>3. PICK U, F : PoolInv(pool, U, F, live)
  BY DEF IInv, PoolOK
<1>4. CASE AllocateUnused(n)
  <2>1. PICK i, q : i = Last(pool.unused) /\ q = pool'
    OBVIOUS
  <2>2. /\ owned /\ pool.unused # <<>> /\ HandOut(i, n)
        /\ q = [pool EXCEPT !.unused = Front(@), !.buffers[Last(pool.unused)] = Resized(@, n)]
    BY <1>4, <2>1 DEF AllocateUnused
  <2>3. i \in U /\ HandedOut(q, i, n, U \ {i}, F, live)
    BY <1>3, <2>1, <2>2, UnusedInv
  <2>4. i \in Nat /\ i \notin live
    BY <1>3, <2>3, PoolFacts
  <2>5. /\ \E V, G : PoolInv(pool', V, G, live \cup {i})
        /\ pool'.retained <= pool.retained
        /\ pool'.buffers[i].size = n
        /\ \A j \in live : pool'.buffers[j] = pool.buffers[j]
    BY ONLY <2>1, <2>3 DEF HandedOut
  <2>6. owned /\ HandOut(i, n)
    BY <2>2
  <2> QED
    BY <2>4, <2>5, <2>6, HandOutInv
<1>5. CASE AllocateNew(n)
  <2>1. PICK i, q : i = Len(pool.buffers) + 1 /\ q = pool'
    OBVIOUS
  <2>2. /\ owned /\ HandOut(i, n)
        /\ q = [pool EXCEPT !.buffers = Append(@, [size |-> n, capacity |-> n])]
    BY <1>5, <2>1 DEF AllocateNew
  <2>3. i \notin live /\ HandedOut(q, i, n, U, F, live)
    BY <1>3, <2>1, <2>2, NewInv
  <2>4. i \in Nat /\ i \notin live
    <3>1. pool.buffers \in Seq(Blocks)
      BY <1>3, PoolFacts
    <3> QED
      BY <2>1, <2>3, <3>1
  <2>5. /\ \E V, G : PoolInv(pool', V, G, live \cup {i})
        /\ pool'.retained <= pool.retained
        /\ pool'.buffers[i].size = n
        /\ \A j \in live : pool'.buffers[j] = pool.buffers[j]
    BY ONLY <2>1, <2>3 DEF HandedOut
  <2>6. owned /\ HandOut(i, n)
    BY <2>2
  <2> QED
    BY <2>4, <2>5, <2>6, HandOutInv
<1> QED
  BY <1>1, <1>2, <1>4, <1>5 DEF Allocate

\* A live block goes back to the pool.
LEMMA RetireInv ==
    ASSUME IInv, NEW i \in live, NEW q, q = Retire(i)
    PROVE  /\ \E U, F : PoolInv(q, U, F, live \ {i})
           /\ q.retained <= cap
           /\ \A j \in live \ {i} : q.buffers[j] = pool.buffers[j]
<1>1. PICK U, F : PoolInv(pool, U, F, live)
  BY DEF IInv, PoolOK
<1>2. cap \in Nat /\ pool.retained <= cap
  BY DEF IInv, CapOK
<1>3. CASE kind = "simple"
  <2>1. q = [pool EXCEPT !.buffers[i] = NoBytes, !.unused = Append(@, i)]
    BY <1>3 DEF Retire
  <2>2. Returned(q, i, U \cup {i}, F, live) /\ q.retained = pool.retained
    <3>1. i \in live
      OBVIOUS
    <3> QED
      BY ONLY <1>1, <2>1, <3>1, ReleaseInv
  <2> QED
    BY <1>2, <2>2 DEF Returned
<1>4. CASE kind # "simple"
  <2>1. PICK r : r = Retain(i)
    OBVIOUS
  <2>2. q = Enforce(r, cap)
    BY <1>4, <2>1 DEF Retire, Retain
  <2>3. Returned(r, i, U, F \cup {i}, live)
    BY <1>1, <2>1, RetainInv
  <2>4. Evicted(r, q, live \ {i}) /\ q.retained <= cap
    BY <1>2, <2>2, <2>3, EnforceInv DEF Returned
  <2> QED
    BY <2>3, <2>4 DEF Evicted, Returned
<1> QED
  BY <1>3, <1>4

\* What a handle leaves behind: Free and ReturnLease.
LEMMA ReturnInv ==
    ASSUME IInv, NEW h \in handles, NEW i, i = h.slot, pool' = Retire(i),
           live' = live \ {i}, leased' = leased \ {i}, handles' = handles \ {h},
           cap' = cap, owned' = owned
    PROVE  /\ PoolOK' /\ CapOK' /\ HandlesOK'
           /\ i \in live /\ leased' \subseteq live' /\ IsFiniteSet(live) /\ leased \subseteq live
           /\ count.total - pool.buffers[i].size
                = SumFunction([j \in live' |-> pool'.buffers[j].size])
           /\ count.total - pool.buffers[i].size \in Nat
           /\ pool.buffers[i].size \in Nat
<1>1. handles \subseteq Handles /\ HandlesExclusive
  BY DEF IInv, HandlesOK
<1>2. i \in live
  BY <1>1 DEF HandlesExclusive
<1>3. PICK q : q = pool'
  OBVIOUS
<1>4. /\ \E U, F : PoolInv(q, U, F, live \ {i})
      /\ q.retained <= cap
      /\ \A j \in live \ {i} : q.buffers[j] = pool.buffers[j]
  BY <1>2, <1>3, RetireInv
<1>5. PoolOK'
  BY <1>3, <1>4, PoolSets DEF PoolOK, FreeSlots
<1>6. CapOK'
  BY <1>3, <1>4 DEF IInv, CapOK
<1>7. HandlesOK'
  <2>1. \A e, g \in handles' : e.slot = g.slot => e = g
    BY <1>1 DEF HandlesExclusive
  <2>2. \A e \in handles' : e.slot # i
    BY <1>1 DEF HandlesExclusive
  <2>3. {e.slot : e \in handles'} = live'
    BY <1>1, <2>2 DEF HandlesExclusive
  <2>4. ASSUME NEW e \in handles'
        PROVE  /\ pool'.buffers[e.slot].size = e.size
               /\ e.lease <=> e.slot \in leased'
               /\ owned' \/ e.lease
    <3>1. e \in handles /\ e.slot \in live \ {i}
      BY <1>1, <2>2 DEF HandlesExclusive
    <3>2. pool'.buffers[e.slot] = pool.buffers[e.slot]
      BY <1>3, <1>4, <3>1
    <3> QED
      BY <1>1, <3>1, <3>2 DEF HandlesExclusive
  <2>5. HandlesExclusive'
    BY <2>1, <2>3, <2>4 DEF HandlesExclusive
  <2> QED
    BY <1>1, <2>5 DEF HandlesOK
<1>8. leased \subseteq live
  BY DEF IInv, CountOK
<1>9. IsFiniteSet(live) /\ \A j \in live : pool.buffers[j].size \in Nat
  BY PoolFacts, ArenaAssumption DEF IInv, PoolOK
<1>10. PICK b, d, L : b = pool'.buffers /\ d = pool.buffers /\ L = live \ {i}
  OBVIOUS
<1>11. BytesAdded(L, i, b, d)
  <2>1. IsFiniteSet(L) /\ i \notin L
    BY <1>2, <1>9, <1>10, FS_RemoveElement
  <2>2. (\A j \in L : d[j] = b[j] /\ b[j].size \in Nat) /\ d[i].size \in Nat
    BY <1>2, <1>3, <1>4, <1>9, <1>10
  <2> QED
    BY ONLY <2>1, <2>2, LiveBytes
<1>12. L \cup {i} = live
  BY <1>2, <1>10
<1>13. PICK f : f = [j \in L |-> b[j].size]
  OBVIOUS
<1>14. SumFunction(f) \in Nat
  <2>1. f \in [L -> Nat]
    BY <1>3, <1>4, <1>9, <1>10, <1>13
  <2>2. IsFiniteSet(L)
    BY <1>2, <1>9, <1>10, FS_RemoveElement
  <2> QED
    BY <2>1, <2>2, SumType
<1>15. count.total = pool.buffers[i].size + SumFunction(f)
  BY <1>10, <1>11, <1>12, <1>13 DEF BytesAdded, IInv, CountOK
<1>16. pool.buffers[i].size \in Nat
  BY <1>2, <1>9
<1>17. count.total - pool.buffers[i].size = SumFunction(f)
  <2>1. PICK x, y : x = pool.buffers[i].size /\ y = SumFunction(f)
    OBVIOUS
  <2>2. x \in Nat /\ y \in Nat /\ count.total = x + y
    BY <1>14, <1>15, <1>16, <2>1
  <2> QED
    BY <2>1, <2>2
<1> QED
  BY <1>2, <1>5, <1>6, <1>7, <1>8, <1>9, <1>10, <1>13, <1>14, <1>16, <1>17

LEMMA FreeInv == ASSUME IInv, NEW h \in handles, Free(h) PROVE IInv'
<1>1. PICK i : i = h.slot
  OBVIOUS
<1>2. /\ i \in live /\ i \notin leased /\ pool' = Retire(i) /\ live' = live \ {i}
      /\ handles' = handles \ {h} /\ leased' = leased /\ cap' = cap /\ owned' = owned
      /\ count' = [count EXCEPT !.total = @ - pool.buffers[i].size, !.allocated = @ - 1]
  BY <1>1 DEF Free
<1>3. leased' = leased \ {i}
  BY <1>2
<1>4. /\ PoolOK' /\ CapOK' /\ HandlesOK'
      /\ leased' \subseteq live' /\ IsFiniteSet(live)
      /\ count.total - pool.buffers[i].size
           = SumFunction([j \in live' |-> pool'.buffers[j].size])
      /\ count.total - pool.buffers[i].size \in Nat
      /\ pool.buffers[i].size \in Nat
  BY <1>1, <1>2, <1>3, ReturnInv
<1>5. /\ count \in [total : Nat, peak : Nat, allocated : Nat, leased : Nat]
      /\ count.total \in Nat /\ count.peak \in Nat /\ count.peak >= count.total
      /\ count.allocated = Cardinality(live \ leased) /\ count.leased = Cardinality(leased)
  BY CountFacts DEF IInv, CountOK
<1>6. IsFiniteSet(live \ leased) /\ i \in live \ leased
  BY <1>2, <1>4, FS_Subset
<1>7. /\ Cardinality((live \ leased) \ {i}) = Cardinality(live \ leased) - 1
      /\ Cardinality((live \ leased) \ {i}) \in Nat
  BY <1>6, FS_RemoveElement, FS_CardinalityType
<1>8. (live \ leased) \ {i} = live' \ leased'
  BY <1>2
<1>9. PICK x, y, z : x = count.total - pool.buffers[i].size /\ y = count.allocated - 1 /\ z = count
  OBVIOUS
<1>10. x \in Nat /\ y \in Nat /\ z \in [total : Nat, peak : Nat, allocated : Nat, leased : Nat]
  BY <1>4, <1>5, <1>7, <1>9
<1>11. count' = [z EXCEPT !.total = x, !.allocated = y]
  BY <1>2, <1>9
<1>12. /\ count' \in [total : Nat, peak : Nat, allocated : Nat, leased : Nat]
       /\ count'.total = x /\ count'.allocated = y
       /\ count'.peak = z.peak /\ count'.leased = z.leased
  BY ONLY <1>10, <1>11
<1>13. count'.total = SumFunction([j \in live' |-> pool'.buffers[j].size])
  BY <1>4, <1>9, <1>12
<1>14. count'.peak >= count'.total
  BY <1>4, <1>5, <1>9, <1>12
<1>15. count'.allocated = Cardinality(live' \ leased') /\ count'.leased = Cardinality(leased')
  BY <1>2, <1>5, <1>7, <1>8, <1>9, <1>12
<1>16. CountOK'
  BY <1>4, <1>12, <1>13, <1>14, <1>15 DEF CountOK
<1> QED
  BY <1>4, <1>16 DEF IInv

LEMMA ReturnLeaseInv == ASSUME IInv, NEW h \in handles, ReturnLease(h) PROVE IInv'
<1>1. PICK i : i = h.slot
  OBVIOUS
<1>2. /\ h.lease /\ pool' = Retire(i) /\ live' = live \ {i}
      /\ handles' = handles \ {h} /\ leased' = leased \ {i} /\ cap' = cap /\ owned' = owned
      /\ count' = [count EXCEPT !.total = @ - pool.buffers[i].size, !.leased = @ - 1]
  BY <1>1 DEF ReturnLease
<1>3. i \in leased
  BY <1>1, <1>2 DEF IInv, HandlesOK, HandlesExclusive
<1>4. /\ PoolOK' /\ CapOK' /\ HandlesOK'
      /\ leased' \subseteq live' /\ IsFiniteSet(live) /\ leased \subseteq live
      /\ count.total - pool.buffers[i].size
           = SumFunction([j \in live' |-> pool'.buffers[j].size])
      /\ count.total - pool.buffers[i].size \in Nat
      /\ pool.buffers[i].size \in Nat
  BY <1>1, <1>2, ReturnInv
<1>5. /\ count \in [total : Nat, peak : Nat, allocated : Nat, leased : Nat]
      /\ count.total \in Nat /\ count.peak \in Nat /\ count.peak >= count.total
      /\ count.allocated = Cardinality(live \ leased) /\ count.leased = Cardinality(leased)
  BY CountFacts DEF IInv, CountOK
<1>6. IsFiniteSet(leased)
  BY <1>4, FS_Subset
<1>7. Cardinality(leased \ {i}) = Cardinality(leased) - 1 /\ Cardinality(leased \ {i}) \in Nat
  BY <1>3, <1>6, FS_RemoveElement, FS_CardinalityType
<1>8. live' \ leased' = live \ leased
  BY <1>2, <1>3
<1>9. PICK x, y, z : x = count.total - pool.buffers[i].size /\ y = count.leased - 1 /\ z = count
  OBVIOUS
<1>10. x \in Nat /\ y \in Nat /\ z \in [total : Nat, peak : Nat, allocated : Nat, leased : Nat]
  BY <1>4, <1>5, <1>7, <1>9
<1>11. count' = [z EXCEPT !.total = x, !.leased = y]
  BY <1>2, <1>9
<1>12. /\ count' \in [total : Nat, peak : Nat, allocated : Nat, leased : Nat]
       /\ count'.total = x /\ count'.leased = y
       /\ count'.peak = z.peak /\ count'.allocated = z.allocated
  BY ONLY <1>10, <1>11
<1>13. count'.total = SumFunction([j \in live' |-> pool'.buffers[j].size])
  BY <1>4, <1>9, <1>12
<1>14. count'.peak >= count'.total
  BY <1>4, <1>5, <1>9, <1>12
<1>15. count'.allocated = Cardinality(live' \ leased') /\ count'.leased = Cardinality(leased')
  BY <1>2, <1>5, <1>7, <1>8, <1>9, <1>12
<1>16. CountOK'
  BY <1>4, <1>12, <1>13, <1>14, <1>15 DEF CountOK
<1> QED
  BY <1>4, <1>16 DEF IInv

LEMMA ExportInv == ASSUME IInv, NEW h \in handles, Export(h) PROVE IInv'
<1>1. PICK i : i = h.slot
  OBVIOUS
<1>2. PICK g : g = [h EXCEPT !.lease = TRUE]
  OBVIOUS
<1>3. /\ i \in live /\ i \notin leased /\ leased' = leased \cup {i}
      /\ handles' = (handles \ {h}) \cup {g} /\ pool' = pool /\ live' = live
      /\ cap' = cap /\ owned' = owned
      /\ count' = [count EXCEPT !.allocated = @ - 1, !.leased = @ + 1]
  BY <1>1, <1>2 DEF Export
<1>4. PoolOK' /\ CapOK'
  BY <1>3 DEF IInv, PoolOK, CapOK, FreeSlots
<1>5. handles \subseteq Handles /\ HandlesExclusive
  BY DEF IInv, HandlesOK
<1>6. g \in Handles /\ g.slot = i /\ g.size = h.size /\ g.lease = TRUE
  BY <1>1, <1>2, <1>5 DEF Handles
<1>7. HandlesOK'
  <2>1. \A e \in handles \ {h} : e.slot # i
    BY <1>1, <1>5 DEF HandlesExclusive
  <2>2. \A e, f \in handles' : e.slot = f.slot => e = f
    BY <1>3, <1>5, <1>6, <2>1 DEF HandlesExclusive
  <2>3. {e.slot : e \in handles'} = live'
    BY <1>1, <1>3, <1>5, <1>6 DEF HandlesExclusive
  <2>4. ASSUME NEW e \in handles'
        PROVE  /\ pool'.buffers[e.slot].size = e.size
               /\ e.lease <=> e.slot \in leased'
               /\ owned' \/ e.lease
    <3>1. CASE e = g
      BY <1>1, <1>3, <1>5, <1>6, <3>1 DEF HandlesExclusive
    <3>2. CASE e \in handles \ {h}
      BY <1>3, <1>5, <2>1, <3>2 DEF HandlesExclusive
    <3> QED
      BY <1>3, <3>1, <3>2
  <2>5. HandlesExclusive'
    BY <2>2, <2>3, <2>4 DEF HandlesExclusive
  <2> QED
    BY <1>3, <1>5, <1>6, <2>5 DEF HandlesOK
<1>8. /\ leased \subseteq live
      /\ count \in [total : Nat, peak : Nat, allocated : Nat, leased : Nat]
      /\ count.total = SumFunction([j \in live |-> pool.buffers[j].size])
      /\ count.peak >= count.total
      /\ count.allocated = Cardinality(live \ leased) /\ count.leased = Cardinality(leased)
  BY DEF IInv, CountOK
<1>9. IsFiniteSet(live)
  BY PoolFacts DEF IInv, PoolOK
<1>10. IsFiniteSet(leased) /\ IsFiniteSet(live \ leased) /\ i \in live \ leased
  BY <1>3, <1>8, <1>9, FS_Subset
<1>11. /\ Cardinality(leased \cup {i}) = Cardinality(leased) + 1
       /\ Cardinality(leased \cup {i}) \in Nat
  BY <1>3, <1>10, FS_AddElement, FS_CardinalityType
<1>12. /\ Cardinality((live \ leased) \ {i}) = Cardinality(live \ leased) - 1
       /\ Cardinality((live \ leased) \ {i}) \in Nat
  BY <1>10, FS_RemoveElement, FS_CardinalityType
<1>13. (live \ leased) \ {i} = live' \ leased'
  BY <1>3
<1>14. PICK x, y, z : x = count.allocated - 1 /\ y = count.leased + 1 /\ z = count
  OBVIOUS
<1>15. x \in Nat /\ y \in Nat /\ z \in [total : Nat, peak : Nat, allocated : Nat, leased : Nat]
  BY <1>8, <1>11, <1>12, <1>14
<1>16. count' = [z EXCEPT !.allocated = x, !.leased = y]
  BY <1>3, <1>14
<1>17. /\ count' \in [total : Nat, peak : Nat, allocated : Nat, leased : Nat]
       /\ count'.total = z.total /\ count'.leased = y
       /\ count'.peak = z.peak /\ count'.allocated = x
  BY ONLY <1>15, <1>16
<1>18. count'.allocated = Cardinality(live' \ leased') /\ count'.leased = Cardinality(leased')
  BY <1>3, <1>8, <1>11, <1>12, <1>13, <1>14, <1>17
<1>19. CountOK'
  BY <1>3, <1>8, <1>14, <1>17, <1>18 DEF CountOK
<1> QED
  BY <1>4, <1>7, <1>19 DEF IInv

\* The step changed neither what is live nor what a live block holds.
LEMMA SameLive ==
    ASSUME IInv, live' = live, leased' = leased, count' = count, handles' = handles,
           owned' = owned, \A j \in live : pool'.buffers[j] = pool.buffers[j]
    PROVE  CountOK' /\ HandlesOK'
<1>1. [j \in live |-> pool'.buffers[j].size] = [j \in live |-> pool.buffers[j].size]
  OBVIOUS
<1>2. CountOK'
  BY <1>1 DEF IInv, CountOK
<1>3. HandlesExclusive'
  <2>1. HandlesExclusive
    BY DEF IInv, HandlesOK
  <2>2. \A h \in handles : h.slot \in live
    BY <2>1 DEF HandlesExclusive
  <2> QED
    BY <2>1, <2>2 DEF HandlesExclusive
<1> QED
  BY <1>2, <1>3 DEF IInv, HandlesOK

LEMMA SetRetentionCapInv == ASSUME IInv, NEW limit \in Caps, SetRetentionCap(limit) PROVE IInv'
<1>1. PICK U, F : PoolInv(pool, U, F, live)
  BY DEF IInv, PoolOK
<1>2. limit \in Nat
  BY ArenaAssumption
<1>3. PICK q : q = pool'
  OBVIOUS
<1>4. /\ cap' = limit /\ q = Enforce(pool, limit)
      /\ live' = live /\ leased' = leased /\ count' = count /\ handles' = handles /\ owned' = owned
  BY <1>3 DEF SetRetentionCap
<1>5. Evicted(pool, q, live) /\ q.retained <= limit
  BY <1>1, <1>2, <1>4, EnforceInv
<1>6. PoolOK' /\ CapOK'
  BY <1>2, <1>3, <1>4, <1>5, PoolSets DEF PoolOK, FreeSlots, CapOK, Evicted
<1>7. CountOK' /\ HandlesOK'
  BY <1>3, <1>4, <1>5, SameLive DEF Evicted
<1> QED
  BY <1>6, <1>7 DEF IInv

LEMMA TrimKeepsInv == ASSUME IInv, Trim PROVE IInv'
<1>1. PICK U, F : PoolInv(pool, U, F, live)
  BY DEF IInv, PoolOK
<1>2. /\ \E V, G : PoolInv(pool', V, G, live)
      /\ pool'.retained = 0
      /\ \A j \in live : pool'.buffers[j] = pool.buffers[j]
  BY <1>1, TrimInv
<1>3. /\ cap' = cap /\ live' = live /\ leased' = leased /\ count' = count
      /\ handles' = handles /\ owned' = owned
  BY DEF Trim
<1>4. PoolOK' /\ CapOK'
  BY <1>2, <1>3, PoolSets DEF PoolOK, FreeSlots, CapOK, IInv
<1>5. CountOK' /\ HandlesOK'
  BY <1>2, <1>3, SameLive
<1> QED
  BY <1>4, <1>5 DEF IInv

LEMMA ResetPeakInv == ASSUME IInv, ResetPeak PROVE IInv'
<1>1. PICK z, x : z = count /\ x = count.total
  OBVIOUS
<1>2. z \in [total : Nat, peak : Nat, allocated : Nat, leased : Nat] /\ x \in Nat
  BY <1>1, CountFacts DEF IInv, CountOK
<1>3. count' = [z EXCEPT !.peak = x]
  BY <1>1 DEF ResetPeak
<1>4. /\ count' \in [total : Nat, peak : Nat, allocated : Nat, leased : Nat]
      /\ count'.total = z.total /\ count'.leased = z.leased
      /\ count'.peak = x /\ count'.allocated = z.allocated
  BY ONLY <1>2, <1>3
<1>5. UNCHANGED <<kind, cap, pool, live, leased, handles, owned>>
  BY DEF ResetPeak
<1>6. CountOK'
  BY <1>1, <1>2, <1>4, <1>5 DEF IInv, CountOK
<1>7. PoolOK' /\ CapOK' /\ HandlesOK'
  BY <1>5 DEF IInv, PoolOK, FreeSlots, CapOK, HandlesOK, HandlesExclusive
<1> QED
  BY <1>6, <1>7 DEF IInv

LEMMA DropOwnerInv == ASSUME IInv, DropOwner PROVE IInv'
<1>1. /\ UNCHANGED <<kind, cap, pool, live, leased, count, handles>>
      /\ \A h \in handles : h.lease
  BY DEF DropOwner
<1>2. PoolOK' /\ CapOK' /\ CountOK'
  BY <1>1 DEF IInv, PoolOK, FreeSlots, CapOK, CountOK
<1>3. HandlesOK'
  BY <1>1 DEF IInv, HandlesOK, HandlesExclusive
<1> QED
  BY <1>2, <1>3 DEF IInv

LEMMA InitInv == ASSUME Init PROVE IInv
<1>0. Capacity \in Nat /\ MaxBytes \in Nat /\ Caps \subseteq Nat
  BY ArenaAssumption
<1>1. PICK b, u, t : /\ b = [i \in 1..Capacity |-> NoBytes]
                     /\ u = Reverse([i \in 1..Capacity |-> i])
                     /\ t = [c \in 0..MaxBytes |-> <<>>]
  OBVIOUS
<1>2. /\ pool = [buffers |-> b, unused |-> u, buckets |-> t, lru |-> <<>>,
                 retained |-> 0, slots |-> 0]
      /\ live = {} /\ leased = {} /\ handles = {} /\ cap \in Caps /\ owned = TRUE
      /\ count = [total |-> 0, peak |-> 0, allocated |-> 0, leased |-> 0]
  BY <1>1 DEF Init
<1>3. b \in Seq(Blocks) /\ Len(b) = Capacity /\ \A i \in 1..Capacity : b[i] = NoBytes
  <2>1. NoBytes \in Blocks
    BY <1>0 DEF NoBytes, Blocks
  <2>2. b \in [1..Capacity -> Blocks] /\ \A i \in 1..Capacity : b[i] = NoBytes
    BY <1>1, <2>1
  <2> QED
    BY <1>0, <2>2, IsASeq, LenProperties
<1>4. Lists(u, 1..Capacity)
  <2>1. PICK s : s = [i \in 1..Capacity |-> i]
    OBVIOUS
  <2>2. s \in Seq(Nat) /\ Len(s) = Capacity
    <3>1. s \in [1..Capacity -> Nat]
      BY <1>0, <2>1
    <3> QED
      BY <1>0, <3>1, IsASeq, LenProperties
  <2>3. u = [i \in 1..Capacity |-> s[(Capacity - i) + 1]]
    <3>1. u = Reverse(s)
      BY <1>1, <2>1
    <3> QED
      BY <2>2, <3>1 DEF Reverse
  <2>4. \A i \in 1..Capacity : u[i] = (Capacity - i) + 1
    <3>1. \A i \in 1..Capacity : (Capacity - i) + 1 \in 1..Capacity
      BY <1>0
    <3> QED
      BY <2>1, <2>3, <3>1
  <2>5. u \in Seq(Nat) /\ Len(u) = Capacity
    <3>1. u \in [1..Capacity -> Nat]
      BY <1>0, <2>3, <2>4
    <3> QED
      BY <1>0, <3>1, IsASeq, LenProperties
  <2>6. \A k \in 1..Len(u) : u[k] \in 1..Capacity
    BY <1>0, <2>4, <2>5
  <2>7. ASSUME NEW x \in 1..Capacity PROVE \E k \in 1..Len(u) : u[k] = x
    <3>1. (Capacity - x) + 1 \in 1..Len(u) /\ (Capacity - ((Capacity - x) + 1)) + 1 = x
      BY <1>0, <2>5
    <3> QED
      BY <2>4, <2>5, <3>1
  <2>8. \A k, m \in 1..Len(u) : u[k] = u[m] => k = m
    BY <1>0, <2>4, <2>5
  <2> QED
    BY <2>5, <2>6, <2>7, <2>8, ListsIff
<1>5. t \in [0..MaxBytes -> Seq(Nat)] /\ \A c \in 0..MaxBytes : t[c] = <<>>
  <2>1. <<>> \in Seq(Nat)
    OBVIOUS
  <2> QED
    BY <1>1, <2>1
<1>6. /\ pool \in Pools
      /\ pool.buffers = b /\ pool.buckets = t /\ pool.lru = <<>> /\ pool.slots = 0
      /\ pool.retained = 0 /\ pool.unused = u
  <2>1. u \in Seq(Nat) /\ <<>> \in Seq(Nat)
    BY <1>4 DEF Lists
  <2> QED
    BY <1>2, <1>3, <1>5, <2>1 DEF Pools
<1>7. PoolInv(pool, 1..Capacity, {}, {})
  <2>1. 1..Len(pool.buffers) = (1..Capacity) \cup {} \cup {}
    BY <1>3, <1>6
  <2>2. \A j \in 1..Capacity : pool.buffers[j] = NoBytes
    BY <1>3, <1>6
  <2>3. ASSUME NEW c \in 0..MaxBytes
        PROVE  Lists(pool.buckets[c], {j \in {} : pool.buffers[j].capacity = c})
    <3>1. {j \in {} : pool.buffers[j].capacity = c} = {}
      OBVIOUS
    <3> QED
      BY <1>5, <1>6, <3>1, ListsEmpty
  <2>4. pool.retained = SumFunction([j \in {} |-> pool.buffers[j].capacity])
    <3>1. [j \in {} |-> pool.buffers[j].capacity] \in [{} -> Nat]
      OBVIOUS
    <3> QED
      BY <1>6, <3>1, SumEmpty
  <2>5. pool.slots = Cardinality({})
    BY <1>6, FS_EmptySet
  <2>6. Lists(pool.unused, 1..Capacity) /\ Lists(pool.lru, {})
    BY <1>4, <1>6, ListsEmpty
  <2> QED
    BY <1>6, <2>1, <2>2, <2>3, <2>4, <2>5, <2>6 DEF PoolInv
<1>8. PoolOK
  BY <1>2, <1>7, PoolSets DEF PoolOK, FreeSlots
<1>9. CapOK
  BY <1>0, <1>2, <1>6 DEF CapOK
<1>10. CountOK
  <2>1. /\ count \in [total : Nat, peak : Nat, allocated : Nat, leased : Nat]
        /\ count.total = 0 /\ count.peak = 0 /\ count.allocated = 0 /\ count.leased = 0
    BY <1>2
  <2>2. [j \in live |-> pool.buffers[j].size] \in [{} -> Nat]
    BY <1>2
  <2>3. SumFunction([j \in live |-> pool.buffers[j].size]) = 0
    BY <2>2, SumEmpty
  <2>4. Cardinality(live \ leased) = 0 /\ Cardinality(leased) = 0
    <3>1. live \ leased = {}
      BY <1>2
    <3> QED
      BY <1>2, <3>1, FS_EmptySet
  <2> QED
    BY <1>2, <2>1, <2>3, <2>4 DEF CountOK
<1>11. HandlesOK
  BY <1>2 DEF HandlesOK, HandlesExclusive
<1> QED
  BY <1>8, <1>9, <1>10, <1>11 DEF IInv

-----------------------------------------------------------------------------
\* Every operation of the three allocators, from any state of them, leaves the pool
\* well formed, within its cap, and accounted for by the counters and the handles.
THEOREM Invariant == Spec => []IInv
<1>1. Init => IInv
  BY InitInv
<1>2. IInv /\ [Next]_vars => IInv'
  <2> SUFFICES ASSUME IInv, [Next]_vars PROVE IInv'
    OBVIOUS
  <2>1. CASE UNCHANGED vars
    BY <2>1 DEF vars, IInv, PoolOK, FreeSlots, CapOK, CountOK, HandlesOK, HandlesExclusive
  <2>2. ASSUME NEW n \in 0..MaxBytes, Allocate(n) PROVE IInv'
    BY <2>2, AllocateInv
  <2>3. ASSUME NEW h \in handles, Free(h) \/ Export(h) \/ ReturnLease(h) PROVE IInv'
    BY <2>3, FreeInv, ExportInv, ReturnLeaseInv
  <2>4. ASSUME NEW limit \in Caps, SetRetentionCap(limit) PROVE IInv'
    BY <2>4, SetRetentionCapInv
  <2>5. CASE Trim
    BY <2>5, TrimKeepsInv
  <2>6. CASE ResetPeak
    BY <2>6, ResetPeakInv
  <2>7. CASE DropOwner
    BY <2>7, DropOwnerInv
  <2> QED
    BY <2>1, <2>2, <2>3, <2>4, <2>5, <2>6, <2>7 DEF Next
<1> QED
  BY <1>1, <1>2, PTL DEF Spec

\* For every number of slots, block size and cap, every slot is unused, retained or
\* live, and the eviction list and the capacity buckets name the same blocks.
THEOREM SlotsArePartitioned == Spec => []SlotsPartitioned
<1>1. IInv => SlotsPartitioned
  <2> SUFFICES ASSUME IInv PROVE SlotsPartitioned
    OBVIOUS
  <2>1. PoolInv(pool, Range(pool.unused), FreeSlots, live)
    BY DEF IInv, PoolOK
  <2>2. IsInjective(pool.unused) /\ IsInjective(pool.lru)
    BY <2>1 DEF PoolInv, Lists
  <2>3. Slots = Range(pool.unused) \cup FreeSlots \cup live
    BY <2>1 DEF PoolInv, Slots
  <2>4. /\ Range(pool.unused) \cap FreeSlots = {}
        /\ live \cap (Range(pool.unused) \cup FreeSlots) = {}
    BY <2>1 DEF PoolInv
  <2>5. \A i \in Range(pool.unused) : pool.buffers[i] = NoBytes
    BY <2>1 DEF PoolInv
  <2>6. ASSUME NEW c \in 0..MaxBytes
        PROVE  /\ IsInjective(pool.buckets[c])
               /\ Range(pool.buckets[c]) = {i \in FreeSlots : pool.buffers[i].capacity = c}
    BY <2>1 DEF PoolInv, Lists
  <2> QED
    BY <2>2, <2>3, <2>4, <2>5, <2>6 DEF SlotsPartitioned
<1> QED
  BY <1>1, Invariant, PTL

\* The running counters are the sums over the slots and the retained bytes are within
\* the cap, for every number of slots, block size and cap.
THEOREM RetentionIsExact == Spec => []RetentionExact
<1>1. IInv => RetentionExact
  <2> SUFFICES ASSUME IInv PROVE RetentionExact
    OBVIOUS
  <2>1. /\ pool.retained = SumFunction([i \in FreeSlots |-> pool.buffers[i].capacity])
        /\ pool.slots = Cardinality(FreeSlots)
    BY DEF IInv, PoolOK, PoolInv
  <2> QED
    BY <2>1 DEF IInv, CapOK, CountOK, RetentionExact
<1> QED
  BY <1>1, Invariant, PTL

\* A block belongs to one handle from Allocate to its return, also when the context
\* that owns the arena is gone.
THEOREM HandlesAreExclusive == Spec => []HandlesExclusive
BY Invariant, PTL DEF IInv, HandlesOK
=============================================================================
