------------------------- MODULE ExecutionPlanProofs -------------------------
(***************************************************************************)
(* Proofs about ExecutionPlan, for every graph, every set of outputs and   *)
(* any number of rewrites: a plan that is built reads nothing stale, locks *)
(* and unlocks in balance and leaves nothing behind.                       *)
(***************************************************************************)
EXTENDS ExecutionPlan, FiniteSetTheorems, SequenceTheorems, WellFoundedInduction, TLAPS

\* A sequence that lists a set without repetition.
Lists(s, S) == s \in Seq(S) /\ IsInjective(s) /\ Range(s) = S

-----------------------------------------------------------------------------
(***************************************************************************)
(* Induction on the natural numbers.                                       *)
(***************************************************************************)

\* A set of natural numbers has a least element.
LEMMA LeastNat == ASSUME NEW S, S \subseteq Nat, S # {} PROVE \E m \in S : \A k \in S : m <= k
<1>1. PICK R : R = OpToRel(<, Nat)
  OBVIOUS
<1>2. IsWellFoundedOn(R, Nat)
  BY <1>1, NatLessThanWellFounded
<1>3. \A k, m \in Nat : <<k, m>> \in R <=> k < m
  BY <1>1 DEF OpToRel
<1>4. PICK m \in S : \A k \in S : ~(<<k, m>> \in R)
  BY ONLY <1>2, S \subseteq Nat, S # {}, WFMin
<1>5. \A k \in S : ~(k < m) /\ k \in Nat /\ m \in Nat
  BY ONLY <1>3, <1>4, S \subseteq Nat
<1>6. \A k \in S : m <= k
  BY ONLY <1>5
<1> QED
  BY ONLY <1>6, m \in S

\* Induction, by the set of counterexamples.
LEMMA NoCounterexample ==
    ASSUME NEW B, B \subseteq Nat, 0 \notin B, \A n \in Nat : n \notin B => n + 1 \notin B
    PROVE  B = {}
<1> SUFFICES ASSUME B # {} PROVE FALSE
  OBVIOUS
<1>1. PICK m \in B : \A k \in B : m <= k
  BY LeastNat
<1>2. m - 1 \in Nat /\ m - 1 \notin B /\ (m - 1) + 1 = m
  BY <1>1
<1> QED
  BY <1>2

-----------------------------------------------------------------------------
(***************************************************************************)
(* Lists without repetition.                                               *)
(***************************************************************************)

LEMMA ListsFacts ==
    ASSUME NEW s, NEW S, Lists(s, S)
    PROVE  /\ s \in Seq(S) /\ Len(s) \in Nat /\ DOMAIN s = 1..Len(s)
           /\ \A k \in 1..Len(s) : s[k] \in S
           /\ \A x \in S : \E k \in 1..Len(s) : s[k] = x
           /\ \A k, m \in 1..Len(s) : s[k] = s[m] => k = m
<1>1. s \in Seq(S) /\ DOMAIN s = 1..Len(s) /\ Len(s) \in Nat
  BY DEF Lists
<1> QED
  BY <1>1 DEF Lists, IsInjective, Range

LEMMA ListsIf ==
    ASSUME NEW s, NEW T, s \in Seq(T), NEW S,
           \A k \in 1..Len(s) : s[k] \in S,
           \A x \in S : \E k \in 1..Len(s) : s[k] = x,
           \A k, m \in 1..Len(s) : s[k] = s[m] => k = m
    PROVE  Lists(s, S)
<1>1. DOMAIN s = 1..Len(s) /\ Len(s) \in Nat /\ s = [k \in 1..Len(s) |-> s[k]]
  OBVIOUS
<1>2. s \in [1..Len(s) -> S]
  BY <1>1
<1>3. s \in Seq(S)
  BY <1>1, <1>2
<1> QED
  BY <1>1, <1>3 DEF Lists, IsInjective, Range

LEMMA ListsConcat ==
    ASSUME NEW s, NEW S, Lists(s, S), NEW t, NEW T, Lists(t, T), S \cap T = {}
    PROVE  /\ Lists(s \o t, S \cup T) /\ Len(s \o t) = Len(s) + Len(t)
           /\ \A k \in 1..Len(s) : (s \o t)[k] = s[k]
           /\ \A k \in 1..Len(t) : (s \o t)[Len(s) + k] = t[k]
<1>1. /\ s \in Seq(S) /\ Len(s) \in Nat
      /\ \A k \in 1..Len(s) : s[k] \in S
      /\ \A y \in S : \E k \in 1..Len(s) : s[k] = y
      /\ \A k, m \in 1..Len(s) : s[k] = s[m] => k = m
  BY ListsFacts
<1>2. /\ t \in Seq(T) /\ Len(t) \in Nat
      /\ \A k \in 1..Len(t) : t[k] \in T
      /\ \A y \in T : \E k \in 1..Len(t) : t[k] = y
      /\ \A k, m \in 1..Len(t) : t[k] = t[m] => k = m
  BY ListsFacts
<1>3. PICK r : r = s \o t
  OBVIOUS
<1>4. /\ r \in Seq(S \cup T) /\ Len(r) = Len(s) + Len(t)
      /\ \A k \in 1..Len(s) : r[k] = s[k]
      /\ \A k \in 1..Len(t) : r[Len(s) + k] = t[k]
  <2>1. s \in Seq(S \cup T) /\ t \in Seq(S \cup T)
    BY <1>1, <1>2
  <2> QED
    BY <1>3, <2>1
<1>5. \A k \in 1..Len(r) : k \in 1..Len(s) \/ \E m \in 1..Len(t) : k = Len(s) + m
  <2> SUFFICES ASSUME NEW k \in 1..Len(r), k \notin 1..Len(s)
               PROVE  \E m \in 1..Len(t) : k = Len(s) + m
    OBVIOUS
  <2>1. k - Len(s) \in 1..Len(t) /\ k = Len(s) + (k - Len(s))
    BY <1>1, <1>2, <1>4
  <2> QED
    BY <2>1
<1>6. ASSUME NEW k \in 1..Len(r) PROVE r[k] \in S \cup T
  <2>1. CASE k \in 1..Len(s)
    BY <1>1, <1>4, <2>1
  <2>2. ASSUME NEW m \in 1..Len(t), k = Len(s) + m PROVE r[k] \in S \cup T
    BY <1>2, <1>4, <2>2
  <2> QED
    BY <1>5, <2>1, <2>2
<1>7. \A y \in S \cup T : \E k \in 1..Len(r) : r[k] = y
  <2>1. \A k \in 1..Len(s) : k \in 1..Len(r)
    BY <1>1, <1>2, <1>4
  <2>2. \A k \in 1..Len(t) : Len(s) + k \in 1..Len(r)
    BY <1>1, <1>2, <1>4
  <2>3. ASSUME NEW y \in S PROVE \E k \in 1..Len(r) : r[k] = y
    <3>1. PICK k \in 1..Len(s) : s[k] = y
      BY <1>1
    <3> QED
      BY <1>4, <2>1, <3>1
  <2>4. ASSUME NEW y \in T PROVE \E k \in 1..Len(r) : r[k] = y
    <3>1. PICK k \in 1..Len(t) : t[k] = y
      BY <1>2
    <3>2. r[Len(s) + k] = y
      BY <1>4, <3>1
    <3> QED
      BY <2>2, <3>2
  <2> QED
    BY <2>3, <2>4
<1>8. ASSUME NEW k \in 1..Len(r), NEW m \in 1..Len(r), r[k] = r[m] PROVE k = m
  <2>1. ASSUME NEW i \in 1..Len(s), NEW j \in 1..Len(t) PROVE r[i] # r[Len(s) + j]
    <3>1. r[i] \in S /\ r[Len(s) + j] \in T
      BY <1>1, <1>2, <1>4
    <3> QED
      BY <3>1
  <2>2. CASE k \in 1..Len(s) /\ m \in 1..Len(s)
    BY <1>1, <1>4, <1>8, <2>2
  <2>3. CASE \E i, j \in 1..Len(t) : k = Len(s) + i /\ m = Len(s) + j
    <3>1. PICK i, j \in 1..Len(t) : k = Len(s) + i /\ m = Len(s) + j
      BY <2>3
    <3>2. t[i] = t[j]
      BY <1>4, <1>8, <3>1
    <3>3. i = j
      BY <1>2, <3>2
    <3> QED
      BY <3>1, <3>3
  <2> QED
    BY <1>5, <1>8, <2>1, <2>2, <2>3
<1>9. Lists(r, S \cup T)
  BY <1>4, <1>6, <1>7, <1>8, ListsIf
<1> QED
  BY <1>3, <1>4, <1>9

\* The members of a finite set of numbers can be listed in ascending order.
IsAscending(T, s) ==
    s \in [1..Cardinality(T) -> T] /\ \A i, j \in 1..Cardinality(T) : i < j => s[i] < s[j]

LEMMA AscendingExists ==
    ASSUME NEW S, IsFiniteSet(S), S \subseteq Nat PROVE \E s : IsAscending(S, s)
<1> DEFINE B == {n \in Nat : \E T \in SUBSET S : Cardinality(T) = n /\ ~ \E s : IsAscending(T, s)}
<1>0. ASSUME NEW T \in SUBSET S
      PROVE  IsFiniteSet(T) /\ Cardinality(T) \in Nat /\ (Cardinality(T) = 0 <=> T = {})
  BY FS_Subset, FS_CardinalityType, FS_EmptySet
<1>1. 0 \notin B
  <2> SUFFICES ASSUME NEW T \in SUBSET S, Cardinality(T) = 0 PROVE \E s : IsAscending(T, s)
    OBVIOUS
  <2>1. PICK s : s = [k \in 1..0 |-> 0]
    OBVIOUS
  <2>2. 1..0 = {}
    OBVIOUS
  <2>3. s \in [1..0 -> T] /\ \A i, j \in 1..0 : i < j => s[i] < s[j]
    BY <2>1, <2>2
  <2> QED
    BY <2>3 DEF IsAscending
<1>2. ASSUME NEW n \in Nat, n \notin B PROVE n + 1 \notin B
  <2> SUFFICES ASSUME NEW T \in SUBSET S, Cardinality(T) = n + 1 PROVE \E s : IsAscending(T, s)
    OBVIOUS
  <2>1. T # {} /\ T \subseteq Nat /\ IsFiniteSet(T)
    BY <1>0
  <2>2. PICK m \in T : \A k \in T : m <= k
    BY <2>1, LeastNat
  <2>3. T \ {m} \in SUBSET S /\ Cardinality(T \ {m}) = n
    <3>1. Cardinality(T \ {m}) = Cardinality(T) - 1
      BY ONLY <2>1, m \in T, FS_RemoveElement
    <3> QED
      BY <3>1
  <2>4. PICK t : IsAscending(T \ {m}, t)
    BY <2>3, <1>2
  <2>5. t \in [1..n -> T \ {m}] /\ \A i, j \in 1..n : i < j => t[i] < t[j]
    BY <2>3, <2>4 DEF IsAscending
  <2>6. PICK s : s = [k \in 1..(n + 1) |-> IF k = 1 THEN m ELSE t[k - 1]]
    OBVIOUS
  <2>7. \A k \in 1..(n + 1) : k # 1 => k - 1 \in 1..n
    OBVIOUS
  <2>8. \A k \in 1..(n + 1) : /\ k = 1 => s[k] = m
                              /\ k # 1 => s[k] = t[k - 1] /\ s[k] \in T \ {m}
    BY <2>5, <2>6, <2>7
  <2>9. s \in [1..(n + 1) -> T]
    BY <2>2, <2>6, <2>8
  <2>10. ASSUME NEW i \in 1..(n + 1), NEW j \in 1..(n + 1), i < j PROVE s[i] < s[j]
    <3>1. j # 1 /\ j - 1 \in 1..n
      BY <2>10
    <3>2. CASE i = 1
      <4>1. s[i] = m /\ s[j] \in T /\ s[j] # m
        BY <2>8, <3>1, <3>2
      <4>2. m <= s[j] /\ m \in Nat /\ s[j] \in Nat
        BY <2>1, <2>2, <4>1
      <4> QED
        BY <4>1, <4>2
    <3>3. CASE i # 1
      <4>1. i - 1 \in 1..n /\ i - 1 < j - 1
        BY <2>10, <3>3
      <4> QED
        BY <2>5, <2>8, <3>1, <3>3, <4>1
    <3> QED
      BY <3>2, <3>3
  <2> QED
    BY <2>9, <2>10 DEF IsAscending
<1>3. B = {}
  <2>1. B \subseteq Nat
    OBVIOUS
  <2> HIDE DEF B
  <2> QED
    BY <2>1, <1>1, <1>2, NoCounterexample
<1>4. S \in SUBSET S /\ Cardinality(S) \in Nat
  BY <1>0
<1> QED
  BY <1>3, <1>4

LEMMA AscendingLists ==
    ASSUME NEW S, IsFiniteSet(S), S \subseteq Nat
    PROVE  Lists(Ascending(S), S) /\ Len(Ascending(S)) = Cardinality(S)
<1>1. PICK n \in Nat : n = Cardinality(S)
  BY FS_CardinalityType
<1>2. PICK s : s = Ascending(S)
  OBVIOUS
<1>3. \E r \in [1..n -> S] : \A i, j \in DOMAIN r : i < j => r[i] < r[j]
  <2>1. PICK r : IsAscending(S, r)
    BY AscendingExists
  <2>2. r \in [1..n -> S] /\ DOMAIN r = 1..n /\ \A i, j \in 1..n : i < j => r[i] < r[j]
    BY <1>1, <2>1 DEF IsAscending
  <2> QED
    BY <2>2
<1>4. s \in [1..n -> S] /\ \A i, j \in DOMAIN s : i < j => s[i] < s[j]
  BY <1>1, <1>2, <1>3 DEF Ascending
<1>5. \A i, j \in 1..n : i < j => s[i] < s[j]
  BY <1>4
<1>6. ASSUME NEW i \in 1..n, NEW j \in 1..n, s[i] = s[j] PROVE i = j
  <2>1. s[i] \in Nat /\ s[j] \in Nat
    BY <1>4
  <2>2. ~(i < j) /\ ~(j < i)
    BY <1>5, <1>6, <2>1
  <2> QED
    BY <2>2
<1>7. s \in Injection(1..n, S)
  BY <1>4, <1>6 DEF Injection, IsInjective
<1>8. Cardinality(1..n) = n
  BY FS_Interval
<1>9. s \in Surjection(1..n, S)
  BY <1>1, <1>7, <1>8, FS_Injection
<1>10. \A x \in S : \E k \in 1..n : s[k] = x
  BY <1>9 DEF Surjection
<1>11. s \in Seq(S) /\ Len(s) = n
  BY <1>4
<1>12. Lists(s, S)
  <2>1. \A k \in 1..n : s[k] \in S
    BY <1>4
  <2>2. \A k, m \in 1..n : s[k] = s[m] => k = m
    BY <1>6
  <2> QED
    BY ONLY <1>10, <1>11, <2>1, <2>2, ListsIf
<1> QED
  BY <1>1, <1>2, <1>11, <1>12


\* The elements of s at the positions P are those of S, each once.
OneEach(s, P, S) ==
    /\ Len(s) \in Nat /\ P \subseteq 1..Len(s)
    /\ \A k \in P : s[k] \in S
    /\ \A x \in S : \E k \in P : s[k] = x
    /\ \A k, m \in P : s[k] = s[m] => k = m

LEMMA AtLists == ASSUME NEW s, NEW P, NEW S, OneEach(s, P, S) PROVE Lists(At(s, P), S)
<1> USE DEF OneEach
<1>1. IsFiniteSet(P) /\ P \subseteq Nat
  <2>1. IsFiniteSet(1..Len(s)) /\ 1..Len(s) \subseteq Nat
    BY FS_Interval
  <2> QED
    BY <2>1, FS_Subset
<1>2. PICK a : a = Ascending(P)
  OBVIOUS
<1>3. Lists(a, P)
  BY <1>1, <1>2, AscendingLists
<1>4. /\ Len(a) \in Nat
      /\ \A k \in 1..Len(a) : a[k] \in P
      /\ \A x \in P : \E k \in 1..Len(a) : a[k] = x
      /\ \A k, m \in 1..Len(a) : a[k] = a[m] => k = m
  BY <1>3, ListsFacts
<1>5. PICK r : r = [k \in 1..Len(a) |-> s[a[k]]]
  OBVIOUS
<1>6. r = At(s, P)
  BY <1>2, <1>5 DEF At
<1>7. \A k \in 1..Len(a) : r[k] = s[a[k]] /\ r[k] \in S
  BY <1>4, <1>5
<1>8. r \in Seq(S) /\ Len(r) = Len(a)
  BY <1>4, <1>5, <1>7
<1>9. ASSUME NEW x \in S PROVE \E k \in 1..Len(r) : r[k] = x
  <2>1. PICK j \in P : s[j] = x
    OBVIOUS
  <2>2. PICK k \in 1..Len(a) : a[k] = j
    BY <1>4
  <2> QED
    BY <1>7, <1>8, <2>1, <2>2
<1>10. ASSUME NEW k \in 1..Len(r), NEW m \in 1..Len(r), r[k] = r[m] PROVE k = m
  <2>1. s[a[k]] = s[a[m]] /\ a[k] \in P /\ a[m] \in P
    BY <1>4, <1>7, <1>8, <1>10
  <2>2. a[k] = a[m]
    BY <2>1
  <2> QED
    BY <1>4, <1>8, <2>2
<1>11. Lists(r, S)
  BY <1>7, <1>8, <1>9, <1>10, ListsIf
<1> QED
  BY <1>6, <1>11

\* A selection from a list.
LEMMA SelectLists ==
    ASSUME NEW s, NEW S, Lists(s, S), NEW T PROVE Lists(Select(s, T), S \cap T)
<1>1. /\ Len(s) \in Nat /\ DOMAIN s = 1..Len(s)
      /\ \A k \in 1..Len(s) : s[k] \in S
      /\ \A x \in S : \E k \in 1..Len(s) : s[k] = x
      /\ \A k, m \in 1..Len(s) : s[k] = s[m] => k = m
  BY ListsFacts
<1>2. PICK P : P = {k \in DOMAIN s : s[k] \in T}
  OBVIOUS
<1>3. PICK U : U = S \cap T
  OBVIOUS
<1>4. P \subseteq 1..Len(s) /\ \A k \in P : s[k] \in U
  BY <1>1, <1>2, <1>3
<1>5. \A x \in U : \E k \in P : s[k] = x
  BY <1>1, <1>2, <1>3
<1>6. \A k, m \in P : s[k] = s[m] => k = m
  BY <1>1, <1>4
<1>7. OneEach(s, P, U)
  BY <1>1, <1>4, <1>5, <1>6 DEF OneEach
<1>8. Lists(At(s, P), U)
  BY <1>7, AtLists
<1> QED
  BY <1>2, <1>3, <1>8 DEF Select

\* A list of one element more.
LEMMA ListsAppend ==
    ASSUME NEW s, NEW S, Lists(s, S), NEW x, x \notin S PROVE Lists(Append(s, x), S \cup {x})
<1>1. /\ s \in Seq(S) /\ Len(s) \in Nat /\ DOMAIN s = 1..Len(s)
      /\ \A k \in 1..Len(s) : s[k] \in S
      /\ \A y \in S : \E k \in 1..Len(s) : s[k] = y
      /\ \A k, m \in 1..Len(s) : s[k] = s[m] => k = m
  BY ListsFacts
<1>2. PICK n \in Nat : n = Len(s)
  BY <1>1
<1>3. PICK r : r = Append(s, x)
  OBVIOUS
<1>4. /\ r \in Seq(S \cup {x}) /\ Len(r) = n + 1 /\ r[n + 1] = x
      /\ \A k \in 1..n : r[k] = s[k]
  <2>1. s \in Seq(S \cup {x})
    BY <1>1
  <2> QED
    BY <1>2, <1>3, <2>1
<1>5. \A k \in 1..(n + 1) : k \in 1..n \/ k = n + 1
  OBVIOUS
<1>6. \A k \in 1..n : k \in 1..(n + 1) /\ k # n + 1
  OBVIOUS
<1>7. n + 1 \in 1..(n + 1)
  OBVIOUS
<1>8. \A k \in 1..(n + 1) : r[k] \in S \cup {x} /\ (r[k] = x <=> k = n + 1)
  BY <1>1, <1>2, <1>4, <1>5, <1>6
<1>9. ASSUME NEW y \in S \cup {x} PROVE \E k \in 1..(n + 1) : r[k] = y
  <2>1. CASE y = x
    BY <1>4, <1>7, <2>1
  <2>2. CASE y \in S
    BY <1>1, <1>2, <1>4, <1>6, <2>2
  <2> QED
    BY <2>1, <2>2
<1>10. ASSUME NEW k \in 1..(n + 1), NEW m \in 1..(n + 1), r[k] = r[m] PROVE k = m
  <2>1. CASE k = n + 1 \/ m = n + 1
    BY <1>8, <1>10, <2>1
  <2>2. CASE k \in 1..n /\ m \in 1..n
    BY <1>1, <1>2, <1>4, <1>10, <2>2
  <2> QED
    BY <1>5, <2>1, <2>2
<1>11. Lists(r, S \cup {x})
  BY <1>4, <1>8, <1>9, <1>10, ListsIf
<1> QED
  BY <1>3, <1>11

\* Some list of a finite set.
LEMMA SetToSeqLists == ASSUME NEW S, IsFiniteSet(S) PROVE Lists(SetToSeq(S), S)
<1>1. PICK n \in Nat : ExistsBijection(1..n, S)
  BY FS_NatBijection
<1>2. n = Cardinality(S)
  BY <1>1, FS_CountingElements
<1>3. PICK g : g \in Bijection(1..n, S)
  BY <1>1 DEF ExistsBijection
<1>4. g \in [1..n -> S] /\ IsInjective(g)
  BY <1>3 DEF Bijection, Injection, IsInjective
<1>5. PICK f : f = SetToSeq(S)
  OBVIOUS
<1>6. f \in [1..n -> S] /\ IsInjective(f)
  BY <1>2, <1>4, <1>5 DEF SetToSeq
<1>7. f \in Injection(1..n, S)
  BY <1>6 DEF Injection, IsInjective
<1>8. Cardinality(1..n) = n
  BY FS_Interval
<1>9. f \in Surjection(1..n, S)
  BY <1>2, <1>7, <1>8, FS_Injection
<1>10. \A x \in S : \E k \in 1..n : f[k] = x
  BY <1>9 DEF Surjection
<1>11. f \in Seq(S) /\ Len(f) = n
  BY <1>6
<1>12. Lists(f, S)
  <2>1. \A k \in 1..n : f[k] \in S
    BY <1>6
  <2>2. \A k, m \in 1..n : f[k] = f[m] => k = m
    BY <1>6 DEF IsInjective
  <2> QED
    BY ONLY <1>10, <1>11, <2>1, <2>2, ListsIf
<1> QED
  BY <1>5, <1>12

-----------------------------------------------------------------------------
(***************************************************************************)
(* Graphs and annotations.                                                 *)
(***************************************************************************)

\* Every node reads sources and earlier results.
GraphInv ==
    /\ graph \in [Nodes -> Seq(Values)]
    /\ \A i \in Nodes : Used(i) \subseteq Sources \cup 1..(i - 1)
    /\ outputs \subseteq Values

\* What is known of annotations, however old: rewrites only add uses.  A reused
\* buffer is one that the same node releases.
Annotated(i, m) ==
    /\ m = [reuse |-> m.reuse, release |-> m.release, unused |-> m.unused]
    /\ Lists(m.release, Range(m.release)) /\ Lists(m.unused, Range(m.unused))
    /\ Range(m.release) \subseteq (Used(i) \cup {i}) \cap (Nodes \ outputs)
    /\ Range(m.unused) \subseteq Used(i) \cap Sources
    /\ \/ m.reuse = NoReuse
       \/ m.reuse \in DOMAIN graph[i] /\ graph[i][m.reuse] \in Range(m.release)
MetaInv == \A i \in Nodes : Annotated(i, meta[i])

\* Annotations as old as the graph name each release.
FreshInv ==
    fresh => \A i \in Nodes :
        Range(meta[i].release) = {v \in (Used(i) \cup {i}) \cap (Nodes \ outputs) : Dies(v) = i}

LEMMA GraphFacts ==
    ASSUME GraphInv
    PROVE  /\ NumNodes \in Nat /\ Nodes \subseteq Nat
           /\ \A i \in Nodes : /\ graph[i] \in Seq(Values) /\ Len(graph[i]) \in Nat
                               /\ DOMAIN graph[i] = 1..Len(graph[i])
                               /\ Used(i) \subseteq Sources \cup 1..(i - 1)
                               /\ Used(i) \subseteq Values
                               /\ i \notin Used(i) /\ i \notin Sources
           /\ Sources \cap Nodes = {} /\ 0 \notin Sources /\ Keep = Sources \cup outputs
<1>1. NumNodes \in Nat /\ Sources \cap 0..NumNodes = {}
  BY PlanAssumption
<1>2. Nodes \subseteq 0..NumNodes /\ Nodes \subseteq Nat /\ 0 \in 0..NumNodes
  BY <1>1 DEF Nodes
<1>3. ASSUME NEW i \in Nodes
      PROVE  /\ graph[i] \in Seq(Values) /\ Len(graph[i]) \in Nat
             /\ DOMAIN graph[i] = 1..Len(graph[i])
  BY DEF GraphInv
<1>4. ASSUME NEW i \in Nodes
      PROVE  i \notin Sources /\ i \notin 1..(i - 1) /\ 1..(i - 1) \subseteq Nodes
  BY <1>1, <1>2 DEF Nodes
<1> QED
  BY <1>1, <1>2, <1>3, <1>4 DEF GraphInv, Values, Keep

LEMMA NodeInputsLists == ASSUME GraphInv, NEW i \in Nodes PROVE Lists(NodeInputs(i), Used(i))
<1>1. PICK s : s = graph[i]
  OBVIOUS
<1>2. s \in Seq(Values) /\ Len(s) \in Nat /\ DOMAIN s = 1..Len(s)
  BY <1>1, GraphFacts
<1>3. PICK P : P = {k \in DOMAIN s : \A l \in 1..(k - 1) : s[l] # s[k]}
  OBVIOUS
<1>4. P \subseteq 1..Len(s) /\ \A k \in P : s[k] \in Used(i)
  BY <1>1, <1>2, <1>3 DEF Used, Range
<1>5. ASSUME NEW x \in Used(i) PROVE \E k \in P : s[k] = x
  <2>1. PICK S : S = {k \in 1..Len(s) : s[k] = x}
    OBVIOUS
  <2>2. S \subseteq Nat /\ S # {}
    BY <1>1, <1>2, <2>1 DEF Used, Range
  <2>3. PICK k \in S : \A l \in S : k <= l
    BY <2>2, LeastNat
  <2>4. \A l \in 1..(k - 1) : l \in 1..Len(s) /\ ~(k <= l)
    BY <1>2, <2>1
  <2>5. k \in P
    BY <1>2, <1>3, <2>1, <2>3, <2>4
  <2> QED
    BY <2>1, <2>5
<1>6. ASSUME NEW k \in P, NEW m \in P, s[k] = s[m] PROVE k = m
  <2>1. k \in 1..Len(s) /\ m \in 1..Len(s)
    BY <1>4
  <2>2. k \notin 1..(m - 1) /\ m \notin 1..(k - 1)
    BY <1>3, <1>6
  <2> QED
    BY ONLY <1>2, <2>1, <2>2
<1>7. Lists(At(s, P), Used(i))
  <2>1. OneEach(s, P, Used(i))
    BY <1>2, <1>4, <1>5, <1>6 DEF OneEach
  <2> QED
    BY ONLY <2>1, AtLists
<1> QED
  BY <1>1, <1>3, <1>7 DEF NodeInputs

\* LastUse is the last user.
LEMMA LastUseIs ==
    ASSUME NEW v, Users(v) # {}
    PROVE  LastUse(v) \in Users(v) /\ \A j \in Users(v) : j <= LastUse(v)
<1>1. NumNodes \in Nat /\ Users(v) \subseteq 1..NumNodes
  BY PlanAssumption DEF Users, Nodes
<1>2. PICK S : S = {NumNodes - j : j \in Users(v)}
  OBVIOUS
<1>3. S \subseteq Nat /\ S # {}
  <2>1. \A j \in Users(v) : NumNodes - j \in Nat
    BY <1>1
  <2> QED
    BY <1>2, <2>1
<1>4. PICK m \in S : \A k \in S : m <= k
  BY <1>3, LeastNat
<1>5. PICK i \in Users(v) : m = NumNodes - i
  BY <1>2
<1>6. ASSUME NEW j \in Users(v) PROVE j <= i
  <2>1. NumNodes - i <= NumNodes - j
    BY <1>2, <1>4, <1>5
  <2>2. i \in 1..NumNodes /\ j \in 1..NumNodes
    BY <1>1
  <2> QED
    BY ONLY <1>1, <2>1, <2>2
<1> QED
  BY <1>6 DEF LastUse

\* The last reads of a node, without LastUse.
LEMMA LastReadsIs ==
    ASSUME NEW i \in Nodes
    PROVE  LastReads(i) = {v \in Used(i) : Users(v) \subseteq 1..i}
<1> SUFFICES ASSUME NEW v \in Used(i) PROVE LastUse(v) = i <=> Users(v) \subseteq 1..i
  BY DEF LastReads
<1>1. i \in Users(v) /\ NumNodes \in Nat /\ i \in 1..NumNodes /\ Users(v) \subseteq 1..NumNodes
  BY PlanAssumption DEF Users, Nodes
<1>2. LastUse(v) \in Users(v) /\ \A j \in Users(v) : j <= LastUse(v)
  BY <1>1, LastUseIs
<1>3. ASSUME LastUse(v) = i, NEW j \in Users(v) PROVE j \in 1..i
  BY <1>1, <1>2, <1>3
<1>4. ASSUME Users(v) \subseteq 1..i PROVE LastUse(v) = i
  <2>1. LastUse(v) \in 1..i /\ i <= LastUse(v)
    BY <1>1, <1>2, <1>4
  <2> QED
    BY ONLY <1>1, <2>1
<1> QED
  BY <1>3, <1>4

LEMMA TimelyIs ==
    ASSUME NEW v, NEW i \in Nodes PROVE Timely(v, i) <=> Users(v) \subseteq 1..i
<1>1. CASE Users(v) = {}
  BY <1>1 DEF Timely
<1>2. CASE Users(v) # {}
  <2>1. LastUse(v) \in Users(v) /\ \A j \in Users(v) : j <= LastUse(v)
    BY <1>2, LastUseIs
  <2>2. NumNodes \in Nat /\ i \in 1..NumNodes /\ Users(v) \subseteq 1..NumNodes
    BY PlanAssumption DEF Users, Nodes
  <2>3. ASSUME i >= LastUse(v), NEW j \in Users(v) PROVE j \in 1..i
    <3>1. j <= LastUse(v) /\ j \in 1..NumNodes /\ LastUse(v) \in 1..NumNodes
      BY <2>1, <2>2
    <3> QED
      BY ONLY <2>2, <2>3, <3>1
  <2>4. ASSUME Users(v) \subseteq 1..i PROVE i >= LastUse(v)
    BY <2>1, <2>4
  <2> QED
    BY <1>2, <2>3, <2>4 DEF Timely
<1> QED
  BY <1>1, <1>2

\* Where a value dies: after its last use, or where it is made.
LEMMA DiesIs ==
    ASSUME GraphInv, NEW i \in Nodes, NEW v \in Used(i) \cup {i}
    PROVE  Dies(v) = i <=> Users(v) \subseteq 1..i
<1>1. i \in Nat /\ i \notin Used(i)
  BY GraphFacts
<1>2. CASE v \in Used(i)
  <2>1. i \in Users(v)
    BY <1>2 DEF Users
  <2>2. Dies(v) = LastUse(v)
    BY <2>1 DEF Dies
  <2>3. LastUse(v) = i <=> v \in LastReads(i)
    BY <1>2 DEF LastReads
  <2> QED
    BY <1>2, <2>2, <2>3, LastReadsIs
<1>3. CASE v = i
  <2>1. ASSUME NEW j \in Users(i) PROVE j \in Nat /\ j > i
    <3>1. j \in Nodes /\ i \in Used(j)
      BY DEF Users
    <3>2. i \in 1..(j - 1) /\ j \in Nat
      BY <3>1, GraphFacts
    <3> QED
      BY <1>1, <3>2
  <2>2. CASE Users(i) = {}
    BY <1>3, <2>2 DEF Dies
  <2>3. CASE Users(i) # {}
    <3>1. LastUse(i) \in Users(i) /\ Dies(i) = LastUse(i)
      BY <2>3, LastUseIs DEF Dies
    <3>2. LastUse(i) \in Nat /\ LastUse(i) > i
      BY <2>1, <3>1
    <3>3. Dies(i) # i /\ LastUse(i) \notin 1..i
      BY <1>1, <3>1, <3>2
    <3> QED
      BY <1>3, <3>1, <3>3
  <2> QED
    BY <2>2, <2>3
<1> QED
  BY <1>2, <1>3

\* The annotations of result_lifetime.cc.
LEMMA LifetimeLists ==
    ASSUME GraphInv, NEW i \in Nodes
    PROVE  /\ Lists(ReleaseAfter(i), {v \in (Used(i) \cup {i}) \cap (Nodes \ outputs) : Dies(v) = i})
           /\ Lists(NotUsedAfter(i), {v \in Used(i) \cap Sources : Dies(v) = i})
<1>1. /\ i \notin Used(i) /\ i \notin Sources /\ i \in Values /\ Used(i) \subseteq Values
  BY GraphFacts DEF Values
<1>2. PICK s : s = Append(NodeInputs(i), i)
  OBVIOUS
<1>3. Lists(s, Used(i) \cup {i})
  BY <1>1, <1>2, NodeInputsLists, ListsAppend
<1>4. PICK c : c = Candidates(i)
  OBVIOUS
<1>5. PICK D : D = {v \in Values : Dies(v) = i}
  OBVIOUS
<1>6. Lists(c, (Used(i) \cup {i}) \cap D)
  BY <1>2, <1>3, <1>4, <1>5, SelectLists DEF Candidates
<1>7. Lists(ReleaseAfter(i), ((Used(i) \cup {i}) \cap D) \cap (Nodes \ outputs))
  BY <1>4, <1>6, SelectLists DEF ReleaseAfter
<1>8. Lists(NotUsedAfter(i), ((Used(i) \cup {i}) \cap D) \cap Sources)
  BY <1>4, <1>6, SelectLists DEF NotUsedAfter
<1>9. /\ ((Used(i) \cup {i}) \cap D) \cap (Nodes \ outputs)
            = {v \in (Used(i) \cup {i}) \cap (Nodes \ outputs) : Dies(v) = i}
      /\ ((Used(i) \cup {i}) \cap D) \cap Sources = {v \in Used(i) \cap Sources : Dies(v) = i}
  BY <1>1, <1>5
<1> QED
  BY <1>7, <1>8, <1>9

\* A buffer that is reused dies at the node that takes it.
LEMMA ReuseFacts ==
    ASSUME GraphInv, NEW i \in Nodes, SingleNodeReuse(i) # NoReuse
    PROVE  /\ SingleNodeReuse(i) \in DOMAIN graph[i]
           /\ graph[i][SingleNodeReuse(i)] \in Used(i) \cap (Nodes \ outputs)
           /\ Dies(graph[i][SingleNodeReuse(i)]) = i
<1>1. ASSUME NEW kind, Reusable(i, kind) # {},
             NEW k, k = CHOOSE m \in Reusable(i, kind) : \A l \in Reusable(i, kind) : m <= l
      PROVE  k \in Reusable(i, kind)
  <2>1. Reusable(i, kind) \subseteq Nat
    BY GraphFacts DEF Reusable
  <2>2. \E m \in Reusable(i, kind) : \A l \in Reusable(i, kind) : m <= l
    BY <1>1, <2>1, LeastNat
  <2> QED
    BY <1>1, <2>2
<1>2. PICK k : k = SingleNodeReuse(i)
  OBVIOUS
<1>3. \E kind : k \in Reusable(i, kind)
  <2>1. CASE Reusable(i, "equal") # {}
    BY <1>1, <1>2, <2>1 DEF SingleNodeReuse
  <2>2. CASE Reusable(i, "equal") = {} /\ Reusable(i, "greater") # {}
    BY <1>1, <1>2, <2>2 DEF SingleNodeReuse
  <2>3. Reusable(i, "equal") # {} \/ Reusable(i, "greater") # {}
    BY DEF SingleNodeReuse
  <2> QED
    BY <2>1, <2>2, <2>3
<1>4. k \in DOMAIN graph[i] /\ graph[i][k] \notin Sources \cup outputs /\ LastUse(graph[i][k]) = i
  BY <1>3 DEF Reusable
<1>5. graph[i][k] \in Used(i)
  BY <1>4 DEF Used, Range
<1>6. i \in Users(graph[i][k])
  BY <1>5 DEF Users
<1>7. Dies(graph[i][k]) = i
  BY <1>4, <1>6 DEF Dies
<1>8. graph[i][k] \in Nodes
  BY <1>4, <1>5, GraphFacts DEF Values
<1> QED
  BY <1>2, <1>4, <1>5, <1>7, <1>8

-----------------------------------------------------------------------------
(***************************************************************************)
(* What BuildActions emits for a node, as sets.                            *)
(***************************************************************************)

\* The sources a node uses first.
NewAt(n) == {v \in Used(n) \cap Sources : \A m \in 1..(n - 1) : v \notin Used(m)}

\* The sources that are unlocked at their last use.
Freed == {v \in Sources : v \in ValidUnlocks \/ v \notin outputs}
UnlockedAt(n) == LastReads(n) \cap Freed

\* The sources in use after n nodes, and the ones that stay locked.
LockedAfter(n) ==
    {v \in Sources : /\ \E m \in 1..n : v \in Used(m)
                     /\ v \in Freed => ~(Users(v) \subseteq 1..n)}

\* The results a node is the end of: by its annotation, or by the topology.
DeletedAt(n) ==
    {v \in Nodes \ outputs : v \in Range(meta[n].release) \/ v \in LastReads(n) \ Explicit}

\* A deletion is not before the result is made.
LEMMA DeletedFacts ==
    ASSUME GraphInv, MetaInv, NEW n \in Nodes PROVE DeletedAt(n) \subseteq 1..n
<1>1. n \in Nat /\ n >= 1 /\ Used(n) \subseteq Sources \cup 1..(n - 1) /\ Sources \cap Nodes = {}
  BY GraphFacts DEF Nodes
<1>2. 1..(n - 1) \subseteq 1..n /\ n \in 1..n
  BY <1>1
<1>3. Range(meta[n].release) \subseteq Used(n) \cup {n}
  BY DEF MetaInv, Annotated
<1>4. LastReads(n) \subseteq Used(n)
  BY DEF LastReads
<1> QED
  BY <1>1, <1>2, <1>3, <1>4 DEF DeletedAt

LEMMA ReleasesLists ==
    ASSUME GraphInv, MetaInv, NEW n \in Nodes PROVE Lists(Releases(n), DeletedAt(n))
<1>1. /\ Lists(meta[n].release, Range(meta[n].release))
      /\ Range(meta[n].release) \subseteq Nodes \ outputs
  BY DEF MetaInv, Annotated
<1>2. PICK a : a = Select(meta[n].release, Values \ Keep)
  OBVIOUS
<1>3. Lists(a, Range(meta[n].release) \cap (Values \ Keep))
  BY <1>1, <1>2, SelectLists
<1>4. Lists(TopologyReleases(n), Used(n) \cap (LastReads(n) \ (Keep \cup Explicit)))
  BY NodeInputsLists, SelectLists DEF TopologyReleases
<1>5. Range(meta[n].release) \subseteq Explicit
  BY DEF Explicit
<1>6. PICK S, T : /\ S = Range(meta[n].release) \cap (Values \ Keep)
                  /\ T = Used(n) \cap (LastReads(n) \ (Keep \cup Explicit))
  OBVIOUS
<1>7. S \cap T = {}
  BY <1>5, <1>6
<1>8. S \cup T = DeletedAt(n)
  <2>1. Used(n) \subseteq Values /\ LastReads(n) \subseteq Used(n) /\ Keep = Sources \cup outputs
        /\ Sources \cap Nodes = {} /\ Values = Sources \cup Nodes
    BY GraphFacts DEF LastReads, Values
  <2> QED
    BY <1>1, <1>6, <2>1 DEF DeletedAt
<1>9. Lists(a \o TopologyReleases(n), S \cup T)
  BY <1>3, <1>4, <1>6, <1>7, ListsConcat
<1> QED
  BY <1>2, <1>8, <1>9 DEF Releases

LEMMA UnlocksLists ==
    ASSUME GraphInv, MetaInv, NEW n \in Nodes PROVE Lists(Unlocks(n), UnlockedAt(n))
<1>1. /\ Lists(meta[n].unused, Range(meta[n].unused))
      /\ \A i \in Nodes : Range(meta[i].unused) \subseteq Used(i) \cap Sources
  BY DEF MetaInv, Annotated
<1>2. PICK a : a = Select(meta[n].unused, {v \in Sources : Timely(v, n)})
  OBVIOUS
<1>3. PICK S, T : /\ S = Range(meta[n].unused) \cap {v \in Sources : Timely(v, n)}
                  /\ T = Used(n) \cap ((LastReads(n) \cap Sources) \ (outputs \cup ValidUnlocks))
  OBVIOUS
<1>4. Lists(a, S)
  BY <1>1, <1>2, <1>3, SelectLists
<1>5. Lists(TopologyUnlocks(n), T)
  BY <1>3, NodeInputsLists, SelectLists DEF TopologyUnlocks
<1>6. S \subseteq ValidUnlocks
  BY <1>3 DEF ValidUnlocks
<1>7. S \cap T = {}
  BY <1>3, <1>6
<1>8. S = LastReads(n) \cap ValidUnlocks
  <2>1. ASSUME NEW v \in S PROVE v \in LastReads(n)
    <3>1. v \in Used(n) /\ Users(v) \subseteq 1..n
      BY <1>1, <1>3, TimelyIs
    <3> QED
      BY <3>1, LastReadsIs
  <2>2. ASSUME NEW v \in LastReads(n), v \in ValidUnlocks PROVE v \in S
    <3>1. PICK i \in Nodes : v \in Range(meta[i].unused) /\ Timely(v, i)
      BY <2>2 DEF ValidUnlocks
    <3>2. i \in Users(v) /\ n \in Users(v) /\ v \in Sources
      BY <1>1, <3>1 DEF Users, LastReads
    <3>3. Users(v) \subseteq 1..i /\ Users(v) \subseteq 1..n
      BY <3>1, TimelyIs, LastReadsIs
    <3>4. i = n
      <4>1. i \in 1..n /\ n \in 1..i
        BY <3>2, <3>3
      <4> QED
        BY ONLY <4>1
    <3> QED
      BY <1>3, <3>1, <3>2, <3>4
  <2> QED
    BY <1>6, <2>1, <2>2
<1>9. S \cup T = UnlockedAt(n)
  <2>1. LastReads(n) \subseteq Used(n)
    BY DEF LastReads
  <2>2. ValidUnlocks \subseteq Sources
    BY DEF ValidUnlocks
  <2> QED
    BY <1>3, <1>8, <2>1, <2>2 DEF UnlockedAt, Freed
<1>10. Lists(a \o TopologyUnlocks(n), S \cup T)
  BY <1>4, <1>5, <1>7, ListsConcat
<1> QED
  BY <1>2, <1>9, <1>10 DEF Unlocks

\* What is locked after a node is what its actions leave locked.
LEMMA LockedStep ==
    ASSUME GraphInv, NEW n \in Nodes
    PROVE  /\ LockedAfter(n) = (LockedAfter(n - 1) \cup NewAt(n)) \ UnlockedAt(n)
           /\ (Used(n) \cap Sources) \ LockedAfter(n - 1) = NewAt(n)
           /\ Used(n) \cap Sources \subseteq LockedAfter(n - 1) \cup NewAt(n)
           /\ UnlockedAt(n) \subseteq LockedAfter(n - 1) \cup NewAt(n)
           /\ NewAt(n) \cap LockedAfter(n - 1) = {}
<1>1. n \in Nat /\ n >= 1 /\ Nodes \subseteq Nat
  BY GraphFacts DEF Nodes
<1>2. \A m : m \in 1..n <=> m \in 1..(n - 1) \/ m = n
  BY <1>1
<1>3. n \notin 1..(n - 1)
  BY <1>1
<1>4. \A v : n \in Users(v) <=> v \in Used(n)
  BY DEF Users
<1>5. \A v : v \in UnlockedAt(n) <=> v \in Used(n) /\ Users(v) \subseteq 1..n /\ v \in Freed
  BY LastReadsIs DEF UnlockedAt
<1>6. Freed \subseteq Sources
  BY DEF Freed
<1>7. \A v : v \in Used(n) => ~(Users(v) \subseteq 1..(n - 1))
  BY <1>3, <1>4
<1>8. \A v : v \in LockedAfter(n - 1) <=>
          v \in Sources /\ (\E m \in 1..(n - 1) : v \in Used(m))
            /\ (v \in Freed => ~(Users(v) \subseteq 1..(n - 1)))
  BY DEF LockedAfter
<1>9. \A v : v \in LockedAfter(n) <=>
          v \in Sources /\ (\E m \in 1..n : v \in Used(m)) /\ (v \in Freed => ~(Users(v) \subseteq 1..n))
  BY DEF LockedAfter
<1>10. \A v : v \in NewAt(n) <=> v \in Used(n) /\ v \in Sources /\ ~ \E m \in 1..(n - 1) : v \in Used(m)
  BY DEF NewAt
<1>11. (Used(n) \cap Sources) \ LockedAfter(n - 1) = NewAt(n)
  BY <1>7, <1>8, <1>10
<1>12. UnlockedAt(n) \subseteq Used(n) \cap Sources
  BY <1>5, <1>6
<1>13. ASSUME NEW v
       PROVE  v \in LockedAfter(n) <=> v \in (LockedAfter(n - 1) \cup NewAt(n)) \ UnlockedAt(n)
  <2>1. (\E m \in 1..n : v \in Used(m)) <=> v \in Used(n) \/ \E m \in 1..(n - 1) : v \in Used(m)
    BY <1>2
  <2>2. v \notin Used(n) => (Users(v) \subseteq 1..n <=> Users(v) \subseteq 1..(n - 1))
    BY <1>2, <1>4
  <2> QED
    BY <1>5, <1>7, <1>8, <1>9, <1>10, <2>1, <2>2
<1>14. LockedAfter(n) = (LockedAfter(n - 1) \cup NewAt(n)) \ UnlockedAt(n)
  BY <1>13
<1> QED
  BY <1>11, <1>12, <1>14

\* Nothing is locked at the start, and the end leaves only outputs locked.
LEMMA LockedEnds ==
    ASSUME GraphInv PROVE LockedAfter(0) = {} /\ LockedAfter(NumNodes) \subseteq outputs
<1>1. 1..0 = {}
  OBVIOUS
<1>2. \A v : Users(v) \subseteq 1..NumNodes
  BY DEF Users, Nodes
<1> QED
  BY <1>1, <1>2 DEF LockedAfter, Freed

\* Every result that is used and no output is deleted, after its uses if no
\* annotation is stale.
LEMMA EveryUsedIsDeleted ==
    ASSUME GraphInv, MetaInv, NEW v \in Nodes \ outputs, Users(v) # {}
    PROVE  \E n \in Nodes : v \in DeletedAt(n)
<1>1. LastUse(v) \in Users(v)
  BY LastUseIs
<1>2. LastUse(v) \in Nodes /\ v \in LastReads(LastUse(v))
  BY <1>1 DEF Users, LastReads
<1>3. CASE v \in Explicit
  BY <1>3 DEF Explicit, DeletedAt
<1>4. CASE v \notin Explicit
  BY <1>2, <1>4 DEF DeletedAt
<1> QED
  BY <1>3, <1>4

LEMMA DeletedInTime ==
    ASSUME GraphInv, MetaInv, ~StaleRelease, NEW n \in Nodes, NEW v \in DeletedAt(n)
    PROVE  Users(v) \subseteq 1..n
<1>1. CASE v \in Range(meta[n].release)
  BY <1>1, TimelyIs DEF StaleRelease
<1>2. CASE v \in LastReads(n)
  BY <1>2, LastReadsIs
<1> QED
  BY <1>1, <1>2 DEF DeletedAt

-----------------------------------------------------------------------------
(***************************************************************************)
(* Replays.  A list of actions takes the replay from one state to another  *)
(* when every action does what it is for: a lock finds its name unlocked,  *)
(* an unlock finds it locked, and a node finds all it reads.               *)
(***************************************************************************)

State(l, h, s) == [locked |-> l, held |-> h, spoilt |-> s]

Does(acts, p, a, b) ==
    LET c == acts[p] IN
    \/ /\ c.kind = "lock" /\ c.name \notin a.locked
       /\ b = State(a.locked \cup {c.name}, a.held, a.spoilt)
    \/ /\ c.kind = "unlock" /\ c.name \in a.locked
       /\ b = State(a.locked \ {c.name}, a.held, a.spoilt)
    \/ c.kind = "allocate" /\ b = a
    \/ /\ c.kind = "execute" /\ p - 1 \in DOMAIN acts
       /\ Used(c.node) \subseteq a.held \ a.spoilt
       /\ Used(c.node) \cap Sources \subseteq a.locked
       /\ b = State(a.locked, a.held \cup {c.node}, a.spoilt \cup {acts[p - 1].target})
    \/ /\ c.kind = "delete"
       /\ b = State(a.locked, IF releases THEN a.held \ {c.name} ELSE a.held, a.spoilt)

LEMMA StateFacts ==
    \A l, h, s : /\ State(l, h, s).locked = l /\ State(l, h, s).held = h
                 /\ State(l, h, s).spoilt = s
  BY DEF State

\* The states a list of actions passes through.
Trace(acts, st) ==
    /\ \E T : acts \in Seq(T)
    /\ st = [p \in 1..(Len(acts) + 1) |-> st[p]]
    /\ \A p \in 1..Len(acts) : Does(acts, p, st[p], st[p + 1])

Leads(acts, a, b) == \E st : Trace(acts, st) /\ st[1] = a /\ st[Len(acts) + 1] = b

LEMMA LeadsNowhere == ASSUME NEW a PROVE Leads(<<>>, a, a)
<1>1. PICK st : st = [p \in 1..(0 + 1) |-> a]
  OBVIOUS
<1>2. <<>> \in Seq({}) /\ Len(<<>>) = 0 /\ 1..0 = {}
  OBVIOUS
<1>3. st[1] = a /\ st[0 + 1] = a /\ st = [p \in 1..(0 + 1) |-> st[p]]
  BY <1>1
<1>4. Trace(<<>>, st)
  BY <1>2, <1>3 DEF Trace
<1> QED
  BY <1>2, <1>3, <1>4 DEF Leads

LEMMA LeadsOn ==
    ASSUME NEW x, NEW y, NEW a, NEW b, NEW c, Leads(x, a, b), Leads(y, b, c)
    PROVE  Leads(x \o y, a, c)
<1>1. PICK f : Trace(x, f) /\ f[1] = a /\ f[Len(x) + 1] = b
  BY DEF Leads
<1>2. PICK g : Trace(y, g) /\ g[1] = b /\ g[Len(y) + 1] = c
  BY DEF Leads
<1>3. PICK X : x \in Seq(X)
  BY <1>1 DEF Trace
<1>4. PICK Y : y \in Seq(Y)
  BY <1>2 DEF Trace
<1>5. PICK z : z = x \o y
  OBVIOUS
<1>6. PICK n, m \in Nat : n = Len(x) /\ m = Len(y)
  BY <1>3, <1>4
<1>7. /\ z \in Seq(X \cup Y) /\ Len(z) = n + m /\ DOMAIN z = 1..(n + m)
      /\ DOMAIN x = 1..n /\ DOMAIN y = 1..m
      /\ \A k \in 1..n : z[k] = x[k]
      /\ \A k \in 1..m : z[n + k] = y[k]
  <2>1. x \in Seq(X \cup Y) /\ y \in Seq(X \cup Y)
    BY <1>3, <1>4
  <2> QED
    BY <1>5, <1>6, <2>1
<1>8. PICK h : h = [p \in 1..((n + m) + 1) |-> IF p <= n THEN f[p] ELSE g[p - n]]
  OBVIOUS
<1>9. h = [p \in 1..((n + m) + 1) |-> h[p]]
  BY <1>8
<1>10. ASSUME NEW p \in 1..(n + 1) PROVE h[p] = f[p]
  <2>1. CASE p <= n
    BY <1>8, <2>1
  <2>2. CASE p = n + 1
    <3>1. h[p] = g[1]
      BY <1>8, <2>2
    <3> QED
      BY <1>1, <1>2, <1>6, <2>2, <3>1
  <2> QED
    BY <2>1, <2>2
<1>11. ASSUME NEW p \in 1..(m + 1) PROVE h[n + p] = g[p]
  <2>1. n + p \in 1..((n + m) + 1) /\ ~(n + p <= n) /\ (n + p) - n = p
    OBVIOUS
  <2> QED
    BY <1>8, <2>1
<1>12. ASSUME NEW p \in 1..(n + m) PROVE Does(z, p, h[p], h[p + 1])
  <2>1. CASE p <= n
    <3>1. p \in 1..n /\ p \in 1..(n + 1) /\ p + 1 \in 1..(n + 1)
      BY <2>1
    <3>2. Does(x, p, h[p], h[p + 1])
      BY <1>1, <1>6, <1>10, <3>1 DEF Trace
    <3>3. z[p] = x[p] /\ (p - 1 \in DOMAIN x => p - 1 \in DOMAIN z /\ z[p - 1] = x[p - 1])
      BY <1>7, <3>1
    <3> QED
      BY <3>2, <3>3 DEF Does
  <2>2. CASE ~(p <= n)
    <3>1. PICK q \in 1..m : p = n + q
      <4>1. p - n \in 1..m /\ p = n + (p - n)
        BY <2>2
      <4> QED
        BY <4>1
    <3>2. q \in 1..(m + 1) /\ q + 1 \in 1..(m + 1) /\ p + 1 = n + (q + 1) /\ p - 1 = n + (q - 1)
      BY <3>1
    <3>3. Does(y, q, h[p], h[p + 1])
      <4>1. h[p] = g[q] /\ h[p + 1] = g[q + 1]
        BY <1>11, <3>1, <3>2
      <4> QED
        BY <1>2, <1>6, <4>1 DEF Trace
    <3>4. z[p] = y[q] /\ (q - 1 \in DOMAIN y => p - 1 \in DOMAIN z /\ z[p - 1] = y[q - 1])
      <4>1. q - 1 \in 1..m => n + (q - 1) \in 1..(n + m)
        OBVIOUS
      <4> QED
        BY <1>7, <3>1, <3>2, <4>1
    <3> QED
      BY <3>3, <3>4 DEF Does
  <2> QED
    BY <2>1, <2>2
<1>13. Trace(z, h)
  BY <1>7, <1>9, <1>12 DEF Trace
<1>14. h[1] = a /\ h[(n + m) + 1] = c
  <2>1. 1 \in 1..(n + 1) /\ m + 1 \in 1..(m + 1) /\ n + (m + 1) = (n + m) + 1
    OBVIOUS
  <2> QED
    BY <1>1, <1>2, <1>6, <1>10, <1>11, <2>1
<1> QED
  BY <1>5, <1>7, <1>13, <1>14 DEF Leads

\* The first elements of a list.
Before(s, p) == {s[k] : k \in 1..(p - 1)}

LEMMA BeforeFacts ==
    ASSUME NEW s, NEW S, Lists(s, S)
    PROVE  /\ Before(s, 1) = {} /\ Before(s, Len(s) + 1) = S
           /\ \A p \in 1..Len(s) : /\ Before(s, p + 1) = Before(s, p) \cup {s[p]}
                                   /\ s[p] \in S \ Before(s, p)
<1>1. /\ Len(s) \in Nat
      /\ \A k \in 1..Len(s) : s[k] \in S
      /\ \A x \in S : \E k \in 1..Len(s) : s[k] = x
      /\ \A k, m \in 1..Len(s) : s[k] = s[m] => k = m
  BY ListsFacts
<1>2. 1..(1 - 1) = {} /\ 1..((Len(s) + 1) - 1) = 1..Len(s)
  BY <1>1
<1>3. ASSUME NEW p \in 1..Len(s)
      PROVE  /\ Before(s, p + 1) = Before(s, p) \cup {s[p]}
             /\ s[p] \in S \ Before(s, p)
  <2>1. /\ 1..((p + 1) - 1) = (1..(p - 1)) \cup {p}
        /\ \A k \in 1..(p - 1) : k \in 1..Len(s) /\ k # p
    BY <1>1
  <2>2. Before(s, p + 1) = Before(s, p) \cup {s[p]}
    BY <2>1 DEF Before
  <2>3. \A k \in 1..(p - 1) : s[k] # s[p]
    BY <1>1, <2>1
  <2> QED
    BY <1>1, <2>2, <2>3 DEF Before
<1>4. Before(s, 1) = {} /\ Before(s, Len(s) + 1) = S
  BY <1>1, <1>2 DEF Before
<1> QED
  BY <1>3, <1>4

LEMMA LeadsLocks ==
    ASSUME NEW s, NEW S, Lists(s, S), NEW l, NEW h, NEW t, S \cap l = {}
    PROVE  Leads(Each(s, Lock), State(l, h, t), State(l \cup S, h, t))
<1>1. s \in Seq(S) /\ Len(s) \in Nat /\ DOMAIN s = 1..Len(s)
  BY ListsFacts
<1>2. PICK e : e = [k \in 1..Len(s) |-> Lock(s[k])]
  OBVIOUS
<1>3. e = Each(s, Lock)
  BY <1>1, <1>2 DEF Each
<1>4. /\ e \in Seq({Lock(v) : v \in S}) /\ Len(e) = Len(s)
      /\ \A k \in 1..Len(s) : e[k].kind = "lock" /\ e[k].name = s[k]
  <2>1. \A k \in 1..Len(s) : s[k] \in S
    BY <1>1
  <2>2. e \in Seq({Lock(v) : v \in S}) /\ Len(e) = Len(s)
    BY <1>1, <1>2, <2>1
  <2>3. \A k \in 1..Len(s) : e[k].kind = "lock" /\ e[k].name = s[k]
    BY <1>2 DEF Lock, Act
  <2> QED
    BY <2>2, <2>3
<1>5. PICK st : st = [p \in 1..(Len(s) + 1) |-> State(l \cup Before(s, p), h, t)]
  OBVIOUS
<1>6. \A p \in 1..(Len(s) + 1) : st[p] = State(l \cup Before(s, p), h, t)
  BY <1>5
<1>7. st = [p \in 1..(Len(s) + 1) |-> st[p]]
  BY <1>5
<1>8. ASSUME NEW p \in 1..Len(s) PROVE Does(e, p, st[p], st[p + 1])
  <2>1. p \in 1..(Len(s) + 1) /\ p + 1 \in 1..(Len(s) + 1)
    BY <1>1
  <2>0. /\ st[p] = State(l \cup Before(s, p), h, t)
        /\ st[p + 1] = State(l \cup Before(s, p + 1), h, t)
    BY <1>6, <2>1
  <2>2. /\ st[p].locked = l \cup Before(s, p) /\ st[p].held = h /\ st[p].spoilt = t
        /\ st[p + 1] = State(l \cup Before(s, p + 1), h, t)
    BY <2>0, StateFacts
  <2>3. Before(s, p + 1) = Before(s, p) \cup {s[p]} /\ s[p] \in S \ Before(s, p)
    BY BeforeFacts
  <2>4. l \cup Before(s, p + 1) = st[p].locked \cup {e[p].name} /\ e[p].name \notin st[p].locked
    BY <1>4, <2>2, <2>3
  <2>5. e[p].kind = "lock"
    BY <1>4
  <2> QED
    BY <2>2, <2>4, <2>5 DEF Does
<1>9. Trace(e, st)
  BY <1>4, <1>7, <1>8 DEF Trace
<1>10. st[1] = State(l, h, t) /\ st[Len(s) + 1] = State(l \cup S, h, t)
  <2>1. 1 \in 1..(Len(s) + 1) /\ Len(s) + 1 \in 1..(Len(s) + 1)
    BY <1>1
  <2>2. l \cup Before(s, 1) = l /\ Before(s, Len(s) + 1) = S
    BY BeforeFacts
  <2> QED
    BY <1>6, <2>1, <2>2
<1> QED
  BY <1>3, <1>4, <1>9, <1>10 DEF Leads

LEMMA LeadsUnlocks ==
    ASSUME NEW s, NEW S, Lists(s, S), NEW l, NEW h, NEW t, S \subseteq l
    PROVE  Leads(Each(s, Unlock), State(l, h, t), State(l \ S, h, t))
<1>1. s \in Seq(S) /\ Len(s) \in Nat /\ DOMAIN s = 1..Len(s)
  BY ListsFacts
<1>2. PICK e : e = [k \in 1..Len(s) |-> Unlock(s[k])]
  OBVIOUS
<1>3. e = Each(s, Unlock)
  BY <1>1, <1>2 DEF Each
<1>4. /\ e \in Seq({Unlock(v) : v \in S}) /\ Len(e) = Len(s)
      /\ \A k \in 1..Len(s) : e[k].kind = "unlock" /\ e[k].name = s[k]
  <2>1. \A k \in 1..Len(s) : s[k] \in S
    BY <1>1
  <2>2. e \in Seq({Unlock(v) : v \in S}) /\ Len(e) = Len(s)
    BY <1>1, <1>2, <2>1
  <2>3. \A k \in 1..Len(s) : e[k].kind = "unlock" /\ e[k].name = s[k]
    BY <1>2 DEF Unlock, Act
  <2> QED
    BY <2>2, <2>3
<1>5. PICK st : st = [p \in 1..(Len(s) + 1) |-> State(l \ Before(s, p), h, t)]
  OBVIOUS
<1>6. \A p \in 1..(Len(s) + 1) : st[p] = State(l \ Before(s, p), h, t)
  BY <1>5
<1>7. st = [p \in 1..(Len(s) + 1) |-> st[p]]
  BY <1>5
<1>8. ASSUME NEW p \in 1..Len(s) PROVE Does(e, p, st[p], st[p + 1])
  <2>1. p \in 1..(Len(s) + 1) /\ p + 1 \in 1..(Len(s) + 1)
    BY <1>1
  <2>0. /\ st[p] = State(l \ Before(s, p), h, t)
        /\ st[p + 1] = State(l \ Before(s, p + 1), h, t)
    BY <1>6, <2>1
  <2>2. /\ st[p].locked = l \ Before(s, p) /\ st[p].held = h /\ st[p].spoilt = t
        /\ st[p + 1] = State(l \ Before(s, p + 1), h, t)
    BY <2>0, StateFacts
  <2>3. Before(s, p + 1) = Before(s, p) \cup {s[p]} /\ s[p] \in S \ Before(s, p)
    BY BeforeFacts
  <2>4. l \ Before(s, p + 1) = st[p].locked \ {e[p].name} /\ e[p].name \in st[p].locked
    BY <1>4, <2>2, <2>3
  <2>5. e[p].kind = "unlock"
    BY <1>4
  <2> QED
    BY <2>2, <2>4, <2>5 DEF Does
<1>9. Trace(e, st)
  BY <1>4, <1>7, <1>8 DEF Trace
<1>10. st[1] = State(l, h, t) /\ st[Len(s) + 1] = State(l \ S, h, t)
  <2>1. 1 \in 1..(Len(s) + 1) /\ Len(s) + 1 \in 1..(Len(s) + 1)
    BY <1>1
  <2>2. l \ Before(s, 1) = l /\ Before(s, Len(s) + 1) = S
    BY BeforeFacts
  <2> QED
    BY <1>6, <2>1, <2>2
<1> QED
  BY <1>3, <1>4, <1>9, <1>10 DEF Leads

LEMMA LeadsDeletes ==
    ASSUME NEW s, NEW S, Lists(s, S), NEW n, NEW l, NEW h, NEW t
    PROVE  Leads([k \in DOMAIN s |-> Delete(s[k], n)], State(l, h, t),
                 State(l, IF releases THEN h \ S ELSE h, t))
<1> DEFINE Passes(p) == State(l, IF releases THEN h \ Before(s, p) ELSE h, t)
<1>1. s \in Seq(S) /\ Len(s) \in Nat /\ DOMAIN s = 1..Len(s)
  BY ListsFacts
<1>2. PICK e : e = [k \in 1..Len(s) |-> Delete(s[k], n)]
  OBVIOUS
<1>3. e = [k \in DOMAIN s |-> Delete(s[k], n)]
  BY <1>1, <1>2
<1>4. /\ e \in Seq({Delete(v, n) : v \in S}) /\ Len(e) = Len(s)
      /\ \A k \in 1..Len(s) : e[k].kind = "delete" /\ e[k].name = s[k]
  <2>1. \A k \in 1..Len(s) : s[k] \in S
    BY <1>1
  <2>2. e \in Seq({Delete(v, n) : v \in S}) /\ Len(e) = Len(s)
    BY <1>1, <1>2, <2>1
  <2>3. \A k \in 1..Len(s) : e[k].kind = "delete" /\ e[k].name = s[k]
    BY <1>2 DEF Delete, Act
  <2> QED
    BY <2>2, <2>3
<1>5. PICK st : st = [p \in 1..(Len(s) + 1) |-> Passes(p)]
  OBVIOUS
<1>6. \A p \in 1..(Len(s) + 1) : st[p] = Passes(p)
  BY <1>5
<1>7. st = [p \in 1..(Len(s) + 1) |-> st[p]]
  BY <1>5
<1>8. ASSUME NEW p \in 1..Len(s) PROVE Does(e, p, st[p], st[p + 1])
  <2>1. p \in 1..(Len(s) + 1) /\ p + 1 \in 1..(Len(s) + 1)
    BY <1>1
  <2>0. /\ st[p] = State(l, IF releases THEN h \ Before(s, p) ELSE h, t)
        /\ st[p + 1] = State(l, IF releases THEN h \ Before(s, p + 1) ELSE h, t)
    BY <1>6, <2>1
  <2>2. /\ st[p].locked = l /\ st[p].spoilt = t
        /\ st[p].held = IF releases THEN h \ Before(s, p) ELSE h
        /\ st[p + 1] = State(l, IF releases THEN h \ Before(s, p + 1) ELSE h, t)
    BY <2>0, StateFacts
  <2>3. Before(s, p + 1) = Before(s, p) \cup {s[p]}
    BY BeforeFacts
  <2>4. (IF releases THEN h \ Before(s, p + 1) ELSE h)
            = IF releases THEN st[p].held \ {e[p].name} ELSE st[p].held
    BY <1>4, <2>2, <2>3
  <2>5. e[p].kind = "delete"
    BY <1>4
  <2> QED
    BY <2>2, <2>4, <2>5 DEF Does
<1>9. Trace(e, st)
  BY <1>4, <1>7, <1>8 DEF Trace
<1>10. st[1] = State(l, h, t) /\ st[Len(s) + 1] = State(l, IF releases THEN h \ S ELSE h, t)
  <2>1. 1 \in 1..(Len(s) + 1) /\ Len(s) + 1 \in 1..(Len(s) + 1)
    BY <1>1
  <2>2. h \ Before(s, 1) = h /\ Before(s, Len(s) + 1) = S
    BY BeforeFacts
  <2>3. (IF releases THEN h \ Before(s, 1) ELSE h) = h
    BY <2>2
  <2> QED
    BY <1>6, <2>1, <2>2, <2>3
<1> QED
  BY <1>3, <1>4, <1>9, <1>10 DEF Leads

LEMMA LeadsNode ==
    ASSUME NEW n, NEW l, NEW h, NEW t, Used(n) \subseteq h \ t, Used(n) \cap Sources \subseteq l
    PROVE  Leads(<<Allocate(n), Execute(n)>>, State(l, h, t),
                 State(l, h \cup {n}, t \cup {Allocate(n).target}))
<1>1. PICK x, y : x = Allocate(n) /\ y = Execute(n)
  OBVIOUS
<1>2. x.kind = "allocate" /\ y.kind = "execute" /\ y.node = n
  BY <1>1 DEF Allocate, Execute, Act
<1>3. PICK a, b : a = State(l, h, t) /\ b = State(l, h \cup {n}, t \cup {x.target})
  OBVIOUS
<1>4. PICK e, st : e = <<x, y>> /\ st = [p \in 1..(2 + 1) |-> IF p = 3 THEN b ELSE a]
  OBVIOUS
<1>5. /\ e \in Seq({x, y}) /\ Len(e) = 2 /\ DOMAIN e = {1, 2} /\ e[1] = x /\ e[2] = y
      /\ st[1] = a /\ st[2] = a /\ st[3] = b /\ st = [p \in 1..(2 + 1) |-> st[p]]
  BY <1>4
<1>6. Does(e, 1, a, a)
  BY <1>2, <1>5 DEF Does
<1>7. Does(e, 2, a, b)
  <2>1. a.locked = l /\ a.held = h /\ a.spoilt = t
    BY <1>3 DEF State
  <2>2. 2 - 1 \in DOMAIN e /\ e[2 - 1] = x
    BY <1>5
  <2> QED
    BY <1>2, <1>3, <1>5, <2>1, <2>2 DEF Does
<1>8. \A p \in 1..2 : Does(e, p, st[p], st[p + 1])
  <2>1. ASSUME NEW p \in 1..2 PROVE (p = 1 /\ p + 1 = 2) \/ (p = 2 /\ p + 1 = 3)
    OBVIOUS
  <2> QED
    BY <1>5, <1>6, <1>7, <2>1
<1>9. Trace(e, st)
  BY <1>5, <1>8 DEF Trace
<1>10. st[1] = a /\ st[2 + 1] = b
  BY <1>5
<1>11. Leads(e, a, b)
  BY <1>5, <1>9, <1>10 DEF Leads
<1> QED
  BY <1>1, <1>3, <1>4, <1>11

-----------------------------------------------------------------------------
(***************************************************************************)
(* The loop of BuildActions leads from node to node.                       *)
(***************************************************************************)

DeletedBy(n) == UNION {DeletedAt(m) : m \in 1..n}
HeldAfter(n) == IF releases THEN (Sources \cup 1..n) \ DeletedBy(n) ELSE Sources \cup 1..n
SpoiltAfter(n) == {Allocate(m).target : m \in 1..n}
StateAfter(n) == State(LockedAfter(n), HeldAfter(n), SpoiltAfter(n))

\* The target of a reuse is read by no later node and is no output.
LEMMA TargetFacts ==
    ASSUME GraphInv, MetaInv, ~StaleRelease, NEW n \in Nodes
    PROVE  \/ Allocate(n).target = 0
           \/ /\ Allocate(n).target \in Nodes \ outputs
              /\ Users(Allocate(n).target) \subseteq 1..n
<1>1. PICK k : k = meta[n].reuse
  OBVIOUS
<1>2. Allocate(n).target = IF k \in DOMAIN graph[n] THEN graph[n][k] ELSE 0
  BY <1>1 DEF Allocate
<1>3. k = NoReuse \/ (k \in DOMAIN graph[n] /\ graph[n][k] \in Range(meta[n].release))
  BY <1>1 DEF MetaInv, Annotated
<1>4. NoReuse \notin DOMAIN graph[n]
  BY GraphFacts DEF NoReuse
<1>5. CASE k = NoReuse
  BY <1>2, <1>4, <1>5
<1>6. CASE k \in DOMAIN graph[n] /\ graph[n][k] \in Range(meta[n].release)
  <2>1. Timely(graph[n][k], n)
    BY <1>6 DEF StaleRelease
  <2>2. graph[n][k] \in Nodes \ outputs
    BY <1>6 DEF MetaInv, Annotated
  <2> QED
    BY <1>2, <1>6, <2>1, <2>2, TimelyIs
<1> QED
  BY <1>3, <1>5, <1>6

\* A node finds what it reads.
LEMMA ReadsFound ==
    ASSUME GraphInv, MetaInv, ~StaleRelease, NEW n \in Nodes
    PROVE  Used(n) \subseteq HeldAfter(n - 1) \ SpoiltAfter(n - 1)
<1>1. /\ n \in 1..NumNodes /\ NumNodes \in Nat /\ Used(n) \subseteq Sources \cup 1..(n - 1)
      /\ 0 \notin Sources
  BY GraphFacts DEF Nodes
<1>2. \A m \in 1..(n - 1) : m \in Nodes /\ n \notin 1..m
  BY <1>1 DEF Nodes
<1>3. 0 \notin 1..(n - 1)
  BY <1>1
<1>4. ASSUME NEW v \in Used(n), NEW m \in 1..(n - 1)
      PROVE  v \notin DeletedAt(m) /\ v # Allocate(m).target
  <2>1. n \in Users(v)
    BY DEF Users
  <2>2. ~(Users(v) \subseteq 1..m)
    BY <1>2, <2>1
  <2>3. v \notin DeletedAt(m)
    BY <1>2, <2>2, DeletedInTime
  <2>4. v # 0
    BY <1>1, <1>3
  <2> QED
    BY <1>2, <2>2, <2>3, <2>4, TargetFacts
<1> QED
  BY <1>1, <1>4 DEF HeldAfter, SpoiltAfter, DeletedBy

LEMMA HeldStep ==
    ASSUME GraphInv, MetaInv, NEW n \in Nodes
    PROVE  /\ HeldAfter(n) = IF releases THEN (HeldAfter(n - 1) \cup {n}) \ DeletedAt(n)
                             ELSE HeldAfter(n - 1) \cup {n}
           /\ SpoiltAfter(n) = SpoiltAfter(n - 1) \cup {Allocate(n).target}
<1>1. n \in 1..NumNodes /\ NumNodes \in Nat
  BY GraphFacts DEF Nodes
<1>2. 1..n = (1..(n - 1)) \cup {n} /\ \A m \in 1..(n - 1) : m \in Nodes /\ n \notin 1..m
  BY <1>1 DEF Nodes
<1>3. n \notin DeletedBy(n - 1)
  BY <1>2, DeletedFacts DEF DeletedBy
<1>4. DeletedBy(n) = DeletedBy(n - 1) \cup DeletedAt(n)
  BY <1>2 DEF DeletedBy
<1>5. SpoiltAfter(n) = SpoiltAfter(n - 1) \cup {Allocate(n).target}
  BY <1>2 DEF SpoiltAfter
<1>6. (Sources \cup 1..n) \ DeletedBy(n)
        = (((Sources \cup 1..(n - 1)) \ DeletedBy(n - 1)) \cup {n}) \ DeletedAt(n)
  BY <1>2, <1>3, <1>4
<1>7. Sources \cup 1..n = (Sources \cup 1..(n - 1)) \cup {n}
  BY <1>2
<1> QED
  BY <1>5, <1>6, <1>7 DEF HeldAfter

\* One round of the loop.
LEMMA NodeLeads ==
    ASSUME GraphInv, MetaInv, ~StaleRelease, NEW n \in Nodes, NEW a, NEW before,
           before.locked = LockedAfter(n - 1), Leads(before.acts, a, StateAfter(n - 1))
    PROVE  /\ NodeActions(before, n).locked = LockedAfter(n)
           /\ Leads(NodeActions(before, n).acts, a, StateAfter(n))
<1>1. PICK l, h, t : l = LockedAfter(n - 1) /\ h = HeldAfter(n - 1) /\ t = SpoiltAfter(n - 1)
  OBVIOUS
<1>2. PICK l1 : l1 = l \cup NewAt(n)
  OBVIOUS
<1>3. PICK h1, t1 : h1 = h \cup {n} /\ t1 = t \cup {Allocate(n).target}
  OBVIOUS
<1>4. PICK h2 : h2 = IF releases THEN h1 \ DeletedAt(n) ELSE h1
  OBVIOUS
<1>5. PICK news : news = Select(NodeInputs(n), Sources \ before.locked)
  OBVIOUS
<1>6. Lists(news, NewAt(n))
  <2>1. Used(n) \cap (Sources \ before.locked) = NewAt(n)
    BY LockedStep
  <2> QED
    BY <1>5, <2>1, NodeInputsLists, SelectLists
<1>7. PICK x0, x1, x2, x3, x4 :
        /\ x0 = before.acts /\ x1 = Each(news, Lock) /\ x2 = <<Allocate(n), Execute(n)>>
        /\ x3 = Each(Releases(n), LAMBDA v : Delete(v, n)) /\ x4 = Each(Unlocks(n), Unlock)
  OBVIOUS
<1>8. NodeActions(before, n).acts = (((x0 \o x1) \o x2) \o x3) \o x4
  BY <1>5, <1>7 DEF NodeActions
<1>9. NodeActions(before, n).locked = LockedAfter(n)
  <2>1. NodeActions(before, n).locked = (before.locked \cup Range(news)) \ Range(Unlocks(n))
    BY <1>5 DEF NodeActions
  <2>2. Range(news) = NewAt(n) /\ Range(Unlocks(n)) = UnlockedAt(n)
    BY <1>6, UnlocksLists DEF Lists
  <2> QED
    BY <2>1, <2>2, LockedStep
<1>10. Leads(x0, a, State(l, h, t))
  BY <1>1, <1>7 DEF StateAfter
<1>11. Leads(x1, State(l, h, t), State(l1, h, t))
  <2>1. NewAt(n) \cap l = {}
    BY <1>1, LockedStep
  <2> QED
    BY <1>2, <1>6, <1>7, <2>1, LeadsLocks
<1>12. Leads(x2, State(l1, h, t), State(l1, h1, t1))
  <2>1. Used(n) \subseteq h \ t
    BY <1>1, ReadsFound
  <2>2. Used(n) \cap Sources \subseteq l1
    BY <1>1, <1>2, LockedStep
  <2> QED
    BY <1>3, <1>7, <2>1, <2>2, LeadsNode
<1>13. Leads(x3, State(l1, h1, t1), State(l1, h2, t1))
  <2>1. x3 = [k \in DOMAIN Releases(n) |-> Delete(Releases(n)[k], n)]
    BY <1>7 DEF Each
  <2> QED
    BY <1>4, <2>1, ReleasesLists, LeadsDeletes
<1>14. Leads(x4, State(l1, h2, t1), State(l1 \ UnlockedAt(n), h2, t1))
  <2>1. UnlockedAt(n) \subseteq l1
    BY <1>1, <1>2, LockedStep
  <2> QED
    BY <1>7, <2>1, UnlocksLists, LeadsUnlocks
<1>15. State(l1 \ UnlockedAt(n), h2, t1) = StateAfter(n)
  <2>1. l1 \ UnlockedAt(n) = LockedAfter(n)
    BY <1>1, <1>2, LockedStep
  <2>2. h2 = HeldAfter(n) /\ t1 = SpoiltAfter(n)
    BY <1>1, <1>3, <1>4, HeldStep
  <2> QED
    BY <2>1, <2>2 DEF StateAfter
<1>16. Leads(x0 \o x1, a, State(l1, h, t))
  BY <1>10, <1>11, LeadsOn
<1>17. Leads((x0 \o x1) \o x2, a, State(l1, h1, t1))
  BY <1>12, <1>16, LeadsOn
<1>18. Leads(((x0 \o x1) \o x2) \o x3, a, State(l1, h2, t1))
  BY <1>13, <1>17, LeadsOn
<1>19. Leads((((x0 \o x1) \o x2) \o x3) \o x4, a, State(l1 \ UnlockedAt(n), h2, t1))
  BY <1>14, <1>18, LeadsOn
<1> QED
  BY <1>8, <1>9, <1>15, <1>19

\* The loop exists: a function on 0..NumNodes defined from the node before.
LoopBody(after, n) ==
    IF n = 0 THEN [acts |-> <<>>, locked |-> {}] ELSE NodeActions(after[n - 1], n)
IsLoop(after) == after = [n \in 0..NumNodes |-> LoopBody(after, n)]

LEMMA LoopExists == \E after : IsLoop(after)
<1> DEFINE N == NumNodes
           Upto(n, a) == /\ a = [k \in 0..N |-> a[k]]
                         /\ \A k \in 0..N : k <= n => a[k] = LoopBody(a, k)
           B == {n \in Nat : ~ \E a : Upto(n, a)}
<1>0. NumNodes \in Nat
  BY PlanAssumption
<1>1. 0 \notin B
  <2>1. PICK a : a = [k \in 0..N |-> [acts |-> <<>>, locked |-> {}]]
    OBVIOUS
  <2>2. \A k \in 0..N : k <= 0 => k = 0
    BY <1>0
  <2>3. Upto(0, a)
    BY <2>1, <2>2 DEF LoopBody
  <2> QED
    BY <2>3
<1>2. ASSUME NEW n \in Nat, n \notin B PROVE n + 1 \notin B
  <2>1. PICK a : Upto(n, a)
    BY <1>2
  <2>2. PICK h : h = [k \in 0..N |-> IF k <= n THEN a[k] ELSE LoopBody(a, k)]
    OBVIOUS
  <2>3. h = [k \in 0..N |-> h[k]]
    BY <2>2
  <2>4. ASSUME NEW k \in 0..N, k <= n + 1 PROVE h[k] = LoopBody(h, k)
    <3>1. h[k] = LoopBody(a, k)
      BY <2>1, <2>2
    <3>2. CASE k = 0
      BY <3>1, <3>2 DEF LoopBody
    <3>3. CASE k # 0
      <4>1. k - 1 \in 0..N /\ k - 1 <= n
        BY <1>0, <2>4, <3>3
      <4>2. h[k - 1] = a[k - 1]
        BY <2>2, <4>1
      <4> QED
        BY <3>1, <3>3, <4>2 DEF LoopBody
    <3> QED
      BY <3>2, <3>3
  <2>5. Upto(n + 1, h)
    BY <2>3, <2>4
  <2> QED
    BY <2>5
<1>3. B = {}
  <2> HIDE DEF Upto
  <2>1. B \subseteq Nat
    OBVIOUS
  <2> HIDE DEF B
  <2> QED
    BY <2>1, <1>1, <1>2, NoCounterexample
<1>4. PICK a : Upto(N, a)
  BY <1>0, <1>3
<1>5. \A k \in 0..N : a[k] = LoopBody(a, k)
  BY <1>0, <1>4
<1>6. a = [k \in 0..N |-> LoopBody(a, k)]
  BY <1>4, <1>5
<1> QED
  BY <1>6 DEF IsLoop

LEMMA AfterFacts ==
    /\ After[0] = [acts |-> <<>>, locked |-> {}]
    /\ \A n \in Nodes : After[n] = NodeActions(After[n - 1], n)
<1>0. NumNodes \in Nat
  BY PlanAssumption
<1>1. IsLoop(After)
  <2>1. After = CHOOSE after : IsLoop(after)
    BY DEF After, IsLoop, LoopBody
  <2> QED
    BY <2>1, LoopExists
<1>2. PICK a : a = After
  OBVIOUS
<1>3. \A n \in 0..NumNodes : a[n] = LoopBody(a, n)
  BY <1>1, <1>2 DEF IsLoop
<1>4. 0 \in 0..NumNodes /\ \A n \in Nodes : n \in 0..NumNodes /\ n # 0
  BY <1>0 DEF Nodes
<1> QED
  BY <1>2, <1>3, <1>4 DEF LoopBody

LEMMA LoopLeads ==
    ASSUME GraphInv, MetaInv, ~StaleRelease
    PROVE  /\ Loop.locked = LockedAfter(NumNodes)
           /\ Leads(Loop.acts, State({}, Sources, {}), StateAfter(NumNodes))
<1> DEFINE a == State({}, Sources, {})
           Good(n) == After[n].locked = LockedAfter(n) /\ Leads(After[n].acts, a, StateAfter(n))
           B == {n \in Nat : n \in 0..NumNodes /\ ~Good(n)}
<1>0. NumNodes \in Nat
  BY PlanAssumption
<1>1. Good(0)
  <2>1. After[0].acts = <<>> /\ After[0].locked = {}
    BY AfterFacts
  <2>2. 1..0 = {}
    OBVIOUS
  <2>3. DeletedBy(0) = {} /\ SpoiltAfter(0) = {}
    BY <2>2 DEF DeletedBy, SpoiltAfter
  <2>4. HeldAfter(0) = Sources
    BY <2>2, <2>3 DEF HeldAfter
  <2>5. StateAfter(0) = a
    BY <2>3, <2>4, LockedEnds DEF StateAfter
  <2> QED
    BY <2>1, <2>5, LockedEnds, LeadsNowhere
<1>2. ASSUME NEW n \in Nat, n \notin B PROVE n + 1 \notin B
  <2> SUFFICES ASSUME n + 1 \in 0..NumNodes PROVE Good(n + 1)
    OBVIOUS
  <2>1. n + 1 \in Nodes /\ n \in 0..NumNodes /\ (n + 1) - 1 = n
    BY <1>0 DEF Nodes
  <2>2. Good(n)
    BY <1>2, <2>1
  <2>3. PICK b : b = After[n]
    OBVIOUS
  <2>4. After[n + 1] = NodeActions(b, n + 1)
    BY <2>1, <2>3, AfterFacts
  <2>5. b.locked = LockedAfter((n + 1) - 1) /\ Leads(b.acts, a, StateAfter((n + 1) - 1))
    BY <2>1, <2>2, <2>3
  <2> HIDE DEF Good, a
  <2>6. /\ NodeActions(b, n + 1).locked = LockedAfter(n + 1)
        /\ Leads(NodeActions(b, n + 1).acts, a, StateAfter(n + 1))
    BY <2>1, <2>5, NodeLeads
  <2> QED
    BY <2>4, <2>6 DEF Good
<1>3. B = {}
  <2>1. B \subseteq Nat /\ 0 \notin B
    BY <1>1
  <2> HIDE DEF B
  <2> QED
    BY <1>2, <2>1, NoCounterexample
<1>4. Good(NumNodes)
  <2>1. NumNodes \in 0..NumNodes
    BY <1>0
  <2> HIDE DEF Good
  <2> QED
    BY <1>0, <1>3, <2>1
<1> QED
  BY <1>4 DEF Loop

\* What the end of a run leaves.
Clean(e) ==
    /\ e.locked \subseteq outputs
    /\ outputs \subseteq e.held \ e.spoilt
    /\ releases => {v \in e.held \ Keep : Users(v) # {}} = {}
    /\ releases /\ fresh => e.held \subseteq Keep

LEMMA EndsClean ==
    ASSUME GraphInv, MetaInv, FreshInv, ~StaleRelease, NEW l, l \subseteq outputs
    PROVE  Clean(State(l, HeldAfter(NumNodes), SpoiltAfter(NumNodes)))
<1>1. /\ Sources \cap Nodes = {} /\ 0 \notin Sources /\ Keep = Sources \cup outputs
      /\ outputs \subseteq Sources \cup Nodes
  BY GraphFacts DEF GraphInv, Values
<1>2. 0 \notin Nodes
  BY DEF Nodes
<1>3. PICK h, t : h = HeldAfter(NumNodes) /\ t = SpoiltAfter(NumNodes)
  OBVIOUS
<1>4. /\ h = IF releases THEN (Sources \cup Nodes) \ DeletedBy(NumNodes) ELSE Sources \cup Nodes
      /\ t = {Allocate(m).target : m \in Nodes}
      /\ DeletedBy(NumNodes) = UNION {DeletedAt(m) : m \in Nodes}
  BY <1>3 DEF HeldAfter, SpoiltAfter, DeletedBy, Nodes
<1>5. DeletedBy(NumNodes) \cap outputs = {}
  BY <1>4 DEF DeletedAt
<1>6. t \cap outputs = {}
  BY <1>1, <1>2, <1>4, TargetFacts
<1>7. outputs \subseteq h \ t
  BY <1>1, <1>4, <1>5, <1>6
<1>8. ASSUME NEW v \in Nodes \ outputs, Users(v) # {} PROVE v \in DeletedBy(NumNodes)
  BY <1>4, <1>8, EveryUsedIsDeleted
<1>9. releases => {v \in h \ Keep : Users(v) # {}} = {}
  BY <1>1, <1>4, <1>8
<1>10. ASSUME fresh, NEW v \in Nodes \ outputs PROVE v \in DeletedBy(NumNodes)
  <2>1. CASE Users(v) # {}
    BY <1>8, <2>1
  <2>2. CASE Users(v) = {}
    <3>1. Dies(v) = v
      BY <2>2 DEF Dies
    <3>2. v \in Range(meta[v].release)
      BY <1>10, <3>1 DEF FreshInv
    <3> QED
      BY <1>4, <3>2 DEF DeletedAt
  <2> QED
    BY <2>1, <2>2
<1>11. releases /\ fresh => h \subseteq Keep
  BY <1>1, <1>4, <1>10
<1>12. PICK e : e = State(l, h, t)
  OBVIOUS
<1>13. e.locked = l /\ e.held = h /\ e.spoilt = t
  BY <1>12, StateFacts
<1>14. Clean(e)
  BY <1>7, <1>9, <1>11, <1>13 DEF Clean
<1> QED
  BY <1>3, <1>12, <1>14

\* A plan that is built leads to a clean end.
LEMMA BuiltLeads ==
    ASSUME GraphInv, MetaInv, FreshInv, ~StaleRelease
    PROVE  \E e : /\ Clean(e)
                  /\ Leads(IF Strict THEN Loop.acts ELSE Loop.acts \o Remaining(Loop.locked),
                           State({}, Sources, {}), e)
<1>1. PICK a, l, h, t : /\ a = State({}, Sources, {}) /\ l = LockedAfter(NumNodes)
                        /\ h = HeldAfter(NumNodes) /\ t = SpoiltAfter(NumNodes)
  OBVIOUS
<1>2. Loop.locked = l /\ Leads(Loop.acts, a, State(l, h, t))
  BY <1>1, LoopLeads DEF StateAfter
<1>3. l \subseteq outputs /\ l \subseteq Sources
  BY <1>1, LockedEnds DEF LockedAfter
<1>4. Clean(State(l, h, t)) /\ Clean(State(l \ l, h, t))
  BY <1>1, <1>3, EndsClean
<1>5. IsFiniteSet(l)
  <2>1. IsFiniteSet(Sources)
    BY PlanAssumption, FS_Union DEF Sources
  <2> QED
    BY <1>3, <2>1, FS_Subset
<1>6. Leads(Remaining(l), State(l, h, t), State(l \ l, h, t))
  BY <1>5, SetToSeqLists, LeadsUnlocks DEF Remaining
<1>7. Leads(Loop.acts \o Remaining(l), a, State(l \ l, h, t))
  BY <1>2, <1>6, LeadsOn
<1> QED
  BY <1>1, <1>2, <1>4, <1>7

\* The completeness checks of the constructor cannot fire.
LEMMA NothingUnreleased == ASSUME GraphInv, MetaInv PROVE Unreleased = {}
<1>1. \A n \in Nodes : Range(Releases(n)) = DeletedAt(n)
  BY ReleasesLists DEF Lists
<1> QED
  BY <1>1, EveryUsedIsDeleted DEF Unreleased, Released

\* Annotations as old as the graph are in time.
LEMMA FreshIsTimely == ASSUME GraphInv, FreshInv, fresh PROVE ~StaleRelease
<1> SUFFICES ASSUME NEW i \in Nodes, NEW v \in Range(meta[i].release) PROVE Timely(v, i)
  BY DEF StaleRelease
<1>1. v \in Used(i) \cup {i} /\ Dies(v) = i
  BY DEF FreshInv
<1> QED
  BY <1>1, DiesIs, TimelyIs

-----------------------------------------------------------------------------
(***************************************************************************)
(* The inductive invariant: the graph is topological, the annotations are  *)
(* what the passes wrote for this graph or for one with fewer uses, and a  *)
(* replay is at some point of the states its plan leads through.           *)
(***************************************************************************)

Replay ==
    \E x, st : /\ x = plan /\ Trace(x, st)
               /\ pc \in 1..(Len(x) + 1) /\ st[pc] = State(locked, held, spoilt)
               /\ Clean(st[Len(x) + 1])

Verdicts ==
    /\ verdict \in {"none", "built", "stale release"}
    /\ verdict = "none" => locked = {} /\ held = Sources /\ spoilt = {}
    /\ verdict = "stale release" => ~fresh
    /\ verdict = "built" => Replay

IInv == GraphInv /\ MetaInv /\ FreshInv /\ Verdicts

LEMMA InitInv == Init => IInv
<1> SUFFICES ASSUME Init PROVE IInv
  OBVIOUS
<1> USE DEF Init
<1>1. GraphInv
  BY PlanAssumption DEF GraphInv, Used
<1>3. ASSUME NEW i \in Nodes PROVE Annotated(i, meta[i])
  <2>1. meta[i] = Blank
    OBVIOUS
  <2>2. PICK e : e = <<>>
    OBVIOUS
  <2>3. e \in Seq({}) /\ Len(e) = 0 /\ 1..0 = {} /\ DOMAIN e = {}
    BY <2>2
  <2>4. Range(e) = {} /\ Lists(e, {})
    BY <2>3, ListsIf DEF Range
  <2> QED
    BY <2>1, <2>2, <2>4 DEF Annotated, Blank
<1>4. MetaInv
  BY <1>3 DEF MetaInv
<1>5. FreshInv
  BY DEF FreshInv
<1>6. Verdicts
  BY DEF Verdicts
<1> QED
  BY <1>1, <1>4, <1>5, <1>6 DEF IInv

\* The parts of the invariant that read the graph, when it stays.
LEMMA GraphFrame ==
    ASSUME GraphInv, MetaInv, FreshInv, UNCHANGED <<graph, outputs, meta, fresh>>
    PROVE  GraphInv' /\ MetaInv' /\ FreshInv'
<1>1. GraphInv'
  BY DEF GraphInv, Used
<1>2. ASSUME NEW i \in Nodes, NEW m, Annotated(i, m) PROVE Annotated(i, m)'
  BY <1>2 DEF Annotated, Used
<1>3. MetaInv'
  BY <1>2 DEF MetaInv
<1>4. FreshInv'
  <2>1. ASSUME NEW i \in Nodes PROVE Used(i)' = Used(i)
    BY DEF Used
  <2>2. \A v : Dies(v)' = Dies(v)
    BY DEF Dies, Users, LastUse, Used
  <2> QED
    BY <2>1, <2>2 DEF FreshInv
<1> QED
  BY <1>1, <1>3, <1>4

LEMMA ReplayFrame ==
    ASSUME UNCHANGED <<graph, outputs, fresh, releases>>, NEW x, NEW st
    PROVE  /\ Trace(x, st) => Trace(x, st)'
           /\ \A e : Clean(e) => Clean(e)'
<1>1. ASSUME NEW p, NEW a, NEW b, Does(x, p, a, b) PROVE Does(x, p, a, b)'
  BY <1>1 DEF Does, Used, State
<1>2. Trace(x, st) => Trace(x, st)'
  BY <1>1 DEF Trace
<1>3. ASSUME NEW e, Clean(e) PROVE Clean(e)'
  <2>1. \A v : Users(v)' = Users(v)
    BY DEF Users, Used
  <2> QED
    BY <1>3, <2>1 DEF Clean, Keep
<1> QED
  BY <1>2, <1>3

LEMMA AnnotateInv == ASSUME IInv, Annotate PROVE IInv'
<1> USE DEF IInv, Annotate
<1>1. GraphInv'
  BY DEF GraphInv, Used
<1>2. ASSUME NEW i \in Nodes
      PROVE  /\ meta'[i] = [reuse |-> SingleNodeReuse(i), release |-> ReleaseAfter(i),
                            unused |-> NotUsedAfter(i)]
             /\ Range(ReleaseAfter(i)) = {v \in (Used(i) \cup {i}) \cap (Nodes \ outputs) : Dies(v) = i}
             /\ Annotated(i, meta'[i])
  <2>1. PICK k, r, u : k = SingleNodeReuse(i) /\ r = ReleaseAfter(i) /\ u = NotUsedAfter(i)
    OBVIOUS
  <2>2. PICK m : m = meta'[i]
    OBVIOUS
  <2>3. m = [reuse |-> k, release |-> r, unused |-> u]
    BY <2>1, <2>2
  <2>4. m.reuse = k /\ m.release = r /\ m.unused = u
    BY <2>3
  <2>5. /\ Lists(r, Range(r)) /\ Lists(u, Range(u))
        /\ Range(r) = {v \in (Used(i) \cup {i}) \cap (Nodes \ outputs) : Dies(v) = i}
        /\ Range(u) = {v \in Used(i) \cap Sources : Dies(v) = i}
    BY <2>1, LifetimeLists DEF Lists
  <2>6. k = NoReuse \/ (k \in DOMAIN graph[i] /\ graph[i][k] \in Range(r))
    BY <2>1, <2>5, ReuseFacts
  <2>7. Annotated(i, m)
    BY <2>3, <2>4, <2>5, <2>6 DEF Annotated
  <2> QED
    BY <2>1, <2>2, <2>3, <2>5, <2>7
<1>3. ASSUME NEW i \in Nodes, NEW m, Annotated(i, m) PROVE Annotated(i, m)'
  BY <1>3 DEF Annotated, Used
<1>4. MetaInv'
  BY <1>2, <1>3 DEF MetaInv
<1>5. FreshInv'
  <2>1. ASSUME NEW i \in Nodes PROVE Used(i)' = Used(i)
    BY DEF Used
  <2>2. \A v : Dies(v)' = Dies(v)
    BY DEF Dies, Users, LastUse, Used
  <2>3. ASSUME NEW i \in Nodes
        PROVE  Range(meta'[i].release) = {v \in (Used(i) \cup {i}) \cap (Nodes \ outputs) : Dies(v) = i}
    BY <1>2
  <2> QED
    BY <2>1, <2>2, <2>3 DEF FreshInv
<1>6. Verdicts'
  BY DEF Verdicts
<1> QED
  BY <1>1, <1>4, <1>5, <1>6

LEMMA RewriteInv == ASSUME IInv, Rewrite PROVE IInv'
<1> USE DEF IInv
<1>0. PICK i \in Nodes :
        \E v \in Sources \cup 1..(i - 1) : graph' = [graph EXCEPT ![i] = Append(@, v)]
  BY DEF Rewrite
<1>1. PICK v \in Sources \cup 1..(i - 1) : graph' = [graph EXCEPT ![i] = Append(graph[i], v)]
  BY <1>0
<1>2. UNCHANGED <<outputs, meta, verdict, locked, held, spoilt>> /\ verdict = "none" /\ fresh' = FALSE
  BY DEF Rewrite
<1>3. /\ graph \in [Nodes -> Seq(Values)] /\ graph[i] \in Seq(Values) /\ Len(graph[i]) \in Nat
      /\ i \in 1..NumNodes /\ NumNodes \in Nat
  BY GraphFacts DEF GraphInv, Nodes
<1>4. v \in Values
  BY <1>3 DEF Values, Nodes
<1>5. PICK s, r : s = graph[i] /\ r = Append(s, v)
  OBVIOUS
<1>6. /\ r \in Seq(Values) /\ DOMAIN s = 1..Len(s) /\ DOMAIN r = 1..(Len(s) + 1)
      /\ r[Len(s) + 1] = v /\ \A k \in 1..Len(s) : r[k] = s[k]
  BY <1>3, <1>4, <1>5
<1>7. Range(r) = Range(s) \cup {v}
  <2>1. 1..(Len(s) + 1) = (1..Len(s)) \cup {Len(s) + 1}
    BY <1>3, <1>5
  <2> QED
    BY <1>6, <2>1 DEF Range
<1>8. graph'[i] = r /\ \A j \in Nodes : j # i => graph'[j] = graph[j]
  BY <1>1, <1>3, <1>5
<1>9. graph' \in [Nodes -> Seq(Values)]
  BY <1>1, <1>3, <1>5, <1>6
<1>10. ASSUME NEW j \in Nodes
       PROVE  /\ Used(j) \subseteq Used(j)' /\ Used(j)' \subseteq Sources \cup 1..(j - 1)
              /\ \A k \in DOMAIN graph[j] : k \in DOMAIN graph'[j] /\ graph'[j][k] = graph[j][k]
  <2>1. Used(j) \subseteq Sources \cup 1..(j - 1)
    BY DEF GraphInv
  <2>2. CASE j = i
    <3>1. Used(j) = Range(s) /\ Used(j)' = Range(r)
      BY <1>5, <1>8, <2>2 DEF Used
    <3>2. Used(j)' = Used(j) \cup {v}
      BY <1>7, <3>1
    <3>3. \A k \in DOMAIN s : k \in DOMAIN r /\ r[k] = s[k]
      BY <1>3, <1>5, <1>6
    <3> QED
      BY <1>5, <1>8, <2>1, <2>2, <3>2, <3>3
  <2>3. CASE j # i
    <3>1. Used(j)' = Used(j)
      BY <1>8, <2>3 DEF Used
    <3> QED
      BY <1>8, <2>1, <2>3, <3>1
  <2> QED
    BY <2>2, <2>3
<1>11. GraphInv'
  BY <1>2, <1>9, <1>10 DEF GraphInv
<1>12. MetaInv'
  <2>1. ASSUME NEW j \in Nodes, NEW m, Annotated(j, m) PROVE Annotated(j, m)'
    <3>1. m.reuse = NoReuse \/ (m.reuse \in DOMAIN graph'[j] /\ graph'[j][m.reuse] \in Range(m.release))
      BY <1>10, <2>1 DEF Annotated
    <3>2. /\ Range(m.release) \subseteq (Used(j)' \cup {j}) \cap (Nodes \ outputs)
          /\ Range(m.unused) \subseteq Used(j)' \cap Sources
      BY <1>10, <2>1 DEF Annotated
    <3> QED
      BY <1>2, <2>1, <3>1, <3>2 DEF Annotated
  <2> QED
    BY <1>2, <2>1 DEF MetaInv
<1>13. FreshInv' /\ Verdicts'
  BY <1>2 DEF FreshInv, Verdicts
<1> QED
  BY <1>11, <1>12, <1>13

LEMMA BuildInv == ASSUME IInv, Build PROVE IInv'
<1> USE DEF IInv
<1>1. /\ verdict = "none"
      /\ UNCHANGED <<graph, outputs, meta, fresh, releases, held, spoilt, locked>>
      /\ pc' = 1
  BY DEF Build, graphVars
<1>2. GraphInv' /\ MetaInv' /\ FreshInv'
  BY <1>1, GraphFrame
<1>3. locked = {} /\ held = Sources /\ spoilt = {}
  BY <1>1 DEF Verdicts
<1>4. CASE StaleRelease
  <2>1. verdict' = "stale release"
    BY <1>4 DEF Build
  <2>2. ~fresh
    BY <1>4, FreshIsTimely
  <2>3. Verdicts'
    BY <1>1, <2>1, <2>2 DEF Verdicts
  <2> QED
    BY <1>2, <2>3
<1>5. CASE ~StaleRelease
  <2>1. Unreleased = {}
    BY NothingUnreleased
  <2>2. Loop.locked \subseteq outputs
    BY <1>5, LoopLeads, LockedEnds
  <2>3. verdict' = "built"
    BY <1>5, <2>1, <2>2 DEF Build
  <2>4. PICK x : x = IF Strict THEN Loop.acts ELSE Loop.acts \o Remaining(Loop.locked)
    OBVIOUS
  <2>5. plan' = x
    BY <2>3, <2>4 DEF Build
  <2>6. PICK e : Clean(e) /\ Leads(x, State({}, Sources, {}), e)
    BY <1>5, <2>4, BuiltLeads
  <2>7. PICK st : Trace(x, st) /\ st[1] = State({}, Sources, {}) /\ st[Len(x) + 1] = e
    BY <2>6 DEF Leads
  <2>8. Trace(x, st)' /\ Clean(e)'
    BY <1>1, <2>6, <2>7, ReplayFrame
  <2>9. 1 \in 1..(Len(x) + 1)
    <3>1. PICK T : x \in Seq(T)
      BY <2>7 DEF Trace
    <3>2. Len(x) \in Nat
      BY <3>1
    <3> QED
      BY <3>2
  <2>10. st[pc'] = State(locked', held', spoilt')
    BY <1>1, <1>3, <2>7
  <2>11. Replay'
    BY <1>1, <2>5, <2>7, <2>8, <2>9, <2>10 DEF Replay, State
  <2>12. Verdicts'
    BY <2>3, <2>11 DEF Verdicts
  <2> QED
    BY <1>2, <2>12
<1> QED
  BY <1>4, <1>5

\* A step of the replay, from the state its plan leads to.
LEMMA ReplayStep ==
    ASSUME IInv, Advance,
           \A x, st : x = plan /\ st[pc] = State(locked, held, spoilt)
                        /\ Does(x, pc, st[pc], st[pc + 1])
                      => st[pc + 1] = State(locked', held', spoilt')
    PROVE  IInv'
<1> USE DEF IInv
<1>1. /\ UNCHANGED <<graph, outputs, meta, fresh, plan, verdict, releases>>
      /\ verdict = "built" /\ pc' = pc + 1 /\ pc <= Len(plan)
  BY DEF Advance, graphVars
<1>2. GraphInv' /\ MetaInv' /\ FreshInv'
  BY <1>1, GraphFrame
<1>3. PICK x, st : /\ x = plan /\ Trace(x, st)
                   /\ pc \in 1..(Len(x) + 1) /\ st[pc] = State(locked, held, spoilt)
                   /\ Clean(st[Len(x) + 1])
  BY <1>1 DEF Verdicts, Replay
<1>4. Len(x) \in Nat
  <2>1. PICK T : x \in Seq(T)
    BY <1>3 DEF Trace
  <2> QED
    BY <2>1
<1>5. pc \in 1..Len(x) /\ pc + 1 \in 1..(Len(x) + 1)
  BY <1>1, <1>3, <1>4
<1>6. st[pc + 1] = State(locked', held', spoilt')
  BY <1>3, <1>5 DEF Trace
<1>7. PICK e : e = st[Len(x) + 1]
  OBVIOUS
<1>8. Trace(x, st)' /\ Clean(e)'
  BY <1>1, <1>3, <1>7, ReplayFrame
<1>9. Replay'
  BY <1>1, <1>3, <1>5, <1>6, <1>7, <1>8 DEF Replay, State
<1>10. Verdicts'
  BY <1>1, <1>9 DEF Verdicts
<1> QED
  BY <1>2, <1>10

LEMMA ReplayInv ==
    ASSUME IInv, ReplayLock \/ ReplayAllocate \/ ReplayExecute \/ ReplayDelete PROVE IInv'
<1>1. Advance
  BY DEF ReplayLock, ReplayAllocate, ReplayExecute, ReplayDelete
<1>2. ASSUME NEW x, NEW st, x = plan, st[pc] = State(locked, held, spoilt),
             Does(x, pc, st[pc], st[pc + 1])
      PROVE  st[pc + 1] = State(locked', held', spoilt')
  <2>1. PICK a, b, c : a = st[pc] /\ b = st[pc + 1] /\ c = x[pc]
    OBVIOUS
  <2>2. a.locked = locked /\ a.held = held /\ a.spoilt = spoilt /\ a = State(locked, held, spoilt)
    BY <1>2, <2>1, StateFacts
  <2>3. Current = c
    BY <1>2, <2>1 DEF Current
  <2>4. CASE ReplayLock
    BY <1>2, <2>1, <2>2, <2>3, <2>4 DEF ReplayLock, Does
  <2>5. CASE ReplayAllocate
    BY <1>2, <2>1, <2>2, <2>3, <2>5 DEF ReplayAllocate, Does
  <2>6. CASE ReplayExecute
    BY <1>2, <2>1, <2>2, <2>3, <2>6 DEF ReplayExecute, Does
  <2>7. CASE ReplayDelete
    BY <1>2, <2>1, <2>2, <2>3, <2>7 DEF ReplayDelete, Does
  <2> QED
    BY <2>4, <2>5, <2>6, <2>7
<1> QED
  BY <1>1, <1>2, ReplayStep

LEMMA NextInv == ASSUME IInv, [Next]_vars PROVE IInv'
<1>1. CASE Annotate
  BY <1>1, AnnotateInv
<1>2. CASE Rewrite
  BY <1>2, RewriteInv
<1>3. CASE Build
  BY <1>3, BuildInv
<1>4. CASE ReplayLock \/ ReplayAllocate \/ ReplayExecute \/ ReplayDelete
  BY <1>4, ReplayInv
<1>5. CASE UNCHANGED vars
  <2>1. UNCHANGED <<graph, outputs, meta, fresh, plan, verdict, pc, releases, held, spoilt, locked>>
    BY <1>5 DEF vars
  <2>2. GraphInv' /\ MetaInv' /\ FreshInv'
    BY <2>1, GraphFrame DEF IInv
  <2>3. ASSUME Replay PROVE Replay'
    <3>1. PICK x, st : /\ x = plan /\ Trace(x, st)
                       /\ pc \in 1..(Len(x) + 1) /\ st[pc] = State(locked, held, spoilt)
                       /\ Clean(st[Len(x) + 1])
      BY <2>3 DEF Replay
    <3>2. PICK e : e = st[Len(x) + 1]
      OBVIOUS
    <3>3. Trace(x, st)' /\ Clean(e)'
      BY <2>1, <3>1, <3>2, ReplayFrame
    <3> QED
      BY <2>1, <3>1, <3>2, <3>3 DEF Replay, State
  <2>4. Verdicts'
    BY <2>1, <2>3 DEF IInv, Verdicts
  <2> QED
    BY <2>2, <2>4 DEF IInv
<1> QED
  BY <1>1, <1>2, <1>3, <1>4, <1>5 DEF Next

-----------------------------------------------------------------------------
(***************************************************************************)
(* The theorems.                                                           *)
(***************************************************************************)

\* The graph stays topological and the annotations stay those of a pass over
\* it or over a graph with fewer uses, and every replay is at a point of the
\* states that its plan leads through, to a clean end.
THEOREM Invariant == Spec => []IInv
<1>1. Init => IInv
  BY InitInv
<1>2. IInv /\ [Next]_vars => IInv'
  BY NextInv
<1> QED
  BY <1>1, <1>2, PTL DEF Spec

\* The current action of a replay does what it is for.
LEMMA CurrentDoes ==
    ASSUME IInv, verdict = "built", ~Ended
    PROVE  \E b : Does(plan, pc, State(locked, held, spoilt), b)
<1>1. PICK x, st : /\ x = plan /\ Trace(x, st)
                   /\ pc \in 1..(Len(x) + 1) /\ st[pc] = State(locked, held, spoilt)
  BY DEF IInv, Verdicts, Replay
<1>2. PICK T : x \in Seq(T)
  BY <1>1 DEF Trace
<1>3. pc \in 1..Len(x)
  BY <1>1, <1>2 DEF Ended
<1> QED
  BY <1>1, <1>3 DEF Trace

LEMMA EndedClean == ASSUME IInv, Ended PROVE Clean(State(locked, held, spoilt))
<1>1. PICK x, st : /\ x = plan /\ Trace(x, st)
                   /\ pc \in 1..(Len(x) + 1) /\ st[pc] = State(locked, held, spoilt)
                   /\ Clean(st[Len(x) + 1])
  BY DEF IInv, Verdicts, Replay, Ended
<1>2. PICK T : x \in Seq(T)
  BY <1>1 DEF Trace
<1>3. pc = Len(x) + 1
  BY <1>1, <1>2 DEF Ended
<1> QED
  BY <1>1, <1>3

\* Whatever uses rewrites added since the annotations were written, a plan that
\* the constructor builds reads only values that were computed, are not deleted and have their
\* contents, and inputs and initializers that are locked.
THEOREM ReadsAreIntact == Spec => []ReadsIntact
<1>1. ASSUME IInv PROVE ReadsIntact
  <2> SUFFICES ASSUME verdict = "built", ~Ended, Current.kind = "execute"
               PROVE  /\ Used(Current.node) \subseteq held \ spoilt
                      /\ Used(Current.node) \cap Sources \subseteq locked
    BY DEF ReadsIntact
  <2>1. PICK b : Does(plan, pc, State(locked, held, spoilt), b)
    BY <1>1, CurrentDoes
  <2> QED
    BY <2>1, StateFacts DEF Does, Current
<1> QED
  BY <1>1, Invariant, PTL

\* Locks are balanced in every plan the constructor builds: nothing is locked
\* twice, nothing is unlocked that is not locked, and the end leaves locked at
\* most what the caller gets back.
THEOREM LocksAreBalanced == Spec => []LocksBalanced
<1>1. ASSUME IInv PROVE LocksBalanced
  <2>1. ASSUME verdict = "built", ~Ended
        PROVE  /\ Current.kind = "lock" => Current.name \notin locked
               /\ Current.kind = "unlock" => Current.name \in locked
    <3>1. PICK b : Does(plan, pc, State(locked, held, spoilt), b)
      BY <1>1, <2>1, CurrentDoes
    <3> QED
      BY <3>1, StateFacts DEF Does, Current
  <2>2. ASSUME Ended PROVE locked \subseteq outputs
    BY <1>1, <2>2, EndedClean, StateFacts DEF Clean
  <2> QED
    BY <2>1, <2>2 DEF LocksBalanced
<1> QED
  BY <1>1, Invariant, PTL

\* A run ends with the outputs and no consumed intermediate, current
\* annotations are never refused, and the completeness checks of the
\* constructor never fire, also for annotations that miss added uses.
THEOREM RunsEndClean == Spec => []RunsClean
<1>1. ASSUME IInv PROVE RunsClean
  <2>1. /\ fresh => verdict \in {"none", "built"}
        /\ verdict \notin {"never released", "never unlocked"}
    BY <1>1 DEF IInv, Verdicts
  <2>2. ASSUME Ended
        PROVE  /\ outputs \subseteq held \ spoilt
               /\ releases => {v \in held \ Keep : Users(v) # {}} = {}
               /\ releases /\ fresh => held \subseteq Keep
    BY <1>1, <2>2, EndedClean, StateFacts DEF Clean
  <2> QED
    BY <2>1, <2>2 DEF RunsClean
<1> QED
  BY <1>1, Invariant, PTL
=============================================================================
