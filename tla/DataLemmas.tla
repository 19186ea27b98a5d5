----------------------------- MODULE DataLemmas -----------------------------
(***************************************************************************)
(* Facts about data that the proofs of several modules need: induction,    *)
(* sorting, the sequence operators, the folds and the sums that the        *)
(* modules are built from.                                                 *)
(*                                                                         *)
(* Induction is stated about a set, the set of the numbers that have a     *)
(* property: a step of a proof then defines that set and cites the lemma.  *)
(***************************************************************************)
EXTENDS Integers, SequencesExt, FiniteSetTheorems, FunctionTheorems,
        SequenceTheorems, WellFoundedInduction, TLAPS

-----------------------------------------------------------------------------
(* Induction. *)

\* A set of natural numbers that is not empty has a least element.
LEMMA LeastElement ==
  ASSUME NEW T \in SUBSET Nat, T # {}
  PROVE  \E x \in T : \A y \in T : x =< y
<1> DEFINE R == OpToRel(<, Nat)
<1>1. IsWellFoundedOn(R, Nat)
  BY NatLessThanWellFounded
<1>2. PICK x \in T : \A y \in T : ~(<<y, x>> \in R)
  <2> HIDE DEF R
  <2> QED BY <1>1, WFMin
<1>3. ASSUME NEW y \in T, y < x PROVE FALSE
  <2>1. <<y, x>> \in R
    BY <1>3 DEF OpToRel
  <2> QED BY <1>2, <2>1
<1>4. \A y \in T : x =< y
  BY <1>3
<1> QED BY <1>4

\* A set that has 0, and n + 1 if it has n, has all natural numbers.
LEMMA SetInduction ==
  ASSUME NEW S, 0 \in S, \A n \in Nat : n \in S => n + 1 \in S
  PROVE  \A n \in Nat : n \in S
<1> DEFINE T == {n \in Nat : n \notin S}
<1>1. SUFFICES ASSUME T # {} PROVE FALSE
  OBVIOUS
<1>2. PICK x \in T : \A y \in T : x =< y
  <2>1. T \in SUBSET Nat
    OBVIOUS
  <2> HIDE DEF T
  <2> QED BY <1>1, <2>1, LeastElement
<1>3. x \in Nat /\ x # 0 /\ x - 1 \in Nat /\ x - 1 \notin T
  BY <1>2
<1> QED BY <1>3

-----------------------------------------------------------------------------
(* Sorting.  An order is a set of pairs. *)

StrictOrder(R, S) ==
    /\ \A e \in S : <<e, e>> \notin R
    /\ \A e, f \in S : e # f => <<e, f>> \in R \/ <<f, e>> \in R
    /\ \A e, f, g \in S : <<e, f>> \in R /\ <<f, g>> \in R => <<e, g>> \in R

Before(R, S, e) == {g \in S : <<g, e>> \in R}

\* How many elements of S come before e.
RankIn(R, S, e) == Cardinality(Before(R, S, e))

\* A rank is a number.
LEMMA RankInType ==
  ASSUME NEW R, NEW S, IsFiniteSet(S), NEW e
  PROVE  RankIn(R, S, e) \in Nat /\ RankIn(R, S, e) =< Cardinality(S)
<1>1. Before(R, S, e) \in SUBSET S
  BY DEF Before
<1> QED BY <1>1, FS_Subset, FS_CardinalityType DEF RankIn

\* A rank is below the number of elements.
LEMMA RankInBelow ==
  ASSUME NEW R, NEW S, IsFiniteSet(S), StrictOrder(R, S), NEW e \in S
  PROVE  RankIn(R, S, e) < Cardinality(S)
<1>1. Before(R, S, e) \in SUBSET S /\ Before(R, S, e) # S
  BY DEF Before, StrictOrder
<1>2. /\ Cardinality(Before(R, S, e)) \in Nat /\ Cardinality(S) \in Nat
      /\ Cardinality(Before(R, S, e)) =< Cardinality(S)
      /\ Cardinality(Before(R, S, e)) # Cardinality(S)
  BY <1>1, FS_Subset, FS_CardinalityType
<1> QED BY <1>2 DEF RankIn

\* What comes later has a greater rank.
LEMMA RankInIncreases ==
  ASSUME NEW R, NEW S, IsFiniteSet(S), StrictOrder(R, S),
         NEW e \in S, NEW f \in S, <<e, f>> \in R
  PROVE  RankIn(R, S, e) < RankIn(R, S, f)
<1>1. /\ Before(R, S, e) \in SUBSET Before(R, S, f)
      /\ Before(R, S, f) \in SUBSET S
      /\ Before(R, S, e) # Before(R, S, f)
  BY DEF Before, StrictOrder
<1>2. IsFiniteSet(Before(R, S, f)) /\ IsFiniteSet(Before(R, S, e))
  BY <1>1, FS_Subset
<1>3. /\ Cardinality(Before(R, S, e)) \in Nat /\ Cardinality(Before(R, S, f)) \in Nat
      /\ Cardinality(Before(R, S, e)) =< Cardinality(Before(R, S, f))
      /\ Cardinality(Before(R, S, e)) # Cardinality(Before(R, S, f))
  BY <1>1, <1>2, FS_Subset, FS_CardinalityType
<1> QED BY <1>3 DEF RankIn

\* No two elements have the same rank.
LEMMA RankInInjective ==
  ASSUME NEW R, NEW S, IsFiniteSet(S), StrictOrder(R, S),
         NEW e \in S, NEW f \in S, RankIn(R, S, e) = RankIn(R, S, f)
  PROVE  e = f
<1>1. RankIn(R, S, e) \in Nat /\ RankIn(R, S, f) \in Nat
  BY RankInType
<1>2. <<e, f>> \notin R /\ <<f, e>> \notin R
  BY <1>1, RankInIncreases
<1> QED BY <1>2 DEF StrictOrder

\* Every rank is that of an element.
LEMMA RanksInFill ==
  ASSUME NEW R, NEW S, IsFiniteSet(S), StrictOrder(R, S),
         NEW n \in Nat, n < Cardinality(S)
  PROVE  \E e \in S : RankIn(R, S, e) = n
<1> DEFINE T == 0 .. (Cardinality(S) - 1)
           f == [e \in S |-> RankIn(R, S, e)]
<1>1. Cardinality(S) \in Nat
  BY FS_CardinalityType
<1>2. f \in [S -> T]
  BY <1>1, RankInType, RankInBelow
<1>3. f \in Injection(S, T)
  <2>1. \A a, b \in S : f[a] = f[b] => a = b
    BY RankInInjective
  <2> HIDE DEF f, T
  <2> QED BY <1>2, <2>1, Fun_IsInj
<1>4. IsFiniteSet(T) /\ Cardinality(T) = Cardinality(S)
  <2>1. 0 \in Int /\ Cardinality(S) - 1 \in Int
    BY <1>1
  <2>2. /\ IsFiniteSet(T)
        /\ Cardinality(T) = IF 0 > Cardinality(S) - 1 THEN 0
                            ELSE (Cardinality(S) - 1) - 0 + 1
    <3> HIDE DEF f
    <3> QED BY <2>1, FS_Interval
  <2> QED BY <1>1, <2>2
<1>5. f \in Surjection(S, T)
  <2> HIDE DEF f, T
  <2> QED BY <1>3, <1>4, FS_Injection
<1>6. n \in T
  BY <1>1
<1>7. PICK e \in S : f[e] = n
  <2> HIDE DEF T, f
  <2> QED BY <1>5, <1>6, Fun_SurjectionProperties
<1> QED BY <1>7

\* s lists S in the order R.
Sorted(s, R, S) ==
    /\ s \in [1..Cardinality(S) -> S]
    /\ \A i, j \in DOMAIN s : i < j => <<s[i], s[j]>> \in R

\* A finite set can be listed in its order.
LEMMA SortedExists ==
  ASSUME NEW R, NEW S, IsFiniteSet(S), StrictOrder(R, S)
  PROVE  \E s : Sorted(s, R, S)
<1> DEFINE n == Cardinality(S)
           At(i) == CHOOSE e \in S : RankIn(R, S, e) = i - 1
           s == [i \in 1..n |-> At(i)]
<1>1. n \in Nat
  BY FS_CardinalityType
<1>2. ASSUME NEW i \in 1..n
      PROVE  s[i] \in S /\ RankIn(R, S, s[i]) = i - 1
  <2>1. i - 1 \in Nat /\ i - 1 < n
    BY <1>1
  <2>2. \E e \in S : RankIn(R, S, e) = i - 1
    BY <2>1, RanksInFill
  <2> QED BY <2>2
<1>3. ASSUME NEW i \in 1..n, NEW j \in 1..n, i < j
      PROVE  <<s[i], s[j]>> \in R
  <2>1. s[i] # s[j] /\ s[i] \in S /\ s[j] \in S
    BY <1>1, <1>2, <1>3
  <2>2. CASE <<s[j], s[i]>> \in R
    <3>1. RankIn(R, S, s[j]) < RankIn(R, S, s[i])
      BY <2>1, <2>2, RankInIncreases
    <3> QED BY <1>1, <1>2, <1>3, <3>1
  <2> QED BY <2>1, <2>2 DEF StrictOrder
<1>4. Sorted(s, R, S)
  <2>1. s \in [1..n -> S]
    BY <1>2
  <2> HIDE DEF s
  <2> QED BY <1>3, <2>1 DEF Sorted
<1> QED BY <1>4

\* What comes before the i-th element is what is listed before it, and every
\* element is listed.
LEMMA SortedRanks ==
  ASSUME NEW R, NEW S, IsFiniteSet(S), StrictOrder(R, S), NEW s, Sorted(s, R, S)
  PROVE  /\ \A i \in 1..Cardinality(S) : RankIn(R, S, s[i]) = i - 1
         /\ \A e \in S : /\ RankIn(R, S, e) + 1 \in 1..Cardinality(S)
                         /\ s[RankIn(R, S, e) + 1] = e
         /\ \A i, j \in 1..Cardinality(S) : s[i] = s[j] => i = j
<1> DEFINE n == Cardinality(S)
<1>1. n \in Nat /\ s \in [1..n -> S]
  BY FS_CardinalityType DEF Sorted
<1>2. \A i, j \in 1..n : i < j => <<s[i], s[j]>> \in R
  BY <1>1 DEF Sorted
<1>3. ASSUME NEW i \in 1..n, NEW j \in 1..n, s[i] = s[j] PROVE i = j
  <2>1. s[i] \in S /\ ~(<<s[i], s[i]>> \in R)
    BY <1>1 DEF StrictOrder
  <2>2. ~(i < j) /\ ~(j < i)
    BY <1>2, <1>3, <2>1
  <2> QED BY <1>1, <2>2
<1>4. s \in Surjection(1..n, S)
  <2>1. s \in Injection(1..n, S)
    BY <1>1, <1>3, Fun_IsInj
  <2>2. IsFiniteSet(1..n) /\ Cardinality(1..n) = n
    BY <1>1, FS_Interval
  <2> QED BY <2>1, <2>2, FS_Injection
<1>5. \A e \in S : \E i \in 1..n : s[i] = e
  <2> DEFINE D == 1..n
  <2>1. s \in Surjection(D, S)
    BY <1>4
  <2> HIDE DEF D
  <2>2. \A e \in S : \E i \in D : s[i] = e
    BY <2>1, Fun_SurjectionProperties
  <2> QED BY <2>2 DEF D
<1>6. ASSUME NEW i \in 1..n PROVE RankIn(R, S, s[i]) = i - 1
  <2> DEFINE I == 1 .. (i - 1)
             B == Before(R, S, s[i])
             g == [j \in I |-> s[j]]
  <2>1. IsFiniteSet(I) /\ Cardinality(I) = i - 1
    <3>1. 1 \in Int /\ i - 1 \in Int /\ i \in Nat /\ i >= 1
      BY <1>1
    <3>2. /\ IsFiniteSet(I)
          /\ Cardinality(I) = IF 1 > i - 1 THEN 0 ELSE (i - 1) - 1 + 1
      <4> HIDE DEF B, g
      <4> QED BY <3>1, FS_Interval
    <3> QED BY <3>1, <3>2
  <2>2. \A j \in I : j \in 1..n /\ j < i
    BY <1>1
  <2>3. g \in [I -> B]
    BY <1>1, <1>2, <2>2 DEF Before
  <2>4. g \in Injection(I, B)
    <3>1. \A a, b \in I : g[a] = g[b] => a = b
      BY <1>3, <2>2
    <3> HIDE DEF g, I, B
    <3> QED BY <2>3, <3>1, Fun_IsInj
  <2>5. ASSUME NEW e \in B PROVE \E j \in I : g[j] = e
    <3>1. e \in S /\ <<e, s[i]>> \in R
      BY DEF Before
    <3>2. PICK j \in 1..n : s[j] = e
      BY <1>5, <3>1
    <3>3. s[i] \in S
      BY <1>1
    <3>4. j # i /\ ~(i < j)
      <4>1. ASSUME i < j PROVE FALSE
        <5>1. <<s[i], e>> \in R
          BY <1>2, <3>2, <4>1
        <5> QED BY <3>1, <3>3, <5>1 DEF StrictOrder
      <4>2. ASSUME j = i PROVE FALSE
        BY <3>1, <3>2, <4>2 DEF StrictOrder
      <4> QED BY <4>1, <4>2
    <3>5. j \in I
      BY <1>1, <3>4
    <3> QED BY <3>2, <3>5
  <2>6. g \in Surjection(I, B)
    <3> HIDE DEF g, I, B
    <3> QED BY <2>3, <2>5, Fun_IsSurj
  <2>7. IsFiniteSet(B) /\ Cardinality(B) = Cardinality(I)
    <3> HIDE DEF g, I, B
    <3> QED BY <2>1, <2>4, <2>6, FS_Surjection
  <2> QED BY <2>1, <2>7 DEF RankIn
<1>7. ASSUME NEW e \in S
      PROVE  RankIn(R, S, e) + 1 \in 1..n /\ s[RankIn(R, S, e) + 1] = e
  <2>1. PICK i \in 1..n : s[i] = e
    BY <1>5
  <2>2. RankIn(R, S, e) = i - 1 /\ i \in Nat
    BY <1>1, <1>6, <2>1
  <2>3. RankIn(R, S, e) + 1 = i
    BY <2>2
  <2> QED BY <2>1, <2>3
<1> QED BY <1>3, <1>6, <1>7

-----------------------------------------------------------------------------
(* Sequence operators. *)

\* g obeys the equation of FlattenSeq for the first n sequences.
Flattens(g, seqs, n) ==
    \A i \in 1..n : g[i] = IF i = 1 THEN seqs[i] ELSE g[i-1] \o seqs[i]

\* The sequence of sequences s, flattened, is what any function that obeys the
\* equation of FlattenSeq has at the end.
LEMMA FlattenSeqIs ==
  ASSUME NEW seqs, NEW n \in Nat \ {0}, Len(seqs) = n, NEW g, Flattens(g, seqs, n)
  PROVE  FlattenSeq(seqs) = g[n]
<1> USE DEF Flattens
<1> DEFINE Obeys(h) ==
              h = [i \in 1..n |-> IF i = 1 THEN seqs[i] ELSE h[i-1] \o seqs[i]]
           f == CHOOSE h : Obeys(h)
           Same == {k \in Nat : k \in 1..n => f[k] = g[k]}
<1>1. FlattenSeq(seqs) = f[n]
  BY DEF FlattenSeq
<1>2. Obeys(f)
  <2> DEFINE h == [i \in 1..n |-> g[i]]
  <2>1. Obeys(h)
    <3>1. \A i \in 1..n : i # 1 => i - 1 \in 1..n
      OBVIOUS
    <3>2. \A i \in 1..n : h[i] = IF i = 1 THEN seqs[i] ELSE h[i-1] \o seqs[i]
      BY <3>1
    <3> QED BY <3>2
  <2> HIDE DEF Obeys
  <2> QED BY <2>1
<1> HIDE DEF f
<1>3. /\ \A i \in 1..n : f[i] = IF i = 1 THEN seqs[i] ELSE f[i-1] \o seqs[i]
      /\ \A i \in 1..n : g[i] = IF i = 1 THEN seqs[i] ELSE g[i-1] \o seqs[i]
  BY <1>2
<1>4. \A k \in Nat : k \in Same
  <2>1. 0 \in Same
    OBVIOUS
  <2>2. ASSUME NEW k \in Nat, k \in Same PROVE k + 1 \in Same
    <3>1. CASE k = 0
      BY <1>3, <3>1
    <3>2. CASE k # 0 /\ k + 1 \in 1..n
      <4>1. k \in 1..n /\ k + 1 # 1 /\ (k + 1) - 1 = k
        BY <3>2
      <4>2. f[k] = g[k]
        BY <2>2, <4>1
      <4>3. /\ f[k + 1] = f[(k + 1) - 1] \o seqs[k + 1]
            /\ g[k + 1] = g[(k + 1) - 1] \o seqs[k + 1]
        BY <1>3, <3>2, <4>1
      <4>4. f[k + 1] = g[k + 1]
        BY <4>1, <4>2, <4>3
      <4> QED BY <4>4
    <3> QED BY <3>1, <3>2
  <2> HIDE DEF Same
  <2> QED BY <2>1, <2>2, SetInduction
<1> QED BY <1>1, <1>4

\* s without its i-th element.
LEMMA RemoveAtIs ==
  ASSUME NEW T, NEW s \in Seq(T), NEW i \in 1..Len(s)
  PROVE  /\ RemoveAt(s, i) \in Seq(T)
         /\ Len(RemoveAt(s, i)) = Len(s) - 1
         /\ \A j \in 1..(Len(s) - 1) :
              RemoveAt(s, i)[j] = IF j < i THEN s[j] ELSE s[j + 1]
<1> DEFINE a == SubSeq(s, 1, i - 1)
           b == SubSeq(s, i + 1, Len(s))
<1>1. Len(s) \in Nat /\ \A j \in 1..Len(s) : s[j] \in T
  OBVIOUS
<1>2. /\ a \in Seq(T) /\ Len(a) = i - 1
      /\ \A j \in 1..(i - 1) : a[j] = s[j]
  <2>1. /\ a \in Seq(T)
        /\ Len(a) = IF 1 =< i - 1 THEN (i - 1) - 1 + 1 ELSE 0
        /\ \A j \in 1..((i - 1) - 1 + 1) : a[j] = s[1 + j - 1]
    <3>1. 1 \in Int /\ i - 1 \in Int /\ \A j \in 1..(i - 1) : s[j] \in T
      BY <1>1
    <3> QED BY <3>1, SubSeqProperties
  <2> QED BY <1>1, <2>1
<1>3. /\ b \in Seq(T) /\ Len(b) = Len(s) - i
      /\ \A j \in 1..(Len(s) - i) : b[j] = s[j + i]
  <2>1. /\ b \in Seq(T)
        /\ Len(b) = IF i + 1 =< Len(s) THEN Len(s) - (i + 1) + 1 ELSE 0
        /\ \A j \in 1..(Len(s) - (i + 1) + 1) : b[j] = s[(i + 1) + j - 1]
    <3>1. i + 1 \in Int /\ Len(s) \in Int
          /\ \A j \in (i + 1)..Len(s) : s[j] \in T
      BY <1>1
    <3> QED BY <3>1, SubSeqProperties
  <2>2. \A j \in 1..(Len(s) - i) : (i + 1) + j - 1 = j + i
    BY <1>1
  <2> QED BY <1>1, <2>1, <2>2
<1> HIDE DEF a, b
<1>4. /\ a \o b \in Seq(T) /\ Len(a \o b) = Len(a) + Len(b)
      /\ \A j \in 1..(Len(a) + Len(b)) :
           (a \o b)[j] = IF j =< Len(a) THEN a[j] ELSE b[j - Len(a)]
  BY <1>2, <1>3, ConcatProperties
<1>5. ASSUME NEW j \in 1..(Len(s) - 1)
      PROVE  (a \o b)[j] = IF j < i THEN s[j] ELSE s[j + 1]
  <2>1. CASE j < i
    <3>1. j \in 1..(i - 1) /\ j =< Len(a) /\ j \in 1..(Len(a) + Len(b))
      BY <1>1, <1>2, <1>3, <2>1
    <3> QED BY <1>2, <1>4, <2>1, <3>1
  <2>2. CASE ~(j < i)
    <3>1. /\ j - (i - 1) \in 1..(Len(s) - i) /\ ~(j =< Len(a))
          /\ j \in 1..(Len(a) + Len(b)) /\ (j - (i - 1)) + i = j + 1
      BY <1>1, <1>2, <1>3, <2>2
    <3> QED BY <1>2, <1>3, <1>4, <2>2, <3>1
  <2> QED BY <2>1, <2>2
<1>6. RemoveAt(s, i) = a \o b
  BY DEF RemoveAt, a, b
<1>7. RemoveAt(s, i) \in Seq(T) /\ Len(RemoveAt(s, i)) = Len(s) - 1
  <2>1. Len(a) + Len(b) = Len(s) - 1
    BY <1>1, <1>2, <1>3
  <2> QED BY <1>4, <1>6, <2>1
<1>8. \A j \in 1..(Len(s) - 1) :
        RemoveAt(s, i)[j] = IF j < i THEN s[j] ELSE s[j + 1]
  BY <1>5, <1>6
<1> QED BY <1>7, <1>8

-----------------------------------------------------------------------------
(* Finite sets. *)

\* A finite set without one of its elements has one less.
LEMMA WithoutOne ==
  ASSUME NEW s, IsFiniteSet(s), NEW x \in s
  PROVE  /\ IsFiniteSet(s \ {x}) /\ Cardinality(s) \in Nat
         /\ Cardinality(s \ {x}) = Cardinality(s) - 1
         /\ Cardinality(s) > 0
<1>1. IsFiniteSet(s \ {x}) /\ Cardinality(s \ {x}) = Cardinality(s) - 1
  BY FS_RemoveElement
<1>2. Cardinality(s) \in Nat /\ Cardinality(s \ {x}) \in Nat
  BY <1>1, FS_CardinalityType
<1> QED BY <1>1, <1>2

\* A set of sets that has a part of S if it has all smaller parts of that part,
\* has every part of S.
LEMMA FiniteInduction ==
  ASSUME NEW S, IsFiniteSet(S), NEW T,
         \A s \in SUBSET S : (\A t \in SUBSET s : t # s => t \in T) => s \in T
  PROVE  \A s \in SUBSET S : s \in T
<1> DEFINE N == {n \in Nat : \A s \in SUBSET S : Cardinality(s) < n => s \in T}
<1>0. \A s \in SUBSET S : IsFiniteSet(s) /\ Cardinality(s) \in Nat
  BY FS_Subset, FS_CardinalityType
<1>1. 0 \in N
  BY <1>0
<1>2. ASSUME NEW n \in Nat, n \in N PROVE n + 1 \in N
  <2> SUFFICES ASSUME NEW s \in SUBSET S, Cardinality(s) < n + 1 PROVE s \in T
    OBVIOUS
  <2>1. ASSUME NEW t \in SUBSET s, t # s PROVE t \in T
    <3>1. Cardinality(t) =< Cardinality(s) /\ Cardinality(t) # Cardinality(s)
      BY <1>0, <2>1, FS_Subset
    <3>2. t \in SUBSET S /\ Cardinality(t) \in Nat /\ Cardinality(s) \in Nat
      BY <1>0
    <3>3. Cardinality(t) < n
      BY <3>1, <3>2
    <3> QED BY <1>2, <3>2, <3>3
  <2> QED BY <2>1
<1>3. \A n \in Nat : n \in N
  <2> HIDE DEF N
  <2> QED BY <1>1, <1>2, SetInduction
<1>4. ASSUME NEW s \in SUBSET S PROVE s \in T
  <2>1. Cardinality(s) + 1 \in N /\ Cardinality(s) < Cardinality(s) + 1
    BY <1>0, <1>3
  <2> QED BY <2>1
<1> QED BY <1>4

\* The values of finitely many are finitely many.
LEMMA ImageIsFinite ==
  ASSUME NEW S, IsFiniteSet(S), NEW f
  PROVE  IsFiniteSet({f[x] : x \in S})
<1> DEFINE T == {f[x] : x \in S}
           g == [x \in S |-> f[x]]
<1>1. g \in [S -> T] /\ \A t \in T : \E x \in S : g[x] = t
  OBVIOUS
<1> HIDE DEF T, g
<1>2. g \in Surjection(S, T)
  BY <1>1, Fun_IsSurj
<1>3. IsFiniteSet(T)
  BY <1>2, FS_Surjection
<1> QED BY <1>3 DEF T

-----------------------------------------------------------------------------
(* Folds. *)

\* it is the function that folds the parts of S: from base on, with the
\* element ch[s] of each part s, by op.
Folds(it, S, base, ch, op) ==
    \A s \in SUBSET S :
       it[s] = IF s = {} THEN base ELSE op[ch[s], it[s \ {ch[s]}]]

\* There is a function that folds the parts of a finite set.
LEMMA FoldExists ==
  ASSUME NEW S, IsFiniteSet(S), NEW V, NEW base \in V, NEW ch,
         \A s \in SUBSET S : s # {} => ch[s] \in s,
         NEW op \in [S \X V -> V]
  PROVE  \E it \in [SUBSET S -> V] : Folds(it, S, base, ch, op)
<1> DEFINE Small(n) == {s \in SUBSET S : Cardinality(s) =< n}
           Upto(h, n) == /\ h \in [SUBSET S -> V]
                         /\ \A s \in Small(n) :
                              h[s] = IF s = {} THEN base
                                     ELSE op[ch[s], h[s \ {ch[s]}]]
           N == {n \in Nat : \E h : Upto(h, n)}
<1>0. \A s \in SUBSET S : IsFiniteSet(s) /\ Cardinality(s) \in Nat
                          /\ (Cardinality(s) = 0 <=> s = {})
  BY FS_Subset, FS_CardinalityType, FS_EmptySet
<1>1. 0 \in N
  <2> DEFINE h == [s \in SUBSET S |-> base]
  <2>1. h \in [SUBSET S -> V] /\ \A s \in Small(0) : s = {} /\ h[s] = base
    BY <1>0
  <2>2. Upto(h, 0)
    <3> HIDE DEF h
    <3> QED BY <2>1
  <2> QED BY <2>2, SMTT(30), ZenonT(30)
<1>2. ASSUME NEW n \in Nat, n \in N PROVE n + 1 \in N
  <2>1. PICK h : Upto(h, n)
    BY <1>2
  <2> DEFINE g == [s \in SUBSET S |->
                     IF s \in Small(n) THEN h[s]
                     ELSE IF s \in Small(n + 1) THEN op[ch[s], h[s \ {ch[s]}]]
                     ELSE base]
  <2>2. ASSUME NEW s \in SUBSET S, s # {}
        PROVE  /\ ch[s] \in S /\ s \ {ch[s]} \in SUBSET S
               /\ Cardinality(s \ {ch[s]}) = Cardinality(s) - 1
               /\ h[s \ {ch[s]}] \in V
    <3>1. ch[s] \in s
      BY <2>2
    <3>2. s \ {ch[s]} \in SUBSET S
      OBVIOUS
    <3> QED BY <1>0, <2>1, <3>1, <3>2, WithoutOne
  <2>3. ASSUME NEW s \in SUBSET S
        PROVE  g[s] \in V
    <3>1. CASE s \in Small(n)
      BY <2>1, <3>1
    <3>2. CASE s \notin Small(n) /\ s \in Small(n + 1)
      <4>1. s # {}
        BY <1>0, <3>2
      <4> QED BY <2>2, <3>2, <4>1
    <3> QED BY <3>1, <3>2
  <2>4. ASSUME NEW s \in Small(n + 1)
        PROVE  g[s] = IF s = {} THEN base ELSE op[ch[s], g[s \ {ch[s]}]]
    <3>1. CASE s = {}
      <4>1. s \in Small(n)
        BY <1>0, <3>1
      <4> QED BY <2>1, <3>1, <4>1
    <3>2. CASE s # {}
      <4>1. s \ {ch[s]} \in Small(n)
        BY <1>0, <2>2, <3>2
      <4>2. g[s \ {ch[s]}] = h[s \ {ch[s]}]
        BY <4>1
      <4>3. g[s] = op[ch[s], h[s \ {ch[s]}]]
        BY <2>1, <3>2
      <4> QED BY <3>2, <4>2, <4>3
    <3> QED BY <3>1, <3>2
  <2>5. g \in [SUBSET S -> V]
    BY <2>3
  <2>6. Upto(g, n + 1)
    <3> HIDE DEF g
    <3> QED BY <2>4, <2>5
  <2>7. \E k : Upto(k, n + 1)
    <3> HIDE DEF Upto, g
    <3> QED BY <2>6
  <2>8. n + 1 \in Nat
    OBVIOUS
  <2> HIDE DEF Upto
  <2> QED BY <2>7, <2>8
<1>3. \A n \in Nat : n \in N
  <2> HIDE DEF N
  <2> QED BY <1>1, <1>2, SetInduction
<1>4. PICK h : Upto(h, Cardinality(S))
  <2> HIDE DEF Upto
  <2> QED BY <1>0, <1>3
<1>5. \A s \in SUBSET S : s \in Small(Cardinality(S))
  BY FS_Subset
<1> QED BY <1>4, <1>5 DEF Folds

\* The equation of MapThenSumSet.
SumsUp(it, f, S) ==
    \A s \in SUBSET S :
       it[s] = IF s = {} THEN 0
               ELSE f[CHOOSE x \in s : TRUE] + it[s \ {CHOOSE x \in s : TRUE}]

\* A sum over a finite set, of a function of its elements.
SumStep(sum, f, S) ==
    /\ sum \in [SUBSET S -> Int]
    /\ sum[{}] = 0
    /\ \A s \in SUBSET S : \A x \in s : sum[s] = f[x] + sum[s \ {x}]

\* What obeys the equation of MapThenSumSet is a sum, whichever element is
\* taken first.
LEMMA SumIs ==
  ASSUME NEW S, IsFiniteSet(S), NEW f \in [S -> Int], NEW it,
         SumsUp(it, f, S)
  PROVE  SumStep([s \in SUBSET S |-> it[s]], f, S)
<1> DEFINE T == {s \in SUBSET S : /\ it[s] \in Int
                                  /\ \A x \in s : /\ it[s \ {x}] \in Int
                                                  /\ it[s] = f[x] + it[s \ {x}]}
           Pick(s) == CHOOSE x \in s : TRUE
<1>1. {} \in T
  <2>1. it[{}] = 0
    BY DEF SumsUp
  <2> QED BY <2>1
<1>2. ASSUME NEW s \in SUBSET S, \A t \in SUBSET s : t # s => t \in T
      PROVE  s \in T
  <2>1. CASE s = {}
    BY <2>1, <1>1
  <2>2. CASE s # {}
    <3>1. Pick(s) \in s /\ it[s] = f[Pick(s)] + it[s \ {Pick(s)}]
      BY <2>2 DEF SumsUp
    <3> HIDE DEF Pick
    <3>2. \A x \in s : s \ {x} \in T /\ it[s \ {x}] \in Int
      <4>1. \A x \in s : s \ {x} \in SUBSET s /\ s \ {x} # s
        OBVIOUS
      <4> QED BY <1>2, <4>1
    <3>3. it[s] \in Int
      <4>1. f[Pick(s)] \in Int /\ it[s \ {Pick(s)}] \in Int
        BY <3>1, <3>2
      <4> QED BY <3>1, <4>1
    <3>4. ASSUME NEW x \in s PROVE it[s] = f[x] + it[s \ {x}]
      <4>1. CASE x = Pick(s)
        BY <3>1, <4>1
      <4>2. CASE x # Pick(s)
        <5> DEFINE u == (s \ {x}) \ {Pick(s)}
        <5>1. u = (s \ {Pick(s)}) \ {x}
          OBVIOUS
        <5>2. x \in s \ {Pick(s)} /\ Pick(s) \in s \ {x}
          BY <3>1, <4>2
        <5>3. it[s \ {Pick(s)}] = f[x] + it[u]
          <6>1. s \ {Pick(s)} \in T
            BY <3>1, <3>2
          <6> QED BY <5>1, <5>2, <6>1
        <5>4. it[s \ {x}] = f[Pick(s)] + it[u] /\ it[u] \in Int
          BY <3>2, <5>2
        <5>5. f[x] \in Int /\ f[Pick(s)] \in Int
          BY <3>1
        <5> HIDE DEF u
        <5> QED BY <3>1, <5>3, <5>4, <5>5
      <4> QED BY <4>1, <4>2
    <3> QED BY <3>2, <3>3, <3>4
  <2> QED BY <2>1, <2>2
<1>3. \A s \in SUBSET S : s \in T
  <2> HIDE DEF T
  <2> QED BY <1>2, FiniteInduction
<1> DEFINE sum == [s \in SUBSET S |-> it[s]]
<1>4. sum \in [SUBSET S -> Int]
  BY <1>3
<1>5. sum[{}] = 0
  BY DEF SumsUp
<1>6. \A s \in SUBSET S : \A x \in s : sum[s] = f[x] + sum[s \ {x}]
  <2> SUFFICES ASSUME NEW s \in SUBSET S, NEW x \in s
               PROVE  sum[s] = f[x] + sum[s \ {x}]
    OBVIOUS
  <2>1. it[s] = f[x] + it[s \ {x}]
    BY <1>3
  <2>2. s \ {x} \in SUBSET S
    OBVIOUS
  <2>3. sum[s] = it[s] /\ sum[s \ {x}] = it[s \ {x}]
    BY <2>2
  <2> HIDE DEF sum
  <2> QED BY <2>1, <2>3
<1> HIDE DEF sum
<1>7. SumStep(sum, f, S)
  BY <1>4, <1>5, <1>6 DEF SumStep
<1> QED BY <1>7 DEF sum

\* The equation of MapThenSumSet has a solution.
LEMMA SumExists ==
  ASSUME NEW S, IsFiniteSet(S), NEW f \in [S -> Int]
  PROVE  \E it \in [SUBSET S -> Int] : SumsUp(it, f, S)
<1> DEFINE ch == [s \in SUBSET S |-> CHOOSE x \in s : TRUE]
           op == [p \in S \X Int |-> f[p[1]] + p[2]]
<1>1. \A s \in SUBSET S : s # {} => ch[s] \in s
  OBVIOUS
<1>2. op \in [S \X Int -> Int] /\ \A x \in S, n \in Int : op[x, n] = f[x] + n
  <2>1. op \in [S \X Int -> Int]
    OBVIOUS
  <2>2. ASSUME NEW x \in S, NEW n \in Int PROVE op[x, n] = f[x] + n
    <3>1. <<x, n>> \in S \X Int
      OBVIOUS
    <3>2. op[<<x, n>>] = f[x] + n
      BY <3>1
    <3> QED BY <3>2
  <2> QED BY <2>1, <2>2
<1>3. PICK it \in [SUBSET S -> Int] : Folds(it, S, 0, ch, op)
  <2>1. 0 \in Int
    OBVIOUS
  <2> HIDE DEF ch, op
  <2> QED BY <1>1, <1>2, <2>1, FoldExists
<1>4. ASSUME NEW s \in SUBSET S
      PROVE  it[s] = IF s = {} THEN 0
                     ELSE f[CHOOSE x \in s : TRUE] + it[s \ {CHOOSE x \in s : TRUE}]
  <2> DEFINE c == CHOOSE x \in s : TRUE
  <2>1. ch[s] = c
    OBVIOUS
  <2>2. it[s] = IF s = {} THEN 0 ELSE op[c, it[s \ {c}]]
    <3> HIDE DEF ch, op, c
    <3> QED BY <1>3, <2>1 DEF Folds
  <2>3. s # {} => c \in S /\ it[s \ {c}] \in Int
    <3>1. s # {} => c \in s
      OBVIOUS
    <3> HIDE DEF c
    <3> QED BY <1>3, <3>1
  <2>4. s # {} => op[c, it[s \ {c}]] = f[c] + it[s \ {c}]
    <3> HIDE DEF c, op
    <3> QED BY <1>2, <2>3
  <2> HIDE DEF c, op, ch
  <2>5. it[s] = IF s = {} THEN 0 ELSE f[c] + it[s \ {c}]
    BY <2>2, <2>4
  <2> QED BY <2>5 DEF c
<1> QED BY <1>3, <1>4 DEF SumsUp

\* Where each number of a sum is the size of a set, the sum is at least the
\* size of the union, and is that size if the sets are disjoint.
LEMMA SumOfSizes ==
  ASSUME NEW S, IsFiniteSet(S), NEW U, IsFiniteSet(U),
         NEW X, \A x \in S : X[x] \in SUBSET U,
         NEW f, \A x \in S : f[x] = Cardinality(X[x]),
         NEW sum, SumStep(sum, f, S)
  PROVE  /\ sum[S] >= Cardinality(UNION {X[x] : x \in S})
         /\ (\A x, y \in S : x # y => X[x] \cap X[y] = {})
               => sum[S] = Cardinality(UNION {X[x] : x \in S})
<1> DEFINE Union(s) == UNION {X[x] : x \in s}
           Apart == \A x, y \in S : x # y => X[x] \cap X[y] = {}
           T == {s \in SUBSET S : /\ sum[s] >= Cardinality(Union(s))
                                  /\ Apart => sum[s] = Cardinality(Union(s))}
<1>0. \A s \in SUBSET S : /\ Union(s) \in SUBSET U /\ IsFiniteSet(Union(s))
                          /\ Cardinality(Union(s)) \in Nat
                          /\ sum[s] \in Int
  <2>1. \A s \in SUBSET S : Union(s) \in SUBSET U
    OBVIOUS
  <2> HIDE DEF Union
  <2> QED BY <2>1, FS_Subset, FS_CardinalityType DEF SumStep
<1>1. ASSUME NEW s \in SUBSET S, \A t \in SUBSET s : t # s => t \in T
      PROVE  s \in T
  <2>1. CASE s = {}
    <3>1. Union(s) = {} /\ sum[s] = 0
      BY <2>1 DEF SumStep
    <3> HIDE DEF Union
    <3> QED BY <3>1, FS_EmptySet
  <2>2. CASE s # {}
    <3>1. PICK x \in s : TRUE
      BY <2>2
    <3> DEFINE r == s \ {x}
    <3>2. r \in SUBSET S /\ r \in T /\ x \in S
      BY <1>1, <3>1
    <3>3. sum[s] = f[x] + sum[r]
      BY <3>1 DEF SumStep
    <3>4. Union(s) = X[x] \cup Union(r)
      BY <3>1
    <3>5. Apart => X[x] \cap Union(r) = {}
      BY <3>2
    <3>6. /\ sum[r] >= Cardinality(Union(r))
          /\ Apart => sum[r] = Cardinality(Union(r))
      BY <3>2
    <3>7. IsFiniteSet(X[x]) /\ X[x] \in SUBSET U /\ f[x] = Cardinality(X[x])
          /\ f[x] \in Nat
      BY <3>2, FS_Subset, FS_CardinalityType
    <3>8. /\ IsFiniteSet(Union(r)) /\ Cardinality(Union(r)) \in Nat
          /\ sum[r] \in Int /\ sum[s] \in Int /\ Cardinality(Union(s)) \in Nat
      BY <1>0, <3>2
    <3> HIDE DEF Union, Apart, r
    <3>9. Cardinality(Union(s)) = Cardinality(X[x]) + Cardinality(Union(r))
                                    - Cardinality(X[x] \cap Union(r))
      BY <3>4, <3>7, <3>8, FS_Union
    <3>10. /\ Cardinality(X[x] \cap Union(r)) \in Nat
           /\ Apart => Cardinality(X[x] \cap Union(r)) = 0
      <4>1. IsFiniteSet(X[x] \cap Union(r))
        BY <3>7, FS_Intersection
      <4> QED BY <3>5, <4>1, FS_CardinalityType, FS_EmptySet
    <3>11. sum[s] >= Cardinality(Union(s))
      BY <3>3, <3>6, <3>7, <3>8, <3>9, <3>10
    <3>12. Apart => sum[s] = Cardinality(Union(s))
      BY <3>3, <3>6, <3>7, <3>8, <3>9, <3>10
    <3> QED BY <3>11, <3>12
  <2> QED BY <2>1, <2>2
<1>2. S \in T
  <2>1. \A s \in SUBSET S : s \in T
    <3> HIDE DEF T
    <3> QED BY <1>1, FiniteInduction
  <2> HIDE DEF T
  <2> QED BY <2>1
<1> QED BY <1>2

-----------------------------------------------------------------------------
(* The greatest and the least. *)

\* The element that is at least as great as all others is Max.
LEMMA MaxIs ==
  ASSUME NEW s, NEW m \in s, \A y \in s : y \in Int /\ m >= y
  PROVE  Max(s) = m
<1>1. \E x \in s : \A y \in s : x >= y
  OBVIOUS
<1>2. Max(s) \in s /\ \A y \in s : Max(s) >= y
  BY <1>1 DEF Max
<1> QED BY <1>2

\* The element that is at most as great as all others is Min.
LEMMA MinIs ==
  ASSUME NEW s, NEW m \in s, \A y \in s : y \in Int /\ m =< y
  PROVE  Min(s) = m
<1>1. \E x \in s : \A y \in s : x =< y
  OBVIOUS
<1>2. Min(s) \in s /\ \A y \in s : Min(s) =< y
  BY <1>1 DEF Min
<1> QED BY <1>2

\* The greater and the smaller of two numbers.
LEMMA MaxMin ==
  ASSUME NEW a \in Int, NEW b \in Int
  PROVE  /\ Max({a, b}) = IF a < b THEN b ELSE a
         /\ Min({a, b}) = IF a < b THEN a ELSE b
<1>1. Max({a, b}) \in {a, b} /\ \A y \in {a, b} : Max({a, b}) >= y
  <2>1. \E x \in {a, b} : \A y \in {a, b} : x >= y
    OBVIOUS
  <2> QED BY <2>1 DEF Max
<1>2. Min({a, b}) \in {a, b} /\ \A y \in {a, b} : Min({a, b}) =< y
  <2>1. \E x \in {a, b} : \A y \in {a, b} : x =< y
    OBVIOUS
  <2> QED BY <2>1 DEF Min
<1> QED BY <1>1, <1>2

\* A set of indices that is not empty has a greatest one.
LEMMA MaxExists ==
  ASSUME NEW n \in Nat, NEW s \in SUBSET (1..n), s # {}
  PROVE  Max(s) \in s /\ \A y \in s : Max(s) >= y
<1> DEFINE T == {k \in Nat : \E x \in s : k = n - x}
<1>0. \A x \in s : n - x \in Nat
  OBVIOUS
<1>1. T \in SUBSET Nat /\ T # {}
  BY <1>0
<1>2. PICK z \in T : \A y \in T : z =< y
  <2> HIDE DEF T
  <2> QED BY <1>1, LeastElement
<1>3. PICK x \in s : z = n - x
  BY <1>2
<1>4. ASSUME NEW y \in s PROVE x >= y
  <2>1. n - y \in T
    BY <1>0
  <2>2. n - x =< n - y
    BY <1>2, <1>3, <2>1
  <2>3. x \in Int /\ y \in Int
    OBVIOUS
  <2> QED BY <2>2, <2>3
<1>5. \E m \in s : \A y \in s : m >= y
  BY <1>4
<1> QED BY <1>5 DEF Max

-----------------------------------------------------------------------------
(* Folds over sequences. *)

\* A function of the parts of 1..n, and one of the lengths, that fold.
FoldEquation(it, n, base, op) ==
    \A s \in SUBSET (1..n) :
       it[s] = IF s = {} THEN base ELSE op[Max(s), it[s \ {Max(s)}]]

\* g[k] is what the fold has made of the first k elements.
FoldSteps(g, n, V, base, op) ==
    /\ g \in [0..n -> V]
    /\ g[0] = base
    /\ \A k \in 1..n : g[k-1] \in V /\ g[k] = op[k, g[k-1]]

\* The equation of FoldLeft, for a sequence of length n whose k-th element
\* makes op[k, v] of v.
FoldsLeft(it, n, V, base, op) ==
    /\ it[{}] = base
    /\ \A s \in SUBSET (1..n) :
         s # {} /\ it[s \ {Max(s)}] \in V =>
            it[s] = op[Max(s), it[s \ {Max(s)}]]

\* There is a function that folds the parts of 1..n from the left.
LEMMA FoldLeftExists ==
  ASSUME NEW n \in Nat, NEW V, NEW base \in V, NEW op \in [(1..n) \X V -> V]
  PROVE  \E it \in [SUBSET (1..n) -> V] : FoldEquation(it, n, base, op)
<1> DEFINE S == 1..n
           ch == [s \in SUBSET S |-> Max(s)]
<1>1. IsFiniteSet(S)
  BY FS_Interval
<1>2. \A s \in SUBSET S : s # {} => ch[s] \in s
  BY MaxExists
<1>3. op \in [S \X V -> V]
  OBVIOUS
<1>4. PICK it \in [SUBSET S -> V] : Folds(it, S, base, ch, op)
  <2> HIDE DEF S, ch
  <2> QED BY <1>1, <1>2, <1>3, FoldExists
<1>5. ASSUME NEW s \in SUBSET S
      PROVE  it[s] = IF s = {} THEN base ELSE op[Max(s), it[s \ {Max(s)}]]
  <2>1. ch[s] = Max(s)
    OBVIOUS
  <2> HIDE DEF ch, S
  <2> QED BY <1>4, <2>1 DEF Folds
<1> QED BY <1>4, <1>5 DEF FoldEquation

\* What the fold makes of the first k elements.
LEMMA FoldLeftSteps ==
  ASSUME NEW n \in Nat, NEW V, NEW base \in V, NEW op \in [(1..n) \X V -> V],
         NEW it, FoldsLeft(it, n, V, base, op)
  PROVE  FoldSteps([k \in 0..n |-> it[1..k]], n, V, base, op)
<1>1. it[1..0] = base
  <2>1. 1..0 = {}
    OBVIOUS
  <2> QED BY <2>1 DEF FoldsLeft
<1>2. ASSUME NEW k \in 1..n, it[1..(k-1)] \in V
      PROVE  it[1..k] = op[k, it[1..(k-1)]]
  <2>1. 1..k \in SUBSET (1..n) /\ k \in 1..k
    OBVIOUS
  <2>2. Max(1..k) = k
    <3>1. \A y \in 1..k : y \in Int /\ k >= y
      OBVIOUS
    <3> QED BY <2>1, <3>1, MaxIs
  <2>3. (1..k) \ {k} = 1..(k-1) /\ 1..k # {}
    OBVIOUS
  <2>4. it[1..k] = op[Max(1..k), it[(1..k) \ {Max(1..k)}]]
    <3>1. it[(1..k) \ {Max(1..k)}] \in V
      BY <1>2, <2>2, <2>3
    <3> QED BY <2>1, <2>3, <3>1 DEF FoldsLeft
  <2> QED BY <2>2, <2>3, <2>4
<1> DEFINE K == {k \in Nat : k =< n => it[1..k] \in V}
<1>3. 0 \in K
  BY <1>1
<1>4. ASSUME NEW k \in Nat, k \in K PROVE k + 1 \in K
  <2> SUFFICES ASSUME k + 1 =< n PROVE it[1..(k+1)] \in V
    OBVIOUS
  <2>1. k + 1 \in 1..n /\ (k + 1) - 1 = k /\ it[1..k] \in V
    BY <1>4
  <2>2. it[1..(k+1)] = op[k + 1, it[1..k]]
    BY <1>2, <2>1
  <2>3. <<k + 1, it[1..k]>> \in (1..n) \X V
    BY <2>1
  <2> QED BY <2>2, <2>3
<1>5. \A k \in Nat : k \in K
  <2> HIDE DEF K
  <2> QED BY <1>3, <1>4, SetInduction
<1>6. \A k \in 0..n : it[1..k] \in V
  BY <1>5
<1> DEFINE g == [k \in 0..n |-> it[1..k]]
<1>7. g \in [0..n -> V]
  BY <1>6
<1>8. g[0] = base
  BY <1>1
<1>9. ASSUME NEW k \in 1..n PROVE g[k-1] \in V /\ g[k] = op[k, g[k-1]]
  <2>1. k \in 0..n /\ k - 1 \in 0..n
    OBVIOUS
  <2>2. g[k] = it[1..k] /\ g[k-1] = it[1..(k-1)] /\ it[1..(k-1)] \in V
    BY <1>6, <2>1
  <2> HIDE DEF g
  <2> QED BY <1>2, <2>2
<1> HIDE DEF g
<1>10. FoldSteps(g, n, V, base, op)
  BY <1>7, <1>8, <1>9 DEF FoldSteps
<1> QED BY <1>10 DEF g

-----------------------------------------------------------------------------
(* Sequences that are put together. *)

\* Position i of flat is position pos[i] of block block[i] of the first k blocks.
Places(block, pos, flat, seqs, k) ==
    /\ \A i \in 1..Len(flat) :
         /\ block[i] \in 1..k /\ pos[i] \in 1..Len(seqs[block[i]])
         /\ flat[i] = seqs[block[i]][pos[i]]
    /\ \A i, j \in 1..Len(flat) : block[i] = block[j] /\ pos[i] = pos[j] => i = j
    /\ \A m \in 1..k : \A p \in 1..Len(seqs[m]) :
         \E i \in 1..Len(flat) : block[i] = m /\ pos[i] = p

\* Blocks that are put together, one after the other.
LEMMA PlacesGrow ==
  ASSUME NEW V, NEW seqs \in Seq(Seq(V)), NEW k \in Nat, k + 1 \in 1..Len(seqs),
         NEW flat \in Seq(V), NEW block, NEW pos, Places(block, pos, flat, seqs, k)
  PROVE  \E b, p : Places(b, p, flat \o seqs[k + 1], seqs, k + 1)
<1> DEFINE new == seqs[k + 1]
           L == Len(flat)
           M == Len(new)
           b == [i \in 1..(L + M) |-> IF i =< L THEN block[i] ELSE k + 1]
           p == [i \in 1..(L + M) |-> IF i =< L THEN pos[i] ELSE i - L]
           all == flat \o new
<1>1. new \in Seq(V) /\ L \in Nat /\ M \in Nat /\ DOMAIN seqs = 1..Len(seqs)
  OBVIOUS
<1>2. Len(all) = L + M
      /\ \A i \in 1..(L + M) : all[i] = IF i =< L THEN flat[i] ELSE new[i - L]
  BY <1>1
<1> HIDE DEF all
<1>3. ASSUME NEW i \in 1..(L + M)
      PROVE  /\ b[i] \in 1..(k+1) /\ p[i] \in 1..Len(seqs[b[i]])
             /\ all[i] = seqs[b[i]][p[i]]
             /\ i =< L => b[i] = block[i] /\ p[i] = pos[i] /\ b[i] \in 1..k /\ i \in 1..L
             /\ ~(i =< L) => b[i] = k + 1 /\ p[i] = i - L
  <2>1. CASE i =< L
    <3>1. i \in 1..L /\ b[i] = block[i] /\ p[i] = pos[i]
      BY <1>1, <2>1
    <3>2. block[i] \in 1..k /\ pos[i] \in 1..Len(seqs[block[i]])
          /\ flat[i] = seqs[block[i]][pos[i]]
      BY <3>1 DEF Places
    <3>3. all[i] = flat[i]
      BY <1>2, <2>1
    <3> HIDE DEF b, p, L, M, new
    <3> QED BY <2>1, <3>1, <3>2, <3>3
  <2>2. CASE ~(i =< L)
    <3>1. b[i] = k + 1 /\ p[i] = i - L /\ i - L \in 1..M
      BY <1>1, <2>2
    <3>2. all[i] = new[i - L]
      BY <1>2, <2>2
    <3>3. k + 1 \in 1..(k+1)
      OBVIOUS
    <3> HIDE DEF b, p, L
    <3> QED BY <2>2, <3>1, <3>2, <3>3
  <2> QED BY <2>1, <2>2
<1>4. ASSUME NEW i \in 1..(L + M), NEW j \in 1..(L + M), b[i] = b[j], p[i] = p[j]
      PROVE  i = j
  <2> HIDE DEF b, p, new, M
  <2>1. i \in Int /\ j \in Int /\ k + 1 \notin 1..k /\ L \in Int
    BY <1>1
  <2>2. i =< L <=> j =< L
    BY <1>3, <1>4, <2>1
  <2>3. CASE i =< L
    <3>1. i \in 1..L /\ j \in 1..L /\ block[i] = block[j] /\ pos[i] = pos[j]
      BY <1>3, <1>4, <2>2, <2>3
    <3> QED BY <3>1 DEF Places
  <2>4. CASE ~(i =< L)
    <3>1. i - L = j - L
      BY <1>3, <1>4, <2>2, <2>4
    <3> HIDE DEF L
    <3> QED BY <2>1, <3>1
  <2> QED BY <2>3, <2>4
<1>5. ASSUME NEW m \in 1..(k+1), NEW q \in 1..Len(seqs[m])
      PROVE  \E i \in 1..(L + M) : b[i] = m /\ p[i] = q
  <2>1. CASE m \in 1..k
    <3>1. PICK i \in 1..L : block[i] = m /\ pos[i] = q
      BY <2>1 DEF Places
    <3>2. i \in 1..(L + M) /\ i =< L
      BY <1>1, <3>1
    <3>3. b[i] = m /\ p[i] = q
      BY <3>1, <3>2
    <3> HIDE DEF b, p, L, M
    <3> QED BY <3>2, <3>3
  <2>2. CASE m = k + 1
    <3>1. q \in 1..M
      BY <2>2
    <3>2. q + L \in 1..(L + M) /\ ~(q + L =< L) /\ (q + L) - L = q
      <4> HIDE DEF L, M
      <4> QED BY <1>1, <3>1
    <3>3. b[q + L] = k + 1 /\ p[q + L] = (q + L) - L
      <4> HIDE DEF L, M
      <4> QED BY <3>2
    <3> HIDE DEF b, p, L, M
    <3> QED BY <2>2, <3>2, <3>3
  <2> HIDE DEF b, p, L, M, new
  <2> QED BY <2>1, <2>2
<1> HIDE DEF b, p, L, M
<1>6. Places(b, p, all, seqs, k + 1)
  BY <1>2, <1>3, <1>4, <1>5 DEF Places
<1> QED BY <1>6 DEF all

\* g[k] is what the first k sequences make together.
Joins(g, seqs, n, V) ==
    /\ g \in [0..n -> Seq(V)] /\ g[0] = <<>>
    /\ \A k \in 1..n : g[k] = g[k-1] \o seqs[k]

\* FlattenSeq is what anything that joins them has at the end.
LEMMA JoinsFlatten ==
  ASSUME NEW V, NEW seqs \in Seq(Seq(V)), NEW n, Len(seqs) = n,
         NEW g, Joins(g, seqs, n, V)
  PROVE  FlattenSeq(seqs) = g[n]
<1>1. /\ n \in Nat /\ g[0] = <<>>
      /\ \A k \in 1..n : g[k] = g[k-1] \o seqs[k] /\ seqs[k] \in Seq(V)
  BY DEF Joins
<1>2. CASE n = 0
  <2>1. seqs = <<>>
    BY <1>2
  <2> QED BY <1>1, <1>2, <2>1 DEF FlattenSeq
<1>3. CASE n # 0
  <2>1. n \in Nat \ {0}
    BY <1>1, <1>3
  <2>2. Flattens(g, seqs, n)
    <3> SUFFICES ASSUME NEW i \in 1..n
                 PROVE  g[i] = IF i = 1 THEN seqs[i] ELSE g[i-1] \o seqs[i]
      BY DEF Flattens
    <3>1. CASE i = 1
      <4>1. 1 \in 1..n /\ 1 - 1 = 0
        BY <3>1
      <4>2. g[1] = g[0] \o seqs[1] /\ seqs[1] \in Seq(V)
        BY <1>1, <4>1
      <4>3. <<>> \o seqs[1] = seqs[1]
        BY <4>2
      <4> QED BY <1>1, <3>1, <4>2, <4>3
    <3>2. CASE i # 1
      BY <1>1, <3>2
    <3> QED BY <3>1, <3>2
  <2> QED BY <2>1, <2>2, FlattenSeqIs
<1> QED BY <1>2, <1>3

\* There is something that joins them.
LEMMA FlattenJoins ==
  ASSUME NEW V, NEW seqs \in Seq(Seq(V))
  PROVE  \E g : Joins(g, seqs, Len(seqs), V) /\ FlattenSeq(seqs) = g[Len(seqs)]
<1> DEFINE n == Len(seqs)
           W == Seq(V)
           op == [q \in (1..n) \X W |-> q[2] \o seqs[q[1]]]
<1>1. n \in Nat /\ <<>> \in W
  OBVIOUS
<1>2. \A k \in 1..n : seqs[k] \in Seq(V)
  OBVIOUS
<1>3. op \in [(1..n) \X W -> W]
  BY <1>2
<1>4. \A k \in 1..n, v \in W : op[k, v] = v \o seqs[k]
  <2> SUFFICES ASSUME NEW k \in 1..n, NEW v \in W PROVE op[k, v] = v \o seqs[k]
    OBVIOUS
  <2>1. <<k, v>> \in (1..n) \X W
    OBVIOUS
  <2> HIDE DEF n, W
  <2>2. op[<<k, v>>] = v \o seqs[k]
    BY <2>1
  <2> QED BY <2>2
<1> HIDE DEF op
<1>5. PICK g : FoldSteps(g, n, W, <<>>, op)
  <2> HIDE DEF n, W
  <2>1. PICK it \in [SUBSET (1..n) -> W] : FoldEquation(it, n, <<>>, op)
    BY <1>1, <1>3, FoldLeftExists
  <2>2. FoldsLeft(it, n, W, <<>>, op)
    BY <2>1 DEF FoldEquation, FoldsLeft
  <2>3. FoldSteps([k \in 0..n |-> it[1..k]], n, W, <<>>, op)
    BY <1>1, <1>3, <2>2, FoldLeftSteps
  <2> QED BY <2>3
<1>6. /\ g \in [0..n -> Seq(V)] /\ g[0] = <<>> /\ \A k \in 0..n : g[k] \in Seq(V)
      /\ \A k \in 1..n : g[k] = g[k-1] \o seqs[k]
  <2> HIDE DEF n
  <2>1. g \in [0..n -> W] /\ g[0] = <<>>
        /\ \A k \in 1..n : g[k-1] \in W /\ g[k] = op[k, g[k-1]]
    BY <1>5 DEF FoldSteps
  <2> QED BY <1>4, <2>1
<1>7. Joins(g, seqs, n, V)
  <2> HIDE DEF n
  <2> QED BY <1>6 DEF Joins
<1>8. FlattenSeq(seqs) = g[n]
  <2>1. Len(seqs) = n
    OBVIOUS
  <2> HIDE DEF n
  <2> QED BY <1>7, <2>1, JoinsFlatten
<1> QED BY <1>7, <1>8

\* A flattened sequence has the elements of its blocks, each once.
LEMMA FlattenPlaces ==
  ASSUME NEW V, NEW seqs \in Seq(Seq(V))
  PROVE  /\ FlattenSeq(seqs) \in Seq(V)
         /\ \E block, pos : Places(block, pos, FlattenSeq(seqs), seqs, Len(seqs))
<1> DEFINE n == Len(seqs)
<1>1. n \in Nat
  OBVIOUS
<1>2. PICK g : /\ g[0] = <<>> /\ \A k \in 0..n : g[k] \in Seq(V)
               /\ \A k \in 1..n : g[k] = g[k-1] \o seqs[k]
               /\ FlattenSeq(seqs) = g[n]
  <2>1. PICK g : Joins(g, seqs, n, V) /\ FlattenSeq(seqs) = g[n]
    BY FlattenJoins
  <2> HIDE DEF n
  <2>2. /\ g[0] = <<>> /\ \A k \in 0..n : g[k] \in Seq(V)
        /\ \A k \in 1..n : g[k] = g[k-1] \o seqs[k]
    BY <2>1 DEF Joins
  <2> QED BY <2>1, <2>2
<1> DEFINE K == {k \in Nat : k =< n => \E b, p : Places(b, p, g[k], seqs, k)}
<1>3. 0 \in K
  <2>1. Places(<<>>, <<>>, g[0], seqs, 0)
    BY <1>2 DEF Places
  <2> QED BY <2>1
<1>4. ASSUME NEW k \in Nat, k \in K PROVE k + 1 \in K
  <2> SUFFICES ASSUME k + 1 =< n PROVE \E b, p : Places(b, p, g[k+1], seqs, k+1)
    OBVIOUS
  <2>1. k + 1 \in 1..n /\ (k + 1) - 1 = k /\ k =< n /\ k \in 0..n
    BY <1>1
  <2>2. PICK b, p : Places(b, p, g[k], seqs, k)
    BY <1>4, <2>1
  <2>3. g[k+1] = g[k] \o seqs[k+1] /\ g[k] \in Seq(V)
    BY <1>2, <2>1
  <2>4. \E b1, p1 : Places(b1, p1, g[k] \o seqs[k+1], seqs, k+1)
    BY <2>1, <2>2, <2>3, PlacesGrow
  <2> QED BY <2>3, <2>4
<1>5. n \in K
  <2> HIDE DEF K
  <2> QED BY <1>1, <1>3, <1>4, SetInduction
<1> HIDE DEF n
<1>6. \E b, p : Places(b, p, g[n], seqs, n)
  BY <1>1, <1>5
<1> QED BY <1>1, <1>2, <1>6 DEF n

\* Two lists of sequences are joined as the first, then the second.
LEMMA FlattenConcat ==
  ASSUME NEW V, NEW s \in Seq(Seq(V)), NEW t \in Seq(Seq(V))
  PROVE  FlattenSeq(s \o t) = FlattenSeq(s) \o FlattenSeq(t)
<1> DEFINE m == Len(s)
           n == Len(t)
           both == s \o t
<1>1. /\ m \in Nat /\ n \in Nat /\ both \in Seq(Seq(V)) /\ Len(both) = m + n
      /\ \A i \in 1..(m + n) : both[i] = IF i =< m THEN s[i] ELSE t[i - m]
  OBVIOUS
<1>2. PICK g : Joins(g, s, m, V) /\ FlattenSeq(s) = g[m]
  BY FlattenJoins
<1>3. PICK h : Joins(h, t, n, V) /\ FlattenSeq(t) = h[n]
  BY FlattenJoins
<1>4. \A i \in 1..n : t[i] \in Seq(V)
  OBVIOUS
<1> HIDE DEF m, n, both
<1>5. /\ \A k \in 0..m : g[k] \in Seq(V)
      /\ g[0] = <<>> /\ \A k \in 1..m : g[k] = g[k-1] \o s[k]
      /\ \A k \in 0..n : h[k] \in Seq(V)
      /\ h[0] = <<>> /\ \A k \in 1..n : h[k] = h[k-1] \o t[k]
  BY <1>2, <1>3 DEF Joins
<1> DEFINE j == [k \in 0..(m + n) |-> IF k < m THEN g[k] ELSE g[m] \o h[k - m]]
<1>6. /\ g[m] \in Seq(V)
      /\ \A k \in 0..(m + n) : k < m => j[k] = g[k] /\ j[k] \in Seq(V)
      /\ \A k \in 0..(m + n) : ~(k < m) => j[k] = g[m] \o h[k - m] /\ j[k] \in Seq(V)
  <2>1. m \in 0..m /\ \A k \in 0..(m + n) : IF k < m THEN k \in 0..m ELSE k - m \in 0..n
    BY <1>1
  <2>2. g[m] \in Seq(V)
    BY <1>5, <2>1
  <2>3. ASSUME NEW k \in 0..(m + n), k < m PROVE j[k] = g[k] /\ j[k] \in Seq(V)
    <3>1. j[k] = g[k]
      BY <2>3
    <3> QED BY <1>5, <2>1, <2>3, <3>1
  <2>4. ASSUME NEW k \in 0..(m + n), ~(k < m) PROVE j[k] = g[m] \o h[k - m] /\ j[k] \in Seq(V)
    <3>1. j[k] = g[m] \o h[k - m]
      BY <2>4
    <3>2. h[k - m] \in Seq(V)
      BY <1>5, <2>1, <2>4
    <3>3. g[m] \o h[k - m] \in Seq(V)
      BY <2>2, <3>2
    <3> QED BY <3>1, <3>3
  <2> HIDE DEF j
  <2> QED BY <2>2, <2>3, <2>4
<1>7. j[m] = g[m]
  <2>1. m \in 0..(m + n) /\ ~(m < m) /\ m - m = 0
    BY <1>1
  <2>2. j[m] = g[m] \o h[m - m]
    BY <1>6, <2>1
  <2> HIDE DEF j
  <2>3. h[m - m] = <<>>
    BY <1>5, <2>1
  <2>4. \A s1 \in Seq(V) : s1 \o <<>> = s1
    OBVIOUS
  <2> QED BY <1>6, <2>2, <2>3, <2>4
<1>8. ASSUME NEW k \in 1..(m + n) PROVE j[k] = j[k-1] \o both[k]
  <2>1. k \in 0..(m + n) /\ k - 1 \in 0..(m + n) /\ k \in Nat
    BY <1>1
  <2>2. CASE k =< m
    <3>1. k \in 1..m /\ k - 1 < m
      BY <1>1, <2>2
    <3>2. j[k-1] = g[k-1]
      BY <1>6, <2>1, <3>1
    <3>3. j[k] = g[k]
      BY <1>1, <1>6, <1>7, <2>1, <2>2
    <3> HIDE DEF j
    <3> QED BY <1>1, <1>5, <2>2, <3>1, <3>2, <3>3
  <2>3. CASE ~(k =< m)
    <3>1. /\ ~(k < m) /\ ~(k - 1 < m) /\ k - m \in 1..n /\ (k - m) - 1 = (k - 1) - m
          /\ (k - 1) - m \in 0..n
      BY <1>1, <2>1, <2>3
    <3>2. j[k] = g[m] \o h[k - m] /\ j[k-1] = g[m] \o h[(k-1) - m]
      BY <1>6, <2>1, <3>1
    <3>3. h[k - m] = h[(k-1) - m] \o t[k - m]
      BY <1>5, <3>1
    <3>4. both[k] = t[k - m] /\ t[k - m] \in Seq(V) /\ h[(k-1) - m] \in Seq(V)
      BY <1>1, <1>4, <1>5, <2>3, <3>1
    <3> HIDE DEF j
    <3>5. \A s1, s2, s3 \in Seq(V) : s1 \o (s2 \o s3) = (s1 \o s2) \o s3
      OBVIOUS
    <3>6. g[m] \o (h[(k-1) - m] \o t[k - m]) = (g[m] \o h[(k-1) - m]) \o t[k - m]
      BY <1>6, <3>4, <3>5
    <3> QED BY <3>2, <3>3, <3>4, <3>6
  <2> QED BY <2>2, <2>3
<1>9. Joins(j, both, m + n, V)
  <2>1. 0 \in 0..(m + n) /\ (~(0 < m) => m = 0)
    BY <1>1
  <2>2. j[0] = <<>>
    BY <1>5, <1>6, <1>7, <2>1
  <2>3. j \in [0..(m + n) -> Seq(V)]
    BY <1>6
  <2> HIDE DEF j
  <2> QED BY <1>8, <2>2, <2>3 DEF Joins
<1>10. FlattenSeq(both) = j[m + n]
  <2> HIDE DEF j
  <2> QED BY <1>1, <1>9, JoinsFlatten, SMTT(30), ZenonT(30)
<1>11. j[m + n] = g[m] \o h[n]
  <2>1. m + n \in 0..(m + n) /\ ~(m + n < m) /\ (m + n) - m = n
    BY <1>1
  <2> QED BY <1>6, <2>1
<1> HIDE DEF j
<1> QED BY <1>2, <1>3, <1>10, <1>11 DEF both

\* A list of lists of sequences is joined in either order.
LEMMA FlattenFlatten ==
  ASSUME NEW V, NEW sss \in Seq(Seq(Seq(V)))
  PROVE  FlattenSeq(FlattenSeq(sss)) = FlattenSeq([k \in 1..Len(sss) |-> FlattenSeq(sss[k])])
<1> DEFINE n == Len(sss)
           W == Seq(V)
           inner == [k \in 1..n |-> FlattenSeq(sss[k])]
<1>1. n \in Nat /\ \A k \in 1..n : sss[k] \in Seq(W)
  OBVIOUS
<1>2. PICK g : Joins(g, sss, n, W) /\ FlattenSeq(sss) = g[n]
  BY FlattenJoins
<1>3. /\ \A k \in 0..n : g[k] \in Seq(W)
      /\ g[0] = <<>> /\ \A k \in 1..n : g[k] = g[k-1] \o sss[k]
  BY <1>2 DEF Joins
<1>4. \A ss \in Seq(W) : FlattenSeq(ss) \in Seq(V)
  BY FlattenPlaces
<1>5. inner \in Seq(W) /\ Len(inner) = n
  <2>1. \A k \in 1..n : FlattenSeq(sss[k]) \in W
    BY <1>1, <1>4
  <2> HIDE DEF n, W
  <2>2. inner \in [1..n -> W]
    BY <2>1
  <2> HIDE DEF inner
  <2> QED BY <1>1, <2>2
<1> DEFINE q == [k \in 0..n |-> FlattenSeq(g[k])]
<1>6. Joins(q, inner, n, V)
  <2>1. q \in [0..n -> Seq(V)]
    BY <1>3, <1>4
  <2>2. q[0] = <<>>
    <3>1. FlattenSeq(<<>>) = <<>>
      BY DEF FlattenSeq
    <3> QED BY <1>1, <1>3, <3>1
  <2>3. ASSUME NEW k \in 1..n PROVE q[k] = q[k-1] \o inner[k]
    <3>1. k \in 0..n /\ k - 1 \in 0..n
      BY <1>1
    <3>2. g[k] = g[k-1] \o sss[k] /\ g[k-1] \in Seq(Seq(V)) /\ sss[k] \in Seq(Seq(V))
      BY <1>1, <1>3, <3>1
    <3>3. FlattenSeq(g[k]) = FlattenSeq(g[k-1]) \o FlattenSeq(sss[k])
      BY <3>2, FlattenConcat
    <3> HIDE DEF n
    <3> QED BY <3>1, <3>3
  <2> HIDE DEF q, inner, n
  <2> QED BY <2>1, <2>2, <2>3 DEF Joins
<1>7. FlattenSeq(inner) = q[n]
  <2> HIDE DEF q, inner, n
  <2> QED BY <1>5, <1>6, JoinsFlatten
<1>8. q[n] = FlattenSeq(g[n])
  BY <1>1
<1> HIDE DEF q
<1> QED BY <1>2, <1>7, <1>8

\* f is a function from V to W.
Maps(f, V, W) == f \in [V -> W]

\* f of every element of s.
Mapped(f, s) == [i \in 1..Len(s) |-> f[s[i]]]

\* It has as many elements, in the same order.
LEMMA MappedIs ==
  ASSUME NEW V, NEW W, NEW f, Maps(f, V, W), NEW s \in Seq(V)
  PROVE  /\ Mapped(f, s) \in Seq(W) /\ Len(Mapped(f, s)) = Len(s)
         /\ \A i \in 1..Len(s) : Mapped(f, s)[i] = f[s[i]]
<1> DEFINE n == Len(s)
<1>1. n \in Nat /\ \A i \in 1..n : s[i] \in V
  OBVIOUS
<1>2. Mapped(f, s) = [i \in 1..n |-> f[s[i]]]
  BY DEF Mapped
<1> HIDE DEF n
<1>3. Mapped(f, s) \in [1..n -> W]
  BY <1>1, <1>2 DEF Maps
<1>4. Mapped(f, s) \in Seq(W) /\ Len(Mapped(f, s)) = n
  BY <1>1, <1>3
<1> QED BY <1>2, <1>4 DEF n

\* It is the same before two sequences are put together or after.
LEMMA MappedConcat ==
  ASSUME NEW V, NEW W, NEW f, Maps(f, V, W), NEW s \in Seq(V), NEW t \in Seq(V)
  PROVE  Mapped(f, s \o t) = Mapped(f, s) \o Mapped(f, t)
<1> DEFINE m == Len(s)
           n == Len(t)
           both == s \o t
           a == Mapped(f, s)
           b == Mapped(f, t)
           c == Mapped(f, both)
<1>1. /\ m \in Nat /\ n \in Nat /\ both \in Seq(V) /\ Len(both) = m + n
      /\ \A i \in 1..(m + n) : both[i] = IF i =< m THEN s[i] ELSE t[i - m]
  OBVIOUS
<1>2. /\ a \in Seq(W) /\ Len(a) = m /\ \A i \in 1..m : a[i] = f[s[i]]
      /\ b \in Seq(W) /\ Len(b) = n /\ \A i \in 1..n : b[i] = f[t[i]]
      /\ c \in Seq(W) /\ Len(c) = m + n /\ \A i \in 1..(m + n) : c[i] = f[both[i]]
  <2>1. a \in Seq(W) /\ Len(a) = Len(s) /\ \A i \in 1..Len(s) : a[i] = f[s[i]]
    BY MappedIs
  <2>2. b \in Seq(W) /\ Len(b) = Len(t) /\ \A i \in 1..Len(t) : b[i] = f[t[i]]
    BY MappedIs
  <2>3. Len(both) = m + n /\ both \in Seq(V)
    BY <1>1
  <2> HIDE DEF both, a, b
  <2>4. /\ c \in Seq(W) /\ Len(c) = Len(both)
        /\ \A i \in 1..Len(both) : c[i] = f[both[i]]
    BY <2>3, MappedIs, SMTT(30), ZenonT(30)
  <2> HIDE DEF c
  <2> QED BY <2>1, <2>2, <2>3, <2>4
<1> HIDE DEF m, n, both, a, b, c
<1> DEFINE d == a \o b
<1>3. /\ d \in Seq(W) /\ Len(d) = m + n
      /\ \A i \in 1..(m + n) : d[i] = IF i =< m THEN a[i] ELSE b[i - m]
  <2>1. \A x, y \in Seq(W) : /\ x \o y \in Seq(W) /\ Len(x \o y) = Len(x) + Len(y)
                            /\ \A i \in 1..(Len(x) + Len(y)) :
                                 (x \o y)[i] = IF i =< Len(x) THEN x[i] ELSE y[i - Len(x)]
    OBVIOUS
  <2> QED BY <1>1, <1>2, <2>1
<1> HIDE DEF d
<1>4. ASSUME NEW i \in 1..(m + n) PROVE c[i] = d[i]
  <2>1. CASE i =< m
    <3>1. i \in 1..m
      BY <1>1, <2>1
    <3>2. both[i] = s[i] /\ d[i] = a[i]
      BY <1>1, <1>3, <2>1
    <3>3. c[i] = f[both[i]] /\ a[i] = f[s[i]]
      BY <1>2, <3>1
    <3> QED BY <3>2, <3>3
  <2>2. CASE ~(i =< m)
    <3>1. i - m \in 1..n
      BY <1>1, <2>2
    <3>2. both[i] = t[i - m] /\ d[i] = b[i - m]
      BY <1>1, <1>3, <2>2
    <3>3. c[i] = f[both[i]] /\ b[i - m] = f[t[i - m]]
      BY <1>2, <3>1
    <3> QED BY <3>2, <3>3
  <2> QED BY <2>1, <2>2
<1>5. c = d
  BY <1>1, <1>2, <1>3, <1>4
<1> QED BY <1>5 DEF a, b, c, d, both

\* And before many are put together or after.
LEMMA MappedFlatten ==
  ASSUME NEW V, NEW W, NEW f, Maps(f, V, W), NEW ss \in Seq(Seq(V))
  PROVE  Mapped(f, FlattenSeq(ss)) = FlattenSeq([k \in 1..Len(ss) |-> Mapped(f, ss[k])])
<1> DEFINE n == Len(ss)
           inner == [k \in 1..n |-> Mapped(f, ss[k])]
<1>1. n \in Nat /\ \A k \in 1..n : ss[k] \in Seq(V)
  OBVIOUS
<1>2. PICK g : Joins(g, ss, n, V) /\ FlattenSeq(ss) = g[n]
  BY FlattenJoins
<1> HIDE DEF n
<1>3. /\ \A k \in 0..n : g[k] \in Seq(V)
      /\ g[0] = <<>> /\ \A k \in 1..n : g[k] = g[k-1] \o ss[k]
  BY <1>2 DEF Joins
<1>4. \A s \in Seq(V) : Mapped(f, s) \in Seq(W) /\ Len(Mapped(f, s)) = Len(s)
  BY MappedIs
<1>5. inner \in Seq(Seq(W)) /\ Len(inner) = n
  <2>1. inner \in [1..n -> Seq(W)]
    BY <1>1, <1>4
  <2> HIDE DEF inner
  <2> QED BY <1>1, <2>1
<1> DEFINE q == [k \in 0..n |-> Mapped(f, g[k])]
<1>6. Joins(q, inner, n, W)
  <2>1. q \in [0..n -> Seq(W)]
    BY <1>3, <1>4
  <2>2. q[0] = <<>>
    <3>1. <<>> \in Seq(V) /\ Len(<<>>) = 0
      OBVIOUS
    <3> DEFINE e == <<>>
    <3>2. e \in Seq(V) /\ Len(e) = 0
      OBVIOUS
    <3> HIDE DEF e
    <3>4. Mapped(f, e) \in Seq(W) /\ Len(Mapped(f, e)) = Len(e)
      BY <1>4, <3>2
    <3>5. \A x \in Seq(W) : Len(x) = 0 => x = <<>>
      OBVIOUS
    <3>6. Mapped(f, e) = <<>>
      BY <3>2, <3>4, <3>5
    <3>3. Mapped(f, <<>>) = <<>>
      BY <3>6 DEF e
    <3> QED BY <1>1, <1>3, <3>3
  <2>3. ASSUME NEW k \in 1..n PROVE q[k] = q[k-1] \o inner[k]
    <3>1. k \in 0..n /\ k - 1 \in 0..n
      BY <1>1
    <3>2. g[k] = g[k-1] \o ss[k] /\ g[k-1] \in Seq(V) /\ ss[k] \in Seq(V)
      BY <1>1, <1>3, <3>1
    <3>4. Mapped(f, g[k-1] \o ss[k]) = Mapped(f, g[k-1]) \o Mapped(f, ss[k])
      <4> DEFINE s1 == g[k-1]
                 s2 == ss[k]
      <4>1. s1 \in Seq(V) /\ s2 \in Seq(V)
        BY <3>2
      <4> HIDE DEF s1, s2
      <4>2. Mapped(f, s1 \o s2) = Mapped(f, s1) \o Mapped(f, s2)
        BY <4>1, MappedConcat
      <4> QED BY <4>2 DEF s1, s2
    <3>3. Mapped(f, g[k]) = Mapped(f, g[k-1]) \o Mapped(f, ss[k])
      BY <3>2, <3>4
    <3> QED BY <3>1, <3>3
  <2> HIDE DEF q, inner
  <2> QED BY <2>1, <2>2, <2>3 DEF Joins
<1>7. FlattenSeq(inner) = q[n]
  <2> HIDE DEF q, inner
  <2> QED BY <1>5, <1>6, JoinsFlatten
<1>8. q[n] = Mapped(f, g[n])
  BY <1>1
<1> HIDE DEF q
<1> QED BY <1>2, <1>7, <1>8 DEF n

\* What f makes of the elements of a joined list is what it makes of the parts.
LEMMA FlatMapFlatten ==
  ASSUME NEW V, NEW W, NEW f, Maps(f, V, Seq(W)), NEW ss \in Seq(Seq(V))
  PROVE  FlattenSeq(Mapped(f, FlattenSeq(ss)))
           = FlattenSeq([k \in 1..Len(ss) |-> FlattenSeq(Mapped(f, ss[k]))])
<1> DEFINE n == Len(ss)
           X == Seq(W)
           inner == [k \in 1..n |-> Mapped(f, ss[k])]
<1>1. n \in Nat /\ \A k \in 1..n : ss[k] \in Seq(V)
  OBVIOUS
<1>2. Mapped(f, FlattenSeq(ss)) = FlattenSeq(inner)
  <2>1. Maps(f, V, X)
    OBVIOUS
  <2> HIDE DEF X
  <2>2. Mapped(f, FlattenSeq(ss)) = FlattenSeq([k \in 1..Len(ss) |-> Mapped(f, ss[k])])
    BY <2>1, MappedFlatten
  <2> QED BY <2>2
<1>3. inner \in Seq(Seq(X)) /\ Len(inner) = n
  <2>1. \A k \in 1..n : Mapped(f, ss[k]) \in Seq(X)
    <3>1. Maps(f, V, X)
      OBVIOUS
    <3> HIDE DEF n, X
    <3>2. \A s \in Seq(V) : Mapped(f, s) \in Seq(X)
      BY <3>1, MappedIs
    <3> QED BY <1>1, <3>2
  <2> HIDE DEF n, X
  <2>2. inner \in [1..n -> Seq(X)]
    BY <2>1
  <2> HIDE DEF inner
  <2> QED BY <1>1, <2>2
<1>4. FlattenSeq(FlattenSeq(inner)) = FlattenSeq([k \in 1..n |-> FlattenSeq(inner[k])])
  <2> HIDE DEF n, inner
  <2> QED BY <1>3, FlattenFlatten
<1>5. [k \in 1..n |-> FlattenSeq(inner[k])] = [k \in 1..n |-> FlattenSeq(Mapped(f, ss[k]))]
  OBVIOUS
<1> HIDE DEF inner
<1> QED BY <1>2, <1>4, <1>5

\* One sequence is joined to itself, ...
LEMMA FlattenOne ==
  ASSUME NEW V, NEW s \in Seq(V)
  PROVE  FlattenSeq(<<s>>) = s
<1> DEFINE g == [i \in 1..1 |-> s]
<1>1. Flattens(g, <<s>>, 1)
  BY DEF Flattens
<1>2. Len(<<s>>) = 1 /\ 1 \in Nat \ {0}
  OBVIOUS
<1>3. FlattenSeq(<<s>>) = g[1]
  <2> HIDE DEF g
  <2> QED BY <1>1, <1>2, FlattenSeqIs
<1> QED BY <1>3

\* ... the sequences of each one element to the sequence of all, ...
LEMMA FlattenSingles ==
  ASSUME NEW V, NEW s \in Seq(V), NEW ss, Len(ss) = Len(s), ss \in Seq(Seq(V)),
         \A i \in 1..Len(s) : ss[i] = <<s[i]>>
  PROVE  FlattenSeq(ss) = s
<1> DEFINE n == Len(s)
           g == [k \in 0..n |-> [i \in 1..k |-> s[i]]]
<1>1. n \in Nat /\ \A i \in 1..n : s[i] \in V
  OBVIOUS
<1> HIDE DEF n
<1>2. ASSUME NEW k \in 0..n
      PROVE  g[k] \in Seq(V) /\ Len(g[k]) = k /\ \A i \in 1..k : g[k][i] = s[i]
  <2> DEFINE e == [i \in 1..k |-> s[i]]
  <2>1. k \in Nat /\ g[k] = e /\ \A i \in 1..k : i \in 1..n
    BY <1>1
  <2> HIDE DEF g
  <2>2. e \in [1..k -> V] /\ \A i \in 1..k : e[i] = s[i]
    BY <1>1, <2>1
  <2> HIDE DEF e
  <2>3. e \in Seq(V) /\ Len(e) = k
    BY <2>1, <2>2
  <2> QED BY <2>1, <2>2, <2>3
<1>3. Joins(g, ss, n, V)
  <2>1. g \in [0..n -> Seq(V)]
    BY <1>2
  <2> HIDE DEF g
  <2>2. g[0] = <<>>
    <3>1. 0 \in 0..n
      BY <1>1
    <3>2. g[0] \in Seq(V) /\ Len(g[0]) = 0
      BY <1>2, <3>1
    <3> QED BY <3>2
  <2>3. ASSUME NEW k \in 1..n PROVE g[k] = g[k-1] \o ss[k]
    <3>1. k \in 0..n /\ k - 1 \in 0..n /\ k \in Nat /\ ss[k] = <<s[k]>> /\ s[k] \in V
      BY <1>1 DEF n
    <3>2. /\ g[k] \in Seq(V) /\ Len(g[k]) = k /\ \A i \in 1..k : g[k][i] = s[i]
          /\ g[k-1] \in Seq(V) /\ Len(g[k-1]) = k - 1
          /\ \A i \in 1..(k-1) : g[k-1][i] = s[i]
      BY <1>2, <3>1
    <3> DEFINE h == g[k-1] \o <<s[k]>>
    <3>3. /\ h \in Seq(V) /\ Len(h) = k
          /\ \A i \in 1..k : h[i] = IF i =< k - 1 THEN g[k-1][i] ELSE s[k]
      BY <3>1, <3>2
    <3> HIDE DEF h
    <3>4. ASSUME NEW i \in 1..k PROVE h[i] = g[k][i]
      <4>1. g[k][i] = s[i]
        BY <3>2
      <4>2. CASE i =< k - 1
        <5>1. i \in 1..(k-1)
          BY <3>1, <4>2
        <5> QED BY <3>2, <3>3, <4>1, <4>2, <5>1
      <4>3. CASE ~(i =< k - 1)
        <5>1. i = k
          BY <3>1, <4>3
        <5> QED BY <3>3, <4>1, <4>3, <5>1
      <4> QED BY <4>2, <4>3
    <3> DEFINE e == g[k]
    <3>5. h = g[k]
      <4>1. e \in Seq(V) /\ Len(e) = k /\ \A i \in 1..k : h[i] = e[i]
        BY <3>2, <3>4
      <4> HIDE DEF e
      <4>2. h = e
        BY <3>1, <3>3, <4>1
      <4> QED BY <4>2 DEF e
    <3> QED BY <3>1, <3>5 DEF h
  <2> QED BY <2>1, <2>2, <2>3 DEF Joins
<1>4. FlattenSeq(ss) = g[n]
  <2> HIDE DEF g
  <2> QED BY <1>3, JoinsFlatten DEF n
<1>5. n \in 0..n
  BY <1>1
<1>6. g[n] \in Seq(V) /\ Len(g[n]) = Len(s) /\ \A i \in 1..Len(s) : g[n][i] = s[i]
  <2> HIDE DEF g
  <2> QED BY <1>2, <1>5 DEF n
<1> HIDE DEF g
<1>7. FlattenSeq(ss) \in Seq(V) /\ Len(FlattenSeq(ss)) = Len(s)
      /\ \A i \in 1..Len(s) : FlattenSeq(ss)[i] = s[i]
  BY <1>4, <1>6
<1> HIDE DEF n
<1> DEFINE flat == FlattenSeq(ss)
<1> HIDE DEF flat
<1>8. /\ flat \in Seq(V) /\ s \in Seq(V) /\ Len(flat) = Len(s)
      /\ \A i \in 1..Len(s) : flat[i] = s[i]
  BY <1>7 DEF flat
<1>9. flat = s
  BY <1>8
<1> QED BY <1>9 DEF flat

\* ... and empty sequences to the empty one.
LEMMA FlattenNothing ==
  ASSUME NEW ss, NEW n \in Nat, Len(ss) = n, ss = [i \in 1..n |-> <<>>]
  PROVE  FlattenSeq(ss) = <<>>
<1> DEFINE g == [k \in 0..n |-> <<>>]
           V == {}
<1>1. ss \in Seq(Seq(V))
  <2>1. <<>> \in Seq(V)
    OBVIOUS
  <2> HIDE DEF V
  <2>2. ss \in [1..n -> Seq(V)]
    BY <2>1
  <2> QED BY <2>2
<1>2. Joins(g, ss, n, V)
  BY <1>1 DEF Joins
<1>3. FlattenSeq(ss) = g[n]
  <2> HIDE DEF g, V
  <2> QED BY <1>1, <1>2, JoinsFlatten
<1> QED BY <1>3

\* A function that has every value once.
LEMMA SameSize ==
  ASSUME NEW S, IsFiniteSet(S), NEW T, NEW f \in [S -> T],
         \A x, y \in S : f[x] = f[y] => x = y,
         \A t \in T : \E x \in S : f[x] = t
  PROVE  IsFiniteSet(T) /\ Cardinality(T) = Cardinality(S)
<1>1. f \in Surjection(S, T)
  BY Fun_IsSurj
<1>2. f \in Injection(S, T)
  BY Fun_IsInj
<1> QED BY <1>1, <1>2, FS_Surjection

-----------------------------------------------------------------------------
(* Sums over sets. *)

\* The sum of f over a set.
Total(f, S) == MapThenSumSet(LAMBDA x : f[x], S)

\* f is a number for each element of a finite set.
Numbers(f, S) == IsFiniteSet(S) /\ \A x \in S : f[x] \in Int

\* sum adds up f over the parts of S.
SumOver(sum, f, S) == SumStep(sum, [x \in S |-> f[x]], S)

\* A sum is made one element after the other.
LEMMA TotalBySteps ==
  ASSUME NEW S, NEW f, Numbers(f, S)
  PROVE  \E sum : SumOver(sum, f, S) /\ Total(f, S) = sum[S]
<1> DEFINE g == [x \in S |-> f[x]]
           Obeys(h) == h = [s \in SUBSET S |->
                              IF s = {} THEN 0
                              ELSE LET x == CHOOSE x \in s : TRUE IN f[x] + h[s \ {x}]]
           it == CHOOSE h : Obeys(h)
           sum == [s \in SUBSET S |-> it[s]]
<1>1. Total(f, S) = it[S]
  BY DEF Total, MapThenSumSet, MapThenFoldSet
<1>2. IsFiniteSet(S) /\ g \in [S -> Int] /\ \A x \in S : g[x] = f[x]
  BY DEF Numbers
<1> HIDE DEF g
<1>3. \A s \in SUBSET S : s # {} => g[CHOOSE x \in s : TRUE] = f[CHOOSE x \in s : TRUE]
  <2> SUFFICES ASSUME NEW s \in SUBSET S, s # {}
               PROVE  g[CHOOSE x \in s : TRUE] = f[CHOOSE x \in s : TRUE]
    OBVIOUS
  <2> DEFINE c == CHOOSE x \in s : TRUE
  <2>1. c \in S
    OBVIOUS
  <2> HIDE DEF c
  <2>2. g[c] = f[c]
    BY <1>2, <2>1
  <2> QED BY <2>2 DEF c
<1>4. \E h : Obeys(h)
  <2>1. PICK h \in [SUBSET S -> Int] : SumsUp(h, g, S)
    BY <1>2, SumExists
  <2>2. \A s \in SUBSET S :
          h[s] = IF s = {} THEN 0
                 ELSE f[CHOOSE x \in s : TRUE] + h[s \ {CHOOSE x \in s : TRUE}]
    BY <1>3, <2>1 DEF SumsUp
  <2>3. Obeys(h)
    BY <2>1, <2>2
  <2> HIDE DEF Obeys
  <2> QED BY <2>3
<1>5. Obeys(it)
  <2> HIDE DEF Obeys
  <2> QED BY <1>4
<1> HIDE DEF it
<1>6. SumsUp(it, g, S)
  <2>1. \A s \in SUBSET S :
          it[s] = IF s = {} THEN 0
                  ELSE f[CHOOSE x \in s : TRUE] + it[s \ {CHOOSE x \in s : TRUE}]
    BY <1>5
  <2> HIDE DEF Obeys
  <2> QED BY <1>3, <2>1 DEF SumsUp
<1>7. SumStep(sum, g, S)
  BY <1>2, <1>6, SumIs
<1>8. sum[S] = it[S]
  OBVIOUS
<1> HIDE DEF sum
<1> QED BY <1>1, <1>7, <1>8 DEF SumOver, g

\* Two sums of the same numbers agree, even if one is over more.
LEMMA SumsAgree ==
  ASSUME NEW S, IsFiniteSet(S), NEW T \in SUBSET S, NEW f, NEW g,
         \A x \in T : f[x] = g[x],
         NEW a, SumOver(a, f, S), NEW b, SumOver(b, g, T)
  PROVE  a[T] = b[T]
<1> DEFINE Same == {s \in SUBSET T : a[s] = b[s]}
<1>0. /\ a[{}] = 0 /\ b[{}] = 0
      /\ \A s \in SUBSET S : \A x \in s : a[s] = f[x] + a[s \ {x}]
      /\ \A s \in SUBSET T : \A x \in s : b[s] = g[x] + b[s \ {x}]
  BY DEF SumOver, SumStep
<1>1. ASSUME NEW s \in SUBSET T, \A t \in SUBSET s : t # s => t \in Same
      PROVE  s \in Same
  <2>1. CASE s = {}
    BY <1>0, <2>1
  <2>2. CASE s # {}
    <3>1. PICK x \in s : TRUE
      BY <2>2
    <3>2. a[s] = f[x] + a[s \ {x}] /\ b[s] = g[x] + b[s \ {x}] /\ f[x] = g[x]
      BY <1>0, <3>1
    <3>3. s \ {x} \in Same
      BY <1>1, <3>1
    <3> QED BY <3>2, <3>3
  <2> QED BY <2>1, <2>2
<1>2. IsFiniteSet(T) /\ T \in SUBSET T
  BY FS_Subset
<1>3. \A s \in SUBSET T : s \in Same
  <2> HIDE DEF Same
  <2> QED BY <1>1, <1>2, FiniteInduction
<1> QED BY <1>3

\* A sum is a number, 0 over no elements, and any element can be taken out.
LEMMA TotalIs ==
  ASSUME NEW S, NEW f, Numbers(f, S)
  PROVE  /\ Total(f, S) \in Int
         /\ S = {} => Total(f, S) = 0
         /\ \A x \in S : Total(f, S) = f[x] + Total(f, S \ {x})
<1>1. PICK a : SumOver(a, f, S) /\ Total(f, S) = a[S]
  BY TotalBySteps
<1>2. S \in SUBSET S /\ {} \in SUBSET S
  OBVIOUS
<1>3. Total(f, S) \in Int /\ (S = {} => Total(f, S) = 0)
  BY <1>1, <1>2 DEF SumOver, SumStep
<1>4. ASSUME NEW x \in S PROVE Total(f, S) = f[x] + Total(f, S \ {x})
  <2> DEFINE T == S \ {x}
  <2>1. T \in SUBSET S
    OBVIOUS
  <2>2. Numbers(f, T)
    BY FS_Subset, <2>1 DEF Numbers
  <2> HIDE DEF T
  <2>3. PICK b : SumOver(b, f, T) /\ Total(f, T) = b[T]
    BY <2>2, TotalBySteps
  <2>4. a[T] = b[T]
    BY <1>1, <2>1, <2>3, SumsAgree DEF Numbers
  <2>5. a[S] = f[x] + a[T]
    BY <1>1, <1>2 DEF SumOver, SumStep, T
  <2> QED BY <1>1, <2>3, <2>4, <2>5 DEF T
<1> QED BY <1>3, <1>4

\* Equal numbers have equal sums.
LEMMA TotalSame ==
  ASSUME NEW S, NEW f, NEW g, Numbers(f, S), \A x \in S : g[x] = f[x]
  PROVE  Total(g, S) = Total(f, S)
<1>1. Numbers(g, S)
  BY DEF Numbers
<1>2. PICK a : SumOver(a, f, S) /\ Total(f, S) = a[S]
  BY TotalBySteps
<1>3. PICK b : SumOver(b, g, S) /\ Total(g, S) = b[S]
  BY <1>1, TotalBySteps
<1>4. a[S] = b[S]
  <2>1. S \in SUBSET S /\ IsFiniteSet(S) /\ \A x \in S : f[x] = g[x]
    BY DEF Numbers
  <2> QED BY <1>2, <1>3, <2>1, SumsAgree
<1> QED BY <1>2, <1>3, <1>4

\* A factor of all numbers is one of the sum.
LEMMA TotalTimes ==
  ASSUME NEW S, NEW f, NEW g, Numbers(f, S), NEW c \in Int, \A x \in S : g[x] = f[x] * c
  PROVE  Numbers(g, S) /\ Total(g, S) = Total(f, S) * c
<1> DEFINE Good == {s \in SUBSET S : Total(g, s) = Total(f, s) * c}
<1>1. \A s \in SUBSET S : Numbers(f, s) /\ Numbers(g, s)
  <2>1. \A x \in S : f[x] \in Int /\ g[x] \in Int
    BY DEF Numbers
  <2> QED BY <2>1, FS_Subset DEF Numbers
<1>2. ASSUME NEW s \in SUBSET S, \A t \in SUBSET s : t # s => t \in Good
      PROVE  s \in Good
  <2>1. CASE s = {}
    <3>1. Total(f, s) = 0 /\ Total(g, s) = 0
      BY <1>1, <2>1, TotalIs
    <3>2. 0 * c = 0
      OBVIOUS
    <3> QED BY <3>1, <3>2
  <2>2. CASE s # {}
    <3>1. PICK x \in s : TRUE
      BY <2>2
    <3> DEFINE t == s \ {x}
    <3>2. t \in Good /\ t \in SUBSET S
      BY <1>2, <3>1
    <3>3. Total(f, s) = f[x] + Total(f, t) /\ Total(g, s) = g[x] + Total(g, t)
      BY <1>1, <3>1, TotalIs
    <3>4. Total(f, t) \in Int /\ f[x] \in Int /\ g[x] = f[x] * c
      BY <1>1, <3>1, <3>2, TotalIs DEF Numbers
    <3>5. Total(g, t) = Total(f, t) * c
      BY <3>2
    <3> HIDE DEF t
    <3>6. (f[x] + Total(f, t)) * c = f[x] * c + Total(f, t) * c
      BY <3>4
    <3> QED BY <3>3, <3>4, <3>5, <3>6
  <2> QED BY <2>1, <2>2
<1>3. IsFiniteSet(S) /\ S \in SUBSET S
  BY DEF Numbers
<1>4. \A s \in SUBSET S : s \in Good
  <2> HIDE DEF Good
  <2> QED BY <1>2, <1>3, FiniteInduction
<1> QED BY <1>1, <1>3, <1>4

\* A sum of ones is the size of the set.
LEMMA TotalOnes ==
  ASSUME NEW S, IsFiniteSet(S), NEW f, \A x \in S : f[x] = 1
  PROVE  Numbers(f, S) /\ Total(f, S) = Cardinality(S)
<1> DEFINE Good == {s \in SUBSET S : Total(f, s) = Cardinality(s)}
<1>1. \A s \in SUBSET S : Numbers(f, s)
  BY FS_Subset DEF Numbers
<1>2. ASSUME NEW s \in SUBSET S, \A t \in SUBSET s : t # s => t \in Good
      PROVE  s \in Good
  <2>1. CASE s = {}
    BY <1>1, <2>1, TotalIs, FS_EmptySet
  <2>2. CASE s # {}
    <3>1. PICK x \in s : TRUE
      BY <2>2
    <3> DEFINE t == s \ {x}
    <3>2. t \in Good /\ IsFiniteSet(s)
      BY <1>2, <3>1, FS_Subset
    <3>3. Total(f, s) = 1 + Total(f, t)
      BY <1>1, <3>1, TotalIs
    <3>4. Cardinality(t) = Cardinality(s) - 1 /\ Cardinality(s) \in Nat
      BY <3>1, <3>2, FS_RemoveElement, FS_CardinalityType
    <3> HIDE DEF t
    <3> QED BY <3>2, <3>3, <3>4
  <2> QED BY <2>1, <2>2
<1>3. \A s \in SUBSET S : s \in Good
  <2> HIDE DEF Good
  <2> QED BY <1>2, FiniteInduction
<1> QED BY <1>1, <1>3

\* The element of S whose part of X is key[x].
Part(X, key, i) == {x \in X : key[x] = i}

\* The sums over the parts of a set add up to the sum over the set.
LEMMA TotalOfParts ==
  ASSUME NEW X, NEW f, Numbers(f, X), NEW I, IsFiniteSet(I),
         NEW key, \A x \in X : key[x] \in I
  PROVE  /\ Numbers([i \in I |-> Total(f, Part(X, key, i))], I)
         /\ Total([i \in I |-> Total(f, Part(X, key, i))], I) = Total(f, X)
<1> DEFINE h(s) == [i \in I |-> Total(f, Part(s, key, i))]
           Good == {s \in SUBSET X : Total(h(s), I) = Total(f, s)}
<1>1. ASSUME NEW s \in SUBSET X, NEW i
      PROVE  Numbers(f, s) /\ Numbers(f, Part(s, key, i))
  BY FS_Subset DEF Numbers, Part
<1>2. ASSUME NEW s \in SUBSET X PROVE Numbers(h(s), I)
  <2>1. \A i \in I : Total(f, Part(s, key, i)) \in Int
    BY <1>1, TotalIs
  <2> QED BY <2>1 DEF Numbers
<1>3. ASSUME NEW s \in SUBSET X, NEW x \in s
      PROVE  Total(h(s), I) = f[x] + Total(h(s \ {x}), I)
  <2> DEFINE t == s \ {x}
             k == key[x]
             J == I \ {k}
  <2>1. t \in SUBSET X /\ k \in I /\ f[x] \in Int
    BY DEF Numbers
  <2>2. Part(t, key, k) = Part(s, key, k) \ {x} /\ x \in Part(s, key, k)
        /\ \A i \in J : Part(t, key, i) = Part(s, key, i)
    BY DEF Part
  <2> HIDE DEF t
  <2>3. Numbers(h(s), I) /\ Numbers(h(t), I)
    BY <1>2, <2>1
  <2>4. Total(f, Part(s, key, k)) = f[x] + Total(f, Part(t, key, k))
    BY <1>1, <2>2, TotalIs
  <2>5. h(s)[k] = f[x] + h(t)[k] /\ \A i \in J : h(s)[i] = h(t)[i]
    BY <2>1, <2>2, <2>4
  <2> DEFINE hs == h(s)
             ht == h(t)
  <2> HIDE DEF h, k
  <2>6. /\ Total(hs, I) = hs[k] + Total(hs, J)
        /\ Total(ht, I) = ht[k] + Total(ht, J)
    BY <2>1, <2>3, TotalIs
  <2>7. Numbers(ht, J)
    BY <2>3, FS_Subset DEF Numbers
  <2>8. Total(hs, J) = Total(ht, J)
    BY <2>5, <2>7, TotalSame
  <2>9. Total(ht, J) \in Int /\ ht[k] \in Int
    BY <2>1, <2>3, <2>7, TotalIs DEF Numbers
  <2>10. hs[k] = f[x] + ht[k]
    BY <2>5
  <2> HIDE DEF hs, ht, J
  <2>11. Total(hs, I) = f[x] + Total(ht, I)
    BY <2>1, <2>6, <2>8, <2>9, <2>10
  <2> QED BY <2>11 DEF hs, ht, t
<1>4. Total(h({}), I) = 0
  <2>1. \A i \in I : h({})[i] = 0
    <3>1. \A i \in I : Part({}, key, i) = {} /\ Numbers(f, Part({}, key, i))
      BY <1>1 DEF Part
    <3>2. \A i \in I : Total(f, Part({}, key, i)) = 0
      BY <3>1, TotalIs
    <3> QED BY <3>2
  <2> DEFINE z == [i \in I |-> 0]
             h0 == h({})
  <2>2. Numbers(z, I)
    BY DEF Numbers
  <2>3. \A i \in I : h0[i] = z[i] /\ z[i] = z[i] * 0
    BY <2>1
  <2> HIDE DEF z, h
  <2>4. Total(h0, I) = Total(z, I)
    BY <2>2, <2>3, TotalSame
  <2>5. Total(z, I) = Total(z, I) * 0 /\ Total(z, I) \in Int
    BY <2>2, <2>3, TotalTimes, TotalIs
  <2> QED BY <2>4, <2>5
<1> HIDE DEF h
<1>5. ASSUME NEW s \in SUBSET X, \A t \in SUBSET s : t # s => t \in Good
      PROVE  s \in Good
  <2>1. CASE s = {}
    BY <1>1, <1>4, <2>1, TotalIs
  <2>2. CASE s # {}
    <3>1. PICK x \in s : TRUE
      BY <2>2
    <3> DEFINE t == s \ {x}
    <3>2. t \in Good
      BY <1>5, <3>1
    <3>3. Total(f, s) = f[x] + Total(f, t)
      BY <1>1, <3>1, TotalIs
    <3>4. Total(h(s), I) = f[x] + Total(h(t), I)
      BY <1>3, <3>1
    <3> HIDE DEF t
    <3> QED BY <3>2, <3>3, <3>4
  <2> QED BY <2>1, <2>2
<1>6. IsFiniteSet(X) /\ X \in SUBSET X
  BY DEF Numbers
<1>7. \A s \in SUBSET X : s \in Good
  <2> HIDE DEF Good
  <2> QED BY <1>5, <1>6, FiniteInduction
<1>8. Total(h(X), I) = Total(f, X) /\ Numbers(h(X), I)
  BY <1>2, <1>6, <1>7
<1> QED BY <1>8 DEF h

=============================================================================
