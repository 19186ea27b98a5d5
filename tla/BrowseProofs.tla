---------------------------- MODULE BrowseProofs ----------------------------
(***************************************************************************)
(* What the timeline, the sidebar and an agent show while calls overtake   *)
(* each other and events are stored, for every set of events, every filter *)
(* and every page size (Browse).                                           *)
(***************************************************************************)
EXTENDS Browse, DataLemmas

-----------------------------------------------------------------------------
(* The listing. *)

NewerPairs == {p \in Rows \X Rows : Newer(p[1], p[2])}

\* How many rows of M are newer than e.
Rank(M, e) == RankIn(NewerPairs, M, e)

LEMMA RowsOrdered ==
  ASSUME NEW M \in SUBSET Rows
  PROVE  IsFiniteSet(M) /\ Cardinality(M) \in Nat /\ StrictOrder(NewerPairs, M)
<1>1. IsFiniteSet(M) /\ Cardinality(M) \in Nat
  BY BrowseAssumption, FS_Subset, FS_CardinalityType
<1>2. \A e \in M : e.ts \in Int /\ e.row \in Int
  BY BrowseAssumption
<1>3. \A e, f \in M : <<e, f>> \in NewerPairs <=> Newer(e, f)
  BY DEF NewerPairs
<1>4. \A e \in M : ~Newer(e, e)
  BY <1>2 DEF Newer
<1>5. \A e, f \in M : e # f => Newer(e, f) \/ Newer(f, e)
  BY <1>2, BrowseAssumption DEF Newer
<1>6. \A e, f, g \in M : Newer(e, f) /\ Newer(f, g) => Newer(e, g)
  BY <1>2 DEF Newer
<1> QED BY <1>1, <1>3, <1>4, <1>5, <1>6 DEF StrictOrder

\* Newest first, and each row once.
LEMMA ListingIs ==
  ASSUME NEW M \in SUBSET Rows
  PROVE  /\ NewestFirst(M) \in Seq(M)
         /\ Len(NewestFirst(M)) = Cardinality(M)
         /\ Cardinality(M) \in Nat
         /\ \A e \in M : /\ Rank(M, e) + 1 \in 1..Cardinality(M)
                         /\ Rank(M, e) \in Nat
                         /\ NewestFirst(M)[Rank(M, e) + 1] = e
         /\ \A i \in 1..Cardinality(M) : Rank(M, NewestFirst(M)[i]) = i - 1
<1> DEFINE L == NewestFirst(M)
           n == Cardinality(M)
           Listed(s) == \A i, j \in DOMAIN s : i < j => Newer(s[i], s[j])
<1>1. IsFiniteSet(M) /\ n \in Nat /\ StrictOrder(NewerPairs, M)
  BY RowsOrdered
<1>2. PICK t : Sorted(t, NewerPairs, M)
  BY <1>1, SortedExists
<1>3. t \in [1..n -> M] /\ Listed(t)
  BY <1>2 DEF Sorted, NewerPairs
<1>4. L \in [1..n -> M] /\ Listed(L)
  <2>1. L = CHOOSE s \in [1..n -> M] : Listed(s)
    BY DEF NewestFirst
  <2> HIDE DEF L, n, Listed
  <2> QED BY <1>3, <2>1
<1> HIDE DEF L
<1>5. Sorted(L, NewerPairs, M)
  <2>1. \A i, j \in DOMAIN L : L[i] \in Rows /\ L[j] \in Rows
    BY <1>4
  <2> QED BY <1>4, <2>1 DEF Sorted, NewerPairs
<1>6. /\ \A i \in 1..n : RankIn(NewerPairs, M, L[i]) = i - 1
      /\ \A e \in M : /\ RankIn(NewerPairs, M, e) + 1 \in 1..n
                      /\ L[RankIn(NewerPairs, M, e) + 1] = e
  BY <1>1, <1>5, SortedRanks
<1>7. \A e \in M : RankIn(NewerPairs, M, e) \in Nat
  BY <1>1, RankInType
<1>8. L \in Seq(M) /\ Len(L) = n
  BY <1>1, <1>4
<1> QED BY <1>1, <1>6, <1>7, <1>8 DEF Rank, L

LEMMA RankGrows ==
  ASSUME NEW N \in SUBSET Rows, NEW M \in SUBSET N, NEW e \in M
  PROVE  Rank(M, e) =< Rank(N, e)
<1>1. /\ IsFiniteSet(Before(NewerPairs, N, e))
      /\ Before(NewerPairs, M, e) \in SUBSET Before(NewerPairs, N, e)
  <2>1. Before(NewerPairs, N, e) \in SUBSET N /\ IsFiniteSet(N)
    BY RowsOrdered DEF Before
  <2> QED BY <2>1, FS_Subset DEF Before
<1> QED BY <1>1, FS_Subset DEF Rank, RankIn

-----------------------------------------------------------------------------
(* Pages. *)

AtMost(a, b) == IF a < b THEN a ELSE b

\* The first k rows of the listing of M.
Beginning(M, k) == SubSeq(NewestFirst(M), 1, AtMost(k, Cardinality(M)))

LEMMA BeginningIs ==
  ASSUME NEW M \in SUBSET Rows, NEW k \in Nat
  PROVE  /\ Beginning(M, k) \in Seq(M)
         /\ Len(Beginning(M, k)) = AtMost(k, Cardinality(M))
         /\ \A e : e \in ToSet(Beginning(M, k)) <=> e \in M /\ Rank(M, e) < k
<1> DEFINE L == NewestFirst(M)
           n == Cardinality(M)
           B == Beginning(M, k)
           m == AtMost(k, n)
<1>1. /\ L \in Seq(M) /\ Len(L) = n /\ n \in Nat
      /\ \A e \in M : /\ Rank(M, e) + 1 \in 1..n
                      /\ Rank(M, e) \in Nat
                      /\ L[Rank(M, e) + 1] = e
      /\ \A i \in 1..n : Rank(M, L[i]) = i - 1
  BY ListingIs
<1>2. m \in Nat /\ m =< n /\ m =< k /\ (m = n \/ m = k)
  BY <1>1 DEF AtMost
<1> HIDE DEF L, n, m
<1>3. /\ B \in Seq(M) /\ Len(B) = m
      /\ \A i \in 1..m : B[i] = L[i]
  <2>1. 1 \in Int /\ m \in Int /\ \A i \in 1..m : L[i] \in M
    BY <1>1, <1>2
  <2>2. B = SubSeq(L, 1, m)
    BY DEF Beginning, L, n, m
  <2>3. /\ B \in Seq(M) /\ Len(B) = IF 1 =< m THEN m - 1 + 1 ELSE 0
        /\ \A i \in 1 .. m - 1 + 1 : B[i] = L[1 + i - 1]
    <3> HIDE DEF B
    <3> QED BY <2>1, <2>2, SubSeqProperties
  <2> QED BY <1>2, <2>3
<1> HIDE DEF B
<1>4. ASSUME NEW e, e \in ToSet(B) PROVE e \in M /\ Rank(M, e) < k
  <2>1. PICK i \in 1..m : e = B[i]
    BY <1>3, <1>4 DEF ToSet
  <2>2. i \in 1..n /\ e = L[i]
    BY <1>1, <1>2, <1>3, <2>1
  <2> QED BY <1>1, <1>2, <2>1, <2>2
<1>5. ASSUME NEW e \in M, Rank(M, e) < k PROVE e \in ToSet(B)
  <2>0. Rank(M, e) \in Nat /\ Rank(M, e) + 1 =< n
    BY <1>1
  <2>1. Rank(M, e) + 1 \in 1..m
    BY <1>2, <1>5, <2>0
  <2>2. e = B[Rank(M, e) + 1]
    BY <1>1, <1>3, <2>1
  <2> QED BY <1>3, <2>1, <2>2 DEF ToSet
<1> QED BY <1>3, <1>4, <1>5 DEF B, m, n

\* A page is the rows from one offset up to the next, and says whether there
\* are more.
LEMMA PageIs ==
  ASSUME table \in SUBSET Rows, NEW f, NEW p \in Nat, NEW per \in Nat \ {0}
  PROVE  LET M == Matching(f)
             a == QueryTimeline(f, p, per)
             n == Cardinality(M)
         IN /\ p * per \in Nat
            /\ a = [rows |-> SubSeq(NewestFirst(M), p * per + 1,
                                    AtMost(p * per + per, n)),
                    hasMore |-> n > p * per + per]
            /\ a.rows \in Seq(M)
            /\ Len(a.rows) =< per
<1> DEFINE M == Matching(f)
           L == NewestFirst(M)
           n == Cardinality(M)
           lo == p * per
           hi == IF lo + per + 1 < Len(L) THEN lo + per + 1 ELSE Len(L)
           rows == SubSeq(L, lo + 1, hi)
           to == AtMost(lo + per, n)
           page1 == SubSeq(L, lo + 1, to)
<1>1. M \in SUBSET Rows
  BY DEF Matching
<1>2. L \in Seq(M) /\ Len(L) = n /\ n \in Nat
  BY <1>1, ListingIs
<1>3. lo \in Nat
  OBVIOUS
<1>4. QueryTimeline(f, p, per) =
        [rows |-> IF Len(rows) = per + 1 THEN Front(rows) ELSE rows,
         hasMore |-> Len(rows) = per + 1]
  BY DEF QueryTimeline, Listing
<1> HIDE DEF M, L, n, lo
<1>5. hi \in Nat /\ hi =< n /\ to \in Nat /\ to =< n /\ to =< lo + per
  BY <1>2, <1>3 DEF AtMost
<1>6. \A i \in 1..n : L[i] \in M
  BY <1>2
<1>7. /\ rows \in Seq(M)
      /\ Len(rows) = IF lo + 1 =< hi THEN hi - lo ELSE 0
  <2>1. lo + 1 \in Int /\ hi \in Int /\ \A i \in (lo + 1)..hi : L[i] \in M
    <3> HIDE DEF hi
    <3>1. \A i \in (lo + 1)..hi : i \in 1..n
      BY <1>2, <1>3, <1>5
    <3> QED BY <1>3, <1>5, <1>6, <3>1
  <2>2. /\ rows \in Seq(M)
        /\ Len(rows) = IF lo + 1 =< hi THEN hi - (lo + 1) + 1 ELSE 0
    <3> HIDE DEF hi
    <3> QED BY <2>1, SubSeqProperties
  <2> QED BY <1>3, <1>5, <2>2
<1>8. /\ page1 \in Seq(M)
      /\ Len(page1) = IF lo + 1 =< to THEN to - lo ELSE 0
  <2>1. lo + 1 \in Int /\ to \in Int /\ \A i \in (lo + 1)..to : L[i] \in M
    <3> HIDE DEF to
    <3>1. \A i \in (lo + 1)..to : i \in 1..n
      BY <1>2, <1>3, <1>5
    <3> QED BY <1>3, <1>5, <1>6, <3>1
  <2>2. /\ page1 \in Seq(M)
        /\ Len(page1) = IF lo + 1 =< to THEN to - (lo + 1) + 1 ELSE 0
    <3> HIDE DEF to
    <3> QED BY <2>1, SubSeqProperties
  <2> QED BY <1>3, <1>5, <2>2
<1>9. ASSUME Len(rows) = per + 1
      PROVE  QueryTimeline(f, p, per) = [rows |-> page1, hasMore |-> n > lo + per]
  <2>1. hi = lo + per + 1 /\ n > lo + per /\ to = lo + per /\ lo + per + 1 =< n
    BY <1>2, <1>3, <1>7, <1>9 DEF AtMost
  <2>2. Front(rows) = page1
    <3>1. Front(rows) = SubSeq(rows, 1, per)
      <4> HIDE DEF rows
      <4>1. Len(rows) - 1 = per
        BY <1>9
      <4> QED BY <4>1 DEF Front
    <3>2. /\ lo + 1 \in 1..Len(L) /\ hi \in 1..Len(L)
          /\ 1 \in 1..(hi - (lo + 1) + 1) /\ per \in 1..(hi - (lo + 1) + 1)
      BY <1>2, <1>3, <2>1
    <3>3. SubSeq(rows, 1, per) = SubSeq(L, (lo + 1) + 1 - 1, (lo + 1) + per - 1)
      <4> HIDE DEF hi
      <4> QED BY <1>2, <3>2, SubSeqOfSubSeq, SMTT(30), ZenonT(30)
    <3>4. (lo + 1) + 1 - 1 = lo + 1 /\ (lo + 1) + per - 1 = to
      BY <1>3, <2>1
    <3> QED BY <3>1, <3>3, <3>4
  <2>3. n > lo + per
    BY <2>1
  <2> HIDE DEF rows, page1
  <2> QED BY <1>4, <1>9, <2>2, <2>3
<1>10. ASSUME Len(rows) # per + 1
       PROVE  QueryTimeline(f, p, per) = [rows |-> page1, hasMore |-> n > lo + per]
  <2>1. ~(n > lo + per) /\ hi = n /\ to = n
    BY <1>2, <1>3, <1>7, <1>10 DEF AtMost
  <2>2. rows = page1
    BY <2>1
  <2>3. ~(n > lo + per)
    BY <2>1
  <2> HIDE DEF rows, page1
  <2> QED BY <1>4, <1>10, <2>2, <2>3
<1>11. QueryTimeline(f, p, per) = [rows |-> page1, hasMore |-> n > lo + per]
  BY <1>9, <1>10
<1>12. Len(page1) =< per
  <2> HIDE DEF page1, to
  <2> QED BY <1>3, <1>5, <1>8
<1> HIDE DEF page1
<1>13. LET a == QueryTimeline(f, p, per)
       IN a.rows = page1 /\ a.rows \in Seq(M) /\ Len(a.rows) =< per
  BY <1>8, <1>11, <1>12
<1> QED BY <1>3, <1>11, <1>13 DEF M, L, n, lo, page1

LEMMA PageRows ==
  ASSUME NEW M \in SUBSET Rows, NEW lo \in Nat, NEW per \in Nat,
         NEW e \in M, lo =< Rank(M, e), Rank(M, e) < lo + per
  PROVE  e \in ToSet(SubSeq(NewestFirst(M), lo + 1,
                           AtMost(lo + per, Cardinality(M))))
<1> DEFINE L == NewestFirst(M)
           n == Cardinality(M)
           r == Rank(M, e)
           to == AtMost(lo + per, n)
           B == SubSeq(L, lo + 1, to)
<1>1. /\ L \in Seq(M) /\ Len(L) = n /\ n \in Nat
      /\ r + 1 \in 1..n /\ r \in Nat /\ L[r + 1] = e
  BY ListingIs
<1>2. to \in Nat /\ to =< n /\ (to = n \/ to = lo + per)
  BY <1>1 DEF AtMost
<1>3. lo =< r /\ r < lo + per
  OBVIOUS
<1> HIDE DEF L, n, r, to
<1>4. r + 1 \in lo + 1 .. to
  BY <1>1, <1>2, <1>3
<1>5. /\ lo + 1 \in Int /\ to \in Int
      /\ \A i \in lo + 1 .. to : L[i] \in M
  <2>1. \A i \in lo + 1 .. to : i \in 1..n
    BY <1>1, <1>2
  <2>2. \A i \in 1..n : L[i] \in M
    BY <1>1
  <2> QED BY <1>2, <2>1, <2>2
<1>6. /\ B \in Seq(M)
      /\ Len(B) = IF lo + 1 =< to THEN to - (lo + 1) + 1 ELSE 0
      /\ \A i \in 1 .. to - (lo + 1) + 1 : B[i] = L[lo + 1 + i - 1]
  BY <1>5, SubSeqProperties
<1> HIDE DEF B
<1>7. r + 1 - lo \in 1..Len(B) /\ B[r + 1 - lo] = e
  <2>1. r + 1 - lo \in 1 .. to - (lo + 1) + 1 /\ lo + 1 =< to
    BY <1>1, <1>2, <1>4
  <2>2. B[r + 1 - lo] = L[lo + 1 + (r + 1 - lo) - 1]
    BY <1>6, <2>1
  <2>3. lo + 1 + (r + 1 - lo) - 1 = r + 1
    BY <1>1
  <2> QED BY <1>1, <1>2, <1>6, <2>1, <2>2, <2>3
<1> QED BY <1>6, <1>7 DEF ToSet, B, L, to, n

LEMMA ConcatSet ==
  ASSUME NEW T, NEW s \in Seq(T), NEW t \in Seq(T)
  PROVE  ToSet(s \o t) = ToSet(s) \cup ToSet(t)
<1>1. /\ Len(s \o t) = Len(s) + Len(t) /\ s \o t \in Seq(T)
      /\ \A i \in 1..Len(s) + Len(t) :
            (s \o t)[i] = IF i =< Len(s) THEN s[i] ELSE t[i - Len(s)]
  OBVIOUS
<1>2. Len(s) \in Nat /\ Len(t) \in Nat
  OBVIOUS
<1>3. ASSUME NEW e, e \in ToSet(s) PROVE e \in ToSet(s \o t)
  <2>1. PICK i \in 1..Len(s) : e = s[i]
    BY <1>3 DEF ToSet
  <2>2. i \in 1..Len(s \o t) /\ e = (s \o t)[i]
    BY <1>1, <1>2, <2>1
  <2> QED BY <1>1, <2>2 DEF ToSet
<1>4. ASSUME NEW e, e \in ToSet(t) PROVE e \in ToSet(s \o t)
  <2>1. PICK i \in 1..Len(t) : e = t[i]
    BY <1>4 DEF ToSet
  <2>2. i + Len(s) \in 1..Len(s \o t) /\ e = (s \o t)[i + Len(s)]
    BY <1>1, <1>2, <2>1
  <2> QED BY <1>1, <2>2 DEF ToSet
<1>5. ASSUME NEW e, e \in ToSet(s \o t) PROVE e \in ToSet(s) \/ e \in ToSet(t)
  <2>1. PICK i \in 1..Len(s) + Len(t) : e = (s \o t)[i]
    BY <1>1, <1>5 DEF ToSet
  <2>2. CASE i =< Len(s)
    BY <1>1, <1>2, <2>1, <2>2 DEF ToSet
  <2>3. CASE i > Len(s)
    <3>1. i - Len(s) \in 1..Len(t) /\ e = t[i - Len(s)]
      BY <1>1, <1>2, <2>1, <2>3
    <3> QED BY <3>1 DEF ToSet
  <2> QED BY <1>2, <2>1, <2>2, <2>3
<1> QED BY <1>3, <1>4, <1>5

-----------------------------------------------------------------------------
(* What the view shows, of the rows M that match now, after p pages; fst is  *)
(* all that matched when the first was read.                                 *)

ViewOk(M, its, p, more, fst) ==
    LET loaded == Beginning(M, p * DefaultPerPage)
    IN /\ ToSet(its) \subseteq M
       /\ fst \subseteq M
       /\ \A e \in fst : e \in ToSet(loaded) \/ ~more => e \in ToSet(its)
       /\ M = fst => its = loaded /\ more = (Cardinality(M) > Len(loaded))

Answers == [rows : Seq(Rows), hasMore : BOOLEAN]

\* A page of the default size.
LEMMA AnswerIs ==
  ASSUME table \in SUBSET Rows, NEW f, NEW p \in Nat \ {0}
  PROVE  LET M == Matching(f)
             a == ListTimeline(f, p, DefaultPerPage)
             lo == (p - 1) * DefaultPerPage
         IN /\ a \in Answers
            /\ M \in SUBSET Rows
            /\ lo \in Nat /\ p * DefaultPerPage = lo + DefaultPerPage
            /\ a.rows = SubSeq(NewestFirst(M), lo + 1,
                               AtMost(p * DefaultPerPage, Cardinality(M)))
            /\ a.rows \in Seq(M)
            /\ a.hasMore = (Cardinality(M) > p * DefaultPerPage)
<1> DEFINE M == Matching(f)
           per == DefaultPerPage
           lo == (p - 1) * per
           a == ListTimeline(f, p, per)
           rows == SubSeq(NewestFirst(M), lo + 1, AtMost(lo + per, Cardinality(M)))
<1>1. M \in SUBSET Rows
  BY DEF Matching
<1>2. per \in Nat \ {0} /\ ResolvePerPage(per) = per /\ ResolvePage(p) = p - 1
  BY BrowseAssumption DEF ResolvePerPage, ResolvePage
<1>3. p - 1 \in Nat /\ lo \in Nat /\ p * per = lo + per
  BY <1>2
<1>4. a = QueryTimeline(f, p - 1, per)
  BY <1>2 DEF ListTimeline
<1>5. /\ a = [rows |-> rows, hasMore |-> Cardinality(M) > lo + per]
      /\ a.rows \in Seq(M)
  BY <1>2, <1>3, <1>4, PageIs
<1>6. a.rows \in Seq(Rows)
  BY <1>1, <1>5
<1> HIDE DEF a, lo, rows
<1>7. a.rows = rows /\ a.hasMore = (Cardinality(M) > lo + per) /\ a \in Answers
  BY <1>5, <1>6 DEF Answers
<1> HIDE DEF M
<1> QED BY <1>1, <1>3, <1>5, <1>7 DEF a, lo, rows, M

\* A first page is what matches, as long as nothing is stored.
LEMMA FirstShown ==
  ASSUME table \in SUBSET Rows, NEW f
  PROVE  LET a == ListTimeline(f, 1, DefaultPerPage)
         IN a \in Answers /\ ViewOk(Matching(f), a.rows, 1, a.hasMore, Matching(f))
<1> DEFINE M == Matching(f)
           a == ListTimeline(f, 1, DefaultPerPage)
           n == Cardinality(M)
           B == Beginning(M, 1 * DefaultPerPage)
<1>1. /\ a \in Answers /\ M \in SUBSET Rows
      /\ DefaultPerPage \in Nat \ {0}
      /\ a.rows = SubSeq(NewestFirst(M), 0 * DefaultPerPage + 1,
                         AtMost(1 * DefaultPerPage, n))
      /\ a.hasMore = (n > 1 * DefaultPerPage)
  <2>1. 1 - 1 = 0 /\ 1 \in Nat \ {0}
    OBVIOUS
  <2>2. DefaultPerPage \in Nat \ {0}
    BY BrowseAssumption
  <2> QED BY AnswerIs, <2>1, <2>2
<1>2. a.rows = B
  BY <1>1 DEF Beginning
<1>3. /\ B \in Seq(M) /\ Len(B) = AtMost(1 * DefaultPerPage, n) /\ n \in Nat
      /\ \A e : e \in ToSet(B) <=> e \in M /\ Rank(M, e) < 1 * DefaultPerPage
      /\ \A e \in M : Rank(M, e) \in Nat /\ Rank(M, e) + 1 \in 1..n
  BY <1>1, BeginningIs, ListingIs
<1> HIDE DEF M, a, n, B
<1>4. ASSUME ~a.hasMore, NEW e \in M PROVE e \in ToSet(B)
  <2>1. ~(n > 1 * DefaultPerPage)
    BY <1>1, <1>4, Zenon
  <2>2. Rank(M, e) < 1 * DefaultPerPage
    BY <1>1, <1>3, <2>1
  <2> QED BY <1>3, <2>2
<1>5. a.hasMore = (n > Len(B))
  BY <1>1, <1>3 DEF AtMost
<1>6. ToSet(B) \subseteq M
  BY <1>3
<1> QED BY <1>1, <1>2, <1>4, <1>5, <1>6 DEF ViewOk, M, a, n, B

\* The next page is appended without a gap, whatever was stored in between.
LEMMA MoreShown ==
  ASSUME table \in SUBSET Rows, NEW f, NEW p \in Nat \ {0}, NEW its \in Seq(Rows),
         NEW fst, ViewOk(Matching(f), its, p, TRUE, fst)
  PROVE  LET a == ListTimeline(f, p + 1, DefaultPerPage)
         IN /\ a \in Answers
            /\ ViewOk(Matching(f), its \o a.rows, p + 1, a.hasMore, fst)
<1> DEFINE M == Matching(f)
           L == NewestFirst(M)
           n == Cardinality(M)
           per == DefaultPerPage
           lo == p * per
           a == ListTimeline(f, p + 1, per)
           B == Beginning(M, lo)
           B2 == Beginning(M, (p + 1) * per)
<1>1. /\ a \in Answers /\ M \in SUBSET Rows
      /\ lo \in Nat /\ (p + 1) * per = lo + per
      /\ a.rows = SubSeq(L, lo + 1, AtMost(lo + per, n))
      /\ a.rows \in Seq(M)
      /\ a.hasMore = (n > lo + per)
  <2>1. p + 1 \in Nat \ {0} /\ (p + 1) - 1 = p
    OBVIOUS
  <2> HIDE DEF M, n, L
  <2>2. /\ a \in Answers /\ M \in SUBSET Rows
        /\ lo \in Nat /\ (p + 1) * per = lo + per
        /\ a.rows = SubSeq(L, lo + 1, AtMost((p + 1) * per, n))
        /\ a.rows \in Seq(M)
        /\ a.hasMore = (n > (p + 1) * per)
    BY AnswerIs, <2>1 DEF M, n, L
  <2> QED BY <2>2
<1>2. per \in Nat \ {0}
  BY BrowseAssumption
<1>3. /\ L \in Seq(M) /\ Len(L) = n /\ n \in Nat
      /\ \A e \in M : Rank(M, e) \in Nat /\ Rank(M, e) + 1 \in 1..n
  BY <1>1, ListingIs
<1>4. /\ \A e : e \in ToSet(B) <=> e \in M /\ Rank(M, e) < lo
      /\ Len(B) = AtMost(lo, n)
  BY <1>1, BeginningIs
<1>5. /\ \A e : e \in ToSet(B2) <=> e \in M /\ Rank(M, e) < lo + per
      /\ Len(B2) = AtMost(lo + per, n)
  <2>1. lo + per \in Nat
    BY <1>1, <1>2
  <2>2. B2 = Beginning(M, lo + per)
    BY <1>1
  <2> HIDE DEF M, B2, lo, per
  <2> QED BY <1>1, <2>1, <2>2, BeginningIs
<1>6. /\ ToSet(its) \subseteq M /\ fst \subseteq M
      /\ \A e \in fst : e \in ToSet(B) => e \in ToSet(its)
      /\ M = fst => its = B /\ n > Len(B)
  BY DEF ViewOk
<1> HIDE DEF M, L, n, per, lo, a, B, B2
<1>7. a.rows \in Seq(Rows)
  BY <1>1 DEF Answers
<1>8. ToSet(its \o a.rows) = ToSet(its) \cup ToSet(a.rows)
  BY <1>7, ConcatSet
<1>9. ToSet(a.rows) \subseteq M
  <2>1. \A i \in DOMAIN a.rows : a.rows[i] \in M
    BY <1>1
  <2> QED BY <2>1 DEF ToSet
<1>10. ASSUME NEW e \in fst, e \in ToSet(B2) \/ ~a.hasMore
       PROVE  e \in ToSet(its \o a.rows)
  <2>1. e \in M /\ Rank(M, e) \in Nat
    BY <1>3, <1>6
  <2>2. Rank(M, e) < lo + per
    <3>1. CASE e \in ToSet(B2)
      BY <1>5, <3>1
    <3>2. CASE ~a.hasMore
      <4>1. ~(n > lo + per)
        BY <1>1, <3>2, Zenon
      <4> QED BY <1>1, <1>2, <1>3, <2>1, <4>1
    <3> QED BY <1>10, <3>1, <3>2
  <2>3. CASE Rank(M, e) < lo
    BY <1>4, <1>6, <1>8, <2>1, <2>3
  <2>4. CASE ~(Rank(M, e) < lo)
    <3>1. lo =< Rank(M, e)
      BY <1>1, <2>1, <2>4
    <3>2. e \in ToSet(SubSeq(NewestFirst(M), lo + 1, AtMost(lo + per, Cardinality(M))))
      BY <1>1, <1>2, <2>1, <2>2, <3>1, PageRows
    <3> QED BY <1>1, <1>8, <3>2 DEF L, n
  <2> QED BY <2>3, <2>4
<1>11. ASSUME M = fst
       PROVE  its \o a.rows = B2 /\ a.hasMore = (n > Len(B2))
  <2>1. its = B /\ lo < n
    BY <1>1, <1>3, <1>4, <1>6, <1>11 DEF AtMost
  <2>2. B = SubSeq(L, 1, lo)
    <3>1. AtMost(lo, n) = lo
      BY <1>1, <1>3, <2>1 DEF AtMost
    <3> QED BY <3>1 DEF B, Beginning, L, n
  <2>3. B2 = SubSeq(L, 1, AtMost(lo + per, n))
    BY <1>1 DEF B2, Beginning, L, n
  <2>4. SubSeq(L, 1, lo) \o SubSeq(L, lo + 1, AtMost(lo + per, n))
          = SubSeq(L, 1, AtMost(lo + per, n))
    <3>1. /\ 1 \in 1..Len(L) + 1 /\ lo \in 1 - 1 .. Len(L)
          /\ AtMost(lo + per, n) \in lo..Len(L)
      BY <1>1, <1>2, <1>3, <2>1 DEF AtMost
    <3> QED BY <1>3, <3>1, ConcatAdjacentSubSeq
  <2>5. a.hasMore = (n > Len(B2))
    BY <1>1, <1>2, <1>3, <1>5 DEF AtMost
  <2> QED BY <1>1, <2>1, <2>2, <2>3, <2>4, <2>5
<1> QED
  <2>1. ViewOk(M, its \o a.rows, p + 1, a.hasMore, fst)
    BY <1>6, <1>8, <1>9, <1>10, <1>11 DEF ViewOk, B2, n, per
  <2> QED BY <1>1, <2>1 DEF a, M, per

\* An event that is stored moves rows to later pages, never to earlier ones.
LEMMA StaysShown ==
  ASSUME NEW N \in SUBSET Rows, NEW M \in SUBSET N, NEW its, NEW p \in Nat \ {0},
         NEW more, NEW fst, ViewOk(M, its, p, more, fst)
  PROVE  ViewOk(N, its, p, more, fst)
<1> DEFINE k == p * DefaultPerPage
<1>1. k \in Nat
  BY BrowseAssumption
<1>2. M \in SUBSET Rows
  OBVIOUS
<1>3. ToSet(its) \subseteq M /\ fst \subseteq M
  BY DEF ViewOk
<1>4. \A e \in M : /\ Rank(M, e) \in Nat /\ Rank(N, e) \in Nat
                   /\ Rank(M, e) =< Rank(N, e)
  BY <1>2, ListingIs, RankGrows
<1>5. \A e \in M : e \in ToSet(Beginning(N, k)) => e \in ToSet(Beginning(M, k))
  <2> HIDE DEF k
  <2>1. \A e : e \in ToSet(Beginning(M, k)) <=> e \in M /\ Rank(M, e) < k
    BY <1>1, <1>2, BeginningIs
  <2>2. \A e : e \in ToSet(Beginning(N, k)) <=> e \in N /\ Rank(N, e) < k
    BY <1>1, BeginningIs
  <2> QED BY <1>1, <1>4, <2>1, <2>2
<1>6. N = fst => N = M
  BY <1>3
<1> QED BY <1>3, <1>5, <1>6 DEF ViewOk

-----------------------------------------------------------------------------
(* What the variables hold. *)

Owners == {e.owner : e \in Rows}
Repos == {e.repo : e \in Rows}
OwnerChoices == Owners \cup {""}

Filters == [owner : OwnerChoices, repo : Repos \cup {""},
            type : Types \cup {""}, from : Int, to : Int]

Calls == [filter : Filters, page : Nat \ {0}, replace : BOOLEAN,
          answer : Answers \cup {None, Failed}, whole : SUBSET Rows,
          crossed : BOOLEAN]

RepoCalls == [owner : OwnerChoices, answer : (SUBSET Repos) \cup {None, Failed},
              crossed : BOOLEAN]

ViewType ==
    /\ table \in SUBSET Rows
    /\ filter \in Filters
    /\ items \in Seq(Rows) /\ page \in Nat \ {0} /\ hasMore \in BOOLEAN
    /\ first \in SUBSET Rows /\ mixed \in BOOLEAN
    /\ asked \in Seq(Calls)

SideType ==
    /\ owners = None \/ owners \subseteq Owners
    /\ repos \subseteq Repos
    /\ reposAsked \in Seq(RepoCalls)
    /\ reposMixed \in BOOLEAN

\* The i-th of the calls s is taken out, and the ones before it are overtaken.
LEMMA ArrivalIs ==
  ASSUME NEW T, \A c \in T : [c EXCEPT !.crossed = TRUE] \in T,
         NEW s \in Seq(T), NEW i \in 1..Len(s)
  PROVE  LET b == RemoveAt(Overtaken(s, i), i)
         IN /\ b \in Seq(T) /\ Len(b) = Len(s) - 1 /\ DOMAIN b = 1..Len(s) - 1
            /\ \A j \in 1..Len(s) - 1 :
                 b[j] = IF j < i THEN [s[j] EXCEPT !.crossed = TRUE] ELSE s[j + 1]
<1> DEFINE o == Overtaken(s, i)
           b == RemoveAt(o, i)
<1>1. o \in Seq(T) /\ Len(o) = Len(s)
      /\ \A j \in 1..Len(s) :
            o[j] = IF j < i THEN [s[j] EXCEPT !.crossed = TRUE] ELSE s[j]
  <2>1. o = [j \in 1..Len(s) |->
               IF j < i THEN [s[j] EXCEPT !.crossed = TRUE] ELSE s[j]]
    BY DEF Overtaken
  <2>2. \A j \in 1..Len(s) : o[j] \in T
    <3>1. \A j \in 1..Len(s) : s[j] \in T
      OBVIOUS
    <3> QED BY <2>1, <3>1
  <2>3. o \in [1..Len(s) -> T] /\ Len(s) \in Nat
    BY <2>1, <2>2
  <2> HIDE DEF o
  <2> QED BY <2>1, <2>3
<1> HIDE DEF o
<1>2. /\ b \in Seq(T) /\ Len(b) = Len(s) - 1
      /\ \A j \in 1..(Len(s) - 1) : b[j] = IF j < i THEN o[j] ELSE o[j + 1]
  <2>1. i \in 1..Len(o)
    BY <1>1
  <2> QED BY <1>1, <2>1, RemoveAtIs
<1> HIDE DEF b
<1>3. ASSUME NEW j \in 1..Len(s) - 1
      PROVE  b[j] = IF j < i THEN [s[j] EXCEPT !.crossed = TRUE] ELSE s[j + 1]
  <2>1. j \in 1..Len(s) /\ j + 1 \in 1..Len(s) /\ (~(j < i) => ~(j + 1 < i))
    OBVIOUS
  <2>2. CASE j < i
    BY <1>1, <1>2, <2>1, <2>2
  <2>3. CASE ~(j < i)
    BY <1>1, <1>2, <2>1, <2>3
  <2> QED BY <2>2, <2>3
<1>4. DOMAIN b = 1..Len(s) - 1
  BY <1>2
<1> QED BY <1>2, <1>3, <1>4 DEF b, o

LEMMA CallsCross ==
  /\ \A c \in Calls :
        LET d == [c EXCEPT !.crossed = TRUE]
        IN /\ d \in Calls /\ d.crossed /\ d.filter = c.filter /\ d.page = c.page
           /\ d.replace = c.replace /\ d.answer = c.answer /\ d.whole = c.whole
  /\ \A c \in RepoCalls :
        LET d == [c EXCEPT !.crossed = TRUE]
        IN d \in RepoCalls /\ d.crossed /\ d.owner = c.owner /\ d.answer = c.answer
BY DEF Calls, RepoCalls

-----------------------------------------------------------------------------
(* The view and the calls under way.  What a call will show depends on the   *)
(* filter of today, on the page shown and on who may still overtake it.      *)

Answered(c) == c.answer \notin {None, Failed}

Renewing == \E i \in DOMAIN asked : asked[i].replace

\* A reload asks for page 1, and the last of them for the filter of today.
LastReload ==
    \A i \in DOMAIN asked : asked[i].replace =>
        /\ asked[i].page = 1
        /\ ~asked[i].crossed /\ (\A j \in DOMAIN asked : i < j => ~asked[j].replace)
             => asked[i].filter = filter

\* A "Load more" that nothing crossed was asked before all calls under way.
MoreAlone ==
    \A i \in DOMAIN asked : ~asked[i].replace /\ ~asked[i].crossed => i = 1

\* What a reload has read fits what matches now.
ReloadFits(c) ==
    c.replace /\ Answered(c) =>
        ViewOk(Matching(c.filter), c.answer.rows, 1, c.answer.hasMore, c.whole)

ReloadsFit == \A i \in DOMAIN asked : ReloadFits(asked[i])

ShownFits ==
    ~mixed /\ ~Renewing => ViewOk(Matching(filter), items, page, hasMore, first)

\* What a "Load more" has read continues what is shown.
MoreFits(c) ==
    ~c.replace /\ ~c.crossed /\ ~Renewing =>
        /\ c.filter = filter /\ c.page = page + 1 /\ hasMore
        /\ ~mixed /\ Answered(c) =>
             ViewOk(Matching(filter), items \o c.answer.rows, page + 1,
                    c.answer.hasMore, first)

MoreFit == \A i \in DOMAIN asked : MoreFits(asked[i])

ViewInv ==
    ViewType /\ LastReload /\ MoreAlone /\ ReloadsFit /\ ShownFits /\ MoreFit

LEMMA ViewInit == BrowseInit => ViewInv
<1> SUFFICES ASSUME BrowseInit PROVE ViewInv
  OBVIOUS
<1>1. Unfiltered \in Filters
  BY DEF Unfiltered, Filters, OwnerChoices
<1> DEFINE c == Ask(Unfiltered, 1, TRUE, FALSE)
<1>2. /\ c \in Calls /\ c.replace /\ c.page = 1 /\ c.filter = Unfiltered
      /\ ~Answered(c)
  BY <1>1 DEF Ask, Calls, Answered
<1>3. asked = <<c>>
  BY DEF BrowseInit
<1> HIDE DEF c
<1>4. asked \in Seq(Calls) /\ DOMAIN asked = {1} /\ asked[1] = c
  BY <1>2, <1>3
<1>5. ViewType
  <2>1. <<>> \in Seq(Rows) /\ {} \in SUBSET Rows /\ 1 \in Nat \ {0}
    OBVIOUS
  <2> QED BY <1>1, <1>4, <2>1 DEF BrowseInit, ViewType
<1>6. LastReload /\ MoreAlone /\ Renewing
  BY <1>2, <1>4 DEF LastReload, MoreAlone, Renewing, BrowseInit
<1>7. ReloadsFit
  BY <1>2, <1>4 DEF ReloadsFit, ReloadFits
<1>8. ShownFits /\ MoreFit
  BY <1>6 DEF ShownFits, MoreFit, MoreFits
<1> QED BY <1>5, <1>6, <1>7, <1>8 DEF ViewInv

\* The filter changes: page 1 of the new one is asked for.
LEMMA ReloadKeeps ==
  ASSUME ViewInv, NEW f \in Filters, ReloadTimeline(f), table' = table
  PROVE  ViewInv'
<1> DEFINE c == Ask(f, 1, TRUE, FALSE)
           n == Len(asked)
<1>1. /\ c \in Calls /\ c.replace /\ c.page = 1 /\ c.filter = f /\ ~Answered(c)
  BY DEF Ask, Calls, Answered
<1>2. /\ asked' = Append(asked, c) /\ filter' = f
      /\ UNCHANGED <<items, page, hasMore, first, mixed>>
  BY DEF ReloadTimeline, Load, Ask
<1>3. asked \in Seq(Calls) /\ n \in Nat
  BY DEF ViewInv, ViewType
<1> HIDE DEF c
<1>4. /\ asked' \in Seq(Calls) /\ DOMAIN asked' = 1..n + 1 /\ DOMAIN asked = 1..n
      /\ asked'[n + 1] = c
      /\ \A i \in 1..n : asked'[i] = asked[i]
  BY <1>1, <1>2, <1>3
<1>5. \A i \in 1..n + 1 : i = n + 1 \/ (i \in 1..n /\ i < n + 1)
  BY <1>3
<1> HIDE DEF n
<1>6. ViewType'
  BY <1>2, <1>4 DEF ViewInv, ViewType
<1>7. n + 1 \in 1..n + 1
  BY <1>3 DEF n
<1>8. Renewing'
  BY <1>1, <1>4, <1>7 DEF Renewing
<1>9. LastReload'
  BY <1>1, <1>2, <1>4, <1>5, <1>7 DEF ViewInv, LastReload
<1>10. MoreAlone'
  BY <1>1, <1>4, <1>5 DEF ViewInv, MoreAlone
<1>11. ReloadsFit'
  <2> SUFFICES ASSUME NEW i \in 1..n + 1 PROVE ReloadFits(asked[i])'
    BY <1>4 DEF ReloadsFit
  <2>1. CASE i = n + 1
    BY <1>1, <1>4, <2>1 DEF ReloadFits, Answered
  <2>2. CASE i # n + 1
    <3>1. i \in 1..n /\ ReloadFits(asked[i])
      BY <1>4, <1>5, <2>2 DEF ViewInv, ReloadsFit
    <3> QED BY <1>4, <3>1 DEF ReloadFits, Answered, Matching
  <2> QED BY <2>1, <2>2
<1>12. ShownFits' /\ MoreFit'
  BY <1>8 DEF ShownFits, MoreFit, MoreFits
<1> QED BY <1>6, <1>9, <1>10, <1>11, <1>12 DEF ViewInv

\* The sidebar and its calls: the view is left alone.
LEMMA ViewKept ==
  ASSUME ViewInv, UNCHANGED <<table, filter, viewVars, asked>>
  PROVE  ViewInv'
<1>1. UNCHANGED <<table, filter, asked, items, page, hasMore, first, mixed>>
  BY DEF viewVars
<1>2. ViewType' /\ LastReload' /\ MoreAlone' /\ (Renewing' <=> Renewing)
  BY <1>1 DEF ViewInv, ViewType, LastReload, MoreAlone, Renewing
<1>3. ReloadsFit'
  <2>1. \A i \in DOMAIN asked :
          Matching(asked[i].filter)' = Matching(asked[i].filter)
    BY <1>1 DEF Matching
  <2> QED BY <1>1, <2>1 DEF ViewInv, ReloadsFit, ReloadFits, Answered
<1>4. Matching(filter)' = Matching(filter)
  BY <1>1 DEF Matching
<1>5. ShownFits'
  BY <1>1, <1>2, <1>4 DEF ViewInv, ShownFits
<1>6. MoreFit'
  BY <1>1, <1>2, <1>4 DEF ViewInv, MoreFit, MoreFits, Answered
<1> QED BY <1>2, <1>3, <1>5, <1>6 DEF ViewInv

LEMMA LoadMoreKeeps ==
  ASSUME ViewInv, LoadMore
  PROVE  ViewInv'
<1> DEFINE c == Ask(filter, page + 1, FALSE, asked # <<>>)
           n == Len(asked)
<1>1. filter \in Filters /\ page + 1 \in Nat \ {0} /\ asked \in Seq(Calls) /\ n \in Nat
  BY DEF ViewInv, ViewType
<1>2. /\ c \in Calls /\ ~c.replace /\ c.page = page + 1 /\ c.filter = filter
      /\ ~Answered(c) /\ c.crossed = (asked # <<>>)
  BY <1>1 DEF Ask, Calls, Answered
<1>3. /\ asked' = Append(asked, c) /\ hasMore
      /\ UNCHANGED <<table, filter, items, page, hasMore, first, mixed>>
  BY DEF LoadMore, Load, Ask, filterVars
<1> HIDE DEF c
<1>4. /\ asked' \in Seq(Calls) /\ DOMAIN asked' = 1..n + 1 /\ DOMAIN asked = 1..n
      /\ asked'[n + 1] = c
      /\ \A i \in 1..n : asked'[i] = asked[i]
  BY <1>1, <1>2, <1>3
<1>5. \A i \in 1..n + 1 : i = n + 1 \/ i \in 1..n
  BY <1>1
<1>6. n + 1 \in 1..n + 1 /\ (asked = <<>> => n = 0) /\ 0 + 1 = 1 /\ 1..n \subseteq 1..n + 1
  BY <1>1
<1> HIDE DEF n
<1>7. ViewType'
  BY <1>3, <1>4 DEF ViewInv, ViewType
<1>8. Renewing' <=> Renewing
  BY <1>2, <1>4, <1>5, <1>6 DEF Renewing
<1>9. LastReload'
  BY <1>2, <1>3, <1>4, <1>5, <1>6 DEF ViewInv, LastReload
<1>10. MoreAlone'
  BY <1>2, <1>4, <1>5, <1>6 DEF ViewInv, MoreAlone
<1>11. Matching(filter)' = Matching(filter)
  BY <1>3 DEF Matching
<1>12. ReloadsFit' /\ MoreFit'
  <2> SUFFICES ASSUME NEW i \in 1..n + 1
               PROVE  ReloadFits(asked[i])' /\ MoreFits(asked[i])'
    BY <1>4 DEF ReloadsFit, MoreFit
  <2>1. CASE i = n + 1
    <3>1. ~Answered(asked[i])'
      BY <1>2, <1>4, <2>1 DEF Answered
    <3>2. asked'[i].filter = filter' /\ asked'[i].page = page' + 1 /\ hasMore'
      BY <1>2, <1>3, <1>4, <2>1
    <3> QED BY <3>1, <3>2 DEF ReloadFits, MoreFits
  <2>2. CASE i # n + 1
    <3>1. i \in 1..n /\ ReloadFits(asked[i]) /\ MoreFits(asked[i])
      BY <1>4, <1>5, <2>2 DEF ViewInv, ReloadsFit, MoreFit
    <3>0. Matching(asked[i].filter)' = Matching(asked[i].filter)
      BY <1>3, <1>4, <3>1 DEF Matching
    <3>2. ReloadFits(asked[i])'
      BY <1>3, <1>4, <3>0, <3>1 DEF ReloadFits, Answered
    <3>3. MoreFits(asked[i])'
      BY <1>3, <1>4, <1>8, <1>11, <3>1 DEF MoreFits, Answered
    <3> QED BY <3>2, <3>3
  <2> QED BY <2>1, <2>2
<1>13. ShownFits'
  BY <1>3, <1>8, <1>11 DEF ViewInv, ShownFits
<1> QED BY <1>7, <1>9, <1>10, <1>12, <1>13 DEF ViewInv

LEMMA ServeKeeps ==
  ASSUME ViewInv, NEW i \in DOMAIN asked, ServeTimeline(i)
  PROVE  ViewInv'
<1> DEFINE c == asked[i]
           M == Matching(c.filter)
<1>1. asked \in Seq(Calls) /\ c \in Calls /\ table \in SUBSET Rows /\ items \in Seq(Rows)
      /\ page \in Nat \ {0}
  BY DEF ViewInv, ViewType
<1>2. PICK a \in {ListTimeline(c.filter, c.page, DefaultPerPage)} \cup Failures :
        asked' = [asked EXCEPT ![i].answer = a, ![i].whole = M]
  BY DEF ServeTimeline
<1>3. UNCHANGED <<table, filter, items, page, hasMore, first, mixed>>
  BY DEF ServeTimeline, filterVars, viewVars
<1>4. M \in SUBSET Rows /\ c.page \in Nat \ {0}
  BY <1>1 DEF Matching, Calls
<1>5. a \in Answers \cup {Failed}
  <2>1. ListTimeline(c.filter, c.page, DefaultPerPage) \in Answers
    BY <1>1, <1>4, AnswerIs
  <2> QED BY <2>1 DEF Failures
<1> DEFINE d == [c EXCEPT !.answer = a, !.whole = M]
<1>6. /\ d \in Calls /\ d.answer = a /\ d.whole = M /\ d.filter = c.filter
      /\ d.page = c.page /\ d.replace = c.replace /\ d.crossed = c.crossed
  BY <1>1, <1>4, <1>5 DEF Calls
<1>7. /\ DOMAIN asked' = DOMAIN asked
      /\ asked'[i] = d
      /\ \A j \in DOMAIN asked : j # i => asked'[j] = asked[j]
      /\ asked' \in Seq(Calls)
  <2>1. asked' = [asked EXCEPT ![i] = d]
    BY <1>2
  <2> HIDE DEF d
  <2> QED BY <1>1, <1>6, <2>1
<1> HIDE DEF d, c, M
<1>8. \A j \in DOMAIN asked : /\ asked'[j].replace = asked[j].replace
                              /\ asked'[j].page = asked[j].page
                              /\ asked'[j].filter = asked[j].filter
                              /\ asked'[j].crossed = asked[j].crossed
  BY <1>6, <1>7 DEF c
<1>9. ViewType' /\ LastReload' /\ MoreAlone' /\ (Renewing' <=> Renewing)
  BY <1>3, <1>7, <1>8 DEF ViewInv, ViewType, LastReload, MoreAlone, Renewing
<1>10. Matching(filter)' = Matching(filter)
  BY <1>3 DEF Matching
<1>11. ShownFits'
  BY <1>3, <1>9, <1>10 DEF ViewInv, ShownFits
<1>12. ASSUME NEW j \in DOMAIN asked, j # i
       PROVE  ReloadFits(asked[j])' /\ MoreFits(asked[j])'
  <2>1. ReloadFits(asked[j]) /\ MoreFits(asked[j])
    BY DEF ViewInv, ReloadsFit, MoreFit
  <2>2. ReloadFits(asked[j])'
    BY <1>3, <1>7, <1>12, <2>1 DEF ReloadFits, Answered, Matching
  <2>3. MoreFits(asked[j])'
    BY <1>3, <1>7, <1>9, <1>10, <1>12, <2>1 DEF MoreFits, Answered
  <2> QED BY <2>2, <2>3
<1>13. ReloadFits(asked[i])'
  <2> SUFFICES ASSUME c.replace, a # Failed
               PROVE  ViewOk(M, a.rows, 1, a.hasMore, M)
    <3>1. Matching(asked[i].filter)' = M
      BY <1>3, <1>6, <1>7 DEF Matching, M, c
    <3> QED BY <1>6, <1>7, <3>1 DEF ReloadFits, Answered
  <2>1. c.page = 1
    BY DEF ViewInv, LastReload, c
  <2>2. a = ListTimeline(c.filter, 1, DefaultPerPage)
    BY <1>2, <2>1 DEF Failures
  <2> QED BY <1>1, <2>2, FirstShown DEF M
<1>14. MoreFits(asked[i])'
  <2> SUFFICES ASSUME ~c.replace, ~c.crossed, ~Renewing
               PROVE  /\ c.filter = filter /\ c.page = page + 1 /\ hasMore
                      /\ ~mixed /\ a # Failed =>
                           ViewOk(Matching(filter), items \o a.rows, page + 1,
                                  a.hasMore, first)
    BY <1>3, <1>6, <1>7, <1>9, <1>10 DEF MoreFits, Answered
  <2>1. c.filter = filter /\ c.page = page + 1 /\ hasMore
    BY DEF ViewInv, MoreFit, MoreFits, c
  <2>2. ASSUME ~mixed, a # Failed
        PROVE  ViewOk(Matching(filter), items \o a.rows, page + 1, a.hasMore, first)
    <3>1. hasMore = TRUE
      BY <2>1 DEF ViewInv, ViewType
    <3>2. ViewOk(Matching(filter), items, page, TRUE, first)
      BY <2>2, <3>1 DEF ViewInv, ShownFits
    <3>3. a = ListTimeline(filter, page + 1, DefaultPerPage)
      BY <1>2, <2>1, <2>2 DEF Failures
    <3> QED BY <1>1, <3>2, <3>3, MoreShown
  <2> QED BY <2>1, <2>2
<1> QED
  <2>1. ReloadsFit' /\ MoreFit'
    BY <1>7, <1>12, <1>13, <1>14 DEF ReloadsFit, MoreFit
  <2> QED BY <1>9, <1>11, <2>1 DEF ViewInv

LEMMA ArriveKeeps ==
  ASSUME ViewInv, NEW i \in DOMAIN asked, ArriveTimeline(i)
  PROVE  ViewInv'
<1> DEFINE c == asked[i]
           n == Len(asked)
<1>1. /\ asked \in Seq(Calls) /\ c \in Calls /\ table \in SUBSET Rows
      /\ items \in Seq(Rows) /\ page \in Nat \ {0} /\ n \in Nat /\ i \in 1..n
      /\ DOMAIN asked = 1..n /\ filter \in Filters /\ hasMore \in BOOLEAN
      /\ first \in SUBSET Rows /\ mixed \in BOOLEAN
  BY DEF ViewInv, ViewType
<1>2. /\ asked' = RemoveAt(Overtaken(asked, i), i)
      /\ UNCHANGED <<table, filter>>
      /\ c.answer # None
  BY DEF ArriveTimeline, filterVars
<1>3. /\ asked' \in Seq(Calls) /\ DOMAIN asked' = 1..n - 1
      /\ \A j \in 1..n - 1 :
            asked'[j] = IF j < i THEN [asked[j] EXCEPT !.crossed = TRUE] ELSE asked[j + 1]
  <2>1. \A d \in Calls : [d EXCEPT !.crossed = TRUE] \in Calls
    BY CallsCross
  <2> QED BY <1>1, <1>2, <2>1, ArrivalIs
\* Where the j-th call that is left was.
<1> DEFINE was(j) == IF j < i THEN j ELSE j + 1
           now(k) == IF k < i THEN k ELSE k - 1
<1>4. /\ \A j \in 1..n - 1 : was(j) \in 1..n /\ was(j) # i
      /\ \A j, k \in 1..n - 1 : j < k => was(j) < was(k)
      /\ \A k \in 1..n : k # i => now(k) \in 1..n - 1 /\ was(now(k)) = k
      /\ \A j \in 1..n - 1 : was(j) > i => was(j) # 1
      /\ \A j \in 1..n - 1 : ~(was(j) < i) => was(j) > i
      /\ \A j \in 1..n - 1 : was(j) = 1 => j = 1
      /\ \A j, k \in 1..n - 1 : was(j) < was(k) => j < k
  BY <1>1
<1>5. \A j \in 1..n - 1 :
        /\ asked'[j].filter = asked[was(j)].filter
        /\ asked'[j].page = asked[was(j)].page
        /\ asked'[j].replace = asked[was(j)].replace
        /\ asked'[j].answer = asked[was(j)].answer
        /\ asked'[j].whole = asked[was(j)].whole
        /\ asked[was(j)].crossed => asked'[j].crossed
        /\ ~asked'[j].crossed => was(j) > i
  <2> TAKE j \in 1..n - 1
  <2>1. asked[was(j)] \in Calls
    BY <1>1, <1>4
  <2>2. CASE j < i
    BY <1>3, <2>1, <2>2, CallsCross
  <2>3. CASE ~(j < i)
    <3>1. j + 1 > i
      BY <1>1, <2>3
    <3> QED BY <1>3, <2>3, <3>1
  <2> QED BY <2>2, <2>3
<1> HIDE DEF was, now, n
<1>6. LastReload'
  <2> SUFFICES ASSUME NEW j \in 1..n - 1, asked'[j].replace
               PROVE  /\ asked'[j].page = 1
                      /\ ~asked'[j].crossed
                         /\ (\A k \in 1..n - 1 : j < k => ~asked'[k].replace)
                         => asked'[j].filter = filter
    BY <1>2, <1>3 DEF LastReload
  <2>1. asked[was(j)].replace /\ was(j) \in 1..n
    BY <1>4, <1>5
  <2>2. asked'[j].page = 1
    BY <1>1, <1>5, <2>1 DEF ViewInv, LastReload
  <2>3. ASSUME ~asked'[j].crossed, \A k \in 1..n - 1 : j < k => ~asked'[k].replace
        PROVE  asked'[j].filter = filter
    <3>1. ~asked[was(j)].crossed /\ was(j) > i
      BY <1>5, <2>3
    <3>2. ASSUME NEW k \in 1..n, was(j) < k PROVE ~asked[k].replace
      <4>1. k # i
        BY <1>1, <1>4, <3>1, <3>2
      <4>2. now(k) \in 1..n - 1 /\ was(now(k)) = k
        BY <1>4, <4>1
      <4>3. j < now(k)
        BY <1>4, <3>2, <4>2
      <4> QED BY <1>5, <2>3, <4>2, <4>3
    <3> QED BY <1>1, <1>5, <2>1, <3>1, <3>2 DEF ViewInv, LastReload
  <2> QED BY <2>2, <2>3
<1>7. MoreAlone'
  <2> SUFFICES ASSUME NEW j \in 1..n - 1, ~asked'[j].replace, ~asked'[j].crossed
               PROVE  FALSE
    BY <1>3 DEF MoreAlone
  <2>1. /\ was(j) \in 1..n /\ ~asked[was(j)].replace /\ ~asked[was(j)].crossed
        /\ was(j) > i
    BY <1>4, <1>5
  <2> QED BY <1>1, <1>4, <2>1 DEF ViewInv, MoreAlone
<1>8. ReloadsFit'
  <2> SUFFICES ASSUME NEW j \in 1..n - 1 PROVE ReloadFits(asked[j])'
    BY <1>3 DEF ReloadsFit
  <2>1. ReloadFits(asked[was(j)])
    BY <1>1, <1>4 DEF ViewInv, ReloadsFit
  <2>2. Matching(asked[j].filter)' = Matching(asked[was(j)].filter)
    BY <1>2, <1>5, SMTT(30), ZenonT(30) DEF Matching
  <2> QED BY <1>5, <2>1, <2>2 DEF ReloadFits, Answered
\* Nothing that is left is an uncrossed "Load more".
<1>9. MoreFit'
  <2> SUFFICES ASSUME NEW j \in 1..n - 1, ~asked'[j].replace, ~asked'[j].crossed
               PROVE  FALSE
    BY <1>3 DEF MoreFit, MoreFits
  <2>1. /\ was(j) \in 1..n /\ ~asked[was(j)].replace /\ ~asked[was(j)].crossed
        /\ was(j) > i
    BY <1>4, <1>5
  <2> QED BY <1>1, <1>4, <2>1 DEF ViewInv, MoreAlone
<1>10. Matching(filter)' = Matching(filter)
  BY <1>2 DEF Matching
<1>11. ~Renewing' => \A k \in 1..n : k # i => ~asked[k].replace
  <2> SUFFICES ASSUME ~Renewing', NEW k \in 1..n, k # i PROVE ~asked[k].replace
    OBVIOUS
  <2>1. now(k) \in 1..n - 1 /\ was(now(k)) = k
    BY <1>4
  <2> QED BY <1>3, <1>5, <2>1 DEF Renewing
<1>12. c.filter \in Filters /\ c.page \in Nat \ {0} /\ c.replace \in BOOLEAN
       /\ c.crossed \in BOOLEAN /\ c.whole \in SUBSET Rows
       /\ c.answer \in Answers \cup {None, Failed}
  BY <1>1 DEF Calls
<1>13. \/ /\ c.answer # Failed
          /\ items' = Shown(c, items) /\ hasMore' = c.answer.hasMore
          /\ page' = c.page
          /\ first' = IF c.replace THEN c.whole ELSE first
          /\ mixed' = (c.crossed \/ (mixed /\ ~c.replace))
       \/ /\ c.answer = Failed
          /\ mixed' = (mixed \/ c.replace)
          /\ UNCHANGED <<items, hasMore, page, first>>
  BY DEF ArriveTimeline, PageOf
<1> HIDE DEF c
<1>14. CASE c.answer = Failed
  <2>1. /\ mixed' = (mixed \/ c.replace)
        /\ UNCHANGED <<items, hasMore, page, first>>
    BY <1>13, <1>14
  <2>2. ViewType'
    BY <1>1, <1>2, <1>3, <1>12, <2>1 DEF ViewType
  <2>3. ShownFits'
    <3> SUFFICES ASSUME ~mixed', ~Renewing'
                 PROVE  ViewOk(Matching(filter), items, page, hasMore, first)
      BY <1>2, <1>10, <2>1 DEF ShownFits
    <3>1. ~mixed /\ ~c.replace
      BY <1>1, <1>12, <2>1
    <3>2. ~Renewing
      BY <1>1, <1>11, <3>1 DEF Renewing, c
    <3> QED BY <3>1, <3>2 DEF ViewInv, ShownFits
  <2> QED BY <1>6, <1>7, <1>8, <1>9, <2>2, <2>3 DEF ViewInv
<1>15. CASE c.answer # Failed
  <2>1. /\ items' = Shown(c, items) /\ hasMore' = c.answer.hasMore
        /\ page' = c.page
        /\ first' = IF c.replace THEN c.whole ELSE first
        /\ mixed' = (c.crossed \/ (mixed /\ ~c.replace))
    BY <1>13, <1>15
  <2>2. c.answer \in Answers /\ Answered(c)
    BY <1>2, <1>12, <1>15 DEF Answered, c
  <2>3. c.answer.rows \in Seq(Rows) /\ c.answer.hasMore \in BOOLEAN
    BY <2>2 DEF Answers
  <2>4. items' \in Seq(Rows)
    <3>1. items \o c.answer.rows \in Seq(Rows)
      BY <1>1, <2>3
    <3> QED BY <2>1, <2>3, <3>1 DEF Shown
  <2>5. ViewType'
    BY <1>1, <1>2, <1>3, <1>12, <2>1, <2>3, <2>4 DEF ViewType
  <2>6. CASE c.replace
    <3>1. /\ items' = c.answer.rows /\ first' = c.whole /\ mixed' = c.crossed
          /\ c.page = 1
      BY <1>1, <1>12, <2>1, <2>6 DEF Shown, ViewInv, LastReload, c
    <3>2. ShownFits'
      <4> SUFFICES ASSUME ~c.crossed, ~Renewing'
                   PROVE  ViewOk(Matching(filter), c.answer.rows, 1, c.answer.hasMore,
                                 c.whole)
        BY <1>2, <1>10, <2>1, <3>1 DEF ShownFits
      <4>1. c.filter = filter
        <5>1. \A k \in 1..n : i < k => ~asked[k].replace
          BY <1>1, <1>11
        <5> QED BY <1>1, <2>6, <5>1 DEF ViewInv, LastReload, c
      <4>2. ReloadFits(c)
        BY DEF ViewInv, ReloadsFit, c
      <4> QED BY <2>2, <2>6, <4>1, <4>2 DEF ReloadFits
    <3> QED BY <1>6, <1>7, <1>8, <1>9, <2>5, <3>2 DEF ViewInv
  <2>7. CASE ~c.replace
    <3>1. /\ items' = items \o c.answer.rows /\ first' = first
          /\ mixed' = (c.crossed \/ mixed)
      BY <1>1, <1>12, <2>1, <2>7 DEF Shown
    <3>2. ShownFits'
      <4> SUFFICES ASSUME ~c.crossed, ~mixed, ~Renewing'
                   PROVE  ViewOk(Matching(filter), items \o c.answer.rows, c.page,
                                 c.answer.hasMore, first)
        BY <1>1, <1>2, <1>10, <1>12, <2>1, <3>1 DEF ShownFits
      <4>1. ~Renewing
        BY <1>1, <1>11, <2>7 DEF Renewing, c
      <4>2. MoreFits(c)
        BY DEF ViewInv, MoreFit, c
      <4> QED BY <2>2, <2>7, <4>1, <4>2 DEF MoreFits
    <3> QED BY <1>6, <1>7, <1>8, <1>9, <2>5, <3>2 DEF ViewInv
  <2> QED BY <2>6, <2>7
<1> QED BY <1>14, <1>15

LEMMA StoreKeeps ==
  ASSUME ViewInv, NEW e \in Rows, Store(e)
  PROVE  ViewInv'
<1>1. /\ table' = table \cup {e}
      /\ UNCHANGED <<filter, items, page, hasMore, first, mixed, asked>>
  BY DEF Store, filterVars, viewVars
<1>2. /\ table \in SUBSET Rows /\ table' \in SUBSET Rows /\ page \in Nat \ {0}
      /\ page + 1 \in Nat \ {0} /\ 1 \in Nat \ {0}
  BY <1>1 DEF ViewInv, ViewType
<1>3. ViewType' /\ LastReload' /\ MoreAlone' /\ (Renewing' <=> Renewing)
  BY <1>1, <1>2 DEF ViewInv, ViewType, LastReload, MoreAlone, Renewing
\* What matches only grows.
<1> DEFINE Then(f) == {g \in table' : /\ f.owner # "" => g.owner = f.owner
                                      /\ f.repo # "" => g.repo = f.repo
                                      /\ f.type # "" => g.type = f.type
                                      /\ f.from > 0 => g.ts >= f.from
                                      /\ f.to > 0 => g.ts =< f.to}
<1>4. \A f : Then(f) \in SUBSET Rows /\ Matching(f) \in SUBSET Then(f)
  BY <1>1, <1>2 DEF Matching
<1>5. Matching(filter)' = Then(filter)
  BY <1>1 DEF Matching
<1>6. \A i \in DOMAIN asked : Matching(asked[i].filter)' = Then(asked[i].filter)
  BY <1>1 DEF Matching
<1> HIDE DEF Then
<1>7. ReloadsFit'
  <2> SUFFICES ASSUME NEW i \in DOMAIN asked, asked[i].replace, Answered(asked[i])
               PROVE  ViewOk(Then(asked[i].filter), asked[i].answer.rows, 1,
                             asked[i].answer.hasMore, asked[i].whole)
    BY <1>1, <1>6 DEF ReloadsFit, ReloadFits, Answered
  <2>1. ViewOk(Matching(asked[i].filter), asked[i].answer.rows, 1,
               asked[i].answer.hasMore, asked[i].whole)
    BY DEF ViewInv, ReloadsFit, ReloadFits
  <2> QED BY <1>2, <1>4, <2>1, StaysShown
<1>8. ShownFits'
  <2> SUFFICES ASSUME ~mixed, ~Renewing
               PROVE  ViewOk(Then(filter), items, page, hasMore, first)
    BY <1>1, <1>3, <1>5 DEF ShownFits
  <2>1. ViewOk(Matching(filter), items, page, hasMore, first)
    BY DEF ViewInv, ShownFits
  <2> QED BY <1>2, <1>4, <2>1, StaysShown
<1>9. MoreFit'
  <2> SUFFICES ASSUME NEW i \in DOMAIN asked, ~asked[i].replace, ~asked[i].crossed,
                      ~Renewing
               PROVE  /\ asked[i].filter = filter /\ asked[i].page = page + 1 /\ hasMore
                      /\ ~mixed /\ Answered(asked[i]) =>
                           ViewOk(Then(filter), items \o asked[i].answer.rows, page + 1,
                                  asked[i].answer.hasMore, first)
    BY <1>1, <1>3, <1>5 DEF MoreFit, MoreFits, Answered
  <2>1. MoreFits(asked[i])
    BY DEF ViewInv, MoreFit
  <2>2. ASSUME ~mixed, Answered(asked[i])
        PROVE  ViewOk(Then(filter), items \o asked[i].answer.rows, page + 1,
                      asked[i].answer.hasMore, first)
    <3>1. ViewOk(Matching(filter), items \o asked[i].answer.rows, page + 1,
                 asked[i].answer.hasMore, first)
      BY <2>1, <2>2 DEF MoreFits
    <3> QED BY <1>2, <1>4, <3>1, StaysShown
  <2> QED BY <2>1, <2>2 DEF MoreFits
<1> QED BY <1>3, <1>7, <1>8, <1>9 DEF ViewInv

-----------------------------------------------------------------------------
(* The sidebar. *)

\* What the server has answered of an owner stays his.
ReposFit ==
    \A i \in DOMAIN reposAsked :
        Answered(reposAsked[i]) =>
            reposAsked[i].answer \subseteq ListRepos(reposAsked[i].owner)

\* The last call is of the owner that is chosen, unless he was unset.
LastOwner ==
    reposAsked # <<>> /\ ~reposAsked[Len(reposAsked)].crossed =>
        reposAsked[Len(reposAsked)].owner = filter.owner

SideInv == SideType /\ ReposFit /\ LastOwner /\ ReposOfOwner

LEMMA SideInit == BrowseInit => SideInv
<1> SUFFICES ASSUME BrowseInit PROVE SideInv
  OBVIOUS
<1>1. reposAsked = <<>> /\ repos = {} /\ owners = None /\ reposMixed = FALSE
  BY DEF BrowseInit
<1>2. reposAsked \in Seq(RepoCalls) /\ DOMAIN reposAsked = {}
  BY <1>1
<1> QED
  BY <1>1, <1>2 DEF SideInv, SideType, ReposFit, LastOwner, ReposOfOwner

\* Neither the owner nor the calls change; the store may only grow.
LEMMA SideKept ==
  ASSUME SideInv, table \subseteq table', filter'.owner = filter.owner, UNCHANGED sideVars
  PROVE  SideInv'
<1>1. UNCHANGED <<owners, repos, reposAsked, reposMixed>>
  BY DEF sideVars
<1> DEFINE Then(o) == {e.repo : e \in {g \in table' : g.owner = o}}
<1>2. \A o : ListRepos(o) \subseteq Then(o)
  BY DEF ListRepos
<1>3. \A i \in DOMAIN reposAsked :
        ListRepos(reposAsked[i].owner)' = Then(reposAsked[i].owner)
  BY <1>1 DEF ListRepos
<1>4. ListRepos(filter.owner)' = Then(filter.owner)
  BY DEF ListRepos
<1> HIDE DEF Then
<1>5. SideType' /\ LastOwner'
  BY <1>1 DEF SideInv, SideType, LastOwner
<1>6. ReposFit'
  <2> SUFFICES ASSUME NEW i \in DOMAIN reposAsked, Answered(reposAsked[i])
               PROVE  reposAsked[i].answer \subseteq Then(reposAsked[i].owner)
    BY <1>1, <1>3 DEF ReposFit, Answered
  <2> QED BY <1>2 DEF SideInv, ReposFit
<1>7. ReposOfOwner'
  BY <1>1, <1>2, <1>4 DEF SideInv, ReposOfOwner
<1> QED BY <1>5, <1>6, <1>7 DEF SideInv

LEMMA SetOwnerKeepsSide ==
  ASSUME SideInv, filter \in Filters, NEW o \in OwnerChoices, SetOwner(o)
  PROVE  SideInv'
<1> DEFINE n == Len(reposAsked)
<1>1. /\ table' = table /\ owners' = owners
      /\ filter' = [filter EXCEPT !.owner = o, !.repo = ""]
  BY DEF SetOwner, ReloadTimeline
<1>2. filter'.owner = o
  BY <1>1 DEF Filters
<1>3. reposAsked \in Seq(RepoCalls) /\ n \in Nat /\ DOMAIN reposAsked = 1..n
  BY DEF SideInv, SideType
<1>4. CASE o = ""
  <2>1. /\ repos' = {} /\ reposMixed' = FALSE
        /\ reposAsked' = Overtaken(reposAsked, n + 1)
    BY <1>4 DEF SetOwner
  <2>2. reposAsked' = [j \in 1..n |-> IF j < n + 1 THEN [reposAsked[j] EXCEPT !.crossed = TRUE]
                                      ELSE reposAsked[j]]
    BY <1>3, <2>1 DEF Overtaken
  <2>3. ASSUME NEW j \in 1..n
        PROVE  /\ reposAsked'[j] \in RepoCalls
               /\ reposAsked'[j].crossed
               /\ reposAsked'[j].answer = reposAsked[j].answer
               /\ reposAsked'[j].owner = reposAsked[j].owner
    <3>1. j < n + 1 /\ reposAsked[j] \in RepoCalls
      BY <1>3
    <3>2. reposAsked'[j] = [reposAsked[j] EXCEPT !.crossed = TRUE]
      BY <2>2, <3>1
    <3> QED BY <3>1, <3>2, CallsCross
  <2>4. reposAsked' \in Seq(RepoCalls) /\ Len(reposAsked') = n /\ DOMAIN reposAsked' = 1..n
    <3>1. reposAsked' \in [1..n -> RepoCalls]
      BY <2>2, <2>3
    <3> HIDE DEF n
    <3> QED BY <1>3, <3>1
  <2>5. SideType'
    BY <1>1, <2>1, <2>4 DEF SideInv, SideType
  <2>6. LastOwner'
    <3>1. n = 0 => reposAsked' = <<>>
      BY <2>4
    <3>2. n # 0 => n \in 1..n
      BY <1>3
    <3> QED BY <2>3, <2>4, <3>1, <3>2 DEF LastOwner
  <2>7. ReposFit'
    <3>1. \A j \in 1..n : ListRepos(reposAsked[j].owner)' = ListRepos(reposAsked[j].owner)
      BY <1>1, <2>3 DEF ListRepos
    <3> QED BY <1>3, <2>3, <2>4, <3>1 DEF SideInv, ReposFit, Answered
  <2>8. ReposOfOwner'
    BY <2>1 DEF ReposOfOwner
  <2> QED BY <2>5, <2>6, <2>7, <2>8 DEF SideInv
<1>5. CASE o # ""
  <2> DEFINE c == [owner |-> o, answer |-> None, crossed |-> FALSE]
  <2>1. reposAsked' = Append(reposAsked, c) /\ repos' = repos /\ reposMixed' = reposMixed
    BY <1>5 DEF SetOwner
  <2>2. c \in RepoCalls /\ ~Answered(c) /\ c.owner = o
    BY DEF RepoCalls, Answered
  <2> HIDE DEF c
  <2>3. /\ reposAsked' \in Seq(RepoCalls) /\ Len(reposAsked') = n + 1
        /\ DOMAIN reposAsked' = 1..n + 1 /\ reposAsked'[n + 1] = c
        /\ \A j \in 1..n : reposAsked'[j] = reposAsked[j]
    BY <1>3, <2>1, <2>2
  <2>4. \A j \in 1..n + 1 : j = n + 1 \/ j \in 1..n
    BY <1>3
  <2>5. SideType'
    BY <1>1, <2>1, <2>3 DEF SideInv, SideType
  <2>6. LastOwner'
    BY <1>2, <2>2, <2>3 DEF LastOwner
  <2>7. ReposFit'
    <3> SUFFICES ASSUME NEW j \in 1..n + 1, Answered(reposAsked[j])'
                 PROVE  (reposAsked[j].answer \subseteq ListRepos(reposAsked[j].owner))'
      BY <2>3 DEF ReposFit
    <3>1. j \in 1..n
      BY <2>2, <2>3, <2>4 DEF Answered
    <3>2. ListRepos(reposAsked[j].owner)' = ListRepos(reposAsked[j].owner)
      BY <1>1, <2>3, <3>1 DEF ListRepos
    <3> QED BY <1>3, <2>3, <3>1, <3>2 DEF SideInv, ReposFit, Answered
  <2>8. ReposOfOwner'
    <3>1. reposAsked' # <<>>
      BY <1>3, <2>3
    <3> QED BY <3>1 DEF ReposOfOwner
  <2> QED BY <2>5, <2>6, <2>7, <2>8 DEF SideInv
<1> QED BY <1>4, <1>5

LEMMA ServeReposKeepsSide ==
  ASSUME SideInv, table \in SUBSET Rows, NEW i \in DOMAIN reposAsked, ServeRepos(i)
  PROVE  SideInv'
<1> DEFINE c == reposAsked[i]
<1>1. reposAsked \in Seq(RepoCalls) /\ c \in RepoCalls
  BY DEF SideInv, SideType
<1>2. PICK a \in {ListRepos(c.owner)} \cup Failures :
        reposAsked' = [reposAsked EXCEPT ![i].answer = a]
  BY DEF ServeRepos
<1>3. UNCHANGED <<table, filter, owners, repos, reposMixed>>
  BY DEF ServeRepos, filterVars
<1>4. a \in (SUBSET Repos) \cup {Failed} /\ (a # Failed => a = ListRepos(c.owner))
  BY <1>2 DEF Failures, ListRepos, Repos
<1> DEFINE d == [c EXCEPT !.answer = a]
<1>5. d \in RepoCalls /\ d.answer = a /\ d.owner = c.owner /\ d.crossed = c.crossed
  BY <1>1, <1>4 DEF RepoCalls
<1>6. /\ DOMAIN reposAsked' = DOMAIN reposAsked /\ Len(reposAsked') = Len(reposAsked)
      /\ reposAsked' \in Seq(RepoCalls)
      /\ reposAsked'[i] = d
      /\ \A j \in DOMAIN reposAsked : j # i => reposAsked'[j] = reposAsked[j]
  <2>1. reposAsked' = [reposAsked EXCEPT ![i] = d]
    BY <1>2
  <2> HIDE DEF d
  <2> QED BY <1>1, <1>5, <2>1
<1> HIDE DEF c, d
<1>7. \A j \in DOMAIN reposAsked : /\ reposAsked'[j].owner = reposAsked[j].owner
                                   /\ reposAsked'[j].crossed = reposAsked[j].crossed
  BY <1>5, <1>6 DEF c
<1>8. reposAsked' # <<>> /\ reposAsked # <<>> /\ Len(reposAsked) \in DOMAIN reposAsked
  BY <1>1, <1>6
<1>9. SideType' /\ LastOwner' /\ ReposOfOwner'
  BY <1>3, <1>6, <1>7, <1>8 DEF SideInv, SideType, LastOwner, ReposOfOwner
<1>10. ReposFit'
  <2> SUFFICES ASSUME NEW j \in DOMAIN reposAsked, Answered(reposAsked[j])'
               PROVE  (reposAsked[j].answer \subseteq ListRepos(reposAsked[j].owner))'
    BY <1>6 DEF ReposFit
  <2>1. ListRepos(reposAsked[j].owner)' = ListRepos(reposAsked[j].owner)
    BY <1>3, <1>7 DEF ListRepos
  <2>2. CASE j = i
    <3>1. a # Failed
      BY <1>5, <1>6, <2>2 DEF Answered
    <3> QED BY <1>4, <1>5, <1>6, <2>1, <2>2, <3>1 DEF c
  <2>3. CASE j # i
    BY <1>6, <2>1, <2>3 DEF SideInv, ReposFit, Answered
  <2> QED BY <2>2, <2>3
<1> QED BY <1>9, <1>10 DEF SideInv

LEMMA ArriveReposKeepsSide ==
  ASSUME SideInv, NEW i \in DOMAIN reposAsked, ArriveRepos(i)
  PROVE  SideInv'
<1> DEFINE c == reposAsked[i]
           n == Len(reposAsked)
<1>1. /\ reposAsked \in Seq(RepoCalls) /\ c \in RepoCalls /\ n \in Nat /\ i \in 1..n
      /\ DOMAIN reposAsked = 1..n
  BY DEF SideInv, SideType
<1>2. /\ reposAsked' = RemoveAt(Overtaken(reposAsked, i), i)
      /\ UNCHANGED <<table, filter, owners>>
      /\ c.answer # None
  BY DEF ArriveRepos, filterVars
<1>3. /\ reposAsked' \in Seq(RepoCalls) /\ DOMAIN reposAsked' = 1..n - 1
      /\ Len(reposAsked') = n - 1
      /\ \A j \in 1..n - 1 :
            reposAsked'[j] = IF j < i THEN [reposAsked[j] EXCEPT !.crossed = TRUE]
                             ELSE reposAsked[j + 1]
  <2>1. \A d \in RepoCalls : [d EXCEPT !.crossed = TRUE] \in RepoCalls
    BY CallsCross
  <2> QED BY <1>1, <1>2, <2>1, ArrivalIs
<1>4. \/ c.answer # Failed /\ repos' = c.answer /\ reposMixed' = c.crossed
      \/ c.answer = Failed /\ reposMixed' = TRUE /\ repos' = repos
  BY DEF ArriveRepos
<1>5. c.answer \in (SUBSET Repos) \cup {None, Failed} /\ c.crossed \in BOOLEAN
  BY <1>1 DEF RepoCalls
<1> HIDE DEF c, n
<1>6. SideType'
  BY <1>2, <1>3, <1>4, <1>5 DEF SideInv, SideType
<1>7. ReposFit'
  <2> SUFFICES ASSUME NEW j \in 1..n - 1, Answered(reposAsked[j])'
               PROVE  (reposAsked[j].answer \subseteq ListRepos(reposAsked[j].owner))'
    BY <1>3 DEF ReposFit
  <2>1. PICK k \in 1..n : /\ reposAsked'[j].answer = reposAsked[k].answer
                          /\ reposAsked'[j].owner = reposAsked[k].owner
    <3>1. CASE j < i
      <4>1. j \in 1..n /\ reposAsked[j] \in RepoCalls
        BY <1>1
      <4> QED BY <1>3, <3>1, <4>1, CallsCross, SMTT(30), ZenonT(30)
    <3>2. CASE ~(j < i)
      <4>1. j + 1 \in 1..n
        BY <1>1
      <4> QED BY <1>3, <3>2, <4>1
    <3> QED BY <3>1, <3>2
  <2>2. ListRepos(reposAsked[j].owner)' = ListRepos(reposAsked[k].owner)
    BY <1>2, <2>1 DEF ListRepos
  <2> QED BY <1>1, <2>1, <2>2 DEF SideInv, ReposFit, Answered
<1>8. LastOwner'
  <2> SUFFICES ASSUME reposAsked' # <<>>, ~reposAsked'[n - 1].crossed
               PROVE  reposAsked'[n - 1].owner = filter.owner
    BY <1>2, <1>3 DEF LastOwner
  <2>1. n - 1 \in 1..n - 1 /\ (n - 1) + 1 = n
    BY <1>1, <1>3
  <2>2. CASE n - 1 < i
    <3>1. reposAsked[n - 1] \in RepoCalls
      BY <1>1, <2>1
    <3> QED BY <1>3, <2>1, <2>2, <3>1, CallsCross
  <2>3. CASE ~(n - 1 < i)
    <3>1. reposAsked'[n - 1] = reposAsked[n] /\ reposAsked # <<>>
      BY <1>1, <1>3, <2>1, <2>3
    <3> QED BY <3>1 DEF SideInv, LastOwner, n
  <2> QED BY <2>2, <2>3
<1>9. ReposOfOwner'
  <2> SUFFICES ASSUME reposAsked' = <<>>, ~reposMixed'
               PROVE  repos' \subseteq ListRepos(filter.owner)
    BY <1>2 DEF ReposOfOwner, ListRepos
  <2>1. n = 1 /\ i = 1 /\ reposAsked # <<>>
    BY <1>1, <1>3
  <2>2. c.answer # Failed /\ repos' = c.answer /\ ~c.crossed
    BY <1>4
  <2>3. c.owner = filter.owner
    BY <2>1, <2>2 DEF SideInv, LastOwner, n, c
  <2> QED BY <1>1, <1>2, <2>2, <2>3 DEF SideInv, ReposFit, Answered, c
<1> QED BY <1>6, <1>7, <1>8, <1>9 DEF SideInv

-----------------------------------------------------------------------------
(* The whole. *)

BrowseInv == ViewInv /\ SideInv

LEMMA FiltersChange ==
  ASSUME filter \in Filters
  PROVE  /\ \A o \in OwnerChoices :
               [filter EXCEPT !.owner = o, !.repo = ""] \in Filters
         /\ \A r \in Repos \cup {""} :
               LET f == [filter EXCEPT !.repo = r]
               IN f \in Filters /\ f.owner = filter.owner
         /\ \A t \in Types \cup {""} :
               LET f == [filter EXCEPT !.type = t]
               IN f \in Filters /\ f.owner = filter.owner
         /\ \A from, to \in Int :
               LET f == [filter EXCEPT !.from = from, !.to = to]
               IN f \in Filters /\ f.owner = filter.owner
BY DEF Filters

LEMMA BrowseStep == BrowseInv /\ [BrowseNext]_browseVars => BrowseInv'
<1> SUFFICES ASSUME BrowseInv, [BrowseNext]_browseVars
             PROVE  BrowseInv'
  OBVIOUS
<1>1. ViewInv /\ SideInv /\ filter \in Filters /\ table \in SUBSET Rows
  BY DEF BrowseInv, ViewInv, ViewType
<1>2. CASE UNCHANGED browseVars
  <2>1. ViewInv'
    BY <1>1, <1>2, ViewKept DEF browseVars, filterVars
  <2>2. SideInv'
    BY <1>1, <1>2, SideKept DEF browseVars, filterVars
  <2> QED BY <2>1, <2>2 DEF BrowseInv
<1>3. CASE LoadMore
  <2>1. SideInv'
    BY <1>1, <1>3, SideKept DEF LoadMore, filterVars
  <2> QED BY <1>1, <1>3, <2>1, LoadMoreKeeps DEF BrowseInv
<1>4. CASE LoadOwners
  <2>1. ViewInv'
    BY <1>1, <1>4, ViewKept DEF LoadOwners, filterVars
  <2>2. UNCHANGED <<table, filter, repos, reposAsked, reposMixed>>
        /\ owners' \in {ListOwners, {}}
    BY <1>4 DEF LoadOwners, filterVars
  <2>3. owners' \subseteq Owners
    BY <1>1, <2>2 DEF ListOwners, Owners
  <2>4. SideType' /\ LastOwner'
    BY <1>1, <2>2, <2>3 DEF SideInv, SideType, LastOwner
  <2>5. ReposFit' /\ ReposOfOwner'
    <3>1. \A i \in DOMAIN reposAsked :
            ListRepos(reposAsked[i].owner)' = ListRepos(reposAsked[i].owner)
      BY <2>2 DEF ListRepos
    <3>2. ListRepos(filter.owner)' = ListRepos(filter.owner)
      BY <2>2 DEF ListRepos
    <3> QED BY <1>1, <2>2, <3>1, <3>2 DEF SideInv, ReposFit, ReposOfOwner, Answered
  <2> QED BY <2>1, <2>4, <2>5 DEF BrowseInv, SideInv
<1>5. ASSUME owners # None, NEW o \in owners \cup {""}, SetOwner(o)
      PROVE  BrowseInv'
  <2>1. o \in OwnerChoices
    BY <1>1, <1>5 DEF SideInv, SideType, OwnerChoices
  <2>2. [filter EXCEPT !.owner = o, !.repo = ""] \in Filters
    BY <1>1, <2>1, FiltersChange
  <2>3. ViewInv'
    BY <1>1, <1>5, <2>2, ReloadKeeps DEF SetOwner
  <2> QED BY <1>1, <1>5, <2>1, <2>3, SetOwnerKeepsSide DEF BrowseInv
\* A reload for a filter of the same owner.
<1>6. ASSUME NEW f \in Filters, f.owner = filter.owner, ReloadTimeline(f),
             table' = table, UNCHANGED sideVars
      PROVE  BrowseInv'
  <2>1. ViewInv'
    BY <1>1, <1>6, ReloadKeeps
  <2>2. filter' = f
    BY <1>6 DEF ReloadTimeline
  <2> QED BY <1>1, <1>6, <2>1, <2>2, SideKept DEF BrowseInv
<1>7. ASSUME NEW r \in repos \cup {""}, SetRepo(r) PROVE BrowseInv'
  <2>1. r \in Repos \cup {""}
    BY <1>1 DEF SideInv, SideType
  <2> QED BY <1>1, <1>6, <1>7, <2>1, FiltersChange DEF SetRepo
<1>8. ASSUME NEW t \in Types \cup {""}, SetType(t) PROVE BrowseInv'
  BY <1>1, <1>6, <1>8, FiltersChange DEF SetType
<1>9. ASSUME NEW R \in Ranges, SetRange(R[1], R[2]) PROVE BrowseInv'
  <2>1. R[1] \in Int /\ R[2] \in Int
    BY BrowseAssumption
  <2> QED BY <1>1, <1>6, <1>9, <2>1, FiltersChange DEF SetRange
<1>10. ASSUME NEW i \in DOMAIN asked, ServeTimeline(i) PROVE BrowseInv'
  <2>1. SideInv'
    BY <1>1, <1>10, SideKept DEF ServeTimeline, filterVars
  <2> QED BY <1>1, <1>10, <2>1, ServeKeeps DEF BrowseInv
<1>11. ASSUME NEW i \in DOMAIN asked, ArriveTimeline(i) PROVE BrowseInv'
  <2>1. SideInv'
    BY <1>1, <1>11, SideKept DEF ArriveTimeline, filterVars
  <2> QED BY <1>1, <1>11, <2>1, ArriveKeeps DEF BrowseInv
<1>12. ASSUME NEW i \in DOMAIN reposAsked, ServeRepos(i) PROVE BrowseInv'
  <2>1. ViewInv'
    BY <1>1, <1>12, ViewKept DEF ServeRepos, filterVars
  <2> QED BY <1>1, <1>12, <2>1, ServeReposKeepsSide DEF BrowseInv
<1>13. ASSUME NEW i \in DOMAIN reposAsked, ArriveRepos(i) PROVE BrowseInv'
  <2>1. ViewInv'
    BY <1>1, <1>13, ViewKept DEF ArriveRepos, filterVars
  <2> QED BY <1>1, <1>13, <2>1, ArriveReposKeepsSide DEF BrowseInv
<1>14. ASSUME NEW e \in Rows, Store(e) PROVE BrowseInv'
  <2>1. SideInv'
    BY <1>1, <1>14, SideKept DEF Store, filterVars
  <2> QED BY <1>1, <1>14, <2>1, StoreKeeps DEF BrowseInv
<1> QED
  BY <1>2, <1>3, <1>4, <1>5, <1>7, <1>8, <1>9, <1>10, <1>11, <1>12, <1>13, <1>14
     DEF BrowseNext

\* The variables keep their types, and the invariant holds: what is shown, and
\* what each call under way will show, fits what matches now, whatever order
\* the calls are answered in and whatever a sync stores meanwhile.
THEOREM BrowseCorrect == BrowseSpec => []BrowseInv
<1>1. BrowseInit => BrowseInv
  BY ViewInit, SideInit DEF BrowseInv
<1> QED BY <1>1, BrowseStep, PTL DEF BrowseSpec

\* At rest, and unless calls crossed or a reload failed, Timeline.svelte shows
\* the filter's events without a gap, and the beginning of the listing if
\* nothing was stored since page 1 was read.
THEOREM ViewFollows == BrowseSpec => []ViewFollowsListing
<1>1. BrowseInv => ViewFollowsListing
  <2> SUFFICES ASSUME BrowseInv, asked = <<>>, ~mixed
               PROVE  ViewFollowsListing
    BY DEF ViewFollowsListing
  <2>1. ~Renewing
    BY DEF Renewing
  <2>2. ViewOk(Matching(filter), items, page, hasMore, first)
    BY <2>1 DEF BrowseInv, ViewInv, ShownFits
  <2>3. Matching(filter) \in SUBSET Rows
    BY DEF BrowseInv, ViewInv, ViewType, Matching
  <2>4. Len(Listing(filter)) = Cardinality(Matching(filter))
    BY <2>3, ListingIs DEF Listing
  <2>5. FirstOf(page * DefaultPerPage) = Beginning(Matching(filter), page * DefaultPerPage)
    BY <2>4 DEF FirstOf, Beginning, AtMost, Listing
  <2> QED BY <2>2, <2>4, <2>5 DEF ViewFollowsListing, ViewOk
<1> QED BY <1>1, BrowseCorrect, PTL

\* At rest, and unless answers crossed or failed, FilterSidebar.svelte offers
\* the repositories of the owner that is chosen, and none without one.
THEOREM SidebarFollows == BrowseSpec => []ReposOfOwner
<1>1. BrowseInv => ReposOfOwner
  BY DEF BrowseInv, SideInv
<1> QED BY <1>1, BrowseCorrect, PTL

-----------------------------------------------------------------------------
(* The pages of an agent. *)

LEMMA ToolSize ==
  ASSUME NEW n \in Int
  PROVE  ToolPerPage(n) \in Nat \ {0} /\ ToolPerPage(n) =< MaxPerPage
<1>1. DefaultPerPage \in 1..MaxPerPage /\ MaxPerPage \in Nat
  BY BrowseAssumption
<1> QED BY <1>1 DEF ToolPerPage, ResolvePerPage

LEMMA ToolPageIs ==
  ASSUME table \in SUBSET Rows, NEW n \in Int, NEW p \in Nat \ {0}
  PROVE  LET M == Matching(filter)
             a == ToolQueryTimeline(filter, p, n)
             per == ToolPerPage(n)
         IN /\ p * per \in Nat /\ (p - 1) * per \in Nat
            /\ p * per = (p - 1) * per + per
            /\ a.rows = SubSeq(NewestFirst(M), (p - 1) * per + 1,
                               AtMost(p * per, Cardinality(M)))
            /\ a.hasMore = (Cardinality(M) > p * per)
<1> DEFINE M == Matching(filter)
           per == ToolPerPage(n)
           a == ToolQueryTimeline(filter, p, n)
           lo == (p - 1) * per
           rows == SubSeq(NewestFirst(M), lo + 1, AtMost(lo + per, Cardinality(M)))
<1>1. per \in Nat \ {0}
  BY ToolSize
<1>2. a = QueryTimeline(filter, p - 1, per)
  BY DEF ToolQueryTimeline, ResolvePage
<1> HIDE DEF per
<1>3. p - 1 \in Nat /\ p * per \in Nat /\ lo \in Nat /\ p * per = lo + per
  BY <1>1
<1>4. a = [rows |-> rows, hasMore |-> Cardinality(M) > lo + per]
  BY <1>1, <1>2, <1>3, PageIs
<1> HIDE DEF a, lo, rows
<1>5. a.rows = rows /\ a.hasMore = (Cardinality(M) > lo + per)
  BY <1>4
<1> HIDE DEF M
<1> QED BY <1>3, <1>5 DEF a, lo, rows, M, per

\* At rest, an agent that asks for page after page (mcp query_timeline) gets
\* the listing, whatever size it asks for, and no page is over the limit.
THEOREM PagesJoinAlways == BrowseSpec => []PagesJoin
<1>1. BrowseInv => PagesJoin
  <2> DEFINE M == Matching(filter)
             L == Listing(filter)
             N == Cardinality(M)
             Page(p, n) == ToolQueryTimeline(filter, p, n)
             got(n) == [p \in 1..Len(L) + 1 |-> Page(p, n)]
             IsLast(p, n) == ~got(n)[p].hasMore /\ \A q \in 1..p - 1 : got(n)[q].hasMore
             last(n) == CHOOSE p \in DOMAIN got(n) : IsLast(p, n)
  <2> SUFFICES ASSUME BrowseInv, NEW n \in RawSizes
               PROVE  /\ FlattenSeq([p \in 1..last(n) |-> got(n)[p].rows]) = L
                      /\ \A p \in RawPages : /\ Len(Page(p, n).rows) =< MaxPerPage
                                             /\ p < 1 => Page(p, n) = got(n)[1]
    BY DEF PagesJoin
  <2> DEFINE per == ToolPerPage(n)
             all == got(n)
             z == last(n)
             rows == [p \in 1..z |-> all[p].rows]
             g == [p \in 1..z |-> Beginning(M, p * per)]
  <2>1. table \in SUBSET Rows /\ M \in SUBSET Rows /\ n \in Int
    BY BrowseAssumption DEF BrowseInv, ViewInv, ViewType, Matching
  <2>2. L \in Seq(M) /\ Len(L) = N /\ N \in Nat /\ L = NewestFirst(M)
    BY <2>1, ListingIs DEF Listing
  <2>3. per \in Nat \ {0} /\ per =< MaxPerPage
    BY <2>1, ToolSize
  <2>4. ASSUME NEW p \in Nat \ {0}
        PROVE  /\ p * per \in Nat /\ (p - 1) * per \in Nat
               /\ p * per = (p - 1) * per + per
               /\ Page(p, n).rows = SubSeq(L, (p - 1) * per + 1, AtMost(p * per, N))
               /\ Page(p, n).hasMore = (N > p * per)
    BY <2>1, <2>2, ToolPageIs
  <2>5. DOMAIN all = 1..N + 1 /\ \A p \in 1..N + 1 : all[p] = Page(p, n)
    BY <2>2
  <2> HIDE DEF M, L, N, per, all, Page, got
  \* The pages end.
  <2>6. z \in 1..N + 1 /\ ~all[z].hasMore /\ \A q \in 1..z - 1 : all[q].hasMore
    <3> DEFINE T == {p \in 1..N + 1 : ~all[p].hasMore}
    <3>1. N + 1 \in T
      <4>1. N + 1 \in Nat \ {0} /\ N + 1 \in 1..N + 1
        BY <2>2
      <4>2. all[N + 1].hasMore = (N > (N + 1) * per)
        BY <2>4, <2>5, <4>1
      <4>3. ~(N > (N + 1) * per)
        BY <2>2, <2>3
      <4> QED BY <4>1, <4>2, <4>3
    <3>2. T \in SUBSET Nat /\ T # {}
      BY <2>2, <3>1
    <3>3. PICK x \in T : \A y \in T : x =< y
      BY <3>2, LeastElement
    <3>4. x \in 1..N + 1 /\ ~all[x].hasMore
      OBVIOUS
    <3>5. \A q \in 1..x - 1 : all[q].hasMore
      <4> SUFFICES ASSUME NEW q \in 1..x - 1, ~all[q].hasMore PROVE FALSE
        OBVIOUS
      <4>1. q \in T
        BY <2>2, <3>4
      <4>2. x =< q
        BY <3>3, <4>1
      <4> QED BY <2>2, <3>4, <4>2
    <3>6. x \in DOMAIN all /\ IsLast(x, n)
      BY <2>5, <3>4, <3>5 DEF all
    <3>7. z = CHOOSE p \in DOMAIN all : IsLast(p, n)
      BY DEF all
    <3> HIDE DEF IsLast, z
    <3>8. z \in DOMAIN all /\ IsLast(z, n)
      BY <3>6, <3>7
    <3> QED BY <2>5, <3>8 DEF IsLast, all
  <2> HIDE DEF z
  <2>7. z \in Nat \ {0} /\ \A p \in 1..z : p \in 1..N + 1 /\ p \in Nat \ {0}
    BY <2>2, <2>6
  <2>8. \A p \in 1..z : all[p].rows = SubSeq(L, (p - 1) * per + 1, AtMost(p * per, N))
    BY <2>4, <2>5, <2>7
  <2>9. \A p \in 1..z : Beginning(M, p * per) = SubSeq(L, 1, AtMost(p * per, N))
    BY <2>2 DEF Beginning, N
  <2>10. ASSUME NEW p \in 1..z, p # 1
         PROVE  Beginning(M, p * per) = Beginning(M, (p - 1) * per) \o all[p].rows
    <3>1. p - 1 \in 1..z /\ p - 1 \in 1..z - 1 /\ p - 1 \in 1..N + 1 /\ p - 1 \in Nat \ {0}
      <4>1. z \in Nat /\ p \in Nat /\ 1 =< p /\ p =< z /\ p # 1
        BY <2>7, <2>10
      <4>2. p - 1 \in 1..z /\ p - 1 \in 1..z - 1 /\ p - 1 \in Nat \ {0}
        BY <4>1
      <4> QED BY <2>7, <4>2
    <3>2. /\ (p - 1) * per \in Nat /\ p * per \in Nat
          /\ p * per = (p - 1) * per + per
      BY <2>4, <2>7
    <3>3. N > (p - 1) * per
      <4>1. all[p - 1].hasMore /\ all[p - 1].hasMore = (N > (p - 1) * per)
        BY <2>4, <2>5, <2>6, <3>1
      <4> QED BY <4>1, Zenon
    <3> DEFINE lo == (p - 1) * per
               hi == p * per
    <3>4. AtMost(lo, N) = lo /\ AtMost(hi, N) \in lo..N
      BY <2>2, <2>3, <3>2, <3>3 DEF AtMost
    <3>5. SubSeq(L, 1, lo) \o SubSeq(L, lo + 1, AtMost(hi, N)) = SubSeq(L, 1, AtMost(hi, N))
      <4>1. 1 \in 1..Len(L) + 1 /\ lo \in 1 - 1 .. Len(L) /\ AtMost(hi, N) \in lo..Len(L)
        BY <2>2, <3>2, <3>3, <3>4
      <4> HIDE DEF lo, hi
      <4> QED BY <2>2, <4>1, ConcatAdjacentSubSeq
    <3> QED BY <2>8, <2>9, <3>1, <3>4, <3>5
  <2>11. Beginning(M, 1 * per) = all[1].rows
    <3>1. 1 \in 1..z /\ (1 - 1) * per + 1 = 1
      BY <2>3, <2>7
    <3> QED BY <2>8, <2>9, <3>1
  <2>12. \A p \in 1..z : g[p] = IF p = 1 THEN rows[p] ELSE g[p - 1] \o rows[p]
    <3> SUFFICES ASSUME NEW p \in 1..z
                 PROVE  Beginning(M, p * per)
                          = IF p = 1 THEN rows[p] ELSE g[p - 1] \o rows[p]
      OBVIOUS
    <3>1. p # 1 => p - 1 \in 1..z
      BY <2>7
    <3> QED BY <2>10, <2>11, <3>1
  <2>13. FlattenSeq(rows) = g[z]
    <3>1. Len(rows) = z
      BY <2>7
    <3> HIDE DEF rows, g
    <3>2. Flattens(g, rows, z)
      BY <2>12 DEF Flattens
    <3> QED BY <2>7, <3>1, <3>2, FlattenSeqIs
  <2>14. g[z] = L
    <3>1. z \in 1..z /\ z \in Nat \ {0} /\ z \in 1..N + 1
      BY <2>7
    <3>2. AtMost(z * per, N) = N
      <4>1. ~(N > z * per)
        <5>1. all[z].hasMore = (N > z * per)
          BY <2>4, <2>5, <3>1
        <5> QED BY <2>6, <5>1, Zenon
      <4> QED BY <2>2, <2>4, <3>1, <4>1 DEF AtMost
    <3>3. SubSeq(L, 1, N) = L
      BY <2>2
    <3> QED BY <2>9, <3>1, <3>2, <3>3
  <2>15. ASSUME NEW p \in RawPages
         PROVE  /\ Len(Page(p, n).rows) =< MaxPerPage
                /\ p < 1 => Page(p, n) = all[1]
    <3>1. p \in Int
      BY BrowseAssumption
    <3>2. ResolvePage(p) \in Nat /\ (p < 1 => ResolvePage(p) = ResolvePage(1))
      BY <3>1 DEF ResolvePage
    <3>3. Page(p, n) = QueryTimeline(filter, ResolvePage(p), per)
      BY DEF Page, ToolQueryTimeline, per
    <3>4. Len(Page(p, n).rows) =< per
      BY <2>1, <2>3, <3>2, <3>3, PageIs
    <3>5. Len(Page(p, n).rows) =< MaxPerPage
      <4>1. Page(p, n).rows \in Seq(M)
        BY <2>1, <2>3, <3>2, <3>3, PageIs DEF M
      <4>2. Len(Page(p, n).rows) \in Nat /\ MaxPerPage \in Nat
        BY <4>1, BrowseAssumption
      <4> QED BY <2>3, <3>4, <4>2
    <3>6. p < 1 => Page(p, n) = Page(1, n)
      BY <3>2 DEF Page, ToolQueryTimeline
    <3>7. 1 \in 1..N + 1
      BY <2>2
    <3> QED BY <2>5, <3>5, <3>6, <3>7
  <2> QED BY <2>13, <2>14, <2>15 DEF all, z, L
<1> QED BY <1>1, BrowseCorrect, PTL

=============================================================================
