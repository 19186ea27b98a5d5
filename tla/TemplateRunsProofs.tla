------------------------- MODULE TemplateRunsProofs -------------------------
(***************************************************************************)
(* Theorems about TemplateRuns for every number of requests, editors and   *)
(* processes that start, every set of events, every listing of them, every *)
(* filter, pipeline and page size: what a request reads, what it describes *)
(* and keeps, and what becomes of the built-in templates.                  *)
(*                                                                         *)
(* The argument for reading.  The rank of a row in the listing only grows  *)
(* while rows are stored.  So the rows of rank below the next offset have  *)
(* been read, if not on this page then when they still had a lower rank.   *)
(* And ranks leave no gap, so a page that is not followed by a row ends    *)
(* the listing.  This part is about TimelineReads; below it is carried     *)
(* over to a request of TemplateRuns, which does more than read.           *)
(*                                                                         *)
(* The argument for response schemas.  While a request is on its way, the  *)
(* model that is set is one of those that were set since it began; so are  *)
(* the one it asks and the one whose support for schemas it looks up.      *)
(***************************************************************************)
EXTENDS TemplateRuns, DataLemmas

USE TimelineAssumption

-----------------------------------------------------------------------------
(* Ranks. *)

LEMMA FiniteSubset ==
  ASSUME NEW S \in SUBSET Events
  PROVE  IsFiniteSet(S) /\ Cardinality(S) \in Nat
  BY FS_Subset, FS_CardinalityType

LEMMA RankType ==
  ASSUME NEW S \in SUBSET Events, NEW e \in Events
  PROVE  Rank(e, S) \in Nat
<1>1. {f \in S : Position[f] < Position[e]} \in SUBSET Events
  OBVIOUS
<1>2. QED
  BY <1>1, FiniteSubset DEF Rank

\* Rows that are stored later only push a row down the listing.
LEMMA RankGrows ==
  ASSUME NEW S \in SUBSET Events, NEW T \in SUBSET Events, S \subseteq T,
         NEW e \in Events
  PROVE  Rank(e, S) =< Rank(e, T)
<1> DEFINE A == {f \in S : Position[f] < Position[e]}
           B == {f \in T : Position[f] < Position[e]}
<1>1. A \in SUBSET B /\ B \in SUBSET Events
  OBVIOUS
<1>2. Cardinality(A) =< Cardinality(B)
  <2>1. IsFiniteSet(B)
    BY <1>1, FiniteSubset
  <2>2. QED
    BY <1>1, <2>1, FS_Subset
<1>3. QED
  BY <1>2 DEF Rank

LEMMA RankBelow ==
  ASSUME NEW S \in SUBSET Events, NEW e \in S
  PROVE  Rank(e, S) < Cardinality(S)
<1> DEFINE A == {f \in S : Position[f] < Position[e]}
<1>1. IsFiniteSet(S) /\ Cardinality(S) \in Nat
  BY FiniteSubset
<1>2. A \in SUBSET (S \ {e})
  OBVIOUS
<1>3. IsFiniteSet(S \ {e}) /\ Cardinality(S \ {e}) = Cardinality(S) - 1
  BY <1>1, FS_RemoveElement
<1>4. Cardinality(A) =< Cardinality(S \ {e})
  BY <1>2, <1>3, FS_Subset
<1>5. Cardinality(A) \in Nat
  BY FiniteSubset, A \in SUBSET Events
<1>6. QED
  BY <1>1, <1>3, <1>4, <1>5 DEF Rank

LEMMA RankIncreases ==
  ASSUME NEW S \in SUBSET Events, NEW e \in S, NEW f \in S,
         Position[e] < Position[f]
  PROVE  Rank(e, S) < Rank(f, S)
<1> DEFINE A == {g \in S : Position[g] < Position[e]}
           B == {g \in S : Position[g] < Position[f]}
<1>1. A \in SUBSET (B \ {e}) /\ e \in B /\ B \in SUBSET Events
  OBVIOUS
<1>2. IsFiniteSet(B) /\ Cardinality(B) \in Nat
  BY <1>1, FiniteSubset
<1>3. IsFiniteSet(B \ {e}) /\ Cardinality(B \ {e}) = Cardinality(B) - 1
  BY <1>1, <1>2, FS_RemoveElement, SMTT(30), ZenonT(30)
<1>4. Cardinality(A) =< Cardinality(B \ {e})
  BY <1>1, <1>3, FS_Subset
<1>5. Cardinality(A) \in Nat
  BY FiniteSubset, A \in SUBSET Events
<1>6. QED
  BY <1>2, <1>3, <1>4, <1>5 DEF Rank

LEMMA RankInjective ==
  ASSUME NEW S \in SUBSET Events, NEW e \in S, NEW f \in S,
         Rank(e, S) = Rank(f, S)
  PROVE  e = f
<1>1. Rank(e, S) \in Nat /\ Rank(f, S) \in Nat
  BY RankType
<1>2. ~(Position[e] < Position[f]) /\ ~(Position[f] < Position[e])
  BY <1>1, RankIncreases
<1>3. Position[e] \in Nat /\ Position[f] \in Nat
  OBVIOUS
<1>4. QED
  BY <1>2, <1>3

\* Every number below the size of a listing is the rank of one of its rows.
LEMMA RanksFill ==
  ASSUME NEW S \in SUBSET Events, NEW n \in Nat, n < Cardinality(S)
  PROVE  \E e \in S : Rank(e, S) = n
<1> DEFINE T == 0 .. (Cardinality(S) - 1)
           f == [e \in S |-> Rank(e, S)]
<1>1. IsFiniteSet(S) /\ Cardinality(S) \in Nat
  BY FiniteSubset
<1>2. f \in [S -> T]
  BY <1>1, RankType, RankBelow
<1>3. f \in Injection(S, T)
  <2>1. \A a, b \in S : f[a] = f[b] => a = b
    BY RankInjective
  <2>2. QED
    BY <1>2, <2>1, Fun_IsInj
<1>4. IsFiniteSet(T) /\ Cardinality(T) = Cardinality(S)
  <2>1. 0 \in Int /\ Cardinality(S) - 1 \in Int
    BY <1>1
  <2>2. /\ IsFiniteSet(T)
        /\ Cardinality(T) = IF 0 > Cardinality(S) - 1 THEN 0
                            ELSE (Cardinality(S) - 1) - 0 + 1
    <3> HIDE DEF f
    <3>1. QED
      BY <2>1, FS_Interval
  <2>3. QED
    BY <1>1, <2>2
<1>5. f \in Surjection(S, T)
  BY <1>3, <1>4, FS_Injection
<1>6. n \in T
  BY <1>1
<1>7. PICK e \in S : f[e] = n
  <2> HIDE DEF T, f
  <2>1. QED
    BY <1>5, <1>6, Fun_SurjectionProperties
<1>8. QED
  BY <1>7

\* A page that is not followed by a row ends the listing.
LEMMA LastPage ==
  ASSUME table \in SUBSET Events, NEW F, NEW k \in Nat, ~HasMore(F, k),
         NEW e \in table \cap F
  PROVE  Rank(e, table \cap F) < k * PerPage + PerPage
<1> DEFINE S == table \cap F
           from == k * PerPage
           I == from .. (from + PerPage)
           f == [x \in Fetched(F, k) |-> Rank(x, S)]
<1> HIDE DEF S
<1>1. S \in SUBSET Events /\ e \in S
  BY DEF S
<1>2. from \in Nat
  OBVIOUS
<1> HIDE DEF from
<1> SUFFICES ASSUME Rank(e, S) >= from + PerPage
             PROVE  FALSE
  BY <1>1, <1>2, RankType DEF S, from
<1>3. Cardinality(S) \in Nat /\ from + PerPage < Cardinality(S)
  BY <1>1, <1>2, RankBelow, RankType, FiniteSubset
<1>4. Fetched(F, k) = {x \in S : from =< Rank(x, S)
                                 /\ Rank(x, S) < from + (PerPage + 1)}
  BY DEF Fetched, S, from
<1>5. f \in [Fetched(F, k) -> I]
  BY <1>1, <1>2, <1>4, RankType
<1>6. f \in Injection(Fetched(F, k), I)
  <2>1. \A a, b \in Fetched(F, k) : f[a] = f[b] => a = b
    BY <1>1, <1>4, RankInjective
  <2>2. QED
    BY <1>5, <2>1, Fun_IsInj
<1>7. f \in Surjection(Fetched(F, k), I)
  <2>1. ASSUME NEW n \in I PROVE \E x \in Fetched(F, k) : f[x] = n
    <3>1. n \in Nat /\ from =< n /\ n < from + (PerPage + 1) /\ n < Cardinality(S)
      BY <1>2, <1>3
    <3>2. PICK x \in S : Rank(x, S) = n
      BY <1>1, <3>1, RanksFill
    <3>3. QED
      BY <1>4, <3>1, <3>2
  <2>2. QED
    BY <1>5, <2>1, Fun_IsSurj
<1>8. IsFiniteSet(I) /\ Cardinality(I) = PerPage + 1
  <2>1. from \in Int /\ from + PerPage \in Int /\ PerPage \in Nat
    BY <1>2
  <2>2. /\ IsFiniteSet(I)
        /\ Cardinality(I) = IF from > from + PerPage THEN 0
                            ELSE (from + PerPage) - from + 1
    <3> HIDE DEF f
    <3>1. QED
      BY <2>1, FS_Interval
  <2>3. QED
    BY <2>1, <2>2
<1>9. Cardinality(Fetched(F, k)) = PerPage + 1
  BY <1>6, <1>7, <1>8, FS_Injection
<1>10. QED
  BY <1>9 DEF HasMore

-----------------------------------------------------------------------------
(* The invariant of a reading. *)

Listed(r) == table \cap filter[r]

\* The offset of the next page: rows of a lower rank have been passed.
Offset(r) == page[r] * PerPage

ReadTypeInv ==
    /\ table \in SUBSET Events
    /\ at = [r \in Requests |-> at[r]]
    /\ filter \in [Requests -> SUBSET Events]
    /\ page \in [Requests -> Nat]
    /\ reads \in [Requests -> Seq(SUBSET Events)]
    /\ before \in [Requests -> SUBSET Events]
    /\ grew \in [Requests -> BOOLEAN]

NotBegun(r) ==
    /\ page[r] = 0
    /\ reads[r] = <<>>
    /\ ~grew[r]

PassedRowsRead(r) ==
    /\ before[r] \subseteq Listed(r)
    /\ \A e \in before[r] : Rank(e, Listed(r)) < Offset(r) => e \in Got(r)

\* The pages got are those of a listing that does not change.
Paged(r) ==
    \A i \in DOMAIN reads[r] : \A e \in Events :
        e \in reads[r][i] <=> /\ e \in before[r]
                              /\ (i - 1) * PerPage =< Rank(e, before[r])
                              /\ Rank(e, before[r]) < (i - 1) * PerPage + PerPage

PassedRowsOnce(r) == Listed(r) = before[r] /\ Paged(r)

\* Each page after the one before.
PagesAscend(r) ==
    \A i, j \in DOMAIN reads[r] : i < j =>
        \A e \in reads[r][i], f \in reads[r][j] : Position[e] < Position[f]

ReadingInv(r) ==
    /\ at[r] = "idle" => NotBegun(r)
    /\ at[r] = "reading" => /\ Len(reads[r]) = page[r]
                            /\ PassedRowsRead(r)
                            /\ ~grew[r] => PassedRowsOnce(r)
    /\ at[r] = "read" => /\ before[r] \subseteq Got(r)
                         /\ ~grew[r] => Got(r) = before[r] /\ PagesAscend(r)

ReadsInv == ReadTypeInv /\ \A r \in Requests : ReadingInv(r)

LEMMA InitReadsInv == ASSUME ReadsInit PROVE ReadsInv
<1>1. ReadTypeInv
  <2>1. /\ table \in SUBSET Events /\ at = [r \in Requests |-> at[r]]
        /\ page \in [Requests -> Nat] /\ grew \in [Requests -> BOOLEAN]
    BY DEF ReadsInit
  <2>2. filter \in [Requests -> SUBSET Events] /\ before \in [Requests -> SUBSET Events]
    BY {} \in SUBSET Events DEF ReadsInit
  <2>3. reads \in [Requests -> Seq(SUBSET Events)]
    BY DEF ReadsInit
  <2>4. QED
    BY <2>1, <2>2, <2>3 DEF ReadTypeInv
<1>2. ASSUME NEW r \in Requests PROVE ReadingInv(r)
  <2>1. at[r] = "idle" /\ NotBegun(r)
    BY DEF ReadsInit, NotBegun
  <2>2. QED
    BY <2>1 DEF ReadingInv
<1>3. QED
  BY <1>1, <1>2 DEF ReadsInv

LEMMA ReadsInvImplies == ReadsInv => NothingMissed /\ SnapshotIfQuiet
  BY DEF ReadsInv, ReadingInv, PagesAscend, NothingMissed, SnapshotIfQuiet

\* A step that leaves alone everything of a reading keeps its invariant.
LEMMA SameReading ==
  ASSUME NEW r \in Requests, ReadingInv(r),
         table' = table, at'[r] = at[r], filter'[r] = filter[r],
         page'[r] = page[r], reads'[r] = reads[r], before'[r] = before[r],
         grew'[r] = grew[r]
  PROVE  ReadingInv(r)'
<1>1. Listed(r)' = Listed(r) /\ Offset(r)' = Offset(r) /\ Got(r)' = Got(r)
  BY DEF Listed, Offset, Got
<1>2. NotBegun(r)' = NotBegun(r)
  BY DEF NotBegun
<1>3. PassedRowsRead(r)' = PassedRowsRead(r)
  BY <1>1 DEF PassedRowsRead
<1>4. Paged(r)' = Paged(r) /\ PagesAscend(r)' = PagesAscend(r)
  BY DEF Paged, PagesAscend
<1>5. PassedRowsOnce(r)' = PassedRowsOnce(r)
  BY <1>1, <1>4 DEF PassedRowsOnce
<1>6. QED
  BY <1>1, <1>2, <1>3, <1>4, <1>5 DEF ReadingInv

LEMMA StartReadKeeps ==
  ASSUME ReadsInv, NEW r \in Requests, NEW F \in Filters, StartRead(r, F)
  PROVE  ReadsInv'
<1> USE DEF ReadsInv, StartRead
<1>1. ReadTypeInv'
  <2>1. F \in SUBSET Events /\ table \cap F \in SUBSET Events
    OBVIOUS
  <2>2. QED
    BY <2>1 DEF ReadTypeInv
<1>2. ASSUME NEW q \in Requests, q # r PROVE ReadingInv(q)'
  <2>1. at'[q] = at[q] /\ filter'[q] = filter[q] /\ before'[q] = before[q]
    BY <1>2 DEF ReadTypeInv
  <2>2. QED
    BY <2>1, SameReading
<1>3. ReadingInv(r)'
  <2>1. at'[r] = "reading" /\ page'[r] = 0 /\ ~grew'[r]
    BY DEF ReadTypeInv, ReadingInv, NotBegun
  <2>2. Listed(r)' = table \cap F /\ before'[r] = table \cap F
    BY DEF ReadTypeInv, Listed
  <2>3. Offset(r)' = 0
    BY <2>1 DEF Offset
  <2>4. \A e \in Events : ~(Rank(e, table \cap F) < 0)
    <3>1. table \cap F \in SUBSET Events
      BY DEF ReadTypeInv
    <3>2. ASSUME NEW e \in Events PROVE ~(Rank(e, table \cap F) < 0)
      <4>1. Rank(e, table \cap F) \in Nat
        BY <3>1, RankType
      <4>2. QED
        BY <4>1
    <3>3. QED
      BY <3>2
  <2>5. PassedRowsRead(r)'
    <3>1. table' = table /\ table \in SUBSET Events
      BY DEF ReadTypeInv
    <3>2. QED
      BY <2>2, <2>3, <2>4, <3>1 DEF PassedRowsRead
  <2>6. PassedRowsOnce(r)'
    <3>1. DOMAIN reads'[r] = {}
      BY DEF ReadingInv, NotBegun
    <3>2. QED
      BY <2>2, <3>1 DEF PassedRowsOnce, Paged
  <2>7. Len(reads'[r]) = page'[r]
    BY <2>1 DEF ReadingInv, NotBegun
  <2>8. QED
    BY <2>1, <2>5, <2>6, <2>7 DEF ReadingInv
<1>4. QED
  BY <1>1, <1>2, <1>3

\* A page is the rows from one offset up to the next.
LEMMA PageRows ==
  ASSUME table \in SUBSET Events, NEW F, NEW k \in Nat
  PROVE  /\ k * PerPage \in Nat
         /\ (k + 1) * PerPage = k * PerPage + PerPage
         /\ \A e \in Events :
              e \in Page(F, k) <=>
                  /\ e \in table \cap F
                  /\ k * PerPage =< Rank(e, table \cap F)
                  /\ Rank(e, table \cap F) < k * PerPage + PerPage
<1>1. k * PerPage \in Nat /\ (k + 1) * PerPage = k * PerPage + PerPage
  OBVIOUS
<1>2. \A e \in Events : Rank(e, table \cap F) \in Nat
  BY RankType
<1>3. ASSUME NEW n \in Nat, NEW m \in Nat, m < n + PerPage
      PROVE  m < n + (PerPage + 1)
  BY <1>3
<1>4. QED
  BY <1>1, <1>2, <1>3 DEF Page, Fetched

\* Rows of an earlier page stand before those of a later one.
LEMMA PagesSorted ==
  ASSUME NEW B \in SUBSET Events, NEW i \in Nat, NEW j \in Nat, i < j,
         NEW e \in B, Rank(e, B) < (i - 1) * PerPage + PerPage,
         NEW f \in B, (j - 1) * PerPage =< Rank(f, B)
  PROVE  Position[e] < Position[f]
<1>1. Rank(e, B) \in Nat /\ Rank(f, B) \in Nat
  BY RankType
<1>2. PICK d \in Nat : j = i + 1 + d
  BY j - i - 1 \in Nat
<1>3. (j - 1) * PerPage = (i - 1) * PerPage + PerPage + d * PerPage
      /\ d * PerPage \in Nat
  BY <1>2
<1>4. Rank(e, B) < Rank(f, B)
  <2>1. (i - 1) * PerPage \in Int /\ PerPage \in Int
    OBVIOUS
  <2>2. QED
    BY <1>1, <1>3, <2>1
<1>5. ~(Position[f] < Position[e])
  BY <1>1, <1>4, RankIncreases
<1>6. e # f
  BY <1>1, <1>4
<1>7. Position[e] \in Nat /\ Position[f] \in Nat
  OBVIOUS
<1>8. QED
  BY <1>5, <1>6, <1>7

LEMMA QueryPageKeeps ==
  ASSUME ReadsInv, NEW r \in Requests, QueryPage(r)
  PROVE  ReadsInv'
<1> DEFINE F == filter[r]
           k == page[r]
           S == table \cap F
           P == Page(F, k)
           next == k * PerPage + PerPage
<1>1. ReadTypeInv /\ P \in SUBSET Events /\ k \in Nat
  BY DEF ReadsInv, ReadTypeInv, Page, Fetched
<1>2. ReadTypeInv'
  <2>1. Append(reads[r], P) \in Seq(SUBSET Events)
    BY <1>1 DEF ReadTypeInv
  <2>2. reads' \in [Requests -> Seq(SUBSET Events)]
    BY <1>1, <2>1 DEF ReadTypeInv, QueryPage
  <2>3. page' \in [Requests -> Nat] /\ at' = [q \in Requests |-> at'[q]]
    BY <1>1 DEF ReadTypeInv, QueryPage
  <2>4. QED
    BY <1>1, <2>2, <2>3 DEF ReadTypeInv, QueryPage
<1>3. ASSUME NEW q \in Requests, q # r PROVE ReadingInv(q)'
  <2>1. ReadingInv(q)
    BY DEF ReadsInv
  <2>2. /\ table' = table /\ at'[q] = at[q] /\ filter'[q] = filter[q]
        /\ page'[q] = page[q] /\ reads'[q] = reads[q]
        /\ before'[q] = before[q] /\ grew'[q] = grew[q]
    BY <1>1, <1>3 DEF QueryPage, ReadTypeInv
  <2>3. QED
    BY <2>1, <2>2, SameReading
<1>4. /\ table \in SUBSET Events /\ S \in SUBSET Events
      /\ before[r] \in SUBSET Events
      /\ reads[r] \in Seq(SUBSET Events)
  BY <1>1 DEF ReadTypeInv
<1>5. /\ PassedRowsRead(r) /\ Len(reads[r]) = k
      /\ ~grew[r] => PassedRowsOnce(r)
  BY DEF ReadsInv, ReadingInv, QueryPage
<1>6. /\ table' = table /\ filter'[r] = F /\ before'[r] = before[r]
      /\ grew'[r] = grew[r] /\ Listed(r) = S /\ Offset(r) = k * PerPage
      /\ Listed(r)' = S
  BY DEF QueryPage, Listed, Offset
<1>7. reads'[r] = Append(reads[r], P)
  BY <1>1 DEF QueryPage, ReadTypeInv
<1>8. /\ k * PerPage \in Nat /\ (k + 1) * PerPage = next
      /\ \A e \in Events :
           e \in P <=> /\ e \in S
                       /\ k * PerPage =< Rank(e, S)
                       /\ Rank(e, S) < next
  BY <1>1, <1>4, PageRows
<1>9. \A e \in Events : Rank(e, S) \in Nat
  BY <1>4, RankType
<1> HIDE DEF F, k, S, P, next
<1>10. /\ Len(reads'[r]) = k + 1 /\ DOMAIN reads'[r] = 1 .. (k + 1)
       /\ DOMAIN reads[r] = 1 .. k
       /\ \A i \in 1 .. k : reads'[r][i] = reads[r][i]
       /\ reads'[r][k + 1] = P
  BY <1>1, <1>4, <1>5, <1>7
<1>11. Got(r)' = Got(r) \cup P
  <2>1. \A i \in 1 .. (k + 1) : i \in 1 .. k \/ i = k + 1
    BY <1>1
  <2>2. 1 .. k \subseteq 1 .. (k + 1) /\ k + 1 \in 1 .. (k + 1)
    BY <1>1
  <2>3. QED
    BY <1>10, <2>1, <2>2 DEF Got
<1>12. /\ before[r] \subseteq S
       /\ \A e \in before[r] : Rank(e, S) < next => e \in Got(r)'
  <2>1. before[r] \subseteq S
        /\ \A e \in before[r] : Rank(e, S) < k * PerPage => e \in Got(r)
    BY <1>5, <1>6 DEF PassedRowsRead
  <2>2. ASSUME NEW e \in before[r], Rank(e, S) < next PROVE e \in Got(r)'
    <3>1. e \in Events /\ e \in S
      BY <1>4, <2>1
    <3>2. CASE Rank(e, S) < k * PerPage
      BY <1>11, <2>1, <3>2
    <3>3. CASE ~(Rank(e, S) < k * PerPage)
      BY <1>8, <1>9, <1>11, <2>2, <3>1, <3>3
    <3>4. QED
      BY <3>2, <3>3
  <2>3. QED
    BY <2>1, <2>2
<1>13. ASSUME ~grew[r] PROVE S = before[r] /\ Paged(r)'
  <2>1. S = before[r] /\ Paged(r)
    BY <1>5, <1>6, <1>13 DEF PassedRowsOnce
  <2>2. ASSUME NEW i \in 1 .. (k + 1), NEW e \in Events
        PROVE  e \in reads'[r][i] <=>
                 /\ e \in S
                 /\ (i - 1) * PerPage =< Rank(e, S)
                 /\ Rank(e, S) < (i - 1) * PerPage + PerPage
    <3>1. CASE i \in 1 .. k
      BY <1>10, <2>1, <3>1 DEF Paged
    <3>2. CASE i = k + 1
      <4>1. i - 1 = k
        BY <1>1, <3>2
      <4>2. QED
        BY <1>8, <1>10, <3>2, <4>1 DEF next
    <3>3. QED
      BY <1>1, <3>1, <3>2
  <2>3. QED
    BY <1>6, <1>10, <2>1, <2>2 DEF Paged
<1>14. CASE HasMore(F, k) /\ page'[r] = k + 1 /\ at'[r] = "reading"
  <2>1. Offset(r)' = next
    BY <1>8, <1>14 DEF Offset
  <2>2. PassedRowsRead(r)'
    BY <1>6, <1>12, <2>1 DEF PassedRowsRead
  <2>3. ~grew'[r] => PassedRowsOnce(r)'
    BY <1>6, <1>13 DEF PassedRowsOnce
  <2>4. ReadingInv(r)'
    BY <1>10, <1>14, <2>2, <2>3 DEF ReadingInv
  <2>5. QED
    BY <1>2, <1>3, <2>4 DEF ReadsInv
<1>15. CASE ~HasMore(F, k) /\ at'[r] = "read"
  <2>1. \A e \in S : Rank(e, S) < next
    BY <1>1, <1>4, <1>15, LastPage DEF S, next, k
  <2>2. before'[r] \subseteq Got(r)'
    BY <1>4, <1>6, <1>12, <2>1
  <2>3. ASSUME ~grew'[r] PROVE Got(r)' = before'[r] /\ PagesAscend(r)'
    <3>1. S = before[r] /\ Paged(r)'
      BY <1>6, <1>13, <2>3
    <3>2. \A i \in DOMAIN reads'[r] : reads'[r][i] \in SUBSET Events
      BY <1>2 DEF ReadTypeInv
    <3>3. Got(r)' \subseteq before'[r]
      BY <3>1, <3>2 DEF Paged, Got
    <3>4. ASSUME NEW i \in DOMAIN reads'[r], NEW j \in DOMAIN reads'[r], i < j,
                 NEW e \in reads'[r][i], NEW f \in reads'[r][j]
          PROVE  Position[e] < Position[f]
      <4>1. e \in Events /\ f \in Events /\ i \in Nat /\ j \in Nat
        BY <1>10, <3>2
      <4>2. /\ e \in S /\ Rank(e, S) < (i - 1) * PerPage + PerPage
            /\ f \in S /\ (j - 1) * PerPage =< Rank(f, S)
        BY <1>6, <3>1, <4>1 DEF Paged
      <4>3. QED
        BY <1>4, <3>4, <4>1, <4>2, PagesSorted
    <3>5. QED
      BY <2>2, <3>3, <3>4 DEF PagesAscend
  <2>4. ReadingInv(r)'
    BY <1>15, <2>2, <2>3 DEF ReadingInv
  <2>5. QED
    BY <1>2, <1>3, <2>4 DEF ReadsInv
<1>16. QED
  BY <1>1, <1>14, <1>15 DEF QueryPage, ReadTypeInv, F, k

LEMMA StoreKeeps ==
  ASSUME ReadsInv, NEW e \in Events, Store(e)
  PROVE  ReadsInv'
<1> USE DEF ReadsInv, Store
<1>1. ReadTypeInv'
  BY DEF ReadTypeInv
<1>2. ASSUME NEW r \in Requests PROVE ReadingInv(r)'
  <2>1. CASE at[r] # "reading"
    BY <2>1 DEF ReadTypeInv, ReadingInv, NotBegun, Got, PagesAscend
  <2>2. CASE at[r] = "reading"
    <3>1. Listed(r) \in SUBSET Events /\ Listed(r)' \in SUBSET Events
          /\ Listed(r) \subseteq Listed(r)'
      BY <1>1 DEF ReadTypeInv, Listed
    <3>2. PassedRowsRead(r) /\ before'[r] = before[r] /\ reads'[r] = reads[r]
          /\ Offset(r)' = Offset(r) /\ Offset(r) \in Nat
      BY <2>2 DEF ReadTypeInv, ReadingInv, Offset
    <3>3. PassedRowsRead(r)'
      <4>1. ASSUME NEW f \in before[r], Rank(f, Listed(r)') < Offset(r)
            PROVE  f \in Got(r)
        <5>1. f \in Events
          BY DEF ReadTypeInv
        <5>2. /\ Rank(f, Listed(r)) =< Rank(f, Listed(r)')
              /\ Rank(f, Listed(r)) \in Nat /\ Rank(f, Listed(r)') \in Nat
          BY <3>1, <5>1, RankGrows, RankType
        <5>3. QED
          BY <3>2, <4>1, <5>2 DEF PassedRowsRead
      <4>2. Got(r)' = Got(r)
        BY <3>2 DEF Got
      <4>3. QED
        BY <3>1, <3>2, <4>1, <4>2 DEF PassedRowsRead
    <3>4. ASSUME ~grew'[r] PROVE PassedRowsOnce(r)'
      <4>1. ~grew[r] /\ e \notin filter[r]
        BY <2>2, <3>4 DEF ReadTypeInv
      <4>2. Listed(r)' = Listed(r)
        BY <4>1 DEF Listed
      <4>3. QED
        BY <2>2, <3>2, <4>1, <4>2 DEF ReadingInv, PassedRowsOnce, Paged
    <3>5. at'[r] = "reading" /\ Len(reads'[r]) = page'[r]
      BY <2>2 DEF ReadingInv
    <3>6. QED
      BY <3>3, <3>4, <3>5 DEF ReadingInv
  <2>3. QED
    BY <2>1, <2>2
<1>3. QED
  BY <1>1, <1>2

\* A request that is at none of the places of a reading, afterwards.
GoesOn(r, place) ==
    /\ UNCHANGED <<table, readVars>>
    /\ place \notin {"idle", "reading", "read"}
    /\ at' = [at EXCEPT ![r] = place]

LEMMA GoesOnKeeps ==
  ASSUME ReadsInv, NEW r \in Requests, NEW place, GoesOn(r, place)
  PROVE  ReadsInv'
<1> USE DEF ReadsInv, GoesOn, readVars
<1>1. ReadTypeInv'
  BY DEF ReadTypeInv
<1>2. ASSUME NEW q \in Requests, q # r PROVE ReadingInv(q)'
  <2>1. at'[q] = at[q]
    BY <1>2 DEF ReadTypeInv
  <2>2. QED
    BY <2>1, SameReading
<1>3. ReadingInv(r)'
  <2>1. at'[r] \notin {"idle", "reading", "read"}
    BY DEF ReadTypeInv
  <2>2. QED
    BY <2>1 DEF ReadingInv
<1>4. QED
  BY <1>1, <1>2, <1>3

LEMMA StutterKeeps ==
  ASSUME ReadsInv, UNCHANGED timelineVars
  PROVE  ReadsInv'
<1> USE DEF timelineVars, readVars
<1>1. ReadTypeInv'
  BY DEF ReadsInv, ReadTypeInv
<1>2. \A r \in Requests : ReadingInv(r)'
  BY SameReading DEF ReadsInv
<1>3. QED
  BY <1>1, <1>2 DEF ReadsInv

-----------------------------------------------------------------------------
(* Readings in the composition. *)

USE TemplatesAssumption, LLMAssumption

\* For a reading, what a request does next is a query, a failure, or a step
\* that only moves the request on.
LEMMA ProceedReads ==
  ASSUME NEW r \in Requests, Proceed(r)
  PROVE  QueryPage(r) \/ \E place : GoesOn(r, place)
<1> USE DEF GoesOn, Goto
<1>1. CASE ReadTimeline(r)
  BY <1>1 DEF ReadTimeline, QueryFails
<1>2. CASE BuildPipeline(r)
  <2>1. GoesOn(r, "run") \/ GoesOn(r, "failed")
    BY <1>2 DEF BuildPipeline
  <2>2. QED
    BY <2>1
<1>3. CASE Finish(r)
  BY <1>3 DEF Finish
<1>4. CASE RunStep(r)
  <2>1. CASE BeginDescribe(r) \/ BeginComplete(r)
    BY <2>1 DEF BeginDescribe, BeginComplete, Begin
  <2>2. CASE CacheHit(r) \/ Put(r)
    BY <2>2 DEF CacheHit, Put, AppendRow
  <2>3. CASE CacheMiss(r) \/ Describe(r) \/ DiffFails(r)
    BY <2>3 DEF CacheMiss, Describe, DiffFails
  <2>4. CASE ConfigureDescribe(r) \/ ConfigureComplete(r)
    BY <2>4 DEF ConfigureDescribe, ConfigureComplete, Configure
  <2>5. CASE SupportsJSONSchema(r) \/ Complete(r)
    BY <2>5 DEF SupportsJSONSchema, Complete
  <2>6. CASE CallFails(r)
    <3>1. GoesOn(r, "failed")
      BY <2>6 DEF CallFails, AfterError
    <3>2. QED
      BY <3>1
  <2>7. QED
    BY <1>4, <2>1, <2>2, <2>3, <2>4, <2>5, <2>6 DEF RunStep, LLMStep
<1>5. QED
  BY <1>1, <1>2, <1>3, <1>4 DEF Proceed

\* So every step of the composition is one of a reading or leaves it alone.
LEMMA StepReads ==
  ASSUME [Next]_vars
  PROVE  \/ \E r \in Requests, F \in Filters : StartRead(r, F)
         \/ \E r \in Requests : QueryPage(r)
         \/ \E r \in Requests : \E place : GoesOn(r, place)
         \/ \E e \in Events : Store(e)
         \/ UNCHANGED timelineVars
<1>1. ASSUME NEW r \in Requests, NEW id \in Ids, NEW F \in Filters,
             GetTemplate(r, id, F)
      PROVE  StartRead(r, F)
  BY <1>1 DEF GetTemplate
<1>2. ASSUME NEW r \in Requests, GetTemplateFails(r)
      PROVE  GoesOn(r, "failed")
  BY <1>2 DEF GetTemplateFails, GoesOn, Goto
<1>3. CASE Sync
  BY <1>3 DEF Sync
<1>4. CASE Settings \/ Edit \/ Boot
  BY <1>4 DEF Settings, UpdateSettings, Edit, Boot
<1>5. CASE UNCHANGED vars
  BY <1>5 DEF vars
<1>6. QED
  BY <1>1, <1>2, <1>3, <1>4, <1>5, ProceedReads DEF Next

LEMMA ReadsStep ==
  ASSUME ReadsInv, [Next]_vars
  PROVE  ReadsInv'
  BY StepReads, StartReadKeeps, QueryPageKeeps, GoesOnKeeps, StoreKeeps,
     StutterKeeps

\* Whatever a sync stores between two pages, a request reads every event that
\* was there when it began.
THEOREM NothingIsMissed == Spec => []NothingMissed
<1>1. Init => ReadsInv
  BY InitReadsInv DEF Init
<1>2. ReadsInv /\ [Next]_vars => ReadsInv'
  BY ReadsStep
<1>3. ReadsInv => NothingMissed
  BY ReadsInvImplies
<1>4. QED
  BY <1>1, <1>2, <1>3, PTL DEF Spec

\* A reading during which nothing matching is stored gives every matching event
\* exactly once.
THEOREM QuietReadIsSnapshot == Spec => []SnapshotIfQuiet
<1>1. Init => ReadsInv
  BY InitReadsInv DEF Init
<1>2. ReadsInv /\ [Next]_vars => ReadsInv'
  BY ReadsStep
<1>3. ReadsInv => SnapshotIfQuiet
  BY ReadsInvImplies
<1>4. QED
  BY <1>1, <1>2, <1>3, PTL DEF Spec

-----------------------------------------------------------------------------
(* The built-in templates. *)

\* The row of a built-in, if there is one, is marked, so no handler ever holds
\* the id of one.
BuiltinInv ==
    /\ templates = [id \in Ids |-> templates[id]]
    /\ editor = [e \in Editors |-> editor[e]]
    /\ \A id \in BuiltinIds : templates[id] = NoRow \/ templates[id].builtin
    /\ \A e \in Editors :
         editor[e].op \in {"update", "delete"} => editor[e].id \in CustomIds

Shipped(id) ==
    \E b \in Boots : templates'[id] = [body |-> BuiltinOf[b][id], builtin |-> TRUE]

LEMMA InitBuiltinInv == ASSUME Init PROVE BuiltinInv
  BY DEF Init, TemplatesInit, BuiltinInv, Ids, Nothing

\* A step keeps the invariant, and the row of a built-in changes only into
\* that of a release.
LEMMA BuiltinStep ==
  ASSUME BuiltinInv, [Next]_vars
  PROVE  /\ BuiltinInv'
         /\ \A id \in BuiltinIds : templates'[id] # templates[id] => Shipped(id)
<1> DEFINE Keeps == /\ BuiltinInv'
                    /\ \A id \in BuiltinIds :
                         templates'[id] # templates[id] => Shipped(id)
<1>1. ASSUME UNCHANGED templateVars PROVE Keeps
  BY <1>1 DEF BuiltinInv, templateVars
<1>2. ASSUME NEW id \in CustomIds, NEW body \in Bodies, CreateTemplate(id, body)
      PROVE  Keeps
  BY <1>2 DEF CreateTemplate, SaveTemplate, BuiltinInv, Ids
<1>3. ASSUME NEW e \in Editors, NEW op \in {"update", "delete"}, NEW id \in Ids,
             NEW body \in Bodies, LookUpTemplate(e, op, id, body)
      PROVE  Keeps
  <2>1. id \in CustomIds
    BY <1>3 DEF LookUpTemplate, MayChange, BuiltinInv, Ids
  <2>2. UNCHANGED templates
    BY <1>3 DEF LookUpTemplate
  <2>3. editor' = [editor EXCEPT ![e] = [op |-> op, id |-> id, body |-> body]]
    BY <1>3 DEF LookUpTemplate
  <2>4. \A f \in Editors :
           editor'[f].op \in {"update", "delete"} => editor'[f].id \in CustomIds
    BY <2>1, <2>3 DEF BuiltinInv
  <2>5. QED
    BY <2>2, <2>3, <2>4 DEF BuiltinInv
<1>4. ASSUME NEW e \in Editors, UpdateTemplate(e) \/ DeleteTemplate(e)
      PROVE  Keeps
  <2>1. editor[e].id \in CustomIds
    BY <1>4 DEF UpdateTemplate, DeleteTemplate, BuiltinInv
  <2>2. editor' = [editor EXCEPT ![e] = Nothing]
    BY <1>4 DEF UpdateTemplate, DeleteTemplate
  <2>3. \E row : templates' = [templates EXCEPT ![editor[e].id] = row]
    BY <1>4 DEF UpdateTemplate, DeleteTemplate, SaveTemplate
  <2>4. /\ templates' = [id \in Ids |-> templates'[id]]
        /\ \A id \in BuiltinIds : templates'[id] = templates[id]
    BY <2>1, <2>3 DEF BuiltinInv, Ids
  <2>5. \A f \in Editors :
           editor'[f].op \in {"update", "delete"} => editor'[f].id \in CustomIds
    BY <2>2 DEF BuiltinInv, Nothing
  <2>6. QED
    BY <2>2, <2>4, <2>5 DEF BuiltinInv
<1>5. ASSUME NEW b \in Boots, NEW id \in BuiltinIds, SeedBuiltin(b, id)
      PROVE  Keeps
  <2>1. /\ templates' = [templates EXCEPT
                           ![id] = [body |-> BuiltinOf[b][id], builtin |-> TRUE]]
        /\ UNCHANGED editor
    BY <1>5 DEF SeedBuiltin, SaveTemplate
  <2>2. templates' = [i \in Ids |-> templates'[i]]
    BY <2>1 DEF BuiltinInv
  <2>3. \A i \in BuiltinIds : i # id => templates'[i] = templates[i]
    BY <2>1 DEF BuiltinInv, Ids
  <2>4. templates'[id] = [body |-> BuiltinOf[b][id], builtin |-> TRUE]
    BY <2>1 DEF BuiltinInv, Ids
  <2>5. \A i \in BuiltinIds : templates'[i] = NoRow \/ templates'[i].builtin
    <3>1. templates'[id].builtin
      BY <2>4
    <3>2. ASSUME NEW i \in BuiltinIds, i # id
          PROVE  templates'[i] = NoRow \/ templates'[i].builtin
      BY <2>3, <3>2 DEF BuiltinInv
    <3>3. QED
      BY <3>1, <3>2
  <2>6. BuiltinInv'
    BY <2>1, <2>2, <2>5 DEF BuiltinInv
  <2>7. \A i \in BuiltinIds : templates'[i] # templates[i] => Shipped(i)
    BY <2>3, <2>4 DEF Shipped
  <2>8. QED
    BY <2>6, <2>7
<1>6. CASE Edit
  BY <1>6, <1>2, <1>3, <1>4 DEF Edit
<1>7. CASE Boot
  <2>1. ASSUME NEW b \in Boots, SeedFails(b) PROVE Keeps
    BY <2>1 DEF SeedFails, BuiltinInv
  <2>2. QED
    BY <1>7, <1>5, <2>1 DEF Boot
<1>8. CASE Sync \/ Settings
  BY <1>8, <1>1 DEF Sync, Settings
<1>9. ASSUME NEW r \in Requests, Proceed(r) PROVE UNCHANGED templateVars
  BY <1>9 DEF Proceed, ReadTimeline, BuildPipeline, RunStep, Finish
<1>10. ASSUME NEW r \in Requests, NEW id \in Ids, NEW F \in Filters,
              GetTemplate(r, id, F) \/ GetTemplateFails(r)
       PROVE  UNCHANGED templateVars
  BY <1>10 DEF GetTemplate, GetTemplateFails
<1>11. CASE \E r \in Requests : GetTemplateFails(r)
  BY <1>11, <1>1 DEF GetTemplateFails
<1>12. CASE UNCHANGED vars
  BY <1>12, <1>1 DEF vars
<1>13. QED
  BY <1>1, <1>6, <1>7, <1>8, <1>9, <1>10, <1>11, <1>12 DEF Next

\* Requests and starting processes, in whatever order they look up and write,
\* never change a built-in template into anything but one that a release ships.
THEOREM BuiltinsStay == Spec => BuiltinsIntact
<1>1. Init => BuiltinInv
  BY InitBuiltinInv
<1>2. BuiltinInv /\ [Next]_vars => BuiltinInv'
  BY BuiltinStep
<1>3. BuiltinInv /\ [Next]_vars
        => [\A id \in BuiltinIds : templates'[id] # templates[id] =>
              \E b \in Boots : templates'[id] = [body |-> BuiltinOf[b][id],
                                                 builtin |-> TRUE]]_templates
  BY BuiltinStep DEF Shipped
<1>4. QED
  BY <1>1, <1>2, <1>3, PTL DEF Spec, BuiltinsIntact

-----------------------------------------------------------------------------
(* Descriptions. *)

\* A sequence, of whatever.
IsSequence(s) == \E n \in Nat : s = [i \in 1 .. n |-> s[i]]

\* Appending keeps what there is and adds the new element.
LEMMA Appending ==
  ASSUME NEW s, IsSequence(s), NEW x
  PROVE  /\ IsSequence(Append(s, x))
         /\ \A i \in DOMAIN Append(s, x) :
              \/ i \in DOMAIN s /\ Append(s, x)[i] = s[i]
              \/ Append(s, x)[i] = x
<1>1. PICK n \in Nat : s = [i \in 1 .. n |-> s[i]]
  BY DEF IsSequence
<1> DEFINE T == {s[i] : i \in 1 .. n} \cup {x}
<1>2. s \in [1 .. n -> T] /\ x \in T
  BY <1>1
<1> HIDE DEF T
<1>3. s \in Seq(T) /\ Len(s) = n /\ DOMAIN s = 1 .. n
  BY <1>2
<1>4. /\ Append(s, x) \in Seq(T) /\ Len(Append(s, x)) = n + 1
      /\ \A i \in 1 .. n : Append(s, x)[i] = s[i]
      /\ Append(s, x)[n + 1] = x
  BY <1>2, <1>3
<1>5. Append(s, x) \in [1 .. (n + 1) -> T] /\ DOMAIN Append(s, x) = 1 .. (n + 1)
  BY <1>4, LenProperties
<1>6. Append(s, x) = [i \in 1 .. (n + 1) |-> Append(s, x)[i]]
  BY <1>5
<1>7. IsSequence(Append(s, x))
  BY <1>6, n + 1 \in Nat DEF IsSequence
<1>8. \A i \in 1 .. (n + 1) : i \in 1 .. n \/ i = n + 1
  OBVIOUS
<1>9. QED
  BY <1>3, <1>4, <1>5, <1>7, <1>8

\* A row about a group has its text, which is in the cache.
RowOK(r, row) ==
    row.group # 0 =>
        /\ row.output.version = row.version
        /\ row.output.input = Input(r, row.group)
        /\ <<row.version, Input(r, row.group)>> \in DOMAIN cache

\* The answer that is about to be saved is about the group whose turn it is,
\* and rows are made only once the timeline has been read.
DescribeInv(r) ==
    /\ IsSequence(rows[r])
    /\ at[r] \in {"idle", "reading"} => DOMAIN rows[r] = {}
    /\ at[r] = "put" => /\ answer[r].version = version[r]
                        /\ answer[r].input = Input(r, Group(r))
    /\ \A i \in DOMAIN rows[r] : RowOK(r, rows[r][i])

CacheInv == \A k \in DOMAIN cache : <<cache[k].version, cache[k].input>> = k

LLMTypeInv ==
    /\ at = [r \in Requests |-> at[r]]
    /\ reads = [r \in Requests |-> reads[r]]
    /\ version = [r \in Requests |-> version[r]]
    /\ todo = [r \in Requests |-> todo[r]]
    /\ answer = [r \in Requests |-> answer[r]]
    /\ rows = [r \in Requests |-> rows[r]]

RunsInv == LLMTypeInv /\ CacheInv /\ \A r \in Requests : DescribeInv(r)

LEMMA RunsInvImplies == RunsInv => DescriptionsHonest /\ PaidIsKept
  BY DEF RunsInv, CacheInv, DescribeInv, RowOK, DescriptionsHonest, PaidIsKept

LEMMA InitRunsInv == ASSUME Init PROVE RunsInv
<1> USE DEF Init, ReadsInit, LLMInit
<1>1. LLMTypeInv
  BY DEF LLMTypeInv
<1>2. CacheInv
  BY DEF CacheInv
<1>3. ASSUME NEW r \in Requests PROVE DescribeInv(r)
  <2>1. rows[r] = <<>> /\ at[r] = "idle"
    OBVIOUS
  <2>2. IsSequence(<<>>) /\ DOMAIN <<>> = {}
    <3>1. <<>> \in Seq({}) /\ Len(<<>>) = 0
      BY EmptySeq
    <3>2. DOMAIN <<>> = 1 .. 0 /\ <<>> \in [1 .. 0 -> {}]
      BY <3>1, LenProperties
    <3>3. <<>> = [i \in 1 .. 0 |-> <<>>[i]] /\ 0 \in Nat /\ 1 .. 0 = {}
      BY <3>2
    <3>4. QED
      BY <3>2, <3>3 DEF IsSequence
  <2>3. QED
    BY <2>1, <2>2 DEF DescribeInv
<1>4. QED
  BY <1>1, <1>2, <1>3 DEF RunsInv

\* A step that adds at most to the cache, and leaves a request's reading, rows
\* and answer alone, keeps what holds of it, unless it moves it back.
LEMMA SameRun ==
  ASSUME NEW r \in Requests, DescribeInv(r),
         reads'[r] = reads[r], rows'[r] = rows[r],
         DOMAIN cache \subseteq DOMAIN cache',
         at'[r] \in {"idle", "reading"} => at[r] \in {"idle", "reading"},
         at'[r] = "put" => /\ at[r] = "put" /\ answer'[r] = answer[r]
                           /\ version'[r] = version[r] /\ todo'[r] = todo[r]
  PROVE  DescribeInv(r)'
<1>1. \A g : Input(r, g)' = Input(r, g)
  BY DEF Input
<1>2. ASSUME at'[r] = "put" PROVE Group(r)' = Group(r)
  BY <1>2 DEF Group
<1>3. \A i \in DOMAIN rows[r] : RowOK(r, rows[r][i])'
  BY <1>1 DEF DescribeInv, RowOK
<1>4. QED
  BY <1>1, <1>2, <1>3 DEF DescribeInv

\* Nothing of another request changes.
OnlyOf(r) ==
    /\ at' = [q \in Requests |-> IF q = r THEN at'[r] ELSE at[q]]
    /\ reads' = [q \in Requests |-> IF q = r THEN reads'[r] ELSE reads[q]]
    /\ version' = [q \in Requests |-> IF q = r THEN version'[r] ELSE version[q]]
    /\ todo' = [q \in Requests |-> IF q = r THEN todo'[r] ELSE todo[q]]
    /\ answer' = [q \in Requests |-> IF q = r THEN answer'[r] ELSE answer[q]]
    /\ rows' = [q \in Requests |-> IF q = r THEN rows'[r] ELSE rows[q]]
    /\ DOMAIN cache \subseteq DOMAIN cache'

LEMMA OneActs ==
  ASSUME RunsInv, NEW r \in Requests, OnlyOf(r), CacheInv', DescribeInv(r)'
  PROVE  RunsInv'
<1>1. LLMTypeInv'
  BY DEF OnlyOf, LLMTypeInv
<1>2. ASSUME NEW q \in Requests, q # r PROVE DescribeInv(q)'
  <2>1. /\ at'[q] = at[q] /\ reads'[q] = reads[q] /\ version'[q] = version[q]
        /\ todo'[q] = todo[q] /\ answer'[q] = answer[q] /\ rows'[q] = rows[q]
        /\ DOMAIN cache \subseteq DOMAIN cache'
    BY <1>2 DEF OnlyOf
  <2>2. DescribeInv(q)
    BY DEF RunsInv
  <2>3. QED
    BY <2>1, <2>2, SameRun
<1>3. QED
  BY <1>1, <1>2 DEF RunsInv

\* A step that only moves a request on, and maybe begins a step of its pipeline.
MovesOn(r, place) ==
    /\ UNCHANGED <<reads, rows, cache, answer>>
    /\ place \notin {"idle", "reading", "put"}
    /\ at' = [at EXCEPT ![r] = place]
    /\ UNCHANGED version \/ \E v : version' = [version EXCEPT ![r] = v]
    /\ UNCHANGED todo \/ \E t : todo' = [todo EXCEPT ![r] = t]

LEMMA MovesOnKeeps ==
  ASSUME RunsInv, NEW r \in Requests, NEW place, MovesOn(r, place)
  PROVE  RunsInv'
<1>1. LLMTypeInv /\ CacheInv /\ DescribeInv(r)
  BY DEF RunsInv
<1>2. at' = [q \in Requests |-> IF q = r THEN place ELSE at[q]]
  BY <1>1 DEF MovesOn, LLMTypeInv
<1>3. at'[r] = place /\ reads'[r] = reads[r] /\ rows'[r] = rows[r]
  BY <1>2 DEF MovesOn
<1>4. version' = [q \in Requests |-> IF q = r THEN version'[r] ELSE version[q]]
  BY <1>1 DEF MovesOn, LLMTypeInv
<1>5. todo' = [q \in Requests |-> IF q = r THEN todo'[r] ELSE todo[q]]
  BY <1>1 DEF MovesOn, LLMTypeInv
<1>6. /\ reads' = [q \in Requests |-> IF q = r THEN reads'[r] ELSE reads[q]]
      /\ answer' = [q \in Requests |-> IF q = r THEN answer'[r] ELSE answer[q]]
      /\ rows' = [q \in Requests |-> IF q = r THEN rows'[r] ELSE rows[q]]
  BY <1>1 DEF MovesOn, LLMTypeInv
<1>7. OnlyOf(r)
  BY <1>2, <1>3, <1>4, <1>5, <1>6 DEF OnlyOf, MovesOn
<1>8. DescribeInv(r)'
  BY <1>1, <1>3, SameRun DEF MovesOn
<1>9. CacheInv'
  BY <1>1 DEF CacheInv, MovesOn
<1>10. QED
  BY <1>7, <1>8, <1>9, OneActs

LEMMA QuietKeeps ==
  ASSUME RunsInv, UNCHANGED <<at, reads, cache, version, todo, answer, rows>>
  PROVE  RunsInv'
<1>1. LLMTypeInv' /\ CacheInv'
  BY DEF RunsInv, LLMTypeInv, CacheInv
<1>2. ASSUME NEW r \in Requests PROVE DescribeInv(r)'
  BY SameRun DEF RunsInv
<1>3. QED
  BY <1>1, <1>2 DEF RunsInv

\* Until the timeline has been read there are no rows.
LEMMA ReadingKeeps ==
  ASSUME RunsInv, NEW r \in Requests,
         (\E F \in Filters : StartRead(r, F)) \/ QueryPage(r),
         UNCHANGED <<cache, stepVars>>
  PROVE  RunsInv'
<1>1. LLMTypeInv /\ CacheInv /\ DescribeInv(r)
  BY DEF RunsInv
<1>2. at[r] \in {"idle", "reading"} /\ DOMAIN rows[r] = {} /\ rows' = rows
  BY <1>1 DEF StartRead, QueryPage, DescribeInv, stepVars
<1>3. /\ at' = [q \in Requests |-> IF q = r THEN at'[r] ELSE at[q]]
      /\ at'[r] # "put"
  BY <1>1, <1>2 DEF StartRead, QueryPage, LLMTypeInv
<1>4. reads' = [q \in Requests |-> IF q = r THEN reads'[r] ELSE reads[q]]
  <2>1. UNCHANGED reads \/ \E x : reads' = [reads EXCEPT ![r] = x]
    BY DEF StartRead, QueryPage
  <2>2. QED
    BY <1>1, <2>1 DEF LLMTypeInv
<1>5. OnlyOf(r)
  BY <1>1, <1>3, <1>4 DEF OnlyOf, LLMTypeInv, stepVars
<1>6. DescribeInv(r)'
  BY <1>1, <1>2, <1>3 DEF DescribeInv
<1>7. CacheInv'
  BY <1>1 DEF CacheInv
<1>8. QED
  BY <1>5, <1>6, <1>7, OneActs

\* A step that appends a row, of a group whose text is in the cache from now on.
LEMMA RowAdded ==
  ASSUME RunsInv, NEW r \in Requests, NEW row, NEW place,
         place \notin {"idle", "reading", "put"},
         at' = [at EXCEPT ![r] = place],
         rows' = [rows EXCEPT ![r] = Append(@, row)],
         reads' = reads, DOMAIN cache \subseteq DOMAIN cache',
         row.group # 0 =>
             /\ row.output.version = row.version
             /\ row.output.input = Input(r, row.group)
             /\ <<row.version, Input(r, row.group)>> \in DOMAIN cache'
  PROVE  DescribeInv(r)'
<1>1. LLMTypeInv /\ DescribeInv(r)
  BY DEF RunsInv
<1>2. rows'[r] = Append(rows[r], row) /\ at'[r] = place
  BY <1>1 DEF LLMTypeInv
<1>3. \A g : Input(r, g)' = Input(r, g)
  BY DEF Input
<1>4. /\ IsSequence(rows'[r])
      /\ \A i \in DOMAIN rows'[r] :
           \/ i \in DOMAIN rows[r] /\ rows'[r][i] = rows[r][i]
           \/ rows'[r][i] = row
  BY <1>1, <1>2, Appending DEF DescribeInv
<1>5. ASSUME NEW i \in DOMAIN rows'[r] PROVE RowOK(r, rows[r][i])'
  <2>1. CASE i \in DOMAIN rows[r] /\ rows'[r][i] = rows[r][i]
    <3>1. RowOK(r, rows[r][i])
      BY <1>1, <2>1 DEF DescribeInv
    <3>2. QED
      BY <1>3, <2>1, <3>1 DEF RowOK
  <2>2. CASE rows'[r][i] = row
    BY <1>3, <2>2 DEF RowOK
  <2>3. QED
    BY <1>4, <2>1, <2>2
<1>6. QED
  BY <1>2, <1>4, <1>5 DEF DescribeInv

\* What an append of a group's text changes.
LEMMA AppendRowOnly ==
  ASSUME LLMTypeInv, NEW r \in Requests, NEW text, AppendRow(r, text),
         UNCHANGED <<reads, version>>,
         answer' = answer \/ answer' = [answer EXCEPT ![r] = None],
         DOMAIN cache \subseteq DOMAIN cache'
  PROVE  /\ OnlyOf(r)
         /\ \E place \in {"run", "lookup"} : at' = [at EXCEPT ![r] = place]
<1>1. \/ at' = [at EXCEPT ![r] = "run"]
      \/ at' = [at EXCEPT ![r] = "lookup"]
  BY DEF AppendRow, Goto
<1>2. at' = [q \in Requests |-> IF q = r THEN at'[r] ELSE at[q]]
  BY <1>1 DEF LLMTypeInv
<1>3. /\ todo' = [q \in Requests |-> IF q = r THEN todo'[r] ELSE todo[q]]
      /\ rows' = [q \in Requests |-> IF q = r THEN rows'[r] ELSE rows[q]]
  BY DEF AppendRow, LLMTypeInv
<1>4. answer' = [q \in Requests |-> IF q = r THEN answer'[r] ELSE answer[q]]
  BY DEF LLMTypeInv
<1>5. QED
  BY <1>1, <1>2, <1>3, <1>4 DEF OnlyOf, LLMTypeInv

LEMMA CacheHitKeeps ==
  ASSUME RunsInv, NEW r \in Requests, CacheHit(r)
  PROVE  RunsInv'
<1> DEFINE K == CacheKey(r, Group(r))
           row == [group |-> Group(r), version |-> version[r], output |-> cache[K]]
<1>1. LLMTypeInv /\ CacheInv
  BY DEF RunsInv
<1>2. AppendRow(r, cache[K]) /\ UNCHANGED <<reads, version, answer, cache>>
      /\ K \in DOMAIN cache
  BY DEF CacheHit, readVars
<1>3. OnlyOf(r) /\ \E place \in {"run", "lookup"} : at' = [at EXCEPT ![r] = place]
  BY <1>1, <1>2, AppendRowOnly
<1>4. rows' = [rows EXCEPT ![r] = Append(@, row)]
  BY <1>2 DEF AppendRow
<1>5. /\ cache[K].version = version[r] /\ cache[K].input = Input(r, Group(r))
      /\ <<version[r], Input(r, Group(r))>> \in DOMAIN cache'
  BY <1>1, <1>2 DEF CacheInv, CacheKey
<1>6. /\ row.output.version = row.version
      /\ row.output.input = Input(r, row.group)
      /\ <<row.version, Input(r, row.group)>> \in DOMAIN cache'
  BY <1>5
<1>7. DescribeInv(r)'
  <2> HIDE DEF row
  <2>1. QED
    BY <1>2, <1>3, <1>4, <1>6, RowAdded
<1>8. CacheInv'
  BY <1>1, <1>2 DEF CacheInv
<1>9. QED
  BY <1>3, <1>7, <1>8, OneActs

LEMMA PutKeeps ==
  ASSUME RunsInv, NEW r \in Requests, Put(r)
  PROVE  RunsInv'
<1> DEFINE K == CacheKey(r, Group(r))
           row == [group |-> Group(r), version |-> version[r], output |-> answer[r]]
<1>1. LLMTypeInv /\ CacheInv /\ DescribeInv(r)
  BY DEF RunsInv
<1>2. /\ AppendRow(r, answer[r]) /\ UNCHANGED <<reads, version>>
      /\ answer' = [answer EXCEPT ![r] = None]
  BY DEF Put, readVars
<1>3. /\ DOMAIN cache' = DOMAIN cache \cup {K}
      /\ \A k \in DOMAIN cache' : cache'[k] = IF k = K THEN answer[r] ELSE cache[k]
  BY DEF Put, LLMCachePut
<1>4. OnlyOf(r) /\ \E place \in {"run", "lookup"} : at' = [at EXCEPT ![r] = place]
  BY <1>1, <1>2, <1>3, AppendRowOnly
<1>5. rows' = [rows EXCEPT ![r] = Append(@, row)]
  BY <1>2 DEF AppendRow
<1>6. /\ answer[r].version = version[r] /\ answer[r].input = Input(r, Group(r))
      /\ K = <<version[r], Input(r, Group(r))>>
  BY <1>1 DEF DescribeInv, Put, CacheKey
<1>7. /\ row.output.version = row.version
      /\ row.output.input = Input(r, row.group)
      /\ <<row.version, Input(r, row.group)>> \in DOMAIN cache'
  BY <1>3, <1>6
<1>8. DescribeInv(r)'
  <2> HIDE DEF row, K
  <2>1. QED
    BY <1>2, <1>3, <1>4, <1>5, <1>7, RowAdded
<1>9. CacheInv'
  <2> HIDE DEF K
  <2>1. <<answer[r].version, answer[r].input>> = K
    BY <1>6
  <2>2. QED
    BY <1>1, <1>3, <2>1 DEF CacheInv
<1>10. QED
  BY <1>4, <1>8, <1>9, OneActs

LEMMA CompleteKeeps ==
  ASSUME RunsInv, NEW r \in Requests, Complete(r)
  PROVE  RunsInv'
<1> DEFINE row == [group |-> 0,
                   output |-> [model |-> asked[r], schema |-> schema[r]]]
<1>1. LLMTypeInv /\ CacheInv
  BY DEF RunsInv
<1>2. /\ rows' = [rows EXCEPT ![r] = Append(@, row)]
      /\ at' = [at EXCEPT ![r] = "run"]
      /\ UNCHANGED <<reads, version, todo, answer, cache>>
  BY DEF Complete, Goto, readVars
<1>3. OnlyOf(r)
  BY <1>1, <1>2 DEF OnlyOf, LLMTypeInv
<1>4. row.group = 0
  OBVIOUS
<1>5. DescribeInv(r)'
  <2> HIDE DEF row
  <2>1. QED
    BY <1>2, <1>4, RowAdded
<1>6. CacheInv'
  BY <1>1, <1>2 DEF CacheInv
<1>7. QED
  BY <1>3, <1>5, <1>6, OneActs

LEMMA DescribeKeeps ==
  ASSUME RunsInv, NEW r \in Requests, Describe(r)
  PROVE  RunsInv'
<1>1. LLMTypeInv /\ CacheInv /\ DescribeInv(r)
  BY DEF RunsInv
<1>2. /\ answer' = [answer EXCEPT ![r] = [input |-> Input(r, Group(r)),
                                          version |-> version[r],
                                          model |-> asked[r]]]
      /\ at' = [at EXCEPT ![r] = "put"]
      /\ UNCHANGED <<reads, version, todo, rows, cache>>
  BY DEF Describe, Goto, readVars
<1>3. OnlyOf(r)
  BY <1>1, <1>2 DEF OnlyOf, LLMTypeInv
<1>4. \A g : Input(r, g)' = Input(r, g)
  BY <1>2 DEF Input
<1>5. Group(r)' = Group(r)
  BY <1>2 DEF Group
<1>6. /\ answer'[r].version = version'[r]
      /\ answer'[r].input = Input(r, Group(r))
      /\ at'[r] = "put" /\ rows'[r] = rows[r]
  BY <1>1, <1>2 DEF LLMTypeInv
<1>7. \A i \in DOMAIN rows[r] : RowOK(r, rows[r][i])'
  BY <1>1, <1>2, <1>4 DEF DescribeInv, RowOK
<1>8. (Input(r, Group(r)))' = Input(r, Group(r))
  BY <1>2 DEF Input, Group
<1>9. DescribeInv(r)'
  BY <1>1, <1>6, <1>7, <1>8 DEF DescribeInv
<1>10. CacheInv'
  BY <1>1, <1>2 DEF CacheInv
<1>11. QED
  BY <1>3, <1>9, <1>10, OneActs

LEMMA LLMStepKeeps ==
  ASSUME RunsInv, NEW r \in Requests, LLMStep(r)
  PROVE  RunsInv'
<1> USE DEF MovesOn, Goto, readVars, llmVars, stepVars
<1>1. CASE BeginDescribe(r)
  <2>1. MovesOn(r, "run") \/ MovesOn(r, "lookup")
    BY <1>1 DEF BeginDescribe, Begin
  <2>2. QED
    BY <2>1, MovesOnKeeps
<1>2. CASE CacheMiss(r)
  <2>1. MovesOn(r, "configure")
    BY <1>2 DEF CacheMiss
  <2>2. QED
    BY <2>1, MovesOnKeeps
<1>3. CASE ConfigureDescribe(r)
  <2>1. MovesOn(r, "ask")
    BY <1>3 DEF ConfigureDescribe, Configure
  <2>2. QED
    BY <2>1, MovesOnKeeps
<1>4. CASE DiffFails(r)
  <2>1. MovesOn(r, "failed")
    BY <1>4 DEF DiffFails
  <2>2. QED
    BY <2>1, MovesOnKeeps
<1>5. CASE BeginComplete(r)
  <2>1. MovesOn(r, "prepare")
    BY <1>5 DEF BeginComplete, Begin
  <2>2. QED
    BY <2>1, MovesOnKeeps
<1>6. CASE ConfigureComplete(r)
  <2>1. MovesOn(r, "support") \/ MovesOn(r, "complete")
    BY <1>6 DEF ConfigureComplete, Configure
  <2>2. QED
    BY <2>1, MovesOnKeeps
<1>7. CASE SupportsJSONSchema(r)
  <2>1. MovesOn(r, "complete")
    BY <1>7 DEF SupportsJSONSchema
  <2>2. QED
    BY <2>1, MovesOnKeeps
<1>8. CASE CallFails(r)
  <2>1. MovesOn(r, "failed")
    BY <1>8 DEF CallFails, AfterError
  <2>2. QED
    BY <2>1, MovesOnKeeps
<1>9. QED
  BY <1>1, <1>2, <1>3, <1>4, <1>5, <1>6, <1>7, <1>8,
     CacheHitKeeps, PutKeeps, CompleteKeeps, DescribeKeeps DEF LLMStep

LEMMA RunsStep ==
  ASSUME RunsInv, [Next]_vars
  PROVE  RunsInv'
<1> USE DEF timelineVars, readVars, llmVars, stepVars
<1>1. ASSUME NEW r \in Requests, NEW id \in Ids, NEW F \in Filters,
             GetTemplate(r, id, F)
      PROVE  RunsInv'
  <2>1. StartRead(r, F) /\ UNCHANGED <<cache, stepVars>>
    BY <1>1 DEF GetTemplate
  <2>2. QED
    BY <2>1, ReadingKeeps
<1>2. ASSUME NEW r \in Requests, GetTemplateFails(r) PROVE RunsInv'
  <2>1. MovesOn(r, "failed")
    BY <1>2 DEF GetTemplateFails, MovesOn, Goto
  <2>2. QED
    BY <2>1, MovesOnKeeps
<1>3. ASSUME NEW r \in Requests, ReadTimeline(r) PROVE RunsInv'
  <2>1. CASE QueryPage(r)
    BY <1>3, <2>1, ReadingKeeps DEF ReadTimeline
  <2>2. CASE QueryFails(r)
    <3>1. MovesOn(r, "failed")
      BY <1>3, <2>2 DEF ReadTimeline, QueryFails, MovesOn
    <3>2. QED
      BY <3>1, MovesOnKeeps
  <2>3. QED
    BY <1>3, <2>1, <2>2 DEF ReadTimeline
<1>4. ASSUME NEW r \in Requests, BuildPipeline(r) PROVE RunsInv'
  <2>1. MovesOn(r, "run") \/ MovesOn(r, "failed")
    BY <1>4 DEF BuildPipeline, MovesOn, Goto
  <2>2. QED
    BY <2>1, MovesOnKeeps
<1>5. ASSUME NEW r \in Requests, Finish(r) PROVE RunsInv'
  <2>1. MovesOn(r, "done")
    BY <1>5 DEF Finish, MovesOn, Goto
  <2>2. QED
    BY <2>1, MovesOnKeeps
<1>6. ASSUME NEW r \in Requests, RunStep(r) PROVE RunsInv'
  BY <1>6, LLMStepKeeps DEF RunStep
<1>7. CASE Sync
  BY <1>7, QuietKeeps DEF Sync, Store
<1>8. CASE Settings
  BY <1>8, QuietKeeps DEF Settings, UpdateSettings
<1>9. CASE Edit \/ Boot
  BY <1>9, QuietKeeps DEF Edit, Boot
<1>10. CASE UNCHANGED vars
  BY <1>10, QuietKeeps DEF vars
<1>11. QED
  BY <1>1, <1>2, <1>3, <1>4, <1>5, <1>6, <1>7, <1>8, <1>9, <1>10
     DEF Next, Proceed

\* The text in each row of a request, cached or not, was written for that
\* processing version and the very lines that the request read of the group.
THEOREM DescriptionsAreHonest == Spec => []DescriptionsHonest
<1>1. Init => RunsInv
  BY InitRunsInv
<1>2. RunsInv /\ [Next]_vars => RunsInv'
  BY RunsStep
<1>3. RunsInv => DescriptionsHonest
  BY RunsInvImplies
<1>4. QED
  BY <1>1, <1>2, <1>3, PTL DEF Spec

\* Whatever becomes of a request, a description that was in a row of it is found
\* in the cache by the next one.
THEOREM PaidIsKeptAlways == Spec => []PaidIsKept
<1>1. Init => RunsInv
  BY InitRunsInv
<1>2. RunsInv /\ [Next]_vars => RunsInv'
  BY RunsStep
<1>3. RunsInv => PaidIsKept
  BY RunsInvImplies
<1>4. QED
  BY <1>1, <1>2, <1>3, PTL DEF Spec

-----------------------------------------------------------------------------
(* Response schemas. *)

\* A row of an llm step is of a model that was set meanwhile, and had a schema
\* only if one of these supports it.
CompletionOK(r, row) ==
    row.group = 0 =>
        /\ row.output.model \in inForce[r]
        /\ row.output.schema => inForce[r] \cap SchemaModels # {}

\* Groups that are described have numbers from 1; the model that is set was set
\* since the request began; and what is about to be asked may be asked.
SchemaInv(r) ==
    /\ todo[r] \subseteq Groups
    /\ at[r] \in {"lookup", "configure", "ask", "put"} => todo[r] # {}
    /\ at[r] \notin Ended => settings \in inForce[r]
    /\ at[r] \in {"support", "complete"} => asked[r] \in inForce[r]
    /\ at[r] = "complete" /\ schema[r] => inForce[r] \cap SchemaModels # {}
    /\ \A i \in DOMAIN rows[r] : CompletionOK(r, rows[r][i])

SchemaTypeInv ==
    /\ asked = [r \in Requests |-> asked[r]]
    /\ schema = [r \in Requests |-> schema[r]]
    /\ inForce = [r \in Requests |-> inForce[r]]

SchemasInv == SchemaTypeInv /\ \A r \in Requests : SchemaInv(r)

\* Before a request begins nothing is asked.
LEMMA InitSchemasInv == ASSUME Init PROVE SchemasInv
<1> USE DEF Init, ReadsInit, LLMInit
<1>1. SchemaTypeInv
  BY DEF SchemaTypeInv
<1>2. ASSUME NEW r \in Requests PROVE SchemaInv(r)
  <2>1. /\ at[r] = "idle" /\ todo[r] = {} /\ rows[r] = <<>>
        /\ inForce[r] = {}
    OBVIOUS
  <2>2. RunsInv
    BY InitRunsInv
  <2>3. DOMAIN rows[r] = {}
    BY <2>1, <2>2 DEF RunsInv, DescribeInv
  <2> QED BY <2>1, <2>3 DEF SchemaInv, Ended
<1> QED BY <1>1, <1>2 DEF SchemasInv

\* What stays as it was for a request, while models are added to those in force.
Untouched(q) ==
    /\ at'[q] = at[q] /\ todo'[q] = todo[q] /\ rows'[q] = rows[q]
    /\ asked'[q] = asked[q] /\ schema'[q] = schema[q]
    /\ inForce[q] \subseteq inForce'[q]
    /\ at[q] \notin Ended => settings' \in inForce'[q]

\* Then nothing is asked that may not be.
LEMMA UntouchedKeeps ==
  ASSUME NEW q, SchemaInv(q), Untouched(q)
  PROVE  SchemaInv(q)'
<1>1. \A i \in DOMAIN rows[q] : CompletionOK(q, rows[q][i])'
  BY DEF SchemaInv, CompletionOK, Untouched
<1>2. (at[q] = "complete" /\ schema[q] => inForce[q] \cap SchemaModels # {})'
  BY Zenon DEF SchemaInv, Untouched
<1> QED BY <1>1, <1>2 DEF SchemaInv, Untouched

\* What a request that moves on may have changed.
MovedOn(r) ==
    /\ settings' = settings
    /\ at' = [q \in Requests |-> IF q = r THEN at'[r] ELSE at[q]]
    /\ todo' = [q \in Requests |-> IF q = r THEN todo'[r] ELSE todo[q]]
    /\ rows' = [q \in Requests |-> IF q = r THEN rows'[r] ELSE rows[q]]
    /\ asked' = [q \in Requests |-> IF q = r THEN asked'[r] ELSE asked[q]]
    /\ schema' = [q \in Requests |-> IF q = r THEN schema'[r] ELSE schema[q]]
    /\ inForce' = [q \in Requests |-> IF q = r THEN inForce'[r] ELSE inForce[q]]

\* The others are untouched.
LEMMA OneMovesOn ==
  ASSUME SchemasInv, NEW r \in Requests, MovedOn(r), SchemaInv(r)'
  PROVE  SchemasInv'
<1>1. SchemaTypeInv'
  BY DEF MovedOn, SchemaTypeInv
<1>2. ASSUME NEW q \in Requests, q # r PROVE SchemaInv(q)'
  <2>1. /\ at'[q] = at[q] /\ todo'[q] = todo[q] /\ rows'[q] = rows[q]
        /\ asked'[q] = asked[q] /\ schema'[q] = schema[q] /\ inForce'[q] = inForce[q]
        /\ settings' = settings
    BY <1>2 DEF MovedOn
  <2>2. SchemaInv(q)
    BY DEF SchemasInv
  <2>3. Untouched(q)
    BY <2>1, <2>2 DEF Untouched, SchemaInv
  <2> QED BY <2>2, <2>3, UntouchedKeeps
<1> QED BY <1>1, <1>2 DEF SchemasInv

\* A step that leaves the models and the rows of a request alone.
Goes(r) ==
    /\ UNCHANGED <<settings, rows, inForce>>
    /\ \E place : at' = [at EXCEPT ![r] = place]
    /\ UNCHANGED todo \/ \E t : todo' = [todo EXCEPT ![r] = t]
    /\ UNCHANGED asked \/ \E m : asked' = [asked EXCEPT ![r] = m]
    /\ UNCHANGED schema \/ \E b : schema' = [schema EXCEPT ![r] = b]

\* Where it goes, what is needed there must be.
LEMMA GoesKeeps ==
  ASSUME RunsInv, SchemasInv, NEW r \in Requests, Goes(r), at[r] \notin Ended,
         todo'[r] \subseteq Groups,
         at'[r] \in {"lookup", "configure", "ask", "put"} => todo'[r] # {},
         at'[r] \in {"support", "complete"} => asked'[r] \in inForce[r],
         at'[r] = "complete" /\ schema'[r] => inForce[r] \cap SchemaModels # {}
  PROVE  SchemasInv'
<1>1. LLMTypeInv /\ SchemaTypeInv /\ SchemaInv(r)
  BY DEF RunsInv, SchemasInv
<1>2. at' = [q \in Requests |-> IF q = r THEN at'[r] ELSE at[q]]
  BY <1>1 DEF Goes, LLMTypeInv
<1>3. todo' = [q \in Requests |-> IF q = r THEN todo'[r] ELSE todo[q]]
  BY <1>1 DEF Goes, LLMTypeInv
<1>4. asked' = [q \in Requests |-> IF q = r THEN asked'[r] ELSE asked[q]]
  BY <1>1 DEF Goes, SchemaTypeInv
<1>5. schema' = [q \in Requests |-> IF q = r THEN schema'[r] ELSE schema[q]]
  BY <1>1 DEF Goes, SchemaTypeInv
<1>6. /\ rows' = [q \in Requests |-> IF q = r THEN rows'[r] ELSE rows[q]]
      /\ inForce' = [q \in Requests |-> IF q = r THEN inForce'[r] ELSE inForce[q]]
  BY <1>1 DEF Goes, LLMTypeInv, SchemaTypeInv
<1>7. MovedOn(r)
  BY <1>2, <1>3, <1>4, <1>5, <1>6 DEF MovedOn, Goes
<1>8. \A i \in DOMAIN rows[r] : CompletionOK(r, rows[r][i])'
  BY <1>1 DEF SchemaInv, CompletionOK, Goes
<1>9. (at[r] = "complete" /\ schema[r] => inForce[r] \cap SchemaModels # {})'
  BY Zenon DEF Goes
<1>10. SchemaInv(r)'
  BY <1>1, <1>8, <1>9 DEF SchemaInv, Goes
<1> QED BY <1>7, <1>10, OneMovesOn

\* A row is added; what it says of an llm step is in force.
LEMMA RowKeeps ==
  ASSUME RunsInv, SchemasInv, NEW r \in Requests, NEW row, NEW place,
         place \in {"run", "lookup"}, place = "lookup" => todo'[r] # {},
         at' = [at EXCEPT ![r] = place],
         rows' = [rows EXCEPT ![r] = Append(@, row)],
         UNCHANGED <<settings, inForce>>,
         UNCHANGED todo \/ \E t \in SUBSET Groups : todo' = [todo EXCEPT ![r] = t],
         UNCHANGED asked \/ \E m : asked' = [asked EXCEPT ![r] = m],
         UNCHANGED schema \/ \E b : schema' = [schema EXCEPT ![r] = b],
         at[r] \notin Ended, CompletionOK(r, row)
  PROVE  SchemasInv'
<1>1. LLMTypeInv /\ SchemaTypeInv /\ SchemaInv(r) /\ IsSequence(rows[r])
  BY DEF RunsInv, SchemasInv, DescribeInv
<1>2. at' = [q \in Requests |-> IF q = r THEN at'[r] ELSE at[q]] /\ at'[r] = place
  BY <1>1 DEF LLMTypeInv
<1>3. todo' = [q \in Requests |-> IF q = r THEN todo'[r] ELSE todo[q]]
  BY <1>1 DEF LLMTypeInv
<1>4. asked' = [q \in Requests |-> IF q = r THEN asked'[r] ELSE asked[q]]
  BY <1>1 DEF SchemaTypeInv
<1>5. schema' = [q \in Requests |-> IF q = r THEN schema'[r] ELSE schema[q]]
  BY <1>1 DEF SchemaTypeInv
<1>6. /\ rows' = [q \in Requests |-> IF q = r THEN rows'[r] ELSE rows[q]]
      /\ inForce' = [q \in Requests |-> IF q = r THEN inForce'[r] ELSE inForce[q]]
      /\ rows'[r] = Append(rows[r], row)
  BY <1>1 DEF LLMTypeInv, SchemaTypeInv
<1>7. MovedOn(r)
  BY <1>2, <1>3, <1>4, <1>5, <1>6 DEF MovedOn
<1>8. ASSUME NEW i \in DOMAIN rows'[r] PROVE CompletionOK(r, rows[r][i])'
  <2>1. \/ i \in DOMAIN rows[r] /\ rows'[r][i] = rows[r][i]
        \/ rows'[r][i] = row
    BY <1>1, <1>6, Appending
  <2>2. CompletionOK(r, rows'[r][i])
    BY <1>1, <2>1 DEF SchemaInv
  <2> QED BY <2>2 DEF CompletionOK
<1>9. todo'[r] \subseteq Groups
  BY <1>1 DEF SchemaInv, LLMTypeInv
<1>10. SchemaInv(r)'
  BY <1>1, <1>2, <1>8, <1>9 DEF SchemaInv
<1> QED BY <1>7, <1>10, OneMovesOn

\* The group whose turn it is, is one of those that are due.
LEMMA GroupIsDue ==
  ASSUME NEW r, todo[r] \subseteq Groups, todo[r] # {}
  PROVE  Group(r) \in todo[r] /\ Group(r) # 0
<1> DEFINE T == todo[r]
<1>1. T \in SUBSET Nat /\ 0 \notin T /\ T # {}
  BY LLMAssumption
<1> HIDE DEF T
<1>2. PICK m \in T : \A n \in T : m =< n
  BY <1>1, LeastElement
<1>3. Min(T) = m
  <2>1. T \in SUBSET Int /\ m \in T
    BY <1>1, <1>2
  <2> QED BY <1>2, <2>1, MinIs
<1> QED BY <1>1, <1>2, <1>3 DEF Group, T

\* A description is a row of a group.
LEMMA DescriptionKeeps ==
  ASSUME RunsInv, SchemasInv, NEW r \in Requests, NEW text, AppendRow(r, text),
         at[r] \in {"lookup", "put"}, UNCHANGED <<settings, inForce, schema>>,
         UNCHANGED asked \/ \E m : asked' = [asked EXCEPT ![r] = m]
  PROVE  SchemasInv'
<1> DEFINE row == [group |-> Group(r), version |-> version[r], output |-> text]
           t == todo[r] \ {Group(r)}
           place == IF todo[r] = {Group(r)} THEN "run" ELSE "lookup"
<1>1. LLMTypeInv /\ SchemaInv(r)
  BY DEF RunsInv, SchemasInv
<1>2. todo[r] \subseteq Groups /\ todo[r] # {} /\ at[r] \notin Ended
  BY <1>1 DEF SchemaInv, Ended
<1>3. Group(r) # 0 /\ Group(r) \in todo[r]
  BY <1>2, GroupIsDue
<1>4. /\ rows' = [rows EXCEPT ![r] = Append(@, row)]
      /\ todo' = [todo EXCEPT ![r] = t] /\ at' = [at EXCEPT ![r] = place]
  BY DEF AppendRow, Goto
<1>5. t \in SUBSET Groups /\ (place = "lookup" => t # {}) /\ todo'[r] = t
  BY <1>1, <1>2, <1>3, <1>4 DEF LLMTypeInv
<1>6. place \in {"run", "lookup"}
  OBVIOUS
<1>7. CompletionOK(r, row)
  <2>1. row.group # 0
    BY <1>3
  <2> HIDE DEF row
  <2> QED BY <2>1 DEF CompletionOK
<1> HIDE DEF row, t, place
<1> QED BY <1>2, <1>4, <1>5, <1>6, <1>7, RowKeeps

\* An llm step asks what was found to be right.
LEMMA CompletionKeeps ==
  ASSUME RunsInv, SchemasInv, NEW r \in Requests, Complete(r)
  PROVE  SchemasInv'
<1> DEFINE row == [group |-> 0, output |-> [model |-> asked[r], schema |-> schema[r]]]
<1>1. LLMTypeInv /\ SchemaInv(r) /\ at[r] = "complete"
  BY DEF RunsInv, SchemasInv, Complete
<1>2. /\ rows' = [rows EXCEPT ![r] = Append(@, row)]
      /\ asked' = [asked EXCEPT ![r] = None] /\ schema' = [schema EXCEPT ![r] = FALSE]
      /\ at' = [at EXCEPT ![r] = "run"] /\ UNCHANGED <<settings, inForce, todo>>
  BY DEF Complete, Goto
<1>3. CompletionOK(r, row)
  <2>1. asked[r] \in inForce[r]
    BY <1>1 DEF SchemaInv
  <2>2. schema[r] => inForce[r] \cap SchemaModels # {}
    BY <1>1, Zenon DEF SchemaInv
  <2>3. row.output.model = asked[r] /\ row.output.schema = schema[r]
    OBVIOUS
  <2> HIDE DEF row
  <2>4. row.output.schema => inForce[r] \cap SchemaModels # {}
    BY <2>2, <2>3, Zenon
  <2> QED BY <2>1, <2>3, <2>4, Zenon DEF CompletionOK
<1>4. at[r] \notin Ended
  BY <1>1 DEF Ended
<1> HIDE DEF row
<1> QED BY <1>2, <1>3, <1>4, RowKeeps

\* A step of a pipeline.
LEMMA LLMStepSchemas ==
  ASSUME ReadsInv, RunsInv, SchemasInv, NEW r \in Requests, LLMStep(r)
  PROVE  SchemasInv'
<1>1. LLMTypeInv /\ SchemaTypeInv /\ SchemaInv(r)
  BY DEF RunsInv, SchemasInv
<1> USE DEF Goes, Goto, readVars, llmVars, stepVars
<1>2. CASE BeginDescribe(r)
  <2>1. Goes(r) /\ at[r] \notin Ended
    BY <1>2 DEF BeginDescribe, Begin, Ended
  <2>2. /\ todo'[r] = GroupsRead(r) /\ at'[r] \in {"run", "lookup"}
        /\ at'[r] = "lookup" => GroupsRead(r) # {}
    BY <1>1, <1>2 DEF BeginDescribe, LLMTypeInv
  <2>3. GroupsRead(r) \subseteq Groups
    <3>1. reads[r] \in Seq(SUBSET Events)
      BY DEF ReadsInv, ReadTypeInv
    <3>2. Got(r) \subseteq Events
      BY <3>1 DEF Got
    <3> QED BY <3>2, LLMAssumption DEF GroupsRead
  <2> QED BY <2>1, <2>2, <2>3, GoesKeeps
<1>3. CASE CacheHit(r)
  <2>1. AppendRow(r, cache[CacheKey(r, Group(r))]) /\ at[r] = "lookup"
        /\ UNCHANGED <<settings, inForce, schema, asked>>
    BY <1>3 DEF CacheHit
  <2> QED BY <2>1, DescriptionKeeps
<1>4. CASE CacheMiss(r)
  <2>1. Goes(r) /\ at[r] = "lookup" /\ UNCHANGED todo
    BY <1>4 DEF CacheMiss
  <2>2. at'[r] = "configure"
    BY <1>1, <1>4 DEF CacheMiss, LLMTypeInv
  <2> QED BY <1>1, <2>1, <2>2, GoesKeeps DEF SchemaInv, Ended
<1>5. CASE ConfigureDescribe(r)
  <2>1. Goes(r) /\ at[r] = "configure" /\ UNCHANGED todo
    BY <1>5 DEF ConfigureDescribe, Configure
  <2>2. at'[r] = "ask"
    BY <1>1, <1>5 DEF ConfigureDescribe, Configure, LLMTypeInv
  <2> QED BY <1>1, <2>1, <2>2, GoesKeeps DEF SchemaInv, Ended
<1>6. CASE Describe(r)
  <2>1. Goes(r) /\ at[r] = "ask" /\ UNCHANGED todo
    BY <1>6 DEF Describe
  <2>2. at'[r] = "put"
    BY <1>1, <1>6 DEF Describe, LLMTypeInv
  <2> QED BY <1>1, <2>1, <2>2, GoesKeeps DEF SchemaInv, Ended
<1>7. CASE Put(r)
  <2>1. AppendRow(r, answer[r]) /\ at[r] = "put" /\ UNCHANGED <<settings, inForce, schema>>
        /\ asked' = [asked EXCEPT ![r] = None]
    BY <1>7 DEF Put
  <2> QED BY <2>1, DescriptionKeeps
<1>8. CASE DiffFails(r) \/ CallFails(r)
  <2>1. Goes(r) /\ at[r] \in Calling /\ UNCHANGED todo
    BY <1>8 DEF DiffFails, CallFails, Calling
  <2>2. at'[r] = "failed"
    BY <1>1, <1>8 DEF DiffFails, CallFails, AfterError, LLMTypeInv
  <2> QED BY <1>1, <2>1, <2>2, GoesKeeps DEF SchemaInv, Ended, Calling
<1>9. CASE BeginComplete(r)
  <2>1. Goes(r) /\ at[r] = "run" /\ UNCHANGED todo
    BY <1>9 DEF BeginComplete, Begin
  <2>2. at'[r] = "prepare"
    BY <1>1, <1>9 DEF BeginComplete, LLMTypeInv
  <2> QED BY <1>1, <2>1, <2>2, GoesKeeps DEF SchemaInv, Ended
<1>10. CASE ConfigureComplete(r)
  <2>1. Goes(r) /\ at[r] = "prepare" /\ UNCHANGED <<todo, schema>>
    BY <1>10 DEF ConfigureComplete, Configure
  <2>2. asked'[r] = settings /\ at'[r] \in {"support", "complete"}
    BY <1>1, <1>10 DEF ConfigureComplete, Configure, LLMTypeInv, SchemaTypeInv
  <2>3. ASSUME at'[r] = "complete" PROVE ~schema[r]
    <3>1. at' = [at EXCEPT ![r] = IF schema[r] THEN "support" ELSE "complete"]
      BY <1>10, Zenon DEF ConfigureComplete, Configure
    <3>2. at'[r] = IF schema[r] THEN "support" ELSE "complete"
      BY <1>1, <3>1, Zenon DEF LLMTypeInv
    <3>3. "support" # "complete"
      OBVIOUS
    <3> QED BY <2>3, <3>2, <3>3, Zenon
  <2>4. at'[r] = "complete" /\ schema'[r] => inForce[r] \cap SchemaModels # {}
    BY <2>1, <2>3, Zenon
  <2>5. settings \in inForce[r] /\ at[r] \notin Ended
    BY <1>1, <2>1 DEF SchemaInv, Ended
  <2> QED BY <1>1, <2>1, <2>2, <2>4, <2>5, GoesKeeps DEF SchemaInv
<1>11. CASE SupportsJSONSchema(r)
  <2>1. Goes(r) /\ at[r] = "support" /\ UNCHANGED <<todo, asked>>
    BY <1>11 DEF SupportsJSONSchema
  <2>2. schema'[r] = (settings \in SchemaModels) /\ at'[r] = "complete"
    BY <1>1, <1>11 DEF SupportsJSONSchema, LLMTypeInv, SchemaTypeInv
  <2>3. settings \in inForce[r] /\ asked[r] \in inForce[r] /\ at[r] \notin Ended
    BY <1>1, <2>1 DEF SchemaInv, Ended
  <2>4. schema'[r] => inForce[r] \cap SchemaModels # {}
    BY <2>2, <2>3, Zenon
  <2> QED BY <1>1, <2>1, <2>2, <2>3, <2>4, GoesKeeps DEF SchemaInv
<1>12. CASE Complete(r)
  BY <1>12, CompletionKeeps
<1> QED BY <1>2, <1>3, <1>4, <1>5, <1>6, <1>7, <1>8, <1>9, <1>10, <1>11, <1>12 DEF LLMStep

\* Every step, of whomever.
LEMMA SchemasStep ==
  ASSUME ReadsInv, RunsInv, SchemasInv, [Next]_vars
  PROVE  SchemasInv'
<1>1. LLMTypeInv /\ SchemaTypeInv /\ \A r \in Requests : SchemaInv(r)
  BY DEF RunsInv, SchemasInv
<1> USE DEF timelineVars, readVars, llmVars, stepVars
<1>2. ASSUME NEW r \in Requests, NEW id \in Ids, NEW F \in Filters, GetTemplate(r, id, F)
      PROVE  SchemasInv'
  <2>1. /\ at[r] = "idle" /\ at' = [at EXCEPT ![r] = "reading"]
        /\ inForce' = [inForce EXCEPT ![r] = {settings}]
        /\ UNCHANGED <<settings, todo, rows, asked, schema>>
    BY <1>2 DEF GetTemplate, StartRead
  <2>2. at'[r] = "reading" /\ inForce'[r] = {settings}
    BY <1>1, <2>1 DEF LLMTypeInv, SchemaTypeInv
  <2>3. MovedOn(r)
    BY <1>1, <2>1 DEF MovedOn, LLMTypeInv, SchemaTypeInv
  <2>4. DOMAIN rows'[r] = {}
    BY <2>1 DEF RunsInv, DescribeInv
  <2>5. SchemaInv(r)'
    BY <1>1, <2>1, <2>2, <2>4 DEF SchemaInv
  <2> QED BY <2>3, <2>5, OneMovesOn
<1>3. ASSUME NEW r \in Requests, GetTemplateFails(r) PROVE SchemasInv'
  <2>1. at[r] = "idle" /\ at' = [at EXCEPT ![r] = "failed"]
        /\ UNCHANGED <<settings, inForce, todo, rows, asked, schema>>
    BY <1>3 DEF GetTemplateFails, Goto
  <2>2. at'[r] = "failed"
    BY <1>1, <2>1 DEF LLMTypeInv
  <2>3. MovedOn(r)
    BY <1>1, <2>1 DEF MovedOn, LLMTypeInv, SchemaTypeInv
  <2>4. \A i \in DOMAIN rows[r] : CompletionOK(r, rows[r][i])'
    BY <1>1, <2>1 DEF SchemaInv, CompletionOK
  <2>5. SchemaInv(r)'
    BY <1>1, <2>1, <2>2, <2>4 DEF SchemaInv, Ended
  <2> QED BY <2>3, <2>5, OneMovesOn
<1>4. ASSUME NEW r \in Requests, ReadTimeline(r) \/ BuildPipeline(r) \/ Finish(r)
      PROVE  SchemasInv'
  <2>1. /\ UNCHANGED <<settings, inForce, todo, rows, asked, schema>>
        /\ at[r] \in {"reading", "read", "run"}
    BY <1>4 DEF ReadTimeline, QueryPage, QueryFails, BuildPipeline, Finish
  <2>2. UNCHANGED at \/ \E place \in {"read", "run", "failed", "done"} :
                           at' = [at EXCEPT ![r] = place]
    BY <1>4 DEF ReadTimeline, QueryPage, QueryFails, BuildPipeline, Finish, Goto
  <2>3. at' = [at EXCEPT ![r] = at'[r]] /\ at'[r] \in {"reading", "read", "run", "failed", "done"}
    BY <1>1, <2>1, <2>2 DEF LLMTypeInv
  <2>4. Goes(r) /\ at[r] \notin Ended /\ todo'[r] \subseteq Groups
    BY <1>1, <2>1, <2>3 DEF Goes, Ended, SchemaInv
  <2> QED BY <2>3, <2>4, GoesKeeps
<1>5. ASSUME NEW r \in Requests, RunStep(r) PROVE SchemasInv'
  BY <1>5, LLMStepSchemas DEF RunStep
<1>6. CASE Settings
  <2>1. PICK m : /\ settings' = m /\ UNCHANGED <<at, todo, rows, asked, schema>>
                 /\ inForce' = [r \in Requests |->
                                  IF at[r] \in Ended THEN inForce[r] ELSE inForce[r] \cup {m}]
    BY <1>6 DEF Settings, UpdateSettings
  <2>2. ASSUME NEW q \in Requests PROVE SchemaInv(q)'
    <3>1. Untouched(q)
      BY <2>1 DEF Untouched
    <3> QED BY <1>1, <3>1, UntouchedKeeps
  <2>3. SchemaTypeInv'
    BY <1>1, <2>1 DEF SchemaTypeInv
  <2> QED BY <2>2, <2>3 DEF SchemasInv
<1>7. CASE Sync \/ Edit \/ Boot \/ UNCHANGED vars
  <2>1. UNCHANGED <<at, settings, inForce, todo, rows, asked, schema>>
    BY <1>7 DEF Sync, Store, Edit, Boot, vars
  <2>2. ASSUME NEW q \in Requests PROVE SchemaInv(q)'
    <3>1. Untouched(q)
      BY <1>1, <2>1 DEF Untouched, SchemaInv
    <3> QED BY <1>1, <3>1, UntouchedKeeps
  <2>3. SchemaTypeInv'
    BY <1>1, <2>1 DEF SchemaTypeInv
  <2> QED BY <2>2, <2>3 DEF SchemasInv
<1> QED BY <1>2, <1>3, <1>4, <1>5, <1>6, <1>7 DEF Next, Proceed

\* Whatever the settings are changed to, and whenever: an llm step asks a model
\* that was set meanwhile, and sends it a schema only if one of these supports
\* schemas (llm_step_client.go; llm_runtime.go).
THEOREM SchemasAreSupported == Spec => []SchemaSupported
<1>1. Init => ReadsInv /\ RunsInv /\ SchemasInv
  BY InitReadsInv, InitRunsInv, InitSchemasInv DEF Init
<1>2. ReadsInv /\ RunsInv /\ SchemasInv /\ [Next]_vars => (ReadsInv /\ RunsInv /\ SchemasInv)'
  BY ReadsStep, RunsStep, SchemasStep
<1>3. SchemasInv => SchemaSupported
  BY DEF SchemasInv, SchemaInv, CompletionOK, SchemaSupported
<1> QED BY <1>1, <1>2, <1>3, PTL DEF Spec

=============================================================================
