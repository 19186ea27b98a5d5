--------------------------- MODULE TimesheetProofs ---------------------------
(***************************************************************************)
(* What the steps of a timesheet compute together, for every timeline,     *)
(* every set of windows and every length of a day: sessions are the        *)
(* clusters of each owner's events, and what is left of them after         *)
(* exclude-off-time is the lead-in and the seconds that lie in no window.  *)
(*                                                                         *)
(* The argument.  What the loops make of the first k events is cut at      *)
(* numbers c[1] < c[2] < ..., where more than the gap lies between two     *)
(* events; in a sorted sequence these are the times with a pause before    *)
(* them.  Each owner's events are found in the timeline once, and each     *)
(* owner's sessions in the result once.  A day and a window take of a      *)
(* session the seconds of that day in that window; the sum over days and   *)
(* windows counts each such second once, unless two windows have it.       *)
(*                                                                         *)
(* Then the documents: rows, blocks and cells stay lists on the way from   *)
(* the steps to a file, so an export has the cells of what it exports.     *)
(* And their totals: days and buckets are parts of the timeline that do    *)
(* not overlap, so sums by part add up; what a row of totals adds is in    *)
(* another field, or comes last.                                           *)
(***************************************************************************)
EXTENDS DocumentsProofs

-----------------------------------------------------------------------------
(* The loops of sessionize, one event after the other. *)

\* groupByOwner, one event after the other: g[k] is what it has after k events.
EventsByStep(g, E, tl, o) ==
    /\ g \in [0..Len(tl) -> Seq(E)]
    /\ g[0] = <<>> /\ EventsOf(tl, o) = g[Len(tl)]
    /\ \A k \in 1..Len(tl) :
         g[k] = IF tl[k].owner = o THEN Append(g[k-1], tl[k]) ELSE g[k-1]

\* An owner's events are collected in one pass.
LEMMA EventsOfSteps ==
  ASSUME NEW E, NEW tl \in Seq(E), NEW o
  PROVE  \E g : EventsByStep(g, E, tl, o)
<1> DEFINE n == Len(tl)
           V == Seq(E)
           Next1(k, v) == IF tl[k].owner = o THEN Append(v, tl[k]) ELSE v
           op == [p \in (1..n) \X V |-> Next1(p[1], p[2])]
           Obeys(h) == h = [s \in SUBSET DOMAIN tl |->
                              IF s = {} THEN <<>>
                              ELSE LET x == Max(s) IN Next1(x, h[s \ {x}])]
           it == CHOOSE h : Obeys(h)
<1>1. n \in Nat /\ DOMAIN tl = 1..n /\ <<>> \in V
  OBVIOUS
<1>2. op \in [(1..n) \X V -> V] /\ \A k \in 1..n, v \in V : op[k, v] = Next1(k, v)
  <2>1. \A k \in 1..n, v \in V : Next1(k, v) \in V
    OBVIOUS
  <2>2. ASSUME NEW k \in 1..n, NEW v \in V PROVE op[k, v] = Next1(k, v)
    <3>1. <<k, v>> \in (1..n) \X V
      OBVIOUS
    <3> HIDE DEF Next1, V, n
    <3>2. op[<<k, v>>] = Next1(k, v)
      BY <3>1
    <3> QED BY <3>2
  <2> HIDE DEF Next1, V, n
  <2> QED BY <2>1, <2>2
<1>3. EventsOf(tl, o) = it[DOMAIN tl]
  BY DEF EventsOf, FoldLeft, MapThenFoldSet
<1> HIDE DEF n, V, Next1, op
<1>4. \E h : Obeys(h)
  <2>1. PICK h \in [SUBSET (1..n) -> V] : FoldEquation(h, n, <<>>, op)
    BY <1>1, <1>2, FoldLeftExists
  <2>2. ASSUME NEW s \in SUBSET (1..n)
        PROVE  h[s] = IF s = {} THEN <<>> ELSE Next1(Max(s), h[s \ {Max(s)}])
    <3>1. s # {} => Max(s) \in 1..n
      BY <1>1, MaxExists
    <3>2. h[s \ {Max(s)}] \in V
      BY <2>1
    <3> QED BY <1>2, <2>1, <3>1, <3>2 DEF FoldEquation
  <2>3. Obeys(h)
    BY <1>1, <2>1, <2>2
  <2> HIDE DEF Obeys
  <2> QED BY <2>3
<1>5. Obeys(it)
  <2> HIDE DEF Obeys
  <2> QED BY <1>4
<1> HIDE DEF it
<1>6. FoldsLeft(it, n, V, <<>>, op)
  <2>1. it[{}] = <<>>
    BY <1>5
  <2>2. ASSUME NEW s \in SUBSET (1..n), s # {}, it[s \ {Max(s)}] \in V
        PROVE  it[s] = op[Max(s), it[s \ {Max(s)}]]
    <3>1. Max(s) \in 1..n
      BY <1>1, <2>2, MaxExists
    <3>2. it[s] = Next1(Max(s), it[s \ {Max(s)}])
      BY <1>1, <1>5, <2>2
    <3> QED BY <1>2, <2>2, <3>1, <3>2
  <2> QED BY <2>1, <2>2 DEF FoldsLeft
<1> DEFINE g == [k \in 0..n |-> it[1..k]]
<1>7. FoldSteps(g, n, V, <<>>, op)
  BY <1>1, <1>2, <1>6, FoldLeftSteps
<1>8. \A k \in 1..n : g[k] = Next1(k, g[k-1])
  <2> HIDE DEF g
  <2> QED BY <1>2, <1>7 DEF FoldSteps
<1>9. g[n] = it[DOMAIN tl]
  BY <1>1
<1> HIDE DEF g
<1>10. EventsByStep(g, E, tl, o)
  BY <1>3, <1>7, <1>8, <1>9 DEF n, V, Next1, FoldSteps, EventsByStep
<1> QED BY <1>10

\* The owners of groupByOwner, one event after the other.
OwnersByStep(g, O, tl) ==
    /\ g \in [0..Len(tl) -> Seq(O)]
    /\ g[0] = <<>> /\ Owners(tl) = g[Len(tl)]
    /\ \A k \in 1..Len(tl) :
         g[k] = IF Contains(g[k-1], tl[k].owner) THEN g[k-1]
                ELSE Append(g[k-1], tl[k].owner)

\* So are the owners.
LEMMA OwnersSteps ==
  ASSUME NEW O, NEW E, \A e \in E : e.owner \in O, NEW tl \in Seq(E)
  PROVE  \E g : OwnersByStep(g, O, tl)
<1> DEFINE n == Len(tl)
           V == Seq(O)
           Next1(k, v) == IF Contains(v, tl[k].owner) THEN v
                          ELSE Append(v, tl[k].owner)
           op == [p \in (1..n) \X V |-> Next1(p[1], p[2])]
           Obeys(h) == h = [s \in SUBSET DOMAIN tl |->
                              IF s = {} THEN <<>>
                              ELSE LET x == Max(s) IN Next1(x, h[s \ {x}])]
           it == CHOOSE h : Obeys(h)
<1>1. n \in Nat /\ DOMAIN tl = 1..n /\ <<>> \in V
  OBVIOUS
<1>2. op \in [(1..n) \X V -> V] /\ \A k \in 1..n, v \in V : op[k, v] = Next1(k, v)
  <2>1. \A k \in 1..n, v \in V : Next1(k, v) \in V
    BY DEF Contains
  <2>2. ASSUME NEW k \in 1..n, NEW v \in V PROVE op[k, v] = Next1(k, v)
    <3>1. <<k, v>> \in (1..n) \X V
      OBVIOUS
    <3> HIDE DEF Next1, V, n
    <3>2. op[<<k, v>>] = Next1(k, v)
      BY <3>1
    <3> QED BY <3>2
  <2> HIDE DEF Next1, V, n
  <2> QED BY <2>1, <2>2
<1>3. Owners(tl) = it[DOMAIN tl]
  BY DEF Owners, FoldLeft, MapThenFoldSet
<1> HIDE DEF n, V, Next1, op
<1>4. \E h : Obeys(h)
  <2>1. PICK h \in [SUBSET (1..n) -> V] : FoldEquation(h, n, <<>>, op)
    BY <1>1, <1>2, FoldLeftExists
  <2>2. ASSUME NEW s \in SUBSET (1..n)
        PROVE  h[s] = IF s = {} THEN <<>> ELSE Next1(Max(s), h[s \ {Max(s)}])
    <3>1. s # {} => Max(s) \in 1..n
      BY <1>1, MaxExists
    <3>2. h[s \ {Max(s)}] \in V
      BY <2>1
    <3> QED BY <1>2, <2>1, <3>1, <3>2 DEF FoldEquation
  <2>3. Obeys(h)
    BY <1>1, <2>1, <2>2
  <2> HIDE DEF Obeys
  <2> QED BY <2>3
<1>5. Obeys(it)
  <2> HIDE DEF Obeys
  <2> QED BY <1>4
<1> HIDE DEF it
<1>6. FoldsLeft(it, n, V, <<>>, op)
  <2>1. it[{}] = <<>>
    BY <1>5
  <2>2. ASSUME NEW s \in SUBSET (1..n), s # {}, it[s \ {Max(s)}] \in V
        PROVE  it[s] = op[Max(s), it[s \ {Max(s)}]]
    <3>1. Max(s) \in 1..n
      BY <1>1, <2>2, MaxExists
    <3>2. it[s] = Next1(Max(s), it[s \ {Max(s)}])
      BY <1>1, <1>5, <2>2
    <3> QED BY <1>2, <2>2, <3>1, <3>2
  <2> QED BY <2>1, <2>2 DEF FoldsLeft
<1> DEFINE g == [k \in 0..n |-> it[1..k]]
<1>7. FoldSteps(g, n, V, <<>>, op)
  BY <1>1, <1>2, <1>6, FoldLeftSteps
<1>8. \A k \in 1..n : g[k] = Next1(k, g[k-1])
  <2> HIDE DEF g
  <2> QED BY <1>2, <1>7 DEF FoldSteps
<1>9. g[n] = it[DOMAIN tl]
  BY <1>1
<1> HIDE DEF g
<1>10. OwnersByStep(g, O, tl)
  BY <1>3, <1>7, <1>8, <1>9 DEF n, V, Next1, FoldSteps, OwnersByStep
<1> QED BY <1>10

\* sessionizeOwner's loop.
Cluster(O) == [owner : O, start : Int, end : Int, count : Nat]

\* The session that begins with e.
Begun(e) == [owner |-> e.owner, start |-> e.ts, end |-> e.ts, count |-> 1]

\* The loop of sessionizeOwner, for event e.
Taking(ss, e) ==
    IF ss = <<>> \/ NewSession(e, Last(ss))
    THEN Append(ss, Begun(e))
    ELSE [ss EXCEPT ![Len(ss)].end = e.ts, ![Len(ss)].count = @ + 1]

\* It keeps sequences of clusters.
LEMMA ClusterGrows ==
  ASSUME NEW O, NEW s \in Cluster(O), NEW t
  PROVE  [s EXCEPT !.end = t, !.count = @ + 1]
           = [owner |-> s.owner, start |-> s.start, end |-> t, count |-> s.count + 1]
<1>1. [s EXCEPT !.end = t, !.count = @ + 1]
        = [[s EXCEPT !.end = t] EXCEPT !.count = @ + 1]
  BY DEF Cluster
<1>2. [s EXCEPT !.end = t]
        = [owner |-> s.owner, start |-> s.start, end |-> t, count |-> s.count]
  BY DEF Cluster
<1> DEFINE r == [owner |-> s.owner, start |-> s.start, end |-> t, count |-> s.count]
           c == s.count + 1
<1>3. r.count + 1 = c
  OBVIOUS
<1>4. [r EXCEPT !.count = c] = [owner |-> s.owner, start |-> s.start, end |-> t, count |-> c]
  <2> HIDE DEF c
  <2> QED OBVIOUS
<1>5. [r EXCEPT !.count = @ + 1] = [r EXCEPT !.count = c]
  <2> HIDE DEF r, c
  <2> QED BY <1>3
<1> HIDE DEF r
<1> QED BY <1>1, <1>2, <1>4, <1>5 DEF r

\* g[k] is what the loop has after k events.
ClustersByStep(g, O, tl) ==
    /\ g \in [0..Len(tl) -> Seq(Cluster(O))]
    /\ g[0] = <<>> /\ FoldLeft(Taking, <<>>, tl) = g[Len(tl)]
    /\ \A k \in 1..Len(tl) : g[k] = Taking(g[k-1], tl[k])

\* sessionizeOwner is one pass as well.
LEMMA TakingSteps ==
  ASSUME NEW O, NEW E, \A e \in E : e.owner \in O /\ e.ts \in Int,
         NEW tl \in Seq(E)
  PROVE  \E g : ClustersByStep(g, O, tl)
<1> DEFINE n == Len(tl)
           V == Seq(Cluster(O))
           Next1(k, v) == Taking(v, tl[k])
           op == [p \in (1..n) \X V |-> Next1(p[1], p[2])]
           Obeys(h) == h = [s \in SUBSET DOMAIN tl |->
                              IF s = {} THEN <<>>
                              ELSE LET x == Max(s) IN Next1(x, h[s \ {x}])]
           it == CHOOSE h : Obeys(h)
<1>1. n \in Nat /\ DOMAIN tl = 1..n /\ <<>> \in V
  OBVIOUS
<1>2. op \in [(1..n) \X V -> V] /\ \A k \in 1..n, v \in V : op[k, v] = Next1(k, v)
  <2>1. ASSUME NEW k \in 1..n, NEW v \in V PROVE Next1(k, v) \in V
    <3> DEFINE e == tl[k]
    <3>1. e \in E /\ e.owner \in O /\ e.ts \in Int
      OBVIOUS
    <3>2. Begun(e) \in Cluster(O)
      BY <3>1 DEF Begun, Cluster
    <3>3. CASE v = <<>> \/ NewSession(e, Last(v))
      BY <3>2, <3>3 DEF Taking
    <3>4. CASE ~(v = <<>> \/ NewSession(e, Last(v)))
      <4> DEFINE m == Len(v)
      <4>1. m \in 1..m /\ v \in [1..m -> Cluster(O)] /\ v[m] \in Cluster(O)
        BY <3>4
      <4> DEFINE r == [v[m] EXCEPT !.end = e.ts, !.count = @ + 1]
      <4>2. r \in Cluster(O)
        <5> DEFINE s == v[m]
        <5>1. s \in Cluster(O)
          BY <4>1
        <5> HIDE DEF s, m
        <5> DEFINE t == e.ts
        <5> HIDE DEF t, e
        <5>2. [s EXCEPT !.end = t, !.count = @ + 1]
                = [owner |-> s.owner, start |-> s.start, end |-> t,
                   count |-> s.count + 1]
          BY <5>1, ClusterGrows
        <5> USE DEF t, e
        <5>3. [s EXCEPT !.end = e.ts, !.count = @ + 1] \in Cluster(O)
          BY <3>1, <5>1, <5>2 DEF Cluster
        <5> QED BY <5>3 DEF s
      <4>3. Next1(k, v) = [v EXCEPT ![m] = r]
        BY <3>4 DEF Taking
      <4> HIDE DEF r, m, e
      <4>4. [v EXCEPT ![m] = r] \in [1..m -> Cluster(O)]
        BY <4>1, <4>2
      <4>5. m \in Nat
        BY DEF m
      <4> HIDE DEF Next1
      <4> QED BY <4>3, <4>4, <4>5
    <3> QED BY <3>3, <3>4
  <2>2. ASSUME NEW k \in 1..n, NEW v \in V PROVE op[k, v] = Next1(k, v)
    <3>1. <<k, v>> \in (1..n) \X V
      OBVIOUS
    <3> HIDE DEF Next1, V, n
    <3>2. op[<<k, v>>] = Next1(k, v)
      BY <3>1
    <3> QED BY <3>2
  <2> HIDE DEF Next1, V, n
  <2> QED BY <2>1, <2>2
<1>3. FoldLeft(Taking, <<>>, tl) = it[DOMAIN tl]
  BY DEF FoldLeft, MapThenFoldSet
<1> HIDE DEF n, V, Next1, op
<1>4. \E h : Obeys(h)
  <2>1. PICK h \in [SUBSET (1..n) -> V] : FoldEquation(h, n, <<>>, op)
    BY <1>1, <1>2, FoldLeftExists
  <2>2. ASSUME NEW s \in SUBSET (1..n)
        PROVE  h[s] = IF s = {} THEN <<>> ELSE Next1(Max(s), h[s \ {Max(s)}])
    <3>1. s # {} => Max(s) \in 1..n
      BY <1>1, MaxExists
    <3>2. h[s \ {Max(s)}] \in V
      BY <2>1
    <3> QED BY <1>2, <2>1, <3>1, <3>2 DEF FoldEquation
  <2>3. Obeys(h)
    BY <1>1, <2>1, <2>2
  <2> HIDE DEF Obeys
  <2> QED BY <2>3
<1>5. Obeys(it)
  <2> HIDE DEF Obeys
  <2> QED BY <1>4
<1> HIDE DEF it
<1>6. FoldsLeft(it, n, V, <<>>, op)
  <2>1. it[{}] = <<>>
    BY <1>5
  <2>2. ASSUME NEW s \in SUBSET (1..n), s # {}, it[s \ {Max(s)}] \in V
        PROVE  it[s] = op[Max(s), it[s \ {Max(s)}]]
    <3>1. Max(s) \in 1..n
      BY <1>1, <2>2, MaxExists
    <3>2. it[s] = Next1(Max(s), it[s \ {Max(s)}])
      BY <1>1, <1>5, <2>2
    <3> QED BY <1>2, <2>2, <3>1, <3>2
  <2> QED BY <2>1, <2>2 DEF FoldsLeft
<1> DEFINE g == [k \in 0..n |-> it[1..k]]
<1>7. FoldSteps(g, n, V, <<>>, op)
  BY <1>1, <1>2, <1>6, FoldLeftSteps
<1>8. \A k \in 1..n : g[k] = Next1(k, g[k-1])
  <2> HIDE DEF g
  <2> QED BY <1>2, <1>7 DEF FoldSteps
<1>9. g[n] = it[DOMAIN tl]
  BY <1>1
<1> HIDE DEF g
<1>10. ClustersByStep(g, O, tl)
  BY <1>3, <1>7, <1>8, <1>9 DEF n, V, Next1, FoldSteps, ClustersByStep
<1> QED BY <1>10

-----------------------------------------------------------------------------
(* One owner's events are cut at the pauses. *)

\* The first k events, cut where more than the gap is between two of them: the
\* i-th session begins with event c[i] and ends before event c[i + 1].
Cut(c, evs, o, ss, gap, k) ==
    LET m == Len(ss)
    IN /\ c \in [1..(m+1) -> 1..(k+1)] /\ c[1] = 1 /\ c[m+1] = k + 1
       /\ \A i, j \in 1..(m+1) : i < j => c[i] < c[j]
       /\ \A j \in 2..k : evs[j].ts - evs[j-1].ts > gap <=> \E i \in 1..m : c[i] = j
       /\ \A i \in 1..m : ss[i] = [owner |-> o, start |-> evs[c[i]].ts,
                                   end |-> evs[c[i+1] - 1].ts,
                                   count |-> c[i+1] - c[i]]

\* The gap of the step that is next.
StepGap == Param(Params, "gapSeconds", GapSeconds)

\* An event after a pause makes a cut of its own.
LEMMA CutBegins ==
  ASSUME NEW E, \A e \in E : e.ts \in Int, NEW evs \in Seq(E), NEW o, NEW O,
         NEW k \in Nat, k + 1 \in 1..Len(evs), evs[k+1].owner = o, o \in O,
         NEW ss \in Seq(Cluster(O)), NEW c, Cut(c, evs, o, ss, StepGap, k),
         ss = <<>> \/ NewSession(evs[k+1], Last(ss))
  PROVE  \E d : Cut(d, evs, o, Taking(ss, evs[k+1]), StepGap, k + 1)
<1> DEFINE m == Len(ss)
           e == evs[k+1]
           gap == StepGap
           b == Begun(e)
           tt == Append(ss, b)
           d == [i \in 1..(m+2) |-> IF i =< m + 1 THEN c[i] ELSE k + 2]
<1>1. Taking(ss, e) = tt
  BY DEF Taking
<1>2. b \in Cluster(O) /\ e \in E /\ e.ts \in Int
      /\ b = [owner |-> o, start |-> e.ts, end |-> e.ts, count |-> 1]
  BY DEF Begun, Cluster
<1>3. m \in Nat /\ Len(tt) = m + 1 /\ tt[m+1] = b /\ \A i \in 1..m : tt[i] = ss[i]
  <2> HIDE DEF b
  <2> QED BY <1>2
<1>4. /\ c \in [1..(m+1) -> 1..(k+1)] /\ c[1] = 1 /\ c[m+1] = k + 1
      /\ \A i, j \in 1..(m+1) : i < j => c[i] < c[j]
      /\ \A j \in 2..k : evs[j].ts - evs[j-1].ts > gap <=> \E i \in 1..m : c[i] = j
      /\ \A i \in 1..m : ss[i] = [owner |-> o, start |-> evs[c[i]].ts,
                                  end |-> evs[c[i+1] - 1].ts,
                                  count |-> c[i+1] - c[i]]
  BY DEF Cut
<1> HIDE DEF b, tt
<1>5. /\ d[m+2] = k + 2
      /\ \A i \in 1..(m+1) : d[i] = c[i] /\ d[i] \in 1..(k+1)
  <2>1. m + 2 \in 1..(m+2) /\ ~(m + 2 =< m + 1)
        /\ \A i \in 1..(m+1) : i \in 1..(m+2) /\ i =< m + 1
    BY <1>3
  <2> HIDE DEF m
  <2> QED BY <1>4, <2>1
<1>6. /\ d \in [1..(m+2) -> 1..(k+2)] /\ d[1] = 1 /\ d[m+1] = k + 1
      /\ \A i, j \in 1..(m+2) : i < j => d[i] < d[j]
  <2>1. \A i \in 1..(m+2) : d[i] \in 1..(k+2)
    <3> SUFFICES ASSUME NEW i \in 1..(m+2) PROVE d[i] \in 1..(k+2)
      OBVIOUS
    <3>1. i \in 1..(m+1) \/ i = m + 2
      BY <1>3
    <3> HIDE DEF d, m
    <3> QED BY <1>5, <3>1
  <2>2. 1 \in 1..(m+1) /\ m + 1 \in 1..(m+1)
    BY <1>3
  <2>3. \A i, j \in 1..(m+2) : i < j => d[i] < d[j]
    <3> SUFFICES ASSUME NEW i \in 1..(m+2), NEW j \in 1..(m+2), i < j
                 PROVE  d[i] < d[j]
      OBVIOUS
    <3>1. i \in 1..(m+1) /\ (j \in 1..(m+1) \/ j = m + 2)
      BY <1>3
    <3> HIDE DEF d, m
    <3> QED BY <1>4, <1>5, <3>1
  <2>4. d \in [1..(m+2) -> 1..(k+2)]
    BY <2>1
  <2> HIDE DEF d, m
  <2> QED BY <1>4, <1>5, <2>2, <2>3, <2>4
<1>7. ASSUME NEW j \in 2..(k+1)
      PROVE  evs[j].ts - evs[j-1].ts > gap <=> \E i \in 1..(m+1) : d[i] = j
  <2>1. CASE j \in 2..k
    <3>1. \A i \in 1..(m+1) : d[i] = j => i \in 1..m
      <4> HIDE DEF d, m
      <4> QED BY <1>3, <1>6, <2>1
    <3>2. \A i \in 1..m : i \in 1..(m+1)
      BY <1>3
    <3> HIDE DEF d, m, gap
    <3> QED BY <1>4, <1>5, <2>1, <3>1, <3>2
  <2>2. CASE j = k + 1
    <3>1. m # 0
      BY <1>4, <2>2
    <3>2. m + 1 \in 1..(m+1) /\ m \in 1..m /\ ss # <<>> /\ Last(ss) = ss[m]
      BY <1>3, <3>1 DEF Last
    <3>3. ss[m].end = evs[k].ts
      <4>1. (k + 1) - 1 = k
        OBVIOUS
      <4>2. m \in 1..m
        BY <3>2
      <4>3. c[m+1] - 1 = k
        BY <1>4, <4>1
      <4> HIDE DEF m
      <4>4. ss[m] = [owner |-> o, start |-> evs[c[m]].ts, end |-> evs[c[m+1] - 1].ts,
                     count |-> c[m+1] - c[m]]
        BY <1>4, <4>2
      <4> QED BY <4>3, <4>4
    <3>4. e.ts - ss[m].end > gap
      <4>1. NewSession(e, ss[m])
        BY <3>2
      <4> QED BY <4>1 DEF NewSession, StepGap
    <3>5. evs[j].ts - evs[j-1].ts > gap
      <4>1. j - 1 = k
        BY <2>2
      <4> QED BY <2>2, <3>3, <3>4, <4>1
    <3> HIDE DEF d, m, gap
    <3> QED BY <1>6, <2>2, <3>2, <3>5
  <2> HIDE DEF d, m, gap, e
  <2> QED BY <2>1, <2>2
<1>8. ASSUME NEW i \in 1..(m+1)
      PROVE  tt[i] = [owner |-> o, start |-> evs[d[i]].ts, end |-> evs[d[i+1] - 1].ts,
                      count |-> d[i+1] - d[i]]
  <2>1. CASE i \in 1..m
    <3>1. i \in 1..(m+1) /\ i + 1 \in 1..(m+1)
      BY <1>3, <2>1
    <3> HIDE DEF d, m
    <3> QED BY <1>3, <1>4, <1>5, <2>1, <3>1
  <2>2. CASE i = m + 1
    <3>1. i + 1 = m + 2 /\ (k + 2) - 1 = k + 1 /\ (k + 2) - (k + 1) = 1
      BY <1>3, <2>2
    <3> HIDE DEF d, m
    <3> QED BY <1>2, <1>3, <1>5, <1>6, <2>2, <3>1
  <2> QED BY <1>3, <2>1, <2>2
<1>9. Cut(d, evs, o, tt, gap, k + 1)
  <2>1. Len(tt) = m + 1 /\ (m + 1) + 1 = m + 2 /\ (k + 1) + 1 = k + 2
    BY <1>3
  <2> HIDE DEF d, m, gap
  <2> QED BY <1>6, <1>7, <1>8, <2>1, <1>5 DEF Cut
<1> QED BY <1>1, <1>9

\* Another event moves the last cut.
LEMMA CutExtends ==
  ASSUME NEW E, \A e \in E : e.ts \in Int, NEW evs \in Seq(E), NEW o, NEW O,
         NEW k \in Nat, k + 1 \in 1..Len(evs), evs[k+1].owner = o, o \in O,
         NEW ss \in Seq(Cluster(O)), NEW c, Cut(c, evs, o, ss, StepGap, k),
         ss # <<>>, ~NewSession(evs[k+1], Last(ss))
  PROVE  \E d : Cut(d, evs, o, Taking(ss, evs[k+1]), StepGap, k + 1)
<1> DEFINE m == Len(ss)
           e == evs[k+1]
           t == e.ts
           gap == StepGap
           r == [ss[m] EXCEPT !.end = t, !.count = @ + 1]
           tt == [ss EXCEPT ![m] = r]
           d == [i \in 1..(m+1) |-> IF i =< m THEN c[i] ELSE k + 2]
<1>1. Taking(ss, e) = tt
  BY DEF Taking
<1>2. /\ m \in Nat /\ m # 0 /\ m \in 1..m /\ m + 1 \in 1..(m+1) /\ 1 \in 1..m
      /\ ss \in [1..m -> Cluster(O)] /\ ss[m] \in Cluster(O)
      /\ e \in E /\ t \in Int
  BY DEF Last
<1>3. /\ c \in [1..(m+1) -> 1..(k+1)] /\ c[1] = 1 /\ c[m+1] = k + 1
      /\ \A i, j \in 1..(m+1) : i < j => c[i] < c[j]
      /\ \A j \in 2..k : evs[j].ts - evs[j-1].ts > gap <=> \E i \in 1..m : c[i] = j
      /\ \A i \in 1..m : ss[i] = [owner |-> o, start |-> evs[c[i]].ts,
                                  end |-> evs[c[i+1] - 1].ts,
                                  count |-> c[i+1] - c[i]]
  BY DEF Cut
<1>4. r = [owner |-> o, start |-> evs[c[m]].ts, end |-> t, count |-> (k + 2) - c[m]]
  <2>1. r = [owner |-> ss[m].owner, start |-> ss[m].start, end |-> t,
             count |-> ss[m].count + 1]
    <3> HIDE DEF t, m
    <3> QED BY <1>2, ClusterGrows
  <2>2. /\ ss[m].owner = o /\ ss[m].start = evs[c[m]].ts
        /\ ss[m].count = (k + 1) - c[m]
    <3> HIDE DEF m
    <3> QED BY <1>2, <1>3, SMTT(30), ZenonT(30)
  <2>3. c[m] \in Int /\ ((k + 1) - c[m]) + 1 = (k + 2) - c[m]
    <3>1. m \in 1..(m+1)
      BY <1>2
    <3>2. c[m] \in 1..(k+1)
      BY <1>3, <3>1
    <3> QED BY <3>2
  <2> HIDE DEF r, m, t
  <2> QED BY <2>1, <2>2, <2>3
<1> HIDE DEF r
<1>5. /\ Len(tt) = m /\ tt[m] = r
      /\ \A i \in 1..m : i # m => tt[i] = ss[i]
  <2> HIDE DEF r
  <2> QED BY <1>2
<1> HIDE DEF tt
<1>6. d[m+1] = k + 2 /\ \A i \in 1..m : d[i] = c[i] /\ d[i] \in 1..(k+1)
  BY <1>2, <1>3
<1>7. ASSUME NEW i \in 1..m PROVE d[i] =< k
  <2>1. i \in 1..(m+1) /\ m + 1 \in 1..(m+1) /\ i < m + 1
    BY <1>2
  <2>2. c[i] < k + 1
    <3> HIDE DEF m, d
    <3> QED BY <1>3, <2>1
  <2>3. d[i] = c[i] /\ c[i] \in 1..(k+1)
    BY <1>6
  <2> HIDE DEF d
  <2> QED BY <2>2, <2>3
<1>8. /\ d \in [1..(m+1) -> 1..(k+2)] /\ d[1] = 1
      /\ \A i, j \in 1..(m+1) : i < j => d[i] < d[j]
  <2>1. \A i \in 1..(m+1) : d[i] \in 1..(k+2)
    <3> SUFFICES ASSUME NEW i \in 1..(m+1) PROVE d[i] \in 1..(k+2)
      OBVIOUS
    <3>1. i \in 1..m \/ i = m + 1
      BY <1>2
    <3> HIDE DEF d, m
    <3> QED BY <1>6, <3>1
  <2>2. d \in [1..(m+1) -> 1..(k+2)]
    BY <2>1
  <2>3. \A i, j \in 1..(m+1) : i < j => d[i] < d[j]
    <3> SUFFICES ASSUME NEW i \in 1..(m+1), NEW j \in 1..(m+1), i < j
                 PROVE  d[i] < d[j]
      OBVIOUS
    <3>1. i \in 1..m /\ (j \in 1..m \/ j = m + 1)
      BY <1>2
    <3> HIDE DEF d, m
    <3> QED BY <1>3, <1>6, <3>1
  <2> HIDE DEF d, m
  <2> QED BY <1>2, <1>3, <1>6, <2>2, <2>3
<1>9. ASSUME NEW j \in 2..(k+1)
      PROVE  evs[j].ts - evs[j-1].ts > gap <=> \E i \in 1..m : d[i] = j
  <2>1. CASE j \in 2..k
    <3> HIDE DEF d, m, gap
    <3> QED BY <1>3, <1>6, <2>1
  <2>2. CASE j = k + 1
    <3>1. ~\E i \in 1..m : d[i] = j
      <4> HIDE DEF d, m
      <4> QED BY <1>6, <1>7, <2>2
    <3>2. ~(e.ts - ss[m].end > gap)
      <4>1. ~NewSession(e, ss[m])
        BY <1>2 DEF Last
      <4> QED BY <4>1 DEF NewSession, StepGap
    <3>3. ss[m].end = evs[k].ts
      <4>1. (k + 1) - 1 = k
        OBVIOUS
      <4> HIDE DEF m
      <4> QED BY <1>2, <1>3, <4>1, SMTT(30), ZenonT(30)
    <3>4. j - 1 = k /\ evs[j] = e
      BY <2>2
    <3> HIDE DEF d, m, gap, e
    <3> QED BY <3>1, <3>2, <3>3, <3>4
  <2>3. j \in 2..k \/ j = k + 1
    OBVIOUS
  <2> HIDE DEF d, m, gap, e
  <2> QED BY <2>1, <2>2, <2>3, Zenon
<1>10. ASSUME NEW i \in 1..m
       PROVE  tt[i] = [owner |-> o, start |-> evs[d[i]].ts, end |-> evs[d[i+1] - 1].ts,
                       count |-> d[i+1] - d[i]]
  <2>1. CASE i # m
    <3>1. i + 1 \in 1..m
      BY <1>2, <2>1
    <3> HIDE DEF d, m
    <3> QED BY <1>3, <1>5, <1>6, <2>1, <3>1
  <2>2. CASE i = m
    <3>1. (k + 2) - 1 = k + 1
      OBVIOUS
    <3> HIDE DEF d, m
    <3> QED BY <1>2, <1>4, <1>5, <1>6, <2>2, <3>1
  <2> QED BY <2>1, <2>2
<1>11. Cut(d, evs, o, tt, gap, k + 1)
  <2>1. (k + 1) + 1 = k + 2
    OBVIOUS
  <2> HIDE DEF d, m, gap
  <2> QED BY <1>5, <1>6, <1>8, <1>9, <1>10, <2>1 DEF Cut, m
<1> QED BY <1>1, <1>11

\* sessionizeOwner cuts all events of an owner.
LEMMA EventsAreCut ==
  ASSUME NEW E, \A e \in E : e.ts \in Int, NEW evs \in Seq(E), NEW o,
         \A j \in 1..Len(evs) : evs[j].owner = o
  PROVE  /\ FoldLeft(Taking, <<>>, evs) \in Seq(Cluster({o}))
         /\ \E c : Cut(c, evs, o, FoldLeft(Taking, <<>>, evs), StepGap, Len(evs))
<1> DEFINE O == {o}
           F == {e \in E : e.owner = o}
           n == Len(evs)
<1>1. \A e \in F : e.owner \in O /\ e.ts \in Int
  OBVIOUS
<1>2. evs \in Seq(F) /\ n \in Nat
  <2>1. \A j \in 1..n : evs[j] \in F
    OBVIOUS
  <2> HIDE DEF F
  <2> QED BY <2>1
<1>0. PICK g : ClustersByStep(g, O, evs)
  <2> HIDE DEF F, O
  <2> QED BY <1>1, <1>2, TakingSteps
<1>3. /\ g \in [0..n -> Seq(Cluster(O))]
      /\ g[0] = <<>> /\ FoldLeft(Taking, <<>>, evs) = g[n]
      /\ \A k \in 1..n : g[k] = Taking(g[k-1], evs[k])
  BY <1>0 DEF ClustersByStep
<1> DEFINE K == {k \in Nat : k =< n => \E c : Cut(c, evs, o, g[k], StepGap, k)}
<1>4. 0 \in K
  <2> DEFINE c == [i \in 1..1 |-> 1]
  <2>1. Len(g[0]) = 0 /\ 0 + 1 = 1
    BY <1>3
  <2>2. c \in [1..(0+1) -> 1..(0+1)] /\ c[1] = 1
    OBVIOUS
  <2>3. Cut(c, evs, o, g[0], StepGap, 0)
    <3> HIDE DEF c
    <3> QED BY <2>1, <2>2 DEF Cut
  <2> QED BY <2>3
<1>5. ASSUME NEW k \in Nat, k \in K PROVE k + 1 \in K
  <2> SUFFICES ASSUME k + 1 =< n PROVE \E c : Cut(c, evs, o, g[k+1], StepGap, k+1)
    OBVIOUS
  <2>1. k + 1 \in 1..n /\ (k + 1) - 1 = k /\ k =< n /\ k \in 0..n
    BY <1>2
  <2>2. PICK c : Cut(c, evs, o, g[k], StepGap, k)
    BY <1>5, <2>1
  <2>3. g[k+1] = Taking(g[k], evs[k+1]) /\ g[k] \in Seq(Cluster(O)) /\ o \in O
        /\ evs[k+1].owner = o
    BY <1>3, <2>1
  <2> HIDE DEF O, K, F
  <2>4. CASE g[k] = <<>> \/ NewSession(evs[k+1], Last(g[k]))
    <3>1. \E d : Cut(d, evs, o, Taking(g[k], evs[k+1]), StepGap, k + 1)
      BY <2>1, <2>2, <2>3, <2>4, CutBegins
    <3> QED BY <2>3, <3>1
  <2>5. CASE ~(g[k] = <<>> \/ NewSession(evs[k+1], Last(g[k])))
    <3>1. \E d : Cut(d, evs, o, Taking(g[k], evs[k+1]), StepGap, k + 1)
      BY <2>1, <2>2, <2>3, <2>5, CutExtends
    <3> QED BY <2>3, <3>1
  <2> QED BY <2>4, <2>5
<1>6. n \in K
  <2> HIDE DEF K
  <2> QED BY <1>2, <1>4, <1>5, SetInduction
<1>7. n \in 0..n /\ n =< n
  BY <1>2
<1> DEFINE ss == FoldLeft(Taking, <<>>, evs)
<1>8. \E c : Cut(c, evs, o, g[n], StepGap, n)
  BY <1>6, <1>7
<1> HIDE DEF ss, n, O
<1>9. ss = g[n] /\ ss \in Seq(Cluster(O)) /\ \E c : Cut(c, evs, o, ss, StepGap, n)
  BY <1>3, <1>7, <1>8 DEF ss
<1> QED BY <1>9 DEF ss, O, n

-----------------------------------------------------------------------------
(* The cuts of events in order are their clusters. *)

\* The times of T after a pause and those before one.
Begins(T, gap) == {t \in T : \A u \in T : u < t => t - u > gap}
Finishes(T, gap) == {t \in T : \A u \in T : u > t => u - t > gap}

\* The times of events that are in order of time.
TimesOfAll(evs) == {evs[j].ts : j \in 1..Len(evs)}

InOrder(evs) == \A i, j \in 1..Len(evs) : i < j => evs[i].ts =< evs[j].ts

\* A session of events that are in order is a cluster of their times.
LEMMA CutIsCluster ==
  ASSUME NEW evs, NEW n \in Nat, Len(evs) = n, \A j \in 1..n : evs[j].ts \in Int,
         InOrder(evs), NEW o, NEW gap \in Nat, NEW ss, Len(ss) \in Nat,
         NEW c, Cut(c, evs, o, ss, gap, n), NEW i \in 1..Len(ss)
  PROVE  LET a == evs[c[i]].ts
             b == evs[c[i+1] - 1].ts
             T == TimesOfAll(evs)
         IN /\ a =< b /\ a \in Begins(T, gap) /\ b \in Finishes(T, gap)
            /\ \A u \in Finishes(T, gap) : a =< u => b =< u
            /\ \A j \in 1..n : evs[j].ts \in a..b <=> j \in c[i]..(c[i+1] - 1)
            /\ c[i] \in 1..n /\ c[i+1] - 1 \in 1..n /\ c[i] =< c[i+1] - 1
<1> DEFINE m == Len(ss)
           x == c[i]
           z == c[i+1] - 1
           a == evs[x].ts
           b == evs[z].ts
           T == TimesOfAll(evs)
<1>1. /\ c \in [1..(m+1) -> 1..(n+1)] /\ c[1] = 1 /\ c[m+1] = n + 1
      /\ \A p, q \in 1..(m+1) : p < q => c[p] < c[q]
      /\ \A j \in 2..n : evs[j].ts - evs[j-1].ts > gap <=> \E p \in 1..m : c[p] = j
  BY DEF Cut
<1>2. m \in Nat /\ i \in 1..m
  OBVIOUS
<1> HIDE DEF m
<1>3. i \in 1..(m+1) /\ i + 1 \in 1..(m+1) /\ i < i + 1
  BY <1>2
<1>4. x \in 1..n /\ z \in 1..n /\ x =< z
  <2>1. x \in 1..(n+1) /\ c[i+1] \in 1..(n+1) /\ x < c[i+1]
    BY <1>1, <1>3
  <2> QED BY <2>1
<1>5. \A p, q \in 1..n : p =< q => evs[p].ts =< evs[q].ts
  BY DEF InOrder
<1>6. a \in Int /\ b \in Int /\ a =< b /\ a \in T /\ b \in T
  <2> HIDE DEF x, z
  <2> QED BY <1>4, <1>5 DEF TimesOfAll
<1>7. \A t \in T : \E j \in 1..n : t = evs[j].ts
  BY DEF TimesOfAll
\* Before and after the session there is a pause.
<1>8. ASSUME NEW j \in 1..n, j < x PROVE a - evs[j].ts > gap
  <2>1. x \in 2..n /\ x - 1 \in 1..n /\ j =< x - 1
    <3> HIDE DEF x
    <3> QED BY <1>4, <1>8
  <2>2. evs[x].ts - evs[x-1].ts > gap
    BY <1>1, <1>2, <2>1
  <2>3. evs[j].ts =< evs[x-1].ts /\ evs[j].ts \in Int /\ evs[x-1].ts \in Int
    <3> HIDE DEF x
    <3> QED BY <1>5, <2>1
  <2> QED BY <1>6, <2>2, <2>3, SMTT(30), ZenonT(30)
<1>9. ASSUME NEW j \in 1..n, z < j PROVE evs[j].ts - b > gap
  <2>1. c[i+1] = z + 1 /\ z + 1 \in 2..n /\ z + 1 =< j /\ (z + 1) - 1 = z
    <3>1. c[i+1] \in Int
      BY <1>1, <1>3
    <3>2. z = c[i+1] - 1
      OBVIOUS
    <3> HIDE DEF z
    <3> QED BY <1>4, <1>9, <3>1, <3>2
  <2>2. i + 1 \in 1..m
    <3>1. i + 1 # m + 1
      <4> HIDE DEF z
      <4> QED BY <1>1, <2>1
    <3> QED BY <1>2, <1>3, <3>1
  <2> HIDE DEF z
  <2>3. evs[z+1].ts - evs[z].ts > gap
    <3>1. evs[z+1].ts - evs[(z+1)-1].ts > gap <=> \E p \in 1..m : c[p] = z + 1
      BY <1>1, <2>1
    <3> QED BY <2>1, <2>2, <3>1
  <2>4. evs[z+1].ts =< evs[j].ts /\ evs[j].ts \in Int /\ evs[z+1].ts \in Int
        /\ evs[z].ts \in Int
    BY <1>4, <1>5, <2>1
  <2> QED BY <2>3, <2>4
\* Within the session there is none.
<1>10. ASSUME NEW j \in 1..n, x < j, j =< z PROVE evs[j].ts - evs[j-1].ts =< gap
  <2>1. j \in 2..n /\ j - 1 \in 1..n /\ x \in Int /\ z \in Int
    <3> HIDE DEF x, z
    <3> QED BY <1>4, <1>10
  <2>2. ASSUME NEW p \in 1..m, c[p] = j PROVE FALSE
    <3>1. p \in 1..(m+1) /\ p \in Int /\ i \in Int
      BY <1>2
    <3>2. c[p] < c[i+1]
      <4>1. c[i+1] \in Int
        BY <1>1, <1>3
      <4> QED BY <1>10, <2>1, <2>2, <4>1
    <3>3. ~(i + 1 < p) /\ i + 1 # p /\ ~(p < i) /\ p # i
      <4>1. c[p] \in Int /\ c[i+1] \in Int /\ c[i] \in Int /\ c[i] < c[p]
        BY <1>1, <1>3, <1>10, <2>2, <3>1, SMTT(30), ZenonT(30)
      <4> HIDE DEF x, z
      <4> QED BY <1>1, <1>3, <3>1, <3>2, <4>1
    <3> QED BY <3>1, <3>3
  <2>3. ~(evs[j].ts - evs[j-1].ts > gap)
    <3> HIDE DEF x, z
    <3> QED BY <1>1, <2>1, <2>2
  <2>4. evs[j].ts \in Int /\ evs[j-1].ts \in Int
    BY <2>1
  <2> HIDE DEF x, z
  <2> QED BY <2>3, <2>4
<1>11. a \in Begins(T, gap)
  <2> SUFFICES ASSUME NEW u \in T, u < a PROVE a - u > gap
    BY <1>6 DEF Begins
  <2>1. PICK j \in 1..n : u = evs[j].ts
    BY <1>7
  <2>2. j < x
    <3> HIDE DEF x
    <3>1. x \in 1..n
      BY <1>4
    <3>2. ~(x =< j)
      <4>1. x =< j => evs[x].ts =< evs[j].ts
        BY <1>5, <3>1
      <4> QED BY <1>6, <2>1, <4>1
    <3> QED BY <3>1, <3>2
  <2> HIDE DEF x
  <2> QED BY <1>8, <2>1, <2>2
<1>12. b \in Finishes(T, gap)
  <2> SUFFICES ASSUME NEW u \in T, u > b PROVE u - b > gap
    BY <1>6 DEF Finishes
  <2>1. PICK j \in 1..n : u = evs[j].ts
    BY <1>7
  <2>2. z < j
    <3> HIDE DEF z
    <3>1. z \in 1..n
      BY <1>4
    <3>2. ~(j =< z)
      <4>1. j =< z => evs[j].ts =< evs[z].ts
        BY <1>5, <3>1
      <4> QED BY <1>6, <2>1, <4>1
    <3> QED BY <3>1, <3>2
  <2> HIDE DEF z
  <2> QED BY <1>9, <2>1, <2>2
\* The session ends with the first pause.
<1>13. ASSUME NEW u \in Finishes(T, gap), a =< u PROVE b =< u
  <2> SUFFICES ASSUME u < b PROVE FALSE
    <3>1. u \in Int
      BY <1>7 DEF Finishes
    <3> HIDE DEF b
    <3> QED BY <1>6, <3>1
  <2> DEFINE L == {j \in Nat : x =< j /\ j =< z /\ evs[j].ts > u}
  <2>1. z \in L
    <3> HIDE DEF z, x
    <3>1. z \in Nat /\ x =< z
      BY <1>4
    <3>2. evs[z].ts > u
      BY <1>6, <1>7 DEF Finishes
    <3> QED BY <3>1, <3>2
  <2>2. PICK j \in L : \A k \in L : j =< k
    <3>1. L \in SUBSET Nat /\ L # {}
      BY <2>1
    <3> HIDE DEF L
    <3> QED BY <3>1, LeastElement
  <2>3. j \in 1..n /\ x =< j /\ j =< z /\ evs[j].ts > u /\ evs[j].ts \in Int
        /\ u \in Int /\ x \in Int
    <3>1. x \in 1..n /\ z \in 1..n
      BY <1>4
    <3>2. u \in Int
      BY <1>7 DEF Finishes
    <3> HIDE DEF x, z
    <3> QED BY <2>2, <3>1, <3>2
  <2>4. x < j
    <3>1. x # j
      <4> HIDE DEF x
      <4> QED BY <1>6, <1>13, <2>3
    <3> HIDE DEF x
    <3> QED BY <2>3, <3>1
  <2>5. j - 1 \in 1..n /\ evs[j-1].ts \in Int /\ evs[j-1].ts =< u
    <3>1. j - 1 \in 1..n /\ x =< j - 1 /\ j - 1 =< z /\ j - 1 \in Nat
      <4>1. x \in 1..n /\ z \in 1..n
        BY <1>4
      <4> HIDE DEF x, z
      <4> QED BY <2>3, <2>4, <4>1
    <3>2. ~(j =< j - 1)
      BY <2>3
    <3>3. j - 1 \notin L
      <4> HIDE DEF L
      <4> QED BY <2>2, <3>2
    <3>4. evs[j-1].ts \in Int
      BY <3>1
    <3>5. ~(evs[j-1].ts > u)
      BY <3>1, <3>3
    <3> QED BY <2>3, <3>1, <3>4, <3>5
  <2>6. evs[j].ts - evs[j-1].ts =< gap
    BY <1>10, <2>3, <2>4
  <2>7. evs[j].ts - u > gap
    <3>1. evs[j].ts \in T
      BY <2>3 DEF TimesOfAll
    <3> QED BY <2>3, <3>1 DEF Finishes
  <2> HIDE DEF L, x, z
  <2> QED BY <2>3, <2>5, <2>6, <2>7
<1>14. ASSUME NEW j \in 1..n
       PROVE  evs[j].ts \in a..b <=> j \in x..z
  <2>1. x \in 1..n /\ z \in 1..n /\ evs[j].ts \in Int
    BY <1>4
  <2>2. j \in x..z => evs[j].ts \in a..b
    <3> HIDE DEF x, z
    <3> QED BY <1>5, <1>6, <2>1
  <2>3. j < x => ~(evs[j].ts \in a..b)
    <3>1. j < x => a - evs[j].ts > gap
      BY <1>8
    <3> HIDE DEF a, b, x
    <3> QED BY <1>6, <2>1, <3>1
  <2>4. z < j => ~(evs[j].ts \in a..b)
    <3>1. z < j => evs[j].ts - b > gap
      BY <1>9
    <3> HIDE DEF a, b, z
    <3> QED BY <1>6, <2>1, <3>1
  <2> HIDE DEF x, z, a, b
  <2> QED BY <2>1, <2>2, <2>3, <2>4
<1> QED BY <1>4, <1>6, <1>11, <1>12, <1>13, <1>14

\* A time after a pause begins a session.
LEMMA EveryBeginIsCut ==
  ASSUME NEW evs, NEW n \in Nat, Len(evs) = n, \A j \in 1..n : evs[j].ts \in Int,
         InOrder(evs), NEW o, NEW gap \in Nat, NEW ss, Len(ss) \in Nat,
         NEW c, Cut(c, evs, o, ss, gap, n), NEW t \in Begins(TimesOfAll(evs), gap)
  PROVE  \E i \in 1..Len(ss) : evs[c[i]].ts = t
<1> DEFINE m == Len(ss)
           L == {j \in Nat : j \in 1..n /\ evs[j].ts = t}
<1>1. /\ c \in [1..(m+1) -> 1..(n+1)] /\ c[1] = 1 /\ c[m+1] = n + 1
      /\ \A p, q \in 1..(m+1) : p < q => c[p] < c[q]
      /\ \A j \in 2..n : evs[j].ts - evs[j-1].ts > gap <=> \E p \in 1..m : c[p] = j
  BY DEF Cut
<1>2. t \in TimesOfAll(evs)
  BY DEF Begins
<1>3. PICK j \in L : \A k \in L : j =< k
  <2>1. L \in SUBSET Nat /\ L # {}
    BY <1>2 DEF TimesOfAll
  <2> HIDE DEF L
  <2> QED BY <2>1, LeastElement
<1>4. j \in 1..n /\ evs[j].ts = t /\ j \in Nat
  OBVIOUS
<1>5. CASE j = 1
  <2>1. m # 0
    BY <1>1, <1>4
  <2>2. 1 \in 1..m
    BY <2>1
  <2> HIDE DEF m, L
  <2> QED BY <1>1, <1>4, <1>5, <2>2 DEF m
<1>6. CASE j # 1
  <2>1. j \in 2..n /\ j - 1 \in 1..n /\ j - 1 \in Nat /\ ~(j =< j - 1)
    BY <1>4, <1>6
  <2>2. evs[j-1].ts # t
    <3>1. j - 1 \notin L
      <4> HIDE DEF L
      <4> QED BY <1>3, <2>1
    <3> QED BY <2>1, <3>1
  <2>3. evs[j-1].ts =< t /\ evs[j-1].ts \in Int /\ t \in Int
    BY <1>4, <2>1 DEF InOrder
  <2>4. evs[j-1].ts \in TimesOfAll(evs) /\ evs[j-1].ts < t
    BY <2>1, <2>2, <2>3 DEF TimesOfAll
  <2>5. evs[j].ts - evs[j-1].ts > gap
    BY <1>4, <2>4 DEF Begins
  <2> HIDE DEF m, L
  <2>6. \E p \in 1..m : c[p] = j
    BY <1>1, <2>1, <2>5
  <2> QED BY <1>4, <2>6 DEF m
<1> QED BY <1>5, <1>6

\* Two sessions begin at two times.
BeginsDiffer(c, evs, m) ==
    \A i, k \in 1..m : evs[c[i]].ts = evs[c[k]].ts => i = k

\* No two sessions of an owner begin at the same time.
LEMMA CutsDiffer ==
  ASSUME NEW evs, NEW n \in Nat, Len(evs) = n, \A j \in 1..n : evs[j].ts \in Int,
         InOrder(evs), NEW o, NEW gap \in Nat, NEW ss, Len(ss) \in Nat,
         NEW c, Cut(c, evs, o, ss, gap, n)
  PROVE  BeginsDiffer(c, evs, Len(ss))
<1>1. ASSUME NEW p \in 1..Len(ss), NEW q \in 1..Len(ss), p < q, evs[c[p]].ts = evs[c[q]].ts
      PROVE  FALSE
  <2> DEFINE m == Len(ss)
  <2>1. \A u, v \in 1..(m+1) : u < v => c[u] < c[v]
    BY DEF Cut
  <2>2. p \in 1..(m+1) /\ q \in 1..(m+1) /\ m \in Nat
    OBVIOUS
  <2>3. c[p] < c[q]
    <3> HIDE DEF m
    <3> QED BY <1>1, <2>1, <2>2
  <2>4. /\ c[q] \in 1..n
        /\ \A j \in 1..n : evs[j].ts \in evs[c[q]].ts..evs[c[q+1]-1].ts
                             <=> j \in c[q]..(c[q+1] - 1)
        /\ evs[c[q]].ts =< evs[c[q+1]-1].ts
        /\ c[q+1] - 1 \in 1..n
    BY CutIsCluster
  <2>5. c[p] \in 1..n
    BY CutIsCluster
  <2>6. evs[c[p]].ts \in evs[c[q]].ts..evs[c[q+1]-1].ts
    BY <1>1, <2>4
  <2>7. c[p] \in c[q]..(c[q+1] - 1)
    BY <2>4, <2>5, <2>6
  <2> QED BY <2>3, <2>4, <2>5, <2>7
<1>2. ASSUME NEW i \in 1..Len(ss), NEW k \in 1..Len(ss), evs[c[i]].ts = evs[c[k]].ts
      PROVE  i = k
  BY <1>1, <1>2
<1> QED BY <1>2 DEF BeginsDiffer

-----------------------------------------------------------------------------
(* The owners, and where an owner's events are in the timeline. *)

\* Event j of an owner's is event at[j] of the timeline.
Located(at, evs, tl, o, k) ==
    /\ at \in [1..Len(evs) -> 1..k]
    /\ \A i, j \in 1..Len(evs) : i < j => at[i] < at[j]
    /\ \A j \in 1..Len(evs) : evs[j] = tl[at[j]] /\ tl[at[j]].owner = o
    /\ \A i \in 1..k : tl[i].owner = o => \E j \in 1..Len(evs) : at[j] = i

\* An owner's events are those of the timeline, in its order.
LEMMA EventsOfIs ==
  ASSUME NEW E, NEW tl \in Seq(E), NEW o
  PROVE  /\ EventsOf(tl, o) \in Seq(E)
         /\ \E at : Located(at, EventsOf(tl, o), tl, o, Len(tl))
<1> DEFINE n == Len(tl)
<1>1. PICK g : EventsByStep(g, E, tl, o)
  BY EventsOfSteps
<1>2. /\ n \in Nat /\ g \in [0..n -> Seq(E)] /\ g[0] = <<>> /\ EventsOf(tl, o) = g[n]
      /\ \A k \in 1..n : g[k] = IF tl[k].owner = o THEN Append(g[k-1], tl[k]) ELSE g[k-1]
  BY <1>1 DEF EventsByStep
<1> HIDE DEF n
<1> DEFINE K == {k \in Nat : k =< n => \E at : Located(at, g[k], tl, o, k)}
<1>3. 0 \in K
  <2>1. Len(g[0]) = 0
    BY <1>2
  <2>2. Located([j \in 1..0 |-> 1], g[0], tl, o, 0)
    BY <2>1 DEF Located
  <2> QED BY <2>2
<1>4. ASSUME NEW k \in Nat, k \in K PROVE k + 1 \in K
  <2> SUFFICES ASSUME k + 1 =< n PROVE \E at : Located(at, g[k+1], tl, o, k+1)
    OBVIOUS
  <2>1. k + 1 \in 1..n /\ (k + 1) - 1 = k /\ k =< n /\ k \in 0..n /\ n = Len(tl)
    BY <1>2 DEF n
  <2>2. PICK at : Located(at, g[k], tl, o, k)
    BY <1>4, <2>1
  <2> DEFINE L == Len(g[k])
             e == tl[k+1]
  <2>3. /\ at \in [1..L -> 1..k]
        /\ \A i, j \in 1..L : i < j => at[i] < at[j]
        /\ \A j \in 1..L : g[k][j] = tl[at[j]] /\ tl[at[j]].owner = o
        /\ \A i \in 1..k : tl[i].owner = o => \E j \in 1..L : at[j] = i
    BY <2>2 DEF Located
  <2>4. L \in Nat /\ g[k] \in Seq(E) /\ e \in E
    BY <1>2, <2>1
  <2>5. CASE e.owner # o
    <3>1. g[k+1] = g[k]
      BY <1>2, <2>1, <2>5
    <3>2. at \in [1..L -> 1..(k+1)]
      BY <2>3
    <3>3. \A i \in 1..(k+1) : tl[i].owner = o => i \in 1..k
      BY <2>5
    <3> HIDE DEF L, e
    <3>4. Located(at, g[k], tl, o, k + 1)
      BY <2>3, <3>2, <3>3 DEF Located, L
    <3> QED BY <3>1, <3>4
  <2>6. CASE e.owner = o
    <3> DEFINE nt == [j \in 1..(L+1) |-> IF j =< L THEN at[j] ELSE k + 1]
               all == Append(g[k], e)
    <3>1. g[k+1] = all
      BY <1>2, <2>1, <2>6
    <3>2. Len(all) = L + 1 /\ all[L+1] = e /\ \A j \in 1..L : all[j] = g[k][j]
      BY <2>4
    <3> HIDE DEF all
    <3>3. nt[L+1] = k + 1 /\ \A j \in 1..L : nt[j] = at[j] /\ nt[j] \in 1..k
      <4>1. L + 1 \in 1..(L+1) /\ ~(L + 1 =< L) /\ \A j \in 1..L : j \in 1..(L+1) /\ j =< L
        BY <2>4
      <4> HIDE DEF L
      <4> QED BY <2>3, <4>1
    <3>4. \A j \in 1..(L+1) : j \in 1..L \/ j = L + 1
      BY <2>4
    <3>5. nt \in [1..(L+1) -> 1..(k+1)]
      <4>1. \A j \in 1..(L+1) : nt[j] \in 1..(k+1)
        <5> HIDE DEF nt, L
        <5> QED BY <3>3, <3>4
      <4>2. DOMAIN nt = 1..(L+1) /\ nt = [j \in 1..(L+1) |-> nt[j]]
        OBVIOUS
      <4> HIDE DEF nt
      <4> QED BY <4>1, <4>2
    <3> HIDE DEF nt, L
    <3>6. ASSUME NEW i \in 1..(L+1), NEW j \in 1..(L+1), i < j PROVE nt[i] < nt[j]
      <4>1. i \in 1..L
        BY <2>4, <3>4, <3>6
      <4>2. CASE j \in 1..L
        BY <2>3, <3>3, <3>6, <4>1, <4>2
      <4>3. CASE j = L + 1
        BY <3>3, <4>1, <4>3
      <4> QED BY <3>4, <4>2, <4>3
    <3>7. ASSUME NEW j \in 1..(L+1) PROVE all[j] = tl[nt[j]] /\ tl[nt[j]].owner = o
      <4>1. CASE j \in 1..L
        BY <2>3, <3>2, <3>3, <4>1
      <4>2. CASE j = L + 1
        BY <2>6, <3>2, <3>3, <4>2 DEF e
      <4> QED BY <3>4, <4>1, <4>2
    <3>8. ASSUME NEW i \in 1..(k+1), tl[i].owner = o PROVE \E j \in 1..(L+1) : nt[j] = i
      <4>1. CASE i \in 1..k
        <5>1. PICK j \in 1..L : at[j] = i
          BY <2>3, <3>8, <4>1
        <5>2. j \in 1..(L+1)
          BY <2>4
        <5> QED BY <3>3, <5>1, <5>2
      <4>2. CASE i = k + 1
        <5>1. L + 1 \in 1..(L+1)
          BY <2>4
        <5> QED BY <3>3, <4>2, <5>1
      <4> QED BY <4>1, <4>2
    <3>9. Located(nt, all, tl, o, k + 1)
      BY <3>2, <3>5, <3>6, <3>7, <3>8 DEF Located
    <3> QED BY <3>1, <3>9
  <2> QED BY <2>5, <2>6
<1>5. n \in K
  <2> HIDE DEF K
  <2> QED BY <1>2, <1>3, <1>4, SetInduction
<1>6. n =< n /\ n \in 0..n
  BY <1>2
<1>7. \E at : Located(at, g[n], tl, o, n)
  BY <1>5, <1>6
<1> QED BY <1>2, <1>6, <1>7 DEF n

\* Owners lists every owner of the timeline, each once.
EachOwnerOnce(os, O, tl) ==
    /\ os \in Seq(O)
    /\ \A i, j \in 1..Len(os) : os[i] = os[j] => i = j
    /\ \A k \in 1..Len(tl) : \E i \in 1..Len(os) : os[i] = tl[k].owner
    /\ \A i \in 1..Len(os) : \E k \in 1..Len(tl) : os[i] = tl[k].owner

\* An owner is listed when the first of its events comes.
LEMMA OwnersIs ==
  ASSUME NEW O, NEW E, \A e \in E : e.owner \in O, NEW tl \in Seq(E)
  PROVE  EachOwnerOnce(Owners(tl), O, tl)
<1> DEFINE n == Len(tl)
           Each(os, k) ==
             /\ \A i, j \in 1..Len(os) : os[i] = os[j] => i = j
             /\ \A p \in 1..k : \E i \in 1..Len(os) : os[i] = tl[p].owner
             /\ \A i \in 1..Len(os) : \E p \in 1..k : os[i] = tl[p].owner
<1>1. PICK g : OwnersByStep(g, O, tl)
  BY OwnersSteps
<1>2. /\ n \in Nat /\ g \in [0..n -> Seq(O)] /\ g[0] = <<>> /\ Owners(tl) = g[n]
      /\ \A k \in 1..n : g[k] = IF Contains(g[k-1], tl[k].owner) THEN g[k-1]
                                ELSE Append(g[k-1], tl[k].owner)
  BY <1>1 DEF OwnersByStep
<1> HIDE DEF n
<1> DEFINE K == {k \in Nat : k =< n => Each(g[k], k)}
<1>3. 0 \in K
  BY <1>2
<1>4. ASSUME NEW k \in Nat, k \in K PROVE k + 1 \in K
  <2> SUFFICES ASSUME k + 1 =< n PROVE Each(g[k+1], k+1)
    OBVIOUS
  <2>1. k + 1 \in 1..n /\ (k + 1) - 1 = k /\ k =< n /\ k \in 0..n /\ n = Len(tl)
    BY <1>2 DEF n
  <2>2. Each(g[k], k)
    BY <1>4, <2>1
  <2> DEFINE os == g[k]
             L == Len(os)
             o == tl[k+1].owner
  <2>3. L \in Nat /\ os \in Seq(O) /\ o \in O
    BY <1>2, <2>1
  <2>4. CASE Contains(os, o)
    <3>1. g[k+1] = os
      BY <1>2, <2>1, <2>4
    <3>2. \E i \in 1..L : os[i] = o
      BY <2>4 DEF Contains
    <3>3. \A p \in 1..(k+1) : p \in 1..k \/ p = k + 1
      OBVIOUS
    <3>4. \A p \in 1..k : p \in 1..(k+1)
      OBVIOUS
    <3> HIDE DEF os
    <3>5. Each(os, k + 1)
      BY <2>2, <3>2, <3>3, <3>4 DEF os
    <3> QED BY <3>1, <3>5
  <2>5. CASE ~Contains(os, o)
    <3> DEFINE all == Append(os, o)
    <3>1. g[k+1] = all
      BY <1>2, <2>1, <2>5
    <3>2. ~\E i \in 1..L : os[i] = o
      BY <2>5 DEF Contains
    <3>3. /\ Len(all) = L + 1 /\ all[L+1] = o /\ \A i \in 1..L : all[i] = os[i]
          /\ \A i \in 1..(L+1) : i \in 1..L \/ i = L + 1
          /\ \A i \in 1..L : i \in 1..(L+1)
          /\ L + 1 \in 1..(L+1)
      BY <2>3
    <3>4. /\ \A p \in 1..(k+1) : p \in 1..k \/ p = k + 1
          /\ \A p \in 1..k : p \in 1..(k+1)
          /\ k + 1 \in 1..(k+1)
      OBVIOUS
    <3>5. /\ \A i, j \in 1..L : os[i] = os[j] => i = j
          /\ \A p \in 1..k : \E i \in 1..L : os[i] = tl[p].owner
          /\ \A i \in 1..L : \E p \in 1..k : os[i] = tl[p].owner
      BY <2>2
    <3> HIDE DEF all, L, os
    <3>6. \A i, j \in 1..(L+1) : all[i] = all[j] => i = j
      BY <3>2, <3>3, <3>5
    <3>7. \A p \in 1..(k+1) : \E i \in 1..(L+1) : all[i] = tl[p].owner
      BY <3>3, <3>4, <3>5
    <3>8. ASSUME NEW i \in 1..(L+1) PROVE \E p \in 1..(k+1) : all[i] = tl[p].owner
      <4>1. CASE i \in 1..L
        <5>1. PICK p \in 1..k : os[i] = tl[p].owner
          BY <3>5, <4>1
        <5>2. all[i] = os[i] /\ p \in 1..(k+1)
          BY <3>3, <3>4, <4>1
        <5> QED BY <5>1, <5>2
      <4>2. CASE i = L + 1
        BY <3>3, <3>4, <4>2 DEF o
      <4> QED BY <3>3, <4>1, <4>2
    <3>9. Each(all, k + 1)
      BY <3>3, <3>6, <3>7, <3>8
    <3> QED BY <3>1, <3>9
  <2> QED BY <2>4, <2>5
<1>5. n \in K
  <2> HIDE DEF K
  <2> QED BY <1>2, <1>3, <1>4, SetInduction
<1>6. n =< n /\ n \in 0..n
  BY <1>2
<1>7. Each(g[n], n) /\ g[n] \in Seq(O)
  BY <1>2, <1>5, <1>6
<1>8. EachOwnerOnce(g[n], O, tl)
  BY <1>7 DEF EachOwnerOnce, n
<1> QED BY <1>2, <1>8

-----------------------------------------------------------------------------
(* The sessions of one owner. *)

\* The lead-in of the step that is next.
StepLeadIn == Param(Params, "leadInSeconds", LeadInSeconds)

\* When the events of an owner happened, and those from a to b.
TimesOfOwner(tl, o) == {tl[i].ts : i \in {j \in DOMAIN tl : tl[j].owner = o}}
WithinOf(tl, o, a, b) == {i \in DOMAIN tl : tl[i].owner = o /\ tl[i].ts \in a..b}

\* Sessions of owners in O.
Session(O) == [owner : O, start : Int, end : Int, count : Nat, duration : Int]

\* s is the cluster of o's events from s.start to s.end.
IsCluster(s, o, tl, gap) ==
    LET T == TimesOfOwner(tl, o)
    IN /\ s.owner = o /\ s.start =< s.end
       /\ s.start \in Begins(T, gap) /\ s.end \in Finishes(T, gap)
       /\ \A u \in Finishes(T, gap) : s.start =< u => s.end =< u
       /\ s.count = Cardinality(WithinOf(tl, o, s.start, s.end))

\* ss are the sessions of o.
AreSessionsOf(ss, o, tl, gap) ==
    /\ \A i \in 1..Len(ss) : IsCluster(ss[i], o, tl, gap)
    /\ \A t \in Begins(TimesOfOwner(tl, o), gap) :
         \E i \in 1..Len(ss) : ss[i].start = t
    /\ \A i, j \in 1..Len(ss) : ss[i].start = ss[j].start => i = j

\* newSession folds the lead-in into the duration.
HasDuration(s, lead) == s.duration = (s.end - s.start) + lead

\* The sessions of an owner are what the loop has made, with durations.
LEMMA SessionizeOwnerIs ==
  ASSUME NEW evs, NEW ss, ss = FoldLeft(Taking, <<>>, evs)
  PROVE  SessionizeOwner(evs) =
           [i \in DOMAIN ss |->
              [owner |-> ss[i].owner, start |-> ss[i].start, end |-> ss[i].end,
               count |-> ss[i].count,
               duration |-> (ss[i].end - ss[i].start) + StepLeadIn]]
BY DEF SessionizeOwner, Taking, Begun, StepLeadIn, FoldLeft, MapThenFoldSet

\* A sorted copy has the same events, and p says where they were.
IsSortedBy(p, stl, tl) ==
    /\ DOMAIN stl = DOMAIN tl /\ p \in [DOMAIN tl -> DOMAIN tl]
    /\ \A i, j \in DOMAIN tl : p[i] = p[j] => i = j
    /\ \A i \in DOMAIN tl : \E j \in DOMAIN tl : p[j] = i
    /\ \A i \in DOMAIN tl : stl[i] = tl[p[i]]

\* sort.Slice leaves a permutation in the order of time.
LEMMA SortedCopyIs ==
  ASSUME NEW E, \A e \in E : e.ts \in Int, timeline \in Seq(E),
         NEW stl \in SortedCopies
  PROVE  /\ stl \in Seq(E) /\ Len(stl) = Len(timeline) /\ InOrder(stl)
         /\ \E p : IsSortedBy(p, stl, timeline)
<1> DEFINE D == DOMAIN timeline
           n == Len(timeline)
<1>1. D = 1..n /\ n \in Nat /\ IsFiniteSet(D)
  BY FS_Interval
<1>2. PICK p \in [D -> D] :
           /\ \A i, j \in D : i # j => p[i] # p[j]
           /\ \A i, j \in D : i < j => timeline[p[i]].ts =< timeline[p[j]].ts
           /\ stl = [i \in D |-> timeline[p[i]]]
  BY DEF SortedCopies
<1>3. \A i \in D : timeline[p[i]] \in E
  BY <1>2
<1> HIDE DEF D, n
<1>4. stl \in Seq(E) /\ Len(stl) = n
  <2>1. stl = [i \in 1..n |-> timeline[p[i]]] /\ \A i \in 1..n : timeline[p[i]] \in E
    BY <1>1, <1>2, <1>3
  <2>2. stl \in [1..n -> E]
    BY <2>1
  <2> QED BY <1>1, <2>2
<1>5. InOrder(stl)
  BY <1>1, <1>2, <1>4 DEF InOrder
<1>6. \A i \in D : \E j \in D : p[j] = i
  <2>1. p \in Injection(D, D)
    <3>1. \A i, j \in D : p[i] = p[j] => i = j
      BY <1>2
    <3> QED BY <1>2, <3>1, Fun_IsInj
  <2>2. p \in Surjection(D, D)
    BY <1>1, <2>1, FS_Injection
  <2> QED BY <2>2, Fun_SurjectionProperties
<1>7. DOMAIN stl = D
  BY <1>2
<1>8. IsSortedBy(p, stl, timeline)
  BY <1>2, <1>6, <1>7 DEF IsSortedBy, D
<1> QED BY <1>4, <1>5, <1>8 DEF n

\* The sessions of an owner are the clusters of its events in the timeline.
LEMMA OwnerIsClustered ==
  ASSUME NEW E, \A e \in E : e.ts \in Int, timeline \in Seq(E),
         NEW stl \in SortedCopies, NEW o, StepGap \in Nat, StepLeadIn \in Int
  PROVE  LET ss == SessionizeOwner(EventsOf(stl, o))
         IN /\ ss \in Seq(Session({o}))
            /\ AreSessionsOf(ss, o, timeline, StepGap)
            /\ \A i \in 1..Len(ss) : HasDuration(ss[i], StepLeadIn)
<1> DEFINE evs == EventsOf(stl, o)
           n == Len(evs)
           cs == FoldLeft(Taking, <<>>, evs)
           ss == SessionizeOwner(evs)
           gap == StepGap
           T == TimesOfOwner(timeline, o)
           N == Len(timeline)
<1>1. stl \in Seq(E) /\ Len(stl) = N /\ InOrder(stl) /\ N \in Nat /\ DOMAIN timeline = 1..N
  BY SortedCopyIs
<1>2. PICK p : IsSortedBy(p, stl, timeline)
  BY SortedCopyIs
<1>3. evs \in Seq(E) /\ \E at : Located(at, evs, stl, o, Len(stl))
  BY <1>1, EventsOfIs
<1> HIDE DEF N
<1>4. PICK at : Located(at, evs, stl, o, N)
  BY <1>1, <1>3
<1> HIDE DEF evs
<1>5. /\ at \in [1..n -> 1..N]
      /\ \A i, j \in 1..n : i < j => at[i] < at[j]
      /\ \A j \in 1..n : evs[j] = stl[at[j]] /\ stl[at[j]].owner = o
      /\ \A i \in 1..N : stl[i].owner = o => \E j \in 1..n : at[j] = i
  BY <1>4 DEF Located
<1>6. n \in Nat /\ \A j \in 1..n : evs[j].ts \in Int /\ evs[j].owner = o
  BY <1>3, <1>5
<1>7. /\ p \in [1..N -> 1..N] /\ \A i, j \in 1..N : p[i] = p[j] => i = j
      /\ \A i \in 1..N : \E j \in 1..N : p[j] = i
      /\ \A i \in 1..N : stl[i] = timeline[p[i]]
  BY <1>1, <1>2 DEF IsSortedBy
<1> HIDE DEF n
<1>8. InOrder(evs)
  <2> SUFFICES ASSUME NEW i \in 1..n, NEW j \in 1..n, i < j PROVE evs[i].ts =< evs[j].ts
    BY DEF InOrder, n
  <2>1. at[i] < at[j] /\ at[i] \in 1..N /\ at[j] \in 1..N
    BY <1>5
  <2>2. stl[at[i]].ts =< stl[at[j]].ts
    BY <1>1, <2>1 DEF InOrder
  <2> QED BY <1>5, <2>2
<1>9. cs \in Seq(Cluster({o})) /\ \E c : Cut(c, evs, o, cs, gap, n)
  BY <1>3, <1>6, EventsAreCut DEF n
<1>10. PICK c : Cut(c, evs, o, cs, gap, n)
  BY <1>9
<1>11. TimesOfAll(evs) = T
  <2>1. ASSUME NEW j \in 1..n PROVE evs[j].ts \in T
    <3>1. at[j] \in 1..N /\ p[at[j]] \in 1..N
          /\ evs[j] = timeline[p[at[j]]] /\ timeline[p[at[j]]].owner = o
      BY <1>5, <1>7
    <3> QED BY <1>1, <3>1 DEF TimesOfOwner
  <2>2. ASSUME NEW i \in 1..N, timeline[i].owner = o
        PROVE  \E j \in 1..n : evs[j].ts = timeline[i].ts
    <3>1. PICK k \in 1..N : p[k] = i
      BY <1>7
    <3>2. stl[k] = timeline[i]
      BY <1>7, <3>1
    <3>3. PICK j \in 1..n : at[j] = k
      BY <1>5, <2>2, <3>2
    <3> QED BY <1>5, <3>2, <3>3
  <2> QED BY <1>1, <2>1, <2>2 DEF TimesOfOwner, TimesOfAll, n
<1> DEFINE m == Len(cs)
<1>12. m \in Nat /\ DOMAIN cs = 1..m
  BY <1>9
<1>13. ss = [i \in DOMAIN cs |->
               [owner |-> cs[i].owner, start |-> cs[i].start, end |-> cs[i].end,
                count |-> cs[i].count,
                duration |-> (cs[i].end - cs[i].start) + StepLeadIn]]
  BY SessionizeOwnerIs
<1>14. \A i \in 1..m : cs[i] = [owner |-> o, start |-> evs[c[i]].ts,
                                end |-> evs[c[i+1] - 1].ts, count |-> c[i+1] - c[i]]
  BY <1>10 DEF Cut
<1>15. \A i \in 1..m : cs[i] \in Cluster({o})
  BY <1>9
<1> HIDE DEF cs, m, ss
<1>16. Len(ss) = m /\ ss \in Seq(Session({o}))
  <2>1. ss = [i \in 1..m |->
               [owner |-> cs[i].owner, start |-> cs[i].start, end |-> cs[i].end,
                count |-> cs[i].count,
                duration |-> (cs[i].end - cs[i].start) + StepLeadIn]]
    BY <1>12, <1>13
  <2>2. \A i \in 1..m : ss[i] \in Session({o})
    BY <1>15, <2>1 DEF Cluster, Session
  <2> DEFINE S == Session({o})
  <2>3. ss \in [1..m -> S]
    BY <2>1, <2>2
  <2> HIDE DEF S
  <2>4. ss \in Seq(S) /\ Len(ss) = m
    BY <1>12, <2>3
  <2> QED BY <2>4 DEF S
<1>17. ASSUME NEW i \in 1..m
       PROVE  /\ ss[i].owner = o /\ ss[i].start = evs[c[i]].ts
              /\ ss[i].end = evs[c[i+1] - 1].ts /\ ss[i].count = c[i+1] - c[i]
              /\ HasDuration(ss[i], StepLeadIn)
  BY <1>12, <1>13, <1>14 DEF HasDuration
<1>18. ASSUME NEW i \in 1..m PROVE IsCluster(ss[i], o, timeline, gap)
  <2> DEFINE x == c[i]
             z == c[i+1] - 1
             a == evs[x].ts
             b == evs[z].ts
  <2>1. /\ a =< b /\ a \in Begins(T, gap) /\ b \in Finishes(T, gap)
        /\ \A u \in Finishes(T, gap) : a =< u => b =< u
        /\ \A j \in 1..n : evs[j].ts \in a..b <=> j \in x..z
        /\ x \in 1..n /\ z \in 1..n /\ x =< z
    <3> HIDE DEF T, gap
    <3>1. Len(evs) = n /\ Len(cs) = m /\ gap \in Nat
      BY DEF n, m, gap
    <3> QED BY <1>6, <1>8, <1>10, <1>11, <1>12, <3>1, CutIsCluster, SMTT(30), ZenonT(30)
  <2>2. ss[i].count = Cardinality(WithinOf(timeline, o, a, b))
    <3> DEFINE W == WithinOf(timeline, o, a, b)
               f == [j \in x..z |-> p[at[j]]]
    <3>1. \A j \in x..z : j \in 1..n
      <4>1. x \in 1..n /\ z \in 1..n
        BY <2>1
      <4> HIDE DEF x, z
      <4> QED BY <1>6, <4>1
    <3>2. f \in [x..z -> W]
      <4> SUFFICES ASSUME NEW j \in x..z PROVE p[at[j]] \in W
        OBVIOUS
      <4>1. j \in 1..n /\ at[j] \in 1..N /\ p[at[j]] \in 1..N
        BY <1>5, <1>7, <3>1
      <4>2. evs[j] = timeline[p[at[j]]] /\ timeline[p[at[j]]].owner = o
        BY <1>5, <1>7, <4>1, SMTT(30), ZenonT(30)
      <4>3. evs[j].ts \in a..b
        BY <2>1, <4>1
      <4> HIDE DEF a, b
      <4> QED BY <1>1, <4>1, <4>2, <4>3 DEF WithinOf
    <3>3. ASSUME NEW j \in x..z, NEW k \in x..z, f[j] = f[k] PROVE j = k
      <4>1. j \in 1..n /\ k \in 1..n /\ at[j] \in 1..N /\ at[k] \in 1..N
        BY <1>5, <3>1
      <4>2. at[j] = at[k]
        BY <1>7, <3>3, <4>1
      <4>3. ~(j < k) /\ ~(k < j)
        BY <1>5, <4>1, <4>2
      <4> QED BY <4>1, <4>3
    <3>4. ASSUME NEW i1 \in W PROVE \E j \in x..z : f[j] = i1
      <4>1. i1 \in 1..N /\ timeline[i1].owner = o /\ timeline[i1].ts \in a..b
        BY <1>1 DEF WithinOf
      <4>2. PICK k \in 1..N : p[k] = i1
        BY <1>7, <4>1
      <4>3. stl[k] = timeline[i1]
        BY <1>7, <4>2
      <4>4. PICK j \in 1..n : at[j] = k
        BY <1>5, <4>1, <4>3
      <4>5. evs[j].ts = timeline[i1].ts
        BY <1>5, <4>3, <4>4
      <4>6. j \in x..z
        BY <2>1, <4>1, <4>5
      <4> QED BY <4>2, <4>4, <4>6
    <3>5. x \in Int /\ z \in Int /\ x =< z
      BY <2>1
    <3>6. IsFiniteSet(x..z) /\ Cardinality(x..z) = z - x + 1
      <4> HIDE DEF x, z, f
      <4>1. /\ IsFiniteSet(x..z)
            /\ Cardinality(x..z) = IF x > z THEN 0 ELSE z - x + 1
        BY <3>5, FS_Interval
      <4> QED BY <3>5, <4>1
    <3>7. Cardinality(W) = Cardinality(x..z)
      <4> HIDE DEF W, f, x, z
      <4> QED BY <3>2, <3>3, <3>4, <3>6, SameSize
    <3>8. c[i+1] - c[i] = z - x + 1
      <4>1. c[i+1] \in Int /\ c[i] \in Int
        <5>1. c \in [1..(m+1) -> 1..(n+1)]
          BY <1>10 DEF Cut, m
        <5>2. i \in 1..(m+1) /\ i + 1 \in 1..(m+1)
          BY <1>12
        <5> QED BY <5>1, <5>2
      <4> QED BY <4>1
    <3> QED BY <1>17, <3>6, <3>7, <3>8
  <2> HIDE DEF a, b, T, gap
  <2>3. ss[i].start = a /\ ss[i].end = b /\ ss[i].owner = o
    BY <1>17 DEF a, b
  <2> QED BY <2>1, <2>2, <2>3 DEF IsCluster, T
<1>19. ASSUME NEW t \in Begins(T, gap) PROVE \E i \in 1..m : ss[i].start = t
  <2>1. \E i \in 1..m : evs[c[i]].ts = t
    <3> HIDE DEF T, gap
    <3>1. Len(evs) = n /\ Len(cs) = m /\ gap \in Nat /\ t \in Begins(TimesOfAll(evs), gap)
      BY <1>11 DEF n, m, gap
    <3>2. \E i \in 1..Len(cs) : evs[c[i]].ts = t
      BY <1>6, <1>8, <1>10, <1>12, <3>1, EveryBeginIsCut
    <3> QED BY <3>1, <3>2
  <2> QED BY <1>17, <2>1
<1>20. ASSUME NEW i \in 1..m, NEW j \in 1..m, ss[i].start = ss[j].start PROVE i = j
  <2>1. evs[c[i]].ts = evs[c[j]].ts
    BY <1>17, <1>20
  <2> HIDE DEF gap
  <2>2. Len(evs) = n /\ Len(cs) = m /\ gap \in Nat
    BY DEF n, m, gap
  <2>3. BeginsDiffer(c, evs, Len(cs))
    BY <1>6, <1>8, <1>10, <1>12, <2>2, CutsDiffer
  <2> QED BY <2>1, <2>2, <2>3 DEF BeginsDiffer
<1>21. AreSessionsOf(ss, o, timeline, gap)
  BY <1>16, <1>18, <1>19, <1>20 DEF AreSessionsOf
<1> QED BY <1>16, <1>17, <1>21 DEF ss, evs

-----------------------------------------------------------------------------
(* The sessions of all owners. *)

\* The owners of the events of a timeline.
OwnersIn(tl) == {tl[i].owner : i \in DOMAIN tl}

\* ss are the clusters of all owners of the timeline, each once.
AreClusters(ss, tl, gap) ==
    /\ \A i \in 1..Len(ss) : /\ ss[i].owner \in OwnersIn(tl)
                             /\ IsCluster(ss[i], ss[i].owner, tl, gap)
    /\ \A o \in OwnersIn(tl) : \A t \in Begins(TimesOfOwner(tl, o), gap) :
         \E i \in 1..Len(ss) : ss[i].owner = o /\ ss[i].start = t
    /\ \A i, j \in 1..Len(ss) :
         ss[i].owner = ss[j].owner /\ ss[i].start = ss[j].start => i = j

\* Sessionize's sessions, of a sorted copy of the timeline.
SessionsOf(stl) ==
    FlattenSeq([i \in DOMAIN Owners(stl) |-> SessionizeOwner(EventsOf(stl, Owners(stl)[i]))])

\* The sessions of all owners are the clusters of the timeline.
LEMMA SessionsOfIs ==
  ASSUME NEW E, \A e \in E : e.ts \in Int, timeline \in Seq(E),
         NEW stl \in SortedCopies, StepGap \in Nat, StepLeadIn \in Int
  PROVE  /\ SessionsOf(stl) \in Seq(Session(OwnersIn(timeline)))
         /\ AreClusters(SessionsOf(stl), timeline, StepGap)
         /\ \A i \in 1..Len(SessionsOf(stl)) : HasDuration(SessionsOf(stl)[i], StepLeadIn)
<1> DEFINE O == OwnersIn(timeline)
           os == Owners(stl)
           Block(i) == SessionizeOwner(EventsOf(stl, os[i]))
           bs == [i \in DOMAIN os |-> Block(i)]
           k == Len(os)
           V == Session(O)
           gap == StepGap
           flat == SessionsOf(stl)
           F == {e \in E : e.owner \in O}
<1>1. stl \in Seq(E) /\ Len(stl) = Len(timeline)
  BY SortedCopyIs
<1>2. PICK p : IsSortedBy(p, stl, timeline)
  BY SortedCopyIs
<1>3. DOMAIN stl = 1..Len(stl) /\ DOMAIN timeline = 1..Len(stl) /\ Len(stl) \in Nat
  BY <1>1
<1>4. stl \in Seq(F)
  <2>1. \A i \in 1..Len(stl) : stl[i] \in F
    BY <1>1, <1>2, <1>3 DEF IsSortedBy, OwnersIn
  <2> HIDE DEF F
  <2> QED BY <1>1, <2>1
<1>5. /\ os \in Seq(O)
      /\ \A i, j \in 1..k : os[i] = os[j] => i = j
      /\ \A q \in 1..Len(stl) : \E i \in 1..k : os[i] = stl[q].owner
  <2>1. \A e \in F : e.owner \in O
    OBVIOUS
  <2> HIDE DEF F, O
  <2>2. EachOwnerOnce(os, O, stl)
    BY <1>4, <2>1, OwnersIs
  <2> QED BY <2>2 DEF EachOwnerOnce
<1> HIDE DEF os
<1>6. \A o \in O : \E i \in 1..k : os[i] = o
  <2> SUFFICES ASSUME NEW o \in O PROVE \E i \in 1..k : os[i] = o
    OBVIOUS
  <2>1. PICK q \in DOMAIN timeline : timeline[q].owner = o
    BY DEF OwnersIn
  <2>2. PICK j \in DOMAIN timeline : p[j] = q
    BY <1>2 DEF IsSortedBy
  <2>3. stl[j].owner = o /\ j \in 1..Len(stl)
    BY <1>2, <1>3, <2>1, <2>2 DEF IsSortedBy
  <2> QED BY <1>5, <2>3
<1>7. k \in Nat /\ DOMAIN os = 1..k /\ \A i \in 1..k : os[i] \in O
  BY <1>5
<1>8. ASSUME NEW i \in 1..k
      PROVE  /\ bs[i] \in Seq(Session({os[i]}))
             /\ AreSessionsOf(bs[i], os[i], timeline, gap)
             /\ \A j \in 1..Len(bs[i]) : HasDuration(bs[i][j], StepLeadIn)
  <2>1. bs[i] = Block(i)
    BY <1>7
  <2>2. /\ Block(i) \in Seq(Session({os[i]}))
        /\ AreSessionsOf(Block(i), os[i], timeline, gap)
        /\ \A j \in 1..Len(Block(i)) : HasDuration(Block(i)[j], StepLeadIn)
    BY OwnerIsClustered
  <2> HIDE DEF bs, Block
  <2> QED BY <2>1, <2>2
<1>9. ASSUME NEW i \in 1..k PROVE bs[i] \in Seq(V)
  <2> DEFINE b == bs[i]
             W == Session({os[i]})
  <2>1. b \in Seq(W)
    BY <1>8
  <2>2. W \subseteq V
    BY <1>7 DEF Session
  <2> HIDE DEF V, W, b
  <2>3. b \in Seq(V)
    BY <2>1, <2>2
  <2> QED BY <2>3 DEF b
<1>10. flat = FlattenSeq(bs)
  BY DEF SessionsOf, os
<1>11. bs \in Seq(Seq(V)) /\ Len(bs) = k
  <2>1. bs = [i \in 1..k |-> bs[i]]
    BY <1>7
  <2> HIDE DEF bs, V, k
  <2>2. bs \in [1..k -> Seq(V)]
    BY <1>9, <2>1
  <2> QED BY <1>7, <2>2
<1> HIDE DEF bs, flat, k, V, O, Block
<1>12. flat \in Seq(V) /\ \E b, q : Places(b, q, flat, bs, k)
  BY <1>10, <1>11, FlattenPlaces
<1>13. PICK blk, pos : Places(blk, pos, flat, bs, k)
  BY <1>12
<1> DEFINE L == Len(flat)
<1>14. /\ \A i \in 1..L : /\ blk[i] \in 1..k /\ pos[i] \in 1..Len(bs[blk[i]])
                          /\ flat[i] = bs[blk[i]][pos[i]]
       /\ \A i, j \in 1..L : blk[i] = blk[j] /\ pos[i] = pos[j] => i = j
       /\ \A m \in 1..k : \A q \in 1..Len(bs[m]) :
            \E i \in 1..L : blk[i] = m /\ pos[i] = q
  BY <1>13 DEF Places
<1>15. \A i \in 1..k : \A j \in 1..Len(bs[i]) :
          /\ IsCluster(bs[i][j], os[i], timeline, gap) /\ bs[i][j].owner = os[i]
          /\ HasDuration(bs[i][j], StepLeadIn)
  <2> SUFFICES ASSUME NEW i \in 1..k, NEW j \in 1..Len(bs[i])
               PROVE  /\ IsCluster(bs[i][j], os[i], timeline, gap)
                      /\ bs[i][j].owner = os[i]
                      /\ HasDuration(bs[i][j], StepLeadIn)
    OBVIOUS
  <2> HIDE DEF gap
  <2>1. AreSessionsOf(bs[i], os[i], timeline, gap)
        /\ HasDuration(bs[i][j], StepLeadIn)
    BY <1>8
  <2>2. IsCluster(bs[i][j], os[i], timeline, gap)
    BY <2>1 DEF AreSessionsOf
  <2> QED BY <2>1, <2>2 DEF IsCluster
<1> HIDE DEF L
<1>16. ASSUME NEW i \in 1..L
       PROVE  /\ flat[i].owner = os[blk[i]] /\ flat[i].owner \in O
              /\ IsCluster(flat[i], flat[i].owner, timeline, gap)
              /\ HasDuration(flat[i], StepLeadIn)
  <2>1. /\ blk[i] \in 1..k /\ pos[i] \in 1..Len(bs[blk[i]])
        /\ flat[i] = bs[blk[i]][pos[i]]
    BY <1>14
  <2> HIDE DEF gap
  <2> QED BY <1>7, <1>15, <2>1
<1>17. ASSUME NEW o \in O, NEW t \in Begins(TimesOfOwner(timeline, o), gap)
       PROVE  \E i \in 1..L : flat[i].owner = o /\ flat[i].start = t
  <2>1. PICK m \in 1..k : os[m] = o
    BY <1>6
  <2>2. PICK q \in 1..Len(bs[m]) : bs[m][q].start = t
    <3> HIDE DEF gap
    <3>1. AreSessionsOf(bs[m], o, timeline, gap)
      BY <1>8, <2>1
    <3> QED BY <1>17, <3>1 DEF AreSessionsOf
  <2>3. PICK i \in 1..L : blk[i] = m /\ pos[i] = q
    BY <1>14
  <2>4. flat[i].owner = o /\ flat[i].start = t
    BY <1>14, <1>16, <2>1, <2>2, <2>3
  <2> QED BY <2>4
<1>18. ASSUME NEW i \in 1..L, NEW j \in 1..L, flat[i].owner = flat[j].owner,
              flat[i].start = flat[j].start
       PROVE  i = j
  <2>4. /\ blk[i] \in 1..k /\ blk[j] \in 1..k
        /\ flat[i].owner = os[blk[i]] /\ flat[j].owner = os[blk[j]]
    BY <1>14, <1>16
  <2>1. blk[i] = blk[j] /\ blk[i] \in 1..k
    BY <1>5, <1>18, <2>4
  <2>2. pos[i] \in 1..Len(bs[blk[i]]) /\ pos[j] \in 1..Len(bs[blk[i]])
        /\ bs[blk[i]][pos[i]].start = bs[blk[i]][pos[j]].start
    BY <1>14, <1>18, <2>1
  <2>3. pos[i] = pos[j]
    <3> HIDE DEF gap
    <3> DEFINE n == blk[i]
    <3>1. AreSessionsOf(bs[n], os[n], timeline, gap)
      BY <1>8, <2>1
    <3> HIDE DEF n
    <3>2. \A q1, q2 \in 1..Len(bs[n]) : bs[n][q1].start = bs[n][q2].start => q1 = q2
      BY <3>1 DEF AreSessionsOf
    <3> QED BY <2>2, <3>2 DEF n
  <2> QED BY <1>14, <2>1, <2>3
<1>19. AreClusters(flat, timeline, gap)
  BY <1>16, <1>17, <1>18 DEF AreClusters, L, O
<1> QED BY <1>12, <1>16, <1>19 DEF V, O, flat, L

\* What SessionsAreClusters says of sessions.
AsExpected(ss, tl, gap) ==
    LET Starts(o) == {t \in TimesOfOwner(tl, o) :
                        \A u \in TimesOfOwner(tl, o) : u < t => t - u > gap}
        Ends(o)   == {t \in TimesOfOwner(tl, o) :
                        \A u \in TimesOfOwner(tl, o) : u > t => u - t > gap}
        Expected == UNION {{[owner |-> o, start |-> a,
                             end |-> Min({b \in Ends(o) : a =< b})] : a \in Starts(o)} :
                           o \in {tl[i].owner : i \in DOMAIN tl}}
    IN /\ {[owner |-> ss[i].owner, start |-> ss[i].start,
            end |-> ss[i].end] : i \in DOMAIN ss} = Expected
       /\ Len(ss) = Cardinality(Expected)
       /\ \A i \in DOMAIN ss :
            ss[i].count = Cardinality(WithinOf(tl, ss[i].owner, ss[i].start, ss[i].end))

\* The clusters of a timeline are the sessions that the property expects.
LEMMA ClustersAreExpected ==
  ASSUME NEW E, \A e \in E : e.ts \in Int, NEW tl \in Seq(E), NEW gap,
         NEW ss \in Seq(Session(OwnersIn(tl))), AreClusters(ss, tl, gap)
  PROVE  AsExpected(ss, tl, gap)
<1> DEFINE m == Len(ss)
           T(o) == TimesOfOwner(tl, o)
           Of(s) == [owner |-> s.owner, start |-> s.start, end |-> s.end]
           X(o, a) == [owner |-> o, start |-> a,
                       end |-> Min({b \in Finishes(T(o), gap) : a =< b})]
           Expected == UNION {{X(o, a) : a \in Begins(T(o), gap)} : o \in OwnersIn(tl)}
           f == [i \in 1..m |-> Of(ss[i])]
<1>1. m \in Nat /\ DOMAIN ss = 1..m
  OBVIOUS
<1>2. \A o : \A u \in T(o) : u \in Int
  <2>1. \A i \in DOMAIN tl : tl[i].ts \in Int
    OBVIOUS
  <2> QED BY <2>1 DEF TimesOfOwner
<1>3. ASSUME NEW i \in 1..m
      PROVE  /\ ss[i].owner \in OwnersIn(tl) /\ IsCluster(ss[i], ss[i].owner, tl, gap)
             /\ Of(ss[i]) = X(ss[i].owner, ss[i].start)
             /\ ss[i].start \in Begins(T(ss[i].owner), gap)
  <2>1. ss[i].owner \in OwnersIn(tl) /\ IsCluster(ss[i], ss[i].owner, tl, gap)
    BY DEF AreClusters
  <2> DEFINE s == ss[i]
             o == s.owner
             S == {b \in Finishes(T(o), gap) : s.start =< b}
  <2>2. s.end \in S /\ \A u \in S : s.end =< u
    BY <2>1 DEF IsCluster
  <2>3. \A u \in S : u \in Int
    BY <1>2 DEF Finishes
  <2>4. Min(S) = s.end
    <3> HIDE DEF S
    <3> QED BY <2>2, <2>3, MinIs
  <2>5. s.start \in Begins(T(o), gap)
    BY <2>1 DEF IsCluster
  <2> QED BY <2>1, <2>4, <2>5
<1>4. f \in [1..m -> Expected]
  <2> SUFFICES ASSUME NEW i \in 1..m PROVE Of(ss[i]) \in Expected
    OBVIOUS
  <2>1. /\ ss[i].owner \in OwnersIn(tl) /\ Of(ss[i]) = X(ss[i].owner, ss[i].start)
        /\ ss[i].start \in Begins(T(ss[i].owner), gap)
    BY <1>3
  <2> HIDE DEF X, T, Of
  <2> QED BY <2>1
<1>5. ASSUME NEW i \in 1..m, NEW j \in 1..m, f[i] = f[j] PROVE i = j
  <2>1. Of(ss[i]) = Of(ss[j])
    BY <1>5
  <2>2. ss[i].owner = ss[j].owner /\ ss[i].start = ss[j].start
    <3>1. Of(ss[i]).owner = ss[i].owner /\ Of(ss[j]).owner = ss[j].owner
          /\ Of(ss[i]).start = ss[i].start /\ Of(ss[j]).start = ss[j].start
      OBVIOUS
    <3> HIDE DEF Of
    <3> QED BY <2>1, <3>1
  <2> QED BY <2>2 DEF AreClusters
<1>6. ASSUME NEW x \in Expected PROVE \E i \in 1..m : f[i] = x
  <2>1. PICK o \in OwnersIn(tl) : \E a \in Begins(T(o), gap) : x = X(o, a)
    <3> HIDE DEF X, T
    <3> QED OBVIOUS
  <2>5. PICK a \in Begins(T(o), gap) : x = X(o, a)
    BY <2>1
  <2>2. PICK i \in 1..m : ss[i].owner = o /\ ss[i].start = a
    BY DEF AreClusters
  <2>3. Of(ss[i]) = X(o, a)
    BY <1>3, <2>2
  <2>4. f[i] = Of(ss[i])
    OBVIOUS
  <2> HIDE DEF f, X, Of
  <2> QED BY <2>3, <2>4, <2>5
<1>7. Cardinality(Expected) = m
  <2>1. IsFiniteSet(1..m) /\ Cardinality(1..m) = m
    <3> HIDE DEF m
    <3> QED BY <1>1, FS_Interval
  <2> HIDE DEF f, Expected, m
  <2> QED BY <1>4, <1>5, <1>6, <2>1, SameSize
<1>8. {Of(ss[i]) : i \in 1..m} = Expected
  <2>1. \A i \in 1..m : f[i] = Of(ss[i]) /\ f[i] \in Expected
    <3> HIDE DEF Of, Expected
    <3> QED BY <1>4
  <2> HIDE DEF f, Expected, Of
  <2> QED BY <1>6, <2>1
<1>9. \A i \in 1..m : ss[i].count = Cardinality(WithinOf(tl, ss[i].owner, ss[i].start, ss[i].end))
  BY <1>3 DEF IsCluster
<1>10. Expected =
         UNION {{[owner |-> o, start |-> a,
                  end |-> Min({b \in {t \in TimesOfOwner(tl, o) :
                                       \A u \in TimesOfOwner(tl, o) : u > t => u - t > gap} :
                                 a =< b})] :
                   a \in {t \in TimesOfOwner(tl, o) :
                            \A u \in TimesOfOwner(tl, o) : u < t => t - u > gap}} :
                 o \in {tl[i].owner : i \in DOMAIN tl}}
  BY DEF Begins, Finishes, OwnersIn
<1> HIDE DEF Expected, m
<1> QED BY <1>1, <1>7, <1>8, <1>9, <1>10 DEF AsExpected, m

-----------------------------------------------------------------------------
(* What exclude-off-time takes off. *)

\* An overlap is the number of seconds that both intervals have.
LEMMA OverlapIs ==
  ASSUME NEW start \in Int, NEW end \in Int, NEW lo \in Int, NEW hi \in Int
  PROVE  OverlapSeconds(start, end, lo, hi)
           = Cardinality({t \in start .. end - 1 : lo =< t /\ t < hi})
<1> DEFINE l == Max({start, lo})
           h == Min({end, hi})
<1>1. l = (IF start < lo THEN lo ELSE start) /\ h = IF end < hi THEN end ELSE hi
  BY MaxMin
<1>2. l \in Int /\ h \in Int
  BY <1>1
<1>3. {t \in start .. end - 1 : lo =< t /\ t < hi} = l .. h - 1
  <2>1. \A t \in Int : (t \in start .. end - 1 /\ lo =< t /\ t < hi)
                         <=> (l =< t /\ t =< h - 1)
    BY <1>1
  <2> HIDE DEF l, h
  <2> QED BY <1>2, <2>1
<1>4. Cardinality(l .. h - 1) = IF l > h - 1 THEN 0 ELSE (h - 1) - l + 1
  <2> HIDE DEF l, h
  <2>1. h - 1 \in Int
    BY <1>2
  <2> QED BY <1>2, <2>1, FS_Interval
<1>5. OverlapSeconds(start, end, lo, hi) = IF h =< l THEN 0 ELSE h - l
  BY DEF OverlapSeconds
<1>6. l > h - 1 <=> h =< l
  <2> HIDE DEF l, h
  <2> QED BY <1>2
<1> HIDE DEF l, h
<1>7. Cardinality(l .. h - 1) = IF h =< l THEN 0 ELSE h - l
  BY <1>2, <1>4, <1>6
<1> QED BY <1>3, <1>5, <1>7

\* A time is that of its midnight and that on the clock.
LEMMA DayIs ==
  ASSUME NEW t \in Int
  PROVE  /\ SecondsPerDay \in Nat \ {0} /\ SecondsPerMinute \in Nat \ {0}
         /\ Day(t) \in Int /\ t % SecondsPerDay \in 0 .. SecondsPerDay - 1
         /\ t = Day(t) * SecondsPerDay + (t % SecondsPerDay)
<1>1. SecondsPerDay \in Nat \ {0} /\ SecondsPerMinute \in Nat \ {0}
  BY TimesheetAssumption DEF SecondsPerDay
<1> QED BY <1>1 DEF Day

\* The minutes up to x are over after x minutes.
LEMMA MinuteIs ==
  ASSUME NEW r \in Int, NEW x \in Int
  PROVE  x =< r \div SecondsPerMinute <=> x * SecondsPerMinute =< r
<1>1. SecondsPerMinute \in Nat \ {0}
  BY DayIs
<1> QED BY <1>1

\* A window of a form or of a step.
IsWindow(w) == w.start \in 0 .. MinutesPerDay /\ w.end \in 0 .. MinutesPerDay

\* A window begins and ends in the day.
LEMMA WindowIs ==
  ASSUME NEW w, IsWindow(w)
  PROVE  LET from == w.start * SecondsPerMinute
             to   == w.end * SecondsPerMinute
         IN /\ w.start \in Int /\ w.end \in Int
            /\ from \in 0 .. SecondsPerDay /\ to \in 0 .. SecondsPerDay
            /\ w.start < w.end <=> from < to
<1> DEFINE p == SecondsPerMinute
           n == MinutesPerDay
<1>1. p \in Nat \ {0} /\ n \in Nat \ {0} /\ SecondsPerDay = n * p
  BY TimesheetAssumption DEF SecondsPerDay
<1>2. w.start \in Int /\ w.end \in Int
      /\ 0 =< w.start /\ w.start =< n /\ 0 =< w.end /\ w.end =< n
  BY <1>1 DEF IsWindow
<1> HIDE DEF p, n
<1>3. \A a \in Int : 0 =< a /\ a =< n => a * p \in Int /\ 0 =< a * p /\ a * p =< n * p
  BY <1>1
<1>4. \A a, b \in Int : a < b <=> a * p < b * p
  BY <1>1
<1> QED BY <1>1, <1>2, <1>3, <1>4 DEF p

\* What a window takes of a day.
Taken(start, end, d, w) == {t \in start .. end - 1 : Day(t) = d /\ Off(t, w)}

\* windowOverlap is the number of seconds a window takes of a session on a day.
LEMMA WindowOverlapIs ==
  ASSUME NEW start \in Int, NEW end \in Int, NEW d \in Int,
         NEW w, IsWindow(w)
  PROVE  WindowOverlap(d * SecondsPerDay, w, start, end)
           = Cardinality(Taken(start, end, d, w))
<1> DEFINE M == d * SecondsPerDay
           A == w.start * SecondsPerMinute
           B == w.end * SecondsPerMinute
           D == SecondsPerDay
           X == start .. end - 1
           In(lo, hi) == {t \in X : lo =< t /\ t < hi}
<1>1. /\ A \in 0 .. D /\ B \in 0 .. D /\ (w.start < w.end <=> A < B)
      /\ w.start \in Int /\ w.end \in Int
  BY WindowIs
<1>2. D \in Nat /\ M \in Int
  BY DayIs
<1>3. ASSUME NEW t \in X
      PROVE  Day(t) = d <=> M =< t /\ t < M + D
  <2>1. t \in Int /\ SecondsPerDay \in Nat \ {0}
    BY DayIs
  <2> QED BY <2>1 DEF Day
<1>4. ASSUME NEW t \in X, Day(t) = d
      PROVE  Off(t, w) <=> IF A < B THEN M + A =< t /\ t < M + B
                           ELSE M + A =< t \/ t < M + B
  <2> DEFINE r == t % SecondsPerDay
             m == r \div SecondsPerMinute
  <2>1. t \in Int /\ r \in Int /\ t = M + r
    BY <1>4, DayIs
  <2>2. Off(t, w) <=> IF w.start < w.end THEN w.start =< m /\ m < w.end
                      ELSE w.start =< m \/ m < w.end
    BY DEF Off
  <2>3. (w.start =< m <=> A =< r) /\ (w.end =< m <=> B =< r)
    <3> HIDE DEF r
    <3> QED BY <1>1, <2>1, MinuteIs
  <2>4. m \in Int
    <3>1. SecondsPerMinute \in Nat \ {0}
      BY DayIs
    <3> HIDE DEF r
    <3> QED BY <2>1, <3>1
  <2> HIDE DEF m, r, A, B, M
  <2>5. (m < w.end <=> r < B) /\ A \in Int /\ B \in Int /\ M \in Int
    BY <1>1, <1>2, <2>1, <2>3, <2>4
  <2>6. /\ A =< r <=> M + A =< t
        /\ r < B <=> t < M + B
    BY <2>1, <2>5
  <2> QED BY <1>1, <2>2, <2>3, <2>5, <2>6
<1>5. \A lo, hi \in Int : /\ OverlapSeconds(start, end, lo, hi) = Cardinality(In(lo, hi))
                          /\ IsFiniteSet(In(lo, hi))
  <2>1. IsFiniteSet(X)
    BY FS_Interval
  <2>2. \A lo, hi \in Int : In(lo, hi) \in SUBSET X
    OBVIOUS
  <2>3. \A lo, hi \in Int : IsFiniteSet(In(lo, hi))
    <3> HIDE DEF X, In
    <3> QED BY <2>1, <2>2, FS_Subset
  <2> QED BY <2>3, OverlapIs
<1>6. WindowOverlap(M, w, start, end) =
         IF A < B THEN OverlapSeconds(start, end, M + A, M + B)
         ELSE OverlapSeconds(start, end, M, M + B)
              + OverlapSeconds(start, end, M + A, M + D)
  BY <1>1 DEF WindowOverlap
<1> DEFINE T == Taken(start, end, d, w)
<1>7. \A t : t \in T <=> t \in X /\ Day(t) = d /\ Off(t, w)
  BY DEF Taken
<1>8. CASE A < B
  <2>1. ASSUME NEW t \in X
        PROVE  t \in T <=> M + A =< t /\ t < M + B
    <3>1. t \in Int /\ M \in Int /\ A \in Int /\ B \in Int /\ D \in Int
          /\ 0 =< A /\ B =< D
      BY <1>1, <1>2
    <3> HIDE DEF T, M, A, B, D, X
    <3> QED BY <1>3, <1>4, <1>7, <1>8, <3>1
  <2>2. T = In(M + A, M + B)
    <3> HIDE DEF M, A, B
    <3> QED BY <1>7, <2>1
  <2>3. M + A \in Int /\ M + B \in Int
    BY <1>1, <1>2
  <2> HIDE DEF M, A, B, T, In
  <2> QED BY <1>5, <1>6, <1>8, <2>2, <2>3 DEF M, T
<1>9. CASE ~(A < B)
  <2> DEFINE P == In(M, M + B)
             Q == In(M + A, M + D)
  <2>0. /\ M \in Int /\ A \in Int /\ B \in Int /\ D \in Int
        /\ 0 =< A /\ A =< D /\ 0 =< B /\ B =< D /\ B =< A
    BY <1>1, <1>2, <1>9
  <2>1. ASSUME NEW t \in X
        PROVE  /\ t \in T <=> t \in P \/ t \in Q
               /\ ~(t \in P /\ t \in Q)
    <3>1. t \in Int
      OBVIOUS
    <3>2. t \in P <=> M =< t /\ t < M + B
      OBVIOUS
    <3>3. t \in Q <=> M + A =< t /\ t < M + D
      OBVIOUS
    <3> HIDE DEF T, M, A, B, D, X, P, Q
    <3> QED BY <1>3, <1>4, <1>7, <1>9, <2>0, <3>1, <3>2, <3>3
  <2>2. \A t : (t \in P => t \in X) /\ (t \in Q => t \in X)
    OBVIOUS
  <2>3. T = P \cup Q /\ P \cap Q = {}
    <3> HIDE DEF P, Q, T, X
    <3> QED BY <1>7, <2>1, <2>2
  <2>4. M + A \in Int /\ M + B \in Int /\ M + D \in Int
    BY <2>0
  <2>5. /\ IsFiniteSet(P) /\ IsFiniteSet(Q)
        /\ WindowOverlap(M, w, start, end) = Cardinality(P) + Cardinality(Q)
    <3> HIDE DEF M, A, B, D, T, In
    <3> QED BY <1>5, <1>6, <1>9, <2>0, <2>4
  <2> HIDE DEF P, Q, T
  <2>6. Cardinality(T) = Cardinality(P) + Cardinality(Q) - 0
    BY <2>3, <2>5, FS_Union, FS_EmptySet
  <2>7. Cardinality(P) \in Nat /\ Cardinality(Q) \in Nat
    BY <2>5, FS_CardinalityType
  <2> HIDE DEF M
  <2>8. WindowOverlap(M, w, start, end) = Cardinality(T)
    BY <2>5, <2>6, <2>7
  <2> QED BY <2>8 DEF M, T
<1> QED BY <1>8, <1>9

\* A later time is not on an earlier day.
LEMMA DayGrows ==
  ASSUME NEW t \in Int, NEW u \in Int, t =< u
  PROVE  Day(t) =< Day(u) /\ Day(t) * SecondsPerDay =< t
<1>1. SecondsPerDay \in Nat \ {0}
  BY DayIs
<1> QED BY <1>1 DEF Day

\* The seconds of a session that lie in a window.
Lost(start, end, offHours) ==
    {t \in start .. end - 1 : \E j \in DOMAIN offHours : Off(t, offHours[j])}

\* No second of a day lies in two windows.
Apart(offHours) ==
    \A t \in 0 .. SecondsPerDay - 1, i, j \in DOMAIN offHours :
       Off(t, offHours[i]) /\ Off(t, offHours[j]) => i = j

\* What is taken off a session is at least the time in windows, and just that
\* unless windows overlap each other.
LEMMA TotalOverlapIs ==
  ASSUME NEW start \in Int, NEW end \in Int, NEW offHours,
         IsFiniteSet(DOMAIN offHours),
         \A j \in DOMAIN offHours : IsWindow(offHours[j])
  PROVE  /\ TotalOverlap(start, end, offHours) \in Int
         /\ TotalOverlap(start, end, offHours)
              >= Cardinality(Lost(start, end, offHours))
         /\ Apart(offHours) => TotalOverlap(start, end, offHours)
                                  = Cardinality(Lost(start, end, offHours))
<1> DEFINE X == start .. end - 1
           L == Lost(start, end, offHours)
           total == TotalOverlap(start, end, offHours)
           days == {d \in Day(start) .. Day(end) : d * SecondsPerDay < end}
           S == days \X DOMAIN offHours
           W(dw) == WindowOverlap(dw[1] * SecondsPerDay, offHours[dw[2]], start, end)
           Y == [dw \in S |-> Taken(start, end, dw[1], offHours[dw[2]])]
           f == [dw \in S |-> W(dw)]
<1>1. CASE end =< start
  <2>1. total = 0
    BY <1>1 DEF TotalOverlap
  <2>2. L = {}
    BY <1>1 DEF Lost
  <2>3. Cardinality(L) = 0
    BY <2>2, FS_EmptySet
  <2> HIDE DEF L, total
  <2>4. total \in Int /\ total >= Cardinality(L) /\ total = Cardinality(L)
    BY <2>1, <2>3
  <2> QED BY <2>4 DEF L, total
<1>2. CASE start < end
  <2>1. IsFiniteSet(S)
    <3>1. Day(start) \in Int /\ Day(end) \in Int
      BY DayIs
    <3>2. IsFiniteSet(Day(start) .. Day(end))
      BY <3>1, FS_Interval
    <3>3. IsFiniteSet(days)
      BY <3>2, FS_Subset
    <3> HIDE DEF days
    <3> QED BY <3>3, FS_Product
  <2>2. IsFiniteSet(X)
    BY FS_Interval
  <2>3. \A x \in S : x[1] \in Int /\ x[2] \in DOMAIN offHours
    <3>1. Day(start) \in Int /\ Day(end) \in Int
      BY DayIs
    <3> QED BY <3>1
  <2>4. \A x \in S : Y[x] \in SUBSET X
    BY DEF Taken
  <2>5. \A x \in S : f[x] = Cardinality(Y[x])
    BY <2>3, WindowOverlapIs
  <2>6. f \in [S -> Int]
    <3>1. \A x \in S : Cardinality(Y[x]) \in Int
      <4> HIDE DEF X, S, Y
      <4> QED BY <2>2, <2>4, FS_Subset, FS_CardinalityType
    <3> HIDE DEF Y
    <3> QED BY <2>5, <3>1
  <2>7. \E it : it = [s \in SUBSET S |->
                         IF s = {} THEN 0
                         ELSE W(CHOOSE x \in s : TRUE)
                              + it[s \ {CHOOSE x \in s : TRUE}]]
    <3>1. PICK it \in [SUBSET S -> Int] : SumsUp(it, f, S)
      <4> HIDE DEF f, S
      <4> QED BY <2>1, <2>6, SumExists
    <3>2. ASSUME NEW s \in SUBSET S, s # {}
          PROVE  f[CHOOSE x \in s : TRUE] = W(CHOOSE x \in s : TRUE)
      <4> DEFINE c == CHOOSE x \in s : TRUE
      <4>1. c \in S
        BY <3>2
      <4> HIDE DEF c, W, S
      <4>2. f[c] = W(c)
        BY <4>1
      <4> QED BY <4>2 DEF c
    <3>3. \A s \in SUBSET S :
             it[s] = IF s = {} THEN 0
                     ELSE W(CHOOSE x \in s : TRUE)
                          + it[s \ {CHOOSE x \in s : TRUE}]
      <4> HIDE DEF W, S, f
      <4> QED BY <3>1, <3>2 DEF SumsUp
    <3> HIDE DEF W, S, f
    <3> QED BY <3>1, <3>3
  <2>8. PICK it : /\ it = [s \in SUBSET S |->
                              IF s = {} THEN 0
                              ELSE W(CHOOSE x \in s : TRUE)
                                   + it[s \ {CHOOSE x \in s : TRUE}]]
                  /\ total = it[S]
    <3> DEFINE Obeys(h) == h = [s \in SUBSET S |->
                                  IF s = {} THEN 0
                                  ELSE W(CHOOSE x \in s : TRUE)
                                       + h[s \ {CHOOSE x \in s : TRUE}]]
               it == CHOOSE h : Obeys(h)
    <3>1. total = it[S]
      BY <1>2 DEF TotalOverlap, MapThenSumSet, MapThenFoldSet
    <3>2. Obeys(it)
      <4>1. \E h : Obeys(h)
        BY <2>7
      <4> HIDE DEF Obeys
      <4> QED BY <4>1
    <3> HIDE DEF it, total, W, S
    <3> QED BY <3>1, <3>2
  <2> DEFINE sum == [s \in SUBSET S |-> it[s]]
  <2>9. SumStep(sum, f, S)
    <3>1. SumsUp(it, f, S)
      <4> SUFFICES ASSUME NEW s \in SUBSET S
                   PROVE  it[s] = IF s = {} THEN 0
                                  ELSE f[CHOOSE x \in s : TRUE]
                                       + it[s \ {CHOOSE x \in s : TRUE}]
        BY DEF SumsUp
      <4> DEFINE c == CHOOSE x \in s : TRUE
      <4>1. it[s] = IF s = {} THEN 0 ELSE W(c) + it[s \ {c}]
        <5> HIDE DEF W, S
        <5> QED BY <2>8
      <4>2. s # {} => f[c] = W(c)
        <5>1. s # {} => c \in S
          OBVIOUS
        <5> HIDE DEF c, W, S
        <5> QED BY <5>1
      <4> HIDE DEF W, f, S, c
      <4>3. it[s] = IF s = {} THEN 0 ELSE f[c] + it[s \ {c}]
        BY <4>1, <4>2
      <4> QED BY <4>3 DEF c
    <3> HIDE DEF f, S, W
    <3> QED BY <2>1, <2>6, <3>1, SumIs
  <2>10. total = sum[S] /\ sum[S] \in Int
    <3>1. total = sum[S]
      <4> HIDE DEF S, W, total
      <4> QED BY <2>8
    <3> HIDE DEF sum
    <3> QED BY <2>9, <3>1 DEF SumStep
  <2>11. /\ sum[S] >= Cardinality(UNION {Y[x] : x \in S})
         /\ (\A x, y \in S : x # y => Y[x] \cap Y[y] = {})
               => sum[S] = Cardinality(UNION {Y[x] : x \in S})
    <3> HIDE DEF sum, S, Y, f, X
    <3> QED BY <2>1, <2>2, <2>4, <2>5, <2>9, SumOfSizes
  <2>12. UNION {Y[x] : x \in S} = L
    <3>1. ASSUME NEW t \in L PROVE \E x \in S : t \in Y[x]
      <4>1. PICK j \in DOMAIN offHours : t \in X /\ Off(t, offHours[j])
        BY DEF Lost
      <4>2. t \in Int /\ start =< t /\ t =< end /\ t < end
        BY <4>1
      <4>3. Day(start) =< Day(t) /\ Day(t) =< Day(end) /\ Day(t) * SecondsPerDay =< t
            /\ Day(t) \in Int /\ Day(start) \in Int /\ Day(end) \in Int
            /\ SecondsPerDay \in Int
        BY <4>2, DayGrows, DayIs
      <4>4. Day(t) \in days
        BY <4>2, <4>3
      <4>5. <<Day(t), j>> \in S
        BY <4>1, <4>4
      <4>6. t \in Y[<<Day(t), j>>]
        BY <4>1, <4>5 DEF Taken
      <4> QED BY <4>5, <4>6
    <3>2. ASSUME NEW x \in S, NEW t \in Y[x] PROVE t \in L
      BY <2>3 DEF Taken, Lost
    <3> HIDE DEF Y, S, L
    <3> QED BY <3>1, <3>2
  <2>13. ASSUME Apart(offHours), NEW x \in S, NEW y \in S, x # y
         PROVE  Y[x] \cap Y[y] = {}
    <3> SUFFICES ASSUME NEW t \in Y[x], t \in Y[y] PROVE FALSE
      OBVIOUS
    <3>1. /\ t \in Int /\ Day(t) = x[1] /\ Day(t) = y[1]
          /\ Off(t, offHours[x[2]]) /\ Off(t, offHours[y[2]])
      BY DEF Taken
    <3> DEFINE r == t % SecondsPerDay
    <3>2. r \in 0 .. SecondsPerDay - 1 /\ SecondsPerDay \in Nat \ {0}
      BY <3>1, DayIs
    <3>3. r % SecondsPerDay = r
      <4> HIDE DEF r
      <4> QED BY <3>2
    <3>4. Off(r, offHours[x[2]]) /\ Off(r, offHours[y[2]])
      BY <3>1, <3>3 DEF Off
    <3>5. x[2] = y[2]
      <4> HIDE DEF r, S
      <4> QED BY <2>3, <2>13, <3>2, <3>4 DEF Apart
    <3>6. x = <<x[1], x[2]>> /\ y = <<y[1], y[2]>>
      OBVIOUS
    <3> QED BY <2>13, <3>1, <3>5, <3>6
  <2> HIDE DEF sum, S, Y, L, f, W, total
  <2>14. total >= Cardinality(L) /\ total \in Int
    BY <2>10, <2>11, <2>12
  <2>15. Apart(offHours) => total = Cardinality(L)
    BY <2>10, <2>11, <2>12, <2>13
  <2> QED BY <2>14, <2>15 DEF L, total
<1>3. start < end \/ end =< start
  OBVIOUS
<1> QED BY <1>1, <1>2, <1>3, Zenon

-----------------------------------------------------------------------------
(* The run is of what was asked for. *)

\* The input, and the step that is next.
RunInv ==
    /\ ask \in Inputs
    /\ timeline = ask.timeline /\ form = ask.form
    /\ template.transform = ask.template.transform
    /\ step \in Nat \ {0} /\ step - 1 =< Len(template.transform)

\* Nothing but a step of the pipeline changes what sessions are made from.
RunStays == /\ UNCHANGED <<ask, timeline, form, step, sessions>>
            /\ template'.transform = template.transform

\* A step of the pipeline, while the client waits.
Applies(name) ==
    /\ Apply(name) /\ UNCHANGED ask

\* For the sessions, a step makes them, changes them or lets them be.
LEMMA StepsOfRun ==
  ASSUME WireTypes, AskedFor, CopyInv, RunInv, [DocumentsNext]_<<vars, docVars>>
  PROVE  \/ RunStays
         \/ Sessionize /\ UNCHANGED ask
         \/ ExcludeOffTime /\ UNCHANGED ask
         \/ \E name : /\ Applies(name) /\ UNCHANGED sessions
                      /\ name \notin {"sessionize", "exclude-off-time"}
<1> USE DEF RunStays
<1>1. CASE UNCHANGED <<vars, docVars>>
  BY <1>1 DEF vars, inputVars, docVars
<1>2. CASE OpenTemplate \/ CreateTemplate \/ AgentReads \/ Deliver \/ CheckFormat \/ Export
  BY <1>2 DEF OpenTemplate, CreateTemplate, AgentReads, Deliver, CheckFormat, Export,
              vars, inputVars
<1>3. CASE GetTemplate
  <2>1. /\ stage = "load" /\ row = CopyRow /\ row # Absent
        /\ ask \in Inputs /\ ask.copy \in Texts
    BY <1>3, RowIsThere DEF CopyInv, GetTemplate
  <2>2. template' = TheCopy
    BY <1>3, <2>1, CopyIs DEF GetTemplate
  <2>3. ask.template \in TemplatesOfWire
    BY <2>1 DEF AskedFor
  <2>4. Renamed.transform = ask.template.transform
    BY <2>3 DEF Renamed, TemplatesOfWire
  <2>5. TheCopy.transform = ask.template.transform
    BY <2>4 DEF TheCopy, Copied
  <2> QED BY <1>3, <2>2, <2>5 DEF GetTemplate, RunInv
<1>4. CASE (BuildPipeline \/ ExcludeOffTimeFails \/ ApplyLayout) /\ RunStep
  BY <1>4 DEF BuildPipeline, ExcludeOffTimeFails, ApplyLayout, RunStep, inputVars, docVars
<1>5. CASE Sessionize /\ RunStep
  BY <1>5 DEF RunStep, docVars
<1>6. CASE ExcludeOffTime /\ RunStep
  BY <1>6 DEF RunStep, docVars
<1>7. CASE SplitByActiveDays /\ RunStep
  <2>1. Applies("split-by-active-days") /\ UNCHANGED sessions
    BY <1>7 DEF SplitByActiveDays, Applies, RunStep, docVars
  <2> QED BY <2>1
<1>8. CASE GroupBy /\ RunStep
  <2>1. Applies("group-by") /\ UNCHANGED sessions
    BY <1>8 DEF GroupBy, Applies, RunStep, docVars
  <2> QED BY <2>1
<1>9. CASE Aggregate /\ RunStep
  <2>1. Applies("aggregate") /\ UNCHANGED sessions
    BY <1>9 DEF Aggregate, Applies, RunStep, docVars
  <2> QED BY <2>1
<1>10. CASE Rate /\ RunStep
  <2>1. Applies("rate") /\ UNCHANGED sessions
    BY <1>10 DEF Rate, Applies, RunStep, docVars
  <2> QED BY <2>1
<1>11. CASE Passthrough /\ RunStep
  <2>1. Applies("passthrough") /\ UNCHANGED sessions
    BY <1>11 DEF Passthrough, Applies, RunStep, docVars
  <2> QED BY <2>1
<1> QED BY <1>1, <1>2, <1>3, <1>4, <1>5, <1>6, <1>7, <1>8, <1>9, <1>10, <1>11
           DEF DocumentsNext

\* Every run begins as it was asked for.
LEMMA RunInvInit == ASSUME AskedFor, DocumentsInit PROVE RunInv
<1>1. /\ ask \in Inputs /\ template = ask.template /\ timeline = ask.timeline
      /\ form = ask.form /\ step = 1
  BY DEF DocumentsInit, Start
<1>2. template.transform \in Seq(Steps)
  BY <1>1 DEF AskedFor, TemplatesOfWire
<1>3. Len(template.transform) \in Nat
  BY <1>2
<1> QED BY <1>1, <1>3 DEF RunInv

\* It goes on with the steps that were asked for.
LEMMA RunInvStep ==
  ASSUME WireTypes, AskedFor, CopyInv, RunInv, [DocumentsNext]_<<vars, docVars>>
  PROVE  RunInv'
<1>1. CASE RunStays
  BY <1>1 DEF RunStays, RunInv
<1>2. ASSUME NEW name, Applies(name) PROVE RunInv'
  <2> DEFINE t == template.transform
  <2>1. /\ ask \in Inputs /\ t = ask.template.transform /\ step \in DOMAIN t
        /\ step' = step + 1 /\ UNCHANGED <<ask, template, timeline, form>>
    BY <1>2 DEF RunInv, Applies, Apply, inputVars
  <2>2. t \in Seq(Steps)
    BY <2>1 DEF AskedFor, TemplatesOfWire
  <2>3. step \in 1..Len(t) /\ Len(t) \in Nat
    BY <2>1, <2>2
  <2>4. step' \in Nat \ {0} /\ step' - 1 =< Len(t)
    BY <2>1, <2>3
  <2> QED BY <2>1, <2>4 DEF RunInv
<1>3. Sessionize /\ UNCHANGED ask => Applies("sessionize")
  BY DEF Sessionize, Applies
<1>4. ExcludeOffTime /\ UNCHANGED ask => Applies("exclude-off-time")
  BY DEF ExcludeOffTime, Applies
<1> QED BY <1>1, <1>2, <1>3, <1>4, StepsOfRun

\* What a step of the pipeline has done when it is done.
LEMMA DoneStays ==
  ASSUME RunStays, NEW name
  PROVE  /\ Done(name)' = Done(name)
         /\ \A k, d : Given(name, k, d)' = Given(name, k, d)
BY DEF RunStays, Done, Given

\* A step that is applied is done then, and no other is.
LEMMA DoneSteps ==
  ASSUME RunInv, NEW name, Applies(name), NEW other
  PROVE  /\ Done(other)' <=> Done(other) \/ other = name
         /\ \A k, d : Given(other, k, d)' = Given(other, k, d)
<1>1. /\ step \in Nat \ {0} /\ step' = step + 1 /\ template' = template
      /\ template.transform[step].name = name
  BY DEF RunInv, Applies, Apply, inputVars
<1>2. \A i \in 1 .. step' - 1 : i \in 1 .. step - 1 \/ i = step
  BY <1>1
<1>3. step \in 1 .. step' - 1 /\ \A i \in 1 .. step - 1 : i \in 1 .. step' - 1
  BY <1>1
<1>4. Done(other)' <=> Done(other) \/ other = name
  BY <1>1, <1>2, <1>3 DEF Done
<1>5. \A k, d : Given(other, k, d)' = Given(other, k, d)
  BY <1>1 DEF Given
<1> QED BY <1>4, <1>5

\* A step that comes once is the one that is given its parameters.
LEMMA GivenToStep ==
  ASSUME NEW name, step \in DOMAIN template.transform,
         template.transform[step].name = name,
         \A k, l \in DOMAIN template.transform :
            template.transform[k].name = name /\ template.transform[l].name = name => k = l
  PROVE  \A k, d : Given(name, k, d) = Param(Params, k, d)
<1> DEFINE i == CHOOSE i \in DOMAIN template.transform : template.transform[i].name = name
<1>1. i \in DOMAIN template.transform /\ template.transform[i].name = name
  OBVIOUS
<1> HIDE DEF i
<1>2. i = step
  BY <1>1
<1> QED BY <1>2 DEF i, Given, Params

-----------------------------------------------------------------------------
(* Sessions are clusters. *)

\* There are no sessions before sessionize, and clusters after it.
SessionInv ==
    /\ ~Done("sessionize") => sessions = <<>>
    /\ Done("sessionize") =>
         /\ sessions \in Seq(Session(OwnersIn(timeline)))
         /\ AreClusters(sessions, timeline, Given("sessionize", "gapSeconds", GapSeconds))

\* A session keeps what makes it a cluster when its duration is changed.
SameButDuration(ss, tt) ==
    /\ Len(tt) = Len(ss)
    /\ \A i \in 1..Len(ss) : /\ tt[i].owner = ss[i].owner /\ tt[i].start = ss[i].start
                             /\ tt[i].end = ss[i].end /\ tt[i].count = ss[i].count

\* They are clusters then as before.
LEMMA ClustersStay ==
  ASSUME NEW ss, NEW tt, NEW tl, NEW gap, SameButDuration(ss, tt), AreClusters(ss, tl, gap)
  PROVE  AreClusters(tt, tl, gap)
<1> DEFINE n == Len(ss)
           T(o) == TimesOfOwner(tl, o)
<1>1. /\ Len(tt) = n
      /\ \A i \in 1..n : /\ tt[i].owner = ss[i].owner /\ tt[i].start = ss[i].start
                         /\ tt[i].end = ss[i].end /\ tt[i].count = ss[i].count
  BY DEF SameButDuration
<1>2. /\ \A i \in 1..n : /\ ss[i].owner \in OwnersIn(tl)
                         /\ IsCluster(ss[i], ss[i].owner, tl, gap)
      /\ \A o \in OwnersIn(tl) : \A t \in Begins(T(o), gap) :
           \E i \in 1..n : ss[i].owner = o /\ ss[i].start = t
      /\ \A i, j \in 1..n :
           ss[i].owner = ss[j].owner /\ ss[i].start = ss[j].start => i = j
  BY DEF AreClusters
<1> HIDE DEF n, T
<1>3. ASSUME NEW i \in 1..n
      PROVE  tt[i].owner \in OwnersIn(tl) /\ IsCluster(tt[i], tt[i].owner, tl, gap)
  <2>1. ss[i].owner \in OwnersIn(tl) /\ IsCluster(ss[i], ss[i].owner, tl, gap)
    BY <1>2
  <2>2. /\ tt[i].owner = ss[i].owner /\ tt[i].start = ss[i].start
        /\ tt[i].end = ss[i].end /\ tt[i].count = ss[i].count
    BY <1>1
  <2> QED BY <2>1, <2>2 DEF IsCluster
<1>4. \A o \in OwnersIn(tl) : \A t \in Begins(T(o), gap) :
         \E i \in 1..n : tt[i].owner = o /\ tt[i].start = t
  <2> SUFFICES ASSUME NEW o \in OwnersIn(tl), NEW t \in Begins(T(o), gap)
               PROVE  \E i \in 1..n : tt[i].owner = o /\ tt[i].start = t
    OBVIOUS
  <2>1. PICK i \in 1..n : ss[i].owner = o /\ ss[i].start = t
    BY <1>2
  <2> QED BY <1>1, <2>1
<1>5. \A i, j \in 1..n :
         tt[i].owner = tt[j].owner /\ tt[i].start = tt[j].start => i = j
  BY <1>1, <1>2
<1> QED BY <1>1, <1>3, <1>4, <1>5 DEF AreClusters, T

\* The off-hours of a run are windows.
LEMMA OffHoursAre ==
  ASSUME TimelinesAsked, RunInv, ExcludeOffTime
  PROVE  ResolveOffHours \in Seq(Windows)
<1>1. /\ step \in DOMAIN ask.template.transform /\ ask \in Inputs
      /\ ask.template.transform[step].name = "exclude-off-time"
      /\ form = ask.form /\ Params = ask.template.transform[step].params
  BY DEF RunInv, ExcludeOffTime, Apply, Params
<1> QED BY <1>1 DEF TimelinesAsked, ResolveOffHours

\* What a list of windows takes of a session.
LEMMA OverlapOfWindows ==
  ASSUME NEW start \in Int, NEW end \in Int, NEW offHours \in Seq(Windows)
  PROVE  /\ TotalOverlap(start, end, offHours) \in Int
         /\ TotalOverlap(start, end, offHours)
              >= Cardinality(Lost(start, end, offHours))
         /\ Apart(offHours) => TotalOverlap(start, end, offHours)
                                  = Cardinality(Lost(start, end, offHours))
<1>1. DOMAIN offHours = 1..Len(offHours) /\ Len(offHours) \in Nat
  OBVIOUS
<1>2. IsFiniteSet(DOMAIN offHours)
  BY <1>1, FS_Interval
<1>3. ASSUME NEW j \in DOMAIN offHours PROVE IsWindow(offHours[j])
  <2>1. offHours[j] \in Windows
    <3> DEFINE W == Windows
    <3>1. offHours \in Seq(W)
      OBVIOUS
    <3> HIDE DEF W
    <3>2. offHours[j] \in W
      BY <1>1, <3>1
    <3> QED BY <3>2 DEF W
  <2> QED BY <2>1 DEF Windows, IsWindow
<1> QED BY <1>2, <1>3, TotalOverlapIs

\* What exclude-off-time makes of the sessions.
LEMMA ExcludeOffTimeIs ==
  ASSUME TimelinesAsked, RunInv, ExcludeOffTime,
         NEW O, sessions \in Seq(Session(O))
  PROVE  /\ sessions' \in Seq(Session(O))
         /\ SameButDuration(sessions, sessions')
         /\ \A i \in 1..Len(sessions) :
              sessions'[i].duration =
                NeverNegative(sessions[i].duration
                                - TotalOverlap(sessions[i].start, sessions[i].end,
                                               ResolveOffHours))
<1> DEFINE n == Len(sessions)
           d(i) == NeverNegative(sessions[i].duration
                                   - TotalOverlap(sessions[i].start, sessions[i].end,
                                                  ResolveOffHours))
           S == Session(O)
<1>1. n \in Nat /\ DOMAIN sessions = 1..n /\ \A i \in 1..n : sessions[i] \in S
  <2> HIDE DEF S
  <2>1. sessions \in Seq(S)
    BY DEF S
  <2> QED BY <2>1
<1>2. sessions' = [i \in DOMAIN sessions |-> [sessions[i] EXCEPT !.duration = d(i)]]
  BY DEF ExcludeOffTime
<1>3. ASSUME NEW i \in 1..n PROVE d(i) \in Int
  <2>1. sessions[i].start \in Int /\ sessions[i].end \in Int /\ sessions[i].duration \in Int
    BY <1>1 DEF Session
  <2>2. TotalOverlap(sessions[i].start, sessions[i].end, ResolveOffHours) \in Int
    BY <2>1, OffHoursAre, OverlapOfWindows
  <2> DEFINE x == sessions[i].duration
                    - TotalOverlap(sessions[i].start, sessions[i].end, ResolveOffHours)
  <2>3. x \in Int
    BY <2>1, <2>2
  <2> HIDE DEF x
  <2>4. Max({0, x}) \in Int
    BY <2>3, MaxMin
  <2> QED BY <2>4 DEF NeverNegative, x
<1> HIDE DEF d, n
<1>4. ASSUME NEW i \in 1..n
      PROVE  /\ sessions'[i] \in S /\ sessions'[i].duration = d(i)
             /\ sessions'[i].owner = sessions[i].owner
             /\ sessions'[i].start = sessions[i].start
             /\ sessions'[i].end = sessions[i].end
             /\ sessions'[i].count = sessions[i].count
  <2>1. sessions'[i] = [sessions[i] EXCEPT !.duration = d(i)]
    BY <1>1, <1>2
  <2>2. sessions[i] \in S /\ d(i) \in Int
    BY <1>1, <1>3
  <2> QED BY <2>1, <2>2 DEF Session
<1>5. sessions' \in Seq(S) /\ Len(sessions') = n
  <2>1. sessions' = [i \in 1..n |-> sessions'[i]]
    BY <1>1, <1>2
  <2> HIDE DEF S
  <2>2. sessions' \in [1..n -> S]
    BY <1>4, <2>1
  <2> QED BY <1>1, <2>2
<1>6. SameButDuration(sessions, sessions')
  BY <1>4, <1>5 DEF SameButDuration, n
<1> QED BY <1>4, <1>5, <1>6 DEF n, d

\* What sessionize makes of the timeline.
LEMMA SessionizeIs ==
  ASSUME AskedFor, TimelinesAsked, SessionizedOnce, RunInv, SessionInv,
         Sessionize, UNCHANGED ask
  PROVE  /\ ~Done("sessionize") /\ Done("sessionize")'
         /\ sessions' \in Seq(Session(OwnersIn(timeline')))
         /\ AreClusters(sessions', timeline', Given("sessionize", "gapSeconds", GapSeconds)')
         /\ \A i \in 1..Len(sessions') :
              HasDuration(sessions'[i], Given("sessionize", "leadInSeconds", LeadInSeconds)')
<1> DEFINE t == template.transform
<1>1. /\ ask \in Inputs /\ timeline = ask.timeline /\ t = ask.template.transform
      /\ step \in DOMAIN t /\ t[step].name = "sessionize" /\ step \in Nat \ {0}
      /\ timeline' = timeline
  BY DEF RunInv, Sessionize, Apply, inputVars
<1>2. \A k, l \in DOMAIN t : t[k].name = "sessionize" /\ t[l].name = "sessionize" => k = l
  BY <1>1 DEF SessionizedOnce
<1>3. StepGap \in Nat /\ StepLeadIn \in Nat
  BY <1>1 DEF TimelinesAsked, Params, StepGap, StepLeadIn
<1>4. t \in Seq(Steps)
  BY <1>1 DEF AskedFor, TemplatesOfWire
<1>5. ~Done("sessionize")
  <2> SUFFICES ASSUME NEW i \in 1 .. step - 1, t[i].name = "sessionize" PROVE FALSE
    BY DEF Done
  <2>1. i \in DOMAIN t /\ i # step
    BY <1>1, <1>4
  <2> QED BY <1>1, <1>2, <2>1
<1>6. PICK tl \in SortedCopies : sessions' = sessions \o SessionsOf(tl)
  BY DEF Sessionize, SessionsOf
<1>7. /\ \A e \in EventRows : e.ts \in Int
      /\ timeline \in Seq(EventRows)
  BY <1>1 DEF TimelinesAsked
<1> DEFINE ss == SessionsOf(tl)
<1>8. /\ ss \in Seq(Session(OwnersIn(timeline)))
      /\ AreClusters(ss, timeline, StepGap)
      /\ \A i \in 1..Len(ss) : HasDuration(ss[i], StepLeadIn)
  <2>1. StepLeadIn \in Int
    BY <1>3
  <2> QED BY <1>3, <1>7, <2>1, SessionsOfIs
<1> HIDE DEF ss
<1>9. sessions' = ss
  <2>1. sessions = <<>>
    BY <1>5 DEF SessionInv
  <2>2. sessions' = <<>> \o ss
    BY <1>6, <2>1 DEF ss
  <2> DEFINE V == Session(OwnersIn(timeline))
  <2>3. ss \in Seq(V)
    BY <1>8
  <2> HIDE DEF V
  <2> QED BY <2>2, <2>3
<1>10. Applies("sessionize")
  BY DEF Sessionize, Applies
<1>11. /\ Done("sessionize")'
       /\ \A k, d : Given("sessionize", k, d)' = Given("sessionize", k, d)
  BY <1>10, DoneSteps
<1>12. \A k, d : Given("sessionize", k, d) = Param(Params, k, d)
  BY <1>1, <1>2, GivenToStep
<1>13. /\ Given("sessionize", "gapSeconds", GapSeconds)' = StepGap
       /\ Given("sessionize", "leadInSeconds", LeadInSeconds)' = StepLeadIn
  BY <1>11, <1>12 DEF StepGap, StepLeadIn
<1> QED BY <1>1, <1>5, <1>8, <1>9, <1>11, <1>13

\* Clusters are made once and stay clusters.
LEMMA SessionInvStep ==
  ASSUME WireTypes, AskedFor, TimelinesAsked, SessionizedOnce,
         CopyInv, RunInv, SessionInv, [DocumentsNext]_<<vars, docVars>>
  PROVE  SessionInv'
<1> DEFINE G == Given("sessionize", "gapSeconds", GapSeconds)
           O == OwnersIn(timeline)
<1>1. CASE RunStays
  <2>1. /\ Done("sessionize")' = Done("sessionize") /\ G' = G
        /\ sessions' = sessions /\ timeline' = timeline
    BY <1>1, DoneStays DEF RunStays
  <2> HIDE DEF G
  <2>2. SessionInv' <=> /\ ~Done("sessionize") => sessions = <<>>
                        /\ Done("sessionize") =>
                             /\ sessions \in Seq(Session(OwnersIn(timeline)))
                             /\ AreClusters(sessions, timeline, G)
    BY <2>1 DEF SessionInv, G
  <2> QED BY <2>2 DEF SessionInv, G
<1>2. CASE Sessionize /\ UNCHANGED ask
  BY <1>2, SessionizeIs DEF SessionInv
<1>3. ASSUME NEW name, Applies(name), name # "sessionize"
      PROVE  /\ Done("sessionize")' <=> Done("sessionize")
             /\ G' = G /\ timeline' = timeline
  BY <1>3, DoneSteps DEF Applies, Apply, inputVars
<1>4. CASE ExcludeOffTime /\ UNCHANGED ask
  <2>1. Applies("exclude-off-time")
    BY <1>4 DEF ExcludeOffTime, Applies
  <2>2. /\ Done("sessionize")' <=> Done("sessionize")
        /\ G' = G /\ timeline' = timeline
    BY <1>3, <2>1
  <2> HIDE DEF G
  <2>3. CASE Done("sessionize")
    <3>1. sessions \in Seq(Session(O)) /\ AreClusters(sessions, timeline, G)
      BY <2>3 DEF SessionInv, G
    <3>2. sessions' \in Seq(Session(O)) /\ SameButDuration(sessions, sessions')
      <4> HIDE DEF O
      <4> QED BY <1>4, <3>1, ExcludeOffTimeIs
    <3>3. AreClusters(sessions', timeline, G)
      BY <3>1, <3>2, ClustersStay
    <3> QED BY <2>2, <2>3, <3>2, <3>3 DEF SessionInv, G
  <2>4. CASE ~Done("sessionize")
    <3>1. sessions = <<>>
      BY <2>4 DEF SessionInv
    <3>2. sessions' = <<>>
      <4>1. sessions \in Seq(Session({}))
        BY <3>1
      <4>2. sessions' \in Seq(Session({})) /\ Len(sessions') = Len(sessions)
        BY <1>4, <4>1, ExcludeOffTimeIs DEF SameButDuration
      <4> DEFINE S == Session({})
      <4>3. sessions' \in Seq(S) /\ Len(sessions') = 0
        BY <3>1, <4>2
      <4> HIDE DEF S
      <4> QED BY <4>3
    <3> QED BY <2>2, <2>4, <3>2 DEF SessionInv
  <2> QED BY <2>3, <2>4
<1>5. ASSUME NEW name, Applies(name), UNCHANGED sessions, name # "sessionize"
      PROVE  SessionInv'
  <2>1. /\ Done("sessionize")' <=> Done("sessionize")
        /\ G' = G /\ timeline' = timeline /\ sessions' = sessions
    BY <1>3, <1>5
  <2> HIDE DEF G
  <2>2. SessionInv' <=> /\ ~Done("sessionize") => sessions = <<>>
                        /\ Done("sessionize") =>
                             /\ sessions \in Seq(Session(OwnersIn(timeline)))
                             /\ AreClusters(sessions, timeline, G)
    BY <2>1 DEF SessionInv, G
  <2> QED BY <2>2 DEF SessionInv, G
<1> HIDE DEF G, O
<1> QED BY <1>1, <1>2, <1>4, <1>5, StepsOfRun

\* No run begins with sessions.
LEMMA SessionInvInit == ASSUME DocumentsInit PROVE SessionInv
BY DEF DocumentsInit, Start, SessionInv, Done

\* Whatever the timeline, the gap and the lead-in, in whatever order sort.Slice
\* leaves events of the same second and whatever other steps the template has:
\* sessionize makes of the timeline the clusters of each owner's events, each
\* once, and no later step changes more of them than their duration
\* (sessionize.go; exclude_off_time.go, Apply).
THEOREM SessionsClustered ==
    ASSUME WireTypes, AskedFor, TimelinesAsked, SessionizedOnce
    PROVE  DocumentsSpec => []SessionsAreClusters
<1> DEFINE Inv == CopyInv /\ RunInv /\ SessionInv
<1>1. DocumentsInit => Inv
  BY CopyInvInit, RunInvInit, SessionInvInit
<1>2. Inv /\ [DocumentsNext]_<<vars, docVars>> => Inv'
  BY CopyInvStep, RunInvStep, SessionInvStep
<1>3. Inv => SessionsAreClusters
  <2> SUFFICES ASSUME RunInv, SessionInv, Done("sessionize")
               PROVE  AsExpected(sessions, timeline,
                                 Given("sessionize", "gapSeconds", GapSeconds))
    BY DEF SessionsAreClusters, AsExpected, TimesOfOwner, WithinOf
  <2>1. /\ \A e \in EventRows : e.ts \in Int
        /\ timeline \in Seq(EventRows)
    BY DEF TimelinesAsked, RunInv
  <2>2. /\ sessions \in Seq(Session(OwnersIn(timeline)))
        /\ AreClusters(sessions, timeline, Given("sessionize", "gapSeconds", GapSeconds))
    BY DEF SessionInv
  <2> QED BY <2>1, <2>2, ClustersAreExpected
<1> QED BY <1>1, <1>2, <1>3, PTL DEF DocumentsSpec

-----------------------------------------------------------------------------
(* What is left of a session. *)

\* The seconds of a session that lie in no window.
WorkingIn(s, offHours) ==
    {t \in s.start .. s.end - 1 : \A i \in DOMAIN offHours : ~Off(t, offHours[i])}

\* What OffTimeExact says of sessions.
LeavesWorking(ss, offHours, lead) ==
    \A i \in DOMAIN ss :
      /\ ss[i].duration =< lead + Cardinality(WorkingIn(ss[i], offHours))
      /\ Apart(offHours) =>
           ss[i].duration = lead + Cardinality(WorkingIn(ss[i], offHours))

\* A second of a session is lost or worked.
LEMMA WorkingIs ==
  ASSUME NEW s, s.start \in Int, s.end \in Int, s.start =< s.end, NEW offHours
  PROVE  /\ Cardinality(Lost(s.start, s.end, offHours)) \in Nat
         /\ Cardinality(WorkingIn(s, offHours)) \in Nat
         /\ Cardinality(WorkingIn(s, offHours))
              = (s.end - s.start) - Cardinality(Lost(s.start, s.end, offHours))
<1> DEFINE X == s.start .. s.end - 1
           L == Lost(s.start, s.end, offHours)
           W == WorkingIn(s, offHours)
<1>1. IsFiniteSet(X) /\ Cardinality(X) = s.end - s.start
  <2>1. s.end - 1 \in Int
    OBVIOUS
  <2>2. /\ IsFiniteSet(X)
        /\ Cardinality(X) = IF s.start > s.end - 1 THEN 0 ELSE (s.end - 1) - s.start + 1
    BY <2>1, FS_Interval
  <2> QED BY <2>2
<1>2. L \subseteq X /\ W = X \ L
  BY DEF Lost, WorkingIn
<1> HIDE DEF X, L, W
<1>3. IsFiniteSet(L)
  BY <1>1, <1>2, FS_Subset
<1>4. Cardinality(L) \in Nat
  BY <1>3, FS_CardinalityType
<1>5. /\ IsFiniteSet(W) /\ Cardinality(W) = Cardinality(X) - Cardinality(X \cap L)
  BY <1>1, <1>2, FS_Difference
<1>6. X \cap L = L
  BY <1>2
<1>7. Cardinality(W) \in Nat
  BY <1>5, FS_CardinalityType
<1> QED BY <1>1, <1>4, <1>5, <1>6, <1>7 DEF L, W

\* What is left of the duration when the overlap is taken off.
LEMMA LeftIs ==
  ASSUME NEW s, s.start \in Int, s.end \in Int, s.start =< s.end,
         NEW offHours \in Seq(Windows), NEW lead \in Nat, HasDuration(s, lead),
         NEW d, d = NeverNegative(s.duration - TotalOverlap(s.start, s.end, offHours))
  PROVE  /\ d =< lead + Cardinality(WorkingIn(s, offHours))
         /\ Apart(offHours) => d = lead + Cardinality(WorkingIn(s, offHours))
<1> DEFINE total == TotalOverlap(s.start, s.end, offHours)
           L == Cardinality(Lost(s.start, s.end, offHours))
           W == Cardinality(WorkingIn(s, offHours))
           len == s.end - s.start
           x == s.duration - total
<1>1. total \in Int /\ total >= L /\ (Apart(offHours) => total = L)
  BY OverlapOfWindows
<1>2. L \in Nat /\ W \in Nat /\ W = len - L
  BY WorkingIs
<1>3. s.duration = len + lead /\ len \in Nat
  BY DEF HasDuration
<1> HIDE DEF total, L, W, len
<1>4. x \in Int /\ x =< lead + W /\ (Apart(offHours) => x = lead + W)
  BY <1>1, <1>2, <1>3
<1> HIDE DEF x
<1>5. d = IF 0 < x THEN x ELSE 0
  <2>1. d = Max({0, x})
    BY DEF NeverNegative, x, total
  <2> QED BY <1>4, <2>1, MaxMin
<1> QED BY <1>2, <1>4, <1>5 DEF W

\* The lead-in that sessionize folded into the durations.
LeadIn == Given("sessionize", "leadInSeconds", LeadInSeconds)

\* The windows that the step excludes, or excluded.
OffHoursOf == IF "offHours" \in DOMAIN form THEN form.offHours
              ELSE Given("exclude-off-time", "offHours", <<>>)

\* The durations before exclude-off-time, and after it.
DurationInv ==
    /\ Done("sessionize") /\ ~Done("exclude-off-time") =>
         \A i \in 1..Len(sessions) : HasDuration(sessions[i], LeadIn)
    /\ Done("exclude-off-time") => LeavesWorking(sessions, OffHoursOf, LeadIn)

\* The lead-in of a step that is done is no negative number.
LEMMA LeadInIs ==
  ASSUME AskedFor, TimelinesAsked, RunInv, Done("sessionize")
  PROVE  LeadIn \in Nat
<1> DEFINE t == template.transform
<1>1. ask \in Inputs /\ t = ask.template.transform
  BY DEF RunInv
<1>2. \A k \in DOMAIN t : t[k].name = "sessionize" =>
          Param(t[k].params, "leadInSeconds", LeadInSeconds) \in Nat
  BY <1>1 DEF TimelinesAsked
<1>3. t \in Seq(Steps)
  BY <1>1 DEF AskedFor, TemplatesOfWire
<1>4. \E k \in DOMAIN t : t[k].name = "sessionize"
  <2>1. PICK k \in 1 .. step - 1 : t[k].name = "sessionize"
    BY DEF Done
  <2>2. step \in Nat \ {0} /\ step - 1 =< Len(t) /\ DOMAIN t = 1..Len(t)
    BY <1>3 DEF RunInv
  <2>3. k \in DOMAIN t
    BY <2>1, <2>2
  <2> QED BY <2>1, <2>3
<1> DEFINE i == CHOOSE i \in DOMAIN t : t[i].name = "sessionize"
<1>5. i \in DOMAIN t /\ t[i].name = "sessionize"
  BY <1>4
<1> HIDE DEF i
<1> QED BY <1>2, <1>5 DEF i, LeadIn, Given

\* Durations are set by sessionize and reduced by exclude-off-time, once each.
LEMMA DurationInvStep ==
  ASSUME WireTypes, AskedFor, TimelinesAsked, SessionizedOnce, ExcludedOnce,
         CopyInv, RunInv, SessionInv, DurationInv,
         [DocumentsNext]_<<vars, docVars>>
  PROVE  DurationInv'
<1> DEFINE t == template.transform
           off == "exclude-off-time"
<1>1. CASE RunStays
  <2>1. /\ Done("sessionize")' = Done("sessionize") /\ Done(off)' = Done(off)
        /\ LeadIn' = LeadIn /\ OffHoursOf' = OffHoursOf /\ sessions' = sessions
    BY <1>1, DoneStays DEF RunStays, LeadIn, OffHoursOf
  <2> QED BY <2>1 DEF DurationInv, HasDuration, LeavesWorking, WorkingIn, Off
<1>2. ASSUME NEW name, Applies(name)
      PROVE  /\ Done("sessionize")' <=> Done("sessionize") \/ name = "sessionize"
             /\ Done(off)' <=> Done(off) \/ name = off
             /\ LeadIn' = LeadIn /\ OffHoursOf' = OffHoursOf
             /\ step \in DOMAIN t /\ t[step].name = name
             /\ t = ask.template.transform /\ ask \in Inputs
  <2>1. /\ Done("sessionize")' <=> Done("sessionize") \/ "sessionize" = name
        /\ \A k, d : Given("sessionize", k, d)' = Given("sessionize", k, d)
    BY <1>2, DoneSteps
  <2>2. /\ Done(off)' <=> Done(off) \/ off = name
        /\ \A k, d : Given(off, k, d)' = Given(off, k, d)
    BY <1>2, DoneSteps
  <2>3. form' = form /\ step \in DOMAIN t /\ t[step].name = name
    BY <1>2 DEF Applies, Apply, inputVars
  <2> QED BY <2>1, <2>2, <2>3 DEF LeadIn, OffHoursOf, RunInv
<1>3. ASSUME NEW name, Done(name)
      PROVE  \E i \in DOMAIN t : i \in Nat /\ i < step /\ t[i].name = name
  <2>1. PICK i \in 1 .. step - 1 : t[i].name = name
    BY <1>3 DEF Done
  <2>2. t \in Seq(Steps)
    BY DEF RunInv, AskedFor, TemplatesOfWire
  <2>3. step \in Nat \ {0} /\ step - 1 =< Len(t) /\ DOMAIN t = 1..Len(t)
    BY <2>2 DEF RunInv
  <2> QED BY <2>1, <2>3
<1>4. CASE Sessionize /\ UNCHANGED ask
  <2>1. Applies("sessionize")
    BY <1>4 DEF Sessionize, Applies
  <2>2. ~Done(off)
    <3> SUFFICES ASSUME Done(off) PROVE FALSE
      OBVIOUS
    <3>1. PICK i \in DOMAIN t : i \in Nat /\ i < step /\ t[i].name = off
      BY <1>3
    <3>2. step < i
      BY <1>2, <2>1, <3>1 DEF ExcludedOnce
    <3> QED BY <3>1, <3>2 DEF RunInv
  <2>3. /\ ~Done(off)' /\ LeadIn' = LeadIn
    BY <1>2, <2>1, <2>2
  <2>4. \A i \in 1..Len(sessions') : HasDuration(sessions'[i], LeadIn')
    BY <1>4, SessionizeIs DEF LeadIn
  <2> QED BY <2>3, <2>4 DEF DurationInv
<1>5. CASE ExcludeOffTime /\ UNCHANGED ask
  <2>1. Applies(off)
    BY <1>5 DEF ExcludeOffTime, Applies
  <2>2. ~Done(off)
    <3> SUFFICES ASSUME Done(off) PROVE FALSE
      OBVIOUS
    <3>1. PICK i \in DOMAIN t : i \in Nat /\ i < step /\ t[i].name = off
      BY <1>3
    <3>2. step = i
      BY <1>2, <2>1, <3>1 DEF ExcludedOnce
    <3>3. step \in Nat
      BY DEF RunInv
    <3>4. i < i
      BY <3>1, <3>2
    <3>5. i \in Nat
      BY <3>2, <3>3
    <3> QED BY <3>4, <3>5
  <2>3. Done(off)' /\ LeadIn' = LeadIn /\ OffHoursOf' = OffHoursOf
    BY <1>2, <2>1
  <2>4. OffHoursOf = ResolveOffHours
    <3>1. \A k, l \in DOMAIN t : t[k].name = off /\ t[l].name = off => k = l
      BY <1>2, <2>1 DEF ExcludedOnce
    <3>2. \A k, d : Given(off, k, d) = Param(Params, k, d)
      BY <1>2, <2>1, <3>1, GivenToStep
    <3> QED BY <3>2 DEF OffHoursOf, ResolveOffHours
  <2>5. LeavesWorking(sessions', ResolveOffHours, LeadIn)
    <3>1. CASE ~Done("sessionize")
      <4>1. sessions = <<>>
        BY <3>1 DEF SessionInv
      <4>2. sessions' = [i \in {} |-> sessions'[i]]
        BY <1>5, <4>1 DEF ExcludeOffTime
      <4>3. DOMAIN sessions' = {}
        BY <4>2
      <4> QED BY <4>3 DEF LeavesWorking
    <3>2. CASE Done("sessionize")
      <4> DEFINE O == OwnersIn(timeline)
                 n == Len(sessions)
                 hours == ResolveOffHours
      <4>1. /\ sessions \in Seq(Session(O))
            /\ AreClusters(sessions, timeline, Given("sessionize", "gapSeconds", GapSeconds))
        BY <3>2 DEF SessionInv
      <4>2. \A i \in 1..n : HasDuration(sessions[i], LeadIn)
        BY <2>2, <3>2 DEF DurationInv
      <4>3. LeadIn \in Nat
        BY <3>2, LeadInIs
      <4>4. hours \in Seq(Windows)
        BY <1>5, OffHoursAre
      <4>5. /\ sessions' \in Seq(Session(O)) /\ SameButDuration(sessions, sessions')
            /\ \A i \in 1..n :
                 sessions'[i].duration =
                   NeverNegative(sessions[i].duration
                      - TotalOverlap(sessions[i].start, sessions[i].end, ResolveOffHours))
        <5> HIDE DEF O
        <5> QED BY <1>5, <4>1, ExcludeOffTimeIs
      <4>6. DOMAIN sessions' = 1..n /\ DOMAIN sessions = 1..n
        <5> DEFINE S == Session(O)
        <5>1. /\ sessions \in Seq(S) /\ sessions' \in Seq(S)
              /\ Len(sessions') = Len(sessions)
          BY <4>1, <4>5 DEF SameButDuration
        <5> HIDE DEF S
        <5> QED BY <5>1
      <4>7. ASSUME NEW i \in 1..n
            PROVE  LET s == sessions'[i]
                       left == LeadIn + Cardinality(WorkingIn(s, hours))
                   IN s.duration =< left /\ (Apart(hours) => s.duration = left)
        <5> DEFINE s == sessions[i]
        <5>1. /\ s.start \in Int /\ s.end \in Int /\ s.start =< s.end
          <6>1. s \in Session(O)
            <7> DEFINE S == Session(O)
            <7>1. sessions \in Seq(S)
              BY <4>1
            <7> HIDE DEF S
            <7>2. sessions[i] \in S
              BY <4>6, <7>1
            <7> QED BY <7>2 DEF S
          <6>2. IsCluster(s, s.owner, timeline, Given("sessionize", "gapSeconds", GapSeconds))
            BY <4>1 DEF AreClusters
          <6> QED BY <6>1, <6>2 DEF IsCluster, Session
        <5>2. HasDuration(s, LeadIn)
          BY <4>2
        <5>3. sessions'[i].duration = NeverNegative(s.duration - TotalOverlap(s.start, s.end, hours))
          BY <4>5
        <5> DEFINE d == sessions'[i].duration
        <5> HIDE DEF s, hours, d
        <5>4. /\ d =< LeadIn + Cardinality(WorkingIn(s, hours))
              /\ Apart(hours) => d = LeadIn + Cardinality(WorkingIn(s, hours))
          BY <4>3, <4>4, <5>1, <5>2, <5>3, LeftIs DEF d
        <5>5. sessions'[i].start = s.start /\ sessions'[i].end = s.end
          BY <4>5 DEF SameButDuration, s
        <5>6. WorkingIn(sessions'[i], hours) = WorkingIn(s, hours)
          BY <5>5 DEF WorkingIn
        <5> QED BY <5>4, <5>6 DEF d
      <4> HIDE DEF hours
      <4>8. LeavesWorking(sessions', hours, LeadIn)
        BY <4>6, <4>7 DEF LeavesWorking
      <4> QED BY <4>8 DEF hours
    <3> QED BY <3>1, <3>2
  <2>6. LeavesWorking(sessions', OffHoursOf', LeadIn')
    BY <2>3, <2>4, <2>5
  <2>7. LeavesWorking(sessions, OffHoursOf, LeadIn)'
    BY <2>6 DEF LeavesWorking, WorkingIn, Apart, Off, SecondsPerDay
  <2> QED BY <2>3, <2>7 DEF DurationInv
<1>6. ASSUME NEW name, Applies(name), UNCHANGED sessions,
             name \notin {"sessionize", off}
      PROVE  DurationInv'
  <2>1. /\ Done("sessionize")' <=> Done("sessionize")
        /\ Done(off)' <=> Done(off)
        /\ LeadIn' = LeadIn /\ OffHoursOf' = OffHoursOf /\ sessions' = sessions
    BY <1>2, <1>6
  <2> QED BY <2>1 DEF DurationInv, HasDuration, LeavesWorking, WorkingIn, Off
<1> HIDE DEF off
<1> QED BY <1>1, <1>4, <1>5, <1>6, StepsOfRun DEF off

\* No run begins with durations.
LEMMA DurationInvInit == ASSUME DocumentsInit PROVE DurationInv
BY DEF DocumentsInit, Start, DurationInv, Done

\* For every form, every list of windows, over midnight or not, and every length
\* of a day, a session has after exclude-off-time its lead-in and the seconds
\* in no window, if no two windows overlap, and never more than that if two do
\* (exclude_off_time.go, totalOverlap, windowOverlap).
THEOREM OffTimeIsExact ==
    ASSUME WireTypes, AskedFor, TimelinesAsked, SessionizedOnce, ExcludedOnce
    PROVE  DocumentsSpec => []OffTimeExact
<1> DEFINE Inv == CopyInv /\ RunInv /\ SessionInv /\ DurationInv
<1>1. DocumentsInit => Inv
  BY CopyInvInit, RunInvInit, SessionInvInit, DurationInvInit
<1>2. Inv /\ [DocumentsNext]_<<vars, docVars>> => Inv'
  BY CopyInvStep, RunInvStep, SessionInvStep, DurationInvStep
<1>3. Inv => OffTimeExact
  BY DEF DurationInv, LeavesWorking, WorkingIn, Apart, OffHoursOf, LeadIn, OffTimeExact
<1> QED BY <1>1, <1>2, <1>3, PTL DEF DocumentsSpec

-----------------------------------------------------------------------------
(* What a run holds is made of lists. *)

\* A block that passthrough made.
IsPassed(b) == \E columns, cells : /\ IsList(columns) /\ IsTable(cells)
                                   /\ b = NewTable(columns, cells)

\* A block that can be sent and comes back.
HasData(b) == b.data # Absent /\ DOMAIN b.data # {}

\* Rows and blocks are lists, and what is returned is a document.
ListsInv ==
    /\ sessions \in Seq(Session(OwnersIn(timeline)))
    /\ IsList(template.layout)
    /\ IsList(rows) /\ IsList(blocks) /\ \A b \in Range(blocks) : IsPassed(b)
    /\ phase = "done" => IsDocument(doc) /\ \A b \in Range(doc) : HasData(b)

\* No run begins with anything.
LEMMA ListsInvInit == ASSUME AskedFor, DocumentsInit PROVE ListsInv
<1>1. sessions = <<>> /\ rows = <<>> /\ blocks = <<>> /\ phase = "build"
  BY DEF DocumentsInit, Start
<1>2. IsList(<<>>) /\ Range(<<>>) = {}
  BY NothingIs DEF Range
<1>3. \A V : <<>> \in Seq(V)
  OBVIOUS
<1>4. IsList(template.layout)
  <2>1. template \in TemplatesOfWire
    BY DEF DocumentsInit, Start, AskedFor
  <2>2. template.layout \in Seq(LayoutBlocks)
    BY <2>1 DEF TemplatesOfWire
  <2> QED BY <2>2, SeqIsList
<1> QED BY <1>1, <1>2, <1>3, <1>4 DEF ListsInv

\* One element more.
LEMMA OneMore ==
  ASSUME NEW s, IsList(s), NEW x
  PROVE  /\ IsList(Append(s, x)) /\ Range(Append(s, x)) = Range(s) \cup {x}
         /\ Len(Append(s, x)) = Len(s) + 1
         /\ Append(s, x)[Len(s) + 1] = x
         /\ \A i \in 1..Len(s) : Append(s, x)[i] = s[i]
<1> DEFINE V == Range(s) \cup {x}
           t == Append(s, x)
           n == Len(s)
<1>1. n \in Nat /\ DOMAIN s = 1..n /\ \A i \in 1..n : s[i] \in Range(s)
  BY ListIs
<1>2. s \in Seq(V)
  <2>1. \A i \in 1..n : s[i] \in V
    BY <1>1
  <2> HIDE DEF V
  <2> QED BY <2>1, ListOf DEF n
<1>3. x \in V
  OBVIOUS
<1>4. Range(s) = {s[i] : i \in 1..n}
  BY <1>1 DEF Range
<1> HIDE DEF V
<1>5. t \in Seq(V) /\ Len(t) = n + 1 /\ t[n + 1] = x /\ \A i \in 1..n : t[i] = s[i]
  BY <1>1, <1>2, <1>3
<1>6. DOMAIN t = 1..(n+1)
  BY <1>5
<1>7. Range(t) = {t[i] : i \in 1..(n+1)}
  BY <1>6 DEF Range
<1>8. Range(t) = Range(s) \cup {x}
  <2>1. 1..(n+1) = (1..n) \cup {n+1}
    BY <1>1
  <2> HIDE DEF n, t
  <2> QED BY <1>4, <1>5, <1>7, <2>1
<1> QED BY <1>1, <1>5, <1>8, SeqIsList DEF t, n

\* Numbers in their order are a list.
LEMMA AscendingIsList ==
  ASSUME NEW S, IsFiniteSet(S)
  PROVE  /\ Cardinality(S) \in Nat /\ IsList(Ascending(S)) /\ Len(Ascending(S)) = Cardinality(S)
         /\ DOMAIN Ascending(S) = 1..Cardinality(S)
<1>1. Cardinality(S) \in Nat
  BY FS_CardinalityType
<1> DEFINE a == Ascending(S)
<1>2. a = [i \in 1..Cardinality(S) |-> a[i]] /\ DOMAIN a = 1..Cardinality(S)
  BY SMTT(30), ZenonT(30) DEF Ascending
<1> HIDE DEF a
<1> QED BY <1>1, <1>2, MadeList DEF a

\* The elements of a list, or what is made of them, are finitely many.
LEMMA ListIsFinite ==
  ASSUME NEW s, IsList(s)
  PROVE  IsFiniteSet(DOMAIN s)
<1>1. Len(s) \in Nat /\ DOMAIN s = 1..Len(s)
  BY ListIs
<1> QED BY <1>1, FS_Interval

\* What passthrough makes is a block with data.
LEMMA PassedIsBlock ==
  ASSUME NEW columns, NEW cells, IsList(columns), IsTable(cells), WireTypes
  PROVE  IsBlock(NewTable(columns, cells)) /\ HasData(NewTable(columns, cells))
<1> DEFINE b == NewTable(columns, cells)
<1>1. b.data = [columns |-> columns, rows |-> cells, footer |-> <<>>]
      /\ b.type = "table" /\ b = [type |-> b.type, data |-> b.data]
  BY DEF NewTable
<1> HIDE DEF b
<1>2. b.data # Absent /\ DOMAIN b.data = {"columns", "rows", "footer"}
  <2>1. b.data = [k \in DOMAIN b.data |-> b.data[k]]
    BY <1>1
  <2> QED BY <1>1, <2>1 DEF WireTypes
<1>3. ObjectOf(b.data) = b.data
  BY <1>2 DEF ObjectOf
<1>4. /\ List(b, "columns") = columns /\ List(b, "rows") = cells /\ List(b, "footer") = <<>>
      /\ List(b, "items") = <<>> /\ List(b, "pairs") = <<>> /\ List(b, "labels") = <<>>
      /\ List(b, "values") = <<>>
  BY <1>1, <1>2, <1>3 DEF List, Field, Filled, FieldsOf
<1>5. IsList(<<>>)
  BY NothingIs
<1>6. IsBlock(b)
  BY <1>1, <1>4, <1>5 DEF IsBlock, ListFields, IsTable
<1> QED BY <1>2, <1>6 DEF HasData, b

\* A table that is rendered.
LEMMA RenderedTable ==
  ASSUME IsList(rows)
  PROVE  IsPassed(RenderTable)
<1> DEFINE one(f) == IF Having(f) = {} THEN <<>> ELSE <<f>>
           ones == [i \in DOMAIN FieldNames |-> one(FieldNames[i])]
           W == {"additions", "count", "deletions", "dollars", "hours", "seconds"}
           fields == FlatMap(LAMBDA f : IF Having(f) = {} THEN <<>> ELSE <<f>>, FieldNames)
           Cell(i, f) == IF i \in Having(f) THEN rows[i].values[f] ELSE 0
           line(i) == <<rows[i].key>> \o [c \in DOMAIN fields |-> Cell(i, fields[c])]
           cells == [i \in DOMAIN rows |-> line(i)]
           n == Len(rows)
<1>1. fields \in Seq(W)
  <2>1. FieldNames \in Seq(W) /\ Len(FieldNames) = 6
    BY DEF FieldNames
  <2> HIDE DEF W
  <2>2. DOMAIN FieldNames = 1..6 /\ \A i \in 1..6 : FieldNames[i] \in W
    <3> DEFINE s == FieldNames
    <3>1. s \in Seq(W) /\ Len(s) = 6
      BY <2>1
    <3> HIDE DEF s
    <3>2. DOMAIN s = 1..Len(s) /\ \A i \in DOMAIN s : s[i] \in W
      BY <3>1
    <3>3. DOMAIN s = 1..6
      BY <3>1, <3>2
    <3> QED BY <3>2, <3>3 DEF s
  <2>3. \A i \in 1..6 : one(FieldNames[i]) \in Seq(W)
    BY <2>2
  <2> HIDE DEF one
  <2>4. ones \in Seq(Seq(W))
    BY <2>2, <2>3
  <2> HIDE DEF ones
  <2>5. FlattenSeq(ones) \in Seq(W)
    BY <2>4, FlattenPlaces
  <2> QED BY <2>5 DEF ones, one, FlatMap
<1>2. RenderTable = NewTable(<<"key">> \o fields, cells)
  BY DEF RenderTable
<1> HIDE DEF W, fields
<1>3. IsList(<<"key">> \o fields)
  <2>1. fields \in Seq(W \cup {"key"}) /\ <<"key">> \in Seq(W \cup {"key"})
    <3>1. Len(fields) \in Nat /\ IsList(fields) /\ \A i \in 1..Len(fields) : fields[i] \in W
      BY <1>1, SeqIsList
    <3>2. \A i \in 1..Len(fields) : fields[i] \in W \cup {"key"}
      BY <3>1
    <3> DEFINE V == W \cup {"key"}
    <3>3. "key" \in V
      OBVIOUS
    <3> HIDE DEF V
    <3> QED BY <3>1, <3>2, <3>3, ListOf DEF V
  <2> DEFINE V == W \cup {"key"}
  <2> HIDE DEF V
  <2>2. <<"key">> \o fields \in Seq(V)
    BY <2>1 DEF V
  <2> QED BY <2>2, SeqIsList
<1>4. n \in Nat /\ DOMAIN rows = 1..n
  BY ListIs
<1>5. ASSUME NEW i \in 1..n PROVE IsList(line(i))
  <2> DEFINE k == rows[i].key
             cs == [c \in DOMAIN fields |-> Cell(i, fields[c])]
             V == {k} \cup {Cell(i, fields[c]) : c \in DOMAIN fields}
  <2>1. DOMAIN fields = 1..Len(fields) /\ Len(fields) \in Nat
    BY <1>1
  <2>2. \A c \in DOMAIN fields : Cell(i, fields[c]) \in V
    OBVIOUS
  <2>3. k \in V
    OBVIOUS
  <2> HIDE DEF V, Cell, k
  <2>4. cs \in Seq(V)
    BY <2>1, <2>2
  <2>5. <<k>> \in Seq(V)
    BY <2>3
  <2> HIDE DEF cs
  <2>6. <<k>> \o cs \in Seq(V)
    BY <2>4, <2>5
  <2> QED BY <2>6, SeqIsList DEF cs, k, Cell
<1> HIDE DEF line, n
<1>6. IsTable(cells)
  <2>1. cells = [i \in 1..n |-> line(i)]
    BY <1>4
  <2> HIDE DEF cells
  <2>2. cells = [i \in 1..n |-> cells[i]] /\ \A i \in 1..n : IsList(cells[i])
    BY <1>5, <2>1
  <2> QED BY <1>4, <2>2, TableOfRecords
<1> HIDE DEF cells
<1> QED BY <1>2, <1>3, <1>6 DEF IsPassed

\* What is rendered is a block.
LEMMA RenderedIsBlock ==
  ASSUME WireTypes, IsList(rows), NEW b, CanRender(b)
  PROVE  IsBlock(Render(b)) /\ HasData(Render(b))
<1> DEFINE r == Render(b)
<1>1. CASE b.type = "table"
  <2>1. r = RenderTable
    BY <1>1 DEF Render
  <2> QED BY <2>1, RenderedTable, PassedIsBlock DEF IsPassed
<1>2. ASSUME r = [type |-> r.type, data |-> r.data],
             DOMAIN r.data \cap ListFields = {}
      PROVE  IsBlock(r) /\ HasData(r)
  <2>1. HasData(r)
    BY RenderedHasData DEF HasData
  <2> HIDE DEF r
  <2>2. ObjectOf(r.data) = r.data
    BY <2>1 DEF HasData, ObjectOf
  <2>3. \A k \in ListFields : List(r, k) = <<>>
    BY <1>2, <2>2 DEF List, Field, Filled
  <2>4. List(r, "rows") = <<>> /\ IsTable(<<>>)
    BY <2>3, NothingIs DEF ListFields
  <2> QED BY <1>2, <2>1, <2>3, <2>4 DEF IsBlock, IsTable
<1>3. CASE b.type = "metric"
  <2>1. PICK l, v, u : r = NewMetric(l, v, u)
    BY <1>3 DEF Render, RenderMetric
  <2> HIDE DEF r
  <2>2. r = [type |-> r.type, data |-> r.data] /\ r.data = [label |-> l, value |-> v, unit |-> u]
    BY <2>1 DEF NewMetric
  <2>3. DOMAIN r.data \cap ListFields = {}
    BY <2>2 DEF ListFields
  <2> QED BY <1>2, <2>2, <2>3 DEF r
<1>4. CASE b.type = "heading"
  <2>1. PICK l, t : r = NewHeading(l, t)
    BY <1>4 DEF Render
  <2> HIDE DEF r
  <2>2. r = [type |-> r.type, data |-> r.data] /\ r.data = [level |-> l, text |-> t]
    BY <2>1 DEF NewHeading
  <2>3. DOMAIN r.data \cap ListFields = {}
    BY <2>2 DEF ListFields
  <2> QED BY <1>2, <2>2, <2>3 DEF r
<1>5. CASE b.type = "text"
  <2>1. PICK t : r = NewText(t)
    BY <1>5 DEF Render
  <2> HIDE DEF r
  <2>2. r = [type |-> r.type, data |-> r.data] /\ r.data = [markdown |-> t]
    BY <2>1 DEF NewText
  <2>3. DOMAIN r.data \cap ListFields = {}
    BY <2>2 DEF ListFields
  <2> QED BY <1>2, <2>2, <2>3 DEF r
<1> QED BY <1>1, <1>3, <1>4, <1>5 DEF CanRender

\* The sessions are sessions of the owners of the timeline.
LEMMA SessionsStayTyped ==
  ASSUME WireTypes, AskedFor, TimelinesAsked, CopyInv, RunInv, ListsInv,
         [DocumentsNext]_<<vars, docVars>>
  PROVE  sessions' \in Seq(Session(OwnersIn(timeline)))' /\ UNCHANGED timeline
<1> DEFINE O == OwnersIn(timeline)
           V == Session(O)
<1>1. sessions \in Seq(V)
  BY DEF ListsInv
<1>2. ASSUME RunStays PROVE sessions' \in Seq(V) /\ timeline' = timeline
  <2> HIDE DEF V
  <2> QED BY <1>1, <1>2 DEF RunStays
<1>3. ASSUME NEW name, Applies(name), UNCHANGED sessions
      PROVE  sessions' \in Seq(V) /\ timeline' = timeline
  <2> HIDE DEF V
  <2> QED BY <1>1, <1>3 DEF Applies, Apply, inputVars
<1>4. ASSUME ExcludeOffTime, UNCHANGED ask PROVE sessions' \in Seq(V) /\ timeline' = timeline
  <2>1. sessions' \in Seq(V)
    <3> HIDE DEF O
    <3> QED BY <1>1, <1>4, ExcludeOffTimeIs
  <2>2. timeline' = timeline
    BY <1>4 DEF ExcludeOffTime, Apply, inputVars
  <2> QED BY <2>1, <2>2
<1>5. ASSUME Sessionize, UNCHANGED ask PROVE sessions' \in Seq(V) /\ timeline' = timeline
  <2>1. /\ ask \in Inputs /\ timeline = ask.timeline /\ timeline' = timeline
        /\ step \in DOMAIN ask.template.transform
        /\ ask.template.transform[step].name = "sessionize"
        /\ Params = ask.template.transform[step].params
    BY <1>5 DEF RunInv, Sessionize, Apply, inputVars, Params
  <2>2. StepGap \in Nat /\ StepLeadIn \in Nat
    BY <2>1 DEF TimelinesAsked, StepGap, StepLeadIn
  <2>3. PICK tl \in SortedCopies : sessions' = sessions \o SessionsOf(tl)
    BY <1>5 DEF Sessionize, SessionsOf
  <2>4. (\A e \in EventRows : e.ts \in Int) /\ timeline \in Seq(EventRows)
    BY <2>1 DEF TimelinesAsked
  <2> DEFINE ss == SessionsOf(tl)
  <2>5. ss \in Seq(V)
    <3>1. StepLeadIn \in Int
      BY <2>2
    <3> QED BY <2>2, <2>4, <3>1, SessionsOfIs
  <2> HIDE DEF V, ss
  <2>6. sessions \o ss \in Seq(V)
    BY <1>1, <2>5
  <2> QED BY <2>1, <2>3, <2>6 DEF ss, V
<1> HIDE DEF O
<1>6. sessions' \in Seq(V) /\ timeline' = timeline
  <2> HIDE DEF V
  <2> QED BY <1>2, <1>3, <1>4, <1>5, StepsOfRun
<1> QED BY <1>6 DEF O

\* For rows and blocks, a step makes them, shows them or lets them be.
LEMMA StepsOfRows ==
  ASSUME [DocumentsNext]_<<vars, docVars>>
  PROVE  \/ UNCHANGED <<rows, blocks, doc>> /\ (phase' = "done" => phase = "done")
         \/ UNCHANGED <<timeline, phase, doc, blocks>>
              /\ (SplitByActiveDays \/ GroupBy \/ Aggregate \/ Rate)
         \/ UNCHANGED <<rows, phase, doc>> /\ Passthrough
         \/ UNCHANGED <<template, rows, blocks>> /\ ApplyLayout
<1>1. CASE UNCHANGED <<vars, docVars>>
  BY <1>1 DEF vars
<1>2. CASE OpenTemplate \/ CreateTemplate \/ AgentReads \/ Deliver \/ CheckFormat \/ Export
  BY <1>2 DEF OpenTemplate, CreateTemplate, AgentReads, Deliver, CheckFormat, Export, vars
<1>3. CASE GetTemplate
  BY <1>3 DEF GetTemplate
<1>4. CASE BuildPipeline \/ ExcludeOffTimeFails
  BY <1>4 DEF BuildPipeline, ExcludeOffTimeFails
<1>5. CASE Sessionize \/ ExcludeOffTime
  BY <1>5 DEF Sessionize, ExcludeOffTime, Apply
<1>6. CASE SplitByActiveDays
  BY <1>6 DEF SplitByActiveDays, Apply, inputVars
<1>7. CASE GroupBy
  BY <1>7 DEF GroupBy, Apply, inputVars
<1>8. CASE Aggregate
  BY <1>8 DEF Aggregate, Apply, inputVars
<1>9. CASE Rate
  BY <1>9 DEF Rate, Apply, inputVars
<1>10. CASE Passthrough
  BY <1>10 DEF Passthrough, Apply
<1>11. CASE ApplyLayout
  BY <1>11 DEF ApplyLayout, inputVars
<1> QED BY <1>1, <1>2, <1>3, <1>4, <1>5, <1>6, <1>7, <1>8, <1>9, <1>10, <1>11
           DEF DocumentsNext

\* A timeline is a list.
LEMMA TimelineIsList == ASSUME TimelinesAsked, RunInv PROVE IsList(timeline)
<1>1. timeline \in Seq(EventRows)
  BY DEF TimelinesAsked, RunInv
<1> QED BY <1>1, SeqIsList

\* The days of the sessions and the buckets of the events are finitely many.
LEMMA FinitelyMany ==
  ASSUME IsList(sessions), IsList(timeline)
  PROVE  /\ IsFiniteSet({Day(sessions[i].start) : i \in DOMAIN sessions})
         /\ \A by : IsFiniteSet({BucketKey(by, timeline[i]) : i \in DOMAIN timeline})
<1>1. IsFiniteSet(DOMAIN sessions) /\ IsFiniteSet(DOMAIN timeline)
  BY ListIsFinite
<1> DEFINE d == [i \in DOMAIN sessions |-> Day(sessions[i].start)]
<1>2. IsFiniteSet({Day(sessions[i].start) : i \in DOMAIN sessions})
  <2>1. {Day(sessions[i].start) : i \in DOMAIN sessions} = {d[i] : i \in DOMAIN sessions}
    OBVIOUS
  <2> HIDE DEF d
  <2>2. IsFiniteSet({d[i] : i \in DOMAIN sessions})
    BY <1>1, ImageIsFinite
  <2> QED BY <2>1, <2>2
<1>3. ASSUME NEW by PROVE IsFiniteSet({BucketKey(by, timeline[i]) : i \in DOMAIN timeline})
  <2> DEFINE k == [i \in DOMAIN timeline |-> BucketKey(by, timeline[i])]
  <2>1. {BucketKey(by, timeline[i]) : i \in DOMAIN timeline} = {k[i] : i \in DOMAIN timeline}
    OBVIOUS
  <2> HIDE DEF k
  <2>2. IsFiniteSet({k[i] : i \in DOMAIN timeline})
    BY <1>1, ImageIsFinite
  <2> QED BY <2>1, <2>2
<1> QED BY <1>2, <1>3

\* The rows stay a list.
LEMMA RowsStayList ==
  ASSUME TimelinesAsked, RunInv, ListsInv,
         SplitByActiveDays \/ GroupBy \/ Aggregate \/ Rate
  PROVE  IsList(rows')
<1>1. IsList(sessions) /\ IsList(timeline) /\ IsList(rows)
  BY TimelineIsList, SeqIsList DEF ListsInv
<1>2. ASSUME NEW S, IsFiniteSet(S), rows' = [i \in DOMAIN Ascending(S) |-> rows'[i]]
      PROVE  IsList(rows')
  BY <1>2, AscendingIsList, MadeList
<1>3. CASE SplitByActiveDays
  <2> DEFINE S == {Day(sessions[i].start) : i \in DOMAIN sessions}
  <2>1. rows' = [i \in DOMAIN Ascending(S) |-> rows'[i]]
    BY <1>3 DEF SplitByActiveDays
  <2>2. IsFiniteSet(S)
    BY <1>1, FinitelyMany
  <2> HIDE DEF S
  <2> QED BY <1>2, <2>1, <2>2
<1>4. CASE GroupBy
  <2> DEFINE by == Param(Params, "by", "owner")
             S == {BucketKey(by, timeline[i]) : i \in DOMAIN timeline}
  <2>1. rows' = [i \in DOMAIN Ascending(S) |-> rows'[i]]
    BY <1>4 DEF GroupBy
  <2>2. IsFiniteSet(S)
    BY <1>1, FinitelyMany
  <2> HIDE DEF S
  <2> QED BY <1>2, <2>1, <2>2
<1>5. CASE Aggregate
  <2>1. PICK r : rows' = Append(rows, r)
    BY <1>5 DEF Aggregate
  <2> QED BY <1>1, <2>1, OneMore
<1>6. CASE Rate
  <2>1. rows' = [i \in DOMAIN rows |-> rows'[i]]
    BY <1>6 DEF Rate
  <2>2. DOMAIN rows = 1..Len(rows) /\ Len(rows) \in Nat
    BY <1>1, ListIs
  <2> QED BY <2>1, <2>2, MadeList
<1> QED BY <1>3, <1>4, <1>5, <1>6

\* What passthrough makes.
LEMMA PassthroughMakes ==
  ASSUME TimelinesAsked, RunInv, Passthrough
  PROVE  \E b : IsPassed(b) /\ blocks' = Append(blocks, b)
<1> DEFINE columns == <<"owner", "repo", "additions", "deletions">>
           line(i) == [c \in DOMAIN columns |-> timeline[i][columns[c]]]
           cells == [i \in DOMAIN timeline |-> line(i)]
           n == Len(timeline)
<1>1. blocks' = Append(blocks, NewTable(columns, cells))
  BY DEF Passthrough
<1>2. n \in Nat /\ DOMAIN timeline = 1..n
  BY TimelineIsList, ListIs
<1>3. DOMAIN columns = 1..4 /\ IsList(columns)
  <2>1. DOMAIN columns = 1..4 /\ columns = [i \in 1..4 |-> columns[i]]
    OBVIOUS
  <2> HIDE DEF columns
  <2> QED BY <2>1, MadeList
<1>4. ASSUME NEW i \in 1..n PROVE IsList(line(i))
  <2> DEFINE l == line(i)
  <2>1. l = [c \in 1..4 |-> l[c]]
    BY <1>3
  <2> HIDE DEF l
  <2> QED BY <2>1, MadeList DEF l
<1> HIDE DEF columns, line, n
<1>5. IsTable(cells)
  <2>1. cells = [i \in 1..n |-> line(i)]
    BY <1>2
  <2> HIDE DEF cells
  <2>2. cells = [i \in 1..n |-> cells[i]] /\ \A i \in 1..n : IsList(cells[i])
    BY <1>4, <2>1
  <2> QED BY <1>2, <2>2, TableOfRecords
<1> HIDE DEF cells
<1> QED BY <1>1, <1>3, <1>5 DEF IsPassed, columns, cells, line

\* The document is one.
LEMMA LayoutIsDocument ==
  ASSUME WireTypes, AskedFor, CopyInv, RunInv, ListsInv, ApplyLayout,
         phase' = "done"
  PROVE  IsDocument(doc') /\ \A b \in Range(doc') : HasData(b)
<1>1. CASE template.layout = <<>> /\ blocks # <<>>
  <2>1. doc' = blocks
    BY <1>1 DEF ApplyLayout
  <2>2. \A b \in Range(blocks) : IsBlock(b) /\ HasData(b)
    BY PassedIsBlock DEF ListsInv, IsPassed
  <2> QED BY <2>1, <2>2 DEF IsDocument, ListsInv
<1>2. CASE ~(template.layout = <<>> /\ blocks # <<>>)
  <2> DEFINE l == template.layout
             n == Len(l)
  <2>1. /\ \A i \in DOMAIN l : CanRender(l[i])
        /\ doc' = [i \in DOMAIN l |-> Render(l[i])]
    BY <1>2 DEF ApplyLayout
  <2>2. n \in Nat /\ DOMAIN l = 1..n
    BY ListIs DEF ListsInv
  <2>3. \A i \in 1..n : IsBlock(Render(l[i])) /\ HasData(Render(l[i]))
    BY <2>1, <2>2, RenderedIsBlock DEF ListsInv
  <2> HIDE DEF n, l
  <2>4. doc' = [i \in 1..n |-> doc'[i]] /\ \A i \in 1..n : IsBlock(doc'[i]) /\ HasData(doc'[i])
    BY <2>1, <2>2, <2>3
  <2>5. IsList(doc') /\ Len(doc') = n
    BY <2>2, <2>4, MadeList
  <2>6. Range(doc') = {doc'[i] : i \in 1..n}
    BY <2>4 DEF Range
  <2> QED BY <2>4, <2>5, <2>6 DEF IsDocument
<1> QED BY <1>1, <1>2

\* Rows and blocks stay lists, and what is returned is a document.
LEMMA ListsInvStep ==
  ASSUME WireTypes, AskedFor, TimelinesAsked, CopyInv, RunInv, ListsInv,
         [DocumentsNext]_<<vars, docVars>>
  PROVE  ListsInv'
<1>1. sessions' \in Seq(Session(OwnersIn(timeline)))'
  BY SessionsStayTyped
<1>2. IsList(template'.layout)
  <2>1. UNCHANGED template \/ GetTemplate
    BY DEF DocumentsNext, vars, inputVars, OpenTemplate, CreateTemplate, AgentReads, RunStep,
           docVars, BuildPipeline, Sessionize, ExcludeOffTime, ExcludeOffTimeFails,
           SplitByActiveDays, GroupBy, Aggregate, Rate, Passthrough, ApplyLayout, Apply,
           Deliver, CheckFormat, Export
  <2>2. CASE GetTemplate
    <3>1. /\ stage = "load" /\ row = CopyRow /\ row # Absent
          /\ ask \in Inputs /\ ask.copy \in Texts
      BY <2>2, RowIsThere DEF CopyInv, GetTemplate
    <3>2. template' = TheCopy
      BY <2>2, <3>1, CopyIs DEF GetTemplate
    <3> DEFINE l == Renamed.layout
    <3>3. IsList(l)
      <4>1. ask.template \in TemplatesOfWire
        BY <3>1 DEF AskedFor
      <4>2. l \in Seq(LayoutBlocks)
        BY <4>1 DEF Renamed, TemplatesOfWire
      <4> QED BY <4>2, SeqIsList
    <3>4. Len(l) \in Nat /\ DOMAIN l = 1..Len(l)
      BY <3>3, ListIs
    <3> DEFINE m == [i \in DOMAIN l |-> Trimmed(l[i])]
    <3>5. IsList(m)
      <4> HIDE DEF l
      <4>1. m = [i \in 1..Len(l) |-> m[i]]
        BY <3>4
      <4> HIDE DEF m
      <4> QED BY <3>4, <4>1, MadeList
    <3>6. TheCopy.layout = m
      BY DEF TheCopy, Copied
    <3> QED BY <3>2, <3>5, <3>6
  <2> QED BY <2>1, <2>2 DEF ListsInv
<1>3. CASE UNCHANGED <<rows, blocks, doc>> /\ (phase' = "done" => phase = "done")
  BY <1>1, <1>2, <1>3 DEF ListsInv
<1>4. CASE UNCHANGED <<timeline, phase, doc, blocks>>
              /\ (SplitByActiveDays \/ GroupBy \/ Aggregate \/ Rate)
  <2>1. IsList(rows')
    BY <1>4, RowsStayList
  <2> QED BY <1>1, <1>2, <1>4, <2>1 DEF ListsInv
<1>5. CASE UNCHANGED <<rows, phase, doc>> /\ Passthrough
  <2>1. PICK b : IsPassed(b) /\ blocks' = Append(blocks, b)
    BY <1>5, PassthroughMakes
  <2>2. IsList(blocks') /\ Range(blocks') = Range(blocks) \cup {b}
    BY <2>1, OneMore DEF ListsInv
  <2> QED BY <1>1, <1>2, <1>5, <2>1, <2>2 DEF ListsInv
<1>6. CASE UNCHANGED <<template, rows, blocks>> /\ ApplyLayout
  <2>1. phase' = "done" => IsDocument(doc') /\ \A b \in Range(doc') : HasData(b)
    BY <1>6, LayoutIsDocument
  <2> QED BY <1>1, <1>2, <1>6, <2>1 DEF ListsInv
<1> QED BY <1>3, <1>4, <1>5, <1>6, StepsOfRows

-----------------------------------------------------------------------------
(* What a client exports is what it was sent, or its own. *)

\* The document that an export is of.
Source == IF ask.via = "document" THEN ask.document ELSE doc

\* An export comes after the run, or there is none; what a client exports after
\* a run is what it was sent then; a document is refused for what it has; and there
\* is no file before the end.
ExportInv ==
    /\ ask.via = "document" =>
         shown = ask.document /\ stage \notin {"open", "save", "load", "read", "run"}
    /\ ask.via \in {"http", "mcp"} /\ stage \in {"check", "export", "end"} =>
         phase = "done" /\ shown = Sent
    /\ ask.via = "export" /\ stage \in {"export", "end"} => phase = "done"
    /\ ask.via = "document" /\ stage = "export" => ask.format \in Formats
    /\ ask.via = "document" /\ stage = "failed" => Refusable(ask.format, ask.document)
    /\ file # Absent => stage = "end" /\ HasDocument(file, ask.format, Source)

\* There is no file before the first step.
LEMMA ExportInvInit == ASSUME AskedFor, DocumentsInit PROVE ExportInv
<1>1. /\ file = Absent /\ shown = ask.document /\ ask.via \in {"http", "mcp", "export", "document"}
      /\ stage = IF ask.via \in {"export", "document"} THEN "check"
                 ELSE IF ask.copy # Absent THEN "open" ELSE "run"
  BY DEF DocumentsInit, AskedFor
<1> QED BY <1>1 DEF ExportInv

\* A document that was sent comes back.
LEMMA DocumentComesBack ==
  ASSUME NEW d, IsDocument(d)
  PROVE  /\ DocumentFromAPI(d) = d
         /\ (\A b \in Range(d) : HasData(b)) =>
              /\ DocumentFromAPI(DocumentToAPI(d)) = d
              /\ DocumentFromAPI(DocumentToDTO(d)) = d
<1> DEFINE n == Len(d)
<1>1. n \in Nat /\ DOMAIN d = 1..n /\ d = [i \in 1..n |-> d[i]]
      /\ \A i \in 1..n : d[i] \in Range(d)
  BY ListIs DEF IsDocument
<1>2. ASSUME NEW i \in 1..n PROVE d[i] = [type |-> d[i].type, data |-> d[i].data]
  BY <1>1 DEF IsDocument, IsBlock
<1> HIDE DEF n
<1>3. DocumentFromAPI(d) = d
  <2>1. DocumentFromAPI(d) = [i \in 1..n |-> BlockFromAPI(d[i])]
    BY <1>1 DEF DocumentFromAPI
  <2>2. \A i \in 1..n : BlockFromAPI(d[i]) = d[i]
    BY <1>2 DEF BlockFromAPI
  <2> QED BY <1>1, <2>1, <2>2
<1>4. ASSUME \A b \in Range(d) : HasData(b)
      PROVE  /\ DocumentFromAPI(DocumentToAPI(d)) = d
             /\ DocumentFromAPI(DocumentToDTO(d)) = d
  <2>1. \A i \in 1..n : ObjectOf(d[i].data) = d[i].data /\ RawToMap(d[i].data) = d[i].data
    BY <1>1, <1>4 DEF HasData, ObjectOf, RawToMap
  <2> DEFINE a == DocumentToAPI(d)
             t == DocumentToDTO(d)
  <2>2. /\ a = [i \in 1..n |-> BlockToAPI(d[i])]
        /\ t = [i \in 1..n |-> BlockToDTO(d[i])]
    BY <1>1 DEF DocumentToAPI, DocumentToDTO
  <2> HIDE DEF a, t
  <2>3. /\ DocumentFromAPI(a) = [i \in 1..n |-> BlockFromAPI(a[i])]
        /\ DocumentFromAPI(t) = [i \in 1..n |-> BlockFromAPI(t[i])]
    BY <2>2 DEF DocumentFromAPI
  <2>4. \A i \in 1..n : BlockFromAPI(a[i]) = d[i]
    BY <1>2, <2>1, <2>2 DEF BlockToAPI, BlockFromAPI
  <2>5. \A i \in 1..n : BlockFromAPI(t[i]) = d[i]
    BY <1>2, <2>1, <2>2 DEF BlockToDTO, BlockFromAPI
  <2> QED BY <1>1, <2>3, <2>4, <2>5 DEF a, t
<1> QED BY <1>3, <1>4

\* What is exported.
LEMMA ExportedIsSource ==
  ASSUME AskedFor, DocumentsAsked, RunInv, ListsInv, ExportInv, stage = "export"
  PROVE  IsDocument(Source) /\ ResolveExportDocument = Source
<1>1. ask \in Inputs /\ ask.via \in {"http", "mcp", "export", "document"}
  BY DEF RunInv, AskedFor
<1>2. CASE ask.via = "document"
  <2>1. shown = ask.document /\ Source = ask.document
    BY <1>2 DEF ExportInv, Source
  <2>2. IsDocument(ask.document)
    BY <1>1 DEF DocumentsAsked, IsDocument
  <2>3. ResolveExportDocument = DocumentFromAPI(ask.document)
    BY <1>2, <2>1 DEF ResolveExportDocument
  <2> QED BY <2>1, <2>2, <2>3, DocumentComesBack
<1>3. CASE ask.via # "document"
  <2>1. phase = "done" /\ Source = doc /\ (ask.via # "export" => shown = Sent)
    BY <1>1, <1>3 DEF ExportInv, Source
  <2>2. IsDocument(doc) /\ \A b \in Range(doc) : HasData(b)
    BY <2>1 DEF ListsInv
  <2>3. ResolveExportDocument = IF ask.via = "export" THEN doc ELSE DocumentFromAPI(shown)
    BY DEF ResolveExportDocument
  <2>4. DocumentFromAPI(Sent) = doc
    BY <2>2, DocumentComesBack DEF Sent
  <2> QED BY <2>1, <2>2, <2>3, <2>4
<1> QED BY <1>2, <1>3

\* A file has what it is an export of.
LEMMA ExportInvStep ==
  ASSUME WireTypes, AskedFor, DocumentsAsked, CopyInv, RunInv, ListsInv, ExportInv,
         [DocumentsNext]_<<vars, docVars>>
  PROVE  ExportInv'
<1>1. ask \in Inputs /\ ask.via \in {"http", "mcp", "export", "document"}
  BY DEF RunInv, AskedFor
<1>2. UNCHANGED <<ask, doc>> => UNCHANGED <<Sent, Source>>
  BY DEF Sent, Source
<1>3. CASE UNCHANGED <<vars, docVars>>
  BY <1>2, <1>3 DEF ExportInv, vars, docVars
<1>4. CASE OpenTemplate
  BY <1>1, <1>4 DEF OpenTemplate, ExportInv, CopyInv
<1>5. CASE CreateTemplate
  BY <1>1, <1>5 DEF CreateTemplate, ExportInv, CopyInv
<1>6. CASE GetTemplate
  BY <1>1, <1>6 DEF GetTemplate, ExportInv, CopyInv
<1>7. CASE AgentReads
  BY <1>1, <1>7 DEF AgentReads, ExportInv
<1>8. ASSUME RunStep, UNCHANGED ask PROVE ExportInv'
  <2>1. stage = "run" /\ UNCHANGED <<stage, shown, file>>
    BY <1>8 DEF RunStep, docVars
  <2> QED BY <1>8, <2>1 DEF ExportInv
<1>9. CASE Deliver
  <2>1. /\ stage = "run" /\ UNCHANGED <<ask, doc, phase, file>> /\ file = Absent
        /\ ask.via # "document"
    BY <1>9 DEF Deliver, ExportInv, vars
  <2>2. CASE phase = "failed"
    <3>1. stage' = "failed"
      BY <1>9, <2>2 DEF Deliver
    <3> QED BY <2>1, <3>1 DEF ExportInv
  <2>3. CASE phase = "done"
    <3>1. /\ stage' \in {"export", "end", "check"}
          /\ ask.via \in {"http", "mcp"} => shown' = Sent
      BY <1>1, <1>9, <2>1, <2>3 DEF Deliver, Sent
    <3> QED BY <1>2, <2>1, <2>3, <3>1 DEF ExportInv
  <2> QED BY <1>9, <2>2, <2>3 DEF Deliver
<1>10. CASE CheckFormat
  <2>1. /\ stage = "check" /\ UNCHANGED <<ask, doc, phase, file, shown>> /\ file = Absent
        /\ stage' \in {"refused", "run", "export"}
        /\ stage' = "export" => ask.format \in Formats
        /\ stage' = "run" => ask.via = "export"
        /\ ask.via = "export" => stage' \in {"refused", "run"}
    BY <1>10 DEF CheckFormat, ExportInv, vars
  <2> QED BY <1>2, <2>1 DEF ExportInv
<1>11. CASE Export
  <2> DEFINE d == ResolveExportDocument
             writes == \A i \in DOMAIN d : CanWrite(ask.format, d[i])
  <2>1. /\ stage = "export" /\ UNCHANGED <<ask, doc, phase, shown>> /\ file = Absent
    BY <1>11 DEF Export, ExportInv, vars
  <2>2. IsDocument(d) /\ d = Source
    BY <2>1, ExportedIsSource
  <2>3. CASE ~writes
    <3>1. stage' = "failed" /\ UNCHANGED file
      BY <1>11, <2>3 DEF Export
    <3>2. ASSUME ask.via = "document" PROVE Refusable(ask.format, ask.document)
      <4>1. PICK i \in DOMAIN d : ~CanWrite(ask.format, d[i])
        BY <2>3
      <4>2. ask.format \in Formats /\ d = ask.document
        BY <2>1, <2>2, <3>2 DEF ExportInv, Source
      <4>3. ~CanDecode(d[i]) /\ (d[i].type \in Prose => ask.format = "pdf")
        BY <4>1, <4>2 DEF CanWrite, Formats
      <4>4. d[i] \in Range(ask.document)
        BY <4>1, <4>2 DEF Range
      <4> QED BY <4>3, <4>4 DEF Refusable
    <3>3. ask' = ask
      BY <2>1
    <3>4. ask.via = "document" => Refusable(ask.format, ask.document)'
      BY <3>2, <3>3 DEF Refusable
    <3> QED BY <2>1, <3>1, <3>3, <3>4 DEF ExportInv
  <2>4. CASE writes
    <3>1. /\ stage' = "end"
          /\ file' = CASE ask.format = "csv"  -> ToCSV(d)
                       [] ask.format = "pdf"  -> ToPDF(d)
                       [] ask.format = "json" -> d
      BY <1>11, <2>4 DEF Export
    <3> HIDE DEF d
    <3>2. HasDocument(file', ask.format, d)
      BY <2>2, <2>4, <3>1, ExportHasDocument
    <3>3. HasDocument(file', ask.format, Source)
      BY <2>2, <3>2
    <3>4. Source' = Source /\ ask' = ask /\ Sent' = Sent
      BY <1>2, <2>1
    <3>5. HasDocument(file, ask.format, Source)'
      BY <3>3, <3>4 DEF HasDocument
    <3> QED BY <1>1, <2>1, <3>1, <3>4, <3>5 DEF ExportInv
  <2> QED BY <2>3, <2>4
<1> QED BY <1>3, <1>4, <1>5, <1>6, <1>7, <1>8, <1>9, <1>10, <1>11
        DEF DocumentsNext, RunStep, docVars

\* Whatever the template, the timeline and the form, and whatever document a
\* client has of its own: an export has what was run for it, what the client was
\* sent or what it sent, and nothing else.  A CSV that is read back has the
\* cells, empty ones aside; the rows of a PDF have them on the grid, and fill
\* the page where the grid is wide enough (csv.go; pdf.go; render.go).
THEOREM ExportsHaveDocument ==
    ASSUME WireTypes, AskedFor, TimelinesAsked, DocumentsAsked
    PROVE  DocumentsSpec => []ExportIsDocument
<1> DEFINE Inv == CopyInv /\ RunInv /\ ListsInv /\ ExportInv
<1>1. DocumentsInit => Inv
  BY CopyInvInit, RunInvInit, ListsInvInit, ExportInvInit
<1>2. Inv /\ [DocumentsNext]_<<vars, docVars>> => Inv'
  BY CopyInvStep, RunInvStep, ListsInvStep, ExportInvStep
<1>3. Inv => ExportIsDocument
  BY ExportIsIt DEF ExportInv, Source
<1> QED BY <1>1, <1>2, <1>3, PTL DEF DocumentsSpec

-----------------------------------------------------------------------------
(* The sums of a run: of durations, of additions, of a field of the rows. *)

\* a lists S in its order.
Lists(a, S) ==
    /\ \A n \in 1..Cardinality(S) : a[n] \in S
    /\ \A m, n \in 1..Cardinality(S) : m < n => a[m] < a[n]
    /\ \A x \in S : \E n \in 1..Cardinality(S) : a[n] = x

\* Ascending lists a set of numbers.
LEMMA AscendingLists ==
  ASSUME NEW S \in SUBSET Int, IsFiniteSet(S)
  PROVE  Lists(Ascending(S), S)
<1> DEFINE R == {p \in S \X S : p[1] < p[2]}
           a == Ascending(S)
           c == Cardinality(S)
<1>1. StrictOrder(R, S)
  BY DEF StrictOrder
<1>2. c \in Nat
  BY FS_CardinalityType
<1>3. ASSUME NEW x \in S PROVE {y \in S : y < x} = Before(R, S, x)
  BY DEF Before
<1>4. ASSUME NEW n \in 1..c
      PROVE  a[n] \in S /\ RankIn(R, S, a[n]) = n - 1
  <2>1. n - 1 \in Nat /\ n - 1 < c
    BY <1>2
  <2>2. PICK e \in S : RankIn(R, S, e) = n - 1
    BY <1>1, <2>1, RanksInFill, SMTT(30), ZenonT(30)
  <2>3. Cardinality({y \in S : y < e}) = n - 1
    BY <1>3, <2>2 DEF RankIn
  <2> DEFINE x == CHOOSE x \in S : Cardinality({y \in S : y < x}) = n - 1
  <2>4. x \in S /\ Cardinality({y \in S : y < x}) = n - 1
    BY <2>3
  <2>5. a[n] = x
    BY DEF Ascending
  <2> HIDE DEF x
  <2>6. RankIn(R, S, x) = n - 1
    BY <1>3, <2>4 DEF RankIn
  <2> QED BY <2>4, <2>5, <2>6
<1> HIDE DEF a, c
<1>5. ASSUME NEW m \in 1..c, NEW n \in 1..c, m < n PROVE a[m] < a[n]
  <2>1. a[m] \in S /\ a[n] \in S /\ RankIn(R, S, a[m]) = m - 1 /\ RankIn(R, S, a[n]) = n - 1
    BY <1>4
  <2>2. CASE a[m] = a[n]
    BY <1>2, <1>5, <2>1, <2>2
  <2>3. CASE a[n] < a[m]
    <3>1. <<a[n], a[m]>> \in R
      BY <2>1, <2>3
    <3> HIDE DEF R
    <3>2. RankIn(R, S, a[n]) < RankIn(R, S, a[m])
      BY <1>1, <2>1, <3>1, RankInIncreases
    <3> QED BY <1>2, <1>5, <2>1, <3>2
  <2>4. a[m] \in Int /\ a[n] \in Int
    BY <2>1
  <2> QED BY <2>2, <2>3, <2>4
<1>6. ASSUME NEW x \in S PROVE \E n \in 1..c : a[n] = x
  <2> DEFINE n == RankIn(R, S, x) + 1
  <2>1. RankIn(R, S, x) \in Nat /\ RankIn(R, S, x) < c
    BY <1>1, RankInType, RankInBelow DEF c
  <2>2. n \in 1..c /\ n - 1 = RankIn(R, S, x)
    BY <1>2, <2>1
  <2> HIDE DEF n, R
  <2>3. a[n] \in S /\ RankIn(R, S, a[n]) = RankIn(R, S, x)
    BY <1>4, <2>2
  <2>4. a[n] = x
    BY <1>1, <2>3, RankInInjective
  <2> QED BY <2>2, <2>4
<1> QED BY <1>4, <1>5, <1>6 DEF Lists, a, c

\* The sum of the durations of some sessions.
LEMMA DurationsAre ==
  ASSUME NEW S \in SUBSET DOMAIN sessions
  PROVE  MapThenSumSet(LAMBDA i : sessions[i].duration, S)
           = Total([i \in DOMAIN sessions |-> sessions[i].duration], S)
<1> DEFINE f == [i \in DOMAIN sessions |-> sessions[i].duration]
           A(h) == [s \in SUBSET S |->
                      IF s = {} THEN 0
                      ELSE LET x == CHOOSE x \in s : TRUE IN sessions[x].duration + h[s \ {x}]]
           B(h) == [s \in SUBSET S |->
                      IF s = {} THEN 0
                      ELSE LET x == CHOOSE x \in s : TRUE IN f[x] + h[s \ {x}]]
<1>1. MapThenSumSet(LAMBDA i : sessions[i].duration, S) = (CHOOSE h : h = A(h))[S]
  BY DEF MapThenSumSet, MapThenFoldSet
<1>2. Total(f, S) = (CHOOSE h : h = B(h))[S]
  BY DEF Total, MapThenSumSet, MapThenFoldSet
<1>3. \A h : A(h) = B(h)
  OBVIOUS
<1>4. (CHOOSE h : h = A(h)) = (CHOOSE h : h = B(h))
  <2> HIDE DEF A, B
  <2> QED BY <1>3, Zenon
<1> QED BY <1>1, <1>2, <1>4

\* The sum of the additions of some events.
LEMMA AdditionsAre ==
  ASSUME NEW S \in SUBSET DOMAIN timeline
  PROVE  MapThenSumSet(LAMBDA i : timeline[i].additions, S)
           = Total([i \in DOMAIN timeline |-> timeline[i].additions], S)
<1> DEFINE f == [i \in DOMAIN timeline |-> timeline[i].additions]
           A(h) == [s \in SUBSET S |->
                      IF s = {} THEN 0
                      ELSE LET x == CHOOSE x \in s : TRUE IN timeline[x].additions + h[s \ {x}]]
           B(h) == [s \in SUBSET S |->
                      IF s = {} THEN 0
                      ELSE LET x == CHOOSE x \in s : TRUE IN f[x] + h[s \ {x}]]
<1>1. MapThenSumSet(LAMBDA i : timeline[i].additions, S) = (CHOOSE h : h = A(h))[S]
  BY DEF MapThenSumSet, MapThenFoldSet
<1>2. Total(f, S) = (CHOOSE h : h = B(h))[S]
  BY DEF Total, MapThenSumSet, MapThenFoldSet
<1>3. \A h : A(h) = B(h)
  OBVIOUS
<1>4. (CHOOSE h : h = A(h)) = (CHOOSE h : h = B(h))
  <2> HIDE DEF A, B
  <2> QED BY <1>3, Zenon
<1> QED BY <1>1, <1>2, <1>4

\* The values of a field, for rows that have it.
Column(rs, field) == [i \in DOMAIN rs |-> rs[i].values[field]]

\* Their sum.
LEMMA FieldsAre ==
  ASSUME NEW field
  PROVE  SumOf(field) = Total(Column(rows, field), Having(field))
<1> DEFINE S == Having(field)
           f == Column(rows, field)
           A(h) == [s \in SUBSET S |->
                      IF s = {} THEN 0
                      ELSE LET x == CHOOSE x \in s : TRUE IN rows[x].values[field] + h[s \ {x}]]
           B(h) == [s \in SUBSET S |->
                      IF s = {} THEN 0
                      ELSE LET x == CHOOSE x \in s : TRUE IN f[x] + h[s \ {x}]]
<1>1. SumOf(field) = (CHOOSE h : h = A(h))[S]
  BY DEF SumOf, MapThenSumSet, MapThenFoldSet
<1>2. Total(f, S) = (CHOOSE h : h = B(h))[S]
  BY DEF Total, MapThenSumSet, MapThenFoldSet
<1>3. \A h : A(h) = B(h)
  BY DEF Column, Having
<1>4. (CHOOSE h : h = A(h)) = (CHOOSE h : h = B(h))
  <2> HIDE DEF A, B
  <2> QED BY <1>3, Zenon
<1> QED BY <1>1, <1>2, <1>4

\* Each element of X is in the part of one element of D, and g has for each element
\* of D, in their order a, the sum over its part, times c.
SumsByPart(g, f, X, key, D, a, c) ==
    /\ \A x \in X : key[x] \in D
    /\ \A k \in 1..Cardinality(D) : g[k] = Total(f, {x \in X : key[x] = a[k]}) * c

\* Such sums add up.
LEMMA PartsAddUp ==
  ASSUME NEW X, NEW f, Numbers(f, X), NEW D \in SUBSET Int, IsFiniteSet(D), NEW a, Lists(a, D),
         NEW key, NEW c \in Int, NEW g, SumsByPart(g, f, X, key, D, a, c)
  PROVE  /\ Numbers(g, 1..Cardinality(D))
         /\ Total(g, 1..Cardinality(D)) = Total(f, X) * c
<1> DEFINE n == Cardinality(D)
           I == 1..n
           at == [x \in X |-> CHOOSE k \in I : a[k] = key[x]]
           h == [k \in I |-> Total(f, Part(X, at, k))]
<1>0. /\ \A x \in X : key[x] \in D
      /\ \A k \in I : g[k] = Total(f, {x \in X : key[x] = a[k]}) * c
  BY DEF SumsByPart
<1>1. n \in Nat /\ IsFiniteSet(I)
  BY FS_CardinalityType, FS_Interval
<1>2. \A j, k \in I : a[j] = a[k] => j = k
  <2>1. \A k \in I : a[k] \in Int
    BY DEF Lists
  <2>2. \A j, k \in I : j < k => a[j] < a[k]
    BY DEF Lists
  <2>3. \A j, k \in I : j # k => j < k \/ k < j
    BY <1>1
  <2> QED BY <2>1, <2>2, <2>3
<1>3. ASSUME NEW x \in X PROVE at[x] \in I /\ a[at[x]] = key[x]
  <2>1. \E k \in I : a[k] = key[x]
    BY <1>0 DEF Lists
  <2> QED BY <2>1
<1> HIDE DEF at, n
<1>4. ASSUME NEW k \in I PROVE {x \in X : key[x] = a[k]} = Part(X, at, k)
  BY <1>2, <1>3 DEF Part
<1>5. Numbers(h, I) /\ Total(h, I) = Total(f, X)
  <2> HIDE DEF I
  <2>1. \A x \in X : at[x] \in I
    BY <1>3
  <2> QED BY <1>1, <2>1, TotalOfParts
<1>6. \A k \in I : g[k] = h[k] * c
  BY <1>0, <1>4
<1> HIDE DEF h, I
<1>7. Numbers(g, I) /\ Total(g, I) = Total(h, I) * c
  BY <1>5, <1>6, TotalTimes
<1> QED BY <1>5, <1>7 DEF I, n

-----------------------------------------------------------------------------
(* The rows of a built-in template add up. *)

\* What all sessions and all events have.
SecondsIn(ss) == Total([i \in DOMAIN ss |-> ss[i].duration], DOMAIN ss)
AdditionsIn(tl) == Total([i \in DOMAIN tl |-> tl[i].additions], DOMAIN tl)

\* The values of a field add up to a total.
AddsUpTo(rs, field, total) ==
    /\ \A i \in DOMAIN rs : field \in DOMAIN rs[i].values
    /\ Numbers(Column(rs, field), DOMAIN rs)
    /\ Total(Column(rs, field), DOMAIN rs) = total

\* There is a row for each day on which a session begins, in their order.
OfDays(rs, ss) ==
    LET days == Ascending({Day(ss[i].start) : i \in DOMAIN ss})
    IN /\ DOMAIN rs = DOMAIN days
       /\ \A i \in DOMAIN rs :
            rs[i] = [key |-> <<"day", days[i]>>, values |-> rs[i].values]

\* An hour in the units of a row.
UnitsPerSecond == Unit \div SecondsPerHour

\* Whole hours have whole units, and a second a fixed number of them.
LEMMA UnitIs ==
  /\ UnitsPerSecond \in Int /\ Unit = UnitsPerSecond * SecondsPerHour
  /\ \A x \in Int : (x * Unit) \div SecondsPerHour = x * UnitsPerSecond
<1>1. UnitsPerSecond \in Int /\ Unit = UnitsPerSecond * SecondsPerHour
  BY TimesheetAssumption DEF UnitsPerSecond
<1>2. ASSUME NEW x \in Int PROVE (x * Unit) \div SecondsPerHour = x * UnitsPerSecond
  <2> DEFINE z == x * UnitsPerSecond
             s == SecondsPerHour
  <2>1. z \in Int /\ s \in Nat \ {0} /\ x * Unit = z * s
    BY <1>1, TimesheetAssumption
  <2> HIDE DEF z, s
  <2>2. (z * s) \div s = z
    BY <2>1
  <2> QED BY <2>1, <2>2 DEF z, s
<1> QED BY <1>1, <1>2

\* split-by-active-days gives all seconds to the days.
LEMMA DaysAddUp ==
  ASSUME SplitByActiveDays, NEW O, sessions \in Seq(Session(O))
  PROVE  /\ OfDays(rows', sessions)
         /\ AddsUpTo(rows', "hours", SecondsIn(sessions) * UnitsPerSecond)
<1> DEFINE X == DOMAIN sessions
           D == {Day(sessions[i].start) : i \in X}
           a == Ascending(D)
           n == Cardinality(D)
           f == [i \in X |-> sessions[i].duration]
           key == [i \in X |-> Day(sessions[i].start)]
           g == Column(rows', "hours")
           P(d) == {i \in X : Day(sessions[i].start) = d}
<1>1. /\ rows' = [i \in DOMAIN a |->
                    [key |-> <<"day", a[i]>>,
                     values |-> [seconds |-> DaySeconds(a[i]) * Unit,
                                 hours |-> (DaySeconds(a[i]) * Unit) \div SecondsPerHour]]]
  BY DEF SplitByActiveDays
<1>2. /\ IsFiniteSet(X) /\ \A i \in X : sessions[i].start \in Int /\ sessions[i].duration \in Int
  <2> DEFINE V == Session(O)
  <2> HIDE DEF V
  <2>1. sessions \in Seq(V)
    BY DEF V
  <2>2. IsFiniteSet(DOMAIN sessions)
    BY <2>1, SeqIsList, ListIsFinite
  <2>3. \A i \in DOMAIN sessions : sessions[i] \in V
    BY <2>1
  <2> QED BY <2>2, <2>3 DEF V, Session
<1>3. \A i \in X : key[i] \in D /\ key[i] \in Int
  BY <1>2, DayIs
<1>4. IsFiniteSet(D) /\ D \in SUBSET Int
  <2>1. D = {key[i] : i \in X}
    OBVIOUS
  <2> HIDE DEF key, D
  <2> QED BY <1>2, <1>3, <2>1, ImageIsFinite
<1>5. Lists(a, D) /\ DOMAIN a = 1..n
  <2> HIDE DEF D
  <2> QED BY <1>4, AscendingLists, AscendingIsList
<1>6. Numbers(f, X)
  BY <1>2 DEF Numbers
<1>7. ASSUME NEW k \in 1..n
      PROVE  g[k] = Total(f, {x \in X : key[x] = a[k]}) * UnitsPerSecond
  <2> DEFINE d == a[k]
  <2>1. P(d) \in SUBSET DOMAIN sessions /\ P(d) \in SUBSET X /\ P(d) = {x \in X : key[x] = d}
    OBVIOUS
  <2>2. DaySeconds(d) = MapThenSumSet(LAMBDA i : sessions[i].duration, P(d))
    BY DEF DaySeconds
  <2>3. DaySeconds(d) = Total(f, P(d))
    <3> DEFINE p == P(d)
    <3> HIDE DEF p
    <3>1. p \in SUBSET DOMAIN sessions /\ DaySeconds(d) = MapThenSumSet(LAMBDA i : sessions[i].duration, p)
      BY <2>1, <2>2 DEF p
    <3>2. DaySeconds(d) = Total(f, p)
      BY <3>1, DurationsAre
    <3> QED BY <3>2 DEF p
  <2>4. Total(f, P(d)) \in Int
    <3>1. IsFiniteSet(P(d))
      BY <1>2, <2>1, FS_Subset
    <3>2. Numbers(f, P(d))
      BY <1>6, <2>1, <3>1 DEF Numbers
    <3> HIDE DEF P, f
    <3> QED BY <3>2, TotalIs
  <2> HIDE DEF a, f, P
  <2>5. g[k] = (DaySeconds(d) * Unit) \div SecondsPerHour
    BY <1>1, <1>5 DEF Column
  <2>6. g[k] = Total(f, P(d)) * UnitsPerSecond
    BY <2>3, <2>4, <2>5, UnitIs
  <2> QED BY <2>1, <2>6
<1>8. DOMAIN rows' = 1..n
  BY <1>1, <1>5
<1>9. \A i \in 1..n : /\ rows'[i] = [key |-> <<"day", a[i]>>, values |-> rows'[i].values]
                      /\ "hours" \in DOMAIN rows'[i].values
  <2> HIDE DEF a
  <2> QED BY <1>1, <1>5
<1>10. UnitsPerSecond \in Int
  BY UnitIs
<1>11. OfDays(rows', sessions)
  BY <1>5, <1>8, <1>9 DEF OfDays
<1>12. SumsByPart(g, f, X, key, D, a, UnitsPerSecond)
  <2> HIDE DEF X, D, a, f, key, g, P
  <2> QED BY <1>3, <1>7 DEF SumsByPart
<1> HIDE DEF X, D, a, f, key, g, P
<1>13. Numbers(g, 1..n) /\ Total(g, 1..n) = Total(f, X) * UnitsPerSecond
  BY <1>4, <1>5, <1>6, <1>10, <1>12, PartsAddUp
<1> HIDE DEF n
<1>14. Total(f, X) = SecondsIn(sessions)
  BY DEF f, X, SecondsIn
<1>15. AddsUpTo(rows', "hours", SecondsIn(sessions) * UnitsPerSecond)
  BY <1>8, <1>9, <1>13, <1>14 DEF AddsUpTo, g
<1> QED BY <1>11, <1>15

\* rate gives every hour its dollars.
LEMMA RatesAddUp ==
  ASSUME Rate, NEW t \in Int, OfDays(rows, sessions), AddsUpTo(rows, "hours", t),
         ResolveRate \in Int
  PROVE  OfDays(rows', sessions) /\ AddsUpTo(rows', "dollars", t * ResolveRate)
<1> DEFINE I == DOMAIN rows
           f == Column(rows, "hours")
           g == Column(rows', "dollars")
           new(i) == [k \in DOMAIN rows[i].values \cup {"dollars"} |->
                        IF k = "dollars" THEN rows[i].values.hours * ResolveRate
                        ELSE rows[i].values[k]]
           days == Ascending({Day(sessions[i].start) : i \in DOMAIN sessions})
<1>1. /\ \A i \in I : i \in Having("hours")
      /\ Numbers(f, I) /\ Total(f, I) = t
      /\ I = DOMAIN days
      /\ \A i \in I : rows[i] = [key |-> <<"day", days[i]>>, values |-> rows[i].values]
  BY DEF AddsUpTo, Having, OfDays
<1>2. rows' = [i \in I |->
                 IF i \notin Having("hours") THEN rows[i]
                 ELSE [rows[i] EXCEPT !.values =
                         [k \in DOMAIN @ \cup {"dollars"} |->
                            IF k = "dollars" THEN @.hours * ResolveRate ELSE @[k]]]]
  BY DEF Rate
<1>3. \A i \in I : rows'[i] = [rows[i] EXCEPT !.values = new(i)]
  BY <1>1, <1>2
<1> HIDE DEF new, days
<1>4. \A i \in I : /\ rows'[i] = [key |-> <<"day", days[i]>>, values |-> new(i)]
                  /\ rows'[i].values = new(i)
  <2> SUFFICES ASSUME NEW i \in I
               PROVE  /\ rows'[i] = [key |-> <<"day", days[i]>>, values |-> new(i)]
                      /\ rows'[i].values = new(i)
    OBVIOUS
  <2> DEFINE v == new(i)
             k == <<"day", days[i]>>
  <2>1. rows[i] = [key |-> k, values |-> rows[i].values]
    BY <1>1
  <2>2. rows'[i] = [rows[i] EXCEPT !.values = v]
    BY <1>3
  <2> HIDE DEF v, k
  <2>3. rows'[i] = [key |-> k, values |-> v]
    BY <2>1, <2>2
  <2> QED BY <2>3 DEF v, k
<1>5. \A i \in I : "dollars" \in DOMAIN new(i) /\ new(i).dollars = rows[i].values.hours * ResolveRate
  BY DEF new
<1>6. DOMAIN rows' = I
  BY <1>2
<1>7. \A i \in I : g[i] = f[i] * ResolveRate
  BY <1>4, <1>5, <1>6 DEF Column
<1>8. OfDays(rows', sessions)
  BY <1>1, <1>4, <1>6 DEF OfDays, days
<1>9. ASSUME NEW i \in I PROVE "dollars" \in DOMAIN rows'[i].values
  <2>1. rows'[i].values = new(i)
    BY <1>4
  <2> QED BY <1>5, <2>1
<1> HIDE DEF I, f, g
<1>10. Numbers(g, I) /\ Total(g, I) = t * ResolveRate
  BY <1>1, <1>7, TotalTimes
<1>11. AddsUpTo(rows', "dollars", t * ResolveRate)
  BY <1>6, <1>9, <1>10 DEF AddsUpTo, g
<1> QED BY <1>8, <1>11

\* A row for each bucket of the events.
OfEvents(rs, tl) ==
    /\ IsList(rs)
    /\ \A i \in DOMAIN rs : DOMAIN rs[i].values = {"count", "additions", "deletions"}
    /\ AddsUpTo(rs, "count", Len(tl) * Unit)
    /\ AddsUpTo(rs, "additions", AdditionsIn(tl) * Unit)

\* group-by gives every event to one bucket.
LEMMA BucketsAddUp ==
  ASSUME TimelinesAsked, NumbersAsked, RunInv, GroupBy,
         Param(Params, "by", "owner") \in {"owner", "repo"}
  PROVE  OfEvents(rows', timeline)
<1> DEFINE by == Param(Params, "by", "owner")
           X == DOMAIN timeline
           D == {BucketKey(by, timeline[i]) : i \in X}
           a == Ascending(D)
           n == Cardinality(D)
           In(k) == {i \in X : BucketKey(by, timeline[i]) = k}
           one == [i \in X |-> 1]
           f == [i \in X |-> timeline[i].additions]
           key == [i \in X |-> BucketKey(by, timeline[i])]
           counts == Column(rows', "count")
           adds == Column(rows', "additions")
<1>1. /\ DOMAIN rows' = DOMAIN a
      /\ \A k \in DOMAIN a :
           /\ DOMAIN rows'[k].values = {"count", "additions", "deletions"}
           /\ rows'[k].values.count = Cardinality(In(a[k])) * Unit
           /\ rows'[k].values.additions
                = MapThenSumSet(LAMBDA i : timeline[i].additions, In(a[k])) * Unit
  BY DEF GroupBy
<1>2. /\ timeline \in Seq(EventRows)
      /\ \A e \in EventRows : e.owner \in Int /\ e.repo \in Int /\ e.additions \in Int
  BY DEF TimelinesAsked, NumbersAsked, RunInv
<1>3. /\ Len(timeline) \in Nat /\ X = 1..Len(timeline) /\ IsFiniteSet(X)
      /\ Cardinality(X) = Len(timeline)
      /\ \A i \in X : timeline[i] \in EventRows
  <2>1. Len(timeline) \in Nat /\ X = 1..Len(timeline) /\ \A i \in X : timeline[i] \in EventRows
    <3> DEFINE E == EventRows
    <3> HIDE DEF E
    <3>1. timeline \in Seq(E)
      BY <1>2 DEF E
    <3>2. Len(timeline) \in Nat /\ X = 1..Len(timeline) /\ \A i \in X : timeline[i] \in E
      BY <3>1
    <3> QED BY <3>2 DEF E
  <2>2. IsFiniteSet(1..Len(timeline)) /\ Cardinality(1..Len(timeline)) = Len(timeline)
    BY <2>1, FS_Interval
  <2> QED BY <2>1, <2>2
<1>4. \A i \in X : key[i] \in D /\ key[i] \in Int
  <2>1. by # "day"
    OBVIOUS
  <2>2. ASSUME NEW i \in X PROVE BucketKey(by, timeline[i]) \in Int
    <3>1. timeline[i].owner \in Int /\ timeline[i].repo \in Int
      BY <1>2, <1>3
    <3> QED BY <2>1, <3>1 DEF BucketKey
  <2> HIDE DEF by
  <2> QED BY <2>2
<1>5. IsFiniteSet(D) /\ D \in SUBSET Int
  <2>1. D = {key[i] : i \in X}
    OBVIOUS
  <2> HIDE DEF key, D
  <2> QED BY <1>3, <1>4, <2>1, ImageIsFinite
<1> HIDE DEF by
<1>6. Lists(a, D) /\ DOMAIN a = 1..n
  <2> HIDE DEF D
  <2> QED BY <1>5, AscendingLists, AscendingIsList
<1>7. Numbers(f, X)
  BY <1>2, <1>3 DEF Numbers
<1>8. Numbers(one, X) /\ Total(one, X) = Len(timeline)
  <2> DEFINE c == Cardinality(X)
  <2>1. \A x \in X : one[x] = 1
    OBVIOUS
  <2> HIDE DEF one, X
  <2> QED BY <1>3, <2>1, TotalOnes
<1>9. ASSUME NEW k \in 1..n
      PROVE  /\ counts[k] = Total(one, {x \in X : key[x] = a[k]}) * Unit
             /\ adds[k] = Total(f, {x \in X : key[x] = a[k]}) * Unit
  <2> DEFINE p == In(a[k])
  <2>1. p \in SUBSET X /\ p = {x \in X : key[x] = a[k]}
    OBVIOUS
  <2>2. /\ counts[k] = Cardinality(p) * Unit
        /\ adds[k] = MapThenSumSet(LAMBDA i : timeline[i].additions, p) * Unit
    BY <1>1, <1>6 DEF Column
  <2> HIDE DEF p, a
  <2>3. MapThenSumSet(LAMBDA i : timeline[i].additions, p) = Total(f, p)
    BY <2>1, AdditionsAre
  <2>4. Total(one, p) = Cardinality(p)
    <3>1. IsFiniteSet(p) /\ \A x \in p : one[x] = 1
      BY <1>3, <2>1, FS_Subset
    <3> HIDE DEF one
    <3> QED BY <3>1, TotalOnes
  <2> QED BY <2>1, <2>2, <2>3, <2>4
<1>10. SumsByPart(counts, one, X, key, D, a, Unit) /\ SumsByPart(adds, f, X, key, D, a, Unit)
  <2> HIDE DEF X, D, a, f, one, key, counts, adds
  <2> QED BY <1>4, <1>9 DEF SumsByPart
<1>11. Unit \in Int
  BY TimesheetAssumption
<1>12. DOMAIN rows' = 1..n
  BY <1>1, <1>6
<1>13. \A i \in 1..n : DOMAIN rows'[i].values = {"count", "additions", "deletions"}
  BY <1>1, <1>6
<1>14. IsList(rows')
  <2>1. rows' = [i \in DOMAIN a |-> rows'[i]]
    BY DEF GroupBy, by
  <2>2. n \in Nat
    BY <1>5, FS_CardinalityType
  <2> HIDE DEF a, n
  <2> QED BY <1>6, <2>1, <2>2, MadeList
<1> HIDE DEF X, D, a, f, one, key, counts, adds
<1>15. /\ Numbers(counts, 1..n) /\ Total(counts, 1..n) = Total(one, X) * Unit
       /\ Numbers(adds, 1..n) /\ Total(adds, 1..n) = Total(f, X) * Unit
  BY <1>5, <1>6, <1>7, <1>8, <1>10, <1>11, PartsAddUp
<1> HIDE DEF n
<1>16. Total(f, X) = AdditionsIn(timeline)
  BY DEF f, X, AdditionsIn
<1>17. /\ AddsUpTo(rows', "count", Len(timeline) * Unit)
       /\ AddsUpTo(rows', "additions", AdditionsIn(timeline) * Unit)
  BY <1>8, <1>12, <1>13, <1>15, <1>16 DEF AddsUpTo, counts, adds
<1> QED BY <1>12, <1>13, <1>14, <1>17 DEF OfEvents

\* The sum of a field that all rows have, or all that have it.
LEMMA SumOfAll ==
  ASSUME NEW field, NEW total, AddsUpTo(rows, field, total)
  PROVE  SumOf(field) = total /\ Having(field) = DOMAIN rows
<1>1. Having(field) = DOMAIN rows
  BY DEF AddsUpTo, Having
<1> QED BY <1>1, FieldsAre DEF AddsUpTo

\* One row more, which has a total and nothing else.
Totalled(rs, new, field, total) ==
    \E r : new = Append(rs, r) /\ r.values = [f \in {field} |-> total]

\* aggregate's sum, of a field that all rows have.
LEMMA AggregateIs ==
  ASSUME Aggregate, NEW total, AddsUpTo(rows, Params.field, total), Params.op = "sum"
  PROVE  Totalled(rows, rows', Params.field, total)
<1> DEFINE field == Params.field
           k == Param(Params, "key", "total")
           r == [key |-> <<k, 0>>,
                 values |-> [f \in {field} |-> ComputeOpResult("sum", f)]]
<1>1. rows' = Append(rows, r)
  BY DEF Aggregate
<1>2. ComputeOpResult("sum", field) = total
  <2> HIDE DEF field
  <2>1. SumOf(field) = total /\ Having(field) = DOMAIN rows
    BY SumOfAll DEF field
  <2>2. Having(field) = {} => total = 0
    BY <2>1, TotalIs DEF AddsUpTo, field
  <2>3. ComputeOpResult("sum", field) = IF Having(field) = {} THEN 0 ELSE SumOf(field)
    BY DEF ComputeOpResult
  <2> QED BY <2>1, <2>2, <2>3
<1>3. r.values = [f \in {field} |-> total]
  <2> HIDE DEF field
  <2> QED BY <1>2
<1> HIDE DEF r
<1> QED BY <1>1, <1>3 DEF Totalled

-----------------------------------------------------------------------------
(* Runs of built-in templates. *)

FormRate == IF "rate" \in DOMAIN form THEN form.rate ELSE 0

\* A row for each bucket, and one that has a total.
WithTotal(rs, tl, field, total) ==
    \E events : OfEvents(events, tl) /\ Totalled(events, rs, field, total)

\* What the rows are before each step that uses them, and at the end.
TimesheetInv ==
    template.transform = WorkSessionsTimesheet.transform =>
      /\ step = 4 => /\ OfDays(rows, sessions)
                     /\ AddsUpTo(rows, "hours", SecondsIn(sessions) * UnitsPerSecond)
      /\ step = 5 => /\ OfDays(rows, sessions)
                     /\ AddsUpTo(rows, "dollars",
                                 (SecondsIn(sessions) * UnitsPerSecond) * FormRate)

SummaryInv ==
    template.transform = ActivitySummary.transform =>
      /\ step = 2 => OfEvents(rows, timeline)
      /\ step = 3 => WithTotal(rows, timeline, "count", Len(timeline) * Unit)

ReposInv ==
    template.transform = CommitsPerRepo.transform =>
      /\ step = 2 => OfEvents(rows, timeline)
      /\ step = 3 => WithTotal(rows, timeline, "additions", AdditionsIn(timeline) * Unit)

\* A run is done after its last step.
DoneInv == phase = "done" => step > Len(template.transform)

TotalsInv == TimesheetInv /\ SummaryInv /\ ReposInv /\ DoneInv

\* A run that begins is before its first step.
LEMMA TotalsInvInit == ASSUME DocumentsInit PROVE TotalsInv
<1>1. step = 1 /\ phase = "build"
  BY DEF DocumentsInit, Start
<1> QED BY <1>1 DEF TotalsInv, TimesheetInv, SummaryInv, ReposInv, DoneInv

\* The steps of the built-in templates.
LEMMA BuiltinSteps ==
  /\ LET t == WorkSessionsTimesheet.transform
     IN /\ DOMAIN t = 1..4 /\ Len(t) = 4
        /\ t[1].name = "sessionize" /\ t[2].name = "exclude-off-time"
        /\ t[3].name = "split-by-active-days" /\ t[4].name = "rate" /\ t[4].params = Absent
  /\ LET t == ActivitySummary.transform
     IN /\ DOMAIN t = 1..2 /\ Len(t) = 2 /\ t[1].name = "group-by" /\ t[2].name = "aggregate"
        /\ t[1].params = [by |-> "owner"]
        /\ t[2].params = [op |-> "sum", field |-> "count", key |-> "total"]
  /\ LET t == CommitsPerRepo.transform
     IN /\ DOMAIN t = 1..2 /\ Len(t) = 2 /\ t[1].name = "group-by" /\ t[2].name = "aggregate"
        /\ t[1].params = [by |-> "repo"]
        /\ t[2].params = [op |-> "sum", field |-> "additions", key |-> "total-additions"]
<1>1. WorkSessionsTimesheet.transform =
        <<[name |-> "sessionize", params |-> Absent],
          [name |-> "exclude-off-time", params |-> Absent],
          [name |-> "split-by-active-days", params |-> Absent],
          [name |-> "rate", params |-> Absent]>>
  BY DEF WorkSessionsTimesheet, Builtin
<1>2. ActivitySummary.transform =
        <<[name |-> "group-by", params |-> [by |-> "owner"]],
          [name |-> "aggregate",
           params |-> [op |-> "sum", field |-> "count", key |-> "total"]]>>
  BY DEF ActivitySummary, Builtin
<1>3. CommitsPerRepo.transform =
        <<[name |-> "group-by", params |-> [by |-> "repo"]],
          [name |-> "aggregate",
           params |-> [op |-> "sum", field |-> "additions", key |-> "total-additions"]]>>
  BY DEF CommitsPerRepo, Builtin
<1> QED BY <1>1, <1>2, <1>3

\* For the sums, a step is one of the pipeline or changes nothing.
LEMMA StepsOfTotals ==
  ASSUME WireTypes, AskedFor, CopyInv, RunInv, [DocumentsNext]_<<vars, docVars>>
  PROVE  \/ RunStays /\ UNCHANGED rows
              /\ (phase' = "done" => phase = "done" \/ step > Len(template.transform))
         \/ \E name \in {"sessionize", "exclude-off-time", "passthrough"} : Apply(name)
         \/ SplitByActiveDays \/ GroupBy \/ Aggregate \/ Rate
<1>1. step \in Nat
  BY DEF RunInv
<1>2. ASSUME UNCHANGED <<step, rows>>,
             phase' = "done" => phase = "done" \/ step > Len(template.transform)
      PROVE  RunStays /\ UNCHANGED rows
               /\ (phase' = "done" => phase = "done" \/ step > Len(template.transform))
  <2>1. ASSUME NEW name, Apply(name) PROVE FALSE
    BY <1>1, <1>2, <2>1 DEF Apply
  <2> QED BY <1>2, <2>1, StepsOfRun DEF Sessionize, ExcludeOffTime, Applies
<1>3. CASE UNCHANGED <<vars, docVars>>
  BY <1>2, <1>3 DEF vars
<1>4. CASE OpenTemplate \/ CreateTemplate \/ AgentReads \/ Deliver \/ CheckFormat \/ Export
  BY <1>2, <1>4 DEF OpenTemplate, CreateTemplate, AgentReads, Deliver, CheckFormat, Export, vars
<1>5. CASE GetTemplate
  BY <1>2, <1>5 DEF GetTemplate
<1>6. CASE BuildPipeline \/ ExcludeOffTimeFails \/ ApplyLayout
  BY <1>2, <1>6 DEF BuildPipeline, ExcludeOffTimeFails, ApplyLayout
<1>7. CASE Sessionize \/ ExcludeOffTime \/ Passthrough
  BY <1>7 DEF Sessionize, ExcludeOffTime, Passthrough
<1> QED BY <1>3, <1>4, <1>5, <1>6, <1>7 DEF DocumentsNext

\* All seconds are a number.
LEMMA SecondsAre ==
  ASSUME ListsInv
  PROVE  SecondsIn(sessions) \in Int /\ SecondsIn(sessions) * UnitsPerSecond \in Int
<1> DEFINE V == Session(OwnersIn(timeline))
           f == [i \in DOMAIN sessions |-> sessions[i].duration]
           S == DOMAIN sessions
<1> HIDE DEF V
<1>1. sessions \in Seq(V)
  BY DEF ListsInv, V
<1>2. IsFiniteSet(S)
  BY <1>1, SeqIsList, ListIsFinite
<1>3. \A i \in S : sessions[i] \in V
  BY <1>1
<1>4. \A i \in S : f[i] \in Int
  BY <1>3 DEF V, Session
<1> HIDE DEF f, S
<1>5. Total(f, S) \in Int
  BY <1>2, <1>4, TotalIs DEF Numbers
<1>6. SecondsIn(sessions) \in Int
  BY <1>5 DEF SecondsIn, f, S
<1> QED BY <1>6, UnitIs

\* The step that runs is the one of the template.
LEMMA StepIs ==
  ASSUME NEW name, Apply(name), NEW t, template.transform = t
  PROVE  /\ step \in DOMAIN t /\ t[step].name = name /\ step' = step + 1
         /\ Params = t[step].params
         /\ UNCHANGED <<template, timeline, form, phase>> /\ phase = "run"
BY DEF Apply, Params, inputVars

\* The rows of the timesheet.
LEMMA TimesheetInvStep ==
  ASSUME WireTypes, AskedFor, NumbersAsked, CopyInv, RunInv, ListsInv, TotalsInv,
         [DocumentsNext]_<<vars, docVars>>
  PROVE  TimesheetInv'
<1> DEFINE t == WorkSessionsTimesheet.transform
           Hours(rs, ss) == /\ OfDays(rs, ss)
                            /\ AddsUpTo(rs, "hours", SecondsIn(ss) * UnitsPerSecond)
           Dollars(rs, ss, rate) ==
             /\ OfDays(rs, ss)
             /\ AddsUpTo(rs, "dollars", (SecondsIn(ss) * UnitsPerSecond) * rate)
<1>1. /\ DOMAIN t = 1..4
      /\ t[1].name = "sessionize" /\ t[2].name = "exclude-off-time"
      /\ t[3].name = "split-by-active-days" /\ t[4].name = "rate" /\ t[4].params = Absent
  BY BuiltinSteps
<1> HIDE DEF t, Hours, Dollars
<1>2. TimesheetInv <=> (template.transform = t =>
                          /\ step = 4 => Hours(rows, sessions)
                          /\ step = 5 => Dollars(rows, sessions, FormRate))
  BY DEF TimesheetInv, Hours, Dollars, t
<1>3. TimesheetInv' <=> (template'.transform = t =>
                           /\ step' = 4 => Hours(rows', sessions')
                           /\ step' = 5 => Dollars(rows', sessions', FormRate'))
  BY DEF TimesheetInv, Hours, Dollars, t
<1>4. form' = form => FormRate' = FormRate
  BY DEF FormRate
<1>5. CASE RunStays /\ UNCHANGED rows
  BY <1>2, <1>3, <1>4, <1>5 DEF RunStays, TotalsInv
<1>6. ASSUME NEW name, Apply(name), template'.transform = t
      PROVE  /\ step \in 1..4 /\ t[step].name = name /\ step' = step + 1
             /\ Params = t[step].params /\ template.transform = t /\ form' = form
  BY <1>1, <1>6, StepIs DEF Apply, inputVars
<1>7. ASSUME NEW name \in {"sessionize", "exclude-off-time", "passthrough"}, Apply(name),
             template'.transform = t
      PROVE  step' # 4 /\ step' # 5
  <2>1. step # 3 /\ step # 4 /\ step \in 1..4 /\ step' = step + 1
    BY <1>1, <1>6, <1>7
  <2> QED BY <2>1
<1>8. CASE SplitByActiveDays
  <2> SUFFICES ASSUME template'.transform = t PROVE step' = 4 /\ Hours(rows', sessions')
    BY <1>3
  <2>1. Apply("split-by-active-days") /\ sessions' = sessions
    BY <1>8 DEF SplitByActiveDays
  <2>2. step = 3 /\ step' = 4
    BY <1>1, <1>6, <2>1
  <2>3. Hours(rows', sessions)
    BY <1>8, DaysAddUp DEF ListsInv, Hours
  <2> QED BY <2>1, <2>2, <2>3
<1>9. CASE Rate
  <2> SUFFICES ASSUME template'.transform = t
               PROVE  step' = 5 /\ Dollars(rows', sessions', FormRate')
    BY <1>3
  <2>1. Apply("rate") /\ sessions' = sessions
    BY <1>9 DEF Rate
  <2>2. step = 4 /\ step' = 5 /\ Params = Absent /\ template.transform = t /\ form' = form
    BY <1>1, <1>6, <2>1
  <2>3. ResolveRate = FormRate
    BY <2>2 DEF ResolveRate, FormRate, Param
  <2>4. FormRate \in Int
    <3>1. ask \in Inputs /\ form = ask.form
      BY DEF RunInv
    <3> QED BY <3>1 DEF NumbersAsked, FormRate
  <2>5. Hours(rows, sessions)
    BY <1>2, <2>2 DEF TotalsInv
  <2>6. Dollars(rows', sessions, FormRate)
    <3> DEFINE all == SecondsIn(sessions) * UnitsPerSecond
    <3>1. all \in Int
      BY SecondsAre
    <3> HIDE DEF all
    <3>2. OfDays(rows, sessions) /\ AddsUpTo(rows, "hours", all)
      BY <2>5 DEF Hours, all
    <3>3. OfDays(rows', sessions) /\ AddsUpTo(rows', "dollars", all * FormRate)
      BY <1>9, <2>3, <2>4, <3>1, <3>2, RatesAddUp
    <3> QED BY <3>3 DEF Dollars, all
  <2> QED BY <1>4, <2>1, <2>2, <2>6
<1>10. CASE GroupBy \/ Aggregate
  <2>1. Apply("group-by") \/ Apply("aggregate")
    BY <1>10 DEF GroupBy, Aggregate
  <2>2. template'.transform # t
    BY <1>1, <1>6, <2>1
  <2> QED BY <1>3, <2>2
<1> QED BY <1>3, <1>5, <1>7, <1>8, <1>9, <1>10, StepsOfTotals

\* The rows of a template that groups and adds up, by owner or by repo.
LEMMA GroupedStep ==
  ASSUME WireTypes, AskedFor, TimelinesAsked, NumbersAsked, CopyInv, RunInv,
         [DocumentsNext]_<<vars, docVars>>,
         NEW t, NEW by \in {"owner", "repo"}, NEW field \in {"count", "additions"}, NEW total,
         t = template'.transform,
         DOMAIN t = 1..2, t[1].name = "group-by", t[2].name = "aggregate",
         t[1].params = [by |-> by], t[2].params.op = "sum", t[2].params.field = field,
         total = IF field = "count" THEN Len(timeline) * Unit ELSE AdditionsIn(timeline) * Unit,
         template.transform = t =>
           /\ step = 2 => OfEvents(rows, timeline)
           /\ step = 3 => WithTotal(rows, timeline, field, total)
  PROVE  /\ timeline' = timeline
         /\ step' = 2 => OfEvents(rows', timeline)
         /\ step' = 3 => WithTotal(rows', timeline, field, total)
<1>1. CASE RunStays /\ UNCHANGED rows
  BY <1>1 DEF RunStays
<1>2. ASSUME NEW name, Apply(name)
      PROVE  /\ step \in 1..2 /\ t[step].name = name /\ step' = step + 1
             /\ Params = t[step].params /\ template.transform = t /\ timeline' = timeline
  BY <1>2, StepIs DEF Apply, inputVars
<1>3. ASSUME NEW name, Apply(name), name \notin {"group-by", "aggregate"}
      PROVE  FALSE
  BY <1>2, <1>3
<1>4. CASE GroupBy
  <2>1. Apply("group-by")
    BY <1>4 DEF GroupBy
  <2>2. step = 1 /\ step' = 2 /\ Params = [by |-> by] /\ timeline' = timeline
    BY <1>2, <2>1
  <2>3. Param(Params, "by", "owner") \in {"owner", "repo"}
    BY <2>2 DEF Param
  <2> QED BY <1>4, <2>2, <2>3, BucketsAddUp
<1>5. CASE Aggregate
  <2>1. Apply("aggregate")
    BY <1>5 DEF Aggregate
  <2>2. /\ step = 2 /\ step' = 3 /\ Params = t[2].params /\ timeline' = timeline
        /\ template.transform = t
    BY <1>2, <2>1
  <2>3. OfEvents(rows, timeline)
    BY <2>2
  <2>4. Params.op = "sum" /\ Params.field = field
    BY <2>2
  <2>5. AddsUpTo(rows, field, total)
    BY <2>3 DEF OfEvents
  <2>6. Totalled(rows, rows', field, total)
    <3>1. AddsUpTo(rows, Params.field, total) /\ Params.op = "sum"
      BY <2>4, <2>5
    <3>2. Totalled(rows, rows', Params.field, total)
      BY <1>5, <3>1, AggregateIs
    <3> QED BY <2>4, <3>2
  <2>7. WithTotal(rows', timeline, field, total)
    BY <2>3, <2>6 DEF WithTotal
  <2> QED BY <2>2, <2>7
<1>6. ~ SplitByActiveDays /\ ~ Rate
  BY <1>3 DEF SplitByActiveDays, Rate
<1>7. \A name \in {"sessionize", "exclude-off-time", "passthrough"} : ~ Apply(name)
  BY <1>3
<1> QED BY <1>1, <1>4, <1>5, <1>6, <1>7, StepsOfTotals

\* The rows add up.
LEMMA TotalsInvStep ==
  ASSUME WireTypes, AskedFor, TimelinesAsked, NumbersAsked, CopyInv, RunInv, ListsInv, TotalsInv,
         [DocumentsNext]_<<vars, docVars>>
  PROVE  TotalsInv'
<1>1. TimesheetInv'
  BY TimesheetInvStep
<1>2. SummaryInv'
  <2> DEFINE t == ActivitySummary.transform
  <2> SUFFICES ASSUME template'.transform = t
               PROVE  /\ step' = 2 => OfEvents(rows', timeline')
                      /\ step' = 3 => WithTotal(rows', timeline', "count", Len(timeline') * Unit)
    BY DEF SummaryInv
  <2>1. /\ DOMAIN t = 1..2 /\ t[1].name = "group-by" /\ t[2].name = "aggregate"
        /\ t[1].params = [by |-> "owner"]
        /\ t[2].params.op = "sum" /\ t[2].params.field = "count"
    BY BuiltinSteps
  <2>2. template.transform = t =>
          /\ step = 2 => OfEvents(rows, timeline)
          /\ step = 3 => WithTotal(rows, timeline, "count", Len(timeline) * Unit)
    BY DEF TotalsInv, SummaryInv
  <2> HIDE DEF t
  <2>3. /\ timeline' = timeline
        /\ step' = 2 => OfEvents(rows', timeline)
        /\ step' = 3 => WithTotal(rows', timeline, "count", Len(timeline) * Unit)
    BY <2>1, <2>2, GroupedStep
  <2> QED BY <2>3
<1>3. ReposInv'
  <2> DEFINE t == CommitsPerRepo.transform
  <2> SUFFICES ASSUME template'.transform = t
               PROVE  /\ step' = 2 => OfEvents(rows', timeline')
                      /\ step' = 3 => WithTotal(rows', timeline', "additions",
                                                AdditionsIn(timeline') * Unit)
    BY DEF ReposInv
  <2>1. /\ DOMAIN t = 1..2 /\ t[1].name = "group-by" /\ t[2].name = "aggregate"
        /\ t[1].params = [by |-> "repo"]
        /\ t[2].params.op = "sum" /\ t[2].params.field = "additions"
    BY BuiltinSteps
  <2>2. template.transform = t =>
          /\ step = 2 => OfEvents(rows, timeline)
          /\ step = 3 => WithTotal(rows, timeline, "additions", AdditionsIn(timeline) * Unit)
    BY DEF TotalsInv, ReposInv
  <2> HIDE DEF t
  <2>3. /\ timeline' = timeline
        /\ step' = 2 => OfEvents(rows', timeline)
        /\ step' = 3 => WithTotal(rows', timeline, "additions", AdditionsIn(timeline) * Unit)
    BY <2>1, <2>2, GroupedStep
  <2> QED BY <2>3
<1>4. DoneInv'
  <2>1. CASE RunStays /\ (phase' = "done" => phase = "done" \/ step > Len(template.transform))
    BY <2>1 DEF RunStays, TotalsInv, DoneInv
  <2>2. ASSUME NEW name, Apply(name) PROVE phase' # "done"
    BY <2>2 DEF Apply
  <2> QED BY <2>1, <2>2, StepsOfTotals
          DEF DoneInv, SplitByActiveDays, GroupBy, Aggregate, Rate
<1> QED BY <1>1, <1>2, <1>3, <1>4 DEF TotalsInv

\* A field of the table, and where it is.
Fields == FlatMap(LAMBDA f : IF Having(f) = {} THEN <<>> ELSE <<f>>, FieldNames)

\* A field that some row has is in a column.
LEMMA FieldsHave ==
  /\ IsList(Fields)
  /\ \A f \in {"count", "additions"} :
       Having(f) # {} => \E c \in 1..Len(Fields) : Fields[c] = f
<1> DEFINE one(f) == IF Having(f) = {} THEN <<>> ELSE <<f>>
           names == FieldNames
           ones == [i \in DOMAIN names |-> one(names[i])]
           W == {"additions", "count", "deletions", "dollars", "hours", "seconds"}
<1>1. /\ DOMAIN names = 1..6 /\ \A i \in 1..6 : names[i] \in W
      /\ names[1] = "additions" /\ names[2] = "count"
  <2>1. DOMAIN names = 1..6
    BY DEF FieldNames
  <2>2. \A i \in 1..6 : names[i] \in W
    BY DEF FieldNames
  <2> QED BY <2>1, <2>2 DEF FieldNames
<1> HIDE DEF names, W
<1>2. Fields = FlattenSeq(ones)
  BY DEF Fields, FlatMap, names
<1>3. \A i \in 1..6 : one(names[i]) \in Seq(W)
  BY <1>1
<1> HIDE DEF one
<1>4. ones \in Seq(Seq(W)) /\ Len(ones) = 6 /\ \A i \in 1..6 : ones[i] = one(names[i])
  BY <1>1, <1>3
<1> HIDE DEF ones
<1>5. FlattenSeq(ones) \in Seq(W)
  BY <1>4, FlattenPlaces
<1>6. PICK block, pos : Places(block, pos, FlattenSeq(ones), ones, Len(ones))
  BY <1>4, FlattenPlaces
<1>7. ASSUME NEW i \in 1..2, Having(names[i]) # {}
      PROVE  \E c \in 1..Len(FlattenSeq(ones)) : FlattenSeq(ones)[c] = names[i]
  <2>1. ones[i] = <<names[i]>>
    <3>1. i \in 1..6
      OBVIOUS
    <3>2. ones[i] = one(names[i])
      BY <1>4, <3>1
    <3> QED BY <1>7, <3>2 DEF one
  <2>2. Len(ones[i]) = 1 /\ ones[i][1] = names[i]
    BY <2>1
  <2>3. i \in 1..Len(ones) /\ 1 \in 1..Len(ones[i])
    BY <1>4, <2>2
  <2>4. PICK c \in 1..Len(FlattenSeq(ones)) : block[c] = i /\ pos[c] = 1
    BY <1>6, <2>3 DEF Places
  <2>5. FlattenSeq(ones)[c] = ones[i][1]
    BY <1>6, <2>4 DEF Places
  <2> QED BY <2>2, <2>5
<1>8. IsList(Fields)
  BY <1>2, <1>5, SeqIsList
<1>9. ASSUME NEW f \in {"count", "additions"}, Having(f) # {}
      PROVE  \E c \in 1..Len(Fields) : Fields[c] = f
  <2>1. PICK i \in 1..2 : names[i] = f
    BY <1>1
  <2> QED BY <1>2, <1>7, <1>9, <2>1
<1> QED BY <1>8, <1>9

\* The table that is rendered: a line for each row, with its key and its value of
\* each field.
TableIsOf(t) ==
    /\ t.columns = <<"key">> \o Fields
    /\ DOMAIN t.rows = DOMAIN rows
    /\ t.rows = [i \in DOMAIN rows |->
                   <<rows[i].key>> \o [c \in DOMAIN Fields |->
                       IF i \in Having(Fields[c]) THEN rows[i].values[Fields[c]] ELSE 0]]

\* That is what RenderTable makes.
LEMMA TableHas == TableIsOf(RenderTable.data)
BY DEF RenderTable, NewTable, TableIsOf, Fields

\* A line of it begins with the key.
LEMMA LineIs ==
  ASSUME NEW t, TableIsOf(t), NEW i \in DOMAIN rows
  PROVE  /\ t.rows[i][1] = rows[i].key
         /\ \A c \in 1..Len(Fields) :
              t.rows[i][c + 1] = IF i \in Having(Fields[c]) THEN rows[i].values[Fields[c]] ELSE 0
<1> DEFINE k == rows[i].key
           v(c) == IF i \in Having(Fields[c]) THEN rows[i].values[Fields[c]] ELSE 0
           cs == [c \in DOMAIN Fields |-> v(c)]
           n == Len(Fields)
<1>1. n \in Nat /\ DOMAIN Fields = 1..n
  BY FieldsHave, ListIs
<1>2. t.rows[i] = <<k>> \o cs
  BY DEF TableIsOf
<1> HIDE DEF n
<1>3. cs = [c \in 1..n |-> v(c)]
  BY <1>1
<1> HIDE DEF cs, k, v
<1>4. IsList(cs) /\ Len(cs) = n /\ \A c \in 1..n : cs[c] = v(c)
  <2>1. cs = [c \in 1..n |-> cs[c]] /\ \A c \in 1..n : cs[c] = v(c)
    BY <1>3
  <2> QED BY <1>1, <2>1, MadeList
<1> DEFINE V == {k} \cup Range(cs)
<1>5. cs \in Seq(V) /\ k \in V
  <2>1. \A c \in 1..Len(cs) : cs[c] \in V
    BY <1>4, ListIs
  <2> HIDE DEF V
  <2>2. cs \in Seq(V)
    BY <1>4, <2>1, ListOf
  <2> QED BY <2>2 DEF V
<1> HIDE DEF V
<1>6. (<<k>> \o cs)[1] = k
  BY <1>5
<1>7. ASSUME NEW c \in 1..n PROVE (<<k>> \o cs)[c + 1] = cs[c]
  <2>1. c \in Nat /\ c + 1 \in 2..(n + 1) /\ (c + 1) - 1 = c
    BY <1>1
  <2>2. <<k>> \in Seq(V) /\ Len(<<k>>) = 1 /\ Len(cs) = n
    BY <1>4, <1>5
  <2> QED BY <1>1, <1>5, <2>1, <2>2
<1> QED BY <1>2, <1>4, <1>6, <1>7 DEF k, v, n

\* What the table shows of a field in a row that has it.
LEMMA CellIs ==
  ASSUME NEW t, TableIsOf(t), NEW f \in {"count", "additions"}, NEW i \in Having(f)
  PROVE  t.rows[i][CHOOSE c \in DOMAIN t.columns : t.columns[c] = f] = rows[i].values[f]
<1> DEFINE columns == t.columns
           c == CHOOSE c \in DOMAIN columns : columns[c] = f
           n == Len(Fields)
           V == {"key"} \cup Range(Fields)
<1>1. n \in Nat /\ DOMAIN Fields = 1..n /\ IsList(Fields)
  BY FieldsHave, ListIs
<1>2. Fields \in Seq(V) /\ "key" \in V
  <2>1. \A j \in 1..Len(Fields) : Fields[j] \in V
    BY <1>1, ListIs
  <2> HIDE DEF V
  <2>2. Fields \in Seq(V)
    BY <1>1, <2>1, ListOf
  <2> QED BY <2>2 DEF V
<1>3. columns = <<"key">> \o Fields
  BY DEF TableIsOf
<1> HIDE DEF V, n, columns
<1>4. /\ DOMAIN columns = 1..(n + 1) /\ columns[1] = "key"
      /\ \A j \in 1..n : columns[j + 1] = Fields[j]
  <2>1. <<"key">> \in Seq(V) /\ Len(<<"key">>) = 1 /\ Len(Fields) = n
    BY <1>2 DEF n
  <2>2. DOMAIN columns = 1..(n + 1) /\ columns[1] = "key"
    BY <1>1, <1>2, <1>3, <2>1
  <2>3. ASSUME NEW j \in 1..n PROVE columns[j + 1] = Fields[j]
    <3>1. j + 1 \in 2..(n + 1) /\ (j + 1) - 1 = j
      BY <1>1
    <3> QED BY <1>1, <1>2, <1>3, <2>1, <3>1
  <2> QED BY <2>2, <2>3
<1>5. PICK j \in 1..n : Fields[j] = f
  BY FieldsHave DEF n
<1>6. j + 1 \in DOMAIN columns /\ columns[j + 1] = f
  BY <1>1, <1>4, <1>5
<1>7. c \in 1..(n + 1) /\ columns[c] = f
  BY <1>4, <1>6
<1> HIDE DEF c
<1>8. c # 1
  BY <1>4, <1>7
<1>9. c - 1 \in 1..n /\ (c - 1) + 1 = c
  BY <1>1, <1>7, <1>8
<1>10. Fields[c - 1] = f
  BY <1>4, <1>7, <1>9
<1>11. i \in DOMAIN rows
  BY DEF Having
<1>12. t.rows[i][(c - 1) + 1] = rows[i].values[f]
  BY <1>9, <1>10, <1>11, LineIs DEF n
<1>13. t.rows[i][c] = rows[i].values[f]
  BY <1>9, <1>12
<1> QED BY <1>13 DEF c, columns

\* A row that comes last has the total, and only the others have the other fields.
LEMMA LastHasTotal ==
  ASSUME NEW field \in {"count", "additions"}, NEW total,
         WithTotal(rows, timeline, field, total), NEW t, TableIsOf(t)
  PROVE  /\ Last(t.rows)[CHOOSE c \in DOMAIN t.columns : t.columns[c] = field] = total
         /\ field # "count" => SumOf("count") = Len(timeline) * Unit
<1>1. PICK events : OfEvents(events, timeline) /\ Totalled(events, rows, field, total)
  BY DEF WithTotal
<1>2. PICK r : rows = Append(events, r) /\ r.values = [f \in {field} |-> total]
  BY <1>1 DEF Totalled
<1> DEFINE n == Len(events)
<1>3. /\ n \in Nat /\ DOMAIN events = 1..n /\ IsList(rows) /\ Len(rows) = n + 1
      /\ rows[n + 1] = r /\ \A i \in 1..n : rows[i] = events[i]
  BY <1>1, <1>2, OneMore, ListIs DEF OfEvents
<1>4. DOMAIN rows = 1..(n + 1)
  BY <1>3, ListIs
<1> HIDE DEF n
<1>5. n + 1 \in DOMAIN rows /\ field \in DOMAIN rows[n + 1].values
      /\ rows[n + 1].values[field] = total
  BY <1>2, <1>3, <1>4
<1>6. n + 1 \in Having(field)
  BY <1>5 DEF Having
<1>7. Last(t.rows) = t.rows[n + 1]
  <2>1. DOMAIN t.rows = 1..(n + 1)
    BY <1>4 DEF TableIsOf
  <2>2. t.rows = [i \in 1..(n + 1) |-> t.rows[i]]
    BY <1>4 DEF TableIsOf
  <2> DEFINE lines == t.rows
  <2> HIDE DEF lines
  <2>3. Len(lines) = n + 1
    <3>1. lines = [i \in 1..(n + 1) |-> lines[i]] /\ n + 1 \in Nat
      BY <1>3, <2>2 DEF lines
    <3> QED BY <3>1, MadeList
  <2> QED BY <2>3 DEF Last, lines
<1>8. Last(t.rows)[CHOOSE c \in DOMAIN t.columns : t.columns[c] = field] = total
  BY <1>5, <1>6, <1>7, CellIs
<1>9. ASSUME field # "count" PROVE SumOf("count") = Len(timeline) * Unit
  <2> DEFINE f == Column(events, "count")
             g == Column(rows, "count")
  <2>1. Having("count") = 1..n
    <3>1. "count" \notin DOMAIN rows[n + 1].values
      BY <1>2, <1>3, <1>9
    <3>2. \A i \in 1..n : "count" \in DOMAIN rows[i].values
      BY <1>1, <1>3 DEF OfEvents
    <3>3. 1..(n + 1) = (1..n) \cup {n + 1}
      BY <1>3
    <3> QED BY <1>4, <3>1, <3>2, <3>3 DEF Having
  <2>2. Numbers(f, 1..n) /\ Total(f, 1..n) = Len(timeline) * Unit
    BY <1>1, <1>3 DEF OfEvents, AddsUpTo
  <2>3. \A i \in 1..n : g[i] = f[i]
    <3>1. \A i \in 1..n : i \in DOMAIN rows /\ i \in DOMAIN events
      BY <1>3, <1>4
    <3> QED BY <1>3, <3>1 DEF Column
  <2> HIDE DEF f, g
  <2>4. Total(g, 1..n) = Total(f, 1..n)
    BY <2>2, <2>3, TotalSame
  <2> QED BY <2>1, <2>2, <2>4, FieldsAre DEF g
<1> QED BY <1>8, <1>9

\* What BuiltinTotals says of a document, of a table and a metric.
DaysListed(t) ==
    /\ {t.rows[i][1][2] : i \in DOMAIN t.rows} = {Day(sessions[i].start) : i \in DOMAIN sessions}
    /\ \A i, j \in DOMAIN t.rows : i < j => t.rows[i][1][2] < t.rows[j][1][2]

ColumnOf(t, f) == CHOOSE c \in DOMAIN t.columns : t.columns[c] = f

\* A day for each row.
LEMMA DaysAreListed ==
  ASSUME ListsInv, OfDays(rows, sessions), NEW t, TableIsOf(t)
  PROVE  DaysListed(t)
<1> DEFINE D == {Day(sessions[i].start) : i \in DOMAIN sessions}
           a == Ascending(D)
           n == Cardinality(D)
           V == Session(OwnersIn(timeline))
           key == [i \in DOMAIN sessions |-> Day(sessions[i].start)]
<1>1. IsFiniteSet(DOMAIN sessions) /\ \A i \in DOMAIN sessions : key[i] \in Int
  <2> HIDE DEF V
  <2>1. sessions \in Seq(V)
    BY DEF ListsInv, V
  <2>2. IsFiniteSet(DOMAIN sessions)
    BY <2>1, SeqIsList, ListIsFinite
  <2>3. \A i \in DOMAIN sessions : sessions[i] \in V
    BY <2>1
  <2> QED BY <2>2, <2>3, DayIs DEF V, Session
<1>2. IsFiniteSet(D) /\ D \in SUBSET Int
  <2>1. D = {key[i] : i \in DOMAIN sessions}
    OBVIOUS
  <2> HIDE DEF key, D
  <2> QED BY <1>1, <2>1, ImageIsFinite
<1>3. DOMAIN rows = DOMAIN a /\ \A i \in DOMAIN rows : rows[i].key = <<"day", a[i]>>
  <2> HIDE DEF key
  <2>1. \A i \in DOMAIN rows : rows[i] = [key |-> <<"day", a[i]>>, values |-> rows[i].values]
    BY DEF OfDays
  <2> QED BY <2>1 DEF OfDays
<1> HIDE DEF D, V, key
<1>4. Lists(a, D) /\ DOMAIN a = 1..n
  BY <1>2, AscendingLists, AscendingIsList
<1> HIDE DEF a, n
<1>5. DOMAIN t.rows = 1..n /\ \A i \in 1..n : t.rows[i][1] = <<"day", a[i]>>
  BY <1>3, <1>4, LineIs DEF TableIsOf
<1>6. \A i \in 1..n : t.rows[i][1][2] = a[i]
  BY <1>5
<1>7. {t.rows[i][1][2] : i \in DOMAIN t.rows} = D
  BY <1>4, <1>5, <1>6 DEF Lists, n
<1>8. \A i, j \in DOMAIN t.rows : i < j => t.rows[i][1][2] < t.rows[j][1][2]
  BY <1>4, <1>5, <1>6 DEF Lists, n
<1> QED BY <1>7, <1>8 DEF DaysListed, D

\* The document of a built-in template has a heading, the table and, but for the
\* summary, a metric.
LEMMA BuiltinLayouts ==
  /\ LET l == WorkSessionsTimesheet.layout
     IN l # <<>> /\ DOMAIN l = 1..3 /\ l[2].type = "table" /\ l[3].type = "metric"
        /\ l[3].source = "dollars"
  /\ LET l == ActivitySummary.layout
     IN l # <<>> /\ DOMAIN l = 1..2 /\ l[2].type = "table"
  /\ LET l == CommitsPerRepo.layout
     IN l # <<>> /\ DOMAIN l = 1..3 /\ l[2].type = "table" /\ l[3].type = "metric"
        /\ l[3].source = "count"
<1>1. WorkSessionsTimesheet.layout = <<Heading("Work sessions timesheet"), TableOfRows,
                                     MetricOf("dollars", "Total dollars", "$")>>
  BY DEF WorkSessionsTimesheet, Builtin
<1>2. ActivitySummary.layout = <<Heading("Activity summary"), TableOfRows>>
  BY DEF ActivitySummary, Builtin
<1>3. CommitsPerRepo.layout = <<Heading("Commits per repo"), TableOfRows,
                                MetricOf("count", "Total events", "events")>>
  BY DEF CommitsPerRepo, Builtin
<1>4. TableOfRows.type = "table"
  BY DEF TableOfRows
<1>5. ASSUME NEW f, NEW label, NEW unit
      PROVE  MetricOf(f, label, unit).type = "metric" /\ MetricOf(f, label, unit).source = f
  BY DEF MetricOf
<1>6. ASSUME NEW h, NEW t, NEW m
      PROVE  /\ DOMAIN <<h, t, m>> = 1..3 /\ <<h, t, m>> # <<>>
             /\ <<h, t, m>>[2] = t /\ <<h, t, m>>[3] = m
  OBVIOUS
<1>7. ASSUME NEW h, NEW t
      PROVE  DOMAIN <<h, t>> = 1..2 /\ <<h, t>> # <<>> /\ <<h, t>>[2] = t
  OBVIOUS
<1>8. LET l == WorkSessionsTimesheet.layout
      IN l # <<>> /\ DOMAIN l = 1..3 /\ l[2].type = "table" /\ l[3].type = "metric"
         /\ l[3].source = "dollars"
  <2> DEFINE h == Heading("Work sessions timesheet")
             m == MetricOf("dollars", "Total dollars", "$")
  <2>1. m.type = "metric" /\ m.source = "dollars"
    BY <1>5
  <2> HIDE DEF h, m
  <2>2. WorkSessionsTimesheet.layout = <<h, TableOfRows, m>>
    BY <1>1 DEF h, m
  <2> QED BY <1>4, <1>6, <2>1, <2>2
<1>9. LET l == ActivitySummary.layout
      IN l # <<>> /\ DOMAIN l = 1..2 /\ l[2].type = "table"
  <2> DEFINE h == Heading("Activity summary")
  <2> HIDE DEF h
  <2>1. ActivitySummary.layout = <<h, TableOfRows>>
    BY <1>2 DEF h
  <2> QED BY <1>4, <1>7, <2>1
<1>10. LET l == CommitsPerRepo.layout
       IN l # <<>> /\ DOMAIN l = 1..3 /\ l[2].type = "table" /\ l[3].type = "metric"
          /\ l[3].source = "count"
  <2> DEFINE h == Heading("Commits per repo")
             m == MetricOf("count", "Total events", "events")
  <2>1. m.type = "metric" /\ m.source = "count"
    BY <1>5
  <2> HIDE DEF h, m
  <2>2. CommitsPerRepo.layout = <<h, TableOfRows, m>>
    BY <1>3 DEF h, m
  <2> QED BY <1>4, <1>6, <2>1, <2>2
<1> QED BY <1>8, <1>9, <1>10

\* What is shown of a run that is done.
LEMMA DocumentShows ==
  ASSUME CopyInv, phase = "done", template.layout # <<>>
  PROVE  \A i \in DOMAIN template.layout :
           /\ template.layout[i].type = "table" => TableIsOf(doc[i].data)
           /\ template.layout[i].type = "metric" =>
                doc[i].data.value = SumOf(template.layout[i].source)
<1>1. doc = DocOfLayout
  BY DEF CopyInv
<1>2. ASSUME NEW i \in DOMAIN template.layout PROVE doc[i] = Render(template.layout[i])
  BY <1>1 DEF DocOfLayout
<1>3. ASSUME NEW b, b.type = "table" PROVE Render(b) = RenderTable
  BY <1>3 DEF Render
<1>4. ASSUME NEW b, b.type = "metric" PROVE Render(b).data.value = SumOf(b.source)
  BY <1>4 DEF Render, RenderMetric, NewMetric
<1> QED BY <1>2, <1>3, <1>4, TableHas

\* The totals of a run that is done.
LEMMA TotalsShown ==
  ASSUME WireTypes, AskedFor, NumbersAsked, CopyInv, RunInv, ListsInv, TotalsInv
  PROVE  BuiltinTotals
<1> SUFFICES ASSUME phase = "done" PROVE BuiltinTotals
  BY DEF BuiltinTotals
<1> DEFINE t == template.transform
<1>1. step \in Nat /\ step > Len(t) /\ step - 1 =< Len(t)
  BY DEF TotalsInv, DoneInv, RunInv
<1>2. ASSUME NEW n \in Nat, Len(t) = n PROVE step = n + 1
  <2> HIDE DEF t
  <2> QED BY <1>1, <1>2
<1>3. ASSUME Runs(WorkSessionsTimesheet)
      PROVE  /\ doc[3].data.value * SecondsPerHour
                  = MapThenSumSet(LAMBDA i : sessions[i].duration, DOMAIN sessions)
                      * FormRate * Unit
             /\ DaysListed(doc[2].data)
  <2>1. t = WorkSessionsTimesheet.transform /\ template.layout = WorkSessionsTimesheet.layout
    BY <1>3 DEF Runs
  <2>2. step = 5
    BY <1>2, <2>1, BuiltinSteps
  <2> DEFINE all == SecondsIn(sessions)
             u == UnitsPerSecond
             s == SecondsPerHour
             r == FormRate
  <2>3. OfDays(rows, sessions) /\ AddsUpTo(rows, "dollars", (all * u) * r)
    BY <2>1, <2>2 DEF TotalsInv, TimesheetInv
  <2>4. /\ template.layout # <<>> /\ DOMAIN template.layout = 1..3
        /\ template.layout[2].type = "table" /\ template.layout[3].type = "metric"
        /\ template.layout[3].source = "dollars"
    BY <2>1, BuiltinLayouts
  <2>5. TableIsOf(doc[2].data) /\ doc[3].data.value = SumOf("dollars")
    BY <2>4, DocumentShows
  <2>6. SumOf("dollars") = (all * u) * r
    BY <2>3, SumOfAll
  <2>7. MapThenSumSet(LAMBDA i : sessions[i].duration, DOMAIN sessions) = all
    <3> DEFINE S == DOMAIN sessions
    <3> HIDE DEF S
    <3>1. S \in SUBSET DOMAIN sessions
      BY DEF S
    <3>2. MapThenSumSet(LAMBDA i : sessions[i].duration, S)
            = Total([i \in DOMAIN sessions |-> sessions[i].duration], S)
      BY <3>1, DurationsAre
    <3> QED BY <3>2 DEF S, SecondsIn
  <2>8. all \in Int /\ u \in Int /\ s \in Int /\ r \in Int /\ Unit = u * s
    <3>1. ask \in Inputs /\ form = ask.form
      BY DEF RunInv
    <3>2. r \in Int
      BY <3>1 DEF NumbersAsked, FormRate
    <3>3. s \in Int
      BY TimesheetAssumption
    <3> QED BY <3>2, <3>3, SecondsAre, UnitIs
  <2>9. ((all * u) * r) * s = all * r * Unit
    <3> HIDE DEF all, u, s, r
    <3> QED BY <2>8
  <2>10. doc[3].data.value * s = all * r * Unit
    BY <2>5, <2>6, <2>9
  <2>11. DaysListed(doc[2].data)
    BY <2>3, <2>5, DaysAreListed
  <2> HIDE DEF all
  <2> QED BY <2>7, <2>10, <2>11
<1>4. ASSUME Runs(ActivitySummary)
      PROVE  Last(doc[2].data.rows)[ColumnOf(doc[2].data, "count")] = Len(timeline) * Unit
  <2>1. t = ActivitySummary.transform /\ template.layout = ActivitySummary.layout
    BY <1>4 DEF Runs
  <2>2. step = 3
    BY <1>2, <2>1, BuiltinSteps
  <2>3. WithTotal(rows, timeline, "count", Len(timeline) * Unit)
    BY <2>1, <2>2 DEF TotalsInv, SummaryInv
  <2>4. template.layout # <<>> /\ DOMAIN template.layout = 1..2 /\ template.layout[2].type = "table"
    BY <2>1, BuiltinLayouts
  <2>5. TableIsOf(doc[2].data)
    BY <2>4, DocumentShows
  <2> QED BY <2>3, <2>5, LastHasTotal DEF ColumnOf
<1>5. ASSUME Runs(CommitsPerRepo)
      PROVE  /\ doc[3].data.value = Len(timeline) * Unit
             /\ Last(doc[2].data.rows)[ColumnOf(doc[2].data, "additions")]
                  = MapThenSumSet(LAMBDA i : timeline[i].additions, DOMAIN timeline) * Unit
  <2>1. t = CommitsPerRepo.transform /\ template.layout = CommitsPerRepo.layout
    BY <1>5 DEF Runs
  <2>2. step = 3
    BY <1>2, <2>1, BuiltinSteps
  <2>3. WithTotal(rows, timeline, "additions", AdditionsIn(timeline) * Unit)
    BY <2>1, <2>2 DEF TotalsInv, ReposInv
  <2>4. /\ template.layout # <<>> /\ DOMAIN template.layout = 1..3
        /\ template.layout[2].type = "table" /\ template.layout[3].type = "metric"
        /\ template.layout[3].source = "count"
    BY <2>1, BuiltinLayouts
  <2>5. TableIsOf(doc[2].data) /\ doc[3].data.value = SumOf("count")
    BY <2>4, DocumentShows
  <2>6. MapThenSumSet(LAMBDA i : timeline[i].additions, DOMAIN timeline) = AdditionsIn(timeline)
    <3> DEFINE S == DOMAIN timeline
    <3> HIDE DEF S
    <3>1. S \in SUBSET DOMAIN timeline
      BY DEF S
    <3>2. MapThenSumSet(LAMBDA i : timeline[i].additions, S)
            = Total([i \in DOMAIN timeline |-> timeline[i].additions], S)
      BY <3>1, AdditionsAre
    <3> QED BY <3>2 DEF S, AdditionsIn
  <2>7. SumOf("count") = Len(timeline) * Unit
        /\ Last(doc[2].data.rows)[ColumnOf(doc[2].data, "additions")] = AdditionsIn(timeline) * Unit
    <3> DEFINE all == AdditionsIn(timeline) * Unit
               tb  == doc[2].data
               f   == "additions"
    <3>1. f \in {"count", "additions"} /\ f # "count"
      OBVIOUS
    <3> HIDE DEF all, tb, f
    <3>2. WithTotal(rows, timeline, f, all) /\ TableIsOf(tb)
      BY <2>3, <2>5 DEF all, tb, f
    <3>3. /\ Last(tb.rows)[CHOOSE c \in DOMAIN tb.columns : tb.columns[c] = f] = all
          /\ f # "count" => SumOf("count") = Len(timeline) * Unit
      BY <3>1, <3>2, LastHasTotal
    <3> QED BY <3>1, <3>3 DEF ColumnOf, all, tb, f
  <2> QED BY <2>5, <2>6, <2>7
<1> QED BY <1>3, <1>4, <1>5 DEF BuiltinTotals, DaysListed, ColumnOf, FormRate

\* For every timeline and every form: the timesheet's dollars are the rate times
\* the hours of all sessions, in a row for each day on which one starts; the
\* summary's total is the number of events; and what "commits per repo" shows
\* are the number of events and the additions of the timeline, although totals
\* are rows like the others (builtin_templates.go; split_by_active_days.go;
\* group_by.go; aggregate.go; rate.go; layout.go).
THEOREM BuiltinsAddUp ==
    ASSUME WireTypes, AskedFor, TimelinesAsked, NumbersAsked
    PROVE  DocumentsSpec => []BuiltinTotals
<1> DEFINE Inv == CopyInv /\ RunInv /\ ListsInv /\ TotalsInv
<1>1. DocumentsInit => Inv
  BY CopyInvInit, RunInvInit, ListsInvInit, TotalsInvInit
<1>2. Inv /\ [DocumentsNext]_<<vars, docVars>> => Inv'
  BY CopyInvStep, RunInvStep, ListsInvStep, TotalsInvStep
<1>3. Inv => BuiltinTotals
  BY TotalsShown
<1> QED BY <1>1, <1>2, <1>3, PTL DEF DocumentsSpec
==============================================================================
