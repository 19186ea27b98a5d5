---------------------------- MODULE GhSyncProofs ----------------------------
(***************************************************************************)
(* Theorems about GhSync for every set of processes, callers, repositories *)
(* and commits, and every bound on faults.                                 *)
(***************************************************************************)
EXTENDS GhSync, TLAPS, FiniteSetTheorems

USE SyncAssumption DEF InSync, Holding, missVars

-----------------------------------------------------------------------------
(* Types. *)

LEMMA InitTypeOK == Init => TypeOK
  BY DEF Init, TypeOK, NoResult

LEMMA StepTypeOK == TypeOK /\ [Next]_vars => TypeOK'
<1> SUFFICES ASSUME TypeOK, [Next]_vars PROVE TypeOK'
  OBVIOUS
<1> USE DEF TypeOK
<1>1. ASSUME NEW e \in Events, Push(e) PROVE TypeOK'
  BY <1>1 DEF Push, storeVars, ctlVars, passVars, repoVars, faultVars
<1>2. ASSUME NEW c \in Callers, TriggerStart(c) PROVE TypeOK'
  BY <1>2 DEF TriggerStart, remoteVars, storeVars, passVars, repoVars, faultVars
<1>3. ASSUME NEW c \in Callers, TriggerConflict(c) PROVE TypeOK'
  BY <1>3 DEF TriggerConflict, remoteVars, storeVars, ctlVars, passVars,
              repoVars, faultVars
<1>4. ASSUME NEW c \in Callers, Discover(c) PROVE TypeOK'
  BY <1>4 DEF Discover, remoteVars, storeVars, ctlVars, repoVars, faultVars
<1>5. ASSUME NEW c \in Callers, DiscoverFails(c) PROVE TypeOK'
  BY <1>5 DEF DiscoverFails, storeVars, ctlVars, passVars, repoVars, faultVars
<1>6. ASSUME NEW c \in Callers, NEW r \in Repos, GetSyncState(c, r) PROVE TypeOK'
  BY <1>6 DEF GetSyncState, remoteVars, storeVars, ctlVars, faultVars
<1>7. ASSUME NEW c \in Callers, NEW r \in Repos, GetSyncStateFails(c, r)
      PROVE TypeOK'
  BY <1>7 DEF GetSyncStateFails, remoteVars, storeVars, ctlVars, repoVars,
              faultVars
<1>8. ASSUME NEW c \in Callers, ListNothing(c) PROVE TypeOK'
  BY <1>8 DEF ListNothing, LeaveRepo, remoteVars, storeVars, ctlVars, faultVars
<1>9. ASSUME NEW c \in Callers, ListEvents(c) PROVE TypeOK'
  BY <1>9 DEF ListEvents, Listing, remoteVars, storeVars, ctlVars, passVars,
              faultVars
<1>10. ASSUME NEW c \in Callers, UpsertEvents(c) PROVE TypeOK'
  BY <1>10 DEF UpsertEvents, remoteVars, ctlVars, passVars, repoVars, faultVars
<1>11. ASSUME NEW c \in Callers, UpsertSyncState(c) PROVE TypeOK'
  BY <1>11 DEF UpsertSyncState, LeaveRepo, remoteVars, ctlVars, faultVars
<1>12. ASSUME NEW c \in Callers, RepoFails(c) PROVE TypeOK'
  BY <1>12 DEF RepoFails, LeaveRepo, remoteVars, storeVars, ctlVars, faultVars
<1>13. ASSUME NEW c \in Callers, Record(c) PROVE TypeOK'
  BY <1>13 DEF Record, remoteVars, storeVars, passVars, repoVars, faultVars
<1>14. ASSUME NEW c \in Callers, Release(c) PROVE TypeOK'
  BY <1>14 DEF Release, LeavePass, remoteVars, storeVars, repoVars, faultVars
<1>15. ASSUME NEW c \in Callers, Panic(c) PROVE TypeOK'
  BY <1>15 DEF Panic, LeavePass, remoteVars, storeVars, ctlVars
<1>16. ASSUME NEW c \in Callers, Unwind(c) PROVE TypeOK'
  BY <1>16 DEF Unwind, remoteVars, storeVars, passVars, repoVars, faultVars
<1>17. ASSUME NEW p \in Procs, Crash(p) PROVE TypeOK'
  BY <1>17 DEF Crash, NoResult, remoteVars, storeVars
<1>18. CASE UNCHANGED vars
  BY <1>18 DEF vars
<1>19. QED
  BY <1>1, <1>2, <1>3, <1>4, <1>5, <1>6, <1>7, <1>8, <1>9, <1>10, <1>11,
     <1>12, <1>13, <1>14, <1>15, <1>16, <1>17, <1>18
     DEF Next, Trigger, Proceed

\* Every variable keeps its type, and a caller has a current repository exactly
\* between reading its cursor and leaving syncRepo.
THEOREM TypeCorrect == Spec => []TypeOK
  BY InitTypeOK, StepTypeOK, PTL DEF Spec

-----------------------------------------------------------------------------
(* The flag and the callers it admits. *)

\* Whatever a caller does between its check-and-set and its deferred release,
\* it stays between the two and leaves every flag alone.
LEMMA MidPass ==
  ASSUME TypeOK, NEW c \in Callers, Proceed(c) \/ Panic(c),
         ~Release(c), ~Unwind(c)
  PROVE  /\ inProgress' = inProgress
         /\ pc[c] \in Holding
         /\ \E x \in Holding : pc' = [pc EXCEPT ![c] = x]
<1> USE DEF TypeOK
<1>1. CASE Discover(c)
  BY <1>1 DEF Discover, ctlVars
<1>2. CASE DiscoverFails(c)
  BY <1>2 DEF DiscoverFails, ctlVars
<1>3. ASSUME NEW r \in Repos, GetSyncState(c, r) \/ GetSyncStateFails(c, r)
      PROVE  /\ inProgress' = inProgress
             /\ pc[c] \in Holding
             /\ \E x \in Holding : pc' = [pc EXCEPT ![c] = x]
  BY <1>3 DEF GetSyncState, GetSyncStateFails, ctlVars
<1>4. CASE ListNothing(c) \/ ListEvents(c)
  BY <1>4 DEF ListNothing, ListEvents, LeaveRepo, ctlVars
<1>5. CASE UpsertEvents(c) \/ UpsertSyncState(c) \/ RepoFails(c)
  BY <1>5 DEF UpsertEvents, UpsertSyncState, RepoFails, LeaveRepo, ctlVars
<1>6. CASE Record(c) \/ Panic(c)
  BY <1>6 DEF Record, Panic, ctlVars
<1>7. QED
  BY <1>1, <1>2, <1>3, <1>4, <1>5, <1>6 DEF Proceed

FlagInv == SyncExclusive /\ BusyFlagExact

LEMMA StepFlagInv == TypeOK /\ FlagInv /\ [Next]_vars => FlagInv'
<1> SUFFICES ASSUME TypeOK, FlagInv, [Next]_vars PROVE FlagInv'
  OBVIOUS
<1> USE DEF FlagInv, SyncExclusive, BusyFlagExact, TypeOK
<1>1. ASSUME NEW e \in Events, Push(e) PROVE FlagInv'
  BY <1>1 DEF Push, ctlVars
<1>2. ASSUME NEW c \in Callers, TriggerStart(c) PROVE FlagInv'
  BY <1>2 DEF TriggerStart, Free
<1>3. ASSUME NEW c \in Callers, TriggerConflict(c) PROVE FlagInv'
  BY <1>3 DEF TriggerConflict, ctlVars
<1>4. ASSUME NEW c \in Callers, Proceed(c) \/ Panic(c),
             ~Release(c), ~Unwind(c)
      PROVE FlagInv'
  <2>1. PICK x \in Holding : pc' = [pc EXCEPT ![c] = x]
    BY <1>4, MidPass
  <2>2. inProgress' = inProgress /\ pc[c] \in Holding
    BY <1>4, MidPass
  <2>3. \A d \in Callers : pc'[d] \in Holding <=> pc[d] \in Holding
    BY <2>1, <2>2
  <2>4. QED
    BY <2>2, <2>3
<1>5. ASSUME NEW c \in Callers, Release(c) PROVE FlagInv'
  BY <1>5 DEF Release
<1>6. ASSUME NEW c \in Callers, Unwind(c) PROVE FlagInv'
  BY <1>6 DEF Unwind
<1>7. ASSUME NEW p \in Procs, Crash(p) PROVE FlagInv'
  BY <1>7 DEF Crash
<1>8. CASE UNCHANGED vars
  BY <1>8 DEF vars
<1>9. QED
  BY <1>1, <1>2, <1>3, <1>4, <1>5, <1>6, <1>7, <1>8 DEF Next, Trigger

LEMMA FlagCorrect == Spec => []FlagInv
<1>1. Init => FlagInv
  BY DEF Init, FlagInv, SyncExclusive, BusyFlagExact
<1>2. QED
  BY <1>1, StepFlagInv, TypeCorrect, PTL DEF Spec

\* At most one caller of a process is inside Trigger's guarded section.
THEOREM SyncIsExclusive == Spec => []SyncExclusive
  BY FlagCorrect, PTL DEF FlagInv

\* The in-progress flag of a process is up exactly while one of its callers is
\* in that section, errors, panics and crashes included.
THEOREM BusyFlagIsExact == Spec => []BusyFlagExact
  BY FlagCorrect, PTL DEF FlagInv

-----------------------------------------------------------------------------
(* What the cursors stand on. *)

\* The steps that touch neither the store nor the locals of syncRepo.
Quiet(c) ==
    \/ Trigger(c) \/ Discover(c) \/ DiscoverFails(c) \/ Record(c)
    \/ Release(c) \/ Unwind(c) \/ \E r \in Repos : GetSyncStateFails(c, r)

InRepo == {"list", "upsert", "advance"}

LEMMA QuietSteps ==
  ASSUME TypeOK, NEW c \in Callers, Quiet(c)
  PROVE  /\ UNCHANGED <<github, late, cut, events, syncState, cur, since, batch>>
         /\ \A d \in Callers :
               pc'[d] = pc[d] \/ (pc[d] \notin InRepo /\ pc'[d] \notin InRepo)
<1> USE DEF TypeOK, InRepo, remoteVars, storeVars, repoVars
<1>1. CASE Trigger(c)
  BY <1>1 DEF Trigger, TriggerStart, TriggerConflict
<1>2. CASE Discover(c) \/ DiscoverFails(c)
  BY <1>2 DEF Discover, DiscoverFails
<1>3. CASE Record(c) \/ Release(c) \/ Unwind(c)
  BY <1>3 DEF Record, Release, Unwind
<1>4. CASE \E r \in Repos : GetSyncStateFails(c, r)
  BY <1>4 DEF GetSyncStateFails
<1>5. QED
  BY <1>1, <1>2, <1>3, <1>4 DEF Quiet

\* What syncRepo holds comes from GitHub, what it started from and every cursor
\* is 0 or the timestamp of a stored commit of the same repository.
BackedInv ==
    /\ events \subseteq github
    /\ \A c \in Callers : \A e \in batch[c] : e \in github /\ RepoOf[e] = cur[c]
    /\ \A c \in Callers : pc[c] = "advance" => batch[c] \subseteq events
    /\ \A c \in Callers : since[c] # 0 =>
          \E e \in events : RepoOf[e] = cur[c] /\ TS[e] = since[c]
    /\ CursorBacked

LEMMA StepBackedInv == TypeOK /\ BackedInv /\ [Next]_vars => BackedInv'
<1> SUFFICES ASSUME TypeOK, BackedInv, [Next]_vars PROVE BackedInv'
  OBVIOUS
<1> USE DEF BackedInv, CursorBacked, TypeOK
<1>1. ASSUME NEW e \in Events, Push(e) PROVE BackedInv'
  BY <1>1 DEF Push, storeVars, repoVars
<1>2. ASSUME NEW c \in Callers, Quiet(c) PROVE BackedInv'
  <2>1. UNCHANGED <<github, events, syncState, cur, since, batch>>
    BY <1>2, QuietSteps
  <2>2. \A d \in Callers : pc'[d] = "advance" => pc[d] = "advance"
    BY <1>2, QuietSteps DEF InRepo
  <2>3. QED
    BY <2>1, <2>2
<1>3. ASSUME NEW c \in Callers, NEW r \in Repos, GetSyncState(c, r)
      PROVE BackedInv'
  <2>1. batch[c] = {} \/ cur[c] \in Repos
    BY <1>3 DEF GetSyncState
  <2>2. batch[c] = {}
    BY <1>3, <2>1 DEF GetSyncState
  <2>3. UNCHANGED <<github, events, syncState, batch>>
    BY <1>3 DEF GetSyncState, remoteVars, storeVars
  <2>4. /\ cur'[c] = r /\ since'[c] = syncState[r] /\ pc'[c] = "list"
        /\ \A d \in Callers \ {c} : UNCHANGED <<pc[d], cur[d], since[d]>>
    BY <1>3 DEF GetSyncState
  <2>5. \A d \in Callers : \A e \in batch'[d] : e \in github /\ RepoOf[e] = cur'[d]
    BY <2>2, <2>3, <2>4
  <2>6. \A d \in Callers : pc'[d] = "advance" => batch'[d] \subseteq events
    BY <2>3, <2>4
  <2>7. ASSUME NEW d \in Callers, since'[d] # 0
        PROVE  \E e \in events : RepoOf[e] = cur'[d] /\ TS[e] = since'[d]
    <3>1. CASE d = c
      <4>1. cur'[d] = r /\ since'[d] = syncState[r]
        BY <2>4, <3>1
      <4>2. syncState[r] # 0
        BY <2>7, <4>1
      <4>3. PICK e \in events : RepoOf[e] = r /\ TS[e] = syncState[r]
        BY <4>2, SMTT(30), ZenonT(30)
      <4>4. QED
        BY <4>1, <4>3
    <3>2. CASE d # c
      <4>1. cur'[d] = cur[d] /\ since'[d] = since[d]
        BY <2>4, <3>2
      <4>2. QED
        BY <2>7, <4>1
    <3>3. QED
      BY <3>1, <3>2
  <2>8. QED
    BY <2>3, <2>5, <2>6, <2>7
<1>4. ASSUME NEW c \in Callers, ListNothing(c) \/ RepoFails(c) PROVE BackedInv'
  <2>1. UNCHANGED <<github, events, syncState>> /\ LeaveRepo(c)
    BY <1>4 DEF ListNothing, RepoFails, remoteVars, storeVars
  <2>2. QED
    BY <2>1, SMTT(30), ZenonT(30) DEF LeaveRepo
<1>5. ASSUME NEW c \in Callers, ListEvents(c) PROVE BackedInv'
  <2> USE <1>5 DEF ListEvents, Listing, remoteVars, storeVars
  <2>1. UNCHANGED <<github, events, syncState, cur, since>>
    OBVIOUS
  <2>2. \A d \in Callers : \A e \in batch'[d] : e \in github /\ RepoOf[e] = cur[d]
    OBVIOUS
  <2>3. \A d \in Callers :
           pc'[d] = "advance" => pc[d] = "advance" /\ batch'[d] = batch[d]
    OBVIOUS
  <2>4. QED
    BY <2>1, <2>2, <2>3
<1>6. ASSUME NEW c \in Callers, UpsertEvents(c) PROVE BackedInv'
  BY <1>6 DEF UpsertEvents, remoteVars, repoVars
<1>7. ASSUME NEW c \in Callers, UpsertSyncState(c) PROVE BackedInv'
  <2> USE DEF UpsertSyncState, LeaveRepo, remoteVars
  <2>1. PICK t \in {since[c]} \cup {TS[e] : e \in batch[c]} :
           syncState' = [syncState EXCEPT ![cur[c]] = t]
    BY <1>7
  <2>2. t # 0 => \E e \in events : RepoOf[e] = cur[c] /\ TS[e] = t
    BY <1>7, SMTT(30), ZenonT(30)
  <2>3. CursorBacked'
    BY <1>7, <2>1, <2>2
  <2>4. UNCHANGED <<github, events>>
    BY <1>7
  <2>5. /\ \A d \in Callers \ {c} :
              UNCHANGED <<pc[d], cur[d], since[d], batch[d]>>
        /\ since'[c] = 0 /\ batch'[c] = {}
    BY <1>7
  <2>6. \A d \in Callers : \A e \in batch'[d] : e \in github /\ RepoOf[e] = cur'[d]
    BY <2>5
  <2>7. \A d \in Callers : since'[d] # 0 =>
           \E e \in events : RepoOf[e] = cur'[d] /\ TS[e] = since'[d]
    <3>1. \A d \in Callers \ {c} : cur'[d] = cur[d] /\ since'[d] = since[d]
      BY <2>5
    <3>2. since'[c] = 0
      BY <2>5
    <3>3. ASSUME NEW d \in Callers, since'[d] # 0
          PROVE  \E e \in events : RepoOf[e] = cur'[d] /\ TS[e] = since'[d]
      <4>1. d # c /\ cur'[d] = cur[d] /\ since'[d] = since[d]
        BY <3>1, <3>2, <3>3
      <4>2. QED
        BY <3>3, <4>1
    <3>4. QED
      BY <3>3
  <2>8. \A d \in Callers : pc'[d] = "advance" => batch'[d] \subseteq events
    BY <2>5
  <2>9. QED
    BY <2>3, <2>4, <2>6, <2>7, <2>8
<1>8. ASSUME NEW c \in Callers, Panic(c) PROVE BackedInv'
  BY <1>8, SMTT(30), ZenonT(30) DEF Panic, remoteVars, storeVars
<1>9. ASSUME NEW p \in Procs, Crash(p) PROVE BackedInv'
  BY <1>9 DEF Crash, remoteVars, storeVars
<1>10. CASE UNCHANGED vars
  BY <1>10 DEF vars
<1>11. QED
  BY <1>1, <1>2, <1>3, <1>4, <1>5, <1>6, <1>7, <1>8, <1>9, <1>10
     DEF Next, Proceed, Quiet

LEMMA BackedCorrect == Spec => []BackedInv
<1>1. Init => BackedInv
  BY DEF Init, BackedInv, CursorBacked
<1>2. QED
  BY <1>1, StepBackedInv, TypeCorrect, PTL DEF Spec

\* A cursor is 0 or the timestamp of a stored commit of its repository.
THEOREM CursorIsBacked == Spec => []CursorBacked
  BY BackedCorrect, PTL DEF BackedInv

-----------------------------------------------------------------------------
(* Completeness below the cursor: what a cursor passes over is stored, or came *)
(* after a newer commit had been fetched, or did not fit its page.            *)

\* A page of something is something of it.
LEMMA PageNotEmpty ==
  ASSUME NEW L, NEW B, L # {}, IsPage(B, L)
  PROVE  B # {} /\ B \subseteq L
<1>1. CASE B = L
  BY <1>1
<1>2. CASE B \subseteq L /\ Cardinality(B) = PageSize
  <2>1. Cardinality({}) = 0
    BY FS_EmptySet
  <2>2. QED
    BY <1>2, <2>1
<1>3. QED
  BY <1>1, <1>2 DEF IsPage

\* A commit that is pushed and not late is at least as new as all that has been
\* fetched of its repository, stored or still held by some pass.
LEMMA PunctualPush ==
  ASSUME TypeOK, NEW e \in Events, Push(e), e \notin late'
  PROVE  \A f \in Events : RepoOf[f] = RepoOf[e] /\ f \in Fetched => TS[f] =< TS[e]
<1>1. ~ \E f \in Fetched : RepoOf[f] = RepoOf[e] /\ TS[e] < TS[f]
  BY DEF Push
<1>2. QED
  BY <1>1

\* A commit that syncRepo neither found stored nor was given, and that may not
\* be overlooked, is at least as new as all it knows, so no cursor it can write
\* passes over it.
GapInv ==
    /\ NoGap
    /\ \A c \in Callers : pc[c] \in InRepo =>
          \A e \in github \ Missable :
              RepoOf[e] = cur[c] /\ TS[e] < since[c] => e \in events
    /\ \A c \in Callers : pc[c] \in {"upsert", "advance"} =>
          /\ batch[c] # {}
          /\ \A e \in github \ Missable : RepoOf[e] = cur[c] =>
                \/ e \in events \cup batch[c]
                \/ \A f \in batch[c] : TS[f] =< TS[e]

LEMMA StepGapInv == TypeOK /\ BackedInv /\ GapInv /\ [Next]_vars => GapInv'
<1> SUFFICES ASSUME TypeOK, BackedInv, GapInv, [Next]_vars
             PROVE  GapInv'
  OBVIOUS
<1> USE DEF GapInv, NoGap, TypeOK, InRepo, Missable
<1>1. ASSUME NEW e \in Events, Push(e) PROVE GapInv'
  <2>1. /\ UNCHANGED <<cut, events, syncState, cur, since, batch, pc>>
        /\ github' = github \cup {e} /\ late \subseteq late'
    BY <1>1 DEF Push, storeVars, repoVars
  <2>2. CASE e \in late'
    BY <2>1, <2>2
  <2>3. CASE e \notin late'
    <3>1. \A f \in events : RepoOf[f] = RepoOf[e] => TS[f] =< TS[e]
      BY <1>1, <2>3, PunctualPush DEF Fetched
    <3>2. \A c \in Callers : \A f \in batch[c] : RepoOf[f] = RepoOf[e] => TS[f] =< TS[e]
      BY <1>1, <2>3, PunctualPush DEF Fetched
    <3>3. ~(TS[e] < syncState[RepoOf[e]])
      BY <3>1 DEF BackedInv, CursorBacked
    <3>4. \A c \in Callers : RepoOf[e] = cur[c] => ~(TS[e] < since[c])
      BY <3>1, SMTT(30), ZenonT(30) DEF BackedInv
    <3>5. \A c \in Callers : RepoOf[e] = cur[c] => \A f \in batch[c] : TS[f] =< TS[e]
      BY <3>2 DEF BackedInv
    <3>6. NoGap'
      BY <2>1, <3>3
    <3>7. QED
      BY <2>1, <3>4, <3>5, <3>6
  <2>4. QED
    BY <2>2, <2>3
<1>2. ASSUME NEW c \in Callers, Quiet(c) PROVE GapInv'
  <2>1. UNCHANGED <<github, late, cut, events, syncState, cur, since, batch>>
    BY <1>2, QuietSteps
  <2>2. \A d \in Callers : pc'[d] \in InRepo => pc'[d] = pc[d]
    BY <1>2, QuietSteps
  <2>3. QED
    BY <2>1, <2>2
<1>3. ASSUME NEW c \in Callers, NEW r \in Repos, GetSyncState(c, r) PROVE GapInv'
  BY <1>3 DEF GetSyncState, remoteVars, storeVars
<1>4. ASSUME NEW c \in Callers, ListNothing(c) \/ RepoFails(c) PROVE GapInv'
  <2>1. UNCHANGED <<github, late, cut, events, syncState>> /\ LeaveRepo(c)
    BY <1>4 DEF ListNothing, RepoFails, remoteVars, storeVars
  <2>2. QED
    BY <2>1 DEF LeaveRepo
<1>5. ASSUME NEW c \in Callers, ListEvents(c) PROVE GapInv'
  <2> USE DEF ListEvents, remoteVars, storeVars
  <2> DEFINE L == Listing(cur[c], since[c])
  <2>0. PICK B : /\ IsPage(B, L)
                 /\ batch' = [batch EXCEPT ![c] = B]
                 /\ cut' = cut \cup (L \ B)
    BY <1>5
  <2>1. batch'[c] = B /\ B # {}
    BY <1>5, <2>0, PageNotEmpty
  <2>2. UNCHANGED <<github, late, events, syncState, cur, since>>
    BY <1>5
  <2>3. \A d \in Callers \ {c} : pc'[d] = pc[d] /\ batch'[d] = batch[d]
    BY <1>5, <2>0
  <2>4. pc[c] = "list" /\ pc'[c] = "upsert"
    BY <1>5
  <2>5. \A e \in github \ Missable' : RepoOf[e] = cur[c] => e \in events \cup batch'[c]
    BY <2>0, <2>1, <2>2, <2>4 DEF Listing
  <2>6. NoGap' /\ Missable \subseteq Missable'
    BY <2>0, <2>2
  <2>7. QED
    BY <2>1, <2>2, <2>3, <2>4, <2>5, <2>6
<1>6. ASSUME NEW c \in Callers, UpsertEvents(c) PROVE GapInv'
  BY <1>6 DEF UpsertEvents, remoteVars, repoVars
<1>7. ASSUME NEW c \in Callers, UpsertSyncState(c) PROVE GapInv'
  <2> USE DEF UpsertSyncState, LeaveRepo, remoteVars
  <2>1. PICK t \in {since[c]} \cup {TS[e] : e \in batch[c]} :
           syncState' = [syncState EXCEPT ![cur[c]] = t]
    BY <1>7
  <2>2. \A e \in github \ Missable : RepoOf[e] = cur[c] /\ TS[e] < t => e \in events
    BY <1>7 DEF BackedInv
  <2>3. NoGap'
    BY <1>7, <2>1, <2>2
  <2>4. QED
    BY <1>7, <2>3
<1>8. ASSUME NEW c \in Callers, Panic(c) PROVE GapInv'
  BY <1>8 DEF Panic, remoteVars, storeVars
<1>9. ASSUME NEW p \in Procs, Crash(p) PROVE GapInv'
  BY <1>9 DEF Crash, remoteVars, storeVars
<1>10. CASE UNCHANGED vars
  BY <1>10 DEF vars
<1>11. QED
  BY <1>1, <1>2, <1>3, <1>4, <1>5, <1>6, <1>7, <1>8, <1>9, <1>10
     DEF Next, Proceed, Quiet

LEMMA GapCorrect == Spec => []GapInv
<1>1. Init => GapInv
  BY DEF Init, GapInv, NoGap, InRepo
<1>2. QED
  BY <1>1, StepGapInv, BackedCorrect, TypeCorrect, PTL DEF Spec

\* Of what GitHub has below a cursor nothing is missing but commits that came
\* after newer ones were fetched and commits that did not fit their page, with
\* any number of processes syncing into the database, failing and crashing.
THEOREM NothingMissedBelowCursor == Spec => []NoGap
  BY GapCorrect, PTL DEF GapInv

-----------------------------------------------------------------------------
(* What a pass that counts a repository as scanned has stored. *)

StoredInv ==
    /\ \A c \in Callers : seen[c] \subseteq github
    /\ ScannedMeansStored
    /\ \A c \in Callers : pc[c] \in {"upsert", "advance"} =>
          \A e \in seen[c] \ Missable : RepoOf[e] = cur[c] => e \in events \cup batch[c]

LEMMA StepStoredInv ==
  TypeOK /\ BackedInv /\ GapInv /\ StoredInv /\ [Next]_vars => StoredInv'
<1> SUFFICES ASSUME TypeOK, BackedInv, GapInv, StoredInv, [Next]_vars
             PROVE  StoredInv'
  OBVIOUS
<1> USE DEF StoredInv, ScannedMeansStored, TypeOK, Missable
<1>1. ASSUME NEW e \in Events, Push(e) PROVE StoredInv'
  BY <1>1 DEF Push, storeVars, passVars, repoVars
<1>2. ASSUME NEW c \in Callers, Trigger(c) PROVE StoredInv'
  <2> USE DEF Trigger, TriggerStart, TriggerConflict
  <2>1. UNCHANGED <<github, late, cut, events, seen, scanned, cur, batch>>
    BY <1>2 DEF remoteVars, storeVars, passVars, repoVars
  <2>2. \A d \in Callers : pc'[d] = pc[d] \/ pc'[d] = "discover"
    BY <1>2
  <2>3. QED
    BY <2>1, <2>2
<1>3. ASSUME NEW c \in Callers, Discover(c) PROVE StoredInv'
  BY <1>3 DEF Discover, remoteVars, storeVars, repoVars
<1>4. ASSUME NEW c \in Callers, DiscoverFails(c) \/ Record(c) PROVE StoredInv'
  <2>1. UNCHANGED <<github, late, cut, events, seen, scanned, cur, batch>>
    BY <1>4 DEF DiscoverFails, Record, remoteVars, storeVars, passVars, repoVars
  <2>2. pc' = [pc EXCEPT ![c] = "release"]
    BY <1>4 DEF DiscoverFails, Record
  <2>3. QED
    BY <2>1, <2>2
<1>5. ASSUME NEW c \in Callers, Release(c) PROVE StoredInv'
  BY <1>5 DEF Release, LeavePass, remoteVars, storeVars, repoVars
<1>6. ASSUME NEW c \in Callers, Unwind(c) PROVE StoredInv'
  BY <1>6 DEF Unwind, remoteVars, storeVars, passVars, repoVars
<1>7. ASSUME NEW c \in Callers, NEW r \in Repos, GetSyncState(c, r)
      PROVE StoredInv'
  BY <1>7 DEF GetSyncState, remoteVars, storeVars
<1>8. ASSUME NEW c \in Callers, NEW r \in Repos, GetSyncStateFails(c, r)
      PROVE StoredInv'
  BY <1>8 DEF GetSyncStateFails, remoteVars, storeVars, repoVars
<1>9. ASSUME NEW c \in Callers, ListNothing(c) PROVE StoredInv'
  <2> USE DEF ListNothing, LeaveRepo, remoteVars, storeVars
  <2>1. \A e \in github \ Missable : RepoOf[e] = cur[c] => e \in events
    BY <1>9 DEF Listing, GapInv, InRepo
  <2>2. QED
    BY <1>9, <2>1
<1>10. ASSUME NEW c \in Callers, ListEvents(c) PROVE StoredInv'
  <2> USE DEF ListEvents, remoteVars, storeVars, passVars
  <2> DEFINE L == Listing(cur[c], since[c])
  <2>1. PICK B : /\ IsPage(B, L)
                 /\ batch' = [batch EXCEPT ![c] = B]
                 /\ cut' = cut \cup (L \ B)
    BY <1>10
  <2>2. UNCHANGED <<github, late, events, seen, scanned, cur, since>>
    BY <1>10
  <2>3. \A e \in github \ Missable' : RepoOf[e] = cur[c] => e \in events \cup batch'[c]
    BY <1>10, <2>1, <2>2 DEF Listing, GapInv, InRepo
  <2>4. Missable \subseteq Missable'
    BY <2>1, <2>2
  <2>5. \A d \in Callers \ {c} : pc'[d] = pc[d] /\ batch'[d] = batch[d]
    BY <1>10, <2>1
  <2>6. QED
    BY <2>2, <2>3, <2>4, <2>5
<1>11. ASSUME NEW c \in Callers, UpsertEvents(c) PROVE StoredInv'
  BY <1>11 DEF UpsertEvents, remoteVars, passVars, repoVars
<1>12. ASSUME NEW c \in Callers, UpsertSyncState(c) PROVE StoredInv'
  <2> USE DEF UpsertSyncState, LeaveRepo, remoteVars
  <2>1. \A e \in seen[c] \ Missable : RepoOf[e] = cur[c] => e \in events
    BY <1>12 DEF BackedInv
  <2>2. QED
    BY <1>12, <2>1
<1>13. ASSUME NEW c \in Callers, RepoFails(c) PROVE StoredInv'
  BY <1>13 DEF RepoFails, LeaveRepo, remoteVars, storeVars
<1>14. ASSUME NEW c \in Callers, Panic(c) PROVE StoredInv'
  BY <1>14 DEF Panic, LeavePass, remoteVars, storeVars
<1>15. ASSUME NEW p \in Procs, Crash(p) PROVE StoredInv'
  BY <1>15 DEF Crash, remoteVars, storeVars
<1>16. CASE UNCHANGED vars
  BY <1>16 DEF vars
<1>17. QED
  BY <1>1, <1>2, <1>3, <1>4, <1>5, <1>6, <1>7, <1>8, <1>9, <1>10, <1>11,
     <1>12, <1>13, <1>14, <1>15, <1>16 DEF Next, Proceed

\* A repository that a pass counts as scanned has in the store all that GitHub
\* had of it when the pass began, but for what may be overlooked.
THEOREM ScannedIsStored == Spec => []ScannedMeansStored
<1>1. Init => StoredInv
  BY DEF Init, StoredInv, ScannedMeansStored
<1>2. StoredInv => ScannedMeansStored
  BY DEF StoredInv
<1>3. QED
  BY <1>1, <1>2, StepStoredInv, GapCorrect, BackedCorrect, TypeCorrect, PTL DEF Spec

-----------------------------------------------------------------------------
(* What a recorded result accounts for. *)

\* Between discovery and the end of the loop every repository is in exactly one
\* place: to do, being synced, scanned or failed.
Accounted(c) ==
    /\ todo[c] \cup scanned[c] \cup errors[c] \cup ({cur[c]} \ {NoRepo}) = Repos
    /\ scanned[c] \cap errors[c] = {}
    /\ cur[c] \notin todo[c] \cup scanned[c] \cup errors[c]
    /\ todo[c] \cap (scanned[c] \cup errors[c]) = {}
    /\ errors[c] \subseteq Flaky

AccountInv ==
    /\ \A c \in Callers : pc[c] \in InRepo \cup {"loop"} => Accounted(c)
    /\ EveryRepoAccounted

\* The result that Record puts down is a complete account.
LEMMA RecordAccounts ==
  ASSUME TypeOK, AccountInv, NEW c \in Callers, Record(c)
  PROVE  AccountInv'
<1>1. pc[c] = "loop" /\ todo[c] = {} /\ cur[c] = NoRepo
  BY DEF Record, TypeOK
<1>2. Accounted(c)
  BY <1>1 DEF AccountInv
<1>3. /\ scanned[c] \cup errors[c] = Repos
      /\ scanned[c] \cap errors[c] = {}
      /\ errors[c] \subseteq Flaky
  BY <1>1, <1>2 DEF Accounted
<1>4. lastResult'[ProcOf[c]] =
         [synced |-> TRUE, scanned |-> scanned[c], errors |-> errors[c]]
  BY DEF Record, TypeOK
<1>5. \A p \in Procs \ {ProcOf[c]} : lastResult'[p] = lastResult[p]
  BY DEF Record, TypeOK
<1>6. EveryRepoAccounted'
  <2>1. SUFFICES ASSUME NEW p \in Procs, lastResult'[p].synced
                 PROVE  /\ lastResult'[p].scanned \cup lastResult'[p].errors = Repos
                        /\ lastResult'[p].scanned \cap lastResult'[p].errors = {}
                        /\ lastResult'[p].errors \subseteq Flaky
    BY DEF EveryRepoAccounted
  <2>2. CASE p = ProcOf[c]
    BY <1>3, <1>4, <2>2
  <2>3. CASE p # ProcOf[c]
    BY <1>5, <2>1, <2>3 DEF AccountInv, EveryRepoAccounted
  <2>4. QED
    BY <2>2, <2>3
<1>7. UNCHANGED <<todo, scanned, errors, cur>> /\ pc'[c] = "release"
  BY DEF Record, TypeOK, passVars, repoVars
<1>8. \A d \in Callers \ {c} : pc'[d] = pc[d]
  BY DEF Record, TypeOK
<1>9. QED
  BY <1>6, <1>7, <1>8 DEF AccountInv, Accounted, InRepo

LEMMA StepAccountInv == TypeOK /\ AccountInv /\ [Next]_vars => AccountInv'
<1> SUFFICES ASSUME TypeOK, AccountInv, [Next]_vars PROVE AccountInv'
  OBVIOUS
<1> USE DEF AccountInv, Accounted, EveryRepoAccounted, TypeOK, InRepo
<1>1. ASSUME NEW e \in Events, Push(e) PROVE AccountInv'
  BY <1>1 DEF Push, ctlVars, passVars, repoVars
<1>2. ASSUME NEW c \in Callers, Trigger(c) PROVE AccountInv'
  BY <1>2 DEF Trigger, TriggerStart, TriggerConflict, ctlVars, passVars, repoVars
<1>3. ASSUME NEW c \in Callers, Discover(c) PROVE AccountInv'
  BY <1>3 DEF Discover, ctlVars, repoVars
<1>4. ASSUME NEW c \in Callers, DiscoverFails(c) PROVE AccountInv'
  BY <1>4 DEF DiscoverFails, ctlVars, passVars, repoVars
<1>5. ASSUME NEW c \in Callers, NEW r \in Repos,
             GetSyncState(c, r) \/ GetSyncStateFails(c, r)
      PROVE AccountInv'
  <2> USE DEF GetSyncState, GetSyncStateFails, ctlVars, repoVars
  <2>1. UNCHANGED <<lastResult, scanned>>
    BY <1>5
  <2>2. Accounted(c)'
    <3>0. pc[c] = "loop" /\ r \in todo[c]
      BY <1>5
    <3>1. cur[c] = NoRepo /\ Accounted(c)
      <4>1. cur[c] \in Repos \cup {NoRepo} /\ ~(cur[c] \in Repos)
        BY <3>0
      <4>2. Accounted(c)
        BY <3>0
      <4>3. QED
        BY <4>1, <4>2
    <3>2. CASE GetSyncState(c, r)
      <4>1. /\ todo'[c] = todo[c] \ {r} /\ cur'[c] = r
            /\ scanned'[c] = scanned[c] /\ errors'[c] = errors[c]
        BY <3>2
      <4>2. QED
        BY <3>0, <3>1, <4>1
    <3>3. CASE GetSyncStateFails(c, r)
      <4>1. /\ todo'[c] = todo[c] \ {r} /\ cur'[c] = cur[c]
            /\ scanned'[c] = scanned[c] /\ errors'[c] = errors[c] \cup {r}
            /\ r \in Flaky
        BY <3>3
      <4>2. QED
        BY <3>0, <3>1, <4>1
    <3>4. QED
      BY <1>5, <3>2, <3>3
  <2>3. \A d \in Callers \ {c} :
           UNCHANGED <<pc[d], todo[d], errors[d], cur[d]>>
    BY <1>5
  <2>4. QED
    BY <2>1, <2>2, <2>3
<1>6. ASSUME NEW c \in Callers,
             ListNothing(c) \/ UpsertSyncState(c) \/ RepoFails(c)
      PROVE AccountInv'
  <2> USE DEF ListNothing, UpsertSyncState, RepoFails, LeaveRepo, ctlVars
  <2>1. UNCHANGED <<lastResult, todo>>
    BY <1>6
  <2>2. cur[c] \in Repos /\ pc[c] \in InRepo
    BY <1>6
  <2>3. Accounted(c)'
    <3>1. CASE RepoFails(c)
      BY <2>1, <2>2, <3>1
    <3>2. CASE ListNothing(c) \/ UpsertSyncState(c)
      BY <2>1, <2>2, <3>2
    <3>3. QED
      BY <1>6, <3>1, <3>2
  <2>4. \A d \in Callers \ {c} :
           UNCHANGED <<pc[d], scanned[d], errors[d], cur[d]>>
    BY <1>6
  <2>5. QED
    BY <2>1, <2>3, <2>4
<1>7. ASSUME NEW c \in Callers, ListEvents(c) \/ UpsertEvents(c)
      PROVE AccountInv'
  <2>1. UNCHANGED <<todo, scanned, errors, cur, lastResult>>
    BY <1>7 DEF ListEvents, UpsertEvents, ctlVars, passVars, repoVars
  <2>2. \A d \in Callers : pc'[d] \in InRepo \cup {"loop"} =>
                              pc[d] \in InRepo \cup {"loop"}
    BY <1>7 DEF ListEvents, UpsertEvents
  <2>3. QED
    BY <2>1, <2>2
<1>8. ASSUME NEW c \in Callers, Record(c) PROVE AccountInv'
  BY <1>8, RecordAccounts
<1>9. ASSUME NEW c \in Callers, Release(c) \/ Panic(c) PROVE AccountInv'
  <2> USE DEF Release, Panic, LeavePass, ctlVars, repoVars
  <2>1. lastResult' = lastResult /\ pc'[c] \in {"idle", "unwind"}
    BY <1>9
  <2>2. \A d \in Callers \ {c} :
           UNCHANGED <<pc[d], todo[d], scanned[d], errors[d], cur[d]>>
    BY <1>9
  <2>3. QED
    BY <2>1, <2>2
<1>10. ASSUME NEW c \in Callers, Unwind(c) PROVE AccountInv'
  BY <1>10 DEF Unwind, passVars, repoVars
<1>11. ASSUME NEW p \in Procs, Crash(p) PROVE AccountInv'
  BY <1>11 DEF Crash, NoResult
<1>12. CASE UNCHANGED vars
  BY <1>12 DEF vars
<1>13. QED
  BY <1>1, <1>2, <1>3, <1>4, <1>5, <1>6, <1>7, <1>8, <1>9, <1>10, <1>11, <1>12
     DEF Next, Proceed

\* A recorded result accounts for every repository and blames none that did not
\* fail itself.
THEOREM ResultAccounts == Spec => []EveryRepoAccounted
<1>1. Init => AccountInv
  BY DEF Init, AccountInv, EveryRepoAccounted, NoResult, InRepo
<1>2. AccountInv => EveryRepoAccounted
  BY DEF AccountInv
<1>3. QED
  BY <1>1, <1>2, StepAccountInv, TypeCorrect, PTL DEF Spec

-----------------------------------------------------------------------------
(* One process. *)

OneProcess == \A c, d \in Callers : ProcOf[c] = ProcOf[d]

\* Nobody else writes the cursor a pass started from.
SinceInv ==
    \A c \in Callers : pc[c] \in InRepo => since[c] = syncState[cur[c]]

LEMMA StepSinceInv ==
  OneProcess => (TypeOK /\ FlagInv /\ SinceInv /\ [Next]_vars
                    => SinceInv' /\ \A r \in Repos : syncState[r] =< syncState'[r])
<1> SUFFICES ASSUME OneProcess, TypeOK, FlagInv, SinceInv, [Next]_vars
             PROVE  SinceInv' /\ \A r \in Repos : syncState[r] =< syncState'[r]
  OBVIOUS
<1> DEFINE Goal == SinceInv' /\ \A r \in Repos : syncState[r] =< syncState'[r]
<1> USE DEF SinceInv, TypeOK, InRepo
<1>1. ASSUME NEW e \in Events, Push(e) PROVE Goal
  BY <1>1 DEF Push, storeVars, repoVars
<1>2. ASSUME NEW c \in Callers, Quiet(c) PROVE Goal
  <2>1. UNCHANGED <<syncState, cur, since>>
    BY <1>2, QuietSteps
  <2>2. \A d \in Callers : pc'[d] \in InRepo => pc'[d] = pc[d]
    BY <1>2, QuietSteps
  <2>3. QED
    BY <2>1, <2>2
<1>3. ASSUME NEW c \in Callers, NEW r \in Repos, GetSyncState(c, r) PROVE Goal
  BY <1>3 DEF GetSyncState, storeVars
<1>4. ASSUME NEW c \in Callers, ListNothing(c) \/ RepoFails(c) PROVE Goal
  <2>1. syncState' = syncState /\ LeaveRepo(c)
    BY <1>4 DEF ListNothing, RepoFails, storeVars
  <2>2. QED
    BY <2>1 DEF LeaveRepo
<1>5. ASSUME NEW c \in Callers, ListEvents(c) \/ UpsertEvents(c) PROVE Goal
  <2>1. UNCHANGED <<syncState, cur, since>>
    BY <1>5 DEF ListEvents, UpsertEvents, storeVars, repoVars
  <2>2. \A d \in Callers : pc'[d] \in InRepo => pc[d] \in InRepo
    BY <1>5 DEF ListEvents, UpsertEvents
  <2>3. QED
    BY <2>1, <2>2
<1>6. ASSUME NEW c \in Callers, UpsertSyncState(c) PROVE Goal
  <2> USE DEF UpsertSyncState, LeaveRepo, IsLatest
  <2>1. \A d \in Callers \ {c} : pc'[d] \notin InRepo
    BY <1>6 DEF OneProcess, FlagInv, SyncExclusive
  <2>2. SinceInv'
    BY <1>6, <2>1
  <2>3. \A r \in Repos : syncState[r] =< syncState'[r]
    BY <1>6
  <2>4. QED
    BY <2>2, <2>3
<1>7. ASSUME NEW c \in Callers, Panic(c) PROVE Goal
  BY <1>7 DEF Panic, storeVars
<1>8. ASSUME NEW p \in Procs, Crash(p) PROVE Goal
  BY <1>8 DEF Crash, storeVars
<1>9. CASE UNCHANGED vars
  BY <1>9 DEF vars
<1>10. QED
  BY <1>1, <1>2, <1>3, <1>4, <1>5, <1>6, <1>7, <1>8, <1>9
     DEF Next, Proceed, Quiet

\* With one process on the database no step moves a cursor back.
THEOREM CursorNeverMovesBack == ASSUME OneProcess PROVE Spec => CursorNeverBack
<1>1. Init => SinceInv
  BY DEF Init, SinceInv, InRepo
<1>2. TypeOK /\ FlagInv /\ SinceInv /\ [Next]_vars
         => SinceInv' /\ \A r \in Repos : syncState[r] =< syncState'[r]
  BY StepSinceInv
<1>3. QED
  BY <1>1, <1>2, FlagCorrect, TypeCorrect, PTL DEF Spec, CursorNeverBack

-----------------------------------------------------------------------------
(* The sync implements the mirror. *)

\* Every step of GhSync is a step of EventMirror or changes none of its
\* variables: a push publishes, a page that is not the whole listing overlooks,
\* an upsert stores, an advance moves the cursor onto a stored commit below
\* which nothing is missing that may not be.
LEMMA StepMirrors ==
  TypeOK /\ BackedInv /\ GapInv /\ [Next]_vars => [Mirror!Next]_(Mirror!mirrorVars)
<1> SUFFICES ASSUME TypeOK, BackedInv, GapInv, [Next]_vars
             PROVE  Mirror!Next \/ UNCHANGED <<github, events, syncState, Missable>>
  BY DEF Mirror!mirrorVars
<1> USE DEF TypeOK, InRepo
<1>1. ASSUME NEW e \in Events, Push(e) PROVE Mirror!Next
  <2>1. /\ e \notin github /\ github' = github \cup {e}
        /\ UNCHANGED <<cut, events, syncState>>
    BY <1>1 DEF Push, storeVars
  <2>2. CASE \E f \in Fetched : RepoOf[f] = RepoOf[e] /\ TS[e] < TS[f]
    <3>1. Missable' = Missable \cup {e}
      BY <1>1, <2>1, <2>2 DEF Push, Missable
    <3>2. Mirror!Overtaken(e)
      BY <2>2 DEF Mirror!Overtaken, Mirror!EventsOf, Fetched, BackedInv
    <3>3. Mirror!Publish(e)
      BY <2>1, <3>1, <3>2 DEF Mirror!Publish
    <3>4. QED
      BY <3>3 DEF Mirror!Next
  <2>3. CASE ~ \E f \in Fetched : RepoOf[f] = RepoOf[e] /\ TS[e] < TS[f]
    <3>1. Missable' = Missable
      BY <1>1, <2>1, <2>3 DEF Push, Missable
    <3>2. \A f \in events : RepoOf[f] = RepoOf[e] => TS[f] =< TS[e]
      BY <2>3 DEF Fetched
    <3>3. syncState[RepoOf[e]] =< TS[e]
      BY <3>2 DEF BackedInv, CursorBacked
    <3>4. Mirror!Publish(e)
      BY <2>1, <3>1, <3>3 DEF Mirror!Publish
    <3>5. QED
      BY <3>4 DEF Mirror!Next
  <2>4. QED
    BY <2>2, <2>3
<1>2. ASSUME NEW c \in Callers, Quiet(c)
      PROVE UNCHANGED <<github, events, syncState, Missable>>
  BY <1>2, QuietSteps DEF Missable
<1>3. ASSUME NEW c \in Callers,
             \/ \E r \in Repos : GetSyncState(c, r)
             \/ ListNothing(c) \/ RepoFails(c) \/ Panic(c)
      PROVE UNCHANGED <<github, events, syncState, Missable>>
  BY <1>3 DEF GetSyncState, ListNothing, RepoFails, Panic,
              remoteVars, storeVars, Missable
<1>4. ASSUME NEW c \in Callers, ListEvents(c)
      PROVE Mirror!Next \/ UNCHANGED <<github, events, syncState, Missable>>
  <2> DEFINE L == Listing(cur[c], since[c])
  <2>1. PICK B : IsPage(B, L) /\ cut' = cut \cup (L \ B)
    BY <1>4 DEF ListEvents
  <2>2. UNCHANGED <<github, late, events, syncState>> /\ cur[c] \in Repos
    BY <1>4 DEF ListEvents, storeVars
  <2>3. L \subseteq Mirror!EventsOf(cur[c]) \cap github
    BY DEF Listing, Mirror!EventsOf
  <2>4. CASE B = L
    BY <2>1, <2>2, <2>4 DEF Missable
  <2>5. CASE /\ B \subseteq L /\ Cardinality(B) = PageSize
             /\ \A e \in B, f \in L \ B : TS[f] =< TS[e]
    <3>1. Mirror!Overlook(cur[c], B, L \ B)
      <4>1. Missable' = Missable \cup (L \ B)
        BY <2>1, <2>2 DEF Missable
      <4>2. /\ B \cup (L \ B) \subseteq github \cap Mirror!EventsOf(cur[c])
            /\ B \cap (L \ B) = {}
        BY <2>3, <2>5
      <4>3. B \in {P \in SUBSET Events : Cardinality(P) = PageSize}
        BY <2>3, <2>5 DEF Mirror!EventsOf
      <4>4. QED
        BY <2>2, <2>5, <4>1, <4>2, <4>3 DEF Mirror!Overlook
    <3>2. /\ B \in {P \in SUBSET Events : Cardinality(P) = PageSize}
          /\ L \ B \in SUBSET Events
      BY <2>3, <2>5 DEF Mirror!EventsOf
    <3>3. QED
      BY <2>2, <3>1, <3>2 DEF Mirror!Next
  <2>6. QED
    BY <2>1, <2>4, <2>5 DEF IsPage
<1>5. ASSUME NEW c \in Callers, UpsertEvents(c) PROVE Mirror!Next
  <2>1. batch[c] \in SUBSET Events /\ batch[c] \subseteq github
    BY DEF BackedInv
  <2>2. Mirror!Store(batch[c])
    BY <1>5, <2>1 DEF UpsertEvents, Mirror!Store, remoteVars, Missable
  <2>3. QED
    BY <2>1, <2>2 DEF Mirror!Next
<1>6. ASSUME NEW c \in Callers, UpsertSyncState(c)
      PROVE Mirror!Next \/ UNCHANGED <<github, events, syncState, Missable>>
  <2> USE DEF UpsertSyncState, remoteVars
  <2>1. PICK t \in {since[c]} \cup {TS[e] : e \in batch[c]} :
           /\ IsLatest(t, since[c], batch[c])
           /\ syncState' = [syncState EXCEPT ![cur[c]] = t]
    BY <1>6
  <2>2. \A e \in github \ Missable : RepoOf[e] = cur[c] /\ TS[e] < t => e \in events
    BY <1>6, <2>1 DEF BackedInv, GapInv
  <2>3. cur[c] \in Repos /\ UNCHANGED <<github, events, Missable>>
    BY <1>6 DEF Missable
  <2>4. CASE \E e \in events : RepoOf[e] = cur[c] /\ TS[e] = t
    <3>1. PICK e \in events : RepoOf[e] = cur[c] /\ TS[e] = t
      BY <2>4
    <3>2. Mirror!MoveCursor(cur[c], e)
      BY <2>1, <2>2, <2>3, <3>1
         DEF Mirror!MoveCursor, Mirror!MirroredBelow, Mirror!EventsOf
    <3>3. QED
      BY <2>3, <3>1, <3>2 DEF Mirror!Next
  <2>5. CASE ~ \E e \in events : RepoOf[e] = cur[c] /\ TS[e] = t
    <3>1. t = since[c] /\ since[c] = 0
      BY <1>6, <2>1, <2>5 DEF BackedInv
    <3>2. PICK e \in batch[c] : TS[e] =< t
      BY <1>6, <2>1 DEF GapInv, IsLatest
    <3>3. TS[e] = t /\ e \in events /\ RepoOf[e] = cur[c]
      BY <1>6, <3>1, <3>2 DEF BackedInv
    <3>4. QED
      BY <2>5, <3>3
  <2>6. QED
    BY <2>4, <2>5
<1>7. ASSUME NEW p \in Procs, Crash(p)
      PROVE UNCHANGED <<github, events, syncState, Missable>>
  BY <1>7 DEF Crash, remoteVars, storeVars, Missable
<1>8. CASE UNCHANGED vars
  BY <1>8 DEF vars, Missable
<1>9. QED
  BY <1>1, <1>2, <1>3, <1>4, <1>5, <1>6, <1>7, <1>8 DEF Next, Proceed, Quiet

\* The sync, its concurrent processes, its failures and its crashes implement
\* the abstract mirror, for every page size and every order of author dates.
THEOREM SyncImplementsMirror == Spec => MirrorSpec
<1>1. Init => Mirror!Init
  BY DEF Init, Mirror!Init, Missable
<1>2. QED
  BY <1>1, StepMirrors, GapCorrect, BackedCorrect, TypeCorrect, PTL
     DEF Spec, MirrorSpec, Mirror!Spec

=============================================================================
