------------------------ MODULE ServiceManagerProofs ------------------------
(***************************************************************************)
(* Theorems about ServiceManager for every set of services, every          *)
(* dependency graph, cyclic or not, and any number of retries.             *)
(***************************************************************************)
EXTENDS ServiceManager, TLAPS

USE ServicesAssumption DEF Stoppers

-----------------------------------------------------------------------------
(* The inductive invariants. *)

\* Run's program counter before any service has been launched.
Early == {"idle", "context", "order", "lock"}

\* The groups partition what topoSort has placed, and dependencies lie in
\* earlier groups; started lags one behind gi.
PlaceInv ==
    /\ started = gi - 1
    /\ rpc \in Early => gi = 1
    /\ rpc \in {"idle", "context"} => groups = <<>> /\ placed = {}
    /\ rpc = "ready" => gi =< Len(groups)
    /\ \A i \in 1 .. Len(groups) : groups[i] \subseteq placed
    /\ \A s \in placed : \E i \in 1 .. Len(groups) : s \in groups[i]
    /\ \A i, j \in 1 .. Len(groups) : i # j => groups[i] \cap groups[j] = {}
    /\ \A i \in 1 .. Len(groups) : \A s \in groups[i] : \A d \in deps[s] \cap made :
          \E j \in 1 .. Len(groups) : j < i /\ d \in groups[j]

\* Only one Stop is inside stopOnce, and it never has more groups left than are
\* recorded.
InOnce(t) == stp[t] \in {"lock", "group", "groupwait"}

StopIdxInv ==
    /\ stopIdx \in 0 .. started
    /\ \A t \in Stoppers : InOnce(t) => once = "held"
    /\ \A t, u \in Stoppers : InOnce(t) /\ InOnce(u) => t = u
    /\ \A t \in Stoppers : stp[t] = "groupwait" => stopIdx > 0

\* Exactly the services of the groups up to gi have a goroutine, and those of
\* the groups before gi are ready unless the shutdown has begun.
Reached(i) == i < gi \/ (i = gi /\ rpc = "ready")

LaunchInv ==
    /\ \A s \in Services : svc[s] # "off" =>
          \E i \in 1 .. Len(groups) : Reached(i) /\ s \in groups[i]
    /\ \A i \in 1 .. Len(groups) : Reached(i) =>
          \A s \in groups[i] \cap Services : svc[s] # "off"
    /\ \A i \in 1 .. Len(groups) : i < gi =>
          \A s \in groups[i] \cap Notifiers : s \in ready \/ CtxDone

\* After the channel is closed and after Run has returned nobody is alive.
QuietInv ==
    /\ errCh = "closed" => rpc = "returned"
    /\ rpc = "returned" => \A s \in Services : ~Alive(s)

\* The context is cancelled by a Stop only, and by Run's own Stop only when the
\* result is decided.
AskedInv ==
    /\ cancelled => stp["external"] # "idle" \/ rpc \in {"stop", "join", "returned"}
    /\ result = "nil" => parentDone \/ stp["external"] # "idle"

SomeExhausted == \E s \in made \ Allowed : attempts[s] = MaxRetries[s] + 1

\* How often a service has failed in each state of its goroutine.
AttemptsInv ==
    /\ \A s \in Services :
          /\ svc[s] = "off" => attempts[s] = 0
          /\ svc[s] \in {"launched", "running", "waiting"} => attempts[s] =< MaxRetries[s]
          /\ svc[s] = "failing" => attempts[s] = MaxRetries[s] + 1
    /\ errCh = "full" => SomeExhausted
    /\ result = "failed" => SomeExhausted

-----------------------------------------------------------------------------
(* Types and groups. *)

MainInv == TypeOK /\ PlaceInv /\ StopIdxInv

LEMMA InitMainInv == Init => MainInv
<1> SUFFICES ASSUME Init PROVE MainInv
  OBVIOUS
<1> USE DEF Init
<1>1. groups \in Seq(SUBSET Services) /\ Len(groups) = 0
  OBVIOUS
<1>2. TypeOK
  <2>1. /\ deps \in DepGraphs /\ made \subseteq Services /\ placed \subseteq made
        /\ gi \in 1 .. Len(groups) + 1 /\ started \in 0 .. Len(groups)
        /\ stopIdx \in 0 .. started
    BY <1>1
  <2>2. QED
    BY <1>1, <2>1 DEF TypeOK
<1>3. PlaceInv
  BY <1>1 DEF PlaceInv, Early
<1>4. StopIdxInv
  BY DEF StopIdxInv, InOnce
<1>5. QED
  BY <1>2, <1>3, <1>4 DEF MainInv

LEMMA StepTypeOK == MainInv /\ [Next]_vars => TypeOK'
<1> SUFFICES ASSUME MainInv, [Next]_vars PROVE TypeOK'
  OBVIOUS
<1> USE DEF MainInv, TypeOK, PlaceInv, StopIdxInv, InOnce, runVars, svcVars, stopVars
<1>1. CASE Instantiate
  BY <1>1 DEF Instantiate
<1>2. CASE FactoryFails
  BY <1>2 DEF FactoryFails
<1>3. CASE Prepare
  BY <1>3 DEF Prepare
<1>4. CASE SortGroup
  BY <1>4 DEF SortGroup, Placeable
<1>5. CASE SortDone
  BY <1>5 DEF SortDone
<1>6. CASE LockGroups
  BY <1>6 DEF LockGroups
<1>7. CASE LaunchGroup
  BY <1>7 DEF LaunchGroup, Group
<1>8. CASE AppendGroup
  BY <1>8 DEF AppendGroup, GroupReady, Group
<1>9. CASE UnlockGroups
  BY <1>9 DEF UnlockGroups
<1>10. CASE SelectDone
  BY <1>10 DEF SelectDone
<1>11. CASE SelectFailed
  BY <1>11 DEF SelectFailed
<1>12. CASE AwaitServices
  BY <1>12 DEF AwaitServices
<1>13. CASE Return
  BY <1>13 DEF Return
<1>14. ASSUME NEW s \in Services, Begin(s) PROVE TypeOK'
  BY <1>14 DEF Begin, Set
<1>15. ASSUME NEW s \in Services, SignalReady(s) PROVE TypeOK'
  BY <1>15 DEF SignalReady
<1>16. ASSUME NEW s \in Services, ExitCleanly(s) PROVE TypeOK'
  BY <1>16 DEF ExitCleanly, Set
<1>17. ASSUME NEW s \in Services, Fail(s) PROVE TypeOK'
  <2>1. \E v \in {"exited", "waiting", "failing"} : svc' = [svc EXCEPT ![s] = v]
    BY <1>17 DEF Fail, Set
  <2>2. svc' \in [Services -> {"off", "launched", "running", "waiting", "failing",
                               "exited"}]
    BY <2>1
  <2>3. attempts' \in [Services -> Nat]
    BY <1>17 DEF Fail
  <2>4. QED
    BY <1>17, <2>2, <2>3 DEF Fail
<1>18. ASSUME NEW s \in Services, Retry(s) PROVE TypeOK'
  <2>1. svc' = [svc EXCEPT ![s] = "running"] \/ svc' = [svc EXCEPT ![s] = "exited"]
    BY <1>18 DEF Retry, Set
  <2>2. svc' \in [Services -> {"off", "launched", "running", "waiting", "failing",
                               "exited"}]
    BY <2>1
  <2>3. QED
    BY <1>18, <2>2 DEF Retry
<1>19. ASSUME NEW s \in Services, HandleError(s) PROVE TypeOK'
  BY <1>19 DEF HandleError, Set
<1>20. ASSUME NEW s \in Services, ServiceStops(s) PROVE TypeOK'
  BY <1>20 DEF ServiceStops
<1>21. ASSUME NEW t \in Stoppers, StopCancel(t) PROVE TypeOK'
  BY <1>21 DEF StopCancel, Step
<1>22. ASSUME NEW t \in Stoppers, StopOnce(t) PROVE TypeOK'
  BY <1>22 DEF StopOnce, Step
<1>23. ASSUME NEW t \in Stoppers, StopLock(t) PROVE TypeOK'
  BY <1>23 DEF StopLock, Step
<1>24. ASSUME NEW t \in Stoppers, StopGroup(t) PROVE TypeOK'
  BY <1>24 DEF StopGroup, Step, Group
<1>25. ASSUME NEW t \in Stoppers, StopGroupDone(t) PROVE TypeOK'
  BY <1>25 DEF StopGroupDone, Step
<1>26. ASSUME NEW t \in Stoppers, StopEnd(t) PROVE TypeOK'
  BY <1>26 DEF StopEnd, Step
<1>27. CASE ParentCancels
  BY <1>27 DEF ParentCancels
<1>28. CASE UNCHANGED vars
  BY <1>28 DEF vars
<1>29. QED
  BY <1>1, <1>2, <1>3, <1>4, <1>5, <1>6, <1>7, <1>8, <1>9, <1>10, <1>11,
     <1>12, <1>13, <1>14, <1>15, <1>16, <1>17, <1>18, <1>19, <1>20, <1>21,
     <1>22, <1>23, <1>24, <1>25, <1>26, <1>27, <1>28
     DEF Next, RunStep, ServiceStep, StopStep

\* What Append does to the groups, index by index.
LEMMA AppendIndex ==
  ASSUME NEW S, NEW q \in Seq(S), NEW x \in S
  PROVE  /\ Len(q) \in Nat /\ Len(Append(q, x)) = Len(q) + 1
         /\ \A i \in 1 .. Len(q) : Append(q, x)[i] = q[i]
         /\ Append(q, x)[Len(q) + 1] = x
  OBVIOUS

\* A turn of topoSort keeps the groups a partition of what is placed, with every
\* dependency in an earlier group.
LEMMA SortGroupPlaces ==
  ASSUME TypeOK, PlaceInv, SortGroup
  PROVE  /\ \A i \in 1 .. Len(groups') : groups'[i] \subseteq placed'
         /\ \A s \in placed' : \E i \in 1 .. Len(groups') : s \in groups'[i]
         /\ \A i, j \in 1 .. Len(groups') : i # j => groups'[i] \cap groups'[j] = {}
         /\ \A i \in 1 .. Len(groups') : \A s \in groups'[i] :
               \A d \in deps'[s] \cap made' :
                  \E j \in 1 .. Len(groups') : j < i /\ d \in groups'[j]
<1> DEFINE n == Len(groups)
<1>1. /\ n \in Nat /\ Len(groups') = n + 1
      /\ \A i \in 1 .. n : groups'[i] = groups[i]
      /\ groups'[n + 1] = Placeable
  <2>1. groups \in Seq(SUBSET Services) /\ Placeable \in SUBSET Services
    BY DEF TypeOK, Placeable
  <2>2. groups' = Append(groups, Placeable)
    BY DEF SortGroup
  <2>3. QED
    BY <2>1, <2>2, AppendIndex
<1>2. placed' = placed \cup Placeable /\ deps' = deps /\ made' = made
  BY DEF SortGroup
<1> HIDE DEF n
<1>3. \A i \in 1 .. n + 1 : i \in 1 .. n \/ i = n + 1
  BY <1>1
<1>4. /\ \A i \in 1 .. n : groups[i] \subseteq placed
      /\ \A s \in placed : \E i \in 1 .. n : s \in groups[i]
      /\ \A i, j \in 1 .. n : i # j => groups[i] \cap groups[j] = {}
      /\ \A i \in 1 .. n : \A s \in groups[i] : \A d \in deps[s] \cap made :
            \E j \in 1 .. n : j < i /\ d \in groups[j]
  BY DEF PlaceInv, n
<1>5. /\ Placeable \cap placed = {}
      /\ \A s \in Placeable : deps[s] \cap made \subseteq placed
  BY DEF Placeable
<1>6. 1 .. n \subseteq 1 .. n + 1 /\ n + 1 \in 1 .. n + 1
  BY <1>1
<1>7. \A i \in 1 .. Len(groups') : groups'[i] \subseteq placed'
  BY <1>1, <1>2, <1>3, <1>4
<1>8. \A s \in placed' : \E i \in 1 .. Len(groups') : s \in groups'[i]
  <2> SUFFICES ASSUME NEW s \in placed'
               PROVE  \E i \in 1 .. n + 1 : s \in groups'[i]
    BY <1>1
  <2>1. CASE s \in Placeable
    BY <2>1, <1>1, <1>6
  <2>2. CASE s \in placed
    <3>1. PICK i \in 1 .. n : s \in groups[i]
      BY <2>2, <1>4
    <3>2. QED
      BY <3>1, <1>1, <1>6
  <2>3. QED
    BY <1>2, <2>1, <2>2
<1>9. \A i, j \in 1 .. Len(groups') : i # j => groups'[i] \cap groups'[j] = {}
  <2> SUFFICES ASSUME NEW i \in 1 .. n + 1, NEW j \in 1 .. n + 1, i # j
               PROVE  groups'[i] \cap groups'[j] = {}
    BY <1>1
  <2>1. CASE i \in 1 .. n /\ j \in 1 .. n
    BY <2>1, <1>1, <1>4
  <2>2. CASE i = n + 1 /\ j \in 1 .. n
    BY <2>2, <1>1, <1>4, <1>5
  <2>3. CASE j = n + 1 /\ i \in 1 .. n
    BY <2>3, <1>1, <1>4, <1>5
  <2>4. QED
    BY <1>3, <2>1, <2>2, <2>3
<1>10. \A i \in 1 .. Len(groups') : \A s \in groups'[i] :
          \A d \in deps'[s] \cap made' :
             \E j \in 1 .. Len(groups') : j < i /\ d \in groups'[j]
  <2> SUFFICES ASSUME NEW i \in 1 .. n + 1, NEW s \in groups'[i],
                      NEW d \in deps[s] \cap made
               PROVE  \E j \in 1 .. n + 1 : j < i /\ d \in groups'[j]
    BY <1>1, <1>2
  <2>1. CASE i \in 1 .. n
    <3>1. PICK j \in 1 .. n : j < i /\ d \in groups[j]
      BY <2>1, <1>1, <1>4
    <3>2. QED
      BY <3>1, <1>1, <1>6
  <2>2. CASE i = n + 1
    <3>1. d \in placed
      BY <2>2, <1>1, <1>5
    <3>2. PICK j \in 1 .. n : d \in groups[j]
      BY <3>1, <1>4
    <3>3. j < i
      BY <2>2, <1>1
    <3>4. QED
      BY <3>2, <3>3, <1>1, <1>6
  <2>3. QED
    BY <1>3, <2>1, <2>2
<1>11. QED
  BY <1>7, <1>8, <1>9, <1>10

LEMMA StepPlaceInv == MainInv /\ [Next]_vars => PlaceInv'
<1> SUFFICES ASSUME MainInv, [Next]_vars PROVE PlaceInv'
  OBVIOUS
<1> USE DEF MainInv, TypeOK, PlaceInv, Early, runVars, svcVars, stopVars
<1>1. CASE Instantiate \/ FactoryFails
  BY <1>1 DEF Instantiate, FactoryFails
<1>2. CASE Prepare
  BY <1>2 DEF Prepare
<1>3. CASE SortGroup
  <2>1. UNCHANGED <<deps, made, rpc, gi, started>> /\ rpc = "order"
    BY <1>3 DEF SortGroup
  <2>2. QED
    BY <1>3, <2>1, SortGroupPlaces
<1>4. CASE SortDone
  BY <1>4 DEF SortDone
<1>5. CASE LockGroups
  BY <1>5 DEF LockGroups
<1>6. CASE LaunchGroup
  BY <1>6 DEF LaunchGroup
<1>7. CASE AppendGroup
  BY <1>7 DEF AppendGroup
<1>8. CASE UnlockGroups \/ SelectDone \/ SelectFailed \/ AwaitServices \/ Return
  BY <1>8 DEF UnlockGroups, SelectDone, SelectFailed, AwaitServices, Return
<1>9. ASSUME NEW s \in Services, ServiceStep(s) \/ ServiceStops(s) PROVE PlaceInv'
  BY <1>9 DEF ServiceStep, Begin, SignalReady, ExitCleanly, Fail, Retry,
              HandleError, ServiceStops
<1>10. ASSUME NEW t \in Stoppers, StopStep(t) PROVE PlaceInv'
  BY <1>10, SMTT(30), ZenonT(30) DEF StopStep, StopCancel, StopOnce, StopLock, StopGroup,
               StopGroupDone, StopEnd
<1>11. CASE ParentCancels \/ UNCHANGED vars
  BY <1>11 DEF ParentCancels, vars
<1>12. QED
  BY <1>1, <1>2, <1>3, <1>4, <1>5, <1>6, <1>7, <1>8, <1>9, <1>10, <1>11
     DEF Next, RunStep

LEMMA StepStopIdxInv == MainInv /\ [Next]_vars => StopIdxInv'
<1> SUFFICES ASSUME MainInv, [Next]_vars PROVE StopIdxInv'
  OBVIOUS
<1> USE DEF MainInv, TypeOK, PlaceInv, StopIdxInv, InOnce, runVars, svcVars, stopVars
<1>1. CASE AppendGroup
  BY <1>1 DEF AppendGroup
<1>2. CASE RunStep /\ ~AppendGroup
  BY <1>2 DEF RunStep, Instantiate, FactoryFails, Prepare, SortGroup, SortDone,
              LockGroups, LaunchGroup, UnlockGroups, SelectDone, SelectFailed,
              AwaitServices, Return
<1>3. ASSUME NEW s \in Services, ServiceStep(s) \/ ServiceStops(s)
      PROVE StopIdxInv'
  BY <1>3 DEF ServiceStep, Begin, SignalReady, ExitCleanly, Fail, Retry,
              HandleError, ServiceStops
<1>4. ASSUME NEW t \in Stoppers, StopStep(t) PROVE StopIdxInv'
  <2>1. CASE StopLock(t)
    BY <1>4, <2>1 DEF StopLock, Step
  <2>2. CASE StopCancel(t) \/ StopOnce(t)
    BY <1>4, <2>2 DEF StopCancel, StopOnce, Step
  <2>3. CASE StopGroup(t) \/ StopEnd(t)
    BY <2>3 DEF StopGroup, StopEnd, Step
  <2>4. CASE StopGroupDone(t)
    <3>1. stopIdx > 0 /\ stopIdx' = stopIdx - 1 /\ started' = started
      BY <2>4 DEF StopGroupDone
    <3>2. /\ stp[t] = "groupwait" /\ stp' = [stp EXCEPT ![t] = "group"]
          /\ once' = once
      BY <2>4 DEF StopGroupDone, Step
    <3>3. QED
      BY <3>1, <3>2
  <2>5. QED
    BY <1>4, <2>1, <2>2, <2>3, <2>4 DEF StopStep
<1>5. CASE ParentCancels \/ UNCHANGED vars
  BY <1>5 DEF ParentCancels, vars
<1>6. QED
  BY <1>1, <1>2, <1>3, <1>4, <1>5 DEF Next

LEMMA MainCorrect == Spec => []MainInv
<1>1. MainInv /\ [Next]_vars => MainInv'
  BY StepTypeOK, StepPlaceInv, StepStopIdxInv DEF MainInv
<1>2. QED
  BY InitMainInv, <1>1, PTL DEF Spec

\* Every variable keeps its type: the groups are sequences of sets of services,
\* and neither start nor stop ever runs past their ends.
THEOREM ManagerTypeCorrect == Spec => []TypeOK
<1>1. MainInv => TypeOK
  BY DEF MainInv
<1>2. QED
  BY MainCorrect, <1>1, PTL

-----------------------------------------------------------------------------
(* Goroutines and groups. *)

\* A step that launches nobody and stays in its group keeps LaunchInv, as what is
\* ready stays ready and what is cancelled stays cancelled.
LEMMA LaunchFrame ==
  ASSUME LaunchInv, groups' = groups, gi' = gi,
         rpc' = "ready" <=> rpc = "ready",
         \A s \in Services : svc'[s] = "off" <=> svc[s] = "off",
         ready \subseteq ready', CtxDone => CtxDone'
  PROVE  LaunchInv'
<1>1. \A i \in 1 .. Len(groups) : Reached(i)' <=> Reached(i)
  BY DEF Reached
<1>2. \A s \in Services : svc'[s] # "off" =>
         \E i \in 1 .. Len(groups') : Reached(i)' /\ s \in groups'[i]
  BY <1>1 DEF LaunchInv
<1>3. \A i \in 1 .. Len(groups') : Reached(i)' =>
         \A s \in groups'[i] \cap Services : svc'[s] # "off"
  BY <1>1 DEF LaunchInv
<1>4. \A i \in 1 .. Len(groups') : i < gi' =>
         \A s \in groups'[i] \cap Notifiers : s \in ready' \/ CtxDone'
  BY DEF LaunchInv
<1>5. QED
  BY <1>2, <1>3, <1>4 DEF LaunchInv

LEMMA StepLaunchInv == MainInv /\ LaunchInv /\ [Next]_vars => LaunchInv'
<1> SUFFICES ASSUME MainInv, LaunchInv, [Next]_vars PROVE LaunchInv'
  OBVIOUS
<1>0. TypeOK /\ PlaceInv
  BY DEF MainInv
<1> USE DEF runVars, svcVars, stopVars
<1>1. CASE SortGroup
  <2>1. /\ rpc = "order" /\ rpc' = "order" /\ gi = 1 /\ gi' = 1
        /\ svc' = svc
    BY <1>0, <1>1 DEF SortGroup, PlaceInv, Early
  <2>2. \A i \in 1 .. Len(groups) : ~Reached(i)
    BY <1>0, <2>1 DEF Reached, TypeOK
  <2>3. \A s \in Services : svc[s] = "off"
    BY <2>2 DEF LaunchInv
  <2>4. \A i \in 1 .. Len(groups') : ~(i < gi') /\ ~Reached(i)'
    BY <2>1 DEF Reached
  <2>5. QED
    BY <2>1, <2>3, <2>4 DEF LaunchInv
<1>2. CASE LaunchGroup
  <2>1. /\ rpc = "launch" /\ rpc' = "ready" /\ gi =< Len(groups)
        /\ gi' = gi /\ groups' = groups /\ UNCHANGED <<ready, parentDone, cancelled>>
        /\ gi \in 1 .. Len(groups)
        /\ svc' = [s \in Services |-> IF s \in groups[gi] THEN "launched" ELSE svc[s]]
    BY <1>0, <1>2 DEF LaunchGroup, Group, TypeOK
  <2>2. \A i \in 1 .. Len(groups) : Reached(i)' <=> Reached(i) \/ i = gi
    BY <2>1 DEF Reached
  <2>3. \A i \in 1 .. Len(groups) : groups[i] \subseteq Services
    BY <1>0 DEF TypeOK
  <2>4. QED
    BY <2>1, <2>2, <2>3 DEF LaunchInv, CtxDone
<1>3. CASE AppendGroup
  <2>1. /\ rpc = "ready" /\ rpc' = "launch" /\ gi' = gi + 1 /\ groups' = groups
        /\ UNCHANGED <<svc, ready, parentDone, cancelled>> /\ gi \in Nat
        /\ groups[gi] \cap Notifiers \subseteq ready \/ CtxDone
    BY <1>0, <1>3 DEF AppendGroup, GroupReady, Group, TypeOK
  <2>2. \A i \in 1 .. Len(groups) : Reached(i)' <=> Reached(i)
    BY <2>1 DEF Reached
  <2>3. \A i \in 1 .. Len(groups) : i < gi' => i < gi \/ i = gi
    BY <2>1
  <2>4. QED
    BY <2>1, <2>2, <2>3 DEF LaunchInv, CtxDone
<1>4. CASE Instantiate \/ FactoryFails \/ Prepare \/ SortDone \/ LockGroups
           \/ UnlockGroups \/ SelectDone \/ SelectFailed \/ AwaitServices
           \/ Return
  BY <1>4, LaunchFrame
     DEF Instantiate, FactoryFails, Prepare, SortDone, LockGroups,
         UnlockGroups, SelectDone, SelectFailed, AwaitServices, Return, CtxDone
<1>5. ASSUME NEW s \in Services, ServiceStep(s) \/ ServiceStops(s)
      PROVE LaunchInv'
  <2>1. /\ UNCHANGED <<groups, gi, rpc, parentDone, cancelled>>
        /\ ready \subseteq ready'
    BY <1>5 DEF ServiceStep, Begin, SignalReady, ExitCleanly, Fail, Retry,
                HandleError, ServiceStops
  <2>2. \/ svc' = svc
        \/ /\ svc[s] # "off"
           /\ \E v \in {"running", "exited", "waiting", "failing"} :
                 svc' = [svc EXCEPT ![s] = v]
    BY <1>5 DEF ServiceStep, Begin, SignalReady, ExitCleanly, Fail, Retry,
                HandleError, ServiceStops, Set
  <2>3. \A u \in Services : svc'[u] = "off" <=> svc[u] = "off"
    BY <1>0, <2>2 DEF TypeOK
  <2>4. QED
    BY <2>1, <2>3, LaunchFrame DEF CtxDone
<1>6. ASSUME NEW t \in Stoppers, StopStep(t) PROVE LaunchInv'
  <2>1. /\ UNCHANGED <<groups, gi, rpc, svc, ready, parentDone>>
        /\ cancelled => cancelled'
    <3>1. CASE StopCancel(t)
      BY <3>1 DEF StopCancel
    <3>2. CASE ~StopCancel(t)
      BY <1>6, <3>2 DEF StopStep, StopOnce, StopLock, StopGroup, StopGroupDone,
                        StopEnd
    <3>3. QED
      BY <3>1, <3>2
  <2>2. QED
    BY <2>1, LaunchFrame DEF CtxDone
<1>7. CASE ParentCancels \/ UNCHANGED vars
  BY <1>7, LaunchFrame DEF ParentCancels, vars, CtxDone
<1>8. QED
  BY <1>1, <1>2, <1>3, <1>4, <1>5, <1>6, <1>7 DEF Next, RunStep

LEMMA LaunchCorrect == Spec => []LaunchInv
<1>1. Init => LaunchInv
  BY DEF Init, LaunchInv
<1>2. QED
  BY <1>1, StepLaunchInv, MainCorrect, PTL DEF Spec

\* A service with a goroutine had every dependency in this process launched
\* before it, and ready if it can say so, unless the shutdown had begun.
THEOREM DependenciesStartFirst == Spec => []StartOrder
<1>1. MainInv /\ LaunchInv => StartOrder
  <2> SUFFICES ASSUME MainInv, LaunchInv, NEW s \in made, svc[s] # "off",
                      NEW d \in deps[s] \cap made
               PROVE  /\ svc[d] # "off"
                      /\ d \in Notifiers => d \in ready \/ CtxDone
    BY DEF StartOrder
  <2>1. TypeOK /\ PlaceInv /\ s \in Services /\ d \in Services
    BY DEF MainInv, TypeOK
  <2>2. PICK i \in 1 .. Len(groups) : Reached(i) /\ s \in groups[i]
    BY <2>1 DEF LaunchInv
  <2>3. PICK j \in 1 .. Len(groups) : j < i /\ d \in groups[j]
    BY <2>1, <2>2 DEF PlaceInv
  <2>4. j < gi
    BY <2>1, <2>2, <2>3 DEF Reached, TypeOK
  <2>5. QED
    BY <2>1, <2>3, <2>4 DEF LaunchInv, Reached
<1>2. QED
  BY <1>1, MainCorrect, LaunchCorrect, PTL

-----------------------------------------------------------------------------
(* Run's result and its channel. *)

\* Nobody has a goroutine before the first group is launched.
LEMMA NobodyEarly ==
  ASSUME MainInv, LaunchInv, rpc \in Early
  PROVE  \A s \in Services : svc[s] = "off"
<1>1. gi = 1 /\ rpc # "ready"
  BY DEF MainInv, PlaceInv, Early
<1>2. \A i \in 1 .. Len(groups) : ~Reached(i)
  BY <1>1 DEF Reached, MainInv, TypeOK
<1>3. QED
  BY <1>2 DEF LaunchInv

\* A service with a goroutine was made by Run, and a service of the group that
\* is to be launched has none yet.
LEMMA LaunchedAreMade ==
  ASSUME MainInv, LaunchInv
  PROVE  /\ \A s \in Services : svc[s] # "off" => s \in made
         /\ rpc = "launch" /\ gi =< Len(groups) =>
               \A s \in groups[gi] \cap Services : svc[s] = "off"
<1>1. ASSUME NEW s \in Services, svc[s] # "off" PROVE s \in made
  <2>1. PICK i \in 1 .. Len(groups) : s \in groups[i]
    BY <1>1 DEF LaunchInv
  <2>2. QED
    BY <2>1 DEF MainInv, PlaceInv, TypeOK
<1>2. ASSUME rpc = "launch", gi =< Len(groups),
             NEW s \in groups[gi] \cap Services, svc[s] # "off"
      PROVE FALSE
  <2>1. PICK i \in 1 .. Len(groups) : Reached(i) /\ s \in groups[i]
    BY <1>2 DEF LaunchInv
  <2>2. i # gi /\ gi \in 1 .. Len(groups)
    BY <1>2, <2>1 DEF Reached, MainInv, TypeOK
  <2>3. QED
    BY <1>2, <2>1, <2>2 DEF MainInv, PlaceInv
<1>3. QED
  BY <1>1, <1>2

LEMMA StepQuietInv ==
  MainInv /\ LaunchInv /\ QuietInv /\ [Next]_vars => QuietInv'
<1> SUFFICES ASSUME MainInv, LaunchInv, QuietInv, [Next]_vars PROVE QuietInv'
  OBVIOUS
<1>0. TypeOK
  BY DEF MainInv
<1> USE DEF QuietInv, runVars, svcVars, stopVars
<1>1. CASE FactoryFails
  <2>1. \A s \in Services : svc[s] = "off"
    BY <1>1, NobodyEarly DEF FactoryFails, Early
  <2>2. QED
    BY <1>1, <2>1 DEF FactoryFails, Alive
<1>2. CASE Return
  BY <1>2 DEF Return, AllExited, Alive
<1>3. CASE SelectFailed
  BY <1>3 DEF SelectFailed
<1>4. CASE Instantiate \/ Prepare \/ SortGroup \/ SortDone \/ LockGroups
           \/ LaunchGroup \/ AppendGroup \/ UnlockGroups \/ SelectDone
           \/ AwaitServices
  BY <1>4 DEF Instantiate, Prepare, SortGroup, SortDone, LockGroups, LaunchGroup,
              AppendGroup, UnlockGroups, SelectDone, AwaitServices
<1>5. ASSUME NEW s \in Services, ServiceStep(s) PROVE QuietInv'
  <2>1. SignalReady(s) \/ Alive(s)
    BY <1>5 DEF ServiceStep, Begin, ExitCleanly, Fail, Retry, HandleError, Alive
  <2>2. CASE SignalReady(s)
    BY <2>2 DEF SignalReady, Alive
  <2>3. CASE Alive(s)
    <3>1. rpc # "returned" /\ errCh # "closed"
      BY <2>3
    <3>2. rpc' = rpc /\ errCh' # "closed"
      BY <1>5, <3>1 DEF ServiceStep, Begin, SignalReady, ExitCleanly, Fail, Retry,
                        HandleError
    <3>3. QED
      BY <3>1, <3>2
  <2>4. QED
    BY <2>1, <2>2, <2>3
<1>6. ASSUME NEW s \in Services, ServiceStops(s) PROVE QuietInv'
  BY <1>6 DEF ServiceStops, Alive
<1>7. ASSUME NEW t \in Stoppers, StopStep(t) PROVE QuietInv'
  BY <1>7 DEF StopStep, StopCancel, StopOnce, StopLock, StopGroup,
              StopGroupDone, StopEnd, Alive
<1>8. CASE ParentCancels \/ UNCHANGED vars
  BY <1>8 DEF ParentCancels, vars, Alive
<1>9. QED
  BY <1>1, <1>2, <1>3, <1>4, <1>5, <1>6, <1>7, <1>8 DEF Next, RunStep

LEMMA QuietCorrect == Spec => []QuietInv
<1>1. Init => QuietInv
  BY DEF Init, QuietInv
<1>2. QED
  BY <1>1, StepQuietInv, MainCorrect, LaunchCorrect, PTL DEF Spec

\* The error channel is closed, and Run returns, only when no service goroutine
\* is left.
THEOREM ChannelClosesLast == Spec => []ClosedMeansQuiet
<1>1. QuietInv => ClosedMeansQuiet
  BY DEF QuietInv, ClosedMeansQuiet
<1>2. QED
  BY <1>1, QuietCorrect, PTL

LEMMA StepAskedInv == MainInv /\ AskedInv /\ [Next]_vars => AskedInv'
<1> SUFFICES ASSUME MainInv, AskedInv, [Next]_vars PROVE AskedInv'
  OBVIOUS
<1>0. TypeOK
  BY DEF MainInv
<1> USE DEF AskedInv, runVars, svcVars, stopVars
<1>1. CASE SelectDone
  BY <1>1 DEF SelectDone, CtxDone
<1>2. CASE RunStep /\ ~SelectDone
  BY <1>2 DEF RunStep, Instantiate, FactoryFails, Prepare, SortGroup, SortDone,
              LockGroups, LaunchGroup, AppendGroup, UnlockGroups, SelectFailed,
              AwaitServices, Return
<1>3. ASSUME NEW s \in Services, ServiceStep(s) \/ ServiceStops(s) PROVE AskedInv'
  BY <1>3 DEF ServiceStep, Begin, SignalReady, ExitCleanly, Fail, Retry,
              HandleError, ServiceStops
<1>4. ASSUME NEW t \in Stoppers, StopStep(t) PROVE AskedInv'
  <2>1. PICK v : v # "idle" /\ stp' = [stp EXCEPT ![t] = v]
    BY <1>4 DEF StopStep, StopCancel, StopOnce, StopLock, StopGroup,
                StopGroupDone, StopEnd, Step
  <2>2. stp["external"] # "idle" => stp'["external"] # "idle"
    BY <1>0, <2>1 DEF TypeOK
  <2>3. CASE StopCancel(t)
    <3>1. t = "external" => stp'["external"] # "idle"
      BY <1>0, <2>1 DEF TypeOK
    <3>2. QED
      BY <2>2, <2>3, <3>1 DEF StopCancel
  <2>4. CASE ~StopCancel(t)
    BY <1>4, <2>2, <2>4 DEF StopStep, StopOnce, StopLock, StopGroup,
                            StopGroupDone, StopEnd
  <2>5. QED
    BY <2>3, <2>4
<1>5. CASE ParentCancels \/ UNCHANGED vars
  BY <1>5 DEF ParentCancels, vars
<1>6. QED
  BY <1>1, <1>2, <1>3, <1>4, <1>5 DEF Next

\* Run returns nil only for a cancelled context or a Stop from outside.
THEOREM NilMeansAsked == Spec => []NilOnlyIfAsked
<1>1. Init => AskedInv
  BY DEF Init, AskedInv
<1>2. AskedInv => NilOnlyIfAsked
  BY DEF AskedInv, NilOnlyIfAsked
<1>3. QED
  BY <1>1, <1>2, StepAskedInv, MainCorrect, PTL DEF Spec

\* A step that leaves the made services and the attempts alone keeps a service
\* that used up its retries.
LEMMA ExhaustedStays ==
  ASSUME TypeOK, AttemptsInv, SomeExhausted, made' = made,
         \/ attempts' = attempts
         \/ \E s \in Services : /\ svc[s] = "running"
                                /\ attempts' = [attempts EXCEPT ![s] = @ + 1]
  PROVE  SomeExhausted'
<1>1. PICK u \in made \ Allowed : attempts[u] = MaxRetries[u] + 1
  BY DEF SomeExhausted
<1>2. u \in Services /\ MaxRetries[u] \in Nat
  BY <1>1 DEF TypeOK
<1>3. svc[u] # "running"
  BY <1>1, <1>2 DEF AttemptsInv
<1>4. attempts'[u] = attempts[u]
  BY <1>2, <1>3 DEF TypeOK
<1>5. QED
  BY <1>1, <1>4 DEF SomeExhausted

LEMMA StepAttemptsInv ==
  MainInv /\ LaunchInv /\ AttemptsInv /\ [Next]_vars => AttemptsInv'
<1> SUFFICES ASSUME MainInv, LaunchInv, AttemptsInv, [Next]_vars
             PROVE  AttemptsInv'
  OBVIOUS
<1>0. TypeOK /\ \A s \in Services : MaxRetries[s] \in Nat
  BY DEF MainInv
<1> USE DEF runVars, svcVars, stopVars
<1>1. CASE Instantiate \/ FactoryFails
  <2>1. \A s \in Services : svc[s] = "off" /\ attempts[s] = 0
    BY <1>1, NobodyEarly DEF Instantiate, FactoryFails, Early, AttemptsInv
  <2>2. ~SomeExhausted
    BY <1>0, <2>1 DEF SomeExhausted, TypeOK
  <2>3. /\ UNCHANGED <<svc, attempts, errCh>>
        /\ result' = "failed" => result = "failed"
    BY <1>1 DEF Instantiate, FactoryFails
  <2>4. QED
    BY <2>2, <2>3 DEF AttemptsInv
<1>2. CASE LaunchGroup
  <2>1. \A s \in Services : \/ svc'[s] = svc[s]
                            \/ svc[s] = "off" /\ svc'[s] = "launched"
    BY <1>0, <1>2, LaunchedAreMade DEF LaunchGroup, Group, TypeOK
  <2>2. UNCHANGED <<made, attempts, errCh, result>>
    BY <1>2 DEF LaunchGroup
  <2>3. SomeExhausted' <=> SomeExhausted
    BY <2>2 DEF SomeExhausted
  <2>4. QED
    BY <1>0, <2>1, <2>2, <2>3 DEF AttemptsInv
<1>3. CASE SelectFailed
  <2>1. SomeExhausted /\ UNCHANGED <<made, attempts, svc>>
    BY <1>3 DEF SelectFailed, AttemptsInv
  <2>2. QED
    BY <2>1 DEF AttemptsInv, SomeExhausted
<1>4. CASE Prepare \/ SortGroup \/ SortDone \/ LockGroups \/ AppendGroup
           \/ UnlockGroups \/ SelectDone \/ AwaitServices \/ Return
  <2>1. /\ UNCHANGED <<made, attempts, svc>>
        /\ errCh' = "full" => errCh = "full"
        /\ result' = "failed" => result = "failed"
    BY <1>4 DEF Prepare, SortGroup, SortDone, LockGroups, AppendGroup,
                UnlockGroups, SelectDone, AwaitServices, Return
  <2>2. QED
    BY <2>1 DEF AttemptsInv, SomeExhausted
<1>5. ASSUME NEW s \in Services, Fail(s) PROVE AttemptsInv'
  <2>1. /\ svc[s] = "running" /\ UNCHANGED <<made, errCh, result>>
        /\ attempts' = [attempts EXCEPT ![s] = @ + 1]
    BY <1>5 DEF Fail
  <2>2. /\ attempts[s] \in Nat /\ attempts[s] =< MaxRetries[s]
        /\ attempts'[s] = attempts[s] + 1
        /\ \A u \in Services \ {s} : attempts'[u] = attempts[u]
    BY <1>0, <2>1 DEF AttemptsInv, TypeOK
  <2>3. /\ \A u \in Services \ {s} : svc'[u] = svc[u]
        /\ \/ svc'[s] = "exited"
           \/ svc'[s] = "waiting" /\ attempts[s] < MaxRetries[s]
           \/ svc'[s] = "failing" /\ attempts[s] >= MaxRetries[s]
    <3>1. CASE Set(s, "exited")
      BY <1>0, <3>1 DEF Set, TypeOK
    <3>2. CASE ~Exhausted(s) /\ Set(s, "waiting")
      BY <1>0, <2>2, <3>2 DEF Set, Exhausted, TypeOK
    <3>3. CASE Exhausted(s) /\ Set(s, "failing")
      BY <1>0, <3>3 DEF Set, Exhausted, TypeOK
    <3>4. QED
      BY <1>5, <3>1, <3>2, <3>3 DEF Fail
  <2>4. SomeExhausted => SomeExhausted'
    BY <1>0, <2>1, ExhaustedStays
  <2>5. QED
    BY <1>0, <2>1, <2>2, <2>3, <2>4 DEF AttemptsInv
<1>6. ASSUME NEW s \in Services, HandleError(s) PROVE AttemptsInv'
  <2>1. /\ svc[s] = "failing" /\ UNCHANGED <<made, attempts, result>>
        /\ svc'[s] = "exited" /\ \A u \in Services \ {s} : svc'[u] = svc[u]
        /\ errCh' = "full" => errCh = "full" \/ s \notin Allowed
    BY <1>0, <1>6 DEF HandleError, Set, TypeOK
  <2>2. s \in made /\ attempts[s] = MaxRetries[s] + 1
    BY <2>1, LaunchedAreMade DEF AttemptsInv
  <2>3. errCh' = "full" => SomeExhausted
    BY <2>1, <2>2 DEF AttemptsInv, SomeExhausted
  <2>4. SomeExhausted' <=> SomeExhausted
    BY <2>1 DEF SomeExhausted
  <2>5. QED
    BY <2>1, <2>3, <2>4 DEF AttemptsInv
<1>7. ASSUME NEW s \in Services,
             Begin(s) \/ SignalReady(s) \/ ExitCleanly(s) \/ Retry(s)
      PROVE  AttemptsInv'
  <2>1. UNCHANGED <<made, attempts, errCh, result>>
    BY <1>7 DEF Begin, SignalReady, ExitCleanly, Retry
  <2>2. /\ \A u \in Services \ {s} : svc'[u] = svc[u]
        /\ \/ svc'[s] = svc[s] \/ svc'[s] = "exited"
           \/ svc'[s] = "running" /\ svc[s] \in {"launched", "waiting"}
    BY <1>0, <1>7 DEF Begin, SignalReady, ExitCleanly, Retry, Set, TypeOK
  <2>3. QED
    BY <2>1, <2>2 DEF AttemptsInv, SomeExhausted
<1>8. ASSUME NEW t \in Stoppers, StopStep(t) PROVE AttemptsInv'
  BY <1>8 DEF StopStep, StopCancel, StopOnce, StopLock, StopGroup,
              StopGroupDone, StopEnd, AttemptsInv, SomeExhausted
<1>9. ASSUME NEW s \in Services, ServiceStops(s) PROVE AttemptsInv'
  BY <1>9 DEF ServiceStops, AttemptsInv, SomeExhausted
<1>10. CASE ParentCancels \/ UNCHANGED vars
  BY <1>10 DEF ParentCancels, vars, AttemptsInv, SomeExhausted
<1>11. QED
  BY <1>1, <1>2, <1>3, <1>4, <1>5, <1>6, <1>7, <1>8, <1>9, <1>10
     DEF Next, RunStep, ServiceStep

\* Run fails only for a service whose failure is not allowed and that was tried
\* MaxRetries times more than once.
THEOREM FailureMeansExhausted == Spec => []FailedMeansExhausted
<1>1. Init => AttemptsInv
  BY DEF Init, AttemptsInv
<1>2. AttemptsInv => FailedMeansExhausted
  BY DEF AttemptsInv, FailedMeansExhausted, SomeExhausted
<1>3. QED
  BY <1>1, <1>2, StepAttemptsInv, MainCorrect, LaunchCorrect, PTL DEF Spec

-----------------------------------------------------------------------------
(* Stopping: dependents are stopped first, and nobody is forgotten. *)

USE ServicesAssumption DEF Stoppers

-----------------------------------------------------------------------------
(* The inductive invariants. *)

InGroup(t) == stp[t] \in {"group", "groupwait"}
NotStopped == \A s \in Services : stopSvc[s] = "no"
LaunchedStopped == \A s \in Services : svc[s] # "off" => stopSvc[s] = "over"

\* Launching and stopping exclude each other, and outside the loop over the
\* groups none of them is started, or all are and nothing is launched any more.
LockInv ==
    /\ rpc \notin {"launch", "ready"} =>
          started = 0 \/ (rpc \notin Early /\ gi = Len(groups) + 1)
    /\ \A t \in Stoppers : InGroup(t) => rpc \notin {"launch", "ready"}

\* How the two Stops, stopOnce and Run's deferred calls go together.
OnceInv ==
    /\ \A t \in Stoppers : stp[t] = "done" => once = "done"
    /\ once = "done" => \E t \in Stoppers : stp[t] = "done"
    /\ stp["deferred"] # "idle" => rpc \in {"stop", "join", "returned"}
    /\ rpc \in {"join", "returned"} =>
          stp["deferred"] = "done" \/ \A s \in Services : svc[s] = "off"

\* While somebody is in the loop over the groups, those behind stopIdx are
\* stopped, those before it are not, and the one at it is being stopped.
LoopInv ==
    \A t \in Stoppers : InGroup(t) =>
        \A i \in 1 .. started : \A s \in groups[i] \cap Services :
            /\ i > stopIdx => stopSvc[s] = "over"
            /\ i < stopIdx => stopSvc[s] = "no"
            /\ i = stopIdx => (stopSvc[s] = "no" <=> stp[t] = "group")

\* Before the loop nobody is stopped.  After it everybody is who was launched,
\* unless nobody was yet: then a Stop from outside has used stopOnce up.
AfterInv ==
    /\ started = 0 => NotStopped
    /\ once # "done" /\ (\A t \in Stoppers : ~InGroup(t)) => NotStopped
    /\ once = "done" => \/ NotStopped
                        \/ rpc \notin {"launch", "ready"} \cup Early /\ LaunchedStopped
    /\ once = "done" /\ stp["external"] = "idle" => LaunchedStopped

StopInv == LockInv /\ OnceInv /\ LoopInv /\ AfterInv

-----------------------------------------------------------------------------
(* They are kept. *)

LEMMA StepLockInv == MainInv /\ LockInv /\ [Next]_vars => LockInv'
<1> SUFFICES ASSUME MainInv, LockInv, [Next]_vars PROVE LockInv'
  OBVIOUS
<1> USE DEF MainInv, TypeOK, PlaceInv, LockInv, InGroup, Early, runVars, svcVars, stopVars
<1>1. CASE Instantiate \/ FactoryFails \/ Prepare \/ SortDone \/ SelectDone
           \/ SelectFailed \/ AwaitServices \/ Return
  BY <1>1 DEF Instantiate, FactoryFails, Prepare, SortDone, SelectDone, SelectFailed,
              AwaitServices, Return
<1>2. CASE SortGroup
  BY <1>2 DEF SortGroup
<1>3. CASE LockGroups \/ LaunchGroup \/ UnlockGroups
  BY <1>3 DEF LockGroups, LaunchGroup, UnlockGroups
<1>4. CASE AppendGroup
  BY <1>4 DEF AppendGroup
<1>5. ASSUME NEW s \in Services, ServiceStep(s) \/ ServiceStops(s) PROVE LockInv'
  BY <1>5 DEF ServiceStep, Begin, SignalReady, ExitCleanly, Fail, Retry,
              HandleError, ServiceStops
<1>6. ASSUME NEW t \in Stoppers, StopStep(t) PROVE LockInv'
  BY <1>6 DEF StopStep, StopCancel, StopOnce, StopLock, StopGroup, StopGroupDone,
              StopEnd, Step
<1>7. CASE ParentCancels \/ UNCHANGED vars
  BY <1>7 DEF ParentCancels, vars
<1>8. QED
  BY <1>1, <1>2, <1>3, <1>4, <1>5, <1>6, <1>7 DEF Next, RunStep

LEMMA StepOnceInv == MainInv /\ LaunchInv /\ OnceInv /\ [Next]_vars => OnceInv'
<1> SUFFICES ASSUME MainInv, LaunchInv, OnceInv, [Next]_vars PROVE OnceInv'
  OBVIOUS
<1>0. TypeOK
  BY DEF MainInv
<1> USE DEF OnceInv, runVars, svcVars, stopVars
<1>1. CASE FactoryFails
  <2>1. \A s \in Services : svc[s] = "off"
    BY <1>1, NobodyEarly DEF FactoryFails, Early
  <2>2. QED
    BY <1>1, <2>1 DEF FactoryFails
<1>2. CASE RunStep /\ ~FactoryFails
  BY <1>2 DEF RunStep, Instantiate, Prepare, SortGroup, SortDone, LockGroups,
              LaunchGroup, AppendGroup, UnlockGroups, SelectDone, SelectFailed,
              AwaitServices, Return
<1>3. ASSUME NEW s \in Services, ServiceStep(s) PROVE OnceInv'
  <2>1. UNCHANGED <<stp, once, rpc>>
    BY <1>3 DEF ServiceStep, Begin, SignalReady, ExitCleanly, Fail, Retry, HandleError
  <2>2. \A u \in Services : svc[u] = "off" => svc'[u] = "off"
    BY <1>0, <1>3 DEF ServiceStep, Begin, SignalReady, ExitCleanly, Fail, Retry,
                      HandleError, Set, TypeOK
  <2>3. QED
    BY <2>1, <2>2
<1>4. ASSUME NEW s \in Services, ServiceStops(s) PROVE OnceInv'
  BY <1>4 DEF ServiceStops
<1>5. ASSUME NEW t \in Stoppers, StopStep(t) PROVE OnceInv'
  BY <1>0, <1>5 DEF StopStep, StopCancel, StopOnce, StopLock, StopGroup,
                    StopGroupDone, StopEnd, Step, TypeOK, MainInv, StopIdxInv, InOnce
<1>6. CASE ParentCancels \/ UNCHANGED vars
  BY <1>6 DEF ParentCancels, vars
<1>7. QED
  BY <1>1, <1>2, <1>3, <1>4, <1>5, <1>6 DEF Next

\* Services that are launched are in a group that is recorded, except while the
\* groups are being launched.
LEMMA LaunchedInStarted ==
  ASSUME MainInv, LaunchInv, rpc # "ready", NEW s \in Services, svc[s] # "off"
  PROVE  \E i \in 1 .. started : s \in groups[i]
<1>1. PICK i \in 1 .. Len(groups) : Reached(i) /\ s \in groups[i]
  BY DEF LaunchInv
<1>2. i \in 1 .. started
  BY <1>1 DEF Reached, MainInv, PlaceInv, TypeOK
<1>3. QED
  BY <1>1, <1>2

LEMMA StepLoopInv ==
  MainInv /\ LockInv /\ AfterInv /\ LoopInv /\ [Next]_vars => LoopInv'
<1> SUFFICES ASSUME MainInv, LockInv, AfterInv, LoopInv, [Next]_vars PROVE LoopInv'
  OBVIOUS
<1>0. /\ TypeOK /\ started \in Nat /\ stopIdx \in 0 .. started
      /\ \A i, j \in 1 .. started : i # j => groups[i] \cap groups[j] = {}
  <2>1. TypeOK /\ started \in 0 .. Len(groups) /\ stopIdx \in 0 .. started
    BY DEF MainInv, TypeOK
  <2>2. 1 .. started \subseteq 1 .. Len(groups)
    BY <2>1 DEF TypeOK
  <2>3. QED
    BY <2>1, <2>2 DEF MainInv, PlaceInv
<1> USE DEF runVars, svcVars, stopVars
<1>1. CASE SortGroup
  <2>1. started = 0 /\ started' = 0
    BY <1>0, <1>1 DEF SortGroup, MainInv, PlaceInv, Early, TypeOK
  <2>2. QED
    BY <2>1 DEF LoopInv
<1>2. CASE AppendGroup
  BY <1>2 DEF AppendGroup, LoopInv, LockInv, InGroup
<1>3. CASE RunStep /\ ~SortGroup /\ ~AppendGroup
  <2>1. UNCHANGED <<started, groups, stp, stopIdx, stopSvc>>
    BY <1>3 DEF RunStep, Instantiate, FactoryFails, Prepare, SortDone, LockGroups,
                LaunchGroup, UnlockGroups, SelectDone, SelectFailed, AwaitServices,
                Return
  <2>2. QED
    BY <2>1 DEF LoopInv, InGroup
<1>4. ASSUME NEW s \in Services, ServiceStep(s) PROVE LoopInv'
  <2>1. UNCHANGED <<started, groups, stp, stopIdx, stopSvc>>
    BY <1>4 DEF ServiceStep, Begin, SignalReady, ExitCleanly, Fail, Retry, HandleError
  <2>2. QED
    BY <2>1 DEF LoopInv, InGroup
<1>5. ASSUME NEW s \in Services, ServiceStops(s) PROVE LoopInv'
  <2>1. UNCHANGED <<started, groups, stp, stopIdx>>
    BY <1>5 DEF ServiceStops
  <2>2. /\ stopSvc[s] = "calling" /\ stopSvc'[s] = "over"
        /\ \A u \in Services \ {s} : stopSvc'[u] = stopSvc[u]
    BY <1>0, <1>5 DEF ServiceStops, TypeOK
  <2>3. QED
    BY <2>1, <2>2 DEF LoopInv, InGroup
<1>6. ASSUME NEW t \in Stoppers, StopStep(t) PROVE LoopInv'
  <2>0. /\ UNCHANGED <<started, groups>>
        /\ \A u \in Stoppers \ {t} : stp'[u] = stp[u]
    BY <1>0, <1>6 DEF StopStep, StopCancel, StopOnce, StopLock, StopGroup,
                      StopGroupDone, StopEnd, Step, TypeOK
  <2>1. CASE StopCancel(t) \/ StopOnce(t) \/ StopEnd(t)
    <3>1. UNCHANGED <<stopIdx, stopSvc>> /\ stp'[t] \in {"once", "lock", "done"}
      BY <1>0, <2>1 DEF StopCancel, StopOnce, StopEnd, Step, TypeOK
    <3>2. QED
      BY <2>0, <3>1 DEF LoopInv, InGroup
  <2>2. ASSUME InOnce(t) PROVE \A u \in Stoppers \ {t} : ~InGroup(u)
    BY <2>2 DEF MainInv, StopIdxInv, InOnce, InGroup
  <2>3. ASSUME InOnce(t), InOnce(t)' PROVE \A u \in Stoppers \ {t} : ~InGroup(u)'
    BY <2>0, <2>2, <2>3 DEF InGroup
  <2>4. CASE StopLock(t)
    <3>1. /\ stp[t] = "lock" /\ stp'[t] = "group"
          /\ stopIdx' = started /\ stopSvc' = stopSvc
      BY <1>0, <2>4 DEF StopLock, Step, TypeOK
    <3>2. once # "done" /\ ~InGroup(t) /\ InOnce(t) /\ InOnce(t)'
      BY <3>1 DEF MainInv, StopIdxInv, InOnce, InGroup
    <3>3. NotStopped
      BY <2>2, <3>2 DEF AfterInv
    <3>4. QED
      BY <1>0, <2>0, <2>3, <3>1, <3>2, <3>3 DEF LoopInv, NotStopped, InGroup
  <2>5. CASE StopGroup(t)
    <3>1. /\ stp[t] = "group" /\ stp'[t] = "groupwait" /\ stopIdx' = stopIdx
          /\ stopSvc' = [s \in Services |->
                           IF s \in groups[stopIdx] THEN "calling" ELSE stopSvc[s]]
      BY <1>0, <2>5 DEF StopGroup, Step, TypeOK, Group
    <3>2. InGroup(t) /\ InOnce(t) /\ InOnce(t)' /\ stopIdx \in 1 .. started
      BY <1>0, <2>5, <3>1 DEF InGroup, InOnce, StopGroup
    <3>3. ASSUME NEW i \in 1 .. started, NEW s \in groups[i] \cap Services
          PROVE  /\ i > stopIdx => stopSvc'[s] = "over"
                 /\ i < stopIdx => stopSvc'[s] = "no"
                 /\ i = stopIdx => stopSvc'[s] # "no"
      <4>1. i # stopIdx => s \notin groups[stopIdx]
        BY <1>0, <3>2
      <4>2. QED
        BY <3>1, <3>2, <4>1 DEF LoopInv
    <3>4. QED
      BY <2>0, <2>3, <3>1, <3>2, <3>3 DEF LoopInv, InGroup
  <2>6. CASE StopGroupDone(t)
    <3>1. /\ stp[t] = "groupwait" /\ stp'[t] = "group" /\ stopIdx' = stopIdx - 1
          /\ stopSvc' = stopSvc /\ \A s \in Services : stopSvc[s] # "calling"
      BY <1>0, <2>6 DEF StopGroupDone, Step, TypeOK
    <3>2. InGroup(t) /\ InOnce(t) /\ InOnce(t)'
      BY <3>1 DEF InGroup, InOnce
    <3>3. ASSUME NEW i \in 1 .. started, NEW s \in groups[i] \cap Services
          PROVE  /\ i > stopIdx - 1 => stopSvc[s] = "over"
                 /\ i =< stopIdx - 1 => stopSvc[s] = "no"
      <4>1. stopSvc[s] \in {"no", "over"}
        BY <1>0, <3>1 DEF TypeOK
      <4>2. /\ i > stopIdx => stopSvc[s] = "over"
            /\ i < stopIdx => stopSvc[s] = "no"
            /\ i = stopIdx => stopSvc[s] # "no"
        BY <3>1, <3>2 DEF LoopInv
      <4>3. QED
        BY <1>0, <4>1, <4>2
    <3>4. QED
      BY <1>0, <2>0, <2>3, <3>1, <3>2, <3>3 DEF LoopInv, InGroup
  <2>7. QED
    BY <1>6, <2>1, <2>4, <2>5, <2>6 DEF StopStep
<1>7. CASE ParentCancels \/ UNCHANGED vars
  BY <1>7 DEF ParentCancels, vars, LoopInv, InGroup
<1>8. QED
  BY <1>1, <1>2, <1>3, <1>4, <1>5, <1>6, <1>7 DEF Next

LEMMA StepAfterInv ==
  MainInv /\ LaunchInv /\ StopInv /\ [Next]_vars => AfterInv'
<1> SUFFICES ASSUME MainInv, LaunchInv, StopInv, [Next]_vars PROVE AfterInv'
  OBVIOUS
<1>0. TypeOK /\ LockInv /\ OnceInv /\ LoopInv /\ AfterInv
  BY DEF MainInv, StopInv
<1> USE DEF runVars, svcVars, stopVars
<1>1. CASE LaunchGroup
  <2>1. rpc = "launch" /\ rpc' = "ready" /\ UNCHANGED <<started, once, stp, stopSvc>>
    BY <1>1 DEF LaunchGroup
  <2>2. ~(once = "done" /\ stp["external"] = "idle")
    BY <1>0, <2>1 DEF OnceInv
  <2>3. QED
    BY <1>0, <2>1, <2>2 DEF AfterInv, NotStopped, InGroup
<1>2. CASE AppendGroup
  <2>1. /\ rpc = "ready" /\ rpc' = "launch" /\ started' # 0
        /\ UNCHANGED <<once, stp, stopSvc, svc>>
    BY <1>0, <1>2 DEF AppendGroup, TypeOK
  <2>2. QED
    BY <1>0, <2>1 DEF AfterInv, NotStopped, LaunchedStopped, InGroup
<1>3. CASE RunStep /\ ~LaunchGroup /\ ~AppendGroup
  <2>1. /\ UNCHANGED <<started, once, stp, stopSvc, svc>>
        /\ rpc \notin {"launch", "ready"} \cup Early
              => rpc' \notin {"launch", "ready"} \cup Early
    BY <1>3 DEF RunStep, Instantiate, FactoryFails, Prepare, SortGroup, SortDone,
                LockGroups, UnlockGroups, SelectDone, SelectFailed, AwaitServices,
                Return, Early
  <2>2. QED
    BY <1>0, <2>1 DEF AfterInv, NotStopped, LaunchedStopped, InGroup
<1>4. ASSUME NEW s \in Services, ServiceStep(s) PROVE AfterInv'
  <2>1. UNCHANGED <<started, once, stp, stopSvc, rpc>>
    BY <1>4 DEF ServiceStep, Begin, SignalReady, ExitCleanly, Fail, Retry, HandleError
  <2>2. \A u \in Services : svc[u] = "off" => svc'[u] = "off"
    BY <1>0, <1>4 DEF ServiceStep, Begin, SignalReady, ExitCleanly, Fail, Retry,
                      HandleError, Set, TypeOK
  <2>3. QED
    BY <1>0, <2>1, <2>2 DEF AfterInv, NotStopped, LaunchedStopped, InGroup
<1>5. ASSUME NEW s \in Services, ServiceStops(s) PROVE AfterInv'
  <2>1. UNCHANGED <<started, once, stp, rpc, svc>>
    BY <1>5 DEF ServiceStops
  <2>2. ~NotStopped
    BY <1>5 DEF ServiceStops, NotStopped
  <2>3. \A u \in Services : stopSvc[u] = "over" => stopSvc'[u] = "over"
    BY <1>0, <1>5 DEF ServiceStops, TypeOK
  <2>4. QED
    BY <1>0, <2>1, <2>2, <2>3 DEF AfterInv, LaunchedStopped, InGroup
<1>6. ASSUME NEW t \in Stoppers, StopStep(t) PROVE AfterInv'
  <2>0. UNCHANGED <<started, rpc, svc>>
    BY <1>6 DEF StopStep, StopCancel, StopOnce, StopLock, StopGroup,
                StopGroupDone, StopEnd
  <2>1. CASE StopCancel(t) \/ StopOnce(t)
    <3>1. /\ UNCHANGED stopSvc /\ stp[t] \in {"idle", "once"} /\ stp'[t] # "idle"
          /\ \A u \in Stoppers \ {t} : stp'[u] = stp[u]
          /\ once' = "done" <=> once = "done"
      BY <1>0, <2>1 DEF StopCancel, StopOnce, Step, TypeOK
    <3>2. (\A u \in Stoppers : ~InGroup(u)') => (\A u \in Stoppers : ~InGroup(u))
      BY <3>1 DEF InGroup
    <3>3. stp'["external"] = "idle" => stp["external"] = "idle"
      BY <3>1
    <3>4. QED
      BY <1>0, <2>0, <3>1, <3>2, <3>3 DEF AfterInv, NotStopped, LaunchedStopped
  <2>2. CASE StopLock(t) \/ StopGroup(t) \/ StopGroupDone(t)
    <3>1. InOnce(t) /\ InGroup(t)' /\ UNCHANGED once
      BY <1>0, <2>2 DEF StopLock, StopGroup, StopGroupDone, Step, TypeOK, InGroup, InOnce
    <3>2. once # "done"
      BY <3>1 DEF MainInv, StopIdxInv
    <3>3. started # 0 \/ UNCHANGED stopSvc
      BY <1>0, <2>2 DEF StopLock, StopGroup, StopGroupDone, TypeOK
    <3>4. QED
      BY <1>0, <2>0, <3>1, <3>2, <3>3 DEF AfterInv, NotStopped
  <2>3. CASE StopEnd(t)
    <3>1. /\ stp[t] = "group" /\ stp'[t] = "done" /\ stopIdx = 0 /\ once' = "done"
          /\ UNCHANGED stopSvc /\ \A u \in Stoppers \ {t} : stp'[u] = stp[u]
      BY <1>0, <2>3 DEF StopEnd, Step, TypeOK
    <3>2. rpc \notin {"launch", "ready"}
      BY <1>0, <3>1 DEF LockInv, InGroup
    <3>3. LaunchedStopped
      <4> SUFFICES ASSUME NEW s \in Services, svc[s] # "off" PROVE stopSvc[s] = "over"
        BY DEF LaunchedStopped
      <4>1. PICK i \in 1 .. started : s \in groups[i]
        BY <3>2, LaunchedInStarted
      <4>2. i > stopIdx
        BY <1>0, <3>1, <4>1 DEF TypeOK
      <4>3. QED
        BY <1>0, <3>1, <4>1, <4>2 DEF LoopInv, InGroup
    <3>4. started = 0 \/ rpc \notin Early
      BY <1>0, <3>2 DEF LockInv
    <3>5. QED
      BY <1>0, <2>0, <3>1, <3>2, <3>3, <3>4 DEF AfterInv, NotStopped, LaunchedStopped
  <2>4. QED
    BY <1>6, <2>1, <2>2, <2>3 DEF StopStep
<1>7. CASE ParentCancels \/ UNCHANGED vars
  BY <1>0, <1>7 DEF ParentCancels, vars, AfterInv, NotStopped, LaunchedStopped, InGroup
<1>8. QED
  BY <1>1, <1>2, <1>3, <1>4, <1>5, <1>6, <1>7 DEF Next

LEMMA StopCorrect == Spec => []StopInv
<1>1. Init => StopInv
  BY DEF Init, StopInv, LockInv, OnceInv, LoopInv, AfterInv, InGroup, NotStopped
<1>2. MainInv /\ LaunchInv /\ StopInv /\ [Next]_vars => StopInv'
  BY StepLockInv, StepOnceInv, StepLoopInv, StepAfterInv DEF StopInv
<1>3. QED
  BY <1>1, <1>2, MainCorrect, LaunchCorrect, PTL DEF Spec

-----------------------------------------------------------------------------
(* The theorems. *)

\* Nobody is stopped before those that depend on him, whoever calls Stop.
THEOREM DependentsStopFirst == Spec => []StopOrder
<1>1. MainInv /\ LaunchInv /\ StopInv => StopOrder
  <2> SUFFICES ASSUME MainInv, LaunchInv, StopInv, NEW s \in made, svc[s] # "off",
                      NEW d \in deps[s] \cap made, stopSvc[d] # "no"
               PROVE  stopSvc[s] = "over"
    BY DEF StopOrder
  <2>0. /\ TypeOK /\ s \in Services /\ d \in Services /\ ~NotStopped
    BY DEF MainInv, TypeOK, NotStopped
  <2>1. CASE \E t \in Stoppers : InGroup(t)
    <3>1. PICK t \in Stoppers : InGroup(t)
      BY <2>1
    <3>2. PICK j \in 1 .. started : s \in groups[j]
      BY <2>0, <3>1, LaunchedInStarted DEF StopInv, LockInv
    <3>3. started \in 0 .. Len(groups) /\ j \in 1 .. Len(groups)
      BY <2>0, <3>2 DEF TypeOK
    <3>4. PICK i \in 1 .. Len(groups) : i < j /\ d \in groups[i]
      BY <3>2, <3>3 DEF MainInv, PlaceInv
    <3>5. i \in 1 .. started /\ ~(i < stopIdx)
      BY <2>0, <3>1, <3>2, <3>3, <3>4 DEF StopInv, LoopInv
    <3>6. j > stopIdx
      BY <2>0, <3>2, <3>3, <3>4, <3>5 DEF TypeOK
    <3>7. QED
      BY <2>0, <3>1, <3>2, <3>6 DEF StopInv, LoopInv
  <2>2. CASE \A t \in Stoppers : ~InGroup(t)
    BY <2>0, <2>2 DEF StopInv, AfterInv, LaunchedStopped
  <2>3. QED
    BY <2>1, <2>2
<1>2. QED
  BY <1>1, StopCorrect, MainCorrect, LaunchCorrect, PTL

\* Unless somebody outside has used stopOnce up, everybody is stopped who was
\* launched.
THEOREM NobodyForgotten == Spec => []EveryoneStopped
<1>1. StopInv => EveryoneStopped
  BY DEF StopInv, OnceInv, AfterInv, LaunchedStopped, EveryoneStopped
<1>2. QED
  BY <1>1, StopCorrect, PTL

=============================================================================
