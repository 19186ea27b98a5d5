--------------------------- MODULE HttpServerProofs ---------------------------
(***************************************************************************)
(* Theorems about the whole process: seen from the manager it is a         *)
(* behaviour of ServiceManager, so what is proved of any services holds of *)
(* this one; and what must be true of the process, its channel, its store  *)
(* and its end, in every order of its threads.                             *)
(***************************************************************************)
EXTENDS HttpServer, ServiceManagerProofs

USE ServicesAssumption, HttpServerAssumption DEF Stoppers, AppStoppers

-----------------------------------------------------------------------------
(* The process runs the manager. *)

LEMMA AroundIsManaged == AppRunStep \/ (\E t \in AppStoppers : AppStopStep(t))
                            \/ RunnerStep \/ Signal \/ ShutdownTimesOut => [Next]_vars
<1>1. ASSUME parentDone' = TRUE, UNCHANGED mgrVars PROVE [Next]_vars
  <2>1. CASE parentDone = TRUE
    BY <1>1, <2>1 DEF vars, mgrVars, runVars, svcVars, stopVars
  <2>2. CASE parentDone # TRUE
    BY <1>1, <2>2 DEF Next, ParentCancels, mgrVars
  <2>3. QED
    BY <2>1, <2>2
<1>2. ASSUME parentDone' = parentDone, UNCHANGED mgrVars PROVE UNCHANGED vars
  BY <1>2 DEF vars, mgrVars, runVars, svcVars, stopVars
<1>3. AppRunStep => [Next]_vars
  BY <1>1 DEF AppRunStep, SetAppCancel, RunPreRunHooks, LaunchManager, ForwardError,
     AppSelectDone, AppSelectFailed, AwaitManager, AppReturn, RunAppEnds
<1>4. ASSUME NEW t \in AppStoppers, AppStopStep(t) PROVE [Next]_vars
  <2>1. CASE AppStopCancel(t)
    BY <1>1, <1>2, <2>1 DEF AppStopCancel
  <2>2. QED
    BY <1>4, <2>1 DEF AppStopStep, AppStopOnce, AppStopManagerDone, AppStopWaited,
       RunPostStopHooks
<1>5. RunnerStep \/ Signal \/ ShutdownTimesOut => [Next]_vars
  BY DEF RunnerStep, WaitForShutdown, ShutdownCompletes, Signal, ShutdownTimesOut
<1>6. QED
  BY <1>3, <1>4, <1>5

LEMMA StepIsManaged == [ProcessNext]_procVars => [Next]_vars
<1> USE HttpServerAssumption
<1>1. AroundService => [Next]_vars
  BY AroundIsManaged DEF AroundService
<1>2. ManagerSide => [Next]_vars
  BY DEF ManagerSide, ManagerStep, Next, Stoppers
<1>3. ServeStep => [Next]_vars
  BY DEF ServeStep, RunBegins, RunReturns, OfService, Next, ServiceStep, Listen,
     WaitForCompletion, StartStops, lifeVars
<1>4. ErrorReported \/ StopSide => [Next]_vars
  BY DEF ErrorReported, StopSide, StopServer, CloseStore, StopReturns, OfService, Next,
     ServiceStep, lifeVars
<1>5. BootStep \/ ServeFails => [Next]_vars
  <2>1. BootStep => UNCHANGED lifeVars
    BY DEF BootStep, OpenStore, Migrate, SeedBuiltinTemplates, BuildDeps, Wire, Booting
  <2>2. ServeFails => UNCHANGED lifeVars
    BY DEF ServeFails
  <2>3. QED
    BY <2>1, <2>2 DEF lifeVars
<1>6. Tick \/ ScheduledSyncEnds \/ TickerStops => [Next]_vars
  BY DEF Tick, ScheduledSyncEnds, TickerStops, lifeVars
<1>7. (\E r \in Requests : Accept(r) \/ Answer(r)) => [Next]_vars
  BY DEF Accept, Answer, lifeVars
<1>8. UNCHANGED procVars => UNCHANGED vars
  BY DEF procVars, lifeVars
<1>9. QED
  BY <1>1, <1>2, <1>3, <1>4, <1>5, <1>6, <1>7, <1>8 DEF ProcessNext

\* The process behaves as ServiceManager says, with a service that is not left
\* open any more: what is proved there of every service holds of the program.
THEOREM ProcessIsManaged == ProcessSpec => Spec
<1>1. ProcessInit => Init
  BY DEF ProcessInit, LifeInit
<1>2. QED
  BY <1>1, StepIsManaged, PTL DEF ProcessSpec, Spec

-----------------------------------------------------------------------------
(* The inductive invariants. *)

BeforeLaunch == {"start", "hooks", "launch"}

\* App.Run's goroutine in the manager, and the channel it sends on.
ChannelInv ==
    /\ mgr \in {"off", "running", "gone"}
    /\ mgr = "off" <=> apc \in BeforeLaunch
    /\ mgr = "gone" => rpc = "returned"
    /\ appErr = "closed" => apc \in {"returned", "gone"}
    /\ apc \in {"returned", "gone"} => mgr # "running"

\* Without a signal, a nil result has no way to come about: App.Run returns nil
\* only for a cancelled context, before App.Run's own Stop only the runner
\* cancels, and it does so for a signal or for what App.Run has returned.
ErrorInv ==
    /\ runErr # "none" => apc = "gone"
    /\ runner # "waiting" => signalled \/ apc = "gone"
    /\ parentDone => runner # "waiting" \/ apc \in {"stop", "join", "returned", "gone"}
    /\ appResult = "nil" \/ runErr = "nil" => signalled
    /\ outcome = "nil" => runner = "waiting" \/ signalled

\* App.stopOnce lets one Stop in, which runs the hooks, after the manager's Stop.
AppStopInv ==
    /\ astp \in [AppStoppers -> {"idle", "once", "manager", "wait", "hooks", "done"}]
    /\ aonce \in {"free", "held", "done"}
    /\ hooksRun = IF aonce = "done" THEN 1 ELSE 0
    /\ \A t \in AppStoppers : astp[t] \in {"manager", "wait", "hooks"} => aonce = "held"
    /\ \A t \in AppStoppers : astp[t] = "done" => aonce = "done"
    /\ \A t, u \in AppStoppers : /\ astp[t] \in {"manager", "wait", "hooks"}
                                /\ astp[u] \in {"manager", "wait", "hooks"} => t = u
    /\ \A t \in AppStoppers : astp[t] \in {"wait", "hooks"} => stp["external"] = "done"
    /\ aonce = "done" => stp["external"] = "done"
    /\ runner = "exited" /\ outcome # "timeout" => apc = "gone" /\ astp["runner"] = "done"

\* The service is made when New is through, Run runs only after that, and what
\* may close the store rules out a listener.
StoreInv ==
    /\ made # {} => boot = "ready"
    /\ run = "listen" \/ listening => boot = "ready"
    /\ boot \notin {"off", "failed"} => db # "none"
    /\ db \in {"none", "open", "closed"}
    /\ listening => srvOnce = "free"
    /\ svcStop \in {"close", "done"} => srvOnce = "done"
    /\ db = "closed" => srvOnce = "done" \/ boot = "failed"

\* What the goroutines of the service are at, seen from the manager.
GoneInv ==
    /\ boot \in {"off", "migrate", "seed", "deps", "wire", "ready", "failed",
                "unmigrated"}
    /\ boot = "failed" => db # "open"
    /\ boot = "off" => db # "open"
    /\ boot \in {"migrate", "seed", "deps", "wire"} => rpc = "idle"
    /\ run \in {"off", "listen", "serve", "shut", "join", "returned"}
    /\ run \notin {"off", "returned"} => svc[Server] = "running"
    /\ ticker \notin {"off", "gone"} => run \notin {"off", "returned"}
    /\ listening => run \in {"serve", "shut"}
    /\ svcStop \in {"idle", "server", "close", "done"}
    /\ svcStop # "idle" => rpc # "idle"
    /\ svcStop \in {"server", "close"} => stopSvc[Server] = "calling"
    /\ svcStop = "done" => db = "closed"

\* Nobody is left in a call of Stop when the manager has returned and the
\* outside Stop has, too.
CallingInv ==
    /\ \A s \in Services : stopSvc[s] = "calling" => \E t \in Stoppers : stp[t] = "groupwait"
    /\ stp["deferred"] # "idle" => rpc \in {"stop", "join", "returned"}
    /\ rpc \in {"join", "returned"} => stp["deferred"] \in {"idle", "done"}

-----------------------------------------------------------------------------
(* What the steps of the manager and of the service leave alone. *)

outerVars == <<runnerVars, appVars, astopVars, parentDone>>

LEMMA ManagerLeaves ==
  ASSUME ManagerStep
  PROVE  UNCHANGED outerVars /\ (rpc = "returned" => rpc' = "returned")
<1>1. ASSUME RunStep PROVE parentDone' = parentDone /\ rpc # "returned"
  BY <1>1 DEF RunStep, Instantiate, FactoryFails, Prepare, SortGroup, SortDone,
     LockGroups, LaunchGroup, AppendGroup, UnlockGroups, SelectDone, SelectFailed,
     AwaitServices, Return
<1>2. ASSUME NEW t \in Stoppers, StopStep(t)
      PROVE  parentDone' = parentDone /\ rpc' = rpc
  BY <1>2 DEF StopStep, StopCancel, StopOnce, StopLock, StopGroup, StopGroupDone, StopEnd
<1>3. QED
  BY <1>1, <1>2 DEF ManagerStep, outerVars

\* All that is not the application's or the runner's.
InnerStep ==
    \/ ManagerSide
    \/ BootStep \/ ServeStep \/ ServeFails \/ ErrorReported \/ StopSide
    \/ Tick \/ ScheduledSyncEnds \/ TickerStops
    \/ \E r \in Requests : Accept(r) \/ Answer(r)
    \/ UNCHANGED procVars

LEMMA InnerLeaves ==
  ASSUME InnerStep
  PROVE  UNCHANGED outerVars /\ (rpc = "returned" => rpc' = "returned")
<1> USE DEF outerVars, lifeVars, vars
<1>1. CASE ManagerSide
  BY <1>1, ManagerLeaves DEF ManagerSide
<1>2. CASE BootStep \/ ServeFails
  BY <1>2 DEF BootStep, OpenStore, Migrate, SeedBuiltinTemplates, BuildDeps, Wire,
              Booting, ServeFails
<1>3. CASE ServeStep
  BY <1>3 DEF ServeStep, RunBegins, Listen, WaitForCompletion, StartStops, RunReturns,
              OfService, Begin, Fail, ExitCleanly, runVars
<1>4. CASE ErrorReported \/ StopSide
  BY <1>4 DEF ErrorReported, StopSide, StopServer, CloseStore, StopReturns, OfService,
              HandleError, ServiceStops, runVars
<1>5. CASE Tick \/ ScheduledSyncEnds \/ TickerStops
  BY <1>5 DEF Tick, ScheduledSyncEnds, TickerStops
<1>6. CASE \E r \in Requests : Accept(r) \/ Answer(r)
  BY <1>6 DEF Accept, Answer
<1>7. CASE UNCHANGED procVars
  BY <1>7 DEF procVars
<1>8. QED
  BY <1>1, <1>2, <1>3, <1>4, <1>5, <1>6, <1>7 DEF InnerStep

\* Every step is one of these.
LEMMA ProcessSteps ==
  ASSUME [ProcessNext]_procVars
  PROVE  \/ InnerStep
         \/ (AppRunStep \/ RunnerStep \/ Signal \/ ShutdownTimesOut) /\ UNCHANGED serverVars
         \/ \E t \in AppStoppers : AppStopStep(t) /\ UNCHANGED serverVars
BY DEF ProcessNext, AroundService, InnerStep

-----------------------------------------------------------------------------
(* The application and the runner. *)

LEMMA StepChannelInv == ChannelInv /\ [ProcessNext]_procVars => ChannelInv'
<1> SUFFICES ASSUME ChannelInv, [ProcessNext]_procVars PROVE ChannelInv'
  OBVIOUS
<1> USE DEF ChannelInv, BeforeLaunch, appVars, vars, mgrVars
<1>1. CASE InnerStep
  BY <1>1, InnerLeaves DEF outerVars
<1>2. CASE AppRunStep
  BY <1>2 DEF AppRunStep, SetAppCancel, RunPreRunHooks, LaunchManager, ForwardError,
     AppSelectDone, AppSelectFailed, AwaitManager, ManagerGone, AppReturn, RunAppEnds
<1>3. CASE RunnerStep \/ Signal \/ ShutdownTimesOut
  BY <1>3 DEF RunnerStep, WaitForShutdown, ShutdownCompletes, Signal, ShutdownTimesOut
<1>4. ASSUME NEW t \in AppStoppers, AppStopStep(t) PROVE ChannelInv'
  BY <1>4 DEF AppStopStep, AppStopCancel, AppStopOnce, AppStopManagerDone,
     AppStopWaited, RunPostStopHooks
<1>5. QED
  BY <1>1, <1>2, <1>3, <1>4, ProcessSteps

LEMMA StepErrorInv == ErrorInv /\ [ProcessNext]_procVars => ErrorInv'
<1> SUFFICES ASSUME ErrorInv, [ProcessNext]_procVars PROVE ErrorInv'
  OBVIOUS
<1> USE DEF ErrorInv, appVars, runnerVars, vars, mgrVars
<1>1. CASE InnerStep
  BY <1>1, InnerLeaves DEF outerVars
<1>2. CASE AppRunStep
  <2>1. CASE AppSelectDone \/ AppReturn \/ RunAppEnds
    BY <2>1 DEF AppSelectDone, AppReturn, RunAppEnds
  <2>2. CASE SetAppCancel \/ RunPreRunHooks \/ LaunchManager \/ ForwardError
             \/ AppSelectFailed \/ AwaitManager
    BY <2>2 DEF SetAppCancel, RunPreRunHooks, LaunchManager, ForwardError,
                AppSelectFailed, AwaitManager
  <2>3. QED
    BY <1>2, <2>1, <2>2 DEF AppRunStep
<1>3. CASE RunnerStep \/ Signal \/ ShutdownTimesOut
  BY <1>3 DEF RunnerStep, WaitForShutdown, ShutdownCompletes, Signal, ShutdownTimesOut
<1>4. ASSUME NEW t \in AppStoppers, AppStopStep(t) PROVE ErrorInv'
  <2>1. UNCHANGED <<runnerVars, appVars>>
    BY <1>4 DEF AppStopStep, AppStopCancel, AppStopOnce, AppStopManagerDone,
       AppStopWaited, RunPostStopHooks
  <2>2. parentDone' => parentDone \/ runner # "waiting" \/ apc = "stop"
    <3>1. CASE AppStopCancel(t)
      BY <3>1 DEF AppStopCancel
    <3>2. CASE parentDone' = parentDone
      BY <3>2
    <3>3. QED
      BY <1>4, <3>1, <3>2 DEF AppStopStep, AppStopOnce, AppStopManagerDone,
         AppStopWaited, RunPostStopHooks
  <2>3. QED
    BY <2>1, <2>2
<1>5. QED
  BY <1>1, <1>2, <1>3, <1>4, ProcessSteps

LEMMA ChannelCorrect == ProcessSpec => []ChannelInv
<1>1. ProcessInit => ChannelInv
  BY DEF ProcessInit, LifeInit, Init, ChannelInv, BeforeLaunch
<1>2. QED
  BY <1>1, StepChannelInv, PTL DEF ProcessSpec

\* Nobody sends on App.Run's channel once it is closed, whatever the order of
\* signal, failure and the two Stops.
THEOREM ChannelOutlivesSender == ProcessSpec => []NoSendOnClosed
<1>1. ChannelInv => NoSendOnClosed
  BY DEF ChannelInv, NoSendOnClosed
<1>2. QED
  BY <1>1, ChannelCorrect, PTL

\* A process nobody signalled does not report success.
THEOREM ErrorsComeUp == ProcessSpec => []ErrorNotSwallowed
<1>1. ProcessInit => ErrorInv
  BY DEF ProcessInit, LifeInit, Init, ErrorInv
<1>2. ErrorInv => ErrorNotSwallowed
  BY DEF ErrorInv, ErrorNotSwallowed
<1>3. QED
  BY <1>1, <1>2, StepErrorInv, PTL DEF ProcessSpec

-----------------------------------------------------------------------------
(* The end of the process. *)

\* A Stop of the manager that is through stays so.
LEMMA StopStaysDone ==
  ASSUME [Next]_vars, MainInv, stp["external"] = "done"
  PROVE  stp'["external"] = "done"
<1> USE DEF MainInv, TypeOK, Stoppers
<1>1. ASSUME NEW t \in Stoppers, StopStep(t) PROVE stp'["external"] = "done"
  BY <1>1 DEF StopStep, StopCancel, StopOnce, StopLock, StopGroup, StopGroupDone,
     StopEnd, Step
<1>2. CASE RunStep
  BY <1>2 DEF RunStep, Instantiate, FactoryFails, Prepare, SortGroup, SortDone,
     LockGroups, LaunchGroup, AppendGroup, UnlockGroups, SelectDone, SelectFailed,
     AwaitServices, Return, stopVars
<1>3. ASSUME NEW s \in Services, ServiceStep(s) \/ ServiceStops(s)
      PROVE  stp'["external"] = "done"
  BY <1>3 DEF ServiceStep, ServiceStops, Begin, SignalReady, ExitCleanly, Fail, Retry,
     HandleError, stopVars
<1>4. CASE ParentCancels \/ UNCHANGED vars
  BY <1>4 DEF ParentCancels, vars, stopVars
<1>5. QED
  BY <1>1, <1>2, <1>3, <1>4 DEF Next

LEMMA StepAppStopInv ==
  MainInv /\ AppStopInv /\ [ProcessNext]_procVars => AppStopInv'
<1> SUFFICES ASSUME MainInv, AppStopInv, [ProcessNext]_procVars PROVE AppStopInv'
  OBVIOUS
<1>0. stp["external"] = "done" => stp'["external"] = "done"
  BY StepIsManaged, StopStaysDone
<1> USE <1>0 DEF AppStopInv
<1>1. CASE InnerStep
  BY <1>1, InnerLeaves DEF outerVars, runnerVars, appVars, astopVars
<1>2. CASE AppRunStep
  <2>1. UNCHANGED <<astopVars, runner, outcome>> /\ (apc = "gone" => apc' = "gone")
    BY <1>2 DEF AppRunStep, SetAppCancel, RunPreRunHooks, LaunchManager, ForwardError,
       AppSelectDone, AppSelectFailed, AwaitManager, AppReturn, RunAppEnds, runnerVars,
       appVars
  <2>2. QED
    BY <2>1 DEF astopVars
<1>3. CASE RunnerStep \/ Signal \/ ShutdownTimesOut
  BY <1>3 DEF RunnerStep, WaitForShutdown, ShutdownCompletes, BothReturned, Signal,
     ShutdownTimesOut, astopVars, appVars
<1>4. ASSUME NEW t \in AppStoppers, AppStopStep(t) PROVE AppStopInv'
  <2>0. UNCHANGED <<runner, outcome, apc>>
    BY <1>4 DEF AppStopStep, AppStopCancel, AppStopOnce, AppStopManagerDone,
       AppStopWaited, RunPostStopHooks, runnerVars, appVars
  <2>1. CASE AppStopCancel(t)
    BY <2>0, <2>1 DEF AppStopCancel, AppStep
  <2>2. CASE AppStopOnce(t)
    BY <2>0, <2>2 DEF AppStopOnce, AppStep, vars
  <2>3. CASE AppStopManagerDone(t)
    BY <2>0, <2>3 DEF AppStopManagerDone, AppStep, vars
  <2>4. CASE AppStopWaited(t)
    BY <2>0, <2>4 DEF AppStopWaited, AppStep, vars
  <2>5. CASE RunPostStopHooks(t)
    BY <2>0, <2>5 DEF RunPostStopHooks, AppStep, vars
  <2>6. QED
    BY <1>4, <2>1, <2>2, <2>3, <2>4, <2>5 DEF AppStopStep
<1>5. QED
  BY <1>1, <1>2, <1>3, <1>4, ProcessSteps

LEMMA AppStopCorrect == ProcessSpec => []AppStopInv
<1>1. ProcessInit => AppStopInv
  BY DEF ProcessInit, LifeInit, Init, AppStopInv
<1>2. QED
  BY <1>1, StepAppStopInv, ProcessIsManaged, MainCorrect, PTL DEF ProcessSpec

\* A process that ends in time leaves no goroutine behind and has run its hooks
\* once, although App.Stop is called twice.
THEOREM EndsCleanly == ProcessSpec => []CleanExit
<1>1. ChannelInv /\ AppStopInv /\ QuietInv => CleanExit
  BY DEF ChannelInv, AppStopInv, QuietInv, CleanExit, BeforeLaunch
<1>2. QED
  BY <1>1, ChannelCorrect, AppStopCorrect, ProcessIsManaged, QuietCorrect, PTL

-----------------------------------------------------------------------------
(* The service and its store. *)

\* Nothing around the service changes what Run has made, launched or called.
LEMMA OuterLeaves ==
  ASSUME \/ AppRunStep \/ RunnerStep \/ Signal \/ ShutdownTimesOut
         \/ \E t \in AppStoppers : AppStopStep(t)
  PROVE  UNCHANGED mgrVars
<1>1. CASE AppRunStep
  BY <1>1 DEF AppRunStep, SetAppCancel, RunPreRunHooks, LaunchManager, ForwardError,
     AppSelectDone, AppSelectFailed, AwaitManager, AppReturn, RunAppEnds, vars, mgrVars,
     runVars, svcVars, stopVars
<1>2. CASE RunnerStep \/ Signal \/ ShutdownTimesOut
  BY <1>2 DEF RunnerStep, WaitForShutdown, ShutdownCompletes, Signal, ShutdownTimesOut,
     vars, mgrVars, runVars, svcVars, stopVars
<1>3. CASE \E t \in AppStoppers : AppStopStep(t)
  BY <1>3 DEF AppStopStep, AppStopCancel, AppStopOnce, AppStopManagerDone, AppStopWaited,
     RunPostStopHooks, vars, mgrVars, runVars, svcVars, stopVars
<1>4. QED
  BY <1>1, <1>2, <1>3

\* Run decides what it makes when the factory answers.
LEMMA ManagerMakes ==
  ASSUME ManagerSide, MainInv
  PROVE  made' = made \/ boot = "ready" \/ made' = {}
<1>1. CASE Instantiate \/ FactoryFails
  <2>1. rpc = "idle" /\ rpc' # "idle"
    BY <1>1 DEF Instantiate, FactoryFails
  <2>2. CASE Instantiate
    BY <2>1, <2>2 DEF ManagerSide, FactoryAnswers, Instantiate
  <2>3. CASE FactoryFails
    BY <2>3 DEF FactoryFails
  <2>4. QED
    BY <1>1, <2>2, <2>3
<1>2. CASE ~(Instantiate \/ FactoryFails) /\ RunStep
  BY <1>2 DEF RunStep, Prepare, SortGroup, SortDone, LockGroups, LaunchGroup, AppendGroup,
     UnlockGroups, SelectDone, SelectFailed, AwaitServices, Return, runVars
<1>3. ASSUME NEW t \in Stoppers, StopStep(t) PROVE made' = made
  BY <1>3 DEF StopStep, StopCancel, StopOnce, StopLock, StopGroup, StopGroupDone, StopEnd,
     runVars
<1>4. RunStep \/ \E t \in Stoppers : StopStep(t)
  BY DEF ManagerSide, ManagerStep
<1>5. QED
  BY <1>1, <1>2, <1>3, <1>4

LEMMA StepStoreInv ==
  MainInv /\ LaunchInv /\ StoreInv /\ [ProcessNext]_procVars => StoreInv'
<1> SUFFICES ASSUME MainInv, LaunchInv, StoreInv, [ProcessNext]_procVars PROVE StoreInv'
  OBVIOUS
<1> USE DEF StoreInv
<1>1. CASE ManagerSide
  <2>1. made' # {} => boot = "ready"
    BY <1>1, ManagerMakes
  <2>2. svcStop' \in {"close", "done"} => svcStop \in {"close", "done"}
    BY <1>1 DEF ManagerSide, StopIsCalled
  <2>3. QED
    BY <1>1, <2>1, <2>2 DEF ManagerSide, serveVars
<1>2. CASE BootStep \/ ServeFails
  BY <1>2 DEF BootStep, OpenStore, Migrate, SeedBuiltinTemplates, BuildDeps, Wire,
     Booting, ServeFails, lifeVars, vars, serveVars
<1>3. CASE RunBegins
  <2>1. Server \in made
    BY <1>3, LaunchedAreMade DEF RunBegins, OfService, Begin
  <2>2. QED
    BY <1>3, <2>1 DEF RunBegins, OfService, Begin, runVars
<1>4. CASE Listen \/ WaitForCompletion \/ StartStops
  <2>1. CASE Listen
    <3>1. listening' => srvOnce = "free"
      BY <2>1 DEF Listen
    <3>2. /\ UNCHANGED <<made, boot, db, srvOnce, svcStop>>
          /\ run = "listen" /\ run' = "serve"
      BY <2>1 DEF Listen, lifeVars, vars
    <3>3. QED
      BY <3>1, <3>2
  <2>2. CASE WaitForCompletion \/ StartStops
    BY <2>2 DEF WaitForCompletion, StartStops, Shutdown, Drained, lifeVars, vars,
       serveVars
  <2>3. QED
    BY <1>4, <2>1, <2>2
<1>5. CASE RunReturns
  BY <1>5 DEF RunReturns, OfService, Fail, ExitCleanly, runVars
<1>6. CASE ErrorReported \/ StopSide
  BY <1>6 DEF ErrorReported, StopSide, StopServer, CloseStore, StopReturns, OfService,
     HandleError, ServiceStops, Shutdown, Drained, runVars, serverVars, serveVars,
     lifeVars, vars
<1>7. CASE Tick \/ ScheduledSyncEnds \/ TickerStops
  BY <1>7 DEF Tick, ScheduledSyncEnds, TickerStops, lifeVars, vars, serveVars
<1>8. CASE \E r \in Requests : Accept(r) \/ Answer(r)
  BY <1>8 DEF Accept, Answer, lifeVars, vars, serveVars
<1>9. CASE UNCHANGED procVars
  BY <1>9 DEF procVars, lifeVars, vars, serverVars, serveVars
<1>10. CASE AroundService
  BY <1>10, OuterLeaves DEF AroundService, mgrVars, runVars, serverVars, serveVars
<1>11. QED
  BY <1>1, <1>2, <1>3, <1>4, <1>5, <1>6, <1>7, <1>8, <1>9, <1>10
     DEF ProcessNext, ServeStep

\* A request never meets a store that is not there yet or no longer: New comes
\* before the listener, and the listener is gone before the store is closed.
THEOREM OpenWhileServing == ProcessSpec => []ServingMeansOpen
<1>1. ProcessInit => StoreInv
  BY DEF ProcessInit, LifeInit, Init, StoreInv
<1>2. StoreInv => ServingMeansOpen
  BY DEF StoreInv, ServingMeansOpen
<1>3. QED
  BY <1>1, <1>2, StepStoreInv, ProcessIsManaged, MainCorrect, LaunchCorrect, PTL
     DEF ProcessSpec

-----------------------------------------------------------------------------
(* What is left of the service at the end. *)

LEMMA StepCallingInv == MainInv /\ CallingInv /\ [Next]_vars => CallingInv'
<1> SUFFICES ASSUME MainInv, CallingInv, [Next]_vars PROVE CallingInv'
  OBVIOUS
<1>0. TypeOK
  BY DEF MainInv
<1> USE DEF CallingInv
<1>1. CASE RunStep
  BY <1>1 DEF RunStep, Instantiate, FactoryFails, Prepare, SortGroup, SortDone,
     LockGroups, LaunchGroup, AppendGroup, UnlockGroups, SelectDone, SelectFailed,
     AwaitServices, Return, stopVars
<1>2. ASSUME NEW s \in Services, ServiceStep(s) PROVE CallingInv'
  BY <1>2 DEF ServiceStep, Begin, SignalReady, ExitCleanly, Fail, Retry, HandleError,
     stopVars
<1>3. ASSUME NEW s \in Services, ServiceStops(s) PROVE CallingInv'
  BY <1>0, <1>3 DEF ServiceStops, TypeOK
<1>4. ASSUME NEW t \in Stoppers, StopStep(t) PROVE CallingInv'
  <2> USE <1>0 DEF TypeOK, Step
  <2>1. CASE StopGroup(t)
    BY <2>1 DEF StopGroup
  <2>2. CASE StopGroupDone(t)
    BY <2>2 DEF StopGroupDone
  <2>3. CASE StopCancel(t) \/ StopOnce(t) \/ StopLock(t) \/ StopEnd(t)
    BY <2>3 DEF StopCancel, StopOnce, StopLock, StopEnd
  <2>4. QED
    BY <1>4, <2>1, <2>2, <2>3 DEF StopStep
<1>5. CASE ParentCancels \/ UNCHANGED vars
  BY <1>5 DEF ParentCancels, vars, stopVars
<1>6. QED
  BY <1>1, <1>2, <1>3, <1>4, <1>5 DEF Next

\* What the manager's own steps do to a service and to its Stop.
LEMMA ManagerCalls ==
  ASSUME ManagerSide, MainInv, LaunchInv
  PROVE  /\ svc[Server] = "running" => svc'[Server] = "running"
         /\ rpc # "idle" => rpc' # "idle"
         /\ stopSvc[Server] = "calling" => stopSvc'[Server] = "calling"
         /\ stopSvc[Server] = "no" /\ stopSvc'[Server] = "calling" => rpc # "idle"
<1>0. TypeOK /\ PlaceInv /\ Server \in Services
  BY DEF MainInv
<1>1. CASE LaunchGroup
  <2>1. svc[Server] = "running" => Server \notin groups[gi]
    BY <1>0, <1>1, LaunchedAreMade DEF LaunchGroup
  <2>2. QED
    BY <1>0, <1>1, <2>1 DEF LaunchGroup, Group, TypeOK, stopVars
<1>2. CASE RunStep /\ ~LaunchGroup
  BY <1>2 DEF RunStep, Instantiate, FactoryFails, Prepare, SortGroup, SortDone, LockGroups,
     AppendGroup, UnlockGroups, SelectDone, SelectFailed, AwaitServices, Return, svcVars,
     stopVars
<1>3. ASSUME NEW t \in Stoppers, StopStep(t)
      PROVE  /\ svc' = svc /\ rpc' = rpc
             /\ stopSvc[Server] = "calling" => stopSvc'[Server] = "calling"
             /\ stopSvc[Server] = "no" /\ stopSvc'[Server] = "calling" => rpc # "idle"
  <2>1. CASE StopGroup(t)
    <3>1. rpc \notin Early
      BY <1>0, <2>1 DEF StopGroup, PlaceInv, TypeOK
    <3>2. QED
      BY <1>0, <2>1, <3>1 DEF StopGroup, svcVars, TypeOK, Early
  <2>2. CASE StopCancel(t) \/ StopOnce(t) \/ StopLock(t) \/ StopGroupDone(t) \/ StopEnd(t)
    BY <2>2 DEF StopCancel, StopOnce, StopLock, StopGroupDone, StopEnd, svcVars
  <2>3. QED
    BY <1>3, <2>1, <2>2 DEF StopStep
<1>4. RunStep \/ \E t \in Stoppers : StopStep(t)
  BY DEF ManagerSide, ManagerStep
<1>5. QED
  BY <1>1, <1>2, <1>3, <1>4

LEMMA StepGoneInv ==
  MainInv /\ LaunchInv /\ StoreInv /\ GoneInv /\ [ProcessNext]_procVars => GoneInv'
<1> SUFFICES ASSUME MainInv, LaunchInv, StoreInv, GoneInv, [ProcessNext]_procVars
             PROVE  GoneInv'
  OBVIOUS
<1>0. TypeOK /\ Server \in Services
  BY DEF MainInv
<1> USE DEF GoneInv
<1>1. CASE ManagerSide
  <2>1. boot' \in {"migrate", "seed", "deps", "wire"} => rpc' = "idle"
    BY <1>1 DEF ManagerSide, FactoryAnswers
  <2>2. QED
    BY <1>1, <2>1, ManagerCalls DEF ManagerSide, StopIsCalled, serveVars
<1>2. CASE BootStep
  BY <1>2 DEF BootStep, OpenStore, Migrate, SeedBuiltinTemplates, BuildDeps, Wire,
     Booting, lifeVars, vars, serveVars
<1>3. CASE ServeFails
  BY <1>3 DEF ServeFails, lifeVars, vars
<1>4. CASE RunBegins
  BY <1>0, <1>4 DEF RunBegins, OfService, Begin, Set, TypeOK, stopVars
<1>5. CASE Listen \/ WaitForCompletion
  BY <1>5 DEF Listen, WaitForCompletion, lifeVars, vars
<1>6. CASE StartStops
  BY <1>6 DEF StoreInv, StartStops, Shutdown, Drained, lifeVars, vars
<1>7. CASE RunReturns
  <2>1. ticker = "gone" /\ run = "join" /\ run' = "returned"
        /\ UNCHANGED <<boot, db, rpc, listening, svcStop, ticker, stopSvc>>
    BY <1>7 DEF RunReturns, TickerGone, OfService, Fail, ExitCleanly, stopVars
  <2>2. QED
    BY <2>1
<1>8. CASE ErrorReported
  <2>1. svc[Server] = "failing"
        /\ UNCHANGED <<boot, db, rpc, run, listening, svcStop, ticker, stopSvc>>
    BY <1>8 DEF ErrorReported, OfService, HandleError, stopVars, serverVars, serveVars
  <2>2. QED
    BY <2>1
<1>9. CASE StopServer \/ CloseStore
  BY <1>9 DEF StopServer, CloseStore, Shutdown, Drained, lifeVars, vars, serveVars
<1>10. CASE StopReturns
  BY <1>10 DEF StopReturns, OfService, ServiceStops, serverVars, serveVars, svcVars
<1>11. CASE Tick \/ ScheduledSyncEnds \/ TickerStops
  BY <1>11 DEF Tick, ScheduledSyncEnds, TickerStops, lifeVars, vars, serveVars
<1>12. CASE \E r \in Requests : Accept(r) \/ Answer(r)
  BY <1>12 DEF Accept, Answer, lifeVars, vars, serveVars
<1>13. CASE UNCHANGED procVars
  BY <1>13 DEF procVars, lifeVars, vars, serverVars, serveVars
<1>14. CASE AroundService
  BY <1>14, OuterLeaves DEF AroundService, mgrVars, svcVars, stopVars, serverVars, serveVars
<1>15. QED
  BY <1>1, <1>2, <1>3, <1>4, <1>5, <1>6, <1>7, <1>8, <1>9, <1>10, <1>11, <1>12, <1>13,
     <1>14 DEF ProcessNext, ServeStep, StopSide

\* What a process that ends in time leaves behind: nothing, the store included.
THEOREM NothingLeft == ProcessSpec => []ServiceGone
<1>1. ProcessInit => CallingInv /\ StoreInv /\ GoneInv
  BY DEF ProcessInit, LifeInit, Init, CallingInv, StoreInv, GoneInv
<1>2. ChannelInv /\ AppStopInv /\ QuietInv /\ CallingInv /\ GoneInv => ServiceGone
  BY DEF ChannelInv, AppStopInv, QuietInv, CallingInv, GoneInv, ServiceGone, Alive,
     BeforeLaunch
<1>3. QED
  BY <1>1, <1>2, StepCallingInv, StepStoreInv, StepGoneInv, StepIsManaged, ProcessIsManaged,
     MainCorrect, LaunchCorrect, QuietCorrect, ChannelCorrect, AppStopCorrect, PTL
     DEF ProcessSpec

=============================================================================
