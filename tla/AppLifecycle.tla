---------------------------- MODULE AppLifecycle ----------------------------
(***************************************************************************)
(* The process around the service manager: pkg/runner waits for a signal   *)
(* or for the application to end and then shuts it down under a timer;     *)
(* internal/app runs the manager between its pre-run and post-stop hooks.  *)
(*                                                                         *)
(* Threads, besides those of ServiceManager: the runner's main goroutine,  *)
(* its goroutine in App.Run, its goroutine in App.Stop, and App.Run's      *)
(* goroutine in ServiceManager.Run.  The application's context is what     *)
(* ServiceManager knows as its parent, and App.Stop its outside caller.    *)
(* What the services do is left open; HttpServer puts the program's one    *)
(* service in and makes the whole a specification.                         *)
(***************************************************************************)
EXTENDS ServiceManager

AppStoppers == {"run", "runner"}   \* App.Run's deferred Stop and the runner's

VARIABLES
    runner,     \* where the runner is
    outcome,    \* shutdownErr, and then what the process ends with
    signalled,  \* sigCh holds a signal
    runErr,     \* the runner's errCh: what App.Run returned
    apc,        \* where App.Run is
    appResult,  \* what it is about to return
    appCancel,  \* a.cancel is set
    mgr,        \* App.Run's goroutine in ServiceManager.Run
    appErr,     \* App.Run's errCh, of capacity 1
    astp,       \* where each App.Stop is
    aonce,      \* App.stopOnce
    hooksRun    \* how often the post-stop hooks have run

runnerVars == <<runner, outcome, signalled, runErr>>
appVars    == <<apc, appResult, appCancel, mgr, appErr>>
astopVars  == <<astp, aonce, hooksRun>>
lifeVars   == <<vars, runnerVars, appVars, astopVars>>

LifeInit ==
    /\ Init
    /\ runner = "waiting" /\ outcome = "nil" /\ signalled = FALSE
    /\ runErr = "none"
    /\ apc = "start" /\ appResult = "none" /\ appCancel = FALSE
    /\ mgr = "off" /\ appErr = "empty"
    /\ astp = [t \in AppStoppers |-> "idle"] /\ aonce = "free" /\ hooksRun = 0

\* Everything the manager knows, its context apart.
mgrVars == <<deps, runVars, rpc, svcVars, errCh, cancelled, stopVars>>

-----------------------------------------------------------------------------
(* App.Run. *)

SetAppCancel ==
    /\ apc = "start"
    /\ appCancel' = TRUE
    /\ apc' = "hooks"
    /\ UNCHANGED <<vars, runnerVars, appResult, mgr, appErr, astopVars>>

RunPreRunHooks ==
    /\ apc = "hooks"
    /\ apc' = "launch"
    /\ UNCHANGED <<vars, runnerVars, appResult, appCancel, mgr, appErr, astopVars>>

LaunchManager ==
    /\ apc = "launch"
    /\ mgr' = "running"
    /\ apc' = "select"
    /\ UNCHANGED <<vars, runnerVars, appResult, appCancel, appErr, astopVars>>

\* Variant: the manager's error is dropped.
ForwardNothing ==
    /\ mgr = "running"
    /\ rpc = "returned"
    /\ mgr' = "gone"
    /\ UNCHANGED <<vars, runnerVars, apc, appResult, appCancel, appErr, astopVars>>

\* The manager's Run has returned: its error, if any, goes into errCh.
ForwardError ==
    /\ mgr = "running"
    /\ rpc = "returned"
    /\ appErr' = IF result = "nil" THEN appErr ELSE "full"
    /\ mgr' = "gone"
    /\ UNCHANGED <<vars, runnerVars, apc, appResult, appCancel, astopVars>>

AppSelectDone ==
    /\ apc = "select"
    /\ parentDone
    /\ appResult' = "nil"
    /\ apc' = "stop"
    /\ UNCHANGED <<vars, runnerVars, appCancel, mgr, appErr, astopVars>>

AppSelectFailed ==
    /\ apc = "select"
    /\ appErr = "full"
    /\ appErr' = "empty"
    /\ appResult' = "failed"
    /\ apc' = "stop"
    /\ UNCHANGED <<vars, runnerVars, appCancel, mgr, astopVars>>

\* The deferred Stop has returned; the deferred wg.Wait is next.
AwaitManager ==
    /\ apc = "stop"
    /\ astp["run"] = "done"
    /\ apc' = "join"
    /\ UNCHANGED <<vars, runnerVars, appResult, appCancel, mgr, appErr, astopVars>>

\* Variant: the deferred calls the other way round, close before the wait.
ManagerLeft == TRUE

\* What wg.Wait waits for.
ManagerGone == mgr # "running"

\* The last deferred calls close the channel and cancel the context.
AppReturn ==
    /\ apc = "join"
    /\ ManagerGone
    /\ appErr' = "closed"
    /\ parentDone' = TRUE
    /\ apc' = "returned"
    /\ UNCHANGED <<mgrVars, runnerVars, appResult, appCancel, mgr, astopVars>>

\* runApp passes the result on and is done.
RunAppEnds ==
    /\ apc = "returned"
    /\ runErr' = appResult
    /\ apc' = "gone"
    /\ UNCHANGED <<vars, runner, outcome, signalled, appResult, appCancel, mgr,
                   appErr, astopVars>>

-----------------------------------------------------------------------------
(* App.Stop, called by t. *)

AppStep(t, v) == astp' = [astp EXCEPT ![t] = v]

\* It cancels the application's context, if Run has got as far as setting it.
AppStopCancel(t) ==
    /\ astp[t] = "idle"
    /\ IF t = "run" THEN apc = "stop" ELSE runner = "stopping"
    /\ parentDone' = IF appCancel THEN TRUE ELSE parentDone
    /\ AppStep(t, "once")
    /\ UNCHANGED <<mgrVars, runnerVars, appVars, aonce, hooksRun>>

\* stopOnce: the first in does the work, the other waits until it is done.
AppStopOnce(t) ==
    /\ astp[t] = "once"
    /\ \/ aonce = "free" /\ aonce' = "held" /\ AppStep(t, "manager")
       \/ aonce = "done" /\ AppStep(t, "done") /\ UNCHANGED aonce
    /\ UNCHANGED <<vars, runnerVars, appVars, hooksRun>>

\* serviceManager.Stop has returned.
AppStopManagerDone(t) ==
    /\ astp[t] = "manager"
    /\ stp["external"] = "done"
    /\ AppStep(t, "wait")
    /\ UNCHANGED <<vars, runnerVars, appVars, aonce, hooksRun>>

\* Its wg.Wait returns, at once when the manager's goroutine does not exist yet.
AppStopWaited(t) ==
    /\ astp[t] = "wait"
    /\ ManagerGone
    /\ AppStep(t, "hooks")
    /\ UNCHANGED <<vars, runnerVars, appVars, aonce, hooksRun>>

RunPostStopHooks(t) ==
    /\ astp[t] = "hooks"
    /\ hooksRun' = hooksRun + 1
    /\ aonce' = "done"
    /\ AppStep(t, "done")
    /\ UNCHANGED <<vars, runnerVars, appVars>>

-----------------------------------------------------------------------------
(* The runner. *)

\* Somebody sends SIGINT or SIGTERM.
Signal ==
    /\ ~signalled
    /\ signalled' = TRUE
    /\ UNCHANGED <<vars, runner, outcome, runErr, appVars, astopVars>>

\* Variant: the error App.Run returned is only logged.
WaitForShutdownLogging ==
    /\ runner = "waiting"
    /\ signalled \/ runErr # "none"
    /\ runner' = "stopping"
    /\ UNCHANGED <<vars, outcome, signalled, runErr, appVars, astopVars>>

\* waitForShutdown leaves its select, for the signal or for App.Run's result.
WaitForShutdown ==
    /\ runner = "waiting"
    /\ \/ signalled /\ UNCHANGED outcome
       \/ runErr # "none" /\ outcome' = runErr
    /\ runner' = "stopping"
    /\ UNCHANGED <<vars, signalled, runErr, appVars, astopVars>>

\* Variant: gracefulShutdown waits for the Stop it called and not for App.Run.
StopReturned == astp["runner"] = "done"

\* wg.Wait: both App.Run and the Stop it called have returned.
BothReturned == apc = "gone" /\ astp["runner"] = "done"

ShutdownCompletes ==
    /\ runner = "stopping"
    /\ BothReturned
    /\ runner' = "exited"
    /\ UNCHANGED <<vars, outcome, signalled, runErr, appVars, astopVars>>

ShutdownTimesOut ==
    /\ runner = "stopping"
    /\ outcome' = "timeout"
    /\ runner' = "exited"
    /\ UNCHANGED <<vars, signalled, runErr, appVars, astopVars>>

-----------------------------------------------------------------------------

AppRunStep ==
    \/ SetAppCancel \/ RunPreRunHooks \/ LaunchManager \/ ForwardError
    \/ AppSelectDone \/ AppSelectFailed \/ AwaitManager \/ AppReturn
    \/ RunAppEnds

AppStopStep(t) ==
    \/ AppStopCancel(t) \/ AppStopOnce(t) \/ AppStopManagerDone(t)
    \/ AppStopWaited(t) \/ RunPostStopHooks(t)

RunnerStep == WaitForShutdown \/ ShutdownCompletes

\* A step of the manager's own code: Run once it is launched, its deferred Stop,
\* and the Stop that App.Stop calls.
ManagerStep ==
    /\ \/ mgr = "running" /\ RunStep
       \/ StopStep("deferred")
       \/ (\E t \in AppStoppers : astp[t] = "manager") /\ StopStep("external")
    /\ UNCHANGED <<runnerVars, appVars, astopVars>>

\* A step of a service's goroutine, as far as the manager knows it.
OfService(A) == A /\ UNCHANGED <<runnerVars, appVars, astopVars>>

-----------------------------------------------------------------------------
(* Properties. *)

\* App.Run's error channel is never closed while the goroutine that sends on it
\* is alive, however signal, failure and the two Stops interleave.
NoSendOnClosed == appErr = "closed" => mgr # "running"

\* Unless it timed out, the process ends with nothing left running and the
\* post-stop hooks run once, whoever called App.Stop first.
CleanExit ==
    runner = "exited" /\ outcome # "timeout" =>
        /\ mgr = "gone" /\ rpc = "returned"
        /\ \A s \in Services : ~Alive(s)
        /\ hooksRun = 1

\* The process ends without an error only after a signal; otherwise, the failure
\* that ended the manager's Run has come all the way up.
ErrorNotSwallowed ==
    runner = "exited" /\ outcome = "nil" => signalled

\* Once the application's context is cancelled the process ends, without the
\* help of the shutdown timer.
CancelEndsProcess == parentDone ~> runner = "exited"

\* Once an error has ended the manager's Run the process ends, again without the
\* timer, and without a signal.
FailureEndsProcess ==
    (rpc = "returned" /\ result # "nil") ~> runner = "exited"

=============================================================================
