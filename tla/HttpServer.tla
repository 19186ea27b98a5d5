----------------------------- MODULE HttpServer -----------------------------
(***************************************************************************)
(* The one service of the program, internal/pkg/services/http-server, in   *)
(* the process that runs it: New boots the store, Run serves HTTP beside   *)
(* the sync ticker, Stop shuts the server down and closes the store.  The  *)
(* server under Run and Stop is the vendored serbewr.Server.               *)
(*                                                                         *)
(* AppLifecycle supplies the rest of the process; here the service it      *)
(* leaves open becomes code: its factory is New, what it calls its Run and *)
(* Stop are Run and Stop below, and they return when that code returns.    *)
(***************************************************************************)
EXTENDS AppLifecycle

CONSTANTS
    Server,      \* the service's name, the only one registered
    Requests,    \* HTTP requests that may arrive
    SyncTicker   \* TRUE iff GITRAKZ_SYNC_INTERVAL is positive, as by default

ASSUME HttpServerAssumption ==
    /\ Services = {Server}
    /\ SyncTicker \in BOOLEAN

VARIABLES
    boot,       \* how far New is
    db,         \* the store's handle
    run,        \* where Run is, Server.Start and its deferred Stop included
    startErr,   \* what Start returns
    listening,  \* the listener accepts connections
    srvOnce,    \* serbewr's stopOnce, with who is inside; doneCh is closed
                \* as soon as somebody is
    drained,    \* how the server's shutdown ended
    svcStop,    \* where Service.Stop is
    ticker,     \* the goroutine of runSyncTicker
    inFlight    \* requests that are being handled

serveVars  == <<run, startErr>>
serverVars == <<boot, db, serveVars, listening, srvOnce, drained, svcStop,
                ticker, inFlight>>
procVars   == <<lifeVars, serverVars>>

ProcessInit ==
    /\ LifeInit
    /\ boot = "off" /\ db = "none"
    /\ run = "off" /\ startErr = "none"
    /\ listening = FALSE /\ srvOnce = "free" /\ drained = "no"
    /\ svcStop = "idle"
    /\ ticker = "off" /\ inFlight = {}

-----------------------------------------------------------------------------
(* New, called by instantiateAll. *)

OpenStore ==
    /\ mgr = "running" /\ rpc = "idle"
    /\ boot = "off"
    /\ \/ boot' = "migrate" /\ db' = "open"
       \/ boot' = "failed" /\ UNCHANGED db
    /\ UNCHANGED <<lifeVars, serveVars, listening, srvOnce, drained, svcStop,
                   ticker, inFlight>>

\* A failing migration leaves the handle it was given open, and db.Open, which
\* then has no store to return, does not close it either.
Migrate ==
    /\ boot = "migrate"
    /\ boot' \in {"seed", "unmigrated"}
    /\ UNCHANGED <<lifeVars, db, serveVars, listening, srvOnce, drained,
                   svcStop, ticker, inFlight>>

\* The next part of New, which closes the store if it fails.
Booting(from, to) ==
    /\ boot = from
    /\ \/ boot' = to /\ UNCHANGED db
       \/ boot' = "failed" /\ db' = "closed"
    /\ UNCHANGED <<lifeVars, serveVars, listening, srvOnce, drained, svcStop,
                   ticker, inFlight>>

SeedBuiltinTemplates == Booting("seed", "deps")

\* What is made here is modelled where it is used; it may fail on the
\* parameters of the sessionizer.
BuildDeps == Booting("deps", "wire")

\* The router and the server, which may refuse its configuration.
Wire == Booting("wire", "ready")

\* What the factory answers: a service once New is through, its error, or
\* nothing at all because SERVICES_ENABLED leaves the service out.
FactoryAnswers ==
    rpc = "idle" /\ rpc' # "idle" =>
        CASE boot = "ready"  -> made' = {Server}
          [] boot \in {"failed", "unmigrated"} -> rpc' = "returned"
          [] boot = "off"    -> rpc' = "context" /\ made' = {}
          [] OTHER           -> FALSE

-----------------------------------------------------------------------------
(* Service.Run. *)

\* The ticker is launched and Start called.
RunBegins ==
    /\ OfService(Begin(Server))
    /\ run' = "listen"
    /\ ticker' = IF SyncTicker THEN "idle" ELSE "gone"
    /\ UNCHANGED <<boot, db, startErr, listening, srvOnce, drained, svcStop,
                   inFlight>>

\* Start gets its listener; Serve refuses it when the shutdown has begun.
Listen ==
    /\ run = "listen"
    /\ run' = "serve"
    /\ listening' = (srvOnce = "free")
    /\ UNCHANGED <<lifeVars, boot, db, startErr, srvOnce, drained, svcStop,
                   ticker, inFlight>>

\* The address is taken, or accepting fails later.
ServeFails ==
    /\ run \in {"listen", "serve"}
    /\ run' = "shut" /\ startErr' = "failed"
    /\ UNCHANGED <<lifeVars, boot, db, listening, srvOnce, drained, svcStop,
                   ticker, inFlight>>

\* waitForCompletion: the context is done, or Stop has closed doneCh.
WaitForCompletion ==
    /\ run = "serve"
    /\ \/ CtxDone /\ startErr' = "canceled"
       \/ srvOnce # "free" /\ startErr' = "nil"
    /\ run' = "shut"
    /\ UNCHANGED <<lifeVars, boot, db, listening, srvOnce, drained, svcStop,
                   ticker, inFlight>>

\* Server.Stop by w: the first in stops the listener and begins to drain, the
\* other waits until that is over.
Shutdown(w) ==
    /\ srvOnce = "free"
    /\ srvOnce' = w
    /\ listening' = FALSE

\* The context w gave to Server.Stop.  Start passes on the one that ended it.
\* Service.Stop has the manager's, which only the runner's App.Stop, waiting
\* in the manager's Stop itself, has not cancelled.
StopCtxDone(w) ==
    IF w = "run" THEN CtxDone
    ELSE ~(stp["external"] = "groupwait" /\ astp["runner"] = "manager")

\* http.Server.Shutdown returns when nothing is in flight, at once when its
\* context is done, and otherwise when ShutdownTimeout has passed.
Drained(w) ==
    /\ srvOnce = w
    /\ srvOnce' = "done"
    /\ drained' = IF inFlight = {} THEN "all"
                  ELSE IF StopCtxDone(w) THEN "canceled" ELSE "timeout"

\* Start's deferred Stop.
StartStops ==
    /\ run = "shut"
    /\ \/ Shutdown("run") /\ UNCHANGED <<run, drained>>
       \/ Drained("run") /\ run' = "join" /\ UNCHANGED listening
       \/ srvOnce = "done" /\ run' = "join" /\ UNCHANGED <<srvOnce, listening, drained>>
    /\ UNCHANGED <<lifeVars, boot, db, startErr, svcStop, ticker, inFlight>>

\* Variant: Run returns without waiting for the ticker.
TickerLeft == TRUE

\* What wg.Wait waits for.
TickerGone == ticker = "gone"

\* Run returns: an error only if the server failed.
RunReturns ==
    /\ run = "join"
    /\ TickerGone
    /\ OfService(IF startErr = "failed" THEN Fail(Server) ELSE ExitCleanly(Server))
    /\ run' = "returned"
    /\ UNCHANGED <<boot, db, startErr, listening, srvOnce, drained, svcStop,
                   ticker, inFlight>>

-----------------------------------------------------------------------------
(* runSyncTicker. *)

Tick ==
    /\ ticker = "idle"
    /\ ticker' = "syncing"
    /\ UNCHANGED <<lifeVars, boot, db, serveVars, listening, srvOnce, drained,
                   svcStop, inFlight>>

\* The scheduled sync ends, well or with a logged error; its panic is recovered
\* outside the loop.
ScheduledSyncEnds ==
    /\ ticker = "syncing"
    /\ ticker' \in {"idle", "gone"}
    /\ UNCHANGED <<lifeVars, boot, db, serveVars, listening, srvOnce, drained,
                   svcStop, inFlight>>

\* Variant: the loop has no case for the context.
TickerRunsOn == FALSE /\ UNCHANGED procVars

\* The loop sees that its context is done.
TickerStops ==
    /\ ticker = "idle"
    /\ CtxDone
    /\ ticker' = "gone"
    /\ UNCHANGED <<lifeVars, boot, db, serveVars, listening, srvOnce, drained,
                   svcStop, inFlight>>

-----------------------------------------------------------------------------
(* Service.Stop. *)

\* The manager's Stop calls it.
StopIsCalled ==
    svcStop' = IF stopSvc[Server] = "no" /\ stopSvc'[Server] = "calling"
               THEN "server" ELSE svcStop

\* Variant: the store is closed first.
StopStoreFirst ==
    /\ svcStop = "server"
    /\ \/ db = "open" /\ db' = "closed" /\ UNCHANGED <<svcStop, srvOnce, listening, drained>>
       \/ db # "open" /\ Shutdown("stop") /\ UNCHANGED <<db, svcStop, drained>>
       \/ Drained("stop") /\ svcStop' = "close" /\ UNCHANGED <<db, listening>>
       \/ srvOnce = "done" /\ svcStop' = "close" /\ UNCHANGED <<db, srvOnce, listening, drained>>
    /\ UNCHANGED <<lifeVars, boot, serveVars, ticker, inFlight>>

StopServer ==
    /\ svcStop = "server"
    /\ \/ Shutdown("stop") /\ UNCHANGED <<svcStop, drained>>
       \/ Drained("stop") /\ svcStop' = "close" /\ UNCHANGED listening
       \/ srvOnce = "done" /\ svcStop' = "close" /\ UNCHANGED <<srvOnce, listening, drained>>
    /\ UNCHANGED <<lifeVars, boot, db, serveVars, ticker, inFlight>>

CloseStore ==
    /\ svcStop = "close"
    /\ db' = "closed"
    /\ svcStop' = "done"
    /\ UNCHANGED <<lifeVars, boot, serveVars, listening, srvOnce, drained,
                   ticker, inFlight>>

StopReturns ==
    /\ svcStop = "done"
    /\ OfService(ServiceStops(Server))
    /\ UNCHANGED serverVars

-----------------------------------------------------------------------------
(* Requests.  Their context is not the server's: no shutdown cancels them. *)

Accept(r) ==
    /\ listening
    /\ inFlight' = inFlight \cup {r}
    /\ UNCHANGED <<lifeVars, boot, db, serveVars, listening, srvOnce, drained,
                   svcStop, ticker>>

\* The handler is through.  Its calls to the store failed if that was closed.
Answer(r) ==
    /\ r \in inFlight
    /\ inFlight' = inFlight \ {r}
    /\ UNCHANGED <<lifeVars, boot, db, serveVars, listening, srvOnce, drained,
                   svcStop, ticker>>

-----------------------------------------------------------------------------

\* The code around the service, with what it asks of the service.
AroundService ==
    /\ \/ AppRunStep
       \/ \E t \in AppStoppers : AppStopStep(t)
       \/ RunnerStep \/ Signal \/ ShutdownTimesOut
    /\ UNCHANGED serverVars

\* runService hands the error of Run to the manager.
ErrorReported == OfService(HandleError(Server)) /\ UNCHANGED serverVars

ManagerSide ==
    /\ ManagerStep
    /\ FactoryAnswers
    /\ StopIsCalled
    /\ UNCHANGED <<boot, db, serveVars, listening, srvOnce, drained, ticker,
                   inFlight>>

BootStep  == OpenStore \/ Migrate \/ SeedBuiltinTemplates \/ BuildDeps \/ Wire
ServeStep == RunBegins \/ Listen \/ WaitForCompletion \/ StartStops \/ RunReturns
StopSide  == StopServer \/ CloseStore \/ StopReturns

\* When the runner has returned main ends the process; until it has, the
\* goroutines a timed-out shutdown left behind run on.
ProcessNext ==
    \/ AroundService \/ ManagerSide
    \/ BootStep \/ ServeStep \/ ServeFails \/ ErrorReported \/ StopSide
    \/ Tick \/ ScheduledSyncEnds \/ TickerStops
    \/ \E r \in Requests : Accept(r) \/ Answer(r)

ProcessSpec == ProcessInit /\ [][ProcessNext]_procVars

\* All code of the process runs on.  A sync whose context is done ends, because
\* gh and the store give up; that a request ends is not assumed, Shutdown's own
\* timer is.  A tick is half an hour from the last, so a done context is seen.
\* Not assumed: a signal, the runner's timer, a failure.
ProcessFairness ==
    /\ WF_procVars(AppRunStep /\ UNCHANGED serverVars)
    /\ WF_procVars(RunnerStep /\ UNCHANGED serverVars)
    /\ \A t \in AppStoppers : WF_procVars(AppStopStep(t) /\ UNCHANGED serverVars)
    /\ WF_procVars(BootStep \/ (ManagerSide /\ stp' = stp))
    /\ \A t \in Stoppers : WF_procVars(ManagerSide /\ stp'[t] # stp[t])
    /\ WF_procVars(ServeStep \/ ErrorReported)
    /\ WF_procVars(StopSide)
    /\ WF_procVars(CtxDone /\ ScheduledSyncEnds)
    /\ SF_procVars(TickerStops)

ProcessFairSpec == ProcessSpec /\ ProcessFairness

-----------------------------------------------------------------------------
(* Properties. *)

\* Nobody is let in once the store is closed: Stop shuts the server down
\* before the store, also when Start has not got its listener yet.
ServingMeansOpen == listening => db = "open"

\* Unless it timed out, the process ends with nothing of the service left
\* behind: no listener, no ticker, no boot half way, and the store closed, by
\* a Service.Stop that was called or by New if it failed after the migration.
ServiceGone ==
    runner = "exited" /\ outcome # "timeout" =>
        /\ ~listening
        /\ ticker \in {"off", "gone"}
        /\ boot \in {"off", "ready", "failed", "unmigrated"}
        /\ boot = "failed" => db # "open"
        /\ svcStop # "idle" => db = "closed"

\* Start's own shutdown is graceful, says the comment on Run: a request in
\* flight loses the store only if it outlasted ShutdownTimeout.  The code breaks
\* this when Start sees the cancelled context before Service.Stop has begun.
InFlightGetsItsTime ==
    db = "closed" /\ inFlight # {} => drained = "timeout"

\* Run blocks until its context is done or the server fails, says its comment.
\* The code breaks this while there is a ticker, which Run waits for and nobody
\* stops.
ServerFailureEndsRun == startErr = "failed" ~> run = "returned"

=============================================================================
