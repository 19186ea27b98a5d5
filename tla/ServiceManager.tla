--------------------------- MODULE ServiceManager ---------------------------
(***************************************************************************)
(* internal/pkg/service-manager: Run brings up groups of services in       *)
(* dependency order, waits for a failure or a cancellation, and takes them *)
(* down in reverse; Stop may be called at any moment from outside as well. *)
(*                                                                         *)
(* Threads: Run itself, one goroutine per launched service (runService),   *)
(* the Stop that Run defers and one Stop from outside.  A service's own    *)
(* code is external: while it runs it may signal ready, return or fail.    *)
(***************************************************************************)
EXTENDS Naturals, Sequences

CONSTANTS
    Services,     \* the registered services
    DepGraphs,    \* what Dependencies() may say: [Services -> SUBSET names]
    Notifiers,    \* services with a Ready channel
    Allowed,      \* services whose failure is allowed
    MaxRetries,   \* per service, MaxRetries() or 0
    FailsEarly    \* TRUE iff a notifier may fail before it signals ready

ASSUME ServicesAssumption ==
    /\ Notifiers \subseteq Services
    /\ Allowed \subseteq Services
    /\ MaxRetries \in [Services -> Nat]
    /\ \A g \in DepGraphs : DOMAIN g = Services
    /\ FailsEarly \in BOOLEAN

Stoppers == {"deferred", "external"}

VARIABLES
    deps,       \* the dependencies of this behaviour's services
    made,       \* ServiceManager.services, filled by instantiateAll
    rpc,        \* where Run is
    result,     \* what Run returned, or is about to
    placed,     \* services topoSort has put into a group
    groups,     \* the groups in start order
    gi,         \* the group runServiceGroups is at
    started,    \* how many groups are in startGroups
    svc,        \* each service's goroutine
    attempts,   \* how often its Run has failed
    ready,      \* services whose Ready channel is closed
    errCh,      \* Run's channel of capacity 1
    parentDone, \* the context handed to Run is cancelled
    cancelled,  \* the context Run derived from it was cancelled by s.cancel
    cancelSet,  \* s.cancel is set
    stp,        \* where each Stop is
    once,       \* stopOnce
    stopIdx,    \* groups that the Stop inside stopOnce has still to stop
    stopSvc     \* how far each service's own Stop is

runVars   == <<made, result, placed, groups, gi, started, cancelSet>>
svcVars   == <<svc, attempts, ready>>
stopVars  == <<stp, once, stopIdx, stopSvc>>
vars == <<deps, made, rpc, result, placed, groups, gi, started, svc, attempts,
          ready, errCh, parentDone, cancelled, cancelSet, stp, once, stopIdx,
          stopSvc>>

CtxDone == parentDone \/ cancelled
Alive(s) == svc[s] \notin {"off", "exited"}
Group(i) == groups[i]

Init ==
    /\ deps \in DepGraphs
    /\ made = {} /\ rpc = "idle" /\ result = "none"
    /\ placed = {} /\ groups = <<>> /\ gi = 1 /\ started = 0
    /\ svc = [s \in Services |-> "off"]
    /\ attempts = [s \in Services |-> 0]
    /\ ready = {}
    /\ errCh = "empty"
    /\ parentDone = FALSE /\ cancelled = FALSE /\ cancelSet = FALSE
    /\ stp = [t \in Stoppers |-> "idle"]
    /\ once = "free" /\ stopIdx = 0
    /\ stopSvc = [s \in Services |-> "no"]

-----------------------------------------------------------------------------
(* Run, up to the select. *)

\* instantiateAll builds the services SERVICES_ENABLED leaves in.
Instantiate ==
    /\ rpc = "idle"
    /\ \E S \in SUBSET Services : made' = S
    /\ rpc' = "context"
    /\ UNCHANGED <<deps, result, placed, groups, gi, started, cancelSet, svcVars,
                   errCh, parentDone, cancelled, stopVars>>

\* A factory fails: Run returns before anything is deferred.
FactoryFails ==
    /\ rpc = "idle"
    /\ \E S \in SUBSET Services : S # Services /\ made' = S
    /\ rpc' = "returned"
    /\ result' = "factory"
    /\ UNCHANGED <<deps, placed, groups, gi, started, cancelSet, svcVars, errCh,
                   parentDone, cancelled, stopVars>>

\* The context, the deferred calls, and the check for an empty set.
Prepare ==
    /\ rpc = "context"
    /\ cancelSet' = TRUE
    /\ \/ /\ made = {}
          /\ rpc' = "stop" /\ result' = "noservices"
       \/ /\ made # {}
          /\ rpc' = "order" /\ UNCHANGED result
    /\ UNCHANGED <<deps, made, placed, groups, gi, started, svcVars, errCh,
                   parentDone, cancelled, stopVars>>

\* Services not yet placed whose dependencies in this process all are: the
\* queue topoSort's in-degrees leave at zero.
Placeable == {s \in made \ placed : deps[s] \cap made \subseteq placed}

\* One turn of topoSort's loop.
SortGroup ==
    /\ rpc = "order"
    /\ Placeable # {}
    /\ groups' = Append(groups, Placeable)
    /\ placed' = placed \cup Placeable
    /\ UNCHANGED <<deps, made, rpc, result, gi, started, cancelSet, svcVars,
                   errCh, parentDone, cancelled, stopVars>>

\* The queue is empty: everything is placed, or the rest is a cycle.
SortDone ==
    /\ rpc = "order"
    /\ Placeable = {}
    /\ \/ placed = made /\ rpc' = "lock" /\ UNCHANGED result
       \/ placed # made /\ rpc' = "stop" /\ result' = "cyclic"
    /\ UNCHANGED <<deps, made, placed, groups, gi, started, cancelSet, svcVars,
                   errCh, parentDone, cancelled, stopVars>>

\* runServiceGroups takes startGroupsMu; a Stop that is reading keeps it out.
LockGroups ==
    /\ rpc = "lock"
    /\ \A t \in Stoppers : stp[t] \notin {"group", "groupwait"}
    /\ rpc' = "launch"
    /\ UNCHANGED <<deps, runVars, svcVars, errCh, parentDone, cancelled, stopVars>>

\* All goroutines of a group are launched and have reported so.
LaunchGroup ==
    /\ rpc = "launch"
    /\ gi =< Len(groups)
    /\ svc' = [s \in Services |-> IF s \in Group(gi) THEN "launched" ELSE svc[s]]
    /\ rpc' = "ready"
    /\ UNCHANGED <<deps, runVars, attempts, ready, errCh, parentDone, cancelled,
                   stopVars>>

\* Variant: a launched group counts as ready.
NotWaiting == TRUE

\* waitGroupReady lets go when every notifier of the group is ready or the
\* context is done.
GroupReady == Group(gi) \cap Notifiers \subseteq ready \/ CtxDone

\* The group is recorded in startGroups.
AppendGroup ==
    /\ rpc = "ready"
    /\ GroupReady
    /\ started' = gi
    /\ gi' = gi + 1
    /\ rpc' = "launch"
    /\ UNCHANGED <<deps, made, result, placed, groups, cancelSet, svcVars, errCh,
                   parentDone, cancelled, stopVars>>

UnlockGroups ==
    /\ rpc = "launch"
    /\ gi > Len(groups)
    /\ rpc' = "select"
    /\ UNCHANGED <<deps, runVars, svcVars, errCh, parentDone, cancelled, stopVars>>

-----------------------------------------------------------------------------
(* Run, from the select on. *)

SelectDone ==
    /\ rpc = "select"
    /\ CtxDone
    /\ result' = "nil"
    /\ rpc' = "stop"
    /\ UNCHANGED <<deps, made, placed, groups, gi, started, cancelSet, svcVars,
                   errCh, parentDone, cancelled, stopVars>>

\* Variant: the error is logged and nil returned.
SelectFailedSilently ==
    /\ rpc = "select"
    /\ errCh = "full"
    /\ errCh' = "empty"
    /\ result' = "nil"
    /\ rpc' = "stop"
    /\ UNCHANGED <<deps, made, placed, groups, gi, started, cancelSet, svcVars,
                   parentDone, cancelled, stopVars>>

SelectFailed ==
    /\ rpc = "select"
    /\ errCh = "full"
    /\ errCh' = "empty"
    /\ result' = "failed"
    /\ rpc' = "stop"
    /\ UNCHANGED <<deps, made, placed, groups, gi, started, cancelSet, svcVars,
                   parentDone, cancelled, stopVars>>

\* The deferred Stop has returned; the deferred wg.Wait is next.
AwaitServices ==
    /\ rpc = "stop"
    /\ stp["deferred"] = "done"
    /\ rpc' = "join"
    /\ UNCHANGED <<deps, runVars, svcVars, errCh, parentDone, cancelled, stopVars>>

\* Variant: the channel's close is deferred after the wait, so it runs before.
NoWait == TRUE

\* What the deferred wg.Wait waits for.
AllExited == \A s \in Services : ~Alive(s)

\* Every goroutine is gone: close(errCh), release the context, return.
Return ==
    /\ rpc = "join"
    /\ AllExited
    /\ errCh' = "closed"
    /\ cancelled' = TRUE
    /\ rpc' = "returned"
    /\ UNCHANGED <<deps, runVars, svcVars, parentDone, stopVars>>

-----------------------------------------------------------------------------
(* runService and the service it runs. *)

Set(s, v) == svc' = [svc EXCEPT ![s] = v]

Begin(s) ==
    /\ svc[s] = "launched"
    /\ Set(s, "running")
    /\ UNCHANGED <<deps, runVars, rpc, attempts, ready, errCh, parentDone,
                   cancelled, stopVars>>

SignalReady(s) ==
    /\ svc[s] = "running"
    /\ s \in Notifiers \ ready
    /\ ready' = ready \cup {s}
    /\ UNCHANGED <<deps, runVars, rpc, svc, attempts, errCh, parentDone,
                   cancelled, stopVars>>

\* Its Run returns nil: it is not run again.
ExitCleanly(s) ==
    /\ svc[s] = "running"
    /\ Set(s, "exited")
    /\ UNCHANGED <<deps, runVars, rpc, attempts, ready, errCh, parentDone,
                   cancelled, stopVars>>

\* Variant: one retry too few.
ExhaustedEarly(s) == attempts[s] + 1 >= MaxRetries[s]

\* No attempt is left after the one that fails now.
Exhausted(s) == attempts[s] >= MaxRetries[s]

\* Its Run returns an error or panics: dropped when the context is done, else
\* retried while attempts are left.
Fail(s) ==
    /\ svc[s] = "running"
    /\ FailsEarly \/ s \notin Notifiers \ ready
    /\ attempts' = [attempts EXCEPT ![s] = @ + 1]
    /\ \/ CtxDone /\ Set(s, "exited")
       \/ ~CtxDone /\ ~Exhausted(s) /\ Set(s, "waiting")
       \/ ~CtxDone /\ Exhausted(s) /\ Set(s, "failing")
    /\ UNCHANGED <<deps, runVars, rpc, ready, errCh, parentDone, cancelled,
                   stopVars>>

\* waitRetryDelay: the delay passes, or the context is done first.
Retry(s) ==
    /\ svc[s] = "waiting"
    /\ \/ Set(s, "running")
       \/ CtxDone /\ Set(s, "exited")
    /\ UNCHANGED <<deps, runVars, rpc, attempts, ready, errCh, parentDone,
                   cancelled, stopVars>>

\* handleServiceError: an allowed failure is logged, any other offered to errCh
\* without blocking.
HandleError(s) ==
    /\ svc[s] = "failing"
    /\ errCh' = IF s \notin Allowed /\ errCh = "empty" THEN "full" ELSE errCh
    /\ Set(s, "exited")
    /\ UNCHANGED <<deps, runVars, rpc, attempts, ready, parentDone, cancelled,
                   stopVars>>

-----------------------------------------------------------------------------
(* Stop. *)

Step(t, v) == stp' = [stp EXCEPT ![t] = v]

\* Variant: Stop leaves the context alone.
StopKeepsContext(t) ==
    /\ stp[t] = "idle"
    /\ t = "deferred" => rpc = "stop"
    /\ Step(t, "once")
    /\ UNCHANGED <<deps, runVars, rpc, svcVars, errCh, parentDone, cancelled,
                   once, stopIdx, stopSvc>>

\* It cancels Run's context, if Run has got as far as setting s.cancel.
StopCancel(t) ==
    /\ stp[t] = "idle"
    /\ t = "deferred" => rpc = "stop"
    /\ cancelled' = (cancelled \/ cancelSet)
    /\ Step(t, "once")
    /\ UNCHANGED <<deps, runVars, rpc, svcVars, errCh, parentDone, once, stopIdx,
                   stopSvc>>

\* stopOnce: the first in does the work, the other waits until it is done.
StopOnce(t) ==
    /\ stp[t] = "once"
    /\ \/ once = "free" /\ once' = "held" /\ Step(t, "lock")
       \/ once = "done" /\ Step(t, "done") /\ UNCHANGED once
    /\ UNCHANGED <<deps, runVars, rpc, svcVars, errCh, parentDone, cancelled,
                   stopIdx, stopSvc>>

\* Variant: the loop over the groups starts one too low.
StopLockShort(t) ==
    /\ stp[t] = "lock"
    /\ rpc \notin {"launch", "ready"}
    /\ stopIdx' = IF started = 0 THEN 0 ELSE started - 1
    /\ Step(t, "group")
    /\ UNCHANGED <<deps, runVars, rpc, svcVars, errCh, parentDone, cancelled,
                   once, stopSvc>>

\* startGroupsMu for reading: not while runServiceGroups is at work.
StopLock(t) ==
    /\ stp[t] = "lock"
    /\ rpc \notin {"launch", "ready"}
    /\ stopIdx' = started
    /\ Step(t, "group")
    /\ UNCHANGED <<deps, runVars, rpc, svcVars, errCh, parentDone, cancelled,
                   once, stopSvc>>

\* Variant: from the first group to the last.
StopGroupForward(t) ==
    /\ stp[t] = "group"
    /\ stopIdx > 0
    /\ stopSvc' = [s \in Services |->
          IF s \in Group(started + 1 - stopIdx) THEN "calling" ELSE stopSvc[s]]
    /\ Step(t, "groupwait")
    /\ UNCHANGED <<deps, runVars, rpc, svcVars, errCh, parentDone, cancelled,
                   once, stopIdx>>

\* stopGroup calls Stop of each service of the last group not yet stopped.
StopGroup(t) ==
    /\ stp[t] = "group"
    /\ stopIdx > 0
    /\ stopSvc' = [s \in Services |->
                      IF s \in Group(stopIdx) THEN "calling" ELSE stopSvc[s]]
    /\ Step(t, "groupwait")
    /\ UNCHANGED <<deps, runVars, rpc, svcVars, errCh, parentDone, cancelled,
                   once, stopIdx>>

\* stopGroup waits until every Stop it called has returned or timed out.
StopGroupDone(t) ==
    /\ stp[t] = "groupwait"
    /\ \A s \in Services : stopSvc[s] # "calling"
    /\ stopIdx' = stopIdx - 1
    /\ Step(t, "group")
    /\ UNCHANGED <<deps, runVars, rpc, svcVars, errCh, parentDone, cancelled,
                   once, stopSvc>>

StopEnd(t) ==
    /\ stp[t] = "group"
    /\ stopIdx = 0
    /\ once' = "done"
    /\ Step(t, "done")
    /\ UNCHANGED <<deps, runVars, rpc, svcVars, errCh, parentDone, cancelled,
                   stopIdx, stopSvc>>

\* A service's Stop returns, with or without an error, or stopTimeout passes and
\* it is given up on: all three are only logged.
ServiceStops(s) ==
    /\ stopSvc[s] = "calling"
    /\ stopSvc' = [stopSvc EXCEPT ![s] = "over"]
    /\ UNCHANGED <<deps, runVars, rpc, svcVars, errCh, parentDone, cancelled,
                   stp, once, stopIdx>>

-----------------------------------------------------------------------------

RunStep ==
    \/ Instantiate \/ FactoryFails \/ Prepare \/ SortGroup \/ SortDone
    \/ LockGroups \/ LaunchGroup \/ AppendGroup \/ UnlockGroups
    \/ SelectDone \/ SelectFailed \/ AwaitServices \/ Return

ServiceStep(s) ==
    \/ Begin(s) \/ SignalReady(s) \/ ExitCleanly(s) \/ Fail(s)
    \/ Retry(s) \/ HandleError(s)

StopStep(t) ==
    \/ StopCancel(t) \/ StopOnce(t) \/ StopLock(t)
    \/ StopGroup(t) \/ StopGroupDone(t) \/ StopEnd(t)

\* Whoever gave Run its context cancels it.
ParentCancels ==
    /\ ~parentDone
    /\ parentDone' = TRUE
    /\ UNCHANGED <<deps, runVars, rpc, svcVars, errCh, cancelled, stopVars>>

Next ==
    \/ RunStep
    \/ \E s \in Services : ServiceStep(s) \/ ServiceStops(s)
    \/ \E t \in Stoppers : StopStep(t)
    \/ ParentCancels

Spec == Init /\ [][Next]_vars

\* The manager's own code runs on; a Stop, once called, too; a launched service
\* leaves Run when its context is done (services honour their context); a
\* service's Stop returns or is timed out.  Nobody has to call Stop or cancel.
Fairness ==
    /\ WF_vars(RunStep)
    /\ WF_vars(StopStep("deferred"))
    /\ WF_vars(stp["external"] # "idle" /\ StopStep("external"))
    /\ \A s \in Services :
          /\ WF_vars(Begin(s)) /\ WF_vars(Retry(s)) /\ WF_vars(HandleError(s))
          /\ WF_vars(CtxDone /\ (ExitCleanly(s) \/ Fail(s)))
          /\ WF_vars(ServiceStops(s))

FairSpec == Spec /\ Fairness

-----------------------------------------------------------------------------
(* Properties. *)

\* The type invariant; the bounds on gi, started and stopIdx say that neither
\* start nor stop indexes past the groups. Proved for any services and graph.
TypeOK ==
    /\ deps \in DepGraphs
    /\ made \subseteq Services /\ placed \subseteq made
    /\ rpc \in {"idle", "context", "order", "lock", "launch", "ready", "select",
                "stop", "join", "returned"}
    /\ result \in {"none", "factory", "noservices", "cyclic", "nil", "failed"}
    /\ groups \in Seq(SUBSET Services)
    /\ gi \in 1 .. Len(groups) + 1
    /\ started \in 0 .. Len(groups)
    /\ svc \in [Services -> {"off", "launched", "running", "waiting", "failing",
                             "exited"}]
    /\ attempts \in [Services -> Nat]
    /\ ready \subseteq Notifiers
    /\ errCh \in {"empty", "full", "closed"}
    /\ parentDone \in BOOLEAN /\ cancelled \in BOOLEAN /\ cancelSet \in BOOLEAN
    /\ stp \in [Stoppers -> {"idle", "once", "lock", "group", "groupwait", "done"}]
    /\ once \in {"free", "held", "done"}
    /\ stopIdx \in 0 .. started
    /\ stopSvc \in [Services -> {"no", "calling", "over"}]

\* A service is launched only after every dependency it has in this process was,
\* and, unless the shutdown has begun, is ready when it can say so.
StartOrder ==
    \A s \in made : svc[s] # "off" =>
        \A d \in deps[s] \cap made :
            /\ svc[d] # "off"
            /\ d \in Notifiers => d \in ready \/ CtxDone

\* A dependency's Stop is called only when the Stop of every launched service
\* that depends on it has returned or been given up on, whoever calls Stop.
StopOrder ==
    \A s \in made : svc[s] # "off" =>
        \A d \in deps[s] \cap made :
            stopSvc[d] # "no" => stopSvc[s] = "over"

\* When Run returns and nobody outside called Stop, every service it launched had
\* its own Stop called: the database, the server and the rest are closed.  (A Stop
\* from outside that comes before the groups are recorded uses stopOnce up.)
EveryoneStopped ==
    rpc = "returned" /\ stp["external"] = "idle" =>
        \A s \in Services : svc[s] # "off" => stopSvc[s] = "over"

\* The error channel is closed only when no goroutine that may send on it is
\* left, and Run returns only then.
ClosedMeansQuiet ==
    errCh = "closed" \/ rpc = "returned" => \A s \in Services : ~Alive(s)

\* Run returns nil only when its context was cancelled or Stop was called from
\* outside, never because of what a service did.
NilOnlyIfAsked == result = "nil" => parentDone \/ stp["external"] # "idle"

\* Run fails only for a service whose failure is not allowed and that used up
\* all its retries.
FailedMeansExhausted ==
    result = "failed" =>
        \E s \in made \ Allowed : attempts[s] = MaxRetries[s] + 1

\* A failure that is not allowed ends Run, however early it comes: also one
\* during start, when nobody looks at errCh yet, with the one exception of a
\* group that is waited for and never gets ready.
FailureEndsRun ==
    \A s \in Services \ Allowed :
        svc[s] = "failing"
            ~> rpc = "returned" \/ [](rpc = "ready" /\ ~GroupReady)

=============================================================================
