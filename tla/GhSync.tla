------------------------------- MODULE GhSync -------------------------------
(***************************************************************************)
(* Incremental GitHub sync: internal/pkg/ghsync (Syncer.Sync, syncRepo),   *)
(* the gh client it lists commits with, the two store tables it writes,    *)
(* and the controller in internal/pkg/services/http-server that lets the   *)
(* background ticker and HTTP/MCP requests trigger a sync.                 *)
(*                                                                         *)
(* A caller is a goroutine that calls syncController.Trigger.  Callers of  *)
(* one process share one controller; every process (the server, and each   *)
(* `gitrakz mcp` session) has a controller of its own, all on one database.*)
(* Each call the Go code makes to GitHub or to the store is one step, so   *)
(* pushes, other callers and crashes interleave between any two of them.   *)
(***************************************************************************)
EXTENDS Naturals, FiniteSets

CONSTANTS
    Procs,      \* operating-system processes sharing the database
    Callers,    \* goroutines that call Trigger
    ProcOf,     \* the process of a caller
    Tickers,    \* the callers that are background tickers
    Repos,      \* what `gh repo list` returns
    NoRepo,     \* no repository is being synced
    Flaky,      \* the repositories whose gh or store calls may fail
    Events,     \* every commit that may be pushed
    RepoOf,     \* the repository of a commit
    TS,         \* its author date, as Event.TS
    PageSize,   \* how many commits one `gh api .../commits` call returns
    MaxOutages, \* bound: failing Discover calls in a behaviour
    MaxPanics,  \* bound: panics inside Sync in a behaviour
    MaxCrashes  \* bound: process crashes in a behaviour

ASSUME SyncAssumption ==
    /\ ProcOf \in [Callers -> Procs]
    /\ Tickers \subseteq Callers
    /\ Flaky \subseteq Repos
    /\ NoRepo \notin Repos
    /\ IsFiniteSet(Events)
    /\ RepoOf \in [Events -> Repos]
    /\ TS \in [Events -> Nat]
    /\ PageSize \in Nat \ {0}
    /\ MaxOutages \in Nat /\ MaxPanics \in Nat /\ MaxCrashes \in Nat

VARIABLES
    github,     \* the commits GitHub has
    late,       \* history: those pushed when a newer one of their repository
                \* had been fetched
    cut,        \* history: those a listing matched that were not on its page
    events,     \* table events
    syncState,  \* table sync_state: last_synced_ts per repository, 0 if no row
    inProgress, \* syncController.inProgress, per process
    lastResult, \* syncController.lastResult and whether lastSyncedTS is set
    pc,         \* where each caller is
    answer,     \* what its last Trigger returned
    todo,       \* repositories its loop has still to visit
    scanned,    \* repositories counted in result.ReposScanned
    errors,     \* repositories with a line in result.Errors
    cur,        \* syncRepo's r
    since,      \* syncRepo's since
    batch,      \* syncRepo's events
    seen,       \* history: the commits GitHub had when the pass began
    outages, panics, crashes

missVars   == <<late, cut>>
remoteVars == <<github, missVars, outages>>
storeVars  == <<events, syncState>>
ctlVars    == <<inProgress, lastResult>>
passVars   == <<todo, scanned, errors, seen>>
repoVars   == <<cur, since, batch>>
faultVars  == <<panics, crashes>>
vars == <<github, late, cut, events, syncState, inProgress, lastResult, pc, answer,
          todo, scanned, errors, cur, since, batch, seen, outages, panics,
          crashes>>

NoResult == [synced |-> FALSE, scanned |-> {}, errors |-> {}]

\* The steps between Trigger taking the flag and its deferred release.
InSync  == {"discover", "loop", "list", "upsert", "advance"}
Holding == InSync \cup {"release", "unwind"}

Init ==
    /\ github = {} /\ late = {} /\ cut = {} /\ events = {}
    /\ syncState = [r \in Repos |-> 0]
    /\ inProgress = [p \in Procs |-> FALSE]
    /\ lastResult = [p \in Procs |-> NoResult]
    /\ pc = [c \in Callers |-> "idle"]
    /\ answer = [c \in Callers |-> "none"]
    /\ todo = [c \in Callers |-> {}]
    /\ scanned = [c \in Callers |-> {}]
    /\ errors = [c \in Callers |-> {}]
    /\ cur = [c \in Callers |-> NoRepo]
    /\ since = [c \in Callers |-> 0]
    /\ batch = [c \in Callers |-> {}]
    /\ seen = [c \in Callers |-> {}]
    /\ outages = 0 /\ panics = 0 /\ crashes = 0

-----------------------------------------------------------------------------
(* GitHub. *)

\* What has been fetched: stored, or held by a pass.
Fetched == events \cup UNION {batch[c] : c \in Callers}

\* Somebody pushes a commit.  Its author date is whatever it is: a branch that
\* was rebased or pushed late brings commits older than those already there.
Push(e) ==
    /\ e \notin github
    /\ github' = github \cup {e}
    /\ late' = IF \E f \in Fetched : RepoOf[f] = RepoOf[e] /\ TS[e] < TS[f]
               THEN late \cup {e} ELSE late
    /\ UNCHANGED <<cut, storeVars, ctlVars, pc, answer, passVars, repoVars,
                   outages, faultVars>>

\* Variant: only the commits after s.
ListingAfter(r, s) == {e \in github : RepoOf[e] = r /\ s < TS[e]}

\* The commits of r at or after s.
Listing(r, s) == {e \in github : RepoOf[e] = r /\ s =< TS[e]}

\* One page of a listing: all of it when it fits, its newest PageSize else.
IsPage(B, L) ==
    IF Cardinality(L) =< PageSize
    THEN B = L
    ELSE /\ B \subseteq L
         /\ Cardinality(B) = PageSize
         /\ \A e \in B, f \in L \ B : TS[f] =< TS[e]

-----------------------------------------------------------------------------
(* syncController.Trigger, up to the call of Sync. *)

\* Variant: the flag is set without having been looked at.
AlwaysFree(p) == TRUE

\* What Trigger looks at, with the mutex held, before it sets the flag.
Free(p) == ~inProgress[p]

TriggerStart(c) ==
    /\ pc[c] = "idle"
    /\ Free(ProcOf[c])
    /\ inProgress' = [inProgress EXCEPT ![ProcOf[c]] = TRUE]
    /\ pc' = [pc EXCEPT ![c] = "discover"]
    /\ answer' = [answer EXCEPT ![c] = "none"]
    /\ UNCHANGED <<remoteVars, storeVars, lastResult, passVars, repoVars,
                   faultVars>>

TriggerConflict(c) ==
    /\ pc[c] = "idle"
    /\ inProgress[ProcOf[c]]
    /\ answer' = [answer EXCEPT ![c] = "conflict"]
    /\ UNCHANGED <<remoteVars, storeVars, ctlVars, pc, passVars, repoVars,
                   faultVars>>

-----------------------------------------------------------------------------
(* Syncer.Sync. *)

\* resolveUser and DiscoverRepos succeed: the loop starts with a zero result.
Discover(c) ==
    /\ pc[c] = "discover"
    /\ pc' = [pc EXCEPT ![c] = "loop"]
    /\ todo' = [todo EXCEPT ![c] = Repos]
    /\ scanned' = [scanned EXCEPT ![c] = {}]
    /\ errors' = [errors EXCEPT ![c] = {}]
    /\ seen' = [seen EXCEPT ![c] = github]
    /\ UNCHANGED <<remoteVars, storeVars, ctlVars, answer, repoVars, faultVars>>

\* Either fails: Sync returns the error, Trigger returns without recording.
DiscoverFails(c) ==
    /\ pc[c] = "discover"
    /\ outages < MaxOutages
    /\ outages' = outages + 1
    /\ pc' = [pc EXCEPT ![c] = "release"]
    /\ answer' = [answer EXCEPT ![c] = "failed"]
    /\ UNCHANGED <<github, missVars, storeVars, ctlVars, passVars, repoVars,
                   faultVars>>

\* The loop takes the next repository and reads its cursor.
GetSyncState(c, r) ==
    /\ pc[c] = "loop"
    /\ r \in todo[c]
    /\ todo' = [todo EXCEPT ![c] = @ \ {r}]
    /\ cur' = [cur EXCEPT ![c] = r]
    /\ since' = [since EXCEPT ![c] = syncState[r]]
    /\ pc' = [pc EXCEPT ![c] = "list"]
    /\ UNCHANGED <<remoteVars, storeVars, ctlVars, answer, scanned, errors,
                   seen, batch, faultVars>>

\* Variant: the repository stays current while the loop goes on.
LeaveRepoDirty(c) ==
    /\ pc' = [pc EXCEPT ![c] = "loop"]
    /\ cur' = cur
    /\ since' = [since EXCEPT ![c] = 0]
    /\ batch' = [batch EXCEPT ![c] = {}]

\* syncRepo is over: its locals die and the loop goes on.
LeaveRepo(c) ==
    /\ pc' = [pc EXCEPT ![c] = "loop"]
    /\ cur' = [cur EXCEPT ![c] = NoRepo]
    /\ since' = [since EXCEPT ![c] = 0]
    /\ batch' = [batch EXCEPT ![c] = {}]

\* The listing is empty: the repository is done, its cursor stays.
ListNothing(c) ==
    /\ pc[c] = "list"
    /\ Listing(cur[c], since[c]) = {}
    /\ scanned' = [scanned EXCEPT ![c] = @ \cup {cur[c]}]
    /\ LeaveRepo(c)
    /\ UNCHANGED <<remoteVars, storeVars, ctlVars, answer, todo, errors, seen,
                   faultVars>>

\* gh answers with a page of commits; nobody asks for the next one.
ListEvents(c) ==
    /\ pc[c] = "list"
    /\ Listing(cur[c], since[c]) # {}
    /\ \E B \in SUBSET Listing(cur[c], since[c]) :
          /\ IsPage(B, Listing(cur[c], since[c]))
          /\ batch' = [batch EXCEPT ![c] = B]
          /\ cut' = cut \cup (Listing(cur[c], since[c]) \ B)
    /\ pc' = [pc EXCEPT ![c] = "upsert"]
    /\ UNCHANGED <<github, late, outages, storeVars, ctlVars, answer, passVars,
                   cur, since, faultVars>>

\* Variant: a failed insert goes unnoticed.
UpsertUnchecked(c) ==
    /\ pc[c] = "upsert"
    /\ events' \in {events, events \cup batch[c]}
    /\ pc' = [pc EXCEPT ![c] = "advance"]
    /\ UNCHANGED <<remoteVars, syncState, ctlVars, answer, passVars, repoVars,
                   faultVars>>

\* One INSERT .. ON CONFLICT(id): all rows or, when it fails, none.
UpsertEvents(c) ==
    /\ pc[c] = "upsert"
    /\ events' = events \cup batch[c]
    /\ pc' = [pc EXCEPT ![c] = "advance"]
    /\ UNCHANGED <<remoteVars, syncState, ctlVars, answer, passVars, repoVars,
                   faultVars>>

\* latestEventTS(current, evs): the newest of current and the batch.
IsLatest(t, current, B) ==
    /\ t \in {current} \cup {TS[e] : e \in B}
    /\ current =< t
    /\ \A e \in B : TS[e] =< t

\* The cursor is overwritten with the newest timestamp the pass has seen.
UpsertSyncState(c) ==
    /\ pc[c] = "advance"
    /\ \E t \in {since[c]} \cup {TS[e] : e \in batch[c]} :
          /\ IsLatest(t, since[c], batch[c])
          /\ syncState' = [syncState EXCEPT ![cur[c]] = t]
    /\ scanned' = [scanned EXCEPT ![c] = @ \cup {cur[c]}]
    /\ LeaveRepo(c)
    /\ UNCHANGED <<remoteVars, events, ctlVars, answer, todo, errors, seen,
                   faultVars>>

\* Reading the cursor fails: the repository is recorded in Errors and skipped.
GetSyncStateFails(c, r) ==
    /\ pc[c] = "loop"
    /\ r \in todo[c] \cap Flaky
    /\ todo' = [todo EXCEPT ![c] = @ \ {r}]
    /\ errors' = [errors EXCEPT ![c] = @ \cup {r}]
    /\ UNCHANGED <<remoteVars, storeVars, ctlVars, pc, answer, scanned, seen,
                   repoVars, faultVars>>

\* Variant: the failed repository is counted as scanned too.
RepoFailsButCounts(c) ==
    /\ pc[c] \in {"list", "upsert", "advance"}
    /\ cur[c] \in Flaky
    /\ errors' = [errors EXCEPT ![c] = @ \cup {cur[c]}]
    /\ scanned' = [scanned EXCEPT ![c] = @ \cup {cur[c]}]
    /\ LeaveRepo(c)
    /\ UNCHANGED <<remoteVars, storeVars, ctlVars, answer, todo, seen, faultVars>>

\* Variant: the first failure breaks the loop.
RepoFailsLoop(c) ==
    /\ pc[c] \in {"list", "upsert", "advance"}
    /\ cur[c] \in Flaky
    /\ errors' = [errors EXCEPT ![c] = @ \cup {cur[c]}]
    /\ todo' = [todo EXCEPT ![c] = {}]
    /\ LeaveRepo(c)
    /\ UNCHANGED <<remoteVars, storeVars, ctlVars, answer, scanned, seen, faultVars>>

\* A later call of syncRepo fails: same, what was written before it stays.
RepoFails(c) ==
    /\ pc[c] \in {"list", "upsert", "advance"}
    /\ cur[c] \in Flaky
    /\ errors' = [errors EXCEPT ![c] = @ \cup {cur[c]}]
    /\ LeaveRepo(c)
    /\ UNCHANGED <<remoteVars, storeVars, ctlVars, answer, todo, scanned, seen,
                   faultVars>>

-----------------------------------------------------------------------------
(* syncController.Trigger, after Sync. *)

\* The loop is over: the result is recorded under the mutex and returned.
Record(c) ==
    /\ pc[c] = "loop"
    /\ todo[c] = {}
    /\ lastResult' = [lastResult EXCEPT ![ProcOf[c]] =
          [synced |-> TRUE, scanned |-> scanned[c], errors |-> errors[c]]]
    /\ pc' = [pc EXCEPT ![c] = "release"]
    /\ answer' = [answer EXCEPT ![c] = "ok"]
    /\ UNCHANGED <<remoteVars, storeVars, inProgress, passVars, repoVars,
                   faultVars>>

\* The pass is over: Sync's locals die.
LeavePass(c) ==
    /\ todo' = [todo EXCEPT ![c] = {}]
    /\ scanned' = [scanned EXCEPT ![c] = {}]
    /\ errors' = [errors EXCEPT ![c] = {}]
    /\ seen' = [seen EXCEPT ![c] = {}]

\* The deferred function of Trigger clears the flag.
Release(c) ==
    /\ pc[c] = "release"
    /\ inProgress' = [inProgress EXCEPT ![ProcOf[c]] = FALSE]
    /\ pc' = [pc EXCEPT ![c] = "idle"]
    /\ LeavePass(c)
    /\ UNCHANGED <<remoteVars, storeVars, lastResult, answer, repoVars,
                   faultVars>>

\* Sync panics; its locals are gone.
Panic(c) ==
    /\ pc[c] \in InSync
    /\ panics < MaxPanics
    /\ panics' = panics + 1
    /\ pc' = [pc EXCEPT ![c] = "unwind"]
    /\ cur' = [cur EXCEPT ![c] = NoRepo]
    /\ since' = [since EXCEPT ![c] = 0]
    /\ batch' = [batch EXCEPT ![c] = {}]
    /\ LeavePass(c)
    /\ UNCHANGED <<remoteVars, storeVars, ctlVars, answer, crashes>>

\* Variant: the flag is cleared by a plain statement after Sync, not deferred.
UnwindUndeferred(c) ==
    /\ pc[c] = "unwind"
    /\ pc' = [pc EXCEPT ![c] = IF c \in Tickers THEN "dead" ELSE "idle"]
    /\ UNCHANGED <<remoteVars, storeVars, ctlVars, answer, passVars, repoVars,
                   faultVars>>

\* Trigger's deferred function runs.  net/http recovers a request's panic;
\* runSyncTicker recovers outside its loop, so that ticker is gone for good.
Unwind(c) ==
    /\ pc[c] = "unwind"
    /\ inProgress' = [inProgress EXCEPT ![ProcOf[c]] = FALSE]
    /\ pc' = [pc EXCEPT ![c] = IF c \in Tickers THEN "dead" ELSE "idle"]
    /\ UNCHANGED <<remoteVars, storeVars, lastResult, answer, passVars,
                   repoVars, faultVars>>

\* A process dies and is started again: only the database survives.
Crash(p) ==
    LET gone(f, v) == [c \in Callers |-> IF ProcOf[c] = p THEN v ELSE f[c]] IN
    /\ crashes < MaxCrashes
    /\ crashes' = crashes + 1
    /\ inProgress' = [inProgress EXCEPT ![p] = FALSE]
    /\ lastResult' = [lastResult EXCEPT ![p] = NoResult]
    /\ pc' = gone(pc, "idle")
    /\ answer' = gone(answer, "none")
    /\ todo' = gone(todo, {})
    /\ scanned' = gone(scanned, {})
    /\ errors' = gone(errors, {})
    /\ seen' = gone(seen, {})
    /\ cur' = gone(cur, NoRepo)
    /\ since' = gone(since, 0)
    /\ batch' = gone(batch, {})
    /\ UNCHANGED <<remoteVars, storeVars, panics>>

-----------------------------------------------------------------------------

Trigger(c) == TriggerStart(c) \/ TriggerConflict(c)

\* The steps a caller takes once its Trigger has begun.
Proceed(c) ==
    \/ Discover(c) \/ DiscoverFails(c)
    \/ \E r \in Repos : GetSyncState(c, r) \/ GetSyncStateFails(c, r)
    \/ ListNothing(c) \/ ListEvents(c) \/ UpsertEvents(c)
    \/ UpsertSyncState(c) \/ RepoFails(c)
    \/ Record(c) \/ Release(c) \/ Unwind(c)

Next ==
    \/ \E e \in Events : Push(e)
    \/ \E c \in Callers : Trigger(c) \/ Proceed(c) \/ Panic(c)
    \/ \E p \in Procs : Crash(p)

Spec == Init /\ [][Next]_vars

\* A started Trigger runs on (the calls it makes return), and a ticker goes on
\* ticking.  Requests and pushes come when they come.
Fairness ==
    /\ \A c \in Callers : WF_vars(Proceed(c))
    /\ \A c \in Tickers : WF_vars(Trigger(c))

FairSpec == Spec /\ Fairness

-----------------------------------------------------------------------------
(* Properties. *)

\* Every variable keeps its type; a repository is being synced exactly between
\* reading its cursor and leaving syncRepo, and only then has locals.
TypeOK ==
    /\ github \subseteq Events /\ events \subseteq Events
    /\ late \subseteq github /\ cut \subseteq github
    /\ syncState \in [Repos -> Nat]
    /\ inProgress \in [Procs -> BOOLEAN]
    /\ lastResult \in [Procs -> [synced : BOOLEAN, scanned : SUBSET Repos,
                                 errors : SUBSET Repos]]
    /\ pc \in [Callers -> Holding \cup {"idle", "dead"}]
    /\ answer \in [Callers -> {"none", "ok", "failed", "conflict"}]
    /\ todo \in [Callers -> SUBSET Repos]
    /\ scanned \in [Callers -> SUBSET Repos]
    /\ errors \in [Callers -> SUBSET Repos]
    /\ cur \in [Callers -> Repos \cup {NoRepo}]
    /\ since \in [Callers -> Nat]
    /\ batch \in [Callers -> SUBSET Events]
    /\ seen \in [Callers -> SUBSET Events]
    /\ outages \in 0 .. MaxOutages
    /\ panics \in 0 .. MaxPanics
    /\ crashes \in 0 .. MaxCrashes
    /\ \A c \in Callers :
          cur[c] \in Repos <=> pc[c] \in {"list", "upsert", "advance"}

\* Trigger's check-and-set under the mutex admits one sync per process, whoever
\* calls: ticker, HTTP handler or MCP tool.
SyncExclusive ==
    \A c, d \in Callers :
        /\ ProcOf[c] = ProcOf[d]
        /\ pc[c] \in Holding
        /\ pc[d] \in Holding
        => c = d

\* The flag Status reports is up exactly while a caller of that process is
\* between its check-and-set and its deferred release: it is neither left up
\* by an error or a panic (which would refuse every later sync) nor taken down
\* under a running sync.
BusyFlagExact ==
    \A p \in Procs :
        inProgress[p] <=> \E c \in Callers : ProcOf[c] = p /\ pc[c] \in Holding

\* What a sync may overlook, and nothing else: a commit that came after a newer
\* one was fetched, or that did not fit the one page a listing asks for.
Missable == late \cup cut

\* No commit that GitHub has below a repository's cursor, where syncRepo will
\* never ask again, is missing from the store, except those that may be
\* overlooked: no failure, crash or second process loses one more.
NoGap ==
    \A e \in github \ Missable : TS[e] < syncState[RepoOf[e]] => e \in events

\* A cursor is 0 or the timestamp of a stored commit of its repository, also
\* after a crash between the two writes of syncRepo.
CursorBacked ==
    \A r \in Repos :
        syncState[r] # 0 => \E e \in events : RepoOf[e] = r /\ TS[e] = syncState[r]

\* A repository counted in ReposScanned has in the store every commit GitHub
\* had of it when the pass began, except those that may be overlooked.
ScannedMeansStored ==
    \A c \in Callers : \A e \in seen[c] \ Missable :
        RepoOf[e] \in scanned[c] => e \in events

\* ListEvents returns the activity at or after since, say the comments, and
\* syncRepo pulls what came since the last sync: then nothing is overlooked.
\* The code breaks this with a listing of several pages, and with a commit
\* that arrives after newer ones.
ScannedMeansAll ==
    \A c \in Callers : \A e \in seen[c] :
        RepoOf[e] \in scanned[c] => e \in events

\* A recorded result accounts for every discovered repository, as scanned or as
\* failed and not both, and only for a repository that itself failed as failed.
EveryRepoAccounted ==
    \A p \in Procs : lastResult[p].synced =>
        /\ lastResult[p].scanned \cup lastResult[p].errors = Repos
        /\ lastResult[p].scanned \cap lastResult[p].errors = {}
        /\ lastResult[p].errors \subseteq Flaky

\* No step moves a repository's cursor back.
CursorNeverBack == [][\A r \in Repos : syncState[r] =< syncState'[r]]_vars

\* Every sync ends, and with it its claim on the flag.
SyncEnds == \A p \in Procs : inProgress[p] ~> ~inProgress[p]

\* A pushed commit of a repository whose own calls do not fail, and that may not
\* be overlooked, is eventually stored, whatever the other repositories do,
\* unless from some time on every ticker is dead: a panic outside the ticker's
\* loop ends it, and the restart of the process, or a request, makes up for that.
PushedIsStored ==
    \A e \in Events :
        e \in github \ late /\ RepoOf[e] \notin Flaky
            ~> \/ e \in events \cup cut
               \/ [](\A t \in Tickers : pc[t] = "dead")

\* The sync implements the mirror it promises: what GitHub has is the remote,
\* table events the mirror, sync_state the cursors, and what it gives up is
\* what may be overlooked.
Mirror == INSTANCE EventMirror
    WITH remote <- github, mirror <- events, cursor <- syncState,
         missed <- Missable,
         FullPages <- {B \in SUBSET Events : Cardinality(B) = PageSize}

MirrorSpec == Mirror!Spec

=============================================================================
