# gitrakz: models, checks and proofs

gitrakz mirrors a GitHub user's activity into a local SQLite database, serves it
as a timeline and turns it into timesheets and descriptions of work.  It runs as
one server process (HTTP, background sync, database) and as any number of
`gitrakz mcp` processes on the same database.  This directory holds TLA+ models
of the parts whose correctness depends on order (the incremental sync, the
requests that read and run templates meanwhile, the way the process and its
server start, fail and stop, the calls of the web client) and of the computation
a timesheet is made of, up to the file it is exported to.  Paths below are
relative to the repository root.

To run a check: `tlc -workers 4 -config <run>.cfg <module>`.  To replay a proof:
`tlapm <module>.tla` for `GhSyncProofs`, `ServiceManagerProofs`,
`HttpServerProofs`, `TemplateRunsProofs`, `DataLemmas`, `BrowseProofs`,
`DocumentsProofs` and `TimesheetProofs`; the last takes some minutes.

## 1. Inventory

| Component | State | Operations | Talks to | Correct when | Status |
|---|---|---|---|---|---|
| Incremental sync, `internal/pkg/ghsync` | the loop over repositories, per repository `since` and the fetched page | `Sync`, `syncRepo` | `gh` (repo list, commits), tables `events`, `sync_state` | nothing below a cursor is missing; a failing repository is reported and does not stop the others; what is reported as scanned is stored | modelled |
| Sync controller and ticker, `services/http-server/sync_controller.go`, `http_server.go:322-349` | `inProgress`, `lastResult`, `lastSyncedTS` under a mutex | `Trigger`, `Status`, the ticker loop | sync, HTTP, MCP | one sync per process at a time; the flag never stays up | modelled; `Status` only reads |
| HTTP server, `services/http-server/http_server.go`, `internal/pkg/db/db.go` | store handle, ticker goroutine, the vendored `serbewr` server with its `stopOnce` | `New`, `Run`, `Stop`, `runSyncTicker` | store, controller, service manager | nobody is served without a store; nothing is left behind at the end; a request that is being handled gets its time | modelled |
| Service manager, `internal/pkg/service-manager` | services, start groups, `cancel`, `stopOnce`, two channels, one goroutine per service | `Run`, `Stop` | services, application | start in dependency order, stop in reverse, first failure stops all, no deadlock and no send on a closed channel | modelled |
| Application and runner, `internal/app`, `pkg/runner` | `cancel`, `stopOnce`, error channel, signal channel, shutdown timer | `App.Run`, `App.Stop`, `runner.Run` | service manager, operating system | every signal and failure ends the process, errors come through, hooks run once and last | modelled |
| Event store, `internal/pkg/db` | `events`, `sync_state`, `templates`, `llm_cache`, `llm_settings`, documents | upserts, timeline query, CRUD | everything | ids are unique, upserts atomic, pages complete; what is written comes back | the tables modelled, but not the saved documents |
| Timeline and session API, `internal/pkg/http/server` | none of its own | offset paging, runs, exports | store, engine | a reader gets every row that was there; pages join | modelled |
| Template CRUD, `handlers_templates.go`, `common/templates` | table of templates | create, update, delete, seeding | store | built-ins survive whatever clients and other releases write | modelled |
| Timesheet transforms, `internal/pkg/transform/*` | none (pure) | sessionize, exclude off-time, split, group, aggregate, rate, passthrough | engine | hours are neither invented nor counted twice | modelled |
| LLM steps and cache, `transform/describework`, `transform/llmstep`, `llm_runtime.go`, `llm_step_client.go`, `cache_adapter.go`, `db/llm_settings.go` | cache table, settings row | describe, run a step, change settings | LLM server, `gh` | a text was written for the lines of the commits it is shown for, and is paid for once | modelled |
| Template engine, `internal/pkg/engine` | one request's state | build, run, render | transforms | all steps or none, in order; the document adds up | modelled |
| HTTP API and MCP server, `http/server/mapping.go`, `internal/pkg/mcp` | none | mapping of templates and documents, paging, the handlers and tools | everything | a template that is read and saved again is the same; pages of any size join | partly: not the router, nor errors and their status codes |
| Exports, `internal/pkg/export` | none (pure) | `ToCSV`, `ToPDF`, `ToJSON` | engine, clients | a file has the document, all of it, and is refused only for what it would show | modelled |
| Web client, `web/src/lib` | filter, list with its page, owners, repositories, calls under way | `load`, `loadMore`, changes of the filter | HTTP API | what is shown matches the filter | partly: timeline, sidebar, filter |
| Command line and configuration, `cmd`, `internal/pkg/config` | none | | | | partly: the processes they start; not the environment |
| Installer, generated code, their generator | files | backup, restore | | | not modelled (section 8) |

How they interact: `runner` calls `App.Run` and `App.Stop`; `App.Run` starts the
service manager in a goroutine and `App.Stop` calls the manager's `Stop`; the
program registers one service with the manager, `http-server`, whose factory
opens, migrates and seeds the database and whose `Stop` closes it.  That service
owns a sync controller that its ticker, the HTTP handlers and MCP tools call; a
sync calls `gh` and writes the store.  A request that runs a template reads the
template, then the timeline page by page, then runs the pipeline, whose steps may
call `gh`, the LLM and the cache; only the database is shared between requests.
The web client holds a page of the timeline and asks for it again whenever the
filter changes, while syncs go on.

What is hard to test here, and what the properties are for: several callers of
one flag; several processes and one database; a crash between two writes; a
repository failing in the middle; commits that share a second or do not fit a
page; a panic in a background loop; failures, retries and cancellations racing
each other; two Stops at once, of three layers; channels closed while somebody
may send; a start that fails half way; a listener, a shutdown and a store that
close in the order of two goroutines; a signal at any moment; pages that shift
while they are read, answers that overtake each other; rows looked up and
written later; a cache shared by requests while commits arrive and the model
changes; windows over midnight and totals that are rows; templates and documents
that pass through three formats.  `PROJECT.json` lists every such hazard at its
line with the properties that cover it.

## 2. Modules

| Module | Stands for |
|---|---|
| `EventMirror` | abstract: a remote that grows, a mirror, cursors that move only over what is mirrored, and the two exceptions: an event that arrives after a newer one, and an event older than all of a full page |
| `GhSync` | sync, controller, ticker, the two tables and GitHub |
| `MCGhSync` | TLC's instances of it |
| `GhSyncProofs` | theorems about `GhSync`, among them that it implements `EventMirror` |
| `ServiceManager` | `Run`, `Stop` and the goroutines of the services |
| `MCServiceManager` | TLC's instances of it |
| `ServiceManagerProofs` | theorems about `ServiceManager` |
| `AppLifecycle` | extends `ServiceManager` by the application and the runner |
| `HttpServer` | extends `AppLifecycle` by the program's one service: one process from start to exit |
| `MCHttpServer` | TLC's instances of it |
| `HttpServerProofs` | theorems about the whole process, among them that it is a behaviour of `ServiceManager` |
| `TemplateWire` | the shapes of templates and documents in the engine, the API, the agent's tools and the table |
| `Timesheet` | one run of a template made of the deterministic primitives |
| `Documents` | extends `Timesheet` by what a client does around a run: copy a template, read the document, export it |
| `MCTimesheet` | the timelines, windows, templates and requests TLC runs it over |
| `DataLemmas` | lemmas about data that the proofs share: induction, sorting, folds, sums over sets, sequences put together |
| `DocumentsProofs` | theorems about copies of templates and about pipelines that cannot be built; what each kind of block becomes in a CSV and in a PDF |
| `TimesheetProofs` | theorems about sessions, working time, the totals of the built-in documents and exports |
| `TimelineReads` | paging through the timeline while it grows |
| `Templates` | the table of templates: handlers and seeding |
| `LLMSteps` | extends `TimelineReads` by the two primitives that call the LLM, their cache and the settings |
| `TemplateRuns` | composes `Templates` and `LLMSteps`: requests that run templates, and everything else that happens meanwhile |
| `MCTemplateRuns` | TLC's instances of it |
| `TemplateRunsProofs` | theorems about `TimelineReads` and `TemplateRuns` |
| `Browse` | the web client's timeline and sidebar, the handlers and tools that page, and a sync |
| `MCBrowse` | TLC's instance of it |
| `BrowseProofs` | theorems about `Browse` |

A definition whose comment begins with "Variant" is a plausible mistake in the
definition that follows it.  It is not part of any specification; putting it in
the place of that definition must break the property it is meant for, and that
shows that the property says something about the code.

### GhSync

A caller is a goroutine inside `Trigger`.  `pc` follows it: `TriggerStart` is
the check and set under the mutex (`sync_controller.go:50-56`), `Discover` is
`resolveUser` and `DiscoverRepos`, `GetSyncState` begins a turn of the loop over
repositories, `ListEvents`/`ListNothing` are the call to `gh`, `UpsertEvents`
and `UpsertSyncState` the two writes of `syncRepo`, `Record` stores the result,
`Release` is the deferred function.  The `*Fails` actions are the error paths,
`Panic`/`Unwind` a panic and what `recover` leaves, `Crash` the death and restart
of a process, which keeps only the database.  Every call the code makes to `gh`
or to the store is a step of its own, so anything may happen between two of
them.  Commits are pushed in any order of their dates, and pages are as small as
one likes.  Three variables are history: `seen` is what GitHub had when the pass
began, `late` the commits that were pushed when a newer one of their repository
had been fetched, `cut` those that a listing matched and its one page did not
have.  `Missable`, these two together, is what the sync overlooks by its design:
the properties that hold (`NoGap`, `ScannedMeansStored`, `PushedIsStored` and the
refinement) say that it overlooks nothing else, and `ScannedMeansAll`, which makes
no exception, is refuted (finding 1; with pages of four instead of two the same
property is refuted by a late commit).

Abstractions.  A commit is a model value with a repository and a timestamp.
Repositories are visited in any order (`gh` decides it).  `GetSyncState` and
`ListEvents` read at the moment the call is answered.  A page is all commits at
or after `since` when they fit and the newest `PageSize` of them otherwise; with
equal timestamps at its edge any choice is possible.  GitHub's `since` filter
looks at the committer date, which is at or after the author date, so it may
return more than the modelled listing, never less.

### ServiceManager

`rpc` follows `Run`: `Instantiate`/`FactoryFails`, `Prepare` (context and
deferred calls), `SortGroup`/`SortDone` (the Kahn loop of `topoSort`, including
its answer to a cycle), `LockGroups` .. `UnlockGroups` (`runServiceGroups` under
its write lock: launch a group, wait for its readiness, record it), the select,
and the deferred calls in their order.  `svc` follows each goroutine through
`runService`: running, waiting for a retry, failing, exited.  `stp` follows the
two callers of `Stop`, the deferred one and one from outside, through `s.cancel`,
`stopOnce`, the read lock and the groups in reverse.  A service's own code is
external: while it runs it may get ready, return or fail at any time.  A panic
of a service is a failure (the code recovers it into an error).  That a `Stop`
of a service is given up on after `stopTimeout` and that it returns are the same
step, as the code only logs the difference.

### AppLifecycle and HttpServer

The manager's `parentDone` is the application's context and its `external` Stop
is the call in `App.Stop`.  `apc` follows `App.Run`, `astp` the two callers of
`App.Stop` (its own deferred one and the runner's), `runner` the main goroutine.
`App.Stop` returns nil always, so the runner's branch for an error of Stop
cannot be taken with this application and has no action.  After
`ShutdownTimesOut` the remaining goroutines run on, as they do until `main`
returns.

`AppLifecycle` leaves the services open, as `ServiceManager` does; `HttpServer`
puts the code in.  What the manager calls a factory is `New`, followed by `boot`:
open, migrate, seed, build, wire.  `FactoryAnswers` says when the manager's
`Instantiate` or `FactoryFails` is the answer of that code.  When the seeding or
the wiring fails, `New` closes the store (`boot` "failed"); when the migration
fails, `db.Open` leaves its handle open (`boot` "unmigrated"), and `ServiceGone`
leaves out that case only.  What the manager calls
running is `Run`, followed by `run` with the vendored server's `Start` and its
deferred `Stop` in it; `RunReturns` is the manager's `ExitCleanly` or `Fail`.
What it calls stopping is `Service.Stop`, followed by `svcStop`: shut the server
down, close the store.  `srvOnce` is the server's `stopOnce` with who is inside:
Start's own shutdown and the one of `Service.Stop` meet there, and the context of
the one that comes first decides how long requests are waited for
(`StopCtxDone`).  `ticker` is the goroutine of `runSyncTicker`, `inFlight` the
requests that are being handled; their context is not the server's.  So every
step of this process is a step of `ServiceManager`, which is theorem
`ProcessIsManaged`.

Abstractions.  A scheduled sync is one interval (`GhSync` has its inside).  What
`New` builds between seeding and wiring is one step that may fail.  A stop that is given
up on after `stopTimeout` (30 s) is not modelled, because the server's own
`ShutdownTimeout` (10 s) ends it before.  Whether a request needs the store is
not said; it may.

### Timesheet

`phase` follows `Engine.Run`; each primitive of the pipeline is an action that
changes the part of `transform.State` its `Apply` changes.  A run is one
goroutine, so nothing interleaves: the actions are there because a pipeline is
data, and the properties compare what the steps compute together with a direct
definition (sessions by their gaps, working time second by second, totals from
the timeline).  `sort.Slice` is not stable, so any sorted copy is possible.
Values are integers in units of `1/Unit`, with a `Unit` that every division
leaves exact; rounding of float64 is not modelled.  Days and buckets are sorted
by their keys (`Ascending`); days are dates of one format, so that their texts
sort as their numbers do.  Labels and headings
are values that travel; owners and repositories are numbers in their sorting order.
A form whose windows cannot be decoded has the field `notWindows`.

`OffTimeExact` asks for equality only where the windows of a form do not overlap
each other.  Where they do, the code takes the common part off once for each
window; the documents do not say what should happen, and the property then keeps
the bound.

### TemplateWire and Documents

`stage` follows a client: `open` and `save` are the reading of a template through
`TemplateToAPI` and its saving under a new name (`TemplateFromInput`, then the
columns of the row), `load` the read of that row, `read` an agent's
`get_template`, `run` the run itself (the steps of `Timesheet`), then the answer
as a browser (`DocumentToAPI`) or an agent (`DocumentToDTO`) gets it, `check` and
`export` the request for a file.  `TemplateWire` has the mappings: optional texts
against empty ones (`Absent`, `Empty`), a layout block whose `source` travels
inside its data, parameters that are nil or an empty map, JSON columns.  An
export takes the document of the run, the one a browser sends back, or a
client's own, whose data may have values of the wrong type (`NotText`), fields
missing or fields that the type of the block does not have.  `CanDecode` looks at
the fields of the block's own type only, as `json.Unmarshal` does, and
`CanWrite` says whose data a file decodes at all: a PDF all blocks', a CSV those
that are no prose (heading, text and code are skipped undecoded), JSON none's.
`ToCSV` and `ToPDF` give records, rows and column widths.  How a cell is
drawn, quoted or wrapped is left out, and so is how a number becomes text.

### TimelineReads, Templates, LLMSteps, TemplateRuns

`at` follows a request through its calls: `reading` is the loop of
`queryFullTimeline`, `read` the start of `Engine.Run`, `run` the place between
two steps; `lookup`, `configure`, `ask` and `put` are the calls of one turn of
`describework`'s loop, `prepare`, `support` and `complete` those of an `llm`
step; `done` and `failed` are the answers.  Each call of the store, of `gh` and
of the LLM is a step.  `StartRead` keeps the filter, `QueryPage` is one query
with its offset and the look whether a row more was fetched.  `Templates` splits
update and delete where the handlers do: `LookUpTemplate` is the read with its
checks, `UpdateTemplate`/`DeleteTemplate` the write by id that follows.
`SeedBuiltin` is one turn of the loop of `SeedBuiltinTemplates`.

`Input` is the text of a group as `buildInput` makes it: for each of its commits,
in the order of the timeline, the title, and for a thin title the beginning of the
commit's diff.  Nothing else of a commit or of a group is in it, so commits and
groups that read alike have one text and one row of the cache, and a commit that
the paging gave twice makes another text.

Abstractions.  A hash is what is hashed: SHA-256 is taken to be injective.  A text
is a sequence of lines, a title being one line and a diff at least one, cut after
`DiffTruncateLen` lines where the code counts 2000 bytes.  A description is the
record of what the LLM was asked: input, version, model.
Of the LLM settings the model is kept.  Of a pipeline the LLM steps are kept
(`Timesheet` has the others); a step with bad parameters is an unknown one.
Events of one second are listed in one fixed order.  `before`, `grew` and
`inForce` are history variables.  `load` is not part of the program: it says how
much of each kind of interference a behaviour contains.

### Browse

`asked` and `reposAsked` are the calls under way.  A change of the filter asks
for page 1 (`load`), "Load more" for the next page; the server answers a call
when it runs its query, and an answer takes effect when it arrives, so calls may
cross and fail.  Nothing in the client cancels a call or compares an answer with
the filter, and nothing does in the model.  Page numbers go through the bounds of
the handlers (`ResolvePage`) and of the agent's tools (`ToolQueryTimeline`).
`first`, `mixed` and `reposMixed` are history variables: what matched when page 1
was read, and whether calls crossed or a reload failed since.  The owners are
asked for once.

## 3. Runs

| Run | Instance and bounds | What it shows |
|---|---|---|
| `sync_server` | one process, ticker and HTTP caller, repositories `r1` and `r2` (whose calls may fail), three commits of `r1` of which two share a second, one outage of discovery, one panic, one crash | the flag admits one sync and is up exactly during one; every repository is accounted for; every sync ends; what is pushed to the healthy repository is stored |
| `sync_two_procs` | two processes with one caller each, one repository with failing calls, three commits of which two share a second and are interchangeable (symmetry), pushed in any order, pages of two, one crash | no gap below a cursor but late commits and those cut off a page, no cursor without its commit, what counts as scanned is stored with the same exceptions, all without a lock between processes; the sync implements `EventMirror` |
| `sync_first_page` | three commits and pages of two | violation: the first sync of a larger repository drops what the page leaves out (finding 1) |
| `services` | `db` (ready signal), `web` (one retry), `job` (may fail); a chain with a dependency that does not exist, or a cycle; any subset enabled; both Stops and a cancellation at any time | start order, stop order, everything stopped, quiet channel, honest result; a failure ends `Run`, also an early one, unless `Run` waits for a group that never gets ready |
| `app` | the whole process with its one service, one request, the ticker; signal, any part of the start failing, listener and server failing, both App.Stops, the shutdown timer | no send on a closed channel; a clean exit with hooks once and nothing of the service left; no error swallowed; no listener without a store, and no store left open by a start that failed in `New`; a cancelled or failed process ends without its timer |
| `server_drain` | the same | violation: the store is closed under a request that had its time left (finding 4) |
| `server_bind` | the same | violation: a server that fails does not end `Run` (finding 3) |
| `timesheet` | days of three minutes of two seconds; every timeline of up to three events at 0..12 of two owners; a gap and a lead-in; every single window, four pairs, no window; eight other templates and the built-in ones over fewer timelines, as they are and as copies, for browsers and agents; exports in three formats and one that does not exist, of runs and of documents with up to two blocks of a client's own, among them prose and others that do not decode, and blocks with keys of another type; a grid of four columns | sessions are the clusters, working time is exact, the built-in documents add up, a step that cannot be built stops all; a copy runs like its original; a file has the document, and is refused only for a block it would show and cannot read |
| `requests` | three commits on two days, two of which read alike and one of which needs its diff, pages of one, two filters, two requests, two models (one supports schemas), one built-in and one custom template, two releases that seed; six loads | nothing that was there is missed; a quiet timeline is read exactly once; descriptions are of the text their commits have and are kept once paid for; a response schema goes only to a model that may support it; built-ins stay intact; every request is answered |
| `llm_stale` | two requests, one commit, one change of the model | violation: the second request gets the first model's text (finding 2) |
| `browse` | three events of two owners, two of one second; pages of one, at most two; two changes of the filter; two calls of a kind under way; calls fail | the list and the sidebar follow the filter unless calls cross or fail; no page skips an event; an agent's pages of any size join to the listing |
| `browse_stale` | the same, no call fails | violation: an older answer stays on the screen, in the list or in the sidebar (finding 5) |

Why the bounds are enough.  Three commits give every relation that the code
tells apart: below, at and above the cursor; with two of one second and pages of
two there is a commit that does not fit, one that comes late and a page whose edge
is a choice.  Two callers are enough for a check
and set, two processes for the unlocked cursor.  One fault of each kind may fall
at any step, and what a fault leaves behind is the state a second one would meet.
Three services are the smallest set with a dependency of a dependency and with a
group of two (without `web`, `db` and `job` start together).  Twelve seconds are
two days and the first second of a third, so a session may touch three of them,
and a window may be empty of them, touch midnight or wrap it.  Pages of one row
make every listing of two rows a matter of paging, and every stored commit may
shift it; the six loads of `requests` (`MixedLoads`) each combine two kinds of
interference: two requests with a new commit or a change of model, one request
with a timeline that grows by two or three and a change of model, one request
with edits of templates, and three edits while two releases start (create, look
up to update, look up to delete is the shortest race of two editors).  `load`
and the one attempt of each request are what bounds these runs.  One request is
enough for `app`, as requests meet only the listener and the store; one service
is what the program has.  In `timesheet`, a grid of four columns is met by tables
of fewer, as many and more columns.  Two calls of a kind can overtake each other,
and with two changes of the filter a third answer finds a filter twice changed;
pages of one event make three events three pages.  `MaxOutages`, `MaxPanics`,
`MaxCrashes`, `MaxCalls` and `MaxChanges` are the only counters that are cut off;
`attempts` is bounded by the retries.  Deadlock is not checked in the manager's
and the process's runs, because those programs end, nor in `timesheet`
and the runs of requests, which end, nor in the two `browse` runs, whose changes
are bounded; in the sync runs it is.

## 4. Fairness

* Sync: a started `Trigger` runs on, because every call it makes returns (`gh`
  through the commander, SQLite locally); a ticker goes on ticking.  Requests,
  pushes, panics and crashes are not fair.  `PushedIsStored` therefore speaks of
  repositories whose calls work and of commits that may not be overlooked, and
  excuses only behaviours in which every ticker is dead from some time on: a panic
  ends the ticker for good, and nothing makes the process restart.
* Manager: its own code runs on; a Stop that was called runs on; a service
  leaves `Run` once its context is done; its `Stop` returns or is given up on.
  Nobody has to get ready, fail, cancel or call Stop, so `FailureEndsRun` excuses
  a `Run` that waits for ever for a group to get ready, and nothing else.
* Process: the same for the code of runner, application, manager and service.
  A scheduled sync whose context is done ends, because `gh` and the store give
  up; the ticker, which is between two ticks nearly all the time, sees a done
  context (strong fairness of `TickerStops`).  That a request ends is not
  assumed, that the server's own shutdown timeout passes is.  Signal, failures
  and the runner's timer are not fair: the liveness properties hold without them.
* Requests: a request that has begun goes on, because each of its calls returns,
  with an answer or an error (SQLite locally, `gh` and the LLM under the
  request's context).  Syncs, editors and changes of settings are not fair.  That
  reading ends (`RunEnds`) rests on a timeline that grows by finitely many rows
  while it is read.

## 5. What is proved

Assumptions of all theorems: `SyncAssumption`, `ServicesAssumption`,
`HttpServerAssumption`, `TimelineAssumption`, `TemplatesAssumption`,
`LLMAssumption`, `TimesheetAssumption`, `DocumentsAssumption` and
`BrowseAssumption`, which only give the constants their types, say that the
process has one service, that events are finitely many, that their listing has no
ties, that the constants of time are not zero, that an hour has whole units and
a page an even number of columns (12 in the code, of which a pair takes halves).
TLC evaluates them in every run.
Further hypotheses are named in the theorems that need them:

* `OneProcess`, of `CursorNeverMovesBack` only.  The other theorems about the sync
  hold for any number of processes, any order of commits and any size of a page.
* `WireTypes` and `AskedFor`, of templates on their way around: a text is neither
  absent nor malformed, and a client runs templates of the shape that the API
  has, under an id that the copy does not get.
* `TimelinesAsked`, `NumbersAsked` and `DocumentsAsked`, of what a run gets:
  timelines are lists of events with times, windows lie in a day, a gap and a
  lead-in are not negative; names and amounts are numbers, in the sense of
  section 2, and so is a rate; a document that a client sends is a list of
  blocks, whose data, where they can be decoded, have lists where lists belong.
  That is what JSON decoding and the store's columns give; of a gap, a lead-in
  and windows the code checks nothing.
* `SessionizedOnce` and `ExcludedOnce`, of templates whose working time is asked
  for: at most one `sessionize` (`SessionsClustered`), and at most one
  `exclude-off-time`, after it (`OffTimeIsExact`).  The built-in timesheet has
  that shape, and of other shapes the two properties are not meant: two steps
  `sessionize` append two sets of sessions, and windows that are excluded twice,
  or before there are sessions, leave something else.  The totals of built-in
  documents and the exports need neither.

`MCTimesheet` assumes the five of its inputs, so that TLC evaluates them on every
input that the run `timesheet` has.

`GhSyncProofs`, for any processes, callers, repositories, commits and faults:

| Theorem | Argument |
|---|---|
| `TypeCorrect` | inductive as it stands; its last conjunct ties `cur` to the steps of `syncRepo` |
| `SyncIsExclusive`, `BusyFlagIsExact` | neither is inductive alone: exclusion needs the flag to be up, and the flag may go down only if nobody else holds it. `FlagInv` is their conjunction |
| `CursorIsBacked` | `BackedInv` adds that at "advance" the batch is stored and that every `since` was a backed cursor |
| `NothingMissedBelowCursor` | `GapInv` adds what a caller knows in mid-pass: nothing is missing below its `since`, and what is neither stored nor in its batch is not below the batch's newest, all but what may be overlooked. A push keeps it, because a commit that is older than what some caller has fetched is late (`PunctualPush`); a page keeps it, because what it leaves out is cut |
| `ScannedIsStored` | `StoredInv`: while a caller is in a repository, what it had seen of it, and may not overlook, is stored or in the batch |
| `ResultAccounts` | `AccountInv`: done, current and remaining repositories partition `Repos` at every step of a pass |
| `CursorNeverMovesBack` | `SinceInv`: in one process the cursor in the database is the `since` of the caller in `syncRepo`, by exclusion |
| `SyncImplementsMirror` | every step of `GhSync` is `Publish`, `Overlook`, `Store`, `MoveCursor` or a stutter of `EventMirror`, using `BackedInv` and `GapInv`: a late commit has a fetched, hence published, newer one, and what a page cuts off is older than a full page |

`ServiceManagerProofs`, for any services, any graph, any retries:

| Theorem | Argument |
|---|---|
| `ManagerTypeCorrect` | `MainInv`: `PlaceInv` (groups partition what is placed, dependencies lie in earlier groups, `started` lags one behind `gi`) and `StopIdxInv` (one Stop inside `stopOnce`, and never more groups left than recorded) keep every index in range (proved only: no run lists `TypeOK`) |
| `DependenciesStartFirst` | `LaunchInv`: exactly the groups reached have goroutines, and those left behind are ready unless the context is done |
| `ChannelClosesLast` | `QuietInv`, with `LaunchInv` for the return before anything was launched |
| `NilMeansAsked` | `AskedInv`: a Stop alone cancels, and Run's own Stop runs only when the result is decided |
| `FailureMeansExhausted` | `AttemptsInv`: the number of failures in each state of a goroutine, and a full channel has a service behind it that used up its retries; an exhausted service never runs again |
| `DependentsStopFirst` | `LoopInv`: while somebody is in the loop over the groups, those behind the index are stopped, those before it are not. It needs `LockInv` (launching and stopping exclude each other, so the recorded groups are all that were launched) and the order of the groups from `PlaceInv` |
| `NobodyForgotten` | `AfterInv`: after the loop everybody is stopped who was launched, or nobody was launched yet, and then a Stop from outside went through. `OnceInv` ties that to `stopOnce` and the deferred calls |

`HttpServerProofs`, for any number of requests, with and without the ticker:

| Theorem | Argument |
|---|---|
| `ProcessIsManaged` | every step of the process is a step of `ServiceManager` or none, so that all theorems about the manager hold in it |
| `ChannelOutlivesSender` | `ChannelInv`: `App.Run` is past its `wg.Wait` only when the manager's goroutine is not running, and that goroutine is launched before |
| `ErrorsComeUp` | `ErrorInv`: a nil result needs a cancelled context; before `App.Run` itself stops only the runner cancels, and it does so after a signal or after `App.Run` has returned |
| `EndsCleanly` | `AppStopInv`: one App.Stop does the work, the hooks come after the manager's Stop; with `ChannelInv` and the manager's `QuietInv` |
| `OpenWhileServing` | `StoreInv`: the service exists only when `New` is through, `Run` only runs on a service that exists, and what closes the store is behind the server's `stopOnce`, which rules out a listener |
| `NothingLeft` | `GoneInv` ties ticker, listener, start and `Stop` to what the manager knows of the service; `CallingInv`: nobody is inside a service's Stop once the manager's two Stops are over; a start that failed after the migration has closed the store |

`TemplateRunsProofs`, for any requests, events, filters, pipelines, editors,
releases and page size:

| Theorem | Argument |
|---|---|
| `NothingIsMissed`, `QuietReadIsSnapshot` | `ReadsInv`: the rows that matched at first and are of rank below the next offset have been read, and exactly once if nothing was stored. Storing keeps it since ranks only grow (`RankGrows`); a page moves the offset by what it reads (`PageRows`); and the last page ends the listing, because ranks leave no gap: they are a bijection from the listing onto the numbers below its size (`RanksFill`, `LastPage`) |
| `BuiltinsStay` | `BuiltinInv`: every built-in's row is marked, so no handler that has looked a row up holds the id of one, and what it writes later hits a custom template |
| `DescriptionsAreHonest`, `PaidIsKeptAlways` | `RunsInv`: an answer about to be saved is about the group whose turn it is; what is cached is cached under its own version and text (`CacheInv`); a request has no rows before its timeline is read, so that the texts its rows stand for do not change; keys are never removed from the cache |
| `SchemasAreSupported` | `SchemasInv`: from its beginning to its end a request has the model that is set among those that were set meanwhile, and so the one it asks, and the one whose support it looks up. That a row is of an `llm` step and not a description is told by its group, so the invariant also says that a group whose turn it is exists (`GroupIsDue`). It needs the reading invariant's fact that there are no rows before a request begins |

`BrowseProofs`, for any events, owners, filters, page sizes and numbers of calls
and changes:

| Theorem | Argument |
|---|---|
| `BrowseCorrect` | the conjunction that is inductive. `LastReload`: every reload asks for page 1, and the last one under way, unless something crossed it, for the filter that is set. `MoreAlone`: a "Load more" that nothing crossed was asked before every call under way. `ReloadsFit`: what a reload has read is the first page of its own filter's listing. `ShownFits`: with no reload under way and nothing mixed, the list is the listing up to the page shown. `MoreFit`: what a "Load more" has read continues that list. `SideInv` relates the repositories read, and the last question under way, to their owner |
| `ViewFollows` | from `ShownFits`. A page has the rows of ranks `(p-1) * per` to `p * per - 1` (`PageIs`); storing moves ranks up and never down (`RankGrows`), so the next page begins at or before the end of what is shown (`MoreShown`), and no event is skipped |
| `SidebarFollows` | from `ReposFit` and `LastOwner`: the last question for repositories is about the owner that is chosen |
| `PagesJoinAlways` | the pages of a size, one after the other, are beginnings of the listing that grow by a page each (`ToolPageIs`, `FlattenSeqIs`) |

`DocumentsProofs`, for any texts, parameters and numbers of parts:

| Theorem | Argument |
|---|---|
| `CopyIsOriginal` | composes the two directions of every mapping, part by part; the hard part is the layout block, whose source goes into its data and comes out again (`LayoutBlockComesBack`) |
| `CopiesRunAlike` | `CopyInv` says at each stage what is in the client's hand, in the row and in the run: the original under a new name, but with layout blocks trimmed of empty parameters. A trimmed block renders as the original does (`TrimmedRendersAlike`), and reads the same after the API or the tool sent it (`CopyReadsAlike`) |
| `BadStepStops` | `BuildInv`: nothing is touched while the pipeline is being built, and a pipeline that runs has built all of its steps |

`TimesheetProofs`, for any timeline, owners, gap, lead-in, form, windows and
length of a day, any template of the shape said above and any client's document:

| Theorem | Argument |
|---|---|
| `SessionsClustered` | what the loop of `sessionizeOwner` has made of an owner's first `k` events is cut at numbers `c[1] < c[2] < ...`, exactly where more than the gap is between two events (`Cut`; `CutBegins` and `CutExtends` are the two branches). In a sorted sequence the cuts are the times that have a pause before them (`CutIsCluster`, `EveryBeginIsCut`). `Located` finds an owner's events in the timeline, `Places` an owner's sessions in the result, each once, so that the sessions are as many as the clusters. `SessionInv`: there are no sessions before `sessionize`, clusters after it, and only durations change later |
| `OffTimeIsExact` | a window's overlap on a day is the number of seconds of the session on that day in that window, over midnight or not (`WindowOverlapIs`, where `OverlapIs` counts the seconds two intervals share). Every second has one day, so the sum over days and windows counts each second in a window, and just once if no second of a day is in two (`TotalOverlapIs`, from `SumOfSizes`). `DurationInv`: the duration is length and lead-in until `exclude-off-time`, which takes the overlap off once |
| `BuiltinsAddUp` | `TotalsInv` says, of each built-in template and before each of its steps, what the rows are: a row for each day in its order whose hours add up to all sessions' (`OfDays`, `AddsUpTo`); a row for each bucket whose counts and additions add up to the timeline's (`OfEvents`); then one more row that has the total and no other field (`Totalled`). Days and buckets are the values of a function on sessions or events, so the sets behind two rows do not overlap and their sums are the sum of the whole (`PartsAddUp`, from `TotalOfParts`); the n-th of a set of numbers is the one with n - 1 below it, so every value has just one row and rows are in order (`AscendingLists`). For the document, a total is found in the last line under its field (`LastHasTotal`), and is not counted by a metric of another field |
| `ExportsHaveDocument` | `ListsInv`: what a run makes (timeline, sessions, rows, blocks, document) are lists, and what it renders are blocks whose data are lists, whichever steps a template has and wherever a primitive appends. `ExportInv`: a document that was sent comes back as it was (`DocumentComesBack`), a client that exports after a run sends the document of that run, and a file has the document it was made of. The last is shown block by block and joined: a CSV has a block's cells once blank records and empty cells are dropped (`CSVHasCells`), rows of the grid have the cells of tables and pairs and rows of text none (`PDFHasCells`), and the columns' widths, of which the last takes what the division left over, add up to the page (`ColumnsFill`), for as many columns as the grid has at most. What a CSV is made of is decodable unless it is prose, whose records are none (`RecordsForCSV`), and a client's export fails for a block that is not (`Refusable`) |

The last two stand on the invariant of copies, `CopyInv`, because a copy of a
built-in template adds up like the template.

`DataLemmas` has what these need of data.  Induction is over sets of numbers
(`SetInduction`, `LeastElement`) and over finite sets (`FiniteInduction`), by
citing them for a set that the proof defines.  A fold or a sum is a `CHOOSE` of a
function that obeys an equation: the lemmas show that there is one and what it
has after each step.  `Total` is a sum over a set that can be split into parts;
`FlattenSeq` is brought down to a flattening step by step, so that two lists of
lists are compared one element at a time.

Only model-checked are the liveness properties, which are out of the prover's
reach: `SyncEnds`, `PushedIsStored`, `FailureEndsRun`, `FailureEndsProcess`,
`CancelEndsProcess` and `RunEnds`.  Every invariant and every action property of
a passing run is also a theorem.  Two operators of `Timesheet` are written for
that: `Ascending` where the code sorts keys, `FlatMap` where a loop appends what
it makes of each element; the community modules' `SortSeq` and `SelectSeq` are
operators whose definitions the prover does not have.

## 6. Findings

Each has a run that shows it.

1. `commander_client.go:134` (`sync_first_page`): one call without `--paginate`
   or `per_page`, so a repository with more commits than a page loses the older
   ones for good, against `ghsync.go:38`.
2. `describework.go:150` (`llm_stale`): the version of a cached description
   contains the step's model parameter, but the model that is called is the one
   of the settings; after a change of the settings the old text is served,
   against `describework.go:15`.
3. `http_server.go:303` (`server_bind`): when the server fails, `Run` waits for
   the ticker, which only a cancellation from outside ends; the manager never
   learns of the error and the process lives on without a server, against
   `http_server.go:283`.
4. `http_server.go:301` (`server_drain`): Start's own shutdown works under the
   context whose end caused it, so it waits for nobody, and `Stop` closes the
   store under requests that had their time left, against `http_server.go:284`.
5. `Timeline.svelte:27` (`browse_stale`): any answer is shown, also one to an
   older filter, and any answer allows the next "Load more", against
   `filter.svelte.ts:1`.  `FilterSidebar.svelte:46` takes any answer for the
   chosen owner's repositories in the same way, against `filter.svelte.ts:23`.

Seen while modelling, with no run of their own:

* The cursor is an author date (`ghsync.go:187`), so a commit that is authored
  before it and pushed later is never listed, against `ghsync.go:161`.
* The recover is outside the ticker's loop (`http_server.go:342`), so that one
  panic ends the background sync until the next restart, against
  `http_server.go:335`.  `PushedIsStored` says what holds nevertheless.
* While `Run` waits for a group to get ready (`service_manager.go:402`), nobody
  looks at a failure, against `service_manager.go:529`.  The program's only
  service has no readiness signal.  `FailureEndsRun` says what holds nevertheless.
* One request reads the LLM settings twice (`llm_step_client.go:72`), so a model
  may get a schema that only another one supports, against
  `llm_step_client.go:20`.  `SchemaSupported` says what holds nevertheless.
* The composer is told of eight types of layout blocks (`llm_composer.go:41`), of
  which the layout knows four (`layout.go:79`, `CanRender`): a draft with one of
  the others is saved and every run of it fails.
* With two processes the cursor can move back (`ghsync.go:189`), which is
  harmless: `NoGap` holds with two.
* When the migration fails, `db.Open` returns without closing what it opened
  (`db.go:39`); the process ends at once.
* A Stop from outside before the groups are recorded uses up `stopOnce`, so that
  services launched later are never stopped (`EveryoneStopped` excludes it); a
  signal before `App.Run` has set `a.cancel` cancels nothing (`app.go:125`), so
  that only the timer ends the process; during the pre-run hooks it makes the
  post-stop hooks run before the services start (`app.go:136`; the program
  registers no hooks).
* Off-hours windows that overlap are taken off twice.  An update of a custom
  template that was looked up before a delete brings the template back.  A
  timeline that grows while it is read has rows twice, which the totals of
  events and additions then count twice (`NothingMissed` says that none is lost).
* `GITRAKZ_SYNC_SINCE` is read (`config/config.go:17`) and never used, against
  `README.md:170`.  `ListSessions` ignores its gap (`handlers_timeline.go:138`).
  A layout block with a source whose parameters are the JSON `null` makes
  `mapping.go:250` write into a nil map.  The runner's form sends an empty text
  for off-hours that are left at their default, and such a run fails.

## 7. Plan

Done so far, in this order: sync, manager, process, timesheet, requests, the
server in its process, templates on their way around, documents and exports, the
web client's timeline; each with its proofs, down to every invariant that a run
checks.  Left:

1. The web client's template runner and editor: a document that stays on the
   screen, and can be exported, after another template was chosen; a run and an
   edit that cross.
2. The restore of the installer (`install.sh:377`) with its rotation of archives.

## 8. Not modelled

Generated code (`api.gen.go`, the repositories) is a third of the source; what it
does is in the models of those that call it.  The router, the mapping of errors
to status codes, the static files of the web client and the reading of the
environment hold no state.  Drafts of templates (`GenerateTemplate`) change
nothing, and nothing calls the table of saved documents.  Of the web client the
editor, the runner and the settings page are left out.  Off-hours minutes outside
a day and float64 rounding are left out of `Timesheet`.  The installer's restore
rotates backups before it reads the archive it restores; it is a shell script
around docker, runs beside nothing, and is a candidate for a later module.  Pull
requests, reviews, issues and releases are named in the README but the sync
fetches commits only, so the model of the sync has commits only.
