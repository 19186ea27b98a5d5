------------------------------- MODULE Browse -------------------------------
(***************************************************************************)
(* Looking at the timeline: the sidebar and the list of the web client     *)
(* (Timeline.svelte, FilterSidebar.svelte, filter.svelte.ts), the handlers *)
(* that answer them one page at a time, the tools that answer an agent,    *)
(* and a sync that goes on storing events.                                 *)
(*                                                                         *)
(* A change of the filter asks for page 1 again, "Load more" asks for one  *)
(* page more, and neither cancels a call that is still under way: an       *)
(* answer is computed when the server runs the query and takes effect      *)
(* when it arrives, in whatever order.                                     *)
(*                                                                         *)
(* A text filter is "" and a time filter is 0 when it is not set.          *)
(***************************************************************************)
EXTENDS Integers, Sequences, SequencesExt

CONSTANTS
    Rows,             \* every event that may be stored; row orders one second
    Ranges,           \* the pairs <<from, to>> a user may enter
    Types,            \* EVENT_TYPES
    DefaultPerPage,
    MaxPerPage,
    RawPages,         \* what an agent may pass as page
    RawSizes,         \* what an agent may pass as perPage
    None,             \* a call the server has not answered yet
    Failed,           \* the answer of a call that failed
    CallsMayFail,     \* whether calls may fail
    MaxCalls,         \* bound: calls of one kind under way at once
    MaxChanges        \* bound: changes of the filter

ASSUME BrowseAssumption ==
    /\ IsFiniteSet(Rows)
    /\ \A e, f \in Rows : /\ e.ts \in Int /\ e.row \in Int
                          /\ e.row = f.row => e = f
    /\ DefaultPerPage \in 1..MaxPerPage
    /\ MaxPerPage \in Nat
    /\ CallsMayFail \in BOOLEAN
    /\ Ranges \subseteq Int \X Int
    /\ RawPages \subseteq Int
    /\ RawSizes \subseteq Int

VARIABLES
    table,      \* table events
    filter,     \* the filter state that the views share
    changes,    \* how often it was changed
    items,      \* Timeline: what it shows,
    page,       \*   the last page it has,
    hasMore,    \*   whether there is another,
    loading,    \*   and whether "Load more" is disabled
    owners,     \* FilterSidebar: the owners
    repos,      \*   and the repositories to choose from
    asked,      \* calls of listTimeline under way, in the order asked
    reposAsked, \* calls of listRepos under way
    first,      \* history: all that matched when the page 1 shown was read
    mixed,      \* history: since then calls crossed, or a reload failed
    reposMixed  \* history: the same of the repositories

viewVars == <<items, page, hasMore, loading, first, mixed>>
sideVars == <<owners, repos, reposAsked, reposMixed>>
filterVars == <<filter, changes>>
browseVars == <<table, filterVars, viewVars, asked, sideVars>>

-----------------------------------------------------------------------------
(* The store. *)

Newer(e, f) == e.ts > f.ts \/ (e.ts = f.ts /\ e.row > f.row)

\* The conditions of QueryTimeline: a field that is not set is no condition.
Matching(f) ==
    {e \in table : /\ f.owner # "" => e.owner = f.owner
                   /\ f.repo # "" => e.repo = f.repo
                   /\ f.type # "" => e.type = f.type
                   /\ f.from > 0 => e.ts >= f.from
                   /\ f.to > 0 => e.ts =< f.to}

\* ORDER BY: the rows of M, newest first.
NewestFirst(M) ==
    CHOOSE s \in [1..Cardinality(M) -> M] :
        \A i, j \in DOMAIN s : i < j => Newer(s[i], s[j])

Listing(f) == NewestFirst(Matching(f))

QueryTimeline(f, p, perPage) ==
    LET rows == SubSeq(Listing(f), p * perPage + 1,
                       IF p * perPage + perPage + 1 < Len(Listing(f))
                       THEN p * perPage + perPage + 1 ELSE Len(Listing(f)))
        more == Len(rows) = perPage + 1
    IN [rows |-> IF more THEN Front(rows) ELSE rows, hasMore |-> more]

ListOwners == {e.owner : e \in table}

ListRepos(owner) == {e.repo : e \in {g \in table : g.owner = owner}}

-----------------------------------------------------------------------------
(* The handlers and the tools. *)

\* Variant: pages are taken to count from 0.
ResolvePageFromZero(p) == IF p > 0 THEN p ELSE 0

ResolvePage(p) == IF p > 0 THEN p - 1 ELSE 0

\* The interface: a size that is out of bounds is moved to the bound.
ResolvePerPage(n) ==
    IF n < 1 THEN 1 ELSE IF n > MaxPerPage THEN MaxPerPage ELSE n

\* The tool: no size, which is 0, is the default size.
ToolPerPage(n) == ResolvePerPage(IF n = 0 THEN DefaultPerPage ELSE n)

ListTimeline(f, p, n) == QueryTimeline(f, ResolvePage(p), ResolvePerPage(n))

ToolQueryTimeline(f, p, n) == QueryTimeline(f, ResolvePage(p), ToolPerPage(n))

Failures == IF CallsMayFail THEN {Failed} ELSE {}

-----------------------------------------------------------------------------
(* Timeline. *)

\* History: crossed says that a later call was answered first, or that "Load
\* more" asked while an earlier call was under way; whole is all that matched.
Ask(f, p, replace, crossed) ==
    [filter |-> f, page |-> p, replace |-> replace, answer |-> None,
     whole |-> {}, crossed |-> crossed]

Load(f, p, replace) ==
    /\ Len(asked) < MaxCalls
    /\ asked' = Append(asked, Ask(f, p, replace, ~replace /\ asked # <<>>))
    /\ loading' = TRUE
    /\ UNCHANGED <<items, page, hasMore, first, mixed>>

LoadMore ==
    /\ hasMore /\ items # <<>>
    /\ ~loading
    /\ Load(filter, page + 1, FALSE)
    /\ UNCHANGED <<table, filterVars, sideVars>>

\* The server runs the query of a call, or fails it.
ServeTimeline(i) ==
    /\ asked[i].answer = None
    /\ LET c == asked[i]
       IN \E a \in {ListTimeline(c.filter, c.page, DefaultPerPage)} \cup Failures :
            asked' = [asked EXCEPT ![i].answer = a,
                                   ![i].whole = Matching(c.filter)]
    /\ UNCHANGED <<table, filterVars, viewVars, sideVars>>

\* Variant: every answer is appended.
ShownAppended(c, was) == was \o c.answer.rows

\* What is shown once the answer of c has come.
Shown(c, was) == IF c.replace THEN c.answer.rows ELSE was \o c.answer.rows

\* The last page that is shown once the answer of c has come.
PageOf(c, was) == c.page

\* History: the calls before the i-th are answered later than it.
Overtaken(calls, i) ==
    [j \in DOMAIN calls |->
        IF j < i THEN [calls[j] EXCEPT !.crossed = TRUE] ELSE calls[j]]

\* The answer of the i-th call arrives, before those asked earlier or not.
ArriveTimeline(i) ==
    /\ asked[i].answer # None
    /\ asked' = RemoveAt(Overtaken(asked, i), i)
    /\ loading' = FALSE
    /\ LET c == asked[i]
       IN \/ /\ c.answer # Failed
             /\ items' = Shown(c, items)
             /\ hasMore' = c.answer.hasMore
             /\ page' = PageOf(c, page)
             /\ first' = IF c.replace THEN c.whole ELSE first
             /\ mixed' = (c.crossed \/ (mixed /\ ~c.replace))
          \/ /\ c.answer = Failed
             /\ mixed' = (mixed \/ c.replace)
             /\ UNCHANGED <<items, hasMore, page, first>>
    /\ UNCHANGED <<table, filterVars, sideVars>>

-----------------------------------------------------------------------------
(* FilterSidebar and the filter the views share. *)

ReloadTimeline(f) ==
    /\ changes < MaxChanges
    /\ filter' = f /\ changes' = changes + 1
    /\ Load(f, 1, TRUE)

\* Variant: without an owner the repositories of the one before stay.
SetOwnerKeepingRepos(o) ==
    /\ o # filter.owner
    /\ ReloadTimeline([filter EXCEPT !.owner = o, !.repo = ""])
    /\ Len(reposAsked) < MaxCalls
    /\ reposAsked' = IF o = "" THEN reposAsked
                     ELSE Append(reposAsked, [owner |-> o, answer |-> None,
                                              crossed |-> FALSE])
    /\ UNCHANGED <<table, owners, repos, reposMixed>>

\* Another owner: its repositories are asked for, and the repository that was
\* chosen is forgotten.
SetOwner(o) ==
    /\ o # filter.owner
    /\ ReloadTimeline([filter EXCEPT !.owner = o, !.repo = ""])
    /\ \/ /\ o = ""
          /\ repos' = {} /\ reposMixed' = FALSE
          /\ reposAsked' = Overtaken(reposAsked, Len(reposAsked) + 1)
       \/ /\ o # ""
          /\ Len(reposAsked) < MaxCalls
          /\ reposAsked' = Append(reposAsked, [owner |-> o, answer |-> None,
                                                crossed |-> FALSE])
          /\ UNCHANGED <<repos, reposMixed>>
    /\ UNCHANGED <<table, owners>>

SetRepo(r) ==
    /\ filter.owner # "" /\ r # filter.repo
    /\ ReloadTimeline([filter EXCEPT !.repo = r])
    /\ UNCHANGED <<table, sideVars>>

SetType(t) ==
    /\ t # filter.type
    /\ ReloadTimeline([filter EXCEPT !.type = t])
    /\ UNCHANGED <<table, sideVars>>

SetRange(from, to) ==
    /\ <<from, to>> # <<filter.from, filter.to>>
    /\ ReloadTimeline([filter EXCEPT !.from = from, !.to = to])
    /\ UNCHANGED <<table, sideVars>>

\* The owners are asked for once; if that fails there are none to choose.
LoadOwners ==
    /\ owners = None
    /\ owners' \in {ListOwners, {}}
    /\ UNCHANGED <<table, filterVars, viewVars, asked, repos, reposAsked, reposMixed>>

ServeRepos(i) ==
    /\ reposAsked[i].answer = None
    /\ \E a \in {ListRepos(reposAsked[i].owner)} \cup Failures :
            reposAsked' = [reposAsked EXCEPT ![i].answer = a]
    /\ UNCHANGED <<table, filterVars, viewVars, asked, owners, repos, reposMixed>>

ArriveRepos(i) ==
    /\ reposAsked[i].answer # None
    /\ reposAsked' = RemoveAt(Overtaken(reposAsked, i), i)
    /\ LET c == reposAsked[i]
       IN \/ c.answer # Failed /\ repos' = c.answer /\ reposMixed' = c.crossed
          \/ c.answer = Failed /\ reposMixed' = TRUE /\ UNCHANGED repos
    /\ UNCHANGED <<table, filterVars, viewVars, asked, owners>>

-----------------------------------------------------------------------------

\* A sync stores an event.
Store(e) ==
    /\ table' = table \cup {e}
    /\ e \notin table
    /\ UNCHANGED <<filterVars, viewVars, asked, sideVars>>

Unfiltered == [owner |-> "", repo |-> "", type |-> "", from |-> 0, to |-> 0]

\* The views are opened: the effects run for the first time.
BrowseInit ==
    /\ table \in SUBSET Rows
    /\ filter = Unfiltered /\ changes = 0
    /\ items = <<>> /\ page = 1 /\ hasMore = FALSE /\ loading = TRUE
    /\ owners = None /\ repos = {}
    /\ asked = <<Ask(Unfiltered, 1, TRUE, FALSE)>>
    /\ reposAsked = <<>>
    /\ first = {} /\ mixed = FALSE /\ reposMixed = FALSE

BrowseNext ==
    \/ LoadMore
    \/ LoadOwners
    \/ owners # None /\ \E o \in owners \cup {""} : SetOwner(o)
    \/ \E r \in repos \cup {""} : SetRepo(r)
    \/ \E t \in Types \cup {""} : SetType(t)
    \/ \E R \in Ranges : SetRange(R[1], R[2])
    \/ \E i \in DOMAIN asked : ServeTimeline(i)
    \/ \E i \in DOMAIN asked : ArriveTimeline(i)
    \/ \E i \in DOMAIN reposAsked : ServeRepos(i)
    \/ \E i \in DOMAIN reposAsked : ArriveRepos(i)
    \/ \E e \in Rows : Store(e)

BrowseSpec == BrowseInit /\ [][BrowseNext]_browseVars

-----------------------------------------------------------------------------
(* Properties. *)

FirstOf(n) == SubSeq(Listing(filter), 1, IF n < Len(Listing(filter))
                                         THEN n ELSE Len(Listing(filter)))

\* At rest, unless calls crossed or a reload failed since page 1 was read, and
\* whatever a sync stores between two pages: Timeline shows events of the filter
\* only, the pages it has skip none that matched when page 1 was read, and at
\* the end of the results all of those are shown.  If no matching event was
\* stored since, it shows the beginning of the listing, no event twice, and
\* there is a "Load more" exactly if there is more.
ViewFollowsListing ==
    LET loaded == FirstOf(page * DefaultPerPage)
    IN asked = <<>> /\ ~mixed =>
        /\ ToSet(items) \subseteq Matching(filter)
        /\ \A e \in first : e \in ToSet(loaded) \/ ~hasMore => e \in ToSet(items)
        /\ Matching(filter) = first =>
             /\ items = loaded
             /\ hasMore = (Len(Listing(filter)) > Len(loaded))

\* A filter refreshes every view: once all calls are answered, and if none
\* failed, the events in Timeline match the filter and the repositories in the
\* sidebar are the owner's.  Answers that cross refute it for either view, and
\* for Timeline so does a "Load more" while page 1 is still under way.
FilterRefreshes ==
    asked = <<>> /\ reposAsked = <<>> =>
        /\ ToSet(items) \subseteq Matching(filter)
        /\ repos \subseteq ListRepos(filter.owner)

\* At rest, unless answers crossed or failed, the repositories that the sidebar
\* offers are of the owner that is chosen: none without an owner.
ReposOfOwner ==
    reposAsked = <<>> /\ ~reposMixed => repos \subseteq ListRepos(filter.owner)

\* At rest, an agent that asks for pages 1, 2, ... until there are no more gets
\* the listing, whatever size it asks for, and no page is larger than the
\* limit.  A page before the first is the first.
PagesJoin ==
    asked = <<>> /\ reposAsked = <<>> =>
    \A n \in RawSizes :
        LET got == [p \in 1..Len(Listing(filter)) + 1 |->
                        ToolQueryTimeline(filter, p, n)]
            last == CHOOSE p \in DOMAIN got : /\ ~got[p].hasMore
                                              /\ \A q \in 1..p - 1 : got[q].hasMore
        IN /\ FlattenSeq([p \in 1..last |-> got[p].rows]) = Listing(filter)
           /\ \A p \in RawPages :
                 LET page1 == ToolQueryTimeline(filter, p, n)
                 IN Len(page1.rows) =< MaxPerPage /\ (p < 1 => page1 = got[1])

=============================================================================
