--------------------------- MODULE TimelineReads ---------------------------
(***************************************************************************)
(* Reading a whole timeline: queryFullTimeline of internal/pkg/http/server *)
(* and internal/pkg/mcp asks Store.QueryTimeline for page after page, by   *)
(* offset, newest first, while a sync goes on storing events.  Every page  *)
(* is a query of its own, so events may be stored between two pages.       *)
(*                                                                         *)
(* Position is the order of the listing: newer events first, events of one *)
(* second in the order of the query's scan.                                *)
(***************************************************************************)
EXTENDS Naturals, FiniteSets, Sequences

CONSTANTS
    Requests,   \* the requests that read a timeline
    Events,     \* the events that may be stored
    Position,   \* where an event stands in the listing of all of them
    Filters,    \* what a request may ask for: the events that match
    PerPage     \* runQueryPerPage

ASSUME TimelineAssumption ==
    /\ IsFiniteSet(Events)
    /\ Position \in [Events -> Nat]
    /\ \A e, f \in Events : Position[e] = Position[f] => e = f
    /\ Filters \subseteq SUBSET Events
    /\ PerPage \in Nat \ {0}

VARIABLES
    table,      \* table events
    at,         \* where each request is
    filter,     \* its filter
    page,       \* filter.Page
    reads,      \* the pages that make up `all`, in the order they came
    before,     \* history: the matching rows when the reading began
    grew        \* history: a matching row was stored since then

readVars == <<filter, page, reads, before, grew>>
timelineVars == <<table, at, readVars>>

ReadsInit ==
    /\ table \in SUBSET Events
    /\ at = [r \in Requests |-> "idle"]
    /\ filter = [r \in Requests |-> {}]
    /\ page = [r \in Requests |-> 0]
    /\ reads = [r \in Requests |-> <<>>]
    /\ before = [r \in Requests |-> {}]
    /\ grew = [r \in Requests |-> FALSE]

-----------------------------------------------------------------------------
(* Store.QueryTimeline. *)

\* How many rows of S come before e.
Rank(e, S) == Cardinality({f \in S : Position[f] < Position[e]})

\* Offset(k * PerPage).Limit(PerPage + 1) of the rows that match F.
Fetched(F, k) ==
    LET S == table \cap F
    IN {e \in S : /\ k * PerPage =< Rank(e, S)
                  /\ Rank(e, S) < k * PerPage + (PerPage + 1)}

\* Variant: a page is followed by another only if two rows more were fetched.
FarMore(F, k) == Cardinality(Fetched(F, k)) > PerPage + 1

HasMore(F, k) == Cardinality(Fetched(F, k)) = PerPage + 1

\* Variant: the row that shows that there is more is not dropped.
FetchedPage(F, k) == Fetched(F, k)

\* What is returned: the row that only shows that there is more is dropped.
Page(F, k) ==
    {e \in Fetched(F, k) : Rank(e, table \cap F) < (k + 1) * PerPage}

-----------------------------------------------------------------------------
(* queryFullTimeline. *)

StartRead(r, F) ==
    /\ at[r] = "idle"
    /\ at' = [at EXCEPT ![r] = "reading"]
    /\ filter' = [filter EXCEPT ![r] = F]
    /\ before' = [before EXCEPT ![r] = table \cap F]
    /\ UNCHANGED <<table, page, reads, grew>>

QueryPage(r) ==
    /\ at[r] = "reading"
    /\ reads' = [reads EXCEPT ![r] = Append(@, Page(filter[r], page[r]))]
    /\ \/ /\ HasMore(filter[r], page[r])
          /\ page' = [page EXCEPT ![r] = @ + 1]
          /\ UNCHANGED at
       \/ /\ ~HasMore(filter[r], page[r])
          /\ at' = [at EXCEPT ![r] = "read"]
          /\ UNCHANGED page
    /\ UNCHANGED <<table, filter, before, grew>>

QueryFails(r) ==
    /\ at[r] = "reading"
    /\ at' = [at EXCEPT ![r] = "failed"]
    /\ UNCHANGED <<table, readVars>>

\* A sync stores an event.  A batch of them is several of these steps.
Store(e) ==
    /\ e \notin table
    /\ table' = table \cup {e}
    /\ grew' = [r \in Requests |-> grew[r] \/ (at[r] = "reading" /\ e \in filter[r])]
    /\ UNCHANGED <<at, filter, page, reads, before>>

ReadsNext ==
    \/ \E r \in Requests : \/ \E F \in Filters : StartRead(r, F)
                           \/ QueryPage(r)
                           \/ QueryFails(r)
    \/ \E e \in Events : Store(e)

ReadsSpec == ReadsInit /\ [][ReadsNext]_timelineVars

-----------------------------------------------------------------------------
(* Properties. *)

\* The events a request has got.
Got(r) == UNION {reads[r][i] : i \in DOMAIN reads[r]}

\* Whatever is stored between two pages, a reading that ends has every event
\* that matched when it began: an offset into a listing that grows may give a
\* row twice, but it never skips one.
NothingMissed ==
    \A r \in Requests : at[r] = "read" => before[r] \subseteq Got(r)

\* If no matching event is stored meanwhile, the pages together are the
\* listing: every matching row, none twice, each page after the one before.
SnapshotIfQuiet ==
    \A r \in Requests :
        at[r] = "read" /\ ~grew[r] =>
            /\ Got(r) = before[r]
            /\ \A i, j \in DOMAIN reads[r] : i < j =>
                 \A e \in reads[r][i], f \in reads[r][j] : Position[e] < Position[f]

=============================================================================
