---------------------------- MODULE EventMirror ----------------------------
(***************************************************************************)
(* What incremental sync promises, without saying how a pass works.  A     *)
(* remote collection of events only grows; a local mirror is filled from   *)
(* it; every repository has a cursor, and a cursor may only be put on the  *)
(* timestamp of a mirrored event below which nothing of that repository is *)
(* missing.  The cursor is what later passes start from, so an event that  *)
(* is below it and not mirrored would never be fetched again.              *)
(*                                                                         *)
(* The promise has two exceptions, and the module says when each may be    *)
(* made: an event that arrives after a newer one of its repository, and an *)
(* event older than everything of a full page.                             *)
(***************************************************************************)
EXTENDS Naturals

CONSTANTS
    Repos,    \* repositories
    Events,   \* everything that may ever be pushed
    RepoOf,   \* the repository an event belongs to
    TS,       \* its timestamp
    FullPages \* the sets of events that fill what one look returns

VARIABLES
    remote,   \* events GitHub has
    mirror,   \* events the local store has
    cursor,   \* per repository, where the next pass starts
    missed    \* events the mirror may go without

mirrorVars == <<remote, mirror, cursor, missed>>

EventsOf(r) == {e \in Events : RepoOf[e] = r}

\* Nothing that GitHub has of r strictly below t is missing locally.
MirroredBelow(r, t) ==
    \A e \in (remote \cap EventsOf(r)) \ missed : TS[e] < t => e \in mirror

\* e comes after a newer event of its repository.
Overtaken(e) == \E f \in remote \cap EventsOf(RepoOf[e]) : TS[e] < TS[f]

Init ==
    /\ remote = {}
    /\ mirror = {}
    /\ cursor = [r \in Repos |-> 0]
    /\ missed = {}

\* An event below the cursor is missed from the start; only an overtaken one is.
Publish(e) ==
    /\ e \notin remote
    /\ remote' = remote \cup {e}
    /\ \/ missed' = missed /\ cursor[RepoOf[e]] =< TS[e]
       \/ missed' = missed \cup {e} /\ Overtaken(e)
    /\ UNCHANGED <<mirror, cursor>>

\* A look at r fills a page with B and leaves out the older events S.
Overlook(r, B, S) ==
    /\ B \cup S \subseteq remote \cap EventsOf(r)
    /\ B \cap S = {}
    /\ B \in FullPages
    /\ \A e \in S, f \in B : TS[e] =< TS[f]
    /\ missed' = missed \cup S
    /\ UNCHANGED <<remote, mirror, cursor>>

Store(S) ==
    /\ S \subseteq remote
    /\ mirror' = mirror \cup S
    /\ UNCHANGED <<remote, cursor, missed>>

MoveCursor(r, e) ==
    /\ e \in mirror \cap EventsOf(r)
    /\ MirroredBelow(r, TS[e])
    /\ cursor' = [cursor EXCEPT ![r] = TS[e]]
    /\ UNCHANGED <<remote, mirror, missed>>

Next ==
    \/ \E e \in Events : Publish(e)
    \/ \E r \in Repos, B \in FullPages, S \in SUBSET Events : Overlook(r, B, S)
    \/ \E S \in SUBSET Events : Store(S)
    \/ \E r \in Repos, e \in Events : MoveCursor(r, e)

Spec == Init /\ [][Next]_mirrorVars

============================================================================
