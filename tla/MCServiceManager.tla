-------------------------- MODULE MCServiceManager --------------------------
(***************************************************************************)
(* Instances of ServiceManager for TLC: three services, of which db signals*)
(* that it is ready, web is retried once and job may fail.  In the chain,  *)
(* web also names a service that does not exist, and when web is not       *)
(* enabled job starts in one group with db.                                *)
(***************************************************************************)
EXTENDS ServiceManager, TLC

CONSTANTS db, web, job, absent

Chain == (db :> {}) @@ (web :> {db, absent}) @@ (job :> {web})
Cycle == (db :> {}) @@ (web :> {job}) @@ (job :> {web})

MCGraphs == {Chain, Cycle}
MCRetries == [s \in Services |-> IF s = web THEN 1 ELSE 0]

=============================================================================
