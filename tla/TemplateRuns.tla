---------------------------- MODULE TemplateRuns ----------------------------
(***************************************************************************)
(* Running a template: POST /run, POST /export and the MCP tool            *)
(* gitrakz_run_template look the template up, read the timeline and run    *)
(* the pipeline, while a sync stores events, templates are edited, the     *)
(* LLM settings are changed and other requests run.  Each request is a     *)
(* goroutine; what they share is the database.                             *)
(*                                                                         *)
(* Of a pipeline the steps that call the LLM are modelled here; what the   *)
(* deterministic ones compute is in Timesheet.                             *)
(***************************************************************************)
EXTENDS Templates, LLMSteps

CONSTANT Loads  \* what may be there at first and happen: one is chosen

VARIABLE load   \* what may still happen

vars == <<timelineVars, templateVars, llmVars, load>>

KnownKinds == {"describe", "llm"}

Init ==
    /\ ReadsInit /\ TemplatesInit /\ LLMInit
    /\ load \in Loads
    /\ table = load.table

\* One of a kind of event that may happen load[what] times.
Spend(what) ==
    /\ load[what] > 0
    /\ load' = [load EXCEPT ![what] = @ - 1]

-----------------------------------------------------------------------------
(* A request. *)

\* runTemplateByID up to the timeline: the template as it is now is what runs.
GetTemplate(r, id, F) ==
    /\ r \in load.requests
    /\ templates[id] # NoRow
    /\ StartRead(r, F)
    /\ pipeline' = [pipeline EXCEPT ![r] = templates[id].body]
    /\ inForce' = [inForce EXCEPT ![r] = {settings}]
    /\ UNCHANGED <<templateVars, settings, cache, stepVars, load>>

\* There is no such template, or the store fails.
GetTemplateFails(r) ==
    /\ r \in load.requests
    /\ at[r] = "idle"
    /\ Goto(r, "failed")
    /\ UNCHANGED <<templateVars, table, readVars, llmVars, load>>

ReadTimeline(r) ==
    /\ QueryPage(r) \/ QueryFails(r)
    /\ UNCHANGED <<templateVars, llmVars, load>>

\* Engine.Run begins: a step the registry does not know fails the run.
BuildPipeline(r) ==
    /\ at[r] = "read"
    /\ Goto(r, IF \A i \in DOMAIN pipeline[r] : pipeline[r][i].kind \in KnownKinds
               THEN "run" ELSE "failed")
    /\ UNCHANGED <<templateVars, table, readVars, llmVars, load>>

RunStep(r) == LLMStep(r) /\ UNCHANGED <<templateVars, load>>

\* The document is rendered and returned.
Finish(r) ==
    /\ at[r] = "run" /\ pipeline[r] = <<>>
    /\ Goto(r, "done")
    /\ UNCHANGED <<templateVars, table, readVars, llmVars, load>>

Proceed(r) ==
    ReadTimeline(r) \/ BuildPipeline(r) \/ RunStep(r) \/ Finish(r)

-----------------------------------------------------------------------------
(* What else happens. *)

Sync ==
    /\ Spend("stores")
    /\ \E e \in Events : Store(e)
    /\ UNCHANGED <<templateVars, llmVars>>

Settings ==
    /\ Spend("changes")
    /\ \E m \in Models : UpdateSettings(m)
    /\ UNCHANGED templateVars

Edit ==
    /\ \/ /\ Spend("edits")
          /\ \/ \E id \in CustomIds, body \in Bodies : CreateTemplate(id, body)
             \/ \E e \in Editors, op \in {"update", "delete"}, id \in Ids,
                   body \in Bodies : LookUpTemplate(e, op, id, body)
       \/ /\ \E e \in Editors : UpdateTemplate(e) \/ DeleteTemplate(e)
          /\ UNCHANGED load
    /\ UNCHANGED <<timelineVars, llmVars>>

Boot ==
    /\ \E b \in Boots : /\ b \in load.boots
                        /\ (\E id \in BuiltinIds : SeedBuiltin(b, id)) \/ SeedFails(b)
    /\ UNCHANGED <<timelineVars, llmVars, load>>

Next ==
    \/ \E r \in Requests :
         \/ \E id \in Ids, F \in Filters : GetTemplate(r, id, F)
         \/ GetTemplateFails(r)
         \/ Proceed(r)
    \/ Sync \/ Settings \/ Edit \/ Boot

Spec == Init /\ [][Next]_vars

\* A request that has begun goes on: every call it makes returns.
Fairness == \A r \in Requests : WF_vars(Proceed(r))

FairSpec == Spec /\ Fairness

-----------------------------------------------------------------------------
(* Properties. *)

\* The type invariant, for pipelines that describe once.  While a group is
\* described it is one that was read and that has no row yet, and a model is
\* asked only in a call of it.
RunTypeOK ==
    /\ table \subseteq Events /\ settings \in Models
    /\ at \in [Requests -> {"reading", "read", "run"} \cup Calling \cup Ended]
    /\ page \in [Requests -> Nat]
    /\ templates \in [Ids -> Row \cup {NoRow}]
    /\ \A r \in Requests :
         /\ Got(r) \subseteq table \cap filter[r]
         /\ todo[r] \subseteq GroupsRead(r)
         /\ \A i \in DOMAIN rows[r] : rows[r][i].group \notin todo[r]
         /\ at[r] \in {"lookup", "configure", "ask", "put"} => todo[r] # {}
         /\ at[r] \in {"ask", "put", "support", "complete"} => asked[r] \in inForce[r]
         /\ at[r] = "put" => answer[r].model = asked[r]

\* A request that has begun is answered, however the timeline grows meanwhile
\* and whatever fails.
RunEnds == \A r \in Requests : at[r] \notin Ended ~> at[r] \in {"done", "failed"}

=============================================================================
