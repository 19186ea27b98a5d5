------------------------------ MODULE LLMSteps ------------------------------
(***************************************************************************)
(* The two primitives of a pipeline that call an LLM: describe-work        *)
(* (internal/pkg/transform/describework), which describes each group of    *)
(* commits and keeps the texts in the table llm_cache, and llm             *)
(* (internal/pkg/transform/llmstep), which does not cache.  Both call the  *)
(* model that the row of llm_settings names at that moment                 *)
(* (services/http-server: llm_runtime, llm_describer, llm_step_client).    *)
(*                                                                         *)
(* Every call of the store, of the LLM and of gh is a step.  A hash stands *)
(* for what is hashed.  A text is a sequence of lines, and a group's input *)
(* is made of the titles and diffs of its commits only: groups that read   *)
(* alike have one cache row, whichever commits they are.                   *)
(***************************************************************************)
EXTENDS TimelineReads, SequencesExt

CONSTANTS
    Groups,       \* the keys that commits are grouped by, in their order
    GroupOf,      \* the group of a commit
    TitleOf,      \* the title of a commit
    Thin,         \* the titles that need the diff of their commit
    DiffOf,       \* the lines of the diff of a commit; no diff is one empty line
    DiffTruncateLen, \* how much of a diff is used
    Models,       \* the models that may be chosen
    SchemaModels, \* those that support a response schema
    Versions,     \* the processing versions that steps' parameters hash to
    None          \* nothing yet

ASSUME LLMAssumption ==
    /\ Groups \subseteq Nat \ {0}
    /\ GroupOf \in [Events -> Groups]
    /\ DiffOf \in [Events -> Seq(STRING) \ {<<>>}]
    /\ DiffTruncateLen \in Nat \ {0}
    /\ SchemaModels \subseteq Models

VARIABLES
    settings,   \* the model in table llm_settings
    cache,      \* table llm_cache: the output under each key that has a row
    pipeline,   \* the steps a request has still to run
    version,    \* primitive.processingVersion of the step that runs
    todo,       \* the groups it has still to describe
    asked,      \* the model its request to the LLM names
    schema,     \* whether it goes with a response schema
    answer,     \* what the LLM answered
    rows,       \* State.Rows
    inForce     \* history: the models that were set since the request began

stepVars == <<version, todo, asked, schema, answer, rows>>
llmVars == <<settings, cache, pipeline, stepVars, inForce>>

Ended == {"idle", "done", "failed"}

LLMInit ==
    /\ settings \in Models
    /\ cache = <<>>
    /\ pipeline = [r \in Requests |-> <<>>]
    /\ version = [r \in Requests |-> None]
    /\ todo = [r \in Requests |-> {}]
    /\ asked = [r \in Requests |-> None]
    /\ schema = [r \in Requests |-> FALSE]
    /\ answer = [r \in Requests |-> None]
    /\ rows = [r \in Requests |-> <<>>]
    /\ inForce = [r \in Requests |-> {}]

\* UpdateLLMSettings saves another model.
UpdateSettings(m) ==
    /\ m # settings
    /\ settings' = m
    /\ inForce' = [r \in Requests |->
                     IF at[r] \in Ended THEN inForce[r] ELSE inForce[r] \cup {m}]
    /\ UNCHANGED <<timelineVars, cache, pipeline, stepVars>>

Goto(r, place) == at' = [at EXCEPT ![r] = place]

\* Request r is between two steps, and the next one is of this kind.
Begin(r, kind) ==
    /\ at[r] = "run"
    /\ pipeline[r] # <<>> /\ Head(pipeline[r]).kind = kind
    /\ pipeline' = [pipeline EXCEPT ![r] = Tail(@)]
    /\ UNCHANGED <<table, readVars, settings, cache, asked, answer, rows, inForce>>

-----------------------------------------------------------------------------
(* describe-work. *)

\* groupCommits: sync stores only commits, so every event has a group.
GroupsRead(r) == {GroupOf[e] : e \in Got(r)}

\* State.Timeline: the rows of the pages, one after the other.
Timeline(pages) ==
    FlattenSeq([i \in DOMAIN pages |->
        SetToSortSeq(pages[i], LAMBDA e, f : Position[e] < Position[f])])

\* The commits of a group, in Timeline order.
Commits(pages, g) == SelectSeq(Timeline(pages), LAMBDA e : GroupOf[e] = g)

NeedsDiff(e) == TitleOf[e] \in Thin

Truncated(d) == SubSeq(d, 1, Min({Len(d), DiffTruncateLen}))

\* The title and, if it is thin, the beginning of the diff.
Segment(e) ==
    <<TitleOf[e]>> \o (IF NeedsDiff(e) THEN Truncated(DiffOf[e]) ELSE <<>>)

BuildInput(commits) == FlattenSeq([i \in DOMAIN commits |-> Segment(commits[i])])

\* The text of a group.
Input(r, g) == BuildInput(Commits(reads[r], g))

\* Variant: a group is cached under its own key.
KeyOfGroup(r, g) == <<version[r], g>>

\* hashHex(Name | processingVersion | inputHash)
CacheKey(r, g) == <<version[r], Input(r, g)>>

\* The group whose turn it is.
Group(r) == Min(todo[r])

BeginDescribe(r) ==
    /\ Begin(r, "describe")
    /\ version' = [version EXCEPT ![r] = Head(pipeline[r]).version]
    /\ todo' = [todo EXCEPT ![r] = GroupsRead(r)]
    /\ Goto(r, IF GroupsRead(r) = {} THEN "run" ELSE "lookup")
    /\ UNCHANGED schema

\* The row of the group is appended and the next group is due.
AppendRow(r, text) ==
    /\ rows' = [rows EXCEPT ![r] =
                  Append(@, [group |-> Group(r), version |-> version[r],
                             output |-> text])]
    /\ todo' = [todo EXCEPT ![r] = @ \ {Group(r)}]
    /\ Goto(r, IF todo[r] = {Group(r)} THEN "run" ELSE "lookup")

DiffFails(r) ==
    /\ at[r] = "lookup"
    /\ \E e \in Got(r) : GroupOf[e] = Group(r) /\ NeedsDiff(e)
    /\ Goto(r, "failed")
    /\ UNCHANGED <<table, readVars, llmVars>>

CacheHit(r) ==
    /\ at[r] = "lookup"
    /\ CacheKey(r, Group(r)) \in DOMAIN cache
    /\ AppendRow(r, cache[CacheKey(r, Group(r))])
    /\ UNCHANGED <<table, readVars, settings, cache, pipeline, version, asked,
                   schema, answer, inForce>>

CacheMiss(r) ==
    /\ at[r] = "lookup"
    /\ CacheKey(r, Group(r)) \notin DOMAIN cache
    /\ Goto(r, "configure")
    /\ UNCHANGED <<table, readVars, llmVars>>

\* llmRuntime.configure: the model of the settings, whatever the step names.
Configure(r, from, to) ==
    /\ at[r] = from
    /\ asked' = [asked EXCEPT ![r] = settings]
    /\ Goto(r, to)
    /\ UNCHANGED <<table, readVars, settings, cache, pipeline, version, todo,
                   schema, answer, rows, inForce>>

ConfigureDescribe(r) == Configure(r, "configure", "ask")

Describe(r) ==
    /\ at[r] = "ask"
    /\ answer' = [answer EXCEPT ![r] = [input |-> Input(r, Group(r)),
                                        version |-> version[r],
                                        model |-> asked[r]]]
    /\ Goto(r, "put")
    /\ UNCHANGED <<table, readVars, settings, cache, pipeline, version, todo,
                   asked, schema, rows, inForce>>

\* Variant: the text goes into the row only.
PutNothing(k, text) == UNCHANGED cache

\* Store.LLMCachePut: insert, or replace the row of the key.
LLMCachePut(k, text) ==
    cache' = [x \in DOMAIN cache \cup {k} |-> IF x = k THEN text ELSE cache[x]]

Put(r) ==
    /\ at[r] = "put"
    /\ LLMCachePut(CacheKey(r, Group(r)), answer[r])
    /\ AppendRow(r, answer[r])
    /\ answer' = [answer EXCEPT ![r] = None]
    /\ asked' = [asked EXCEPT ![r] = None]
    /\ UNCHANGED <<table, readVars, settings, pipeline, version, schema, inForce>>

-----------------------------------------------------------------------------
(* llm. *)

BeginComplete(r) ==
    /\ Begin(r, "llm")
    /\ schema' = [schema EXCEPT ![r] = Head(pipeline[r]).schema]
    /\ Goto(r, "prepare")
    /\ UNCHANGED <<version, todo>>

ConfigureComplete(r) ==
    Configure(r, "prepare", IF schema[r] THEN "support" ELSE "complete")

\* Variant: what the step asks for is sent to whatever model is set.
SchemaAsGiven(r) ==
    /\ at[r] = "support"
    /\ Goto(r, "complete")
    /\ UNCHANGED <<table, readVars, llmVars>>

\* supportsJSONSchema reads the settings again.
SupportsJSONSchema(r) ==
    /\ at[r] = "support"
    /\ schema' = [schema EXCEPT ![r] = settings \in SchemaModels]
    /\ Goto(r, "complete")
    /\ UNCHANGED <<table, readVars, settings, cache, pipeline, version, todo,
                   asked, answer, rows, inForce>>

Complete(r) ==
    /\ at[r] = "complete"
    /\ rows' = [rows EXCEPT ![r] =
                  Append(@, [group |-> 0,
                             output |-> [model |-> asked[r], schema |-> schema[r]]])]
    /\ asked' = [asked EXCEPT ![r] = None]
    /\ schema' = [schema EXCEPT ![r] = FALSE]
    /\ Goto(r, "run")
    /\ UNCHANGED <<table, readVars, settings, cache, pipeline, version, todo,
                   answer, inForce>>

-----------------------------------------------------------------------------
\* The places where a request waits for the store or the LLM.
Calling == {"lookup", "configure", "ask", "put", "prepare", "support", "complete"}

\* Variant: a call that failed is made again.
TryAgain == "lookup"

\* Apply returns the error, and with it the whole run.
AfterError == "failed"

CallFails(r) ==
    /\ at[r] \in Calling
    /\ Goto(r, IF at[r] = "ask" THEN AfterError ELSE "failed")
    /\ UNCHANGED <<table, readVars, llmVars>>

LLMStep(r) ==
    \/ CallFails(r)
    \/ BeginDescribe(r) \/ DiffFails(r) \/ CacheHit(r) \/ CacheMiss(r)
    \/ ConfigureDescribe(r) \/ Describe(r) \/ Put(r)
    \/ BeginComplete(r) \/ ConfigureComplete(r) \/ SupportsJSONSchema(r)
    \/ Complete(r)

-----------------------------------------------------------------------------
(* Properties. *)

\* Whoever had it written, and for whichever group, the description in a row
\* was written for that processing version and for exactly the lines that the
\* commits of the row's group have as this request read them: not for what the
\* group was before a sync added to it, nor from the diff of another commit.
\* Two groups that read alike share a text.
DescriptionsHonest ==
    \A r \in Requests : \A i \in DOMAIN rows[r] :
        rows[r][i].group # 0 =>
            /\ rows[r][i].output.version = rows[r][i].version
            /\ rows[r][i].output.input = Input(r, rows[r][i].group)

\* What a request has paid for is kept: whenever a row is in a request, also in
\* one that failed later, its text is found under its key, so that a retry
\* does not ask for it again.
PaidIsKept ==
    \A r \in Requests : \A i \in DOMAIN rows[r] :
        rows[r][i].group # 0 =>
            <<rows[r][i].version, Input(r, rows[r][i].group)>> \in DOMAIN cache

\* An llm step asks a model that was set while its request ran, and sends a
\* response schema only if such a model supports it.  As the settings are read
\* once for the model and once for the schema, it need not be the same one; but
\* unless they change meanwhile, no model gets a schema it does not support.
SchemaSupported ==
    \A r \in Requests : \A i \in DOMAIN rows[r] :
        rows[r][i].group = 0 =>
            /\ rows[r][i].output.model \in inForce[r]
            /\ rows[r][i].output.schema => inForce[r] \cap SchemaModels # {}

\* What describework.go says of its cache: once the model is changed, old
\* texts are not served any more.  A finished request has only texts of models
\* that were in force while it ran.
DescriptionsCurrent ==
    \A r \in Requests : at[r] = "done" =>
        \A i \in DOMAIN rows[r] : rows[r][i].output.model \in inForce[r]

=============================================================================
