----------------------------- MODULE Templates -----------------------------
(***************************************************************************)
(* The templates table: the handlers that create, update and delete custom *)
(* templates (internal/pkg/http/server/handlers_templates.go) and the      *)
(* seeding of the built-in ones when a process starts (http_server.go,     *)
(* internal/pkg/common/templates).  A handler that looks a template up     *)
(* before it writes does both in calls of their own.                       *)
(***************************************************************************)
EXTENDS Naturals

CONSTANTS
    Editors,    \* requests that change a template
    Boots,      \* starts of processes that seed
    BuiltinIds, \* the ids of the built-in templates
    CustomIds,  \* the ids that uuid.NewString may return
    Bodies,     \* what a client may submit: pipelines
    BuiltinOf,  \* the built-in templates of the release a process runs
    NoRow       \* there is no row of an id

ASSUME TemplatesAssumption ==
    /\ BuiltinIds \cap CustomIds = {}
    /\ BuiltinOf \in [Boots -> [BuiltinIds -> Bodies]]

VARIABLES
    templates,  \* table templates
    drawn,      \* the ids that were drawn
    editor,     \* what each editor has looked up and is about to write
    unseeded    \* the built-ins each starting process has still to save

templateVars == <<templates, drawn, editor, unseeded>>

Ids == BuiltinIds \cup CustomIds
Row == [body : Bodies, builtin : BOOLEAN]
Nothing == [op |-> "none"]

TemplatesInit ==
    /\ templates = [id \in Ids |-> NoRow]
    /\ drawn = {}
    /\ editor = [e \in Editors |-> Nothing]
    /\ unseeded = [b \in Boots |-> BuiltinIds]

\* Store.SaveTemplate: insert, or replace every column of the row.
SaveTemplate(id, row) == templates' = [templates EXCEPT ![id] = row]

-----------------------------------------------------------------------------
(* The handlers. *)

CreateTemplate(id, body) ==
    /\ id \in CustomIds \ drawn
    /\ drawn' = drawn \cup {id}
    /\ SaveTemplate(id, [body |-> body, builtin |-> FALSE])
    /\ UNCHANGED <<editor, unseeded>>

\* Variant: only a row that is missing is refused.
Exists(id) == templates[id] # NoRow

\* The row GetTemplate returned may be changed by a request.
MayChange(id) == templates[id] # NoRow /\ ~templates[id].builtin

\* UpdateTemplate and DeleteTemplate up to their second call of the store.
LookUpTemplate(e, op, id, body) ==
    /\ editor[e] = Nothing
    /\ MayChange(id)
    /\ editor' = [editor EXCEPT ![e] = [op |-> op, id |-> id, body |-> body]]
    /\ UNCHANGED <<templates, drawn, unseeded>>

UpdateTemplate(e) ==
    /\ editor[e].op = "update"
    /\ SaveTemplate(editor[e].id, [body |-> editor[e].body, builtin |-> FALSE])
    /\ editor' = [editor EXCEPT ![e] = Nothing]
    /\ UNCHANGED <<drawn, unseeded>>

DeleteTemplate(e) ==
    /\ editor[e].op = "delete"
    /\ templates' = [templates EXCEPT ![editor[e].id] = NoRow]
    /\ editor' = [editor EXCEPT ![e] = Nothing]
    /\ UNCHANGED <<drawn, unseeded>>

\* SeedBuiltinTemplates, one template; a process that cannot does not start.
SeedBuiltin(b, id) ==
    /\ id \in unseeded[b]
    /\ unseeded' = [unseeded EXCEPT ![b] = @ \ {id}]
    /\ SaveTemplate(id, [body |-> BuiltinOf[b][id], builtin |-> TRUE])
    /\ UNCHANGED <<drawn, editor>>

SeedFails(b) ==
    /\ unseeded[b] # {}
    /\ unseeded' = [unseeded EXCEPT ![b] = {}]
    /\ UNCHANGED <<templates, drawn, editor>>

-----------------------------------------------------------------------------
(* Properties. *)

\* Once a built-in is in the table it stays there, and it is always one that
\* some release ships, whatever requests look up and write, in whatever order,
\* while processes of several releases start.
BuiltinsIntact ==
    [][\A id \in BuiltinIds :
         templates'[id] # templates[id] =>
           \E b \in Boots : templates'[id] = [body |-> BuiltinOf[b][id],
                                              builtin |-> TRUE]]_templates

=============================================================================
