---------------------------- MODULE TemplateWire ----------------------------
(***************************************************************************)
(* What templates and documents go through between the engine, the table   *)
(* of templates and the clients: internal/pkg/http/server/mapping.go for   *)
(* the HTTP API, internal/pkg/mcp/dto.go for agents, and the JSON columns  *)
(* of internal/pkg/db/store.go.  The shapes differ: the API has optional   *)
(* fields where a template has zero values, and one type of block that     *)
(* serves as a layout block, whose source it has no field for, and as a    *)
(* block of a document.                                                    *)
(*                                                                         *)
(* A JSON object is a function from its keys; text and numbers are values. *)
(***************************************************************************)

CONSTANTS
    Absent,     \* an optional field that is not there, JSON that is empty
    Empty,      \* the empty text
    NotText     \* a JSON value that is no text

ASSUME TemplateWireAssumption == Empty # Absent /\ Empty # NotText

NoKeys == {}
EmptyObject == [k \in NoKeys |-> Absent]

\* stringPtrOrNil, and reading an optional text back.
OrAbsent(text) == IF text = Empty THEN Absent ELSE text
OrEmpty(optional) == IF optional = Absent THEN Empty ELSE optional

\* Decoding raw JSON into a map that was made empty, and encoding a map.
ObjectOf(raw) == IF raw = Absent THEN EmptyObject ELSE raw

-----------------------------------------------------------------------------
(* The HTTP API. *)

FormFieldToAPI(f) ==
    [name |-> f.key, label |-> OrAbsent(f.label), type |-> f.type,
     required |-> f.required, default |-> f.default]

FormFieldFromAPI(f) ==
    [key |-> f.name, label |-> OrEmpty(f.label), type |-> f.type,
     required |-> IF f.required = Absent THEN FALSE ELSE f.required,
     default |-> f.default]

StepToAPI(s) == [primitive |-> s.name, params |-> s.params]

StepFromAPI(s) == [name |-> s.primitive, params |-> s.params]

\* The source goes into the data, over a parameter of that name.
LayoutBlockToAPI(b) ==
    LET given == ObjectOf(b.params)
        keys  == DOMAIN given \cup (IF b.source = Empty THEN {} ELSE {"source"})
    IN [type |-> b.type,
        data |-> [k \in keys |-> IF k = "source" /\ b.source # Empty
                                 THEN b.source ELSE given[k]]]

\* Variant: the source stays among the parameters.
LayoutBlockKeepingSource(b) ==
    [type |-> b.type, source |-> Empty,
     params |-> IF DOMAIN b.data = {} THEN Absent ELSE b.data]

\* The source comes out of the data again; a layout block without other data
\* has no parameters.
LayoutBlockFromAPI(b) ==
    LET rest == DOMAIN b.data \ {"source"}
    IN [type   |-> b.type,
        source |-> IF "source" \notin DOMAIN b.data THEN Empty
                   ELSE IF b.data["source"] = NotText THEN Empty
                   ELSE b.data["source"],
        params |-> IF rest = {} THEN Absent ELSE [k \in rest |-> b.data[k]]]

\* An API template does not say whether it is built in.
TemplateToAPI(t) ==
    [id |-> t.id, name |-> t.name,
     description |-> OrAbsent(t.description),
     form      |-> [i \in DOMAIN t.form |-> FormFieldToAPI(t.form[i])],
     transform |-> [i \in DOMAIN t.transform |-> StepToAPI(t.transform[i])],
     layout    |-> [i \in DOMAIN t.layout |-> LayoutBlockToAPI(t.layout[i])],
     exports |-> t.exports, model |-> OrAbsent(t.model)]

TemplateFromInput(id, in) ==
    [id |-> id, name |-> in.name,
     description |-> OrEmpty(in.description),
     form      |-> [i \in DOMAIN in.form |-> FormFieldFromAPI(in.form[i])],
     transform |-> [i \in DOMAIN in.transform |-> StepFromAPI(in.transform[i])],
     layout    |-> [i \in DOMAIN in.layout |-> LayoutBlockFromAPI(in.layout[i])],
     exports |-> in.exports, model |-> OrEmpty(in.model), builtin |-> FALSE]

BlockToAPI(b) == [type |-> b.type, data |-> ObjectOf(b.data)]

\* A block that came without data has the data "null".
BlockFromAPI(b) == [type |-> b.type, data |-> b.data]

DocumentToAPI(d) == [i \in DOMAIN d |-> BlockToAPI(d[i])]
DocumentFromAPI(d) == [i \in DOMAIN d |-> BlockFromAPI(d[i])]

-----------------------------------------------------------------------------
(* The tools of an agent: what is empty is left out. *)

RawToMap(raw) == IF raw = Absent THEN Absent
                 ELSE IF DOMAIN raw = {} THEN Absent ELSE raw

FormFieldToDTO(f) == [f EXCEPT !.label = OrAbsent(@)]
StepToDTO(s) == [name |-> s.name, params |-> RawToMap(s.params)]
LayoutBlockToDTO(b) == [type |-> b.type, source |-> OrAbsent(b.source),
                        data |-> RawToMap(b.params)]

TemplateToDTO(t) ==
    [id |-> t.id, name |-> t.name,
     description |-> OrAbsent(t.description),
     form      |-> [i \in DOMAIN t.form |-> FormFieldToDTO(t.form[i])],
     transform |-> [i \in DOMAIN t.transform |-> StepToDTO(t.transform[i])],
     layout    |-> [i \in DOMAIN t.layout |-> LayoutBlockToDTO(t.layout[i])],
     exports |-> t.exports, model |-> OrAbsent(t.model), builtin |-> t.builtin]

BlockToDTO(b) == [type |-> b.type, source |-> Absent, data |-> RawToMap(b.data)]
DocumentToDTO(d) == [i \in DOMAIN d |-> BlockToDTO(d[i])]

-----------------------------------------------------------------------------
(* The table: lists are JSON in columns of text, and an empty column leaves *)
(* the list empty.  Step and layout parameters that are absent are left out *)
(* of the JSON.                                                             *)

DecodeJSONText(column) == IF column = Empty THEN <<>> ELSE column

TemplateToModel(t) ==
    [id |-> t.id, name |-> t.name, description |-> t.description,
     form |-> t.form, transform |-> t.transform, layout |-> t.layout,
     exports |-> t.exports, model |-> t.model, builtin |-> t.builtin]

TemplateFromModel(row) ==
    [id |-> row.id, name |-> row.name, description |-> row.description,
     form |-> DecodeJSONText(row.form),
     transform |-> DecodeJSONText(row.transform),
     layout |-> DecodeJSONText(row.layout),
     exports |-> DecodeJSONText(row.exports),
     model |-> row.model, builtin |-> row.builtin]

=============================================================================
