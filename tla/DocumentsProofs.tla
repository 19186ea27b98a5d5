--------------------------- MODULE DocumentsProofs ---------------------------
(***************************************************************************)
(* What a client gets, for every template, timeline and form: a template   *)
(* that is sent over the HTTP API, sent back and saved runs as it did      *)
(* before, and a template that cannot be built does not begin (Documents). *)
(***************************************************************************)
EXTENDS Documents, DataLemmas

CONSTANTS Texts, Values     \* texts that are not empty, JSON values

\* JSON objects, and those that a template may give a layout block, which has the
\* source in a field of its own.
Objects == UNION {[K -> Values] : K \in SUBSET Texts}
LayoutParams == {p \in Objects : "source" \notin DOMAIN p}

OptionalText == Texts \cup {Empty}

FormFields == [key : OptionalText, label : OptionalText, type : OptionalText,
               required : BOOLEAN, default : Values \cup {Absent}]
Steps == [name : OptionalText, params : Objects \cup {Absent}]
LayoutBlocks == [type : OptionalText, source : OptionalText,
                 params : LayoutParams \cup {Absent}]

TemplatesOfWire ==
    [id : Texts, name : OptionalText, description : OptionalText,
     form : Seq(FormFields), transform : Seq(Steps), layout : Seq(LayoutBlocks),
     exports : Seq(Texts), model : OptionalText, builtin : BOOLEAN]

\* What the model values stand for is neither JSON nor a list, and texts that
\* are not empty are not the empty one.
WireTypes ==
    /\ Absent # [k \in DOMAIN Absent |-> Absent[k]]
    /\ Absent \notin Texts /\ Empty \notin Texts /\ NotText \notin Texts
    /\ Absent \notin Objects \cup BOOLEAN
    /\ Empty \notin Seq(FormFields) \cup Seq(Steps) \cup Seq(LayoutBlocks) \cup Seq(Texts)

-----------------------------------------------------------------------------
(* Each part comes back as it was. *)

LEMMA TextComesBack == ASSUME WireTypes, NEW t \in OptionalText
                       PROVE OrEmpty(OrAbsent(t)) = t
BY TemplateWireAssumption DEF WireTypes, OptionalText, OrEmpty, OrAbsent

\* A field of a form comes back from the API as it was.
LEMMA FormFieldComesBack == ASSUME WireTypes, NEW f \in FormFields
                            PROVE FormFieldFromAPI(FormFieldToAPI(f)) = f
<1>1. OrEmpty(OrAbsent(f.label)) = f.label
  BY TextComesBack DEF FormFields
<1>2. f.required # Absent
  BY DEF FormFields, WireTypes
<1> QED BY <1>1, <1>2 DEF FormFields, FormFieldToAPI, FormFieldFromAPI

\* And so does a step.
LEMMA StepComesBack == ASSUME NEW s \in Steps PROVE StepFromAPI(StepToAPI(s)) = s
BY DEF Steps, StepToAPI, StepFromAPI

\* A layout block whose parameters are absent if there are none.
Trimmed(b) == [b EXCEPT !.params = IF DOMAIN ObjectOf(@) = {} THEN Absent ELSE @]

\* It is a layout block still.
LEMMA TrimmedIs == ASSUME NEW b \in LayoutBlocks
                   PROVE Trimmed(b) \in LayoutBlocks
BY DEF Trimmed, LayoutBlocks

\* The source is found in the data, and what is left are the parameters.
LEMMA LayoutBlockComesBack ==
    ASSUME WireTypes, NEW b \in LayoutBlocks
    PROVE  LayoutBlockFromAPI(LayoutBlockToAPI(b)) = Trimmed(b)
<1> DEFINE given == ObjectOf(b.params)
           keys  == DOMAIN given \cup (IF b.source = Empty THEN {} ELSE {"source"})
           data  == [k \in keys |-> IF k = "source" /\ b.source # Empty
                                    THEN b.source ELSE given[k]]
           rest  == DOMAIN data \ {"source"}
<1>1. LayoutBlockToAPI(b) = [type |-> b.type, data |-> data]
  BY DEF LayoutBlockToAPI
<1>2. "source" \notin DOMAIN given
  BY DEF LayoutBlocks, LayoutParams, ObjectOf, EmptyObject, NoKeys
<1>3. rest = DOMAIN given
  BY <1>2
<1>4. (IF rest = {} THEN Absent ELSE [k \in rest |-> data[k]])
        = IF DOMAIN given = {} THEN Absent ELSE b.params
  <2>1. CASE DOMAIN given = {}
    BY <1>3, <2>1
  <2>2. CASE DOMAIN given # {}
    <3>1. b.params # Absent
      BY <2>2 DEF ObjectOf, EmptyObject, NoKeys
    <3>2. given = b.params /\ b.params \in Objects
      BY <3>1 DEF ObjectOf, LayoutBlocks, LayoutParams
    <3>3. b.params = [k \in DOMAIN b.params |-> b.params[k]]
      BY <3>2 DEF Objects
    <3>4. \A k \in rest : data[k] = b.params[k]
      BY <1>2, <1>3, <3>2
    <3> QED BY <1>3, <2>2, <3>2, <3>3, <3>4
  <2> QED BY <2>1, <2>2
<1>5. (IF "source" \notin DOMAIN data THEN Empty
       ELSE IF data["source"] = NotText THEN Empty ELSE data["source"]) = b.source
  <2>1. CASE b.source = Empty
    BY <1>2, <2>1
  <2>2. CASE b.source # Empty
    BY <2>2 DEF WireTypes, LayoutBlocks, OptionalText
  <2> QED BY <2>1, <2>2
<1>6. Trimmed(b) = [type |-> b.type, source |-> b.source,
                    params |-> IF DOMAIN given = {} THEN Absent ELSE b.params]
  BY DEF LayoutBlocks, Trimmed
<1>7. LayoutBlockFromAPI([type |-> b.type, data |-> data])
        = [type |-> b.type,
           source |-> IF "source" \notin DOMAIN data THEN Empty
                      ELSE IF data["source"] = NotText THEN Empty ELSE data["source"],
           params |-> IF rest = {} THEN Absent ELSE [k \in rest |-> data[k]]]
  <2> HIDE DEF data
  <2> QED BY DEF LayoutBlockFromAPI
<1> HIDE DEF data, given, rest
<1> QED BY <1>1, <1>4, <1>5, <1>6, <1>7

-----------------------------------------------------------------------------

\* What the table returns for a row is what was saved.
LEMMA RowComesBack == ASSUME WireTypes, NEW t \in TemplatesOfWire
                      PROVE TemplateFromModel(TemplateToModel(t)) = t
BY DEF WireTypes, TemplatesOfWire, TemplateFromModel, TemplateToModel, DecodeJSONText

\* t under another id, and not built in.
Copied(t, id) ==
    [id |-> id, name |-> t.name, description |-> t.description, form |-> t.form,
     transform |-> t.transform,
     layout |-> [i \in DOMAIN t.layout |-> Trimmed(t.layout[i])],
     exports |-> t.exports,
     model |-> t.model, builtin |-> FALSE]

\* Saving what the API showed of a template makes that template again, whatever
\* its texts, its parameters and the number of its parts, under the new id and
\* not built in.
THEOREM CopyIsOriginal ==
    ASSUME WireTypes, NEW t \in TemplatesOfWire, NEW id \in Texts
    PROVE  TemplateFromModel(TemplateToModel(TemplateFromInput(id, TemplateToAPI(t))))
               = Copied(t, id)
<1> DEFINE copy == TemplateFromInput(id, TemplateToAPI(t))
<1>1. copy.form = t.form
  <2>1. copy.form = [i \in DOMAIN t.form |-> FormFieldFromAPI(FormFieldToAPI(t.form[i]))]
    BY DEF TemplateFromInput, TemplateToAPI
  <2> QED BY <2>1, FormFieldComesBack DEF TemplatesOfWire
<1>2. copy.transform = t.transform
  <2>1. copy.transform = [i \in DOMAIN t.transform |-> StepFromAPI(StepToAPI(t.transform[i]))]
    BY DEF TemplateFromInput, TemplateToAPI
  <2> QED BY <2>1, StepComesBack DEF TemplatesOfWire
<1>3. copy.layout = [i \in DOMAIN t.layout |-> Trimmed(t.layout[i])]
  <2>1. copy.layout = [i \in DOMAIN t.layout |->
                         LayoutBlockFromAPI(LayoutBlockToAPI(t.layout[i]))]
    BY DEF TemplateFromInput, TemplateToAPI
  <2> QED BY <2>1, LayoutBlockComesBack DEF TemplatesOfWire
<1>4. copy.description = t.description /\ copy.model = t.model
  BY TextComesBack DEF TemplateFromInput, TemplateToAPI, TemplatesOfWire
<1>5. copy = Copied(t, id)
  <2>1. copy = [id |-> id, name |-> copy.name, description |-> copy.description,
                form |-> copy.form, transform |-> copy.transform,
                layout |-> copy.layout, exports |-> copy.exports,
                model |-> copy.model, builtin |-> FALSE]
    BY DEF TemplateFromInput
  <2>2. copy.name = t.name /\ copy.exports = t.exports
    BY DEF TemplateFromInput, TemplateToAPI
  <2> HIDE DEF copy
  <2> QED BY <1>1, <1>2, <1>3, <1>4, <2>1, <2>2 DEF Copied
<1> HIDE DEF copy
<1>6. copy \in TemplatesOfWire
  <2>1. [i \in DOMAIN t.layout |-> Trimmed(t.layout[i])] \in Seq(LayoutBlocks)
    <3>1. \A i \in 1..Len(t.layout) : Trimmed(t.layout[i]) \in LayoutBlocks
      BY TrimmedIs DEF TemplatesOfWire
    <3> QED BY <3>1 DEF TemplatesOfWire
  <2> QED BY <1>5, <2>1 DEF TemplatesOfWire, Copied
<1>7. TemplateFromModel(TemplateToModel(copy)) = copy
  BY <1>6, RowComesBack
<1> QED BY <1>5, <1>7 DEF copy

-----------------------------------------------------------------------------
(* A step that cannot be built. *)

Untouched ==
    step = 1 /\ sessions = <<>> /\ rows = <<>> /\ blocks = <<>> /\ doc = <<>>

\* Only a pipeline all of which was built runs, and a template is loaded before
\* it is built.
BuildInv ==
    /\ phase \in {"build", "run", "done", "failed"}
    /\ stage \in {"open", "save", "load"} => phase = "build"
    /\ phase = "build" => Untouched
    /\ phase \in {"run", "done"} => AllBuild
    /\ ~AllBuild => Untouched

\* A template with a step that the registry does not know, or whose parameters
\* the factory refuses, fails before any of its steps has run (engine.go, Run).
THEOREM BadStepStops == DocumentsSpec => []BadStepStopsAll
<1>1. DocumentsInit => BuildInv
  BY DEF DocumentsInit, Start, BuildInv, Untouched
<1>2. BuildInv /\ [DocumentsNext]_<<vars, docVars>> => BuildInv'
  <2> SUFFICES ASSUME BuildInv, [DocumentsNext]_<<vars, docVars>> PROVE BuildInv'
    OBVIOUS
  <2> USE DEF BuildInv
  <2>1. ASSUME UNCHANGED vars, stage' \notin {"open", "save", "load"} \/ stage' = stage
                               \/ stage = "open" \/ stage = "save"
        PROVE  BuildInv'
    BY <2>1 DEF vars, inputVars, AllBuild, Untouched
  <2>2. CASE UNCHANGED <<vars, docVars>>
    BY <2>1, <2>2 DEF docVars
  <2>3. CASE OpenTemplate
    BY <2>1, <2>3 DEF OpenTemplate
  <2>4. CASE CreateTemplate
    BY <2>1, <2>4 DEF CreateTemplate
  <2>5. CASE GetTemplate
    BY <2>5 DEF GetTemplate, Untouched
  <2>6. CASE AgentReads
    BY <2>1, <2>6 DEF AgentReads
  <2>7. CASE Deliver
    BY <2>1, <2>7 DEF Deliver
  <2>8. CASE CheckFormat
    BY <2>1, <2>8 DEF CheckFormat
  <2>9. CASE Export
    BY <2>1, <2>9 DEF Export
  <2>10. CASE BuildPipeline /\ RunStep
    BY <2>10 DEF BuildPipeline, RunStep, docVars, inputVars, AllBuild, Untouched
  <2>11. ASSUME phase = "run", UNCHANGED inputVars, RunStep,
                phase' \in {"run", "done", "failed"}
         PROVE  BuildInv'
    BY <2>11 DEF RunStep, docVars, inputVars, AllBuild
  <2>12. ASSUME NEW name, Apply(name), RunStep PROVE BuildInv'
    BY <2>11, <2>12 DEF Apply
  <2>13. CASE ExcludeOffTimeFails /\ RunStep
    BY <2>11, <2>13 DEF ExcludeOffTimeFails
  <2>14. CASE ApplyLayout /\ RunStep
    BY <2>11, <2>14 DEF ApplyLayout
  <2> QED
    BY <2>2, <2>3, <2>4, <2>5, <2>6, <2>7, <2>8, <2>9, <2>10, <2>12, <2>13, <2>14
       DEF DocumentsNext, Sessionize, ExcludeOffTime, SplitByActiveDays, GroupBy,
           Aggregate, Rate, Passthrough
<1>3. BuildInv => BadStepStopsAll
  BY DEF BuildInv, BadStepStopsAll, AllBuild, Untouched
<1> QED BY <1>1, <1>2, <1>3, PTL DEF DocumentsSpec

-----------------------------------------------------------------------------
(* A run of a copy. *)

\* What clients ask for: templates that the API has, a new name or none, and no
\* template has the id that the copy is going to get.
AskedFor ==
    \A i \in Inputs : /\ i.template \in TemplatesOfWire
                      /\ i.copy \in OptionalText \cup {Absent}
                      /\ i.via \in {"http", "mcp", "export", "document"}
                      /\ i.template.id # "copy" /\ "copy" \in Texts

Renamed == [ask.template EXCEPT !.name = ask.copy]

TheCopy == Copied(Renamed, "copy")

CopyRow == TemplateToModel(TemplateFromInput("copy", TemplateToAPI(Renamed)))

DocOfLayout == [i \in DOMAIN template.layout |-> Render(template.layout[i])]

Sent == IF ask.via = "http" THEN DocumentToAPI(doc) ELSE DocumentToDTO(doc)

\* How a copy is made, from the template as the API shows it to the row that is
\* loaded, and how its document is sent.
CopyInv ==
    /\ ask \in Inputs
    /\ stage \in {"open", "save", "load"} =>
         phase = "build" /\ ask.via \in {"http", "mcp"}
    /\ stage \in {"open", "save"} =>
         template = ask.template /\ row = Absent /\ ask.copy # Absent
    /\ stage = "save" => shown = TemplateToAPI(Renamed)
    /\ stage = "load" => row = CopyRow
    /\ row # Absent =>
         /\ row = CopyRow /\ ask.copy \in Texts /\ ask.via \in {"http", "mcp"}
         /\ stage # "load" => template = TheCopy
         /\ stage = "run" /\ ask.via = "mcp" => shown = TemplateToDTO(TheCopy)
         /\ stage \in {"check", "export", "end"} => phase = "done" /\ shown = Sent
    /\ phase = "done" /\ template.layout # <<>> =>
         /\ doc = DocOfLayout
         /\ \A i \in DOMAIN template.layout : CanRender(template.layout[i])

\* The copy that is read from its row is the original with the copy's id and name.
LEMMA CopyIs ==
  ASSUME WireTypes, AskedFor, ask \in Inputs, ask.copy \in Texts
  PROVE  TemplateFromModel(CopyRow) = TheCopy
<1>1. Renamed \in TemplatesOfWire /\ "copy" \in Texts
  BY DEF AskedFor, Renamed, TemplatesOfWire, OptionalText
<1> QED BY <1>1, CopyIsOriginal DEF CopyRow, TheCopy

\* There is a row once it is saved.
LEMMA RowIsThere == ASSUME WireTypes PROVE CopyRow # Absent
<1> DEFINE t == TemplateFromInput("copy", TemplateToAPI(Renamed))
<1>1. CopyRow = [id |-> t.id, name |-> t.name, description |-> t.description,
                 form |-> t.form, transform |-> t.transform, layout |-> t.layout,
                 exports |-> t.exports, model |-> t.model, builtin |-> t.builtin]
  BY DEF CopyRow, TemplateToModel
<1> HIDE DEF t
<1>2. CopyRow = [k \in DOMAIN CopyRow |-> CopyRow[k]]
  BY <1>1
<1> QED BY <1>2 DEF WireTypes

\* Before the first request nothing is copied, and no document is there.
LEMMA CopyInvInit == ASSUME WireTypes, AskedFor, DocumentsInit PROVE CopyInv
<1>1. PICK i \in Inputs : Start(i) /\ ask = i
  BY DEF DocumentsInit
<1>2. /\ row = Absent /\ phase = "build" /\ template = ask.template
      /\ stage = IF ask.via \in {"export", "document"} THEN "check"
                 ELSE IF ask.copy # Absent THEN "open" ELSE "run"
  BY <1>1 DEF DocumentsInit, Start
<1>3. stage \in {"open", "check", "run"}
      /\ (stage = "open" => ask.via \notin {"export", "document"} /\ ask.copy # Absent)
  BY <1>2
<1> QED BY <1>1, <1>2, <1>3 DEF CopyInv, AskedFor

\* What is rendered, as a function of the rows.
HavingIn(rs, field) == {i \in DOMAIN rs : field \in DOMAIN rs[i].values}
SumIn(rs, field) == MapThenSumSet(LAMBDA i : rs[i].values[field], HavingIn(rs, field))
TableOf(rs) ==
    LET fields == FlatMap(LAMBDA f : IF HavingIn(rs, f) = {} THEN <<>> ELSE <<f>>,
                          FieldNames)
        Cell(i, f) == IF i \in HavingIn(rs, f) THEN rs[i].values[f] ELSE 0
    IN NewTable(<<"key">> \o fields,
                [i \in DOMAIN rs |->
                    <<rs[i].key>> \o [c \in DOMAIN fields |-> Cell(i, fields[c])]])

\* The sums that a metric shows are those of the rows.
LEMMA SumsOfRows == \A f : SumOf(f) = SumIn(rows, f)
BY DEF SumOf, SumIn, Having, HavingIn

\* And the table that is rendered is that of the rows.
LEMMA TableOfRowsIs == RenderTable = TableOf(rows)
BY DEF RenderTable, TableOf, Having, HavingIn

\* A block is rendered from the rows alone.
LEMMA RenderingStays ==
  ASSUME UNCHANGED <<template, rows>>
  PROVE  /\ UNCHANGED DocOfLayout
         /\ \A i \in DOMAIN template.layout :
              CanRender(template.layout[i])' = CanRender(template.layout[i])
<1>1. (\A f : SumOf(f) = SumIn(rows, f))'
  BY SumsOfRows, PTL
<1>2. \A f : SumOf(f)' = SumOf(f)
  BY <1>1, SumsOfRows
<1>3. (RenderTable = TableOf(rows))'
  BY TableOfRowsIs, PTL
<1>4. RenderTable' = RenderTable
  BY <1>3, TableOfRowsIs
<1>5. \A i \in DOMAIN template.layout : Render(template.layout[i])' = Render(template.layout[i])
  BY <1>2, <1>4 DEF Render, RenderMetric
<1>6. \A i \in DOMAIN template.layout :
        CanRender(template.layout[i])' = CanRender(template.layout[i])
  BY DEF CanRender
<1> QED BY <1>5, <1>6 DEF DocOfLayout

\* Every step of a request, a run or an export keeps it.
LEMMA CopyInvStep ==
  ASSUME WireTypes, AskedFor, CopyInv, [DocumentsNext]_<<vars, docVars>>
  PROVE  CopyInv'
<1>1. UNCHANGED ask => UNCHANGED <<Renamed, CopyRow, TheCopy>>
  BY DEF Renamed, CopyRow, TheCopy
\* What the run computes stays what it is.
<1>2. UNCHANGED vars => UNCHANGED <<DocOfLayout, template, phase, doc>>
                        /\ (\A i \in DOMAIN template.layout :
                              CanRender(template.layout[i])' = CanRender(template.layout[i]))
  BY RenderingStays DEF vars, inputVars
<1>3. UNCHANGED <<ask, doc>> => UNCHANGED Sent
  BY DEF Sent
<1>4. CASE UNCHANGED <<vars, docVars>>
  BY <1>1, <1>2, <1>3, <1>4 DEF CopyInv, docVars
<1>5. CASE OpenTemplate
  <2>1. TemplateToAPI(Renamed) = [TemplateToAPI(ask.template) EXCEPT !.name = ask.copy]
    <3>1. ask.template \in TemplatesOfWire
      BY DEF CopyInv, AskedFor
    <3>2. /\ Renamed.name = ask.copy /\ Renamed.id = ask.template.id
          /\ Renamed.description = ask.template.description
          /\ Renamed.form = ask.template.form
          /\ Renamed.transform = ask.template.transform
          /\ Renamed.layout = ask.template.layout
          /\ Renamed.exports = ask.template.exports
          /\ Renamed.model = ask.template.model
      BY <3>1 DEF Renamed, TemplatesOfWire
    <3> DEFINE t == ask.template
               formOf == [i \in DOMAIN t.form |-> FormFieldToAPI(t.form[i])]
               stepsOf == [i \in DOMAIN t.transform |-> StepToAPI(t.transform[i])]
               layoutOf == [i \in DOMAIN t.layout |-> LayoutBlockToAPI(t.layout[i])]
               Shown(name) ==
                 [id |-> t.id, name |-> name, description |-> OrAbsent(t.description),
                  form |-> formOf, transform |-> stepsOf, layout |-> layoutOf,
                  exports |-> t.exports, model |-> OrAbsent(t.model)]
    <3>3. TemplateToAPI(t) = Shown(t.name)
      BY DEF TemplateToAPI
    <3>4. TemplateToAPI(Renamed) = Shown(ask.copy)
      BY <3>2 DEF TemplateToAPI
    <3> HIDE DEF t, formOf, stepsOf, layoutOf
    <3>5. [Shown(t.name) EXCEPT !.name = ask.copy] = Shown(ask.copy)
      OBVIOUS
    <3> QED BY <3>3, <3>4, <3>5 DEF t
  <2> QED BY <1>1, <1>2, <1>5, <2>1 DEF CopyInv, OpenTemplate
<1>6. CASE CreateTemplate
  <2>1. /\ stage = "save" /\ shown = TemplateToAPI(Renamed) /\ ask \in Inputs
        /\ ask.copy # Absent /\ ask.copy \in OptionalText \cup {Absent}
        /\ ask.template \in TemplatesOfWire /\ row = Absent
        /\ phase = "build" /\ ask.via \in {"http", "mcp"}
    BY <1>6 DEF CopyInv, CreateTemplate, AskedFor
  <2>2. shown.name = ask.copy
    BY <2>1 DEF TemplateToAPI, Renamed, TemplatesOfWire
  <2>3. UNCHANGED <<vars, ask, shown, file>>
    BY <1>6 DEF CreateTemplate
  <2>4. CASE shown.name = Empty
    BY <1>1, <1>2, <1>6, <2>1, <2>3, <2>4 DEF CopyInv, CreateTemplate
  <2>5. CASE shown.name # Empty
    <3>1. stage' = "load" /\ row' = CopyRow
      BY <1>6, <2>1, <2>5 DEF CreateTemplate, CopyRow
    <3>2. ask.copy \in Texts
      BY <2>1, <2>2, <2>5 DEF OptionalText
    <3> QED BY <1>1, <1>2, <2>1, <2>3, <3>1, <3>2 DEF CopyInv
  <2> QED BY <2>4, <2>5
<1>7. CASE GetTemplate
  <2>1. /\ stage = "load" /\ row = CopyRow /\ row # Absent /\ phase = "build"
        /\ ask \in Inputs /\ ask.copy \in Texts
    BY <1>7, RowIsThere DEF CopyInv, GetTemplate
  <2>2. /\ template' = TheCopy /\ phase' = phase
        /\ UNCHANGED <<ask, row, shown>>
        /\ stage' = IF ask.via = "mcp" THEN "read" ELSE "run"
    BY <1>7, <2>1, CopyIs DEF GetTemplate
  <2> QED BY <1>1, <2>1, <2>2 DEF CopyInv
<1>8. CASE AgentReads
  BY <1>1, <1>2, <1>8 DEF CopyInv, AgentReads
<1>9. CASE Deliver
  <2>1. /\ stage = "run" /\ phase \in {"done", "failed"}
        /\ UNCHANGED <<vars, ask, row>> /\ ask \in Inputs
    BY <1>9 DEF Deliver, CopyInv
  <2>2. CASE phase = "failed"
    BY <1>1, <1>2, <1>3, <1>9, <2>1, <2>2 DEF CopyInv, Deliver
  <2>3. CASE phase = "done"
    <3>1. /\ stage' = IF ask.via = "export" THEN "export"
                      ELSE IF ask.format = "none" THEN "end" ELSE "check"
          /\ shown' = CASE ask.via = "http"   -> DocumentToAPI(doc)
                        [] ask.via = "mcp"    -> DocumentToDTO(doc)
                        [] ask.via = "export" -> shown
      BY <1>9, <2>3 DEF Deliver
    <3>2. stage' \in {"export", "end", "check"}
      BY <3>1
    <3>3. ask.via \in {"http", "mcp"} => shown' = Sent
      BY <3>1 DEF Sent
    <3>4. UNCHANGED <<template, phase, doc>> /\ UNCHANGED Sent
      BY <1>2, <1>3, <2>1
    <3> QED BY <1>1, <1>2, <2>1, <2>3, <3>2, <3>3, <3>4 DEF CopyInv
  <2> QED BY <2>1, <2>2, <2>3
<1>10. CASE CheckFormat
  <2>1. /\ stage = "check" /\ UNCHANGED <<vars, ask, shown, row>>
        /\ stage' \in {"refused", "run", "export"}
        /\ (stage' = "run" => ask.via = "export")
    BY <1>10 DEF CheckFormat
  <2> QED BY <1>1, <1>2, <1>3, <2>1 DEF CopyInv, vars
<1>11. CASE Export
  <2>1. /\ stage = "export" /\ UNCHANGED <<vars, ask, shown, row>>
        /\ stage' \in {"failed", "end"}
    BY <1>11 DEF Export
  <2> QED BY <1>1, <1>2, <1>3, <2>1 DEF CopyInv, vars
\* A step of the run, short of the layout.
<1>12. ASSUME stage = "run", UNCHANGED <<inputVars, docVars>>, phase' # "done"
       PROVE  CopyInv'
  BY <1>1, <1>12 DEF CopyInv, inputVars, docVars
<1>13. CASE BuildPipeline /\ RunStep
  BY <1>12, <1>13 DEF BuildPipeline, RunStep
<1>14. ASSUME NEW name, Apply(name), RunStep PROVE CopyInv'
  BY <1>12, <1>14 DEF Apply, RunStep
<1>15. CASE ExcludeOffTimeFails /\ RunStep
  BY <1>12, <1>15 DEF ExcludeOffTimeFails, RunStep
<1>16. CASE ApplyLayout /\ RunStep
  <2>1. /\ stage = "run" /\ UNCHANGED <<inputVars, docVars, rows>>
    BY <1>16 DEF ApplyLayout, RunStep
  <2>2. UNCHANGED DocOfLayout
        /\ (\A i \in DOMAIN template.layout :
              CanRender(template.layout[i])' = CanRender(template.layout[i]))
    BY <2>1, RenderingStays DEF inputVars
  <2>3. CASE phase' # "done"
    BY <1>12, <2>1, <2>3
  <2>4. CASE phase' = "done"
    <3>1. template.layout # <<>> =>
            /\ doc' = DocOfLayout
            /\ \A i \in DOMAIN template.layout : CanRender(template.layout[i])
      BY <1>16, <2>4 DEF ApplyLayout, DocOfLayout
    <3> QED BY <1>1, <2>1, <2>2, <3>1 DEF CopyInv, inputVars, docVars
  <2> QED BY <2>3, <2>4
<1> QED
  BY <1>4, <1>5, <1>6, <1>7, <1>8, <1>9, <1>10, <1>11, <1>13, <1>14, <1>15, <1>16
     DEF DocumentsNext, Sessionize, ExcludeOffTime, SplitByActiveDays, GroupBy,
         Aggregate, Rate, Passthrough

\* What a block shows does not depend on whether parameters that are empty are
\* there.
LEMMA TrimmedRendersAlike ==
  ASSUME NEW b \in LayoutBlocks
  PROVE  Trimmed(b).type = b.type /\ Render(Trimmed(b)) = Render(b)
<1>1. /\ Trimmed(b).type = b.type /\ Trimmed(b).source = b.source
      /\ Trimmed(b).params = IF DOMAIN ObjectOf(b.params) = {} THEN Absent ELSE b.params
  BY DEF LayoutBlocks, Trimmed
<1>2. \A k, default : Param(Trimmed(b).params, k, default) = Param(b.params, k, default)
  <2>1. CASE b.params = Absent
    BY <1>1, <2>1
  <2>2. CASE b.params # Absent
    <3>1. ObjectOf(b.params) = b.params
      BY <2>2 DEF ObjectOf
    <3> QED BY <1>1, <3>1 DEF Param
  <2> QED BY <2>1, <2>2
<1> QED BY <1>1, <1>2 DEF Render, RenderMetric

\* An agent reads the same of a block without parameters.
LEMMA TrimmedReadsAlike ==
  ASSUME NEW b \in LayoutBlocks
  PROVE  LayoutBlockToDTO(Trimmed(b)) = LayoutBlockToDTO(b)
<1>1. /\ Trimmed(b).type = b.type /\ Trimmed(b).source = b.source
      /\ Trimmed(b).params = IF DOMAIN ObjectOf(b.params) = {} THEN Absent ELSE b.params
  BY DEF LayoutBlocks, Trimmed
<1>2. RawToMap(Trimmed(b).params) = RawToMap(b.params)
  <2>1. CASE b.params = Absent
    BY <1>1, <2>1
  <2>2. CASE b.params # Absent
    <3>1. ObjectOf(b.params) = b.params
      BY <2>2 DEF ObjectOf
    <3> QED BY <1>1, <3>1 DEF RawToMap
  <2> QED BY <2>1, <2>2
<1> QED BY <1>1, <1>2 DEF LayoutBlockToDTO

\* The data of a block that was rendered is an object with keys.
LEMMA RenderedHasData ==
  ASSUME WireTypes, NEW b, CanRender(b)
  PROVE  LET d == Render(b).data IN d # Absent /\ DOMAIN d # {}
<1>1. ASSUME NEW r, r = [k \in DOMAIN r |-> r[k]] PROVE r # Absent
  BY <1>1 DEF WireTypes
<1>2. CASE b.type = "table"
  <2>1. PICK c, t : Render(b) = NewTable(c, t)
    BY <1>2 DEF Render, RenderTable
  <2>2. Render(b).data = [columns |-> c, rows |-> t, footer |-> <<>>]
    BY <2>1 DEF NewTable
  <2> QED BY <1>1, <2>2
<1>3. CASE b.type = "metric"
  <2>1. PICK l, v, u : Render(b) = NewMetric(l, v, u)
    BY <1>3 DEF Render, RenderMetric
  <2>2. Render(b).data = [label |-> l, value |-> v, unit |-> u]
    BY <2>1 DEF NewMetric
  <2> QED BY <1>1, <2>2
<1>4. CASE b.type = "heading"
  <2>1. PICK l, t : Render(b) = NewHeading(l, t)
    BY <1>4 DEF Render
  <2>2. Render(b).data = [level |-> l, text |-> t]
    BY <2>1 DEF NewHeading
  <2> QED BY <1>1, <2>2
<1>5. CASE b.type = "text"
  <2>1. PICK t : Render(b) = NewText(t)
    BY <1>5 DEF Render
  <2>2. Render(b).data = [markdown |-> t]
    BY <2>1 DEF NewText
  <2> QED BY <1>1, <2>2
<1> QED BY <1>2, <1>3, <1>4, <1>5 DEF CanRender

\* d, shown as the copy of that id and name.
AsCopy(d, id, name) == [d EXCEPT !.id = id, !.name = name, !.builtin = FALSE]

\* What an agent is shown of the copy is what it was shown of the original.
LEMMA CopyReadsAlike ==
  ASSUME NEW t \in TemplatesOfWire, NEW id, NEW name
  PROVE  TemplateToDTO(Copied([t EXCEPT !.name = name], id))
           = AsCopy(TemplateToDTO(t), id, name)
<1> DEFINE u == [t EXCEPT !.name = name]
           c == Copied(u, id)
           description == OrAbsent(t.description)
           formOf == [i \in DOMAIN t.form |-> FormFieldToDTO(t.form[i])]
           stepsOf == [i \in DOMAIN t.transform |-> StepToDTO(t.transform[i])]
           layoutOf == [i \in DOMAIN t.layout |-> LayoutBlockToDTO(t.layout[i])]
           model == OrAbsent(t.model)
           Read(k, n, b) ==
             [id |-> k, name |-> n, description |-> description, form |-> formOf,
              transform |-> stepsOf, layout |-> layoutOf, exports |-> t.exports,
              model |-> model, builtin |-> b]
<1>1. TemplateToDTO(t) = Read(t.id, t.name, t.builtin)
  BY DEF TemplateToDTO
<1>2. /\ u.name = name /\ u.description = t.description /\ u.form = t.form
      /\ u.transform = t.transform /\ u.layout = t.layout
      /\ u.exports = t.exports /\ u.model = t.model
  BY DEF TemplatesOfWire
<1>3. [i \in DOMAIN c.layout |-> LayoutBlockToDTO(c.layout[i])] = layoutOf
  <2>1. \A i \in DOMAIN t.layout : t.layout[i] \in LayoutBlocks
    BY DEF TemplatesOfWire
  <2>2. c.layout = [i \in DOMAIN t.layout |-> Trimmed(t.layout[i])]
    BY <1>2 DEF Copied
  <2> HIDE DEF c
  <2> QED BY <2>1, <2>2, TrimmedReadsAlike
<1>4. /\ c.id = id /\ c.name = name /\ c.description = t.description
      /\ c.form = t.form /\ c.transform = t.transform /\ c.exports = t.exports
      /\ c.model = t.model /\ c.builtin = FALSE
  BY <1>2 DEF Copied
<1>5. TemplateToDTO(c) = Read(id, name, FALSE)
  <2> HIDE DEF c
  <2> QED BY <1>3, <1>4 DEF TemplateToDTO
<1> HIDE DEF description, formOf, stepsOf, layoutOf, model, c, u
<1>6. [Read(t.id, t.name, t.builtin) EXCEPT !.id = id, !.name = name, !.builtin = FALSE]
        = Read(id, name, FALSE)
  <2>1. ASSUME NEW k, NEW n, NEW b PROVE [Read(k, n, b) EXCEPT !.id = id] = Read(id, n, b)
    OBVIOUS
  <2>2. ASSUME NEW n, NEW b PROVE [Read(id, n, b) EXCEPT !.name = name] = Read(id, name, b)
    OBVIOUS
  <2>3. ASSUME NEW b, NEW f PROVE [Read(id, name, b) EXCEPT !.builtin = f] = Read(id, name, f)
    OBVIOUS
  <2>4. [Read(t.id, t.name, t.builtin) EXCEPT !.id = id, !.name = name, !.builtin = FALSE]
          = [[[Read(t.id, t.name, t.builtin) EXCEPT !.id = id] EXCEPT !.name = name]
               EXCEPT !.builtin = FALSE]
    <3> HIDE DEF Read
    <3> QED OBVIOUS
  <2> HIDE DEF Read
  <2>5. [Read(t.id, t.name, t.builtin) EXCEPT !.id = id] = Read(id, t.name, t.builtin)
    BY <2>1
  <2>6. [Read(id, t.name, t.builtin) EXCEPT !.name = name] = Read(id, name, t.builtin)
    BY <2>2
  <2>7. [Read(id, name, t.builtin) EXCEPT !.builtin = FALSE] = Read(id, name, FALSE)
    BY <2>3
  <2> QED BY <2>4, <2>5, <2>6, <2>7
<1> QED BY <1>1, <1>5, <1>6 DEF c, u, AsCopy

\* A template that was shown over the API, renamed, saved and loaded runs as the
\* one it was made of, and its document is what the original's layout makes of
\* the rows, as a browser is sent it or an agent (handlers_templates.go,
\* mapping.go, dto.go, store.go).
THEOREM CopiesRunAlike ==
    ASSUME WireTypes, AskedFor
    PROVE  DocumentsSpec => []CopyRunsAlike
<1>1. CopyInv => CopyRunsAlike
  <2> SUFFICES ASSUME CopyInv, stage \in {"run", "export", "end"}, row # Absent
               PROVE  CopyRunsAlike
    BY DEF CopyRunsAlike
  <2> DEFINE t == ask.template
  <2>1. /\ ask \in Inputs /\ t \in TemplatesOfWire /\ ask.copy \in Texts
        /\ t.id # "copy" /\ template = TheCopy /\ ask.via \in {"http", "mcp"}
    BY DEF CopyInv, AskedFor
  <2>2. /\ Renamed.name = ask.copy /\ Renamed.form = t.form
        /\ Renamed.transform = t.transform /\ Renamed.layout = t.layout
        /\ Renamed.exports = t.exports
    BY <2>1 DEF Renamed, TemplatesOfWire
  <2>3. /\ template.id = "copy" /\ template.name = ask.copy /\ template.builtin = FALSE
        /\ template.form = t.form /\ template.transform = t.transform
        /\ template.exports = t.exports
        /\ template.layout = [i \in DOMAIN t.layout |-> Trimmed(t.layout[i])]
    BY <2>1, <2>2 DEF TheCopy, Copied
  <2>4. template.name # Empty
    BY <2>1, <2>3 DEF WireTypes
  <2>5. ASSUME stage = "run", ask.via = "mcp"
        PROVE  shown = [TemplateToDTO(t) EXCEPT
                           !.id = template.id, !.name = ask.copy, !.builtin = FALSE]
    <3>1. shown = TemplateToDTO(TheCopy)
      BY <2>5 DEF CopyInv
    <3>2. TheCopy = Copied([t EXCEPT !.name = ask.copy], "copy")
      BY DEF TheCopy, Renamed
    <3>3. TemplateToDTO(TheCopy) = AsCopy(TemplateToDTO(t), "copy", ask.copy)
      BY <2>1, <3>2, CopyReadsAlike
    <3> QED BY <2>3, <3>1, <3>3 DEF AsCopy
  <2>6. ASSUME stage = "end", t.layout # <<>>
        PROVE  /\ Len(shown) = Len(t.layout)
               /\ \A b \in DOMAIN shown : /\ shown[b].type = Render(t.layout[b]).type
                                          /\ shown[b].data = Render(t.layout[b]).data
    <3>1. t.layout \in Seq(LayoutBlocks) /\ DOMAIN t.layout # {}
      <4>1. t.layout \in Seq(LayoutBlocks) /\ t.layout # <<>>
        BY <2>1, <2>6 DEF TemplatesOfWire
      <4>2. Len(t.layout) \in Nat /\ Len(t.layout) # 0 /\ DOMAIN t.layout = 1..Len(t.layout)
        BY <4>1
      <4>3. 1 \in DOMAIN t.layout
        BY <4>2
      <4> QED BY <4>1, <4>3
    <3>2. DOMAIN template.layout = DOMAIN t.layout /\ template.layout # <<>>
      BY <2>3, <3>1
    <3>3. /\ shown = Sent
          /\ doc = [i \in DOMAIN t.layout |-> Render(template.layout[i])]
          /\ \A i \in DOMAIN t.layout : CanRender(template.layout[i])
      BY <2>6, <3>2 DEF CopyInv, DocOfLayout
    <3>4. DOMAIN shown = DOMAIN t.layout
          /\ \A b \in DOMAIN shown : shown[b] = BlockToAPI(doc[b])
                                    \/ shown[b] = BlockToDTO(doc[b])
      BY <3>3 DEF Sent, DocumentToAPI, DocumentToDTO
    <3>5. ASSUME NEW b \in DOMAIN t.layout
          PROVE  /\ doc[b] = Render(t.layout[b])
                 /\ doc[b].data # Absent /\ DOMAIN doc[b].data # {}
      <4>1. t.layout[b] \in LayoutBlocks
        BY <3>1
      <4>2. doc[b] = Render(template.layout[b]) /\ template.layout[b] = Trimmed(t.layout[b])
        BY <2>3, <3>3
      <4>3. doc[b].data # Absent /\ DOMAIN doc[b].data # {}
        BY <3>3, <4>2, RenderedHasData
      <4> QED BY <4>1, <4>2, <4>3, TrimmedRendersAlike
    <3>6. \A b \in DOMAIN shown : shown[b].type = doc[b].type /\ shown[b].data = doc[b].data
      <4> SUFFICES ASSUME NEW b \in DOMAIN shown
                   PROVE  shown[b].type = doc[b].type /\ shown[b].data = doc[b].data
        OBVIOUS
      <4>1. doc[b].data # Absent /\ DOMAIN doc[b].data # {}
        BY <3>4, <3>5
      <4>2. ObjectOf(doc[b].data) = doc[b].data /\ RawToMap(doc[b].data) = doc[b].data
        BY <4>1 DEF ObjectOf, RawToMap
      <4>3. CASE shown[b] = BlockToAPI(doc[b])
        BY <4>2, <4>3 DEF BlockToAPI
      <4>4. CASE shown[b] = BlockToDTO(doc[b])
        BY <4>2, <4>4 DEF BlockToDTO
      <4> QED BY <3>4, <4>3, <4>4
    <3>7. Len(shown) = Len(t.layout)
      <4>1. DOMAIN doc = DOMAIN t.layout
        BY <3>3
      <4>2. shown = [b \in DOMAIN doc |-> BlockToAPI(doc[b])]
            \/ shown = [b \in DOMAIN doc |-> BlockToDTO(doc[b])]
        BY <3>3 DEF Sent, DocumentToAPI, DocumentToDTO
      <4>3. DOMAIN t.layout = 1..Len(t.layout) /\ Len(t.layout) \in Nat
        BY <3>1
      <4> DEFINE n == Len(t.layout)
      <4> HIDE DEF n, t
      <4>4. shown = [b \in 1..n |-> BlockToAPI(doc[b])]
            \/ shown = [b \in 1..n |-> BlockToDTO(doc[b])]
        BY <4>1, <4>2, <4>3 DEF n
      <4>5. n \in Nat
        BY <4>3 DEF n
      <4>6. Len(shown) = n
        BY <4>4, <4>5
      <4> QED BY <4>6 DEF n
    <3> QED BY <3>4, <3>5, <3>6, <3>7
  <2> QED BY <2>1, <2>3, <2>4, <2>5, <2>6 DEF CopyRunsAlike
<1>2. DocumentsInit => CopyInv
  BY CopyInvInit
<1>3. CopyInv /\ [DocumentsNext]_<<vars, docVars>> => CopyInv'
  BY CopyInvStep
<1> QED BY <1>1, <1>2, <1>3, PTL DEF DocumentsSpec

-----------------------------------------------------------------------------
(* Documents: lists of blocks, whose data has lists and tables. *)

\* A list of lists.
IsTable(s) == IsList(s) /\ \A r \in Range(s) : IsList(r)

\* All the cells of a table.
CellsOf(s) == UNION {Range(r) : r \in Range(s)}

\* A list has a length, and an element at each place.
LEMMA ListIs ==
  ASSUME NEW s, IsList(s)
  PROVE  /\ Len(s) \in Nat /\ DOMAIN s = 1..Len(s) /\ s \in Seq(Range(s))
         /\ s = [i \in 1..Len(s) |-> s[i]] /\ \A i \in 1..Len(s) : s[i] \in Range(s)
<1> DEFINE V == Range(s)
<1>1. s \in Seq(V)
  BY DEF IsList
<1> HIDE DEF V
<1> QED BY <1>1 DEF V

\* One whose elements are in a set is a sequence of that set.
LEMMA ListOf ==
  ASSUME NEW V, NEW s, IsList(s), \A i \in 1..Len(s) : s[i] \in V
  PROVE  s \in Seq(V)
<1>1. /\ Len(s) \in Nat /\ s = [i \in 1..Len(s) |-> s[i]]
  BY ListIs
<1> DEFINE n == Len(s)
<1>2. n \in Nat /\ s = [i \in 1..n |-> s[i]]
  BY <1>1
<1> HIDE DEF n
<1>3. s \in [1..n -> V]
  BY <1>2 DEF n
<1> QED BY <1>2, <1>3

\* A sequence is a list,
LEMMA SeqIsList ==
  ASSUME NEW V, NEW s \in Seq(V)
  PROVE  IsList(s)
<1> DEFINE n == Len(s)
<1>1. n \in Nat /\ DOMAIN s = 1..n /\ s = [i \in 1..n |-> s[i]]
  OBVIOUS
<1> HIDE DEF n
<1>2. s \in [1..n -> Range(s)]
  BY <1>1 DEF Range
<1> QED BY <1>1, <1>2 DEF IsList

\* and so is what is given at each of the places 1..n.
LEMMA MadeList ==
  ASSUME NEW n \in Nat, NEW s, s = [i \in 1..n |-> s[i]]
  PROVE  IsList(s) /\ Len(s) = n
<1>2. s \in [1..n -> Range(s)]
  BY DEF Range
<1>3. s \in Seq(Range(s))
  BY <1>2
<1> QED BY <1>3 DEF IsList

\* A table is a sequence of sequences of its cells.
LEMMA TableIs ==
  ASSUME NEW s, IsTable(s), NEW W, CellsOf(s) \subseteq W
  PROVE  s \in Seq(Seq(W))
<1>1. \A i \in 1..Len(s) : s[i] \in Range(s)
  BY ListIs DEF IsTable
<1>2. ASSUME NEW i \in 1..Len(s) PROVE s[i] \in Seq(W)
  <2>1. IsList(s[i]) /\ Range(s[i]) \subseteq W
    BY <1>1 DEF IsTable, CellsOf
  <2>2. \A j \in 1..Len(s[i]) : s[i][j] \in W
    BY <2>1, ListIs
  <2> QED BY <2>1, <2>2, ListOf
<1> QED BY <1>2, ListOf DEF IsTable


\* The lists of a block that can be read.
LEMMA ListsOfBlock ==
  ASSUME NEW b, IsBlock(b), CanDecode(b)
  PROVE  /\ \A k \in ListFields : IsList(List(b, k))
         /\ IsTable(List(b, "rows"))
BY DEF IsBlock, IsTable, ListFields

\* A list of one element.
LEMMA SingleIs ==
  ASSUME NEW x
  PROVE  /\ IsList(<<x>>) /\ Len(<<x>>) = 1 /\ Range(<<x>>) = {x}
         /\ \A V : x \in V => <<x>> \in Seq(V)
<1>1. <<x>> \in Seq({x}) /\ Len(<<x>>) = 1 /\ \A i \in DOMAIN <<x>> : <<x>>[i] = x
  OBVIOUS
<1>2. Range(<<x>>) = {x}
  <2>1. 1 \in DOMAIN <<x>> /\ <<x>>[1] = x
    OBVIOUS
  <2> QED BY <1>1, <2>1 DEF Range
<1>3. IsList(<<x>>)
  BY <1>1, SeqIsList
<1> QED BY <1>1, <1>2, <1>3

\* The list that has none.
LEMMA NothingIs ==
  IsTable(<<>>) /\ IsList(<<>>) /\ Len(<<>>) = 0 /\ FlattenSeq(<<>>) = <<>>
<1>1. <<>> \in Seq({}) /\ Range(<<>>) = {} /\ Len(<<>>) = 0
  BY DEF Range
<1>2. FlattenSeq(<<>>) = <<>>
  BY DEF FlattenSeq
<1> QED BY <1>1, <1>2, SeqIsList DEF IsTable

\* Two tables, one after the other.
LEMMA TablesJoin ==
  ASSUME NEW s, NEW t, IsTable(s), IsTable(t)
  PROVE  IsTable(s \o t) /\ FlattenSeq(s \o t) = FlattenSeq(s) \o FlattenSeq(t)
<1> DEFINE W == CellsOf(s) \cup CellsOf(t)
<1>1. s \in Seq(Seq(W)) /\ t \in Seq(Seq(W))
  BY TableIs
<1> HIDE DEF W
<1>2. FlattenSeq(s \o t) = FlattenSeq(s) \o FlattenSeq(t)
  BY <1>1, FlattenConcat
<1> DEFINE V == Seq(W)
           u == s \o t
<1>3. u \in Seq(V)
  <2>1. s \in Seq(V) /\ t \in Seq(V)
    BY <1>1
  <2> HIDE DEF V
  <2> QED BY <2>1
<1>4. \A r \in Range(u) : r \in V
  <2> HIDE DEF V, u
  <2> QED BY <1>3 DEF Range
<1> HIDE DEF u
<1>5. \A r \in V : IsList(r)
  BY SeqIsList
<1>6. IsTable(u)
  <2> HIDE DEF V
  <2> QED BY <1>3, <1>4, <1>5, SeqIsList DEF IsTable
<1> QED BY <1>2, <1>6 DEF u

\* A table of one list.
LEMMA OneRecord ==
  ASSUME NEW r, IsList(r)
  PROVE  IsTable(<<r>>) /\ FlattenSeq(<<r>>) = r
<1>1. IsTable(<<r>>)
  BY SingleIs DEF IsTable
<1>2. r \in Seq(Range(r))
  BY DEF IsList
<1>3. FlattenSeq(<<r>>) = r
  <2> DEFINE V == Range(r)
  <2>1. r \in Seq(V)
    BY <1>2
  <2> HIDE DEF V
  <2> QED BY <2>1, FlattenOne
<1> QED BY <1>1, <1>3

\* The records of a table are its columns, its rows and its footer.
LEMMA TableRecordsAre ==
  ASSUME NEW b, IsBlock(b), CanDecode(b)
  PROVE  /\ IsTable(TableRecords(b))
         /\ FlattenSeq(TableRecords(b))
              = List(b, "columns") \o FlattenSeq(List(b, "rows")) \o List(b, "footer")
<1> DEFINE c == List(b, "columns")
           r == List(b, "rows")
           f == List(b, "footer")
           foot == IF f = <<>> THEN <<>> ELSE <<f>>
<1>1. IsList(c) /\ IsList(f) /\ IsTable(r)
  BY ListsOfBlock DEF ListFields
<1> HIDE DEF c, r, f
<1>2. IsTable(<<c>>) /\ FlattenSeq(<<c>>) = c
  BY <1>1, OneRecord
<1>3. IsTable(foot) /\ FlattenSeq(foot) = f
  <2>1. CASE f = <<>>
    BY <2>1, NothingIs
  <2>2. CASE f # <<>>
    BY <1>1, <2>2, OneRecord
  <2> QED BY <2>1, <2>2
<1> HIDE DEF foot
<1>4. IsTable(<<c>> \o r) /\ FlattenSeq(<<c>> \o r) = c \o FlattenSeq(r)
  BY <1>1, <1>2, TablesJoin
<1>5. /\ IsTable((<<c>> \o r) \o foot)
      /\ FlattenSeq((<<c>> \o r) \o foot) = (c \o FlattenSeq(r)) \o f
  BY <1>3, <1>4, TablesJoin
<1>6. TableRecords(b) = (<<c>> \o r) \o foot
  BY DEF TableRecords, c, r, f, foot
<1> QED BY <1>5, <1>6 DEF c, r, f

\* Tables with a record for each of n.
LEMMA TableOfRecords ==
  ASSUME NEW n \in Nat, NEW s, s = [i \in 1..n |-> s[i]],
         \A i \in 1..n : IsList(s[i])
  PROVE  IsTable(s) /\ Len(s) = n
<1>1. IsList(s) /\ Len(s) = n
  BY MadeList
<1>2. \A r \in Range(s) : IsList(r)
  BY DEF Range
<1> QED BY <1>1, <1>2 DEF IsTable

\* A block's records, put together, are its cells.
LEMMA RecordsOfBlock ==
  ASSUME NEW b, IsBlock(b), CanDecode(b)
  PROVE  IsTable(BlockCSV(b)) /\ FlattenSeq(BlockCSV(b)) = Cells(b)
<1> USE DEF Prose
<1>1. CASE b.type \in Prose
  BY <1>1, NothingIs DEF BlockCSV, Cells, Prose
<1>2. CASE b.type = "table"
  BY <1>2, TableRecordsAre DEF BlockCSV, Cells
<1>3. CASE b.type = "list"
  <2> DEFINE s == List(b, "items")
             n == Len(s)
             t == [i \in 1..n |-> <<s[i]>>]
  <2>1. IsList(s)
    BY ListsOfBlock DEF ListFields
  <2>2. n \in Nat /\ DOMAIN s = 1..n /\ s \in Seq(Range(s)) /\ \A i \in 1..n : s[i] \in Range(s)
    BY <2>1, ListIs
  <2>3. BlockCSV(b) = t /\ Cells(b) = s
    BY <1>3, <2>2 DEF BlockCSV, Cells
  <2> HIDE DEF s, n
  <2>4. \A i \in 1..n : IsList(t[i]) /\ t[i] = <<s[i]>> /\ t[i] \in Seq(Range(s))
    BY <2>2, SingleIs
  <2>5. t = [i \in 1..n |-> t[i]]
    OBVIOUS
  <2> HIDE DEF t
  <2>6. IsTable(t) /\ Len(t) = n
    BY <2>2, <2>4, <2>5, TableOfRecords
  <2>7. t \in Seq(Seq(Range(s)))
    BY <2>4, <2>6, ListOf DEF IsTable
  <2>8. FlattenSeq(t) = s
    <3> DEFINE V == Range(s)
    <3> HIDE DEF V
    <3>1. /\ s \in Seq(V) /\ t \in Seq(Seq(V)) /\ Len(t) = Len(s)
          /\ \A i \in 1..Len(s) : t[i] = <<s[i]>>
      BY <2>2, <2>4, <2>6, <2>7 DEF V, n
    <3> QED BY <3>1, FlattenSingles
  <2> QED BY <2>3, <2>6, <2>8
<1>4. CASE b.type = "keyvalue"
  <2> DEFINE s == List(b, "pairs")
             n == Len(s)
             t == [i \in 1..n |-> <<s[i].key, s[i].value>>]
  <2>1. IsList(s)
    BY ListsOfBlock DEF ListFields
  <2>2. n \in Nat /\ DOMAIN s = 1..n
    BY <2>1, ListIs
  <2>3. BlockCSV(b) = t /\ Cells(b) = FlattenSeq(t)
    BY <1>4, <2>2 DEF BlockCSV, Cells, FlatMap
  <2> HIDE DEF s, n
  <2>4. ASSUME NEW i \in 1..n PROVE IsList(t[i])
    <3>1. <<s[i].key, s[i].value>> \in Seq({s[i].key, s[i].value})
      OBVIOUS
    <3> QED BY <3>1, SeqIsList
  <2>5. t = [i \in 1..n |-> t[i]]
    OBVIOUS
  <2> HIDE DEF t
  <2>6. IsTable(t)
    BY <2>2, <2>4, <2>5, TableOfRecords
  <2> QED BY <2>3, <2>6
<1>5. CASE b.type = "metric"
  <2> DEFINE r == <<Text(b, "label"), Text(b, "value")>>
  <2>1. BlockCSV(b) = <<r>> /\ Cells(b) = r
    BY <1>5 DEF BlockCSV, Cells
  <2>2. IsList(r)
    <3>1. r \in Seq({Text(b, "label"), Text(b, "value")})
      OBVIOUS
    <3> QED BY <3>1, SeqIsList
  <2> HIDE DEF r
  <2> QED BY <2>1, <2>2, OneRecord
<1>6. CASE b.type = "chart"
  <2> DEFINE s == List(b, "labels")
             v == List(b, "values")
             n == Len(s)
             value(i) == IF i \in DOMAIN v THEN v[i] ELSE Empty
             t == [i \in 1..n |-> <<s[i], value(i)>>]
  <2>1. IsList(s) /\ IsList(v)
    BY ListsOfBlock DEF ListFields
  <2>2. n \in Nat /\ DOMAIN s = 1..n /\ DOMAIN v = 1..Len(v) /\ Len(v) \in Nat
    BY <2>1, ListIs
  <2>3. \A i \in 1..n : value(i) = IF i =< Len(v) THEN v[i] ELSE Empty
    BY <2>2
  <2>4. BlockCSV(b) = t
    BY <1>6, <2>2, <2>3 DEF BlockCSV, ChartRecords
  <2>5. Cells(b) = FlattenSeq(t)
    BY <1>6, <2>2 DEF Cells
  <2> HIDE DEF s, v, n, value
  <2>6. ASSUME NEW i \in 1..n PROVE IsList(t[i])
    <3>1. <<s[i], value(i)>> \in Seq({s[i], value(i)})
      OBVIOUS
    <3> QED BY <3>1, SeqIsList
  <2>7. t = [i \in 1..n |-> t[i]]
    OBVIOUS
  <2> HIDE DEF t
  <2>8. IsTable(t)
    BY <2>2, <2>6, <2>7, TableOfRecords
  <2> QED BY <2>4, <2>5, <2>8
<1> QED BY <1>1, <1>2, <1>3, <1>4, <1>5, <1>6 DEF CanDecode, FieldsOf

\* Prose, whether it can be read or not, has neither.
LEMMA RecordsForCSV ==
  ASSUME NEW b, IsBlock(b), b.type \in Prose \/ CanDecode(b)
  PROVE  IsTable(BlockCSV(b)) /\ FlattenSeq(BlockCSV(b)) = Cells(b)
<1>1. CASE b.type \in Prose
  BY <1>1, NothingIs DEF BlockCSV, Cells, Prose
<1> QED BY <1>1, RecordsOfBlock

\* A client's document, or one that was rendered.
IsDocument(d) == IsList(d) /\ \A b \in Range(d) : IsBlock(b)

\* Cells, without those that are empty.
NonEmptyOf(cells) == FlatMap(LAMBDA c : IF c = Empty THEN <<>> ELSE <<c>>, cells)

\* FlatMap of a sequence, as a function of its elements.
LEMMA NonEmptyIs ==
  ASSUME NEW W, NEW f, f = [c \in W |-> IF c = Empty THEN <<>> ELSE <<c>>]
  PROVE  /\ Maps(f, W, Seq(W))
         /\ \A s \in Seq(W) : NonEmptyOf(s) = FlattenSeq(Mapped(f, s))
<1>1. Maps(f, W, Seq(W))
  <2>1. \A c \in W : f[c] \in Seq(W)
    <3>1. \A c \in W : <<c>> \in Seq(W) /\ <<>> \in Seq(W)
      OBVIOUS
    <3> QED BY <3>1
  <2> DEFINE V == Seq(W)
  <2>2. \A c \in W : f[c] \in V
    BY <2>1
  <2> HIDE DEF V
  <2>3. f \in [W -> V]
    BY <2>2
  <2> QED BY <2>3 DEF Maps, V
<1>2. ASSUME NEW s \in Seq(W) PROVE NonEmptyOf(s) = FlattenSeq(Mapped(f, s))
  <2>1. DOMAIN s = 1..Len(s) /\ \A i \in 1..Len(s) : s[i] \in W
    OBVIOUS
  <2>2. Mapped(f, s) = [i \in DOMAIN s |-> IF s[i] = Empty THEN <<>> ELSE <<s[i]>>]
    BY <2>1 DEF Mapped
  <2> QED BY <2>2 DEF NonEmptyOf, FlatMap
<1> QED BY <1>1, <1>2

\* Empty cells aside, blank lines make no difference.
LEMMA BlankLinesAside ==
  ASSUME NEW W, NEW s \in Seq(Seq(W))
  PROVE  NonEmptyOf(FlattenSeq(ReadBack(s))) = NonEmptyOf(FlattenSeq(s))
<1> DEFINE R == Seq(W)
           fN == [c \in W |-> IF c = Empty THEN <<>> ELSE <<c>>]
           fK == [r \in R |-> IF r \in {<<>>, <<Empty>>} THEN <<>> ELSE <<r>>]
           g == [r \in R |-> FlattenSeq(Mapped(fN, r))]
           n == Len(s)
<1>1. Maps(fN, W, R) /\ \A r \in R : NonEmptyOf(r) = FlattenSeq(Mapped(fN, r))
  BY NonEmptyIs
<1>2. n \in Nat /\ DOMAIN s = 1..n /\ \A k \in 1..n : s[k] \in R
  OBVIOUS
<1> HIDE DEF fN, n
<1>3. ASSUME NEW r \in R PROVE FlattenSeq(Mapped(fN, r)) \in R
  <2>1. Mapped(fN, r) \in Seq(R)
    <3> HIDE DEF R
    <3>1. Maps(fN, W, R) /\ r \in Seq(W)
      BY <1>1, <1>3 DEF R
    <3> QED BY <3>1, MappedIs
  <2> QED BY <2>1, FlattenPlaces
<1>4. Maps(g, R, R)
  <2> HIDE DEF R
  <2> QED BY <1>3 DEF Maps
<1>5. Maps(fK, R, Seq(R))
  <2> HIDE DEF R
  <2>1. \A r \in R : <<r>> \in Seq(R) /\ <<>> \in Seq(R)
    OBVIOUS
  <2> DEFINE V == Seq(R)
  <2>2. \A r \in R : fK[r] \in V
    BY <2>1
  <2> HIDE DEF V
  <2>3. fK \in [R -> V]
    BY <2>2
  <2> QED BY <2>3 DEF Maps, V
\* The cells of many records, empty ones aside, are those of each.
<1>6. ASSUME NEW t \in Seq(R) PROVE NonEmptyOf(FlattenSeq(t)) = FlattenSeq(Mapped(g, t))
  <2> DEFINE m == Len(t)
  <2>1. m \in Nat /\ \A k \in 1..m : t[k] \in R
    <3> HIDE DEF R
    <3> QED BY <1>6
  <2>2. FlattenSeq(t) \in Seq(W)
    BY <1>6, FlattenPlaces
  <2>3. NonEmptyOf(FlattenSeq(t)) = FlattenSeq(Mapped(fN, FlattenSeq(t)))
    BY <1>1, <2>2
  <2>4. FlattenSeq(Mapped(fN, FlattenSeq(t)))
          = FlattenSeq([k \in 1..Len(t) |-> FlattenSeq(Mapped(fN, t[k]))])
    BY <1>1, <1>6, FlatMapFlatten
  <2>5. Mapped(g, t) = [k \in 1..Len(t) |-> FlattenSeq(Mapped(fN, t[k]))]
    <3> HIDE DEF R
    <3>1. \A k \in 1..Len(t) : g[t[k]] = FlattenSeq(Mapped(fN, t[k]))
      BY <2>1
    <3> HIDE DEF g
    <3> QED BY <3>1 DEF Mapped
  <2> QED BY <2>3, <2>4, <2>5
<1>7. ReadBack(s) = FlattenSeq(Mapped(fK, s))
  <2> HIDE DEF R
  <2>1. \A k \in 1..n : fK[s[k]] = IF s[k] \in {<<>>, <<Empty>>} THEN <<>> ELSE <<s[k]>>
    BY <1>2
  <2> HIDE DEF fK
  <2>2. Mapped(fK, s) = [k \in DOMAIN s |-> IF s[k] \in {<<>>, <<Empty>>} THEN <<>> ELSE <<s[k]>>]
    BY <1>2, <2>1 DEF Mapped, n
  <2> QED BY <2>2 DEF ReadBack, FlatMap
<1>8. \A r \in R : g[r] = FlattenSeq(Mapped(fN, r))
  <2> HIDE DEF R
  <2> QED OBVIOUS
<1>9. <<>> \in R /\ Mapped(fN, <<>>) = <<>> /\ FlattenSeq(<<>>) = <<>>
  <2>1. Mapped(fN, <<>>) = <<>>
    BY DEF Mapped
  <2> QED BY <2>1, NothingIs
<1>10. \A r \in R : g[r] \in R
  BY <1>3, <1>8
<1> HIDE DEF g
\* What is left of a record has the same cells.
<1>11. ASSUME NEW r \in R PROVE FlattenSeq(Mapped(g, fK[r])) = g[r]
  <2>1. fK[r] = IF r \in {<<>>, <<Empty>>} THEN <<>> ELSE <<r>>
    <3> HIDE DEF R
    <3> QED BY <1>11
  <2> HIDE DEF fK
  <2>2. CASE r \notin {<<>>, <<Empty>>}
    <3>1. Mapped(g, <<r>>) = <<g[r]>>
      BY DEF Mapped
    <3>2. FlattenSeq(<<g[r]>>) = g[r]
      BY <1>10, FlattenOne
    <3> QED BY <2>1, <2>2, <3>1, <3>2
  <2>3. CASE r = <<>>
    <3>1. g[r] = <<>>
      BY <1>8, <1>9, <2>3
    <3>2. Mapped(g, <<>>) = <<>>
      BY DEF Mapped
    <3> QED BY <1>9, <2>1, <2>3, <3>1, <3>2
  <2>4. CASE r = <<Empty>> /\ r # <<>>
    <3>1. Empty \in W
      <4>1. r \in Seq(W) /\ Len(r) = 1 /\ r[1] = Empty
        BY <1>11, <2>4
      <4> QED BY <4>1
    <3>2. fN[Empty] = <<>>
      BY <3>1 DEF fN
    <3>3. Mapped(fN, r) = <<<<>>>>
      <4>1. Len(<<Empty>>) = 1 /\ \A i \in 1..1 : <<Empty>>[i] = Empty
        OBVIOUS
      <4>2. Mapped(fN, <<Empty>>) = [i \in 1..1 |-> <<>>]
        BY <3>2, <4>1 DEF Mapped
      <4> QED BY <2>4, <4>2
    <3>4. FlattenSeq(<<<<>>>>) = <<>>
      BY NothingIs, OneRecord
    <3>5. g[r] = <<>>
      BY <1>8, <3>3, <3>4
    <3>6. Mapped(g, <<>>) = <<>>
      BY DEF Mapped
    <3> QED BY <1>9, <2>1, <2>4, <3>5, <3>6
  <2> QED BY <2>2, <2>3, <2>4
<1>12. FlattenSeq(Mapped(g, FlattenSeq(Mapped(fK, s)))) = FlattenSeq(Mapped(g, s))
  <2> DEFINE ks == Mapped(fK, s)
  <2>1. ks \in Seq(Seq(R)) /\ Len(ks) = n /\ \A k \in 1..n : ks[k] = fK[s[k]]
    <3> DEFINE V == Seq(R)
    <3>1. Maps(fK, R, V) /\ s \in Seq(R)
      BY <1>5
    <3> HIDE DEF V, R, fK
    <3>2. ks \in Seq(V) /\ Len(ks) = Len(s) /\ \A k \in 1..Len(s) : ks[k] = fK[s[k]]
      BY <3>1, MappedIs
    <3> QED BY <3>2 DEF V, n
  <2> HIDE DEF ks, R, fK
  <2>2. Mapped(g, FlattenSeq(ks)) = FlattenSeq([k \in 1..Len(ks) |-> Mapped(g, ks[k])])
    <3>1. \A ss \in Seq(Seq(R)) :
            Mapped(g, FlattenSeq(ss)) = FlattenSeq([k \in 1..Len(ss) |-> Mapped(g, ss[k])])
      BY <1>4, MappedFlatten
    <3> QED BY <2>1, <3>1
  <2> DEFINE q == [k \in 1..n |-> Mapped(g, ks[k])]
  <2>3. q \in Seq(Seq(R)) /\ Len(q) = n
    <3>1. \A k \in 1..n : ks[k] \in Seq(R)
      BY <2>1
    <3>2. \A t \in Seq(R) : Mapped(g, t) \in Seq(R)
      BY <1>4, MappedIs
    <3> DEFINE V == Seq(R)
    <3>3. \A k \in 1..n : q[k] \in V
      BY <3>1, <3>2
    <3> HIDE DEF V
    <3>4. q \in [1..n -> V]
      BY <3>3
    <3> HIDE DEF q
    <3>5. q \in Seq(V) /\ Len(q) = n
      BY <1>2, <3>4
    <3> QED BY <3>5 DEF V
  <2>4. FlattenSeq(FlattenSeq(q)) = FlattenSeq([k \in 1..Len(q) |-> FlattenSeq(q[k])])
    <3> HIDE DEF q
    <3>1. q \in Seq(Seq(Seq(W)))
      BY <2>3 DEF R
    <3> QED BY <3>1, FlattenFlatten
  <2>5. [k \in 1..Len(q) |-> FlattenSeq(q[k])] = Mapped(g, s)
    <3>1. \A k \in 1..n : FlattenSeq(q[k]) = g[s[k]]
      BY <1>2, <1>11, <2>1
    <3> HIDE DEF q
    <3>2. Len(q) = n /\ Len(s) = n
      BY <2>3 DEF n
    <3>3. Mapped(g, s) = [k \in 1..n |-> g[s[k]]]
      BY <3>2 DEF Mapped
    <3> QED BY <3>1, <3>2, <3>3
  <2>6. [k \in 1..Len(ks) |-> Mapped(g, ks[k])] = q
    BY <2>1
  <2> HIDE DEF q
  <2> QED BY <2>2, <2>4, <2>5, <2>6 DEF ks
<1>13. ReadBack(s) \in Seq(R)
  <2> DEFINE V == Seq(R)
  <2>1. Maps(fK, R, V) /\ s \in Seq(R)
    BY <1>5
  <2> HIDE DEF V, R, fK
  <2>2. Mapped(fK, s) \in Seq(V)
    BY <2>1, MappedIs
  <2>3. FlattenSeq(Mapped(fK, s)) \in Seq(R)
    BY <2>2, FlattenPlaces DEF V
  <2> QED BY <1>7, <2>3
<1> HIDE DEF R, fK
<1>14. s \in Seq(R)
  BY DEF R
<1> QED BY <1>6, <1>7, <1>12, <1>13, <1>14

-----------------------------------------------------------------------------
(* CSV, and the cells of a PDF. *)

\* Lists of tables, put together.
LEMMA TablesOf ==
  ASSUME NEW n \in Nat, NEW ts, ts = [i \in 1..n |-> ts[i]], \A i \in 1..n : IsTable(ts[i])
  PROVE  \E W : ts \in Seq(Seq(Seq(W))) /\ Len(ts) = n
<1> DEFINE W == UNION {CellsOf(ts[i]) : i \in 1..n}
           V == Seq(Seq(W))
<1>1. ASSUME NEW i \in 1..n PROVE ts[i] \in V
  <2>1. CellsOf(ts[i]) \subseteq W
    OBVIOUS
  <2> HIDE DEF W
  <2> QED BY <2>1, TableIs
<1> HIDE DEF V
<1>2. ts \in [1..n -> V]
  BY <1>1
<1>3. ts \in Seq(V) /\ Len(ts) = n
  BY <1>2
<1> QED BY <1>3 DEF V

\* A document whose blocks can all be read, and one whose blocks can that a
\* CSV is made of.
Readable(d) == IsDocument(d) /\ \A i \in DOMAIN d : CanDecode(d[i])
Tabular(d) == IsDocument(d) /\ \A i \in DOMAIN d : d[i].type \in Prose \/ CanDecode(d[i])

\* Each of its blocks is one, and can be read.
LEMMA BlocksOf ==
  ASSUME NEW d, Readable(d)
  PROVE  /\ Len(d) \in Nat /\ DOMAIN d = 1..Len(d)
         /\ \A i \in 1..Len(d) : IsBlock(d[i]) /\ CanDecode(d[i])
<1>1. /\ Len(d) \in Nat /\ DOMAIN d = 1..Len(d) /\ \A i \in 1..Len(d) : d[i] \in Range(d)
  BY ListIs DEF Readable, IsDocument
<1> QED BY <1>1 DEF Readable, IsDocument

\* A CSV that is read back has the cells of the document, empty ones aside.
LEMMA CSVHasCells ==
  ASSUME NEW d, Tabular(d)
  PROVE  NonEmptyOf(FlattenSeq(ReadBack(ToCSV(d)))) = NonEmptyOf(FlatMap(Cells, d))
<1> DEFINE n == Len(d)
           bs == [i \in 1..n |-> BlockCSV(d[i])]
<1>1. /\ n \in Nat /\ DOMAIN d = 1..n
      /\ \A i \in 1..n : IsBlock(d[i]) /\ (d[i].type \in Prose \/ CanDecode(d[i]))
  <2>1. n \in Nat /\ DOMAIN d = 1..n /\ \A i \in 1..n : d[i] \in Range(d)
    BY ListIs DEF Tabular, IsDocument
  <2> QED BY <2>1 DEF Tabular, IsDocument
<1>2. ToCSV(d) = FlattenSeq(bs) /\ FlatMap(Cells, d) = FlattenSeq([i \in 1..n |-> Cells(d[i])])
  BY <1>1 DEF ToCSV, FlatMap
<1> HIDE DEF n
<1>3. \A i \in 1..n : IsTable(bs[i]) /\ FlattenSeq(bs[i]) = Cells(d[i])
  BY <1>1, RecordsForCSV
<1>4. bs = [i \in 1..n |-> bs[i]]
  OBVIOUS
<1> HIDE DEF bs
<1>5. PICK W : bs \in Seq(Seq(Seq(W))) /\ Len(bs) = n
  BY <1>1, <1>3, <1>4, TablesOf
<1>6. FlattenSeq(bs) \in Seq(Seq(W))
  <2> DEFINE V == Seq(W)
  <2>1. bs \in Seq(Seq(V))
    BY <1>5
  <2> HIDE DEF V
  <2>2. FlattenSeq(bs) \in Seq(V)
    BY <2>1, FlattenPlaces
  <2> QED BY <2>2 DEF V
<1>7. FlattenSeq(FlattenSeq(bs)) = FlattenSeq([i \in 1..Len(bs) |-> FlattenSeq(bs[i])])
  BY <1>5, FlattenFlatten
<1>8. [i \in 1..Len(bs) |-> FlattenSeq(bs[i])] = [i \in 1..n |-> Cells(d[i])]
  BY <1>3, <1>5
<1>9. NonEmptyOf(FlattenSeq(ReadBack(FlattenSeq(bs)))) = NonEmptyOf(FlattenSeq(FlattenSeq(bs)))
  BY <1>6, BlankLinesAside
<1> QED BY <1>2, <1>7, <1>8, <1>9

-----------------------------------------------------------------------------
(* Rows of a page. *)

GridCellsOf(r) == IF r.kind = "grid" THEN r.cells ELSE <<>>
CellsOnGridOf(b) == IF b.type \in {"table", "keyvalue"} THEN Cells(b) ELSE <<>>

\* Rows of text have no cells on the grid, ...
LEMMA TextRows ==
  ASSUME NEW n \in Nat, NEW ps, ps = [i \in 1..n |-> ps[i]],
         \A i \in 1..n : ps[i].kind # "grid"
  PROVE  /\ IsList(ps) /\ Len(ps) = n /\ \A i \in 1..n : IsList(GridCellsOf(ps[i]))
         /\ FlatMap(GridCellsOf, ps) = <<>>
<1>1. IsList(ps) /\ Len(ps) = n
  BY MadeList
<1>2. DOMAIN ps = 1..n
  BY <1>1, ListIs
<1> DEFINE ss == [i \in 1..n |-> <<>>]
<1>3. FlatMap(GridCellsOf, ps) = FlattenSeq(ss)
  BY <1>2 DEF FlatMap, GridCellsOf
<1>4. Len(ss) = n
  OBVIOUS
<1>5. ss = [i \in 1..n |-> <<>>]
  OBVIOUS
<1> HIDE DEF ss
<1>6. FlattenSeq(ss) = <<>>
  BY <1>4, <1>5, FlattenNothing
<1> QED BY <1>1, <1>3, <1>6, NothingIs DEF GridCellsOf

\* ... and rows on it have those of their records.
AreGridRows(ps, records, n) ==
    /\ ps = [i \in 1..n |-> ps[i]] /\ Len(records) = n
    /\ \A i \in 1..n : ps[i].kind = "grid" /\ ps[i].cells = records[i]

\* ... and rows of the grid have the cells of the records they are made of.
LEMMA GridRows ==
  ASSUME NEW n \in Nat, NEW ps, NEW records, IsTable(records), AreGridRows(ps, records, n)
  PROVE  /\ IsList(ps) /\ Len(ps) = n /\ \A i \in 1..n : IsList(GridCellsOf(ps[i]))
         /\ FlatMap(GridCellsOf, ps) = FlattenSeq(records)
<1> USE DEF AreGridRows
<1>1. IsList(ps) /\ Len(ps) = n
  BY MadeList
<1>2. DOMAIN ps = 1..n
  BY <1>1, ListIs
<1>3. records = [i \in 1..n |-> records[i]] /\ \A i \in 1..n : IsList(records[i])
  BY ListIs DEF IsTable
<1>4. [i \in DOMAIN ps |-> GridCellsOf(ps[i])] = records
  BY <1>2, <1>3 DEF GridCellsOf
<1> QED BY <1>1, <1>3, <1>4 DEF FlatMap, GridCellsOf

\* What a page has of a block on the grid are its cells.
LEMMA RowsOfBlock ==
  ASSUME NEW b, IsBlock(b), CanDecode(b)
  PROVE  /\ IsList(BlockPDF(b))
         /\ \A i \in 1..Len(BlockPDF(b)) : IsList(GridCellsOf(BlockPDF(b)[i]))
         /\ FlatMap(GridCellsOf, BlockPDF(b)) = CellsOnGridOf(b)
<1> DEFINE ps == BlockPDF(b)
\* A block of one row of text.
<1>1. ASSUME NEW texts, ps = <<AutoRow(texts)>>, b.type \notin {"table", "keyvalue"}
      PROVE  /\ IsList(ps) /\ \A i \in 1..Len(ps) : IsList(GridCellsOf(ps[i]))
             /\ FlatMap(GridCellsOf, ps) = CellsOnGridOf(b)
  <2> HIDE DEF ps
  <2>1. ps = [i \in 1..1 |-> ps[i]] /\ \A i \in 1..1 : ps[i].kind # "grid"
    BY <1>1 DEF AutoRow
  <2>2. /\ IsList(ps) /\ Len(ps) = 1 /\ \A i \in 1..1 : IsList(GridCellsOf(ps[i]))
        /\ FlatMap(GridCellsOf, ps) = <<>>
    BY <2>1, TextRows
  <2> QED BY <1>1, <2>2 DEF CellsOnGridOf
<1>2. CASE b.type \in {"heading", "text", "code", "metric", "chart"}
  <2>1. \E texts : ps = <<AutoRow(texts)>>
    BY <1>2 DEF BlockPDF
  <2> HIDE DEF ps
  <2>2. b.type \notin {"table", "keyvalue"}
    BY <1>2
  <2> QED BY <1>1, <2>1, <2>2 DEF ps
<1>3. CASE b.type = "list"
  <2> DEFINE s == List(b, "items")
             n == Len(s)
             Bullet(i) == IF Field(b, "ordered", FALSE) THEN i ELSE "-"
  <2>1. n \in Nat /\ DOMAIN s = 1..n
    BY ListsOfBlock, ListIs DEF ListFields
  <2>2. ps = [i \in 1..n |-> AutoRow(<<Bullet(i), s[i]>>)]
    BY <1>3, <2>1 DEF BlockPDF
  <2> HIDE DEF ps, s, n, Bullet
  <2>3. ps = [i \in 1..n |-> ps[i]] /\ \A i \in 1..n : ps[i].kind # "grid"
    BY <2>2 DEF AutoRow
  <2>4. /\ IsList(ps) /\ Len(ps) = n /\ \A i \in 1..n : IsList(GridCellsOf(ps[i]))
        /\ FlatMap(GridCellsOf, ps) = <<>>
    BY <2>1, <2>3, TextRows
  <2> QED BY <1>3, <2>4 DEF CellsOnGridOf, ps
<1>4. CASE b.type = "table"
  <2> DEFINE records == TableRecords(b)
             sizes == GridColumnSizes(Len(List(b, "columns")))
             n == Len(records)
  <2>1. IsTable(records) /\ FlattenSeq(records) = Cells(b)
    BY <1>4, TableRecordsAre DEF Cells
  <2>2. n \in Nat /\ DOMAIN records = 1..n
    BY <2>1, ListIs DEF IsTable
  <2>3. ps = [i \in 1..n |-> TableGridRow(records[i], sizes)]
    BY <1>4, <2>2 DEF BlockPDF
  <2> HIDE DEF ps, records, sizes, n
  <2>4. AreGridRows(ps, records, n)
    BY <2>3 DEF TableGridRow, AreGridRows, n
  <2>5. /\ IsList(ps) /\ Len(ps) = n /\ \A i \in 1..n : IsList(GridCellsOf(ps[i]))
        /\ FlatMap(GridCellsOf, ps) = FlattenSeq(records)
    BY <2>1, <2>2, <2>4, GridRows
  <2> QED BY <1>4, <2>1, <2>5 DEF CellsOnGridOf, ps
<1>5. CASE b.type = "keyvalue"
  <2> DEFINE s == List(b, "pairs")
             n == Len(s)
             half == GridSize \div 2
             records == [i \in 1..n |-> <<s[i].key, s[i].value>>]
  <2>1. n \in Nat /\ DOMAIN s = 1..n
    BY ListsOfBlock, ListIs DEF ListFields
  <2>2. ps = [i \in 1..n |-> TableGridRow(<<s[i].key, s[i].value>>, <<half, half>>)]
    BY <1>5, <2>1 DEF BlockPDF
  <2>3. BlockCSV(b) = records
    BY <1>5, <2>1 DEF BlockCSV
  <2>4. IsTable(records) /\ FlattenSeq(records) = Cells(b)
    BY <2>3, RecordsOfBlock
  <2> HIDE DEF ps, s, n, half
  <2>5. AreGridRows(ps, records, n)
    BY <2>1, <2>2 DEF TableGridRow, AreGridRows
  <2> HIDE DEF records
  <2>6. /\ IsList(ps) /\ Len(ps) = n /\ \A i \in 1..n : IsList(GridCellsOf(ps[i]))
        /\ FlatMap(GridCellsOf, ps) = FlattenSeq(records)
    BY <2>1, <2>4, <2>5, GridRows
  <2> QED BY <1>5, <2>4, <2>6 DEF CellsOnGridOf, ps
<1> QED BY <1>2, <1>3, <1>4, <1>5 DEF CanDecode, FieldsOf, ps

\* Lists of rows whose cells are lists.
LEMMA RowsOf ==
  ASSUME NEW n \in Nat, NEW rss, rss = [k \in 1..n |-> rss[k]],
         \A k \in 1..n : /\ IsList(rss[k])
                         /\ \A i \in 1..Len(rss[k]) : IsList(GridCellsOf(rss[k][i]))
  PROVE  \E V, W : /\ rss \in Seq(Seq(V)) /\ Len(rss) = n
                   /\ \A r \in V : GridCellsOf(r) \in Seq(W)
<1> DEFINE V == UNION {Range(rss[k]) : k \in 1..n}
           W == UNION {Range(GridCellsOf(r)) : r \in V}
           S == Seq(V)
<1>1. ASSUME NEW k \in 1..n PROVE rss[k] \in S
  <2>1. \A i \in 1..Len(rss[k]) : rss[k][i] \in V
    BY ListIs
  <2> HIDE DEF V
  <2> QED BY <2>1, ListOf
<1>2. ASSUME NEW r \in V PROVE GridCellsOf(r) \in Seq(W)
  <2>1. PICK k \in 1..n : r \in Range(rss[k])
    OBVIOUS
  <2>2. PICK i \in 1..Len(rss[k]) : r = rss[k][i]
    <3>1. DOMAIN rss[k] = 1..Len(rss[k])
      BY ListIs
    <3> QED BY <2>1, <3>1 DEF Range
  <2> HIDE DEF V
  <2> DEFINE c == GridCellsOf(r)
  <2>3. IsList(c)
    BY <2>2
  <2>4. Range(c) \subseteq W
    OBVIOUS
  <2> HIDE DEF c, W
  <2>5. \A j \in 1..Len(c) : c[j] \in W
    BY <2>3, <2>4, ListIs
  <2> QED BY <2>3, <2>5, ListOf DEF c
<1> HIDE DEF S
<1>3. rss \in [1..n -> S]
  BY <1>1
<1>4. rss \in Seq(S) /\ Len(rss) = n
  BY <1>3
<1> QED BY <1>2, <1>4 DEF S

\* A PDF has the cells of tables and pairs.
LEMMA PDFHasCells ==
  ASSUME NEW d, Readable(d)
  PROVE  FlatMap(GridCellsOf, ToPDF(d)) = FlatMap(CellsOnGridOf, d)
<1> DEFINE n == Len(d)
           bs == [i \in 1..n |-> BlockPDF(d[i])]
<1>1. n \in Nat /\ DOMAIN d = 1..n /\ \A i \in 1..n : IsBlock(d[i]) /\ CanDecode(d[i])
  BY BlocksOf
<1>2. /\ ToPDF(d) = FlattenSeq(bs)
      /\ FlatMap(CellsOnGridOf, d) = FlattenSeq([i \in 1..n |-> CellsOnGridOf(d[i])])
  BY <1>1 DEF ToPDF, FlatMap
<1> HIDE DEF n
<1>3. \A i \in 1..n :
         /\ IsList(bs[i]) /\ \A k \in 1..Len(bs[i]) : IsList(GridCellsOf(bs[i][k]))
         /\ FlatMap(GridCellsOf, bs[i]) = CellsOnGridOf(d[i])
  BY <1>1, RowsOfBlock
<1>4. bs = [i \in 1..n |-> bs[i]]
  OBVIOUS
<1> HIDE DEF bs
<1>5. PICK V, W : /\ bs \in Seq(Seq(V)) /\ Len(bs) = n
                  /\ \A r \in V : GridCellsOf(r) \in Seq(W)
  BY <1>1, <1>3, <1>4, RowsOf
<1> DEFINE f == [r \in V |-> GridCellsOf(r)]
<1>6. Maps(f, V, Seq(W))
  <2> DEFINE S == Seq(W)
  <2>1. \A r \in V : GridCellsOf(r) \in S
    BY <1>5
  <2> HIDE DEF S
  <2> QED BY <2>1 DEF Maps, S
<1>7. ASSUME NEW s \in Seq(V) PROVE FlattenSeq(Mapped(f, s)) = FlatMap(GridCellsOf, s)
  <2>1. DOMAIN s = 1..Len(s) /\ \A i \in 1..Len(s) : s[i] \in V
    OBVIOUS
  <2>2. \A i \in 1..Len(s) : f[s[i]] = GridCellsOf(s[i])
    BY <2>1
  <2> HIDE DEF f
  <2>3. Mapped(f, s) = [i \in DOMAIN s |-> GridCellsOf(s[i])]
    BY <2>1, <2>2 DEF Mapped
  <2> QED BY <2>3 DEF FlatMap
<1> HIDE DEF f
<1>8. FlattenSeq(bs) \in Seq(V) /\ \A i \in 1..n : bs[i] \in Seq(V)
  <2>1. FlattenSeq(bs) \in Seq(V)
    BY <1>5, FlattenPlaces
  <2> DEFINE S == Seq(V)
  <2>2. bs \in Seq(S)
    BY <1>5
  <2> HIDE DEF S
  <2>3. \A i \in 1..n : bs[i] \in S
    BY <1>5, <2>2
  <2> QED BY <2>1, <2>3 DEF S
<1>9. FlattenSeq(Mapped(f, FlattenSeq(bs)))
        = FlattenSeq([k \in 1..Len(bs) |-> FlattenSeq(Mapped(f, bs[k]))])
  <2>1. \A ss \in Seq(Seq(V)) :
          FlattenSeq(Mapped(f, FlattenSeq(ss)))
            = FlattenSeq([k \in 1..Len(ss) |-> FlattenSeq(Mapped(f, ss[k]))])
    BY <1>6, FlatMapFlatten
  <2> QED BY <1>5, <2>1
<1>10. [k \in 1..Len(bs) |-> FlattenSeq(Mapped(f, bs[k]))] = [i \in 1..n |-> CellsOnGridOf(d[i])]
  BY <1>3, <1>5, <1>7, <1>8
<1>11. FlattenSeq(Mapped(f, FlattenSeq(bs))) = FlatMap(GridCellsOf, FlattenSeq(bs))
  BY <1>7, <1>8
<1> QED BY <1>2, <1>9, <1>10, <1>11

-----------------------------------------------------------------------------
(* The widths of columns. *)

\* A sum over a list, one element after the other.
LEMMA SumByStep ==
  ASSUME NEW w \in Seq(Int)
  PROVE  \E g : /\ g \in [0..Len(w) -> Int] /\ g[0] = 0 /\ FoldLeft(+, 0, w) = g[Len(w)]
                /\ \A k \in 1..Len(w) : g[k] = g[k-1] + w[k]
<1> DEFINE n == Len(w)
           Z == Int
           Next1(k, v) == v + w[k]
           op == [p \in (1..n) \X Z |-> Next1(p[1], p[2])]
           Obeys(h) == h = [s \in SUBSET DOMAIN w |->
                              IF s = {} THEN 0
                              ELSE LET x == Max(s) IN Next1(x, h[s \ {x}])]
           it == CHOOSE h : Obeys(h)
<1>1. n \in Nat /\ DOMAIN w = 1..n /\ 0 \in Z /\ \A k \in 1..n : w[k] \in Z
  OBVIOUS
<1>2. op \in [(1..n) \X Z -> Z] /\ \A k \in 1..n, v \in Z : op[k, v] = Next1(k, v)
  <2>1. \A k \in 1..n, v \in Z : Next1(k, v) \in Z
    BY <1>1
  <2>2. ASSUME NEW k \in 1..n, NEW v \in Z PROVE op[k, v] = Next1(k, v)
    <3>1. <<k, v>> \in (1..n) \X Z
      OBVIOUS
    <3> HIDE DEF Next1, n
    <3>2. op[<<k, v>>] = Next1(k, v)
      BY <3>1
    <3> QED BY <3>2
  <2> HIDE DEF Next1, n
  <2> QED BY <2>1, <2>2
<1>3. FoldLeft(+, 0, w) = it[DOMAIN w]
  BY DEF FoldLeft, MapThenFoldSet
<1> HIDE DEF n, Next1, op, Z
<1>4. \E h : Obeys(h)
  <2>1. PICK h \in [SUBSET (1..n) -> Z] : FoldEquation(h, n, 0, op)
    BY <1>1, <1>2, FoldLeftExists
  <2>2. ASSUME NEW s \in SUBSET (1..n)
        PROVE  h[s] = IF s = {} THEN 0 ELSE Next1(Max(s), h[s \ {Max(s)}])
    <3>1. s # {} => Max(s) \in 1..n
      BY <1>1, MaxExists
    <3>2. h[s \ {Max(s)}] \in Z
      BY <2>1
    <3> QED BY <1>2, <2>1, <3>1, <3>2 DEF FoldEquation
  <2>3. Obeys(h)
    BY <1>1, <2>1, <2>2
  <2> HIDE DEF Obeys
  <2> QED BY <2>3
<1>5. Obeys(it)
  <2> HIDE DEF Obeys
  <2> QED BY <1>4
<1> HIDE DEF it
<1>6. FoldsLeft(it, n, Z, 0, op)
  <2>1. it[{}] = 0
    BY <1>5
  <2>2. ASSUME NEW s \in SUBSET (1..n), s # {}, it[s \ {Max(s)}] \in Z
        PROVE  it[s] = op[Max(s), it[s \ {Max(s)}]]
    <3>1. Max(s) \in 1..n
      BY <1>1, <2>2, MaxExists
    <3>2. it[s] = Next1(Max(s), it[s \ {Max(s)}])
      BY <1>1, <1>5, <2>2
    <3> QED BY <1>2, <2>2, <3>1, <3>2
  <2> QED BY <2>1, <2>2 DEF FoldsLeft
<1> DEFINE g == [k \in 0..n |-> it[1..k]]
<1>7. FoldSteps(g, n, Z, 0, op)
  BY <1>1, <1>2, <1>6, FoldLeftSteps
<1>8. \A k \in 1..n : g[k] = Next1(k, g[k-1])
  <2> HIDE DEF g
  <2> QED BY <1>2, <1>7 DEF FoldSteps
<1>9. g[n] = it[DOMAIN w]
  BY <1>1
<1> HIDE DEF g
<1>10. /\ g \in [0..n -> Z] /\ g[0] = 0 /\ FoldLeft(+, 0, w) = g[n]
       /\ \A k \in 1..n : g[k] = g[k-1] + w[k]
  BY <1>3, <1>7, <1>8, <1>9 DEF FoldSteps, Next1, Z
<1> QED BY <1>10 DEF n, Z

\* The columns of a table that has no more of them than the grid fill the page.
LEMMA ColumnsFill ==
  ASSUME NEW n \in 1 .. GridSize
  PROVE  /\ GridColumnSizes(n) \in Seq(Int) /\ Len(GridColumnSizes(n)) = n
         /\ FoldLeft(+, 0, GridColumnSizes(n)) = GridSize
<1> DEFINE q == GridSize \div n
           w == GridColumnSizes(n)
<1>1. GridSize \in Nat \ {0} /\ n \in Nat \ {0} /\ n =< GridSize
  BY DocumentsAssumption
<1>2. q \in Nat /\ q >= 1 /\ n * q =< GridSize
  BY <1>1
<1>3. \A x \in Int : x >= 1 => Max({x, 1}) = x
  <2> SUFFICES ASSUME NEW x \in Int, x >= 1 PROVE Max({x, 1}) = x
    OBVIOUS
  <2> QED BY MaxMin
<1> HIDE DEF q
<1> DEFINE last == q + GridSize - n * q
<1>4. last \in Int /\ last >= 1
  BY <1>1, <1>2
<1>5. w = [i \in 1..n |-> IF i < n THEN q ELSE last]
  BY <1>2, <1>3, <1>4 DEF GridColumnSizes, q
<1> HIDE DEF w, last
<1>6. w \in [1..n -> Int] /\ n \in Nat
  BY <1>1, <1>2, <1>4, <1>5
<1>7. w \in Seq(Int) /\ Len(w) = n
  BY <1>6
<1>8. PICK g : /\ g \in [0..n -> Int] /\ g[0] = 0 /\ FoldLeft(+, 0, w) = g[n]
               /\ \A k \in 1..n : g[k] = g[k-1] + w[k]
  BY <1>7, SumByStep
<1> DEFINE K == {k \in Nat : k < n => g[k] = k * q}
<1>9. 0 \in K
  <2>1. 0 * q = 0
    BY <1>2
  <2> QED BY <1>8, <2>1
<1>10. ASSUME NEW k \in Nat, k \in K PROVE k + 1 \in K
  <2> SUFFICES ASSUME k + 1 < n PROVE g[k+1] = (k + 1) * q
    OBVIOUS
  <2>1. g[k] = k * q /\ k + 1 \in 1..n /\ (k + 1) - 1 = k
    BY <1>1, <1>10
  <2>2. g[k+1] = g[k] + w[k+1] /\ w[k+1] = q
    BY <1>5, <1>8, <2>1
  <2> QED BY <1>2, <2>1, <2>2
<1>11. \A k \in Nat : k \in K
  <2> HIDE DEF K
  <2> QED BY <1>9, <1>10, SetInduction
<1>12. g[n - 1] = (n - 1) * q
  BY <1>1, <1>11
<1>13. g[n] = g[n - 1] + last
  <2>1. n \in 1..n /\ ~(n < n)
    BY <1>1
  <2>2. w[n] = last
    BY <1>5, <2>1
  <2> QED BY <1>8, <2>1, <2>2
<1>14. (n - 1) * q + last = GridSize
  BY <1>1, <1>2 DEF last
<1> QED BY <1>7, <1>8, <1>12, <1>13, <1>14 DEF w

-----------------------------------------------------------------------------
(* The widths of a PDF's rows. *)

\* A table whose records all have a cell for each of its columns.
FitsGrid(t) == /\ Len(List(t, "columns")) \in 1 .. GridSize
               /\ \A r \in DOMAIN TableRecords(t) :
                    Len(TableRecords(t)[r]) = Len(List(t, "columns"))

\* A row of the grid is as wide as the page.
Fills(r) == r.kind = "grid" => FoldLeft(+, 0, r.widths) = GridSize

\* Two halves of a page, if its width is even.
LEMMA HalvesFill ==
  LET half == GridSize \div 2
      w == <<half, half>>
  IN FoldLeft(+, 0, w) = GridSize
<1> DEFINE half == GridSize \div 2
           w == <<half, half>>
<1>1. half \in Int /\ half + half = GridSize
  BY DocumentsAssumption
<1> HIDE DEF half
<1>2. w \in Seq(Int) /\ Len(w) = 2 /\ w[1] = half /\ w[2] = half
  BY <1>1
<1> HIDE DEF w
<1>3. PICK g : /\ g \in [0..Len(w) -> Int] /\ g[0] = 0 /\ FoldLeft(+, 0, w) = g[Len(w)]
               /\ \A k \in 1..Len(w) : g[k] = g[k-1] + w[k]
  BY <1>2, SumByStep
<1>4. g[0] = 0 /\ g[1] = g[0] + w[1] /\ g[2] = g[1] + w[2]
  <2>1. 1 \in 1..Len(w) /\ 2 \in 1..Len(w) /\ 1 - 1 = 0 /\ 2 - 1 = 1
    BY <1>2
  <2> QED BY <1>3, <2>1
<1>5. g[2] = GridSize
  BY <1>1, <1>2, <1>4
<1> QED BY <1>2, <1>3, <1>5 DEF w, half

\* The rows of one block fill the page.
LEMMA BlockFills ==
  ASSUME NEW b, IsBlock(b), CanDecode(b), b.type = "table" => FitsGrid(b)
  PROVE  \A i \in 1..Len(BlockPDF(b)) : Fills(BlockPDF(b)[i])
<1> DEFINE ps == BlockPDF(b)
<1>1. ASSUME NEW texts, ps = <<AutoRow(texts)>> PROVE \A i \in 1..Len(ps) : Fills(ps[i])
  <2> HIDE DEF ps
  <2>1. Len(ps) = 1 /\ ps[1] = AutoRow(texts)
    BY <1>1
  <2>2. Fills(AutoRow(texts))
    BY DEF AutoRow, Fills
  <2> QED BY <2>1, <2>2
<1>2. CASE b.type \in {"heading", "text", "code", "metric", "chart"}
  <2>1. \E texts : ps = <<AutoRow(texts)>>
    BY <1>2 DEF BlockPDF
  <2> HIDE DEF ps
  <2> QED BY <1>1, <2>1 DEF ps
<1>3. CASE b.type = "list"
  <2> DEFINE s == List(b, "items")
             n == Len(s)
             Bullet(i) == IF Field(b, "ordered", FALSE) THEN i ELSE "-"
  <2>1. n \in Nat /\ DOMAIN s = 1..n
    BY ListsOfBlock, ListIs DEF ListFields
  <2>2. ps = [i \in 1..n |-> AutoRow(<<Bullet(i), s[i]>>)]
    BY <1>3, <2>1 DEF BlockPDF
  <2> HIDE DEF ps, s, n, Bullet
  <2>3. Len(ps) = n
    BY <2>1, <2>2
  <2>4. \A i \in 1..n : Fills(ps[i])
    BY <2>2 DEF AutoRow, Fills
  <2> QED BY <2>3, <2>4 DEF ps
<1>4. CASE b.type = "table"
  <2> DEFINE records == TableRecords(b)
             h == Len(List(b, "columns"))
             sizes == GridColumnSizes(h)
             n == Len(records)
  <2>1. IsTable(records) /\ h \in 1 .. GridSize /\ \A r \in DOMAIN records : Len(records[r]) = h
    BY <1>4, TableRecordsAre DEF FitsGrid
  <2>2. n \in Nat /\ DOMAIN records = 1..n /\ \A i \in 1..n : records[i] \in Range(records)
    BY <2>1, ListIs DEF IsTable
  <2>3. ps = [i \in 1..n |-> TableGridRow(records[i], sizes)]
    BY <1>4, <2>2 DEF BlockPDF
  <2> HIDE DEF ps, records, n, h
  <2>4. /\ sizes \in Seq(Int) /\ Len(sizes) = h /\ FoldLeft(+, 0, sizes) = GridSize
    BY <2>1, ColumnsFill
  <2> HIDE DEF sizes
  <2>5. DOMAIN sizes = 1..h /\ sizes = [j \in 1..h |-> sizes[j]]
    BY <2>4, SeqIsList, ListIs
  <2>6. ASSUME NEW i \in 1..n PROVE Fills(ps[i])
    <3>1. DOMAIN records[i] = 1..h
      <4>1. IsList(records[i]) /\ Len(records[i]) = h
        BY <2>1, <2>2 DEF IsTable
      <4> QED BY <4>1, ListIs
    <3>2. ps[i].widths = [j \in DOMAIN records[i] |-> IF j \in DOMAIN sizes THEN sizes[j] ELSE 1]
      BY <2>3 DEF TableGridRow
    <3>3. ps[i].widths = sizes
      BY <2>5, <3>1, <3>2
    <3> QED BY <2>4, <3>3 DEF Fills
  <2>7. Len(ps) = n
    BY <2>2, <2>3
  <2> QED BY <2>6, <2>7 DEF ps
<1>5. CASE b.type = "keyvalue"
  <2> DEFINE s == List(b, "pairs")
             n == Len(s)
             half == GridSize \div 2
             w == <<half, half>>
  <2>1. n \in Nat /\ DOMAIN s = 1..n
    BY ListsOfBlock, ListIs DEF ListFields
  <2>2. ps = [i \in 1..n |-> TableGridRow(<<s[i].key, s[i].value>>, w)]
    BY <1>5, <2>1 DEF BlockPDF
  <2>3. FoldLeft(+, 0, w) = GridSize
    BY HalvesFill
  <2>4. DOMAIN w = 1..2 /\ w = [j \in 1..2 |-> w[j]]
    <3> HIDE DEF half
    <3> QED OBVIOUS
  <2> HIDE DEF ps, s, n, w
  <2>5. ASSUME NEW i \in 1..n PROVE Fills(ps[i])
    <3>1. DOMAIN <<s[i].key, s[i].value>> = 1..2
      OBVIOUS
    <3>2. ps[i].widths = [j \in DOMAIN <<s[i].key, s[i].value>> |-> IF j \in DOMAIN w THEN w[j] ELSE 1]
      BY <2>2 DEF TableGridRow
    <3>3. ps[i].widths = w
      BY <2>4, <3>1, <3>2
    <3> QED BY <2>3, <3>3 DEF Fills
  <2>6. Len(ps) = n
    BY <2>1, <2>2
  <2> QED BY <2>5, <2>6 DEF ps
<1> QED BY <1>2, <1>3, <1>4, <1>5 DEF CanDecode, FieldsOf, ps

\* The rows of a document do.
LEMMA RowsFill ==
  ASSUME NEW d, Readable(d), \A i \in DOMAIN d : d[i].type = "table" => FitsGrid(d[i])
  PROVE  \A i \in DOMAIN ToPDF(d) : Fills(ToPDF(d)[i])
<1> DEFINE n == Len(d)
           bs == [i \in 1..n |-> BlockPDF(d[i])]
<1>1. n \in Nat /\ DOMAIN d = 1..n /\ \A i \in 1..n : IsBlock(d[i]) /\ CanDecode(d[i])
  BY BlocksOf
<1>2. ToPDF(d) = FlattenSeq(bs)
  BY <1>1 DEF ToPDF, FlatMap
<1> HIDE DEF n
<1>3. \A k \in 1..n :
         /\ IsList(bs[k]) /\ \A i \in 1..Len(bs[k]) : IsList(GridCellsOf(bs[k][i]))
  BY <1>1, RowsOfBlock
<1>4. \A k \in 1..n : \A i \in 1..Len(bs[k]) : Fills(bs[k][i])
  BY <1>1, BlockFills
<1>5. bs = [i \in 1..n |-> bs[i]]
  OBVIOUS
<1> HIDE DEF bs
<1>6. PICK V : bs \in Seq(Seq(V)) /\ Len(bs) = n
  BY <1>1, <1>3, <1>5, RowsOf
<1>7. FlattenSeq(bs) \in Seq(V)
  BY <1>6, FlattenPlaces
<1>8. PICK blk, pos : Places(blk, pos, FlattenSeq(bs), bs, Len(bs))
  BY <1>6, FlattenPlaces
<1>9. \A i \in 1..Len(FlattenSeq(bs)) :
        /\ blk[i] \in 1..n /\ pos[i] \in 1..Len(bs[blk[i]])
        /\ FlattenSeq(bs)[i] = bs[blk[i]][pos[i]]
  BY <1>6, <1>8 DEF Places
<1>10. DOMAIN FlattenSeq(bs) = 1..Len(FlattenSeq(bs))
  BY <1>7
<1> QED BY <1>2, <1>4, <1>9, <1>10

-----------------------------------------------------------------------------
(* What ExportIsDocument says of a file. *)

HasDocument(f, format, d) ==
    LET AllFit == \A i \in DOMAIN d : d[i].type = "table" => FitsGrid(d[i])
    IN /\ format = "json" => f = d
       /\ format = "csv" =>
            NonEmptyOf(FlattenSeq(ReadBack(f))) = NonEmptyOf(FlatMap(Cells, d))
       /\ format = "pdf" =>
            /\ FlatMap(GridCellsOf, f) = FlatMap(CellsOnGridOf, d)
            /\ AllFit => \A i \in DOMAIN f : Fills(f[i])

\* Some block of the document keeps the client from its file.
Refusable(format, d) ==
    \E b \in Range(d) : ~CanDecode(b) /\ (b.type \in Prose => format = "pdf")

\* A file that has the document, or a document that cannot be written, is what
\* ExportIsDocument asks for.
LEMMA ExportIsIt ==
  ASSUME file # Absent =>
           HasDocument(file, ask.format, IF ask.via = "document" THEN ask.document ELSE doc),
         ask.via = "document" /\ stage = "failed" => Refusable(ask.format, ask.document)
  PROVE  ExportIsDocument
BY DEF HasDocument, Refusable, ExportIsDocument, NonEmptyOf, GridCellsOf, CellsOnGridOf,
       FitsGrid, Fills

\* What Export makes of a document.
LEMMA ExportHasDocument ==
  ASSUME NEW d, IsDocument(d), NEW format, NEW f,
         \A i \in DOMAIN d : CanWrite(format, d[i]),
         f = CASE format = "csv"  -> ToCSV(d)
               [] format = "pdf"  -> ToPDF(d)
               [] format = "json" -> d
  PROVE  HasDocument(f, format, d)
<1>1. ASSUME format = "csv" PROVE NonEmptyOf(FlattenSeq(ReadBack(f))) = NonEmptyOf(FlatMap(Cells, d))
  <2>1. f = ToCSV(d) /\ Tabular(d)
    BY <1>1 DEF Tabular, CanWrite
  <2> QED BY <2>1, CSVHasCells
<1>2. ASSUME format = "pdf"
      PROVE  /\ FlatMap(GridCellsOf, f) = FlatMap(CellsOnGridOf, d)
             /\ (\A i \in DOMAIN d : d[i].type = "table" => FitsGrid(d[i]))
                  => \A i \in DOMAIN f : Fills(f[i])
  <2>1. f = ToPDF(d) /\ Readable(d)
    BY <1>2 DEF Readable, CanWrite
  <2> QED BY <2>1, PDFHasCells, RowsFill
<1>3. format = "json" => f = d
  OBVIOUS
<1> QED BY <1>1, <1>2, <1>3 DEF HasDocument

=============================================================================
