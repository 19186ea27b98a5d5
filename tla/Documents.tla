----------------------------- MODULE Documents -----------------------------
(***************************************************************************)
(* What a client does around a run: it may open a template and save a copy *)
(* of it first, it gets the document of the run over the HTTP API or as an *)
(* agent, and it may export what it got, or a run of the template, or a    *)
(* document of its own, as CSV, PDF or JSON (handlers_templates.go,        *)
(* handlers_run_export.go, internal/pkg/mcp, internal/pkg/export).         *)
(***************************************************************************)
EXTENDS Timesheet

CONSTANT GridSize   \* pdfGridSize, the width of a page

ASSUME DocumentsAssumption == GridSize \in Nat \ {0} /\ GridSize % 2 = 0

VARIABLES
    ask,    \* the input: what the client does, and with what
    stage,  \* where it is
    shown,  \* what it was sent: a template, then a document
    row,    \* the row of the copy in the table of templates
    file    \* what the export returned

docVars == <<ask, stage, shown, row, file>>

\* ask.copy: the new name when a copy is made; ask.via: "http", "mcp",
\* "export" for an export by template id or "document" for one of
\* ask.document; ask.format: "none" without an export.
DocumentsInit ==
    /\ \E i \in Inputs : Start(i) /\ ask = i
    /\ stage = IF ask.via \in {"export", "document"} THEN "check"
               ELSE IF ask.copy # Absent THEN "open" ELSE "run"
    /\ shown = ask.document /\ row = Absent /\ file = Absent

-----------------------------------------------------------------------------
(* A copy of a template. *)

\* ListTemplates, and the client edits the name.
OpenTemplate ==
    /\ stage = "open"
    /\ stage' = "save"
    /\ shown' = [TemplateToAPI(template) EXCEPT !.name = ask.copy]
    /\ UNCHANGED <<vars, ask, row, file>>

CreateTemplate ==
    /\ stage = "save"
    /\ IF shown.name = Empty
       THEN stage' = "refused" /\ UNCHANGED row
       ELSE /\ stage' = "load"
            /\ row' = TemplateToModel(TemplateFromInput("copy", shown))
    /\ UNCHANGED <<vars, ask, shown, file>>

\* GetTemplate, of the request that runs the copy or of an agent that wants to
\* see it first.
GetTemplate ==
    /\ stage = "load"
    /\ stage' = IF ask.via = "mcp" THEN "read" ELSE "run"
    /\ template' = TemplateFromModel(row)
    /\ UNCHANGED <<timeline, form, phase, step, sessions, rows, blocks, doc>>
    /\ UNCHANGED <<ask, shown, row, file>>

\* The tool get_template.
AgentReads ==
    /\ stage = "read"
    /\ stage' = "run"
    /\ shown' = TemplateToDTO(template)
    /\ UNCHANGED <<vars, ask, row, file>>

-----------------------------------------------------------------------------
(* The run, and its answer. *)

RunStep ==
    /\ stage = "run"
    /\ UNCHANGED docVars

Deliver ==
    /\ stage = "run" /\ phase \in {"done", "failed"}
    /\ IF phase = "failed"
       THEN stage' = "failed" /\ UNCHANGED shown
       ELSE /\ stage' = IF ask.via = "export" THEN "export"
                        ELSE IF ask.format = "none" THEN "end" ELSE "check"
            /\ shown' = CASE ask.via = "http"   -> DocumentToAPI(doc)
                          [] ask.via = "mcp"    -> DocumentToDTO(doc)
                          [] ask.via = "export" -> shown
    /\ UNCHANGED <<vars, ask, row, file>>

-----------------------------------------------------------------------------
(* Reading a block back into the struct of its type: what its data does not *)
(* have is empty, and what the struct does not have is not looked at.       *)

FieldsOf(type) ==
    CASE type = "heading"  -> {"level", "text"}
      [] type = "text"     -> {"markdown"}
      [] type = "list"     -> {"ordered", "items"}
      [] type = "table"    -> {"columns", "rows", "footer"}
      [] type = "keyvalue" -> {"pairs"}
      [] type = "metric"   -> {"label", "value", "unit"}
      [] type = "code"     -> {"lang", "content"}
      [] type = "chart"    -> {"kind", "labels", "values"}
      [] OTHER             -> {}

Filled(block) == DOMAIN ObjectOf(block.data) \cap FieldsOf(block.type)

\* The data decodes: no field of the struct is given a value of another type,
\* such as an object, which NotText stands for here.
CanDecode(block) ==
    /\ FieldsOf(block.type) # {}
    /\ \A k \in Filled(block) : ObjectOf(block.data)[k] # NotText

Field(block, k, default) ==
    IF k \in Filled(block) THEN ObjectOf(block.data)[k] ELSE default
List(block, k) == Field(block, k, <<>>)
Text(block, k) == Field(block, k, Empty)

\* Variant: the footer is left out.
TableWithoutFooter(b) == <<List(b, "columns")>> \o List(b, "rows")

\* A table's header, its rows, and its footer if it has one.
TableRecords(b) ==
    <<List(b, "columns")>> \o List(b, "rows")
    \o IF List(b, "footer") = <<>> THEN <<>> ELSE <<List(b, "footer")>>

\* A chart's points; a label may be without value.
ChartRecords(b) ==
    LET labels == List(b, "labels")
        values == List(b, "values")
    IN [i \in DOMAIN labels |->
            <<labels[i], IF i =< Len(values) THEN values[i] ELSE Empty>>]

-----------------------------------------------------------------------------
(* CSV: one record after the other; prose is left out without decoding it. *)

Prose == {"heading", "text", "code"}

BlockCSV(b) ==
    CASE b.type \in Prose -> <<>>
      [] b.type = "table" -> TableRecords(b)
      [] b.type = "list" ->
            [i \in DOMAIN List(b, "items") |-> <<List(b, "items")[i]>>]
      [] b.type = "keyvalue" ->
            [i \in DOMAIN List(b, "pairs") |->
                <<List(b, "pairs")[i].key, List(b, "pairs")[i].value>>]
      [] b.type = "metric" -> <<<<Text(b, "label"), Text(b, "value")>>>>
      [] b.type = "chart" -> ChartRecords(b)

ToCSV(d) == FlatMap(BlockCSV, d)

-----------------------------------------------------------------------------
(* PDF: rows of text that wraps, and rows of cells of a width on a grid. *)

\* Even columns; the last one takes what is left over.
GridColumnSizes(n) ==
    LET base == Max({GridSize \div n, 1})
    IN [i \in 1 .. n |-> IF i < n THEN base
                         ELSE Max({base + GridSize - n * base, 1})]

\* A cell beyond the header's columns is one wide.
TableGridRow(cells, sizes) ==
    [kind |-> "grid", cells |-> cells,
     widths |-> [i \in DOMAIN cells |-> IF i \in DOMAIN sizes THEN sizes[i] ELSE 1]]

AutoRow(texts) == [kind |-> "text", cells |-> texts]

BlockPDF(b) ==
    CASE b.type = "heading" -> <<AutoRow(<<Text(b, "text")>>)>>
      [] b.type = "text" -> <<AutoRow(<<Text(b, "markdown")>>)>>
      [] b.type = "code" -> <<AutoRow(<<Text(b, "content")>>)>>
      [] b.type = "list" ->
            LET Bullet(i) == IF Field(b, "ordered", FALSE) THEN i ELSE "-"
            IN [i \in DOMAIN List(b, "items") |->
                    AutoRow(<<Bullet(i), List(b, "items")[i]>>)]
      [] b.type = "table" ->
            LET sizes   == GridColumnSizes(Len(List(b, "columns")))
                records == TableRecords(b)
            IN [i \in DOMAIN records |-> TableGridRow(records[i], sizes)]
      [] b.type = "keyvalue" ->
            LET half == GridSize \div 2
                pair(i) == List(b, "pairs")[i]
            IN [i \in DOMAIN List(b, "pairs") |->
                    TableGridRow(<<pair(i).key, pair(i).value>>, <<half, half>>)]
      [] b.type = "metric" ->
            <<AutoRow(<<Text(b, "label"), Text(b, "value")>>
                      \o IF Text(b, "unit") = Empty THEN <<>>
                         ELSE <<Text(b, "unit")>>)>>
      [] b.type = "chart" ->
            <<AutoRow(<<Text(b, "kind"), Len(List(b, "values"))>>)>>

ToPDF(d) == FlatMap(BlockPDF, d)

-----------------------------------------------------------------------------
(* ExportDocument. *)

Formats == {"csv", "pdf", "json"}

\* The format is checked before a template is run.
CheckFormat ==
    /\ stage = "check"
    /\ stage' = IF ask.format \notin Formats THEN "refused"
                ELSE IF ask.via = "export" THEN "run" ELSE "export"
    /\ UNCHANGED <<vars, ask, shown, row, file>>

\* The document in the request, or the one of the run.
ResolveExportDocument == IF ask.via = "export" THEN doc ELSE DocumentFromAPI(shown)

\* What has to decode for a file: a PDF is made of all blocks, a CSV of those
\* that are no prose, and JSON is the document as it is.
CanWrite(format, b) ==
    CASE format = "csv"  -> b.type \in Prose \/ CanDecode(b)
      [] format = "pdf"  -> CanDecode(b)
      [] format = "json" -> TRUE

\* One block that cannot be written fails the export.
Export ==
    /\ stage = "export"
    /\ LET d == ResolveExportDocument
       IN IF \E i \in DOMAIN d : ~CanWrite(ask.format, d[i])
          THEN stage' = "failed" /\ UNCHANGED file
          ELSE /\ stage' = "end"
               /\ file' = CASE ask.format = "csv"  -> ToCSV(d)
                            [] ask.format = "pdf"  -> ToPDF(d)
                            [] ask.format = "json" -> d
    /\ UNCHANGED <<vars, ask, shown, row>>

-----------------------------------------------------------------------------
DocumentsNext ==
    \/ OpenTemplate \/ CreateTemplate \/ GetTemplate \/ AgentReads
    \/ (BuildPipeline /\ RunStep) \/ (Sessionize /\ RunStep)
    \/ (ExcludeOffTime /\ RunStep) \/ (ExcludeOffTimeFails /\ RunStep)
    \/ (SplitByActiveDays /\ RunStep) \/ (GroupBy /\ RunStep)
    \/ (Aggregate /\ RunStep) \/ (Rate /\ RunStep) \/ (Passthrough /\ RunStep)
    \/ (ApplyLayout /\ RunStep)
    \/ Deliver \/ CheckFormat \/ Export

DocumentsSpec == DocumentsInit /\ [][DocumentsNext]_<<vars, docVars>>

-----------------------------------------------------------------------------
(* What the properties below are stated for. *)

IsList(s) == s \in Seq(Range(s))

ListFields == {"columns", "rows", "footer", "items", "pairs", "labels", "values"}

\* A block is a type and data, and what can be read of it is of its type.
IsBlock(b) ==
    /\ b = [type |-> b.type, data |-> b.data]
    /\ CanDecode(b) => /\ \A k \in ListFields : IsList(List(b, k))
                      /\ \A r \in Range(List(b, "rows")) : IsList(r)

\* A client's document is a list of blocks.
DocumentsAsked ==
    \A i \in Inputs : /\ IsList(i.document)
                     /\ \A b \in Range(i.document) : IsBlock(b)

-----------------------------------------------------------------------------
(* Properties. *)

\* A copy that went through the API into the table and out of it again runs as
\* the template it was made of: it has the same form and the same steps with
\* the same parameters, and its document, as a browser or an agent is sent it,
\* is what the original's layout makes of the rows.  A copy has its new name
\* and is not built in; apart from that an agent sees no difference.
CopyRunsAlike ==
    LET original == ask.template
        Rendered(b) == Render(original.layout[b])
    IN stage \in {"run", "export", "end"} /\ row # Absent =>
        /\ template.name = ask.copy /\ template.name # Empty
        /\ template.id # original.id /\ ~template.builtin
        /\ template.form = original.form
        /\ template.transform = original.transform
        /\ template.exports = original.exports
        /\ stage = "run" /\ ask.via = "mcp" =>
             shown = [TemplateToDTO(original) EXCEPT
                         !.id = template.id, !.name = ask.copy, !.builtin = FALSE]
        /\ stage = "end" /\ original.layout # <<>> =>
             /\ Len(shown) = Len(original.layout)
             /\ \A b \in DOMAIN shown :
                  /\ shown[b].type = Rendered(b).type
                  /\ shown[b].data = Rendered(b).data

\* The cells of a block that a spreadsheet should get, in order.
Cells(b) ==
    LET Value(i) == IF i \in DOMAIN List(b, "values") THEN List(b, "values")[i]
                    ELSE Empty
    IN CASE b.type = "table" ->
              List(b, "columns") \o FlattenSeq(List(b, "rows")) \o List(b, "footer")
         [] b.type = "list" -> List(b, "items")
         [] b.type = "keyvalue" ->
              FlatMap(LAMBDA p : <<p.key, p.value>>, List(b, "pairs"))
         [] b.type = "metric" -> <<Text(b, "label"), Text(b, "value")>>
         [] b.type = "chart" ->
              FlattenSeq([i \in DOMAIN List(b, "labels") |->
                             <<List(b, "labels")[i], Value(i)>>])
         [] OTHER -> <<>>

\* What encoding/csv reads back: a blank line is no record.
ReadBack(records) ==
    FlatMap(LAMBDA r : IF r \in {<<>>, <<Empty>>} THEN <<>> ELSE <<r>>, records)

\* An export has the document and nothing else, whether the document was run
\* for it, came back from a browser or is a client's own.  A CSV read back has
\* the cells of all tables, lists, pairs, metrics and charts in their order,
\* empty ones aside.  A PDF has the cells of all tables and pairs in rows on
\* the grid, in their order, and every such row fills the page exactly, unless
\* a table has more columns than the grid or a row other cells than its header.
\* A client's document is refused only for a block that cannot be read and that
\* the file would have shown: prose does not keep anybody from a CSV.
ExportIsDocument ==
    LET source == IF ask.via = "document" THEN ask.document ELSE doc
        NonEmpty(cells) == FlatMap(LAMBDA c : IF c = Empty THEN <<>> ELSE <<c>>, cells)
        CellsOnGrid(b) == IF b.type \in {"table", "keyvalue"} THEN Cells(b) ELSE <<>>
        GridCells(r) == IF r.kind = "grid" THEN r.cells ELSE <<>>
        Header(t) == Len(List(t, "columns"))
        Fits(t) == /\ Header(t) \in 1 .. GridSize
                   /\ \A r \in DOMAIN TableRecords(t) :
                        Len(TableRecords(t)[r]) = Header(t)
        AllFit == \A i \in DOMAIN source : source[i].type = "table" => Fits(source[i])
    IN /\ file # Absent =>
           /\ ask.format = "json" => file = source
           /\ ask.format = "csv" =>
                NonEmpty(FlattenSeq(ReadBack(file))) = NonEmpty(FlatMap(Cells, source))
           /\ ask.format = "pdf" =>
                /\ FlatMap(GridCells, file) = FlatMap(CellsOnGrid, source)
                /\ AllFit => \A i \in DOMAIN file : file[i].kind = "grid" =>
                      FoldLeft(+, 0, file[i].widths) = GridSize
       /\ ask.via = "document" /\ stage = "failed" =>
           \E b \in Range(source) :
              ~CanDecode(b) /\ (b.type \in Prose => ask.format = "pdf")

=============================================================================
