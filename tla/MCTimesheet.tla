---------------------------- MODULE MCTimesheet ----------------------------
(***************************************************************************)
(* Instances of Timesheet for TLC: days of three minutes of two seconds    *)
(* each.  The timesheet runs over every newest-first timeline of at most   *)
(* three events of two owners on three days and over windows of every      *)
(* shape, alone and in pairs; the other templates over a few timelines.    *)
(***************************************************************************)
EXTENDS Documents

MaxTS == 12

Event(t, o, r) == [ts |-> t, owner |-> o, repo |-> r, additions |-> t % 3,
                    deletions |-> 1]

\* Newest first, and an event may come twice.
Timelines(E) ==
    {<<>>} \cup {<<e>> : e \in E}
    \cup {s \in E \X E : s[1].ts >= s[2].ts}
    \cup {s \in E \X E \X E : s[1].ts >= s[2].ts /\ s[2].ts >= s[3].ts}

AllTimelines == Timelines({Event(t, o, o) : t \in 0 .. MaxTS, o \in 1 .. 2})
FewTimelines == Timelines({Event(t, o, r) : t \in {0, 5, 6}, o \in 1 .. 2, r \in 1 .. 2})

Window(s, e) == [start |-> s, end |-> e]
Minutes == 0 .. MinutesPerDay - 1

OneWindow == {<<Window(s, e)>> : s \in Minutes, e \in Minutes}

\* Side by side, over midnight and next to it, the same twice, overlapping.
TwoWindows == {<<Window(0, 1), Window(1, 2)>>, <<Window(2, 0), Window(0, 1)>>,
               <<Window(1, 2), Window(1, 2)>>, <<Window(2, 1), Window(0, 2)>>}

Forms == {[rate |-> 2, offHours |-> w] : w \in OneWindow \cup TwoWindows \cup {<<>>}}
             \cup {[rate |-> 2], [offHours |-> <<Window(2, 1)>>]}

Custom(steps, layout) ==
    [id |-> "custom", name |-> "custom", description |-> Empty, form |-> <<>>,
     transform |-> steps, layout |-> layout, exports |-> <<>>, model |-> "m",
     builtin |-> FALSE]

Step(name) == [name |-> name, params |-> Absent]
Block(type) == [type |-> type, source |-> Empty, params |-> Absent]

Stats(op) == <<[name |-> "group-by", params |-> [by |-> "day"]],
               [name |-> "aggregate", params |-> [op |-> op, field |-> "count"]],
               Step("passthrough")>>

\* With parameters of its own, some empty, and blocks without any.
Configured ==
    Custom(<<[name |-> "sessionize",
              params |-> [gapSeconds |-> 1, leadInSeconds |-> 0]],
             [name |-> "exclude-off-time",
              params |-> [offHours |-> <<Window(2, 1)>>]],
             [name |-> "split-by-active-days", params |-> EmptyObject],
             [name |-> "rate", params |-> [rate |-> 3]]>>,
           <<[type |-> "heading", source |-> Empty, params |-> EmptyObject],
             [type |-> "text", source |-> Empty, params |-> [markdown |-> "t"]],
             [type |-> "metric", source |-> "hours", params |-> [label |-> Empty]],
             TableOfRows>>)

Customs ==
    {Configured, Custom(Stats("avg"), <<Block("table")>>),
     Custom(Stats("min"), <<>>), Custom(Stats("max"), <<Block("chart")>>),
     Custom(Stats("median"), <<>>),
     Custom(<<Step("sessionize"), Step("sessionise")>>, <<>>),
     Custom(<<Step("group-by")>>, <<Block("list"), TableOfRows>>),
     Custom(<<>>, <<[type |-> "heading", source |-> Empty,
                     params |-> [level |-> Empty]]>>)}

Builtins == {ActivitySummary, CommitsPerRepo, WorkSessionsTimesheet}

TinyTimelines == Timelines({Event(t, o, o) : t \in {0, 6}, o \in 1 .. 2})

\* What a client asks for: just the document of a run, ...
JustRun(templates, timelines, forms) ==
    [template : templates, timeline : timelines, form : forms, copy : {Absent},
     via : {"http"}, format : {"none"}, document : {<<>>}]

\* ... a copy or an export or both, ...
Run(copies, vias, formats) ==
    [template : Customs \cup Builtins, timeline : TinyTimelines,
     form : {<<>>, [rate |-> 1]}, copy : copies, via : vias, format : formats,
     document : {<<>>}]

\* ... or the export of a document it made: blocks of all types, with fields
\* and cells that are empty or missing, prose, data and types that cannot be
\* read, and fields that the type does not have.
ClientBlocks ==
    {[type |-> "table", data |-> [columns |-> <<"a", "b">>,
        rows |-> <<<<1, 2>>, <<3, Empty>>>>, footer |-> <<4, 5>>]],
     [type |-> "table", data |-> [columns |-> <<"a">>, rows |-> <<<<Empty>>, <<1, 2>>>>]],
     [type |-> "table", data |-> [columns |-> <<1, 2, 3, 4, 5>>]],
     [type |-> "list", data |-> [items |-> <<"i", Empty, "j">>]],
     [type |-> "list", data |-> [ordered |-> TRUE, items |-> <<"i">>]],
     [type |-> "keyvalue", data |-> [pairs |-> <<[key |-> "k", value |-> 1]>>]],
     [type |-> "chart", data |-> [labels |-> <<"x", "y">>, values |-> <<1>>]],
     [type |-> "code", data |-> [content |-> "c"]],
     [type |-> "code", data |-> [content |-> NotText]],
     [type |-> "heading", data |-> [level |-> NotText, text |-> "h"]],
     [type |-> "text", data |-> [markdown |-> "t", rows |-> NotText]],
     [type |-> "metric", data |-> [label |-> "l", value |-> 1, items |-> NotText]],
     [type |-> "metric", data |-> Absent],
     [type |-> "metric", data |-> [label |-> NotText]],
     [type |-> "picture", data |-> EmptyObject]}

OfTheClient ==
    [template : {ActivitySummary}, timeline : {<<>>}, form : {<<>>},
     copy : {Absent}, via : {"document"}, format : {"csv", "pdf", "json", "xml"},
     document : {<<>>} \cup {<<b>> : b \in ClientBlocks}
                       \cup {<<b, c>> : b, c \in ClientBlocks}]

TimesheetInputs ==
    JustRun({WorkSessionsTimesheet}, AllTimelines, Forms)
    \cup JustRun({WorkSessionsTimesheet}, FewTimelines,
                 {[rate |-> 1, notWindows |-> TRUE]})
    \cup JustRun(Customs \cup Builtins, FewTimelines, {[rate |-> 1]})
    \cup Run({"mine", Empty}, {"http", "mcp"}, {"none"})
    \cup Run({Absent}, {"http", "export"}, {"csv", "pdf", "json", "xml"})
    \cup Run({"mine"}, {"http"}, {"csv", "pdf"})
    \cup OfTheClient

\* These are inputs that the theorems about runs and documents speak of.
ASSUME TimesheetInputsAsked ==
    TimelinesAsked /\ NumbersAsked /\ SessionizedOnce /\ ExcludedOnce /\ DocumentsAsked

=============================================================================
