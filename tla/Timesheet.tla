----------------------------- MODULE Timesheet -----------------------------
(***************************************************************************)
(* One run of a template: internal/pkg/engine builds the pipeline of       *)
(* primitives the template names, runs it over the selected timeline, and  *)
(* renders the layout.  The seven deterministic primitives are those of    *)
(* internal/pkg/transform; the two that call an LLM are in LLMSteps.       *)
(* A run is one goroutine, so a step of the pipeline is a step here; what  *)
(* can go wrong is what the steps compute together.                        *)
(*                                                                         *)
(* Values of rows are float64 in the code.  Here they are integers in      *)
(* units of 1/Unit, and Unit is such that every division is exact.         *)
(***************************************************************************)
EXTENDS Integers, SequencesExt, TemplateWire

CONSTANTS
    Inputs,           \* the runs: [template, timeline, form] at least
    GapSeconds,       \* sessionize's gapSeconds
    LeadInSeconds,    \* and leadInSeconds
    SecondsPerMinute, \* exclude_off_time.go's constants
    MinutesPerDay,
    SecondsPerHour,   \* split_by_active_days.go's constant
    Unit              \* the number 1 as a row's value

ASSUME TimesheetAssumption ==
    /\ GapSeconds \in Nat /\ LeadInSeconds \in Nat
    /\ SecondsPerMinute \in Nat \ {0} /\ MinutesPerDay \in Nat \ {0}
    /\ SecondsPerHour \in Nat \ {0}
    /\ Unit \in Nat \ {0} /\ Unit % SecondsPerHour = 0

VARIABLES
    template,   \* its transform, a sequence of steps, and its layout
    timeline,   \* State.Timeline, in the order the store returned it
    form,       \* State.Form, a map of what the request filled in
    phase,      \* where Engine.Run is
    step,       \* the step of the pipeline that is next
    sessions,   \* State.Sessions
    rows,       \* State.Rows
    blocks,     \* State.Blocks
    doc         \* the document that is returned

inputVars == <<template, timeline, form>>
vars == <<inputVars, phase, step, sessions, rows, blocks, doc>>

\* What F makes of the elements of a sequence, one after the other.
FlatMap(F(_), s) == FlattenSeq([i \in DOMAIN s |-> F(s[i])])

\* A set of numbers in their order: the n-th has n - 1 below it.
Ascending(S) ==
    [n \in 1 .. Cardinality(S) |->
        CHOOSE x \in S : Cardinality({y \in S : y < x}) = n - 1]

SecondsPerDay == MinutesPerDay * SecondsPerMinute
Day(t) == t \div SecondsPerDay

\* A run of input i is about to begin.
Start(i) ==
    /\ template = i.template /\ timeline = i.timeline /\ form = i.form
    /\ phase = "build" /\ step = 1
    /\ sessions = <<>> /\ rows = <<>> /\ blocks = <<>> /\ doc = <<>>

-----------------------------------------------------------------------------
(* Templates.  A step and a layout block have parameters, a JSON object,   *)
(* or none; what is not given has a default.                               *)

Param(params, k, default) ==
    IF params = Absent THEN default
    ELSE IF k \notin DOMAIN params THEN default
    ELSE IF params[k] = Empty THEN default ELSE params[k]

Heading(text) == [type |-> "heading", source |-> Empty,
                  params |-> [level |-> 1, text |-> text]]

TableOfRows == [type |-> "table", source |-> "rows", params |-> Absent]

MetricOf(field, label, unit) == [type |-> "metric", source |-> field,
                                 params |-> [label |-> label, unit |-> unit]]

Builtin(id, name, fields, steps, layout) ==
    [id |-> id, name |-> name, description |-> "what it shows",
     form |-> fields, transform |-> steps, layout |-> layout,
     exports |-> <<"csv", "json", "pdf">>, model |-> Empty, builtin |-> TRUE]

ActivitySummary ==
    Builtin("builtin-activity-summary", "Activity summary", <<>>,
        <<[name |-> "group-by", params |-> [by |-> "owner"]],
          [name |-> "aggregate",
           params |-> [op |-> "sum", field |-> "count", key |-> "total"]]>>,
        <<Heading("Activity summary"), TableOfRows>>)

CommitsPerRepo ==
    Builtin("builtin-commits-per-repo", "Commits per repo", <<>>,
        <<[name |-> "group-by", params |-> [by |-> "repo"]],
          [name |-> "aggregate",
           params |-> [op |-> "sum", field |-> "additions",
                       key |-> "total-additions"]]>>,
        <<Heading("Commits per repo"), TableOfRows,
          MetricOf("count", "Total events", "events")>>)

WorkSessionsTimesheet ==
    Builtin("builtin-work-sessions-timesheet", "Work sessions timesheet",
        <<[key |-> "rate", label |-> "Hourly rate", type |-> "number",
           required |-> FALSE, default |-> 0]>>,
        <<[name |-> "sessionize", params |-> Absent],
          [name |-> "exclude-off-time", params |-> Absent],
          [name |-> "split-by-active-days", params |-> Absent],
          [name |-> "rate", params |-> Absent]>>,
        <<Heading("Work sessions timesheet"), TableOfRows,
          MetricOf("dollars", "Total dollars", "$")>>)

-----------------------------------------------------------------------------
(* Engine.Run: build every step, run every step, render. *)

Registered == {"sessionize", "exclude-off-time", "split-by-active-days",
               "group-by", "aggregate", "rate", "passthrough"}

\* The registry knows the name, and the factory accepts the parameters.
CanBuild(s) ==
    /\ s.name \in Registered
    /\ s.name = "aggregate" =>
         /\ Param(s.params, "field", Empty) # Empty
         /\ Param(s.params, "op", Empty) \in {"sum", "avg", "min", "max"}
    /\ s.name = "group-by" =>
         Param(s.params, "by", "owner") \in {"owner", "repo", "type", "branch", "day"}

\* Variant: a step is built when its turn comes.
FirstBuilds == template.transform = <<>> \/ CanBuild(Head(template.transform))

AllBuild == \A i \in DOMAIN template.transform : CanBuild(template.transform[i])

BuildPipeline ==
    /\ phase = "build"
    /\ phase' = IF AllBuild THEN "run" ELSE "failed"
    /\ UNCHANGED <<inputVars, step, sessions, rows, blocks, doc>>

\* The step that runs next is one of this name, and it is done.
Apply(name) ==
    /\ phase = "run"
    /\ step \in DOMAIN template.transform
    /\ template.transform[step].name = name
    /\ step' = step + 1
    /\ UNCHANGED <<inputVars, phase, doc>>

Params == template.transform[step].params

-----------------------------------------------------------------------------
(* sessionize. *)

\* The sorted copies of the timeline: sort.Slice leaves ties in any order.
SortedCopies ==
    {[i \in DOMAIN timeline |-> timeline[p[i]]] :
        p \in {q \in [DOMAIN timeline -> DOMAIN timeline] :
                 /\ \A i, j \in DOMAIN timeline : i # j => q[i] # q[j]
                 /\ \A i, j \in DOMAIN timeline :
                      i < j => timeline[q[i]].ts =< timeline[q[j]].ts}}

\* The owners of a timeline by first appearance.
Owners(tl) ==
    FoldLeft(LAMBDA os, e : IF Contains(os, e.owner) THEN os
                            ELSE Append(os, e.owner), <<>>, tl)

\* An owner's events, in the order of the timeline.
EventsOf(tl, o) ==
    FoldLeft(LAMBDA es, e : IF e.owner = o THEN Append(es, e) ELSE es, <<>>, tl)

\* Variant: the gap is measured from the start of the session.
LateInSession(e, session) == e.ts - session.start > Param(Params, "gapSeconds", GapSeconds)

\* e comes too late to belong to the session.
NewSession(e, session) == e.ts - session.end > Param(Params, "gapSeconds", GapSeconds)

\* The sessions of one owner's events: each event extends the last session
\* or begins the next one.
SessionizeOwner(evs) ==
    LET Begin(e) == [owner |-> e.owner, start |-> e.ts, end |-> e.ts, count |-> 1]
        Take(ss, e) ==
            IF ss = <<>> \/ NewSession(e, Last(ss))
            THEN Append(ss, Begin(e))
            ELSE [ss EXCEPT ![Len(ss)].end = e.ts, ![Len(ss)].count = @ + 1]
        WithDuration(s) == [owner |-> s.owner, start |-> s.start, end |-> s.end,
                            count |-> s.count,
                            duration |-> (s.end - s.start)
                                + Param(Params, "leadInSeconds", LeadInSeconds)]
        clusters == FoldLeft(Take, <<>>, evs)
    IN [i \in DOMAIN clusters |-> WithDuration(clusters[i])]

Sessionize ==
    /\ Apply("sessionize")
    /\ \E tl \in SortedCopies :
         LET OfOwner(o) == SessionizeOwner(EventsOf(tl, o))
         IN sessions' = sessions
                \o FlattenSeq([i \in DOMAIN Owners(tl) |-> OfOwner(Owners(tl)[i])])
    /\ UNCHANGED <<rows, blocks>>

-----------------------------------------------------------------------------
(* exclude-off-time. *)

\* The form's windows, or those of the step when the form has none.
ResolveOffHours == IF "offHours" \in DOMAIN form THEN form.offHours
                   ELSE Param(Params, "offHours", <<>>)

\* How long [start, end) and [lo, hi) overlap.
OverlapSeconds(start, end, lo, hi) ==
    LET l == Max({start, lo})
        h == Min({end, hi})
    IN IF h =< l THEN 0 ELSE h - l

\* Variant: of a window over midnight, what it takes of the morning is left out.
WindowOverlapHead(midnight, w, start, end) ==
    IF w.end > w.start
    THEN OverlapSeconds(start, end, midnight + w.start * SecondsPerMinute,
                        midnight + w.end * SecondsPerMinute)
    ELSE OverlapSeconds(start, end, midnight + w.start * SecondsPerMinute,
                        midnight + SecondsPerDay)

\* What window w takes of [start, end) on the day that begins at midnight; a
\* window over midnight takes the morning and the evening of every day.
WindowOverlap(midnight, w, start, end) ==
    LET from == midnight + w.start * SecondsPerMinute
        to   == midnight + w.end * SecondsPerMinute
    IN IF w.end > w.start
       THEN OverlapSeconds(start, end, from, to)
       ELSE OverlapSeconds(start, end, midnight, to)
            + OverlapSeconds(start, end, from, midnight + SecondsPerDay)

\* The sum over all windows and all days that begin before the end.
TotalOverlap(start, end, offHours) ==
    LET days == {d \in Day(start) .. Day(end) : d * SecondsPerDay < end}
    IN IF end =< start THEN 0
       ELSE MapThenSumSet(
                LAMBDA dw : WindowOverlap(dw[1] * SecondsPerDay,
                                          offHours[dw[2]], start, end),
                days \X DOMAIN offHours)

\* The form's windows are not what json.Unmarshal can read as windows.
Malformed == "notWindows" \in DOMAIN form

ExcludeOffTimeFails ==
    /\ phase = "run" /\ step \in DOMAIN template.transform
    /\ template.transform[step].name = "exclude-off-time"
    /\ Malformed
    /\ phase' = "failed"
    /\ UNCHANGED <<inputVars, step, sessions, rows, blocks, doc>>

NeverNegative(n) == Max({0, n})

ExcludeOffTime ==
    /\ Apply("exclude-off-time")
    /\ ~Malformed
    /\ sessions' =
         [i \in DOMAIN sessions |->
            [sessions[i] EXCEPT !.duration =
                NeverNegative(@ - TotalOverlap(sessions[i].start, sessions[i].end,
                                               ResolveOffHours))]]
    /\ UNCHANGED <<rows, blocks>>

-----------------------------------------------------------------------------
(* The primitives that make rows.  A row has a key and named values. *)

\* Variant: a day's last session replaces the others.
DaySecondsOfLast(d) ==
    LET ofDay == {i \in DOMAIN sessions : Day(sessions[i].start) = d}
    IN sessions[Max(ofDay)].duration

\* The durations of the sessions that start on day d.
DaySeconds(d) ==
    MapThenSumSet(LAMBDA i : sessions[i].duration,
                  {i \in DOMAIN sessions : Day(sessions[i].start) = d})

SplitByActiveDays ==
    /\ Apply("split-by-active-days")
    /\ LET days == Ascending({Day(sessions[i].start) : i \in DOMAIN sessions})
       IN rows' = [i \in DOMAIN days |->
                     [key |-> <<"day", days[i]>>,
                      values |-> [seconds |-> DaySeconds(days[i]) * Unit,
                                  hours |-> (DaySeconds(days[i]) * Unit)
                                                \div SecondsPerHour]]]
    /\ UNCHANGED <<sessions, blocks>>

\* The bucket of an event; names are numbers, in the order of their sorting.
BucketKey(by, e) == IF by = "day" THEN Day(e.ts) ELSE e[by]

GroupBy ==
    /\ Apply("group-by")
    /\ LET by     == Param(Params, "by", "owner")
           keys   == Ascending({BucketKey(by, timeline[i]) : i \in DOMAIN timeline})
           In(k)  == {i \in DOMAIN timeline : BucketKey(by, timeline[i]) = k}
           Total(F(_), k) == MapThenSumSet(LAMBDA i : F(timeline[i]), In(k)) * Unit
       IN rows' = [n \in DOMAIN keys |->
                     [key |-> <<by, keys[n]>>,
                      values |-> [count |-> Cardinality(In(keys[n])) * Unit,
                                  additions |-> Total(LAMBDA e : e.additions, keys[n]),
                                  deletions |-> Total(LAMBDA e : e.deletions, keys[n])]]]
    /\ UNCHANGED <<sessions, blocks>>

\* The rows that have the field, and their values.
Having(field) == {i \in DOMAIN rows : field \in DOMAIN rows[i].values}
SumOf(field) == MapThenSumSet(LAMBDA i : rows[i].values[field], Having(field))
ValuesOf(field) == {rows[i].values[field] : i \in Having(field)}

ComputeOpResult(op, field) ==
    IF Having(field) = {} THEN 0
    ELSE CASE op = "sum" -> SumOf(field)
           [] op = "avg" -> SumOf(field) \div Cardinality(Having(field))
           [] op = "min" -> Min(ValuesOf(field))
           [] op = "max" -> Max(ValuesOf(field))

Aggregate ==
    /\ Apply("aggregate")
    /\ rows' = Append(rows, [key |-> <<Param(Params, "key", "total"), 0>>,
                             values |-> [f \in {Params.field} |->
                                            ComputeOpResult(Params.op, f)]])
    /\ UNCHANGED <<sessions, blocks>>

ResolveRate == IF "rate" \in DOMAIN form THEN form.rate ELSE Param(Params, "rate", 0)

\* With the default fields: dollars are set wherever there are hours.
Rate ==
    /\ Apply("rate")
    /\ rows' = [i \in DOMAIN rows |->
                  IF i \notin Having("hours") THEN rows[i]
                  ELSE [rows[i] EXCEPT !.values =
                          [f \in DOMAIN @ \cup {"dollars"} |->
                             IF f = "dollars" THEN @.hours * ResolveRate ELSE @[f]]]]
    /\ UNCHANGED <<sessions, blocks>>

\* The blocks of a document: a type and the data that type has.
NewHeading(level, text) == [type |-> "heading",
                            data |-> [level |-> level, text |-> text]]
NewText(markdown) == [type |-> "text", data |-> [markdown |-> markdown]]
NewMetric(label, value, unit) ==
    [type |-> "metric", data |-> [label |-> label, value |-> value, unit |-> unit]]
NewTable(columns, cells) ==
    [type |-> "table", data |-> [columns |-> columns, rows |-> cells,
                                 footer |-> <<>>]]

\* The columns ts, type, title and url are left out: an event has them as it
\* has the others.
Passthrough ==
    /\ Apply("passthrough")
    /\ LET columns == <<"owner", "repo", "additions", "deletions">>
       IN blocks' = Append(blocks, NewTable(columns,
                        [i \in DOMAIN timeline |->
                            [c \in DOMAIN columns |-> timeline[i][columns[c]]]]))
    /\ UNCHANGED <<sessions, rows>>

-----------------------------------------------------------------------------
(* The layout. *)

\* The fields that primitives give rows, in the order of their sorting.
FieldNames == <<"additions", "count", "deletions", "dollars", "hours", "seconds">>

\* The block's type has a renderer, and its parameters are of the right types.
CanRender(block) ==
    /\ block.type \in {"table", "metric", "heading", "text"}
    /\ \/ block.type # "heading"
       \/ block.params = Absent
       \/ "level" \notin DOMAIN block.params
       \/ block.params.level # Empty

\* A table has the columns of all its rows, and 0 where a row has no value.
RenderTable ==
    LET fields == FlatMap(LAMBDA f : IF Having(f) = {} THEN <<>> ELSE <<f>>, FieldNames)
        Cell(i, f) == IF i \in Having(f) THEN rows[i].values[f] ELSE 0
    IN NewTable(<<"key">> \o fields,
                [i \in DOMAIN rows |->
                    <<rows[i].key>> \o [c \in DOMAIN fields |-> Cell(i, fields[c])]])

\* A metric sums its source over all rows, those that are totals included.
RenderMetric(block) ==
    NewMetric(Param(block.params, "label", block.source), SumOf(block.source),
              Param(block.params, "unit", Empty))

Render(block) ==
    CASE block.type = "table"   -> RenderTable
      [] block.type = "metric"  -> RenderMetric(block)
      [] block.type = "heading" -> NewHeading(Param(block.params, "level", 0),
                                              Param(block.params, "text", Empty))
      [] block.type = "text"    -> NewText(Param(block.params, "markdown", Empty))

\* A template without a layout shows the blocks its steps made, if any.
ApplyLayout ==
    /\ phase = "run" /\ step > Len(template.transform)
    /\ IF template.layout = <<>> /\ blocks # <<>>
       THEN phase' = "done" /\ doc' = blocks
       ELSE IF \A i \in DOMAIN template.layout : CanRender(template.layout[i])
       THEN /\ phase' = "done"
            /\ doc' = [i \in DOMAIN template.layout |-> Render(template.layout[i])]
       ELSE phase' = "failed" /\ UNCHANGED doc
    /\ UNCHANGED <<inputVars, step, sessions, rows, blocks>>

-----------------------------------------------------------------------------
(* What the properties below are stated for. *)

\* The events that the store returns.
EventRows == UNION {Range(i.timeline) : i \in Inputs}

\* A window is of minutes of a day.
Windows == [start : 0 .. MinutesPerDay, end : 0 .. MinutesPerDay]

\* Every event has a time, windows begin and end in the day, and neither a gap
\* nor a lead-in is a negative number.
TimelinesAsked ==
    /\ \A e \in EventRows : e.ts \in Int
    /\ \A i \in Inputs :
         /\ i.timeline \in Seq(EventRows)
         /\ "offHours" \in DOMAIN i.form => i.form.offHours \in Seq(Windows)
         /\ \A k \in DOMAIN i.template.transform :
              LET given == i.template.transform[k]
              IN /\ given.name = "exclude-off-time" =>
                      Param(given.params, "offHours", <<>>) \in Seq(Windows)
                 /\ given.name = "sessionize" =>
                      /\ Param(given.params, "gapSeconds", GapSeconds) \in Nat
                      /\ Param(given.params, "leadInSeconds", LeadInSeconds) \in Nat

\* Names and amounts are numbers, and so is a rate.
NumbersAsked ==
    /\ \A e \in EventRows :
         {e.owner, e.repo, e.additions, e.deletions} \subseteq Int
    /\ \A i \in Inputs : "rate" \in DOMAIN i.form => i.form.rate \in Int

\* A template has one step that makes sessions, at most.
SessionizedOnce ==
    \A i \in Inputs :
      LET steps == i.template.transform
          Is(k) == steps[k].name = "sessionize"
      IN \A k, l \in DOMAIN steps : Is(k) /\ Is(l) => k = l

\* It has one, at most, that excludes off-time, and that comes later.
ExcludedOnce ==
    \A i \in Inputs :
      LET steps == i.template.transform
          Is(k) == steps[k].name = "exclude-off-time"
      IN \A k, l \in DOMAIN steps :
           /\ Is(k) /\ Is(l) => k = l
           /\ steps[k].name = "sessionize" /\ Is(l) => k < l

-----------------------------------------------------------------------------
(* Properties. *)

\* The steps that are done are a prefix of the pipeline.
Done(name) == \E i \in 1 .. step - 1 : template.transform[i].name = name

\* What the step of this name was given.
Given(name, k, default) ==
    LET i == CHOOSE i \in DOMAIN template.transform : template.transform[i].name = name
    IN Param(template.transform[i].params, k, default)

\* sessionize cuts each owner's time exactly where nothing happened for longer
\* than the gap: a session begins at an event with no other event of its owner
\* in the gap before it, ends at the first such event with none in the gap
\* after it, counts what lies between, and there is no other session.
SessionsAreClusters ==
    Done("sessionize") =>
        LET gap == Given("sessionize", "gapSeconds", GapSeconds)
            TimesOf(o) == {timeline[i].ts : i \in {j \in DOMAIN timeline :
                                                     timeline[j].owner = o}}
            Starts(o) == {t \in TimesOf(o) :
                            \A u \in TimesOf(o) : u < t => t - u > gap}
            Ends(o)   == {t \in TimesOf(o) :
                            \A u \in TimesOf(o) : u > t => u - t > gap}
            Within(o, a, b) == {i \in DOMAIN timeline :
                                  /\ timeline[i].owner = o
                                  /\ timeline[i].ts \in a .. b}
            Expected == UNION {{[owner |-> o, start |-> a,
                                 end |-> Min({b \in Ends(o) : a =< b})] :
                                    a \in Starts(o)} :
                               o \in {timeline[i].owner : i \in DOMAIN timeline}}
        IN /\ {[owner |-> sessions[i].owner, start |-> sessions[i].start,
                end |-> sessions[i].end] : i \in DOMAIN sessions} = Expected
           /\ Len(sessions) = Cardinality(Expected)
           /\ \A i \in DOMAIN sessions :
                sessions[i].count = Cardinality(Within(sessions[i].owner,
                                        sessions[i].start, sessions[i].end))

\* Second t of the clock lies in window w, which may go over midnight.
Off(t, w) ==
    LET m == (t % SecondsPerDay) \div SecondsPerMinute
    IN IF w.start < w.end THEN w.start =< m /\ m < w.end
       ELSE w.start =< m \/ m < w.end

\* exclude-off-time leaves of a session its lead-in and the seconds that lie in
\* no window, whatever days and midnights it touches.  Where windows overlap
\* each other the code takes the common part off twice: then the session has
\* at most that.
OffTimeExact ==
    Done("exclude-off-time") =>
        LET offHours == IF "offHours" \in DOMAIN form THEN form.offHours
                        ELSE Given("exclude-off-time", "offHours", <<>>)
            Disjoint == \A t \in 0 .. SecondsPerDay - 1, i, j \in DOMAIN offHours :
                            Off(t, offHours[i]) /\ Off(t, offHours[j]) => i = j
            Working(s) == {t \in s.start .. s.end - 1 :
                             \A i \in DOMAIN offHours : ~Off(t, offHours[i])}
            Left(s) == Given("sessionize", "leadInSeconds", LeadInSeconds)
                         + Cardinality(Working(s))
        IN \A i \in DOMAIN sessions :
             /\ sessions[i].duration =< Left(sessions[i])
             /\ Disjoint => sessions[i].duration = Left(sessions[i])

\* The run is of a built-in template, or of a copy of it.
Runs(t) == template.transform = t.transform /\ template.layout = t.layout

\* The document of a built-in template adds up, although a total is a row like
\* the others and a metric sums all rows: the timesheet's dollars are the rate
\* times all sessions' hours, with one row for each day on which one starts;
\* the summary's total is the number of events; the number of events and the
\* additions of "commits per repo" are those of the timeline.
BuiltinTotals ==
    phase = "done" =>
        LET Metric == doc[3].data.value
            Table == doc[2].data
            Column(f) == CHOOSE c \in DOMAIN Table.columns : Table.columns[c] = f
            Total(f) == Last(Table.rows)[Column(f)]
            AllSeconds == MapThenSumSet(LAMBDA i : sessions[i].duration,
                                        DOMAIN sessions)
            AllAdditions == MapThenSumSet(LAMBDA i : timeline[i].additions,
                                          DOMAIN timeline)
            FormRate == IF "rate" \in DOMAIN form THEN form.rate ELSE 0
        IN /\ Runs(WorkSessionsTimesheet) =>
                /\ Metric * SecondsPerHour = AllSeconds * FormRate * Unit
                /\ {Table.rows[i][1][2] : i \in DOMAIN Table.rows} =
                     {Day(sessions[i].start) : i \in DOMAIN sessions}
                /\ \A i, j \in DOMAIN Table.rows :
                     i < j => Table.rows[i][1][2] < Table.rows[j][1][2]
           /\ Runs(ActivitySummary) => Total("count") = Len(timeline) * Unit
           /\ Runs(CommitsPerRepo) =>
                /\ Metric = Len(timeline) * Unit
                /\ Total("additions") = AllAdditions * Unit

\* A step that cannot be built fails the whole run before any step has run, so
\* that a template is never half applied.
BadStepStopsAll ==
    (\E i \in DOMAIN template.transform : ~CanBuild(template.transform[i]))
    => /\ phase \in {"build", "failed"}
       /\ step = 1 /\ sessions = <<>> /\ rows = <<>> /\ blocks = <<>> /\ doc = <<>>

=============================================================================
