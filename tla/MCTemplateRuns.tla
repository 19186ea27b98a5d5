-------------------------- MODULE MCTemplateRuns --------------------------
(***************************************************************************)
(* Instances of TemplateRuns for TLC.  Three commits on two days, pages of *)
(* one or two, two models of which one supports schemas, one built-in and  *)
(* one custom template.  A load says what one behaviour may contain, so    *)
(* that each kind of interference is explored without multiplying them.    *)
(***************************************************************************)
EXTENDS TemplateRuns, TLC

CONSTANTS r1, r2, e1, e2, e3, m1, m2, b1, c1, boot1, boot2

\* e3 is the newest; e1 and e2 are of one day.
Newest == (e3 :> 1) @@ (e2 :> 2) @@ (e1 :> 3)
Days   == (e1 :> 1) @@ (e2 :> 1) @@ (e3 :> 2)

\* e1 and e3 read alike; e2 has no title to speak of.
Titles == (e1 :> "add paging") @@ (e2 :> "wip") @@ (e3 :> "add paging")
Diffs  == (e1 :> <<"">>) @@ (e2 :> <<"a", "b">>) @@ (e3 :> <<"">>)

Everything == {Events}
OrOne == {Events, {e1, e3}}

DescribeStep(v) == [kind |-> "describe", version |-> v]
SchemaStep == [kind |-> "llm", schema |-> TRUE]
PlainStep  == [kind |-> "llm", schema |-> FALSE]

Body1 == <<DescribeStep("v1"), SchemaStep>>
Body2 == <<DescribeStep("v2")>>
Body3 == <<PlainStep>>
Body4 == <<[kind |-> "unknown"], DescribeStep("v1")>>

AllBodies == {Body1, Body2, Body3, Body4}
Releases == (boot1 :> (b1 :> Body1)) @@ (boot2 :> (b1 :> Body2))

Load(T, R, stores, changes, edits, B) ==
    [table |-> T, requests |-> R, stores |-> stores, changes |-> changes,
     edits |-> edits, boots |-> B]

\* Two requests and a change of model or a new commit; one request and a
\* timeline that grows; one request and templates that are edited; templates
\* that are edited while two releases start.
MixedLoads ==
    {Load({e1, e2}, {r1, r2}, 1, 0, 0, {boot1}),
     Load({e1, e2}, {r1, r2}, 0, 1, 0, {boot1}),
     Load({e1}, {r1}, 2, 1, 0, {boot1}),
     Load({}, {r1}, 3, 0, 0, {boot2}),
     Load({e2}, {r1}, 0, 0, 2, {boot1}),
     Load({}, {}, 0, 0, 3, {boot1, boot2})}

TwoRuns == {Load({e1}, {r1, r2}, 0, 1, 0, {boot2})}

=============================================================================
