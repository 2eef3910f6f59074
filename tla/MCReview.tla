------------------------------ MODULE MCReview ------------------------------
(* SpecReview over three algorithms (two of which store into one table, so   *)
(* are one unit), two drafts and seventeen records a reviewer may answer.     *)
EXTENDS SpecReview

MCAlgorithms ==
    [lookup |-> [mentions |-> {<<"algo">>, <<"param">>, <<"state">>}, writes |-> {}],
     update |-> [mentions |-> {<<"state">>}, writes |-> {<<"state">>}],
     complete |-> [mentions |-> {<<"state">>}, writes |-> {<<"state">>}]]

MCDrafts ==
    LET draft(total, added) ==
            [leaf |-> Default :> 1 @@ Bound :> 1 @@ Size :> 2 @@ Indexing :> 3
                      @@ Total :> total @@ Body :> 2,
             added |-> added, knobs |-> {}]
    IN {draft(2, {}), draft(1, {[complete |-> TRUE, recovers |-> TRUE]})}

Readers == {"lookup"}
Writers == {"update", "complete"}

silent == [asks |-> FALSE, choices |-> {}, declared |-> 0, evidence_ok |-> FALSE]
replace(at, value) == [op |-> "replace", at |-> at, value |-> value, says |-> {7}]
append(complete, recovers) ==
    [op |-> "add", at |-> NewAlgorithm, says |-> {},
     value |-> [complete |-> complete, recovers |-> recovers]]
correction(id, unit, at, value, quote, topic) ==
    [id |-> id, unit |-> unit, at |-> at, verdict |-> "CONTRADICTED",
     quote |-> quote, patch |-> replace(at, value), topic |-> topic] @@ silent
edit(id, unit, at, verdict, patch) ==
    [id |-> id, unit |-> unit, at |-> at, verdict |-> verdict, quote |-> "none",
     patch |-> patch, topic |-> "edit"] @@ silent
ambiguity(id, unit, at, choices, topic, declared) ==
    [id |-> id, unit |-> unit, at |-> at, verdict |-> "UNSUPPORTED",
     quote |-> "none", patch |-> None, topic |-> topic, asks |-> TRUE,
     choices |-> choices, declared |-> declared, evidence_ok |-> FALSE]

\* The ids follow the pointers, as the code sorts patches: algorithms,
\* parameters, resource_accounting, state, and appends last.
MCClaims ==
    {edit(1, Readers, Body, "UNDERSPECIFIED", replace(Body, Body :> 3)),
     edit(2, Readers, Body, "INCONSISTENT", replace(Body, Body :> 1)),
     ambiguity(3, Readers, Body, {"ge", "gt"}, "gate", 0),
     correction(4, Readers, <<"param">>, Bound :> 2, "verbatim", "knob"),
     correction(5, Readers, Default, Default :> 2, "verbatim", "span"),
     correction(6, Readers, Default, Default :> 2, "hedged", "span"),
     correction(7, Readers, Default, Default :> 3, "verbatim", "field"),
     edit(8, global, Total, "INCONSISTENT", replace(Total, Total :> 2)),
     edit(9, global, Total, "UNDERSPECIFIED", replace(Total, Total :> 3)),
     correction(10, Writers, <<"state">>, Size :> 3 @@ Indexing :> 1, "verbatim", "table"),
     ambiguity(11, Writers, <<"state">>, {"wrap", "clamp"}, "counter", 1),
     correction(12, Writers, Indexing, Indexing :> 1, "verbatim", "index"),
     correction(13, Readers, Size, Size :> 3, "verbatim", "size"),
     correction(14, Writers, Size, Size :> 1, "verbatim", "size"),
     edit(15, global, NewAlgorithm, "INCONSISTENT", append(TRUE, TRUE)),
     edit(16, coverage, NewAlgorithm, "UNDERSPECIFIED", append(FALSE, TRUE)),
     correction(17, Readers, Bound, Bound :> 0, "verbatim", "span")}
=============================================================================
