----------------------------- MODULE SpecReview -----------------------------
(***************************************************************************)
(* Stage 1's review of a distilled feature spec (loop/spec_review.py, with *)
(* the checks of loop/spec_checks.py it counts by).                        *)
(*                                                                         *)
(* Each round cuts the spec into units, gives every unit to a reviewer of  *)
(* its own (and the whole spec to a coverage reviewer), and lets code      *)
(* decide which of the patches that come back survive.  The reviewers are  *)
(* the environment: a call fails, or answers with records from Claims.     *)
(* What is modelled is the applier: which record may carry a patch, what   *)
(* two patches of one field do to each other, the three ways a landed      *)
(* patch is taken out again, the gate on the round, and when to stop.      *)
(*                                                                         *)
(* The spec is cut down to the fields those rules tell apart: one          *)
(* parameter with its range, one state entry, the storage total, one       *)
(* algorithm's text.  A text is its length; a pointer is a sequence.       *)
(***************************************************************************)
EXTENDS Integers, Sequences, FiniteSets, SequencesExt, TLC

CONSTANTS
    Algorithms,    \* algorithm -> [mentions: elements, writes: state entries]
    Claims,        \* the records a reviewer may answer with
    MaxRecords,    \* bound: records in all the replies of a review
    MaxFailures,   \* bound: calls of a review that fail
    Drafts,        \* the specs the distiller may hand over
    Rounds,        \* constants.REVIEW_ROUNDS
    MaxPromoted,   \* constants.REVIEW_MAX_PROMOTED
    FieldSteps,    \* steps the field that stores the parameter can count
    FeatureBudget, \* the bits the paper allots this feature
    None           \* no patch

ASSUME ReviewAssumption ==
    /\ Rounds \in Nat \ {0}
    /\ MaxPromoted \in Nat
    /\ MaxRecords \in Nat
    /\ MaxFailures \in Nat

Default == <<"param", "default">>
Bound == <<"param", "range">>
Size == <<"state", "size_bits">>
Indexing == <<"state", "indexing">>
Total == <<"acct", "total_storage_bits">>
Body == <<"algo", "pseudocode">>

Leaves == {Default, Bound, Size, Indexing, Total, Body}
Texts == {Indexing, Body}
Required == Leaves \ {Indexing}
Elements == {<<"param">>, <<"state">>, <<"algo">>}
NewAlgorithm == <<"algorithms", "-">>
NewParameter == <<"parameters", "-">>
Pointers == Leaves \cup Elements \cup {<<"acct">>, NewAlgorithm, NewParameter}

\* Values for some of these fields.
fills(f, fields) == DOMAIN f \subseteq fields /\ f \in [DOMAIN f -> Nat]

overlaps(p, q) == IsPrefix(p, q) \/ IsPrefix(q, p)

is_append(p) == p \in {NewAlgorithm, NewParameter}

\* _element_pointer: where a question about a pointer is kept.
element(p) == IF <<p[1]>> \in Elements THEN <<p[1]>> ELSE p

\* _enclosing_object: the object whose fields contradict each other.  An array
\* is not one.
enclosing(p) == IF is_append(p) THEN p ELSE <<p[1]>>

\* A draft has passed validate_spec (adopt_a_paper_loop.distill), and no knob
\* of its own is one the review minted.
ASSUME DraftsAssumption ==
    \A d \in Drafts :
        /\ DOMAIN d = {"leaf", "added", "knobs"}
        /\ fills(d.leaf, Leaves) /\ Required \subseteq DOMAIN d.leaf
        /\ IsFiniteSet(d.added) /\ (\A a \in d.added : a.complete)
        /\ d.knobs = {}

\* What a reviewer may send: a patch gives fields under its pointer, and an
\* "add" makes a new one.  (ptr_apply inserts when "add" names an element of an
\* array, which renumbers those behind it: left out.)
ASSUME ClaimsAssumption ==
    \A r \in Claims :
        /\ DOMAIN r = {"id", "unit", "at", "verdict", "quote", "patch", "topic",
                       "asks", "choices", "declared", "evidence_ok"}
        /\ r.id \in Nat /\ r.declared \in Nat
        /\ r.patch # None =>
              /\ r.patch.at \in Pointers /\ r.patch.op \in {"replace", "add"}
              /\ r.patch.op = "add" => r.patch.at \in Leaves \/ is_append(r.patch.at)
              /\ ~is_append(r.patch.at) =>
                    fills(r.patch.value, {p \in Leaves : IsPrefix(r.patch.at, p)})
              /\ r.patch.at \in Leaves => r.patch.at \in DOMAIN r.patch.value

\* Patches are told apart by an id, which follows the order of their pointers:
\* an object before its fields (_apply_to sorts by them).
ASSUME OrderAssumption ==
    \A r, q \in Claims :
        /\ r.id = q.id => r = q
        /\ /\ r.patch # None /\ q.patch # None
           /\ IsPrefix(r.patch.at, q.patch.at) /\ r.patch.at # q.patch.at
           => r.id < q.id

-----------------------------------------------------------------------------
(* The review units.                                                       *)

\* partition, _written_state, _merge_units: algorithms that store into one
\* state entry are reviewed together, and so on through the entries they share.
closed(S) ==
    \A a \in S, b \in DOMAIN Algorithms :
        Algorithms[a].writes \cap Algorithms[b].writes # {} => b \in S
together(a) ==
    {b \in DOMAIN Algorithms :
        \A S \in SUBSET DOMAIN Algorithms : a \in S /\ closed(S) => b \in S}

orphans ==
    {<<"param">>, <<"state">>}
        \ UNION {Algorithms[a].mentions : a \in DOMAIN Algorithms}

coverage == {"coverage"}
global == {"global"}
orphan == {"orphan"}

partition ==
    {together(a) : a \in DOMAIN Algorithms}
        \cup {global} \cup (IF orphans = {} THEN {} ELSE {orphan})

\* ReviewUnit.owns: what lies under an element of the unit, and the array it
\* may append to.
unit_owns(u, p) ==
    CASE u = global -> p = NewAlgorithm \/ IsPrefix(<<"acct">>, p)
      [] u = orphan -> \E e \in orphans : IsPrefix(e, p)
      [] OTHER -> \/ p = NewParameter
                  \/ \E a \in u : \E e \in Algorithms[a].mentions :
                        ~is_append(p) /\ IsPrefix(e, p)

-----------------------------------------------------------------------------
(* The deterministic checks.                                               *)

has(doc, p) == p \in DOMAIN doc.leaf

\* _check_parameters: outside the range, or larger than its field can count.
param_range(doc) ==
    has(doc, Bound) /\ ~(has(doc, Default) /\ doc.leaf[Default] <= doc.leaf[Bound])
unrepresentable(doc) == has(doc, Default) /\ doc.leaf[Default] > FieldSteps

\* _check_storage, its first comparison.
storage_sum(doc) ==
    has(doc, Size) /\ has(doc, Total) /\ doc.leaf[Size] # doc.leaf[Total]

\* _check_recovery: speculative state and no algorithm that unwinds it.
missing_recovery(doc) == \A a \in doc.added : ~a.recovers

\* run_checks: the errors, as the (code, pointer) pairs new_errors keys by.
found(test, code, at) == IF test THEN {[code |-> code, at |-> at]} ELSE {}
errors(doc) ==
    found(param_range(doc), "param_range", Default)
    \cup found(unrepresentable(doc), "unrepresentable_default", Default)
    \cup found(storage_sum(doc), "storage_sum", Total)
    \cup found(missing_recovery(doc), "missing_recovery_algorithm", NewAlgorithm)

\* _check_storage, feature_budget_fit against the figure the spec states.
warnings(doc) == IF has(doc, Total) /\ doc.leaf[Total] > FeatureBudget THEN 1 ELSE 0

new_errors(before, after) == errors(after) \ errors(before)

is_worse(before, after) ==
    LET b == Cardinality(errors(before))
        a == Cardinality(errors(after))
    IN \/ a > b
       \/ new_errors(before, after) # {}
       \/ a = b /\ warnings(after) > warnings(before)

\* _schema_errors (helpers.validate_spec): a field the schema requires is gone,
\* or an appended algorithm lacks one.
schema_errors(doc) ==
    (Required \ DOMAIN doc.leaf) \cup {a \in doc.added : ~a.complete}

-----------------------------------------------------------------------------
(* Records, and the evidence they cite.                                    *)

\* Mutant: a quote from a passage the source itself hedges is evidence.
verify_evidence_AnyQuote(r) ==
    LET judged == r.verdict \in {"SUPPORTED", "CONTRADICTED"}
        ok == judged /\ r.quote \in {"verbatim", "hedged"}
    IN IF ok \/ ~judged
       THEN [r EXCEPT !.evidence_ok = ok]
       ELSE [r EXCEPT !.verdict = "UNSUPPORTED", !.patch = None,
                      !.asks = r.asks \/ r.quote # "misquoted"]

\* verify_evidence: a quote that cannot be found, or that the source hedges,
\* demotes its record: no patch, and a question instead, unless the source
\* does print the claim elsewhere ("misquoted").
verify_evidence(r) ==
    LET judged == r.verdict \in {"SUPPORTED", "CONTRADICTED"}
        ok == judged /\ r.quote = "verbatim"
    IN IF ok \/ ~judged
       THEN [r EXCEPT !.evidence_ok = ok]
       ELSE [r EXCEPT !.verdict = "UNSUPPORTED", !.patch = None,
                      !.asks = r.asks \/ r.quote # "misquoted"]

first(S) == CHOOSE r \in S : \A q \in S : r.id <= q.id

-----------------------------------------------------------------------------
(* Applying patches.                                                       *)

\* _apply_to, ptr_apply: replaces first and adds last, by pointer, so the last
\* one that reaches a field decides it.
reaches(r, p) == ~is_append(r.patch.at) /\ IsPrefix(r.patch.at, p)
later(r, q) ==
    \/ r.patch.op = "add" /\ q.patch.op = "replace"
    \/ r.patch.op = q.patch.op /\ r.id >= q.id
apply_to(doc, S) ==
    LET writers == [p \in Leaves |-> {r \in S : reaches(r, p)}]
        last == [p \in {q \in Leaves : writers[q] # {}} |->
                    (CHOOSE r \in writers[p] : \A q \in writers[p] : later(r, q)).patch.value]
        kept == {p \in Leaves : IF p \in DOMAIN last THEN p \in DOMAIN last[p] ELSE has(doc, p)}
    IN [doc EXCEPT
          !.leaf = [p \in kept |-> IF p \in DOMAIN last THEN last[p][p] ELSE doc.leaf[p]],
          !.added = @ \cup {r.patch.value : r \in {q \in S : is_append(q.patch.at)}}]

\* regressions: detail of the old spec the new one does not have.
regressions(old, new) ==
    {p \in DOMAIN old.leaf :
        \/ ~has(new, p)
        \/ p \in Texts /\ 10 * new.leaf[p] < 4 * old.leaf[p]}

\* uncovered_regressions: not explained by a patch at exactly that pointer.
uncovered_regressions(old, new, S) ==
    {p \in regressions(old, new) : \A r \in S : r.patch.at # p}

\* _self_consistency_scope: the flagged pointers and the objects around them.
self_consistency_scope(doc) ==
    UNION {{e.at, enclosing(e.at)} : e \in errors(doc)}

patches(records) == {r \in records : r.patch # None}

\* Mutant: an INCONSISTENT patch may act wherever its reviewer reads.
admissible_Anywhere(doc, r) ==
    /\ r.verdict \in {"CONTRADICTED", "UNDERSPECIFIED", "INCONSISTENT"}
    /\ r.verdict = "CONTRADICTED" => r.evidence_ok
    /\ r.unit # coverage => unit_owns(r.unit, r.patch.at)
    /\ r.patch.op = "replace" /\ Len(r.patch.at) = 2 => has(doc, r.patch.at)
    /\ is_append(r.patch.at) => r.patch.value.complete

\* apply_patches, the loop over the records, up to the length rules.  A
\* coverage record finds no unit in by_unit, so nothing bounds what it may
\* replace.
admissible(doc, r) ==
    /\ r.verdict \in {"CONTRADICTED", "UNDERSPECIFIED", "INCONSISTENT"}
    /\ r.verdict = "CONTRADICTED" => r.evidence_ok
    /\ r.verdict = "INCONSISTENT" =>
          \E p \in self_consistency_scope(doc) : overlaps(r.patch.at, p)
    /\ r.unit # coverage => unit_owns(r.unit, r.patch.at)
    /\ r.patch.op = "replace" /\ Len(r.patch.at) = 2 => has(doc, r.patch.at)
    /\ is_append(r.patch.at) => r.patch.value.complete

\* Its length rules: UNDERSPECIFIED adds detail to a text, and no verdict cuts
\* one down.  Only a replaced text is measured.
replaces_text(r) == r.patch.op = "replace" /\ r.patch.at \in Texts
shortens(doc, r) ==
    /\ replaces_text(r) /\ r.verdict = "UNDERSPECIFIED"
    /\ r.patch.value[r.patch.at] <= doc.leaf[r.patch.at]
cuts(doc, r) ==
    /\ replaces_text(r)
    /\ 10 * r.patch.value[r.patch.at] < 4 * doc.leaf[r.patch.at]

candidates(doc, records) ==
    {r \in patches(records) :
        admissible(doc, r) /\ ~shortens(doc, r) /\ ~cuts(doc, r)}

\* _agreeing_value: texts that assert the same numbers are one statement, and
\* the richest of them, in the longest wording, speaks for all.
agreeing(G) ==
    LET widest == {r \in G : \A q \in G : q.patch.says \subseteq r.patch.says}
        longest == {r \in widest : \A q \in widest :
                       r.patch.value[r.patch.at] >= q.patch.value[q.patch.at]}
    IN IF \A r \in G : r.patch.at \in Texts /\ r.patch.says # {}
       THEN longest ELSE {}

\* apply_patches, the grouping by pointer: one value stands, agreeing values
\* leave their winner, and of a disagreement nothing is applied.  Equal appends
\* are one append.
rivals(r, S) == {q \in S : q.patch.at = r.patch.at}
unanimous(r, S) == \A q \in rivals(r, S) : q.patch.value = r.patch.value
merged(S) ==
    {r \in S :
        IF is_append(r.patch.at) \/ unanimous(r, S)
        THEN r = first({q \in rivals(r, S) : q.patch.value = r.patch.value})
        ELSE LET winners == agreeing(rivals(r, S))
             IN winners # {} /\ r = first(winners)}

\* A twin of an applied patch is neither applied nor rejected.
twins(S) == {r \in S \ merged(S) : ~is_append(r.patch.at) /\ unanimous(r, S)}

disputed(S) == {r \in S : ~is_append(r.patch.at) /\ rivals(r, S) \cap merged(S) = {}}

\* The greedy loop of the next two: the first culprit goes, until the round is
\* clean.  With nobody left to blame, every patch is put back.
dropping(S, clean, blamed) ==
    LET kept[K \in SUBSET S] ==
            IF K \in clean THEN K
            ELSE IF blamed[K] = {} THEN S
            ELSE kept[K \ {first(blamed[K])}]
    IN kept[S]

\* _drop_schema_breaking_patches: to blame is a patch whose removal leaves the
\* fewest errors, and fewer than there are.
schema_kept(doc, S) ==
    LET count(K) == Cardinality(schema_errors(apply_to(doc, K)))
        best(K) == {r \in K : /\ count(K \ {r}) < count(K)
                              /\ \A q \in K : count(K \ {r}) <= count(K \ {q})}
    IN dropping(S, {K \in SUBSET S : count(K) = 0}, [K \in SUBSET S |-> best(K)])

\* _drop_laundering_patches: a loss is blamed on a patch that encloses it.
laundering_kept(doc, S) ==
    LET lost(K) == uncovered_regressions(doc, apply_to(doc, K), K)
        blamed(K) == {r \in K : \E p \in lost(K) : IsPrefix(r.patch.at, p)}
    IN dropping(S, {K \in SUBSET S : lost(K) = {}}, [K \in SUBSET S |-> blamed(K)])

\* _couple_param_ranges: a range follows a default that is otherwise sound.
coupled(before, doc) ==
    IF /\ \E e \in new_errors(before, doc) : e.code = "param_range"
       /\ ~unrepresentable(doc)
       /\ has(doc, Default)
    THEN [doc EXCEPT !.leaf[Bound] = doc.leaf[Default]]
    ELSE doc

\* settled, of _drop_regressing_patches: the widened spec only when it leaves
\* the round without a new error.
settled(before, doc) ==
    IF new_errors(before, coupled(before, doc)) = {} THEN coupled(before, doc) ELSE doc

\* Mutant: a round with a new error loses every patch.
regressing_kept_None(doc, S) ==
    IF new_errors(doc, settled(doc, apply_to(doc, S))) = {} THEN S ELSE {}

\* _drop_regressing_patches: without the patches in the objects the new errors
\* are about, if that leaves fewer of them.
regressing_kept(doc, S) ==
    LET outcome(K) == settled(doc, apply_to(doc, K))
        introduced(K) == new_errors(doc, outcome(K))
        culprits == {r \in S : \E e \in introduced(S) :
                        overlaps(r.patch.at, enclosing(e.at))}
    IN IF Cardinality(introduced(S \ culprits)) < Cardinality(introduced(S))
       THEN S \ culprits ELSE S

\* apply_patches: of the patches it tries, those that land.
landing(doc, tried) ==
    regressing_kept(doc, laundering_kept(doc, schema_kept(doc, merged(tried))))

-----------------------------------------------------------------------------
(* Questions and knobs.                                                    *)

question(r) ==
    <<element(IF r.patch = None THEN r.at ELSE r.patch.at), r.topic>>

\* apply_patches: a field a reviewer wanted to cut.  The question goes into the
\* spec the round started from, so it outlives a rejected round.
cut_questions(doc, records) ==
    {question(r) : r \in {q \in patches(records) :
        admissible(doc, q) /\ ~shortens(doc, q) /\ cuts(doc, q)}}

\* Mutant: a correction that was taken out again is forgotten.
refused_questions_Disputes(records, tried, standing) ==
    {question(r) : r \in disputed(tried)}

\* apply_patches, its last two loops: a dispute is a question, and so is a
\* correction with a verified quote that did not land.
refused_questions(records, tried, standing) ==
    {question(r) : r \in disputed(tried) \cup
        {q \in patches(records) \ standing : q.verdict = "CONTRADICTED" /\ q.evidence_ok}}

unsupported(records) == {r \in records : r.verdict = "UNSUPPORTED"}

\* What may become a knob by its place and its candidates: a choice between
\* literals, about behaviour the host compiles.
is_choice(r) == r.at[1] \in {"algo", "algorithms", "state"} /\ Cardinality(r.choices) >= 2

\* promote_unsupported, its questions.
unsupported_questions(records) ==
    {question(r) : r \in {q \in unsupported(records) :
        \/ q.asks
        \/ q.choices # {} /\ q.at[1] \notin {"param", "parameters"} /\ ~is_choice(q)}}

\* _duplicates_existing_knob and _raised_against_a_parameter: the question
\* names the parameter, or another reviewer filed it there.
about_a_parameter(r, records) ==
    \/ r.topic = "param"
    \/ \E q \in unsupported(records) \ {r} : q.at[1] = "param" /\ q.topic = r.topic

promotable(records) ==
    {r \in unsupported(records) : is_choice(r) /\ ~about_a_parameter(r, records)}

\* _promotion_rank: the source's own doubt, then a check's, then consensus.
promotion_rank(r, doc, records) ==
    LET flagged == {element(e.at) : e \in errors(doc)}
        alike == {q \in unsupported(records) : q.choices = r.choices}
    IN <<r.declared, IF element(r.at) \in flagged THEN 1 ELSE 0, Cardinality(alike)>>

outranks(r, q, doc, records) ==
    LET a == promotion_rank(r, doc, records)
        b == promotion_rank(q, doc, records)
    IN \/ a[1] > b[1]
       \/ a[1] = b[1] /\ a[2] > b[2]
       \/ a[1] = b[1] /\ a[2] = b[2] /\ a[3] > b[3]
       \/ a = b /\ r.id <= q.id

\* Mutant: the cap counts the knobs of this round only.
offered_PerRound(r, got, doc) ==
    IF \/ Cardinality(got) >= MaxPromoted
       \/ \E k \in got : k.choices = r.choices
       \/ \E k \in got \cup doc.knobs : k.topic = r.topic
    THEN got
    ELSE got \cup {[choices |-> r.choices, topic |-> r.topic]}

\* promote_unsupported, the second loop: a cap that counts the knobs of every
\* round, one per choice in a round, one per question ever.
offered(r, got, doc) ==
    IF \/ Cardinality(got) + Cardinality(doc.knobs) >= MaxPromoted
       \/ \E k \in got : k.choices = r.choices
       \/ \E k \in got \cup doc.knobs : k.topic = r.topic
    THEN got
    ELSE got \cup {[choices |-> r.choices, topic |-> r.topic]}

\* Best first: the worst of them is offered after all the others.
minted(before, doc, records) ==
    LET worst(K) == CHOOSE x \in K : \A q \in K : outranks(q, x, before, records)
        mint[K \in SUBSET promotable(records)] ==
            IF K = {} THEN {} ELSE offered(worst(K), mint[K \ {worst(K)}], doc)
    IN mint[promotable(records)]

-----------------------------------------------------------------------------
VARIABLES
    spec,       \* the spec: its fields, appended algorithms and minted knobs
    questions,  \* its open_questions, as <<element, topic>>
    retry,      \* retry_only: the units the round is a retry of, {} for none
    waiting,    \* the calls of the round that have not come back
    records,    \* the records of the calls that have
    failed,     \* failed_units
    exhausted,  \* quota_exhausted
    rounds,     \* summary["rounds"]: units, failed units, accepted
    pc,         \* "review" or "done"
    heard,      \* history: the units of which a call was ever answered
    spent       \* how much of MaxRecords and MaxFailures is used up

vars == <<spec, questions, retry, waiting, records, failed, exhausted, rounds,
          pc, heard, spent>>

\* review_spec: the calls of a round.  A retry skips the units that answered,
\* and coverage unless coverage is what failed; a retry of coverage alone finds
\* no unit of that name and reviews them all.
units_of(again) ==
    IF again \cap partition = {} THEN partition ELSE again \cap partition
calls_of(again) ==
    units_of(again) \cup (IF again = {} \/ coverage \in again THEN {coverage} ELSE {})

Init ==
    /\ spec \in Drafts
    /\ questions = {}
    /\ retry = {} /\ waiting = calls_of({})
    /\ records = {} /\ failed = {} /\ exhausted = FALSE
    /\ rounds = <<>> /\ pc = "review" /\ heard = {}
    /\ spent = [records |-> 0, failures |-> 0]

\* The loop over jobs: calls run side by side and are collected in the order
\* they were sent, coverage last.
rank(u) == CASE u = coverage -> 3 [] u = orphan -> 2 [] u = global -> 1 [] OTHER -> 0
collected == CHOOSE u \in waiting : \A v \in waiting : rank(u) <= rank(v)

\* collect_llm and parse_records.
Answers(u) ==
    /\ pc = "review" /\ waiting # {} /\ u = collected
    /\ \E S \in SUBSET {r \in Claims : r.unit = u} :
          /\ IsFiniteSet(S)
          /\ spent.records + Cardinality(S) <= MaxRecords
          /\ records' = records \cup S
          /\ spent' = [spent EXCEPT !.records = @ + Cardinality(S)]
    /\ waiting' = waiting \ {u}
    /\ heard' = heard \cup {u}
    /\ UNCHANGED <<spec, questions, retry, failed, exhausted, rounds, pc>>

\* A backend failure (also as SystemExit), or an account that has run dry.
Fails(u) ==
    /\ pc = "review" /\ waiting # {} /\ u = collected
    /\ spent.failures < MaxFailures
    /\ spent' = [spent EXCEPT !.failures = @ + 1]
    /\ waiting' = waiting \ {u}
    /\ failed' = failed \cup {u}
    /\ exhausted' \in {exhausted, TRUE}
    /\ UNCHANGED <<spec, questions, retry, records, rounds, pc, heard>>

\* review_spec: why a round is discarded.
reject_reason(doc, standing, candidate) ==
    \/ schema_errors(candidate) # {}
    \/ uncovered_regressions(doc, candidate, standing) # {}
    \/ is_worse(doc, candidate)
    \/ /\ \E r \in standing : r.verdict = "INCONSISTENT"
       /\ Cardinality(errors(candidate)) >= Cardinality(errors(doc))

\* verify_evidence, apply_patches, promote_unsupported and the gate: what the
\* records make of the spec and of its questions.  A rejected round leaves the
\* spec as it was, but for the questions apply_patches put into it.
round(doc, replies) ==
    LET said == {verify_evidence(r) : r \in replies}
        tried == candidates(doc, said)
        landed == landing(doc, tried)
        standing == landed \cup twins(tried)
        revised == settled(doc, apply_to(doc, landed))
        knobs == minted(doc, revised, said)
        candidate == [revised EXCEPT !.knobs = @ \cup knobs]
        rejected == reject_reason(doc, standing, candidate)
        asked == refused_questions(said, tried, standing) \cup unsupported_questions(said)
    IN [spec |-> IF rejected THEN doc ELSE candidate,
        asked |-> cut_questions(doc, said) \cup (IF rejected THEN {} ELSE asked),
        rejected |-> rejected,
        progress |-> standing # {} \/ knobs # {}]

\* review_spec: a round that is in, and whether another follows.
Judge ==
    /\ pc = "review" /\ waiting = {}
    /\ \E result \in {round(spec, records)} :
          /\ spec' = result.spec
          /\ questions' = questions \cup result.asked
          /\ rounds' = Append(rounds, [units |-> units_of(retry), failed |-> failed,
                                       accepted |-> ~result.rejected])
          /\ IF \/ result.rejected
                \/ exhausted
                \/ ~result.progress /\ failed = {}
                \/ Len(rounds') = Rounds
             THEN pc' = "done" /\ retry' = {} /\ waiting' = {}
             ELSE /\ retry' = IF result.progress THEN {} ELSE failed
                  /\ waiting' = calls_of(retry')
                  /\ UNCHANGED pc
    /\ records' = {} /\ failed' = {} /\ exhausted' = FALSE
    /\ UNCHANGED <<heard, spent>>

Next ==
    \/ \E u \in partition \cup {coverage} : Answers(u) \/ Fails(u)
    \/ Judge

Spec == Init /\ [][Next]_vars

-----------------------------------------------------------------------------
(* What the review reports.                                                *)

\* Mutant: a unit counts as reviewed in every round that lists it.
unreviewed_Listed ==
    {u \in UNION {rounds[i].failed : i \in DOMAIN rounds} :
        \A i \in DOMAIN rounds : u \notin rounds[i].units}

\* review_spec: the units that failed and are in no round without a failure.
unreviewed ==
    {u \in UNION {rounds[i].failed : i \in DOMAIN rounds} :
        \A i \in DOMAIN rounds : rounds[i].failed = {} => u \notin rounds[i].units}

-----------------------------------------------------------------------------
(* Properties.                                                             *)

\* Shapes, and the search space the review may open: "A counter that restarts
\* at zero each round turns a cap of N into a cap of N * REVIEW_ROUNDS"
\* (promote_unsupported).
TypeOK ==
    /\ Required \subseteq DOMAIN spec.leaf /\ DOMAIN spec.leaf \subseteq Leaves
    /\ \A p \in DOMAIN spec.leaf : spec.leaf[p] \in Nat
    /\ Cardinality(spec.knobs) <= MaxPromoted
    /\ waiting \subseteq partition \cup {coverage}
    /\ retry \subseteq partition \cup {coverage}
    /\ failed \subseteq (partition \cup {coverage}) \ waiting
    /\ records \in SUBSET Claims
    /\ Len(rounds) <= Rounds
    /\ pc \in {"review", "done"} /\ exhausted \in BOOLEAN

Adopts == Len(rounds') > Len(rounds) /\ Last(rounds').accepted

changed(p) ==
    /\ p \in DOMAIN spec.leaf
    /\ p \notin DOMAIN spec'.leaf \/ spec'.leaf[p] # spec.leaf[p]

\* The reviewer's own words, before any rule has looked at them.
proposes(r, p, verdict) ==
    /\ r.verdict = verdict /\ r.patch # None
    /\ ~is_append(r.patch.at) /\ p \in DOMAIN r.patch.value

\* A patch of the search range that leaves the default outside it.
narrows(r) ==
    /\ r.patch # None /\ ~is_append(r.patch.at) /\ Bound \in DOMAIN r.patch.value
    /\ r.patch.value[Bound] < spec'.leaf[Default]

on_authority(p) ==
    /\ p \in DOMAIN spec'.leaf
    /\ \/ \E r \in records : /\ proposes(r, p, "CONTRADICTED")
                             /\ r.quote = "verbatim"
                             /\ r.patch.value[p] = spec'.leaf[p]
       \/ \E r \in records : /\ proposes(r, p, "UNDERSPECIFIED")
                             /\ r.patch.value[p] = spec'.leaf[p]
                             /\ replaces_text(r) => spec'.leaf[p] > spec.leaf[p]
       \/ /\ \E r \in records : proposes(r, p, "INCONSISTENT")
          /\ \E e \in errors(spec) : overlaps(p, enclosing(e.at))
          /\ Cardinality(errors(spec')) < Cardinality(errors(spec))
       \/ /\ p = Bound /\ spec'.leaf[Bound] = spec'.leaf[Default]
          /\ changed(Default) \/ \E r \in records : narrows(r)

\* A field changes only on an authority: a verbatim, unhedged quote that says
\* the spec is wrong; detail added where the paper says more, never taken from
\* a text; a contradiction a check found there, if one is gone afterwards; or a
\* search range that follows its default, which moved or which a patch of the
\* range left outside.  "Reviewers propose, the applier disposes"
\* (spec_review.py), over every reply the round can bring together.
ChangedOnAuthority == [][\A p \in Leaves : changed(p) => on_authority(p)]_vars

\* Is the correction good by itself: a field of its own unit (coverage has the
\* whole spec), not cut down, and no error the spec did not have?  (A default
\* that needs its range widened is not: settled widens only when that clears
\* every new error of the round.)
sound(r) ==
    /\ r.patch.at \in DOMAIN spec.leaf
    /\ r.unit = coverage \/ unit_owns(r.unit, r.patch.at)
    /\ errors([spec EXCEPT !.leaf[r.patch.at] = r.patch.value[r.patch.at]]) \subseteq errors(spec)
    /\ r.patch.at \in Texts => 10 * r.patch.value[r.patch.at] >= 4 * spec.leaf[r.patch.at]

gives(r, fields) ==
    \A p \in fields : p \in DOMAIN spec'.leaf /\ spec'.leaf[p] = r.patch.value[p]
lands(r) ==
    IF is_append(r.patch.at) THEN r.patch.value \in spec'.added
    ELSE gives(r, DOMAIN r.patch.value)

\* The range a patch asks for, widened again to hold the default.
widened(r) ==
    /\ narrows(r) /\ spec'.leaf[Bound] = spec'.leaf[Default]
    /\ gives(r, DOMAIN r.patch.value \ {Bound})

\* A pointer no other patch of the round touches.
apart(r, p) == \A q \in records \ {r} : q.patch # None => ~overlaps(q.patch.at, p)

lands_or_asked(r) ==
    /\ apart(r, r.patch.at) =>
          lands(r) \/ widened(r) \/ question(r) \in questions'
    /\ sound(r) /\ apart(r, enclosing(r.patch.at)) => lands(r)

\* What the paper says of a field is in the spec after an adopted round, or is
\* an open question about it: "Landing the fix is the reviewer's job and the
\* gate's; surviving the failure to land it is this" (apply_patches).  And it
\* is in the spec if nothing is wrong with it and it is the only patch of its
\* object, whatever the other patches of the round break: "the round is not the
\* unit of blame".  Left out are fields two patches reach by different
\* pointers, where the code lets the order of application decide; and a range
\* too narrow for the default is the pipeline's own field, which it widens.
CorrectionsLandOrAreAsked ==
    [][Adopts => \A r \in records :
          r.verdict = "CONTRADICTED" /\ r.quote = "verbatim" /\ r.patch # None
             => lands_or_asked(r)]_vars

\* A review that calls itself complete has heard of every unit and of coverage:
\* "a spec that reaches the integration agents unmarked looks identical either
\* way" (review_spec).
CompleteIsReviewed ==
    pc = "done" /\ unreviewed = {} => partition \cup {coverage} \subseteq heard

=============================================================================
