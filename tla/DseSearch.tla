------------------------------ MODULE DseSearch ------------------------------
(***************************************************************************)
(* Stage 4 on cbp2025: run_dse with its preflight, the detached search actor *)
(* and its evaluator (loop/dse.py, loop/sr_evaluator.py, the candidate       *)
(* checks of loop/constraints.py), and promote_finalists.                   *)
(*                                                                         *)
(* One job runs at a time, and it may be killed at any step; the actor is    *)
(* detached and goes on without it. Everything is built in one search tree,  *)
(* and a build is two steps: the header is laid over the tree, then make      *)
(* compiles what is there. A header is its knob values and whether it has      *)
(* any other line of code.                                                  *)
(***************************************************************************)
EXTENDS Integers, Sequences, FiniteSets, SequencesExt

CONSTANTS
  Knobs,        \* the knobs of the plan in force, a record each: type, range, default
  SpecCosted,   \* the knobs a size_formula of the spec reads
  HostCosted,   \* the host knobs a host_storage term reads
  Allowance,    \* the storage constraint, in units of a knob's value
  Wirings,      \* the sets of knobs a later port may read
  Proposals,    \* the headers the evolver may propose
  Scores,       \* the values the screening metric takes
  TopK,         \* C.DSE_PROMOTE_TOP_K
  MaxEvals,     \* bound: evaluations of one search
  MaxPorts,     \* bound: ports stage 3 promotes
  MaxJobs,      \* bound: jobs
  None          \* the absence of a value

Names == DOMAIN Knobs
Headers == [values : [Names -> Int], code : {"none", "extra"}]

ASSUME DseAssumption ==
  /\ IsFiniteSet(Names) /\ {"first", "second"} \cap Names = {}
  /\ SpecCosted \cup HostCosted \subseteq Names
  /\ Proposals \subseteq Headers /\ Wirings \subseteq SUBSET Names
  /\ Scores \subseteq Nat \ {0}
  /\ \A n \in Names : Knobs[n].default \in Knobs[n].range /\ Knobs[n].range \subseteq Int
  /\ TopK \in Nat \ {0} /\ Allowance \in Int
  /\ MaxEvals \in Nat /\ MaxPorts \in Nat \ {0} /\ MaxJobs \in Nat

VARIABLES
  port,       \* the promoted port: its edition and the knobs it reads
  tree,       \* the search tree: the edition and the knobs of its port, its header
  actor,      \* the search actor: where it is in an evaluation, of what
  screened,   \* evaluator._screened, by candidate_key
  log,        \* the newest search's candidates log
  pc,         \* where the job is
  jobs,       \* how many jobs have started
  todo,       \* the headers the job has left to build
  digests,    \* preflight: the binary of each build, by header
  disturbed,  \* did an orphaned actor or a lost build disturb the preflight?
  finalists,  \* promotion: the candidates it picked, best first
  binaries,   \* promotion: what each built variant was compiled to
  outcome     \* promotion: the summary

search == <<actor, screened, log>>
promotion == <<finalists, binaries, outcome>>
vars == <<port, tree, search, pc, jobs, todo, digests, disturbed, promotion>>

\* params_header with every knob at its default.
defaults == [values |-> [n \in Names |-> Knobs[n].default], code |-> "none"]

\* What make compiles a header to in a tree: what the port reads, and the code.
compiled(header, root) ==
  [edition |-> root.edition, code |-> header.code,
   values |-> [n \in root.reads |-> header.values[n]]]

NoActor == [alive |-> FALSE, at |-> "idle", header |-> None, binary |-> None]
NoOutcome == [status |-> "none", winner |-> 0, scores |-> <<>>]

-----------------------------------------------------------------------------
(* constraints.py *)

\* storage_bits: what the formulas read of a header.
storage_bits(header) ==
  FoldFunctionOnSet(LAMBDA v, sum : v + sum, 0, header.values, SpecCosted \cup HostCosted)

\* range_error, knob_values: every value is legal.
legal(header) == \A n \in Names : header.values[n] \in Knobs[n].range

\* check_static: legal values, then the storage constraint.
check_static(header) == legal(header) /\ storage_bits(header) <= Allowance

\* alternate_value: a second legal value, the smaller one first. Of an enum it is
\* the index 1, whatever the default is. None if there is none.
alternate_value(name) ==
  LET k == Knobs[name] IN
  IF k.type = "enum" THEN IF Cardinality(k.range) < 2 THEN None ELSE 1
  ELSE IF k.default - 1 \in k.range THEN k.default - 1
  ELSE IF k.default + 1 \in k.range THEN k.default + 1
  ELSE None

-----------------------------------------------------------------------------
(* preflight *)

\* Mutant: the host's storage terms are forgotten.
costed_Spec == SpecCosted

\* The knobs whose storage a candidate is credited for.
costed == SpecCosted \cup HostCosted

\* The knobs with a second legal value to build.
tested == {n \in Names : alternate_value(n) # None}

\* The header preflight builds for a knob.
variant(name) == [defaults EXCEPT !.values[name] = alternate_value(name)]

\* A knob that costs storage and whose variant is the default build is blocking,
\* and so is a default that does not build, or not the same twice.
blocking ==
  \/ digests.first = None
  \/ digests.second # digests.first
  \/ \E n \in tested \cap costed : digests.knobs[n] = digests.first

-----------------------------------------------------------------------------
(* Jobs *)

JobEnds ==
  /\ pc' = "idle"
  /\ todo' = <<>> /\ digests' = None /\ disturbed' = FALSE

\* Bound: the first port reads every knob, a later one may not.
Init ==
  /\ port = [edition |-> 1, reads |-> Names]
  /\ tree = [edition |-> 0, reads |-> {}, header |-> None]
  /\ actor = NoActor /\ screened = {} /\ log = <<>>
  /\ pc = "idle" /\ jobs = 0
  /\ todo = <<>> /\ digests = None /\ disturbed = FALSE
  /\ finalists = <<>> /\ binaries = <<>> /\ outcome = NoOutcome

\* Stage 3 promotes another port of the same plan, between two jobs of stage 4.
Reintegrate ==
  /\ pc = "idle" /\ port.edition < MaxPorts
  /\ \E reads \in Wirings : port' = [edition |-> port.edition + 1, reads |-> reads]
  /\ UNCHANGED <<tree, search, pc, jobs, todo, digests, disturbed, promotion>>

StartJob(where) ==
  /\ pc = "idle" /\ jobs < MaxJobs
  /\ jobs' = jobs + 1 /\ pc' = where
  /\ finalists' = <<>> /\ binaries' = <<>> /\ outcome' = NoOutcome
  /\ UNCHANGED <<port, tree, search, todo, digests, disturbed>>

\* The driver's process is gone. The actor is detached.
JobKilled ==
  /\ pc # "idle"
  /\ JobEnds
  /\ UNCHANGED <<port, tree, search, jobs, promotion>>

\* dse_tree: a fresh copy of the port, with the header stage 3 left in it.
port_copy == [edition |-> port.edition, reads |-> port.reads, header |-> defaults]

\* run_dse up to the preflight's builds.
CopyForSearch ==
  /\ pc = "copy"
  /\ tree' = port_copy
  /\ todo' = <<[of |-> "first", header |-> defaults], [of |-> "second", header |-> defaults]>>
             \o LET knobs == SetToSeq(tested)
                IN [i \in DOMAIN knobs |-> [of |-> knobs[i], header |-> variant(knobs[i])]]
  /\ digests' = [first |-> None, second |-> None, knobs |-> [n \in tested |-> None]]
  /\ disturbed' = actor.alive
  /\ pc' = "preflight"
  /\ UNCHANGED <<port, search, jobs, promotion>>

\* The head of CBP2025Node.build: the header is laid over the tree.
JobOverlays ==
  /\ pc \in {"preflight", "variants"} /\ todo # <<>>
  /\ tree' = [tree EXCEPT !.header = Head(todo).header]
  /\ pc' = IF pc = "preflight" THEN "preflight make" ELSE "variants make"
  /\ UNCHANGED <<port, search, jobs, todo, digests, disturbed, promotion>>

\* Its rest: what is in the tree now is compiled, or the build fails. A build that
\* fails though the port reads none of what changed was lost to its node.
PreflightMakes ==
  /\ pc = "preflight make"
  /\ \E binary \in {compiled(tree.header, tree), None} :
       LET of == Head(todo).of IN
       /\ digests' = IF of \in {"first", "second"} THEN [digests EXCEPT ![of] = binary]
                    ELSE [digests EXCEPT !.knobs[of] = binary]
       /\ disturbed' = (disturbed \/ (binary = None /\ of \in Names \ port.reads))
       /\ todo' = IF of = "first" /\ binary = None THEN <<>> ELSE Tail(todo)
  /\ pc' = "preflight"
  /\ UNCHANGED <<port, tree, search, jobs, promotion>>

\* Something is blocking: the stage stops.
PreflightFails ==
  /\ pc = "preflight" /\ todo = <<>> /\ blocking
  /\ outcome' = [outcome EXCEPT !.status = "preflight_failed"]
  /\ JobEnds
  /\ UNCHANGED <<port, tree, search, jobs, finalists, binaries>>

\* Mutant: an earlier actor is left alone, in the middle of its evaluation.
new_actor_Beside == [actor EXCEPT !.alive = TRUE]

\* ray.kill of the earlier actor, then a new one.
new_actor == [NoActor EXCEPT !.alive = TRUE]

\* Mutant: what an earlier search screened is taken over.
nothing_screened_Kept == screened

\* Per instance, so per search.
nothing_screened == {}

\* The search starts, with an evaluator and a log of its own.
Launch ==
  /\ pc = "preflight" /\ todo = <<>> /\ ~blocking
  /\ actor' = new_actor
  /\ screened' = nothing_screened /\ log' = <<>>
  /\ pc' = "searching"
  /\ UNCHANGED <<port, tree, jobs, todo, digests, disturbed, promotion>>

-----------------------------------------------------------------------------
(* SRParamsEvaluator, in the actor *)

\* Mutant: the knob values are the key.
candidate_key_Values(header) == header.values

\* candidate_key: what the compiler sees.
candidate_key(header) == <<header.values, header.code>>

\* _record: mpki is 0 for an evaluation without the screening metric.
entry(header, mpki, binary, repeat_of) ==
  [header |-> header, mpki |-> mpki, binary |-> binary, repeat_of |-> repeat_of]

\* evaluate_program of code this search has screened: no build, no run.
Repeat(header) ==
  /\ actor.alive /\ actor.at = "idle" /\ Len(log) < MaxEvals
  /\ \E s \in screened :
       /\ s.key = candidate_key(header)
       /\ log' = Append(log, entry(header, 0, None, s.id))
  /\ UNCHANGED <<port, tree, actor, screened, pc, jobs, todo, digests, disturbed, promotion>>

\* Otherwise _dispatch_build: refused before the build, or sent to it.
Evaluate(header) ==
  /\ actor.alive /\ actor.at = "idle" /\ Len(log) < MaxEvals
  /\ candidate_key(header) \notin {s.key : s \in screened}
  /\ IF check_static(header)
       THEN /\ actor' = [actor EXCEPT !.at = "overlay", !.header = header]
            /\ UNCHANGED log
       ELSE /\ log' = Append(log, entry(header, 0, None, 0))
            /\ UNCHANGED actor
  /\ UNCHANGED <<port, tree, screened, pc, jobs, todo, digests, disturbed, promotion>>

ActorOverlays ==
  /\ actor.alive /\ actor.at = "overlay"
  /\ tree' = [tree EXCEPT !.header = actor.header]
  /\ actor' = [actor EXCEPT !.at = "make"]
  /\ UNCHANGED <<port, screened, log, pc, jobs, todo, digests, disturbed, promotion>>

ActorMakes ==
  /\ actor.alive /\ actor.at = "make"
  /\ actor' = [actor EXCEPT !.at = "run", !.binary = compiled(tree.header, tree)]
  /\ UNCHANGED <<port, tree, screened, log, pc, jobs, todo, digests, disturbed, promotion>>

\* Only a candidate that was screened in full is remembered.
cached(mpki) == mpki # 0

\* The build failed, too many runs did, a measured constraint broke (mpki is 0),
\* or _map_results has the metric.
ActorScores ==
  /\ actor.alive /\ actor.at \in {"make", "run"}
  /\ \E mpki \in IF actor.at = "run" THEN Scores \cup {0} ELSE {0} :
       /\ log' = Append(log, entry(actor.header, mpki, IF mpki = 0 THEN None ELSE actor.binary, 0))
       /\ screened' = IF cached(mpki)
                       THEN screened \cup {[key |-> candidate_key(actor.header),
                                            id |-> Len(log) + 1]}
                       ELSE screened
  /\ actor' = [NoActor EXCEPT !.alive = TRUE]
  /\ UNCHANGED <<port, tree, pc, jobs, todo, digests, disturbed, promotion>>

\* run_search returns and the actor is killed. Its job promotes when the search
\* had a candidate, and ends otherwise.
SearchEnds ==
  /\ pc = "searching" /\ actor.at = "idle"
  /\ actor' = NoActor
  /\ \/ Len(log) > 1 /\ pc' = "select" /\ UNCHANGED <<todo, digests, disturbed>>
     \/ JobEnds
  /\ UNCHANGED <<port, tree, screened, log, jobs, promotion>>

-----------------------------------------------------------------------------
(* promote_finalists *)

\* What select_finalists does not pass over.
qualified == {i \in DOMAIN log : /\ log[i].mpki # 0
                                 /\ check_static(log[i].header)
                                 /\ log[i].header.values # defaults.values}

\* _screen_rank: the lower metric, then the earlier evaluation.
ranks_before(i, j) == log[i].mpki < log[j].mpki \/ (log[i].mpki = log[j].mpki /\ i < j)

\* Mutant: of one knob setting the first evaluation is kept.
kept_First ==
  {i \in qualified :
     ~\E j \in qualified : log[j].header.values = log[i].header.values /\ j < i}

\* Of the candidates with the same knob values, the best.
kept ==
  {i \in qualified :
     ~\E j \in qualified : log[j].header.values = log[i].header.values /\ ranks_before(j, i)}

\* select_finalists: sorted by _screen_rank.
ranked ==
  CHOOSE s \in [1..Cardinality(kept) -> kept] :
    \A i, j \in DOMAIN s : i < j => ranks_before(s[i], s[j])

\* select_finalists: the first of them.
select_finalists ==
  SubSeq(ranked, 1, IF Cardinality(kept) < TopK THEN Cardinality(kept) ELSE TopK)

\* Mutant: nobody looks for a running search.
search_running_Unseen == FALSE

\* search_running: an actor of that name is alive.
search_running == actor.alive

\* The refusals, then the tree is copied and the variants are lined up: the
\* defaults, then the finalists. 0 stands for the defaults.
Select ==
  /\ pc = "select"
  /\ IF select_finalists = <<>> \/ search_running
       THEN JobEnds /\ UNCHANGED <<tree, finalists>>
       ELSE /\ finalists' = select_finalists
            /\ tree' = port_copy
            /\ todo' = <<[of |-> 0, header |-> defaults]>>
                       \o [i \in DOMAIN select_finalists |->
                             [of |-> select_finalists[i],
                              header |-> log[select_finalists[i]].header]]
            /\ pc' = "variants"
            /\ UNCHANGED <<digests, disturbed>>
  /\ UNCHANGED <<port, search, jobs, binaries, outcome>>

\* A variant is compiled. A finalist that does not build is left out; without the
\* defaults there is nothing to compare with.
VariantMakes ==
  /\ pc = "variants make"
  /\ \/ /\ binaries' = Append(binaries, [of |-> Head(todo).of,
                                         binary |-> compiled(tree.header, tree)])
        /\ todo' = Tail(todo) /\ pc' = "variants"
        /\ UNCHANGED <<digests, disturbed, outcome>>
     \/ /\ Head(todo).of # 0
        /\ todo' = Tail(todo) /\ pc' = "variants"
        /\ UNCHANGED <<digests, disturbed, binaries, outcome>>
     \/ /\ Head(todo).of = 0
        /\ outcome' = [outcome EXCEPT !.status = "build_failed"]
        /\ JobEnds /\ UNCHANGED binaries
  /\ UNCHANGED <<port, tree, search, jobs, finalists>>

\* Mutant: a variant is compared over the traces it has.
complete_Any(score) == TRUE

\* compare_variants: did every promotion trace run?
complete(score) == score # 0

\* The winner among the complete finalists: the lowest metric, then the rank.
winner_of(scores) ==
  LET eligible == {i \in DOMAIN binaries : i > 1 /\ complete(scores[i])}
  IN CHOOSE i \in eligible : \A j \in eligible :
       scores[i] < scores[j] \/ (scores[i] = scores[j] /\ i <= j)

\* Every variant runs every trace; 0 for one that lost a run. The baseline is the
\* pristine checkout's, the first variant the defaults.
Compare ==
  /\ pc = "variants" /\ todo = <<>>
  /\ \E base \in Scores \cup {0}, scores \in [DOMAIN binaries -> Scores \cup {0}] :
       outcome' =
         IF complete(base) /\ complete(scores[1])
              /\ \E i \in DOMAIN binaries : i > 1 /\ complete(scores[i])
           THEN [status |-> "promoted", winner |-> winner_of(scores),
                 scores |-> <<base>> \o scores]
           ELSE [outcome EXCEPT !.status = "incomplete"]
  /\ JobEnds
  /\ UNCHANGED <<port, tree, search, jobs, finalists, binaries>>

-----------------------------------------------------------------------------
(* The specification *)

Next ==
  \/ Reintegrate \/ JobKilled
  \/ StartJob("copy") \/ StartJob("select")
  \/ CopyForSearch \/ JobOverlays \/ PreflightMakes \/ PreflightFails \/ Launch
  \/ \E header \in Proposals : Repeat(header) \/ Evaluate(header)
  \/ ActorOverlays \/ ActorMakes \/ ActorScores
  \/ SearchEnds
  \/ Select \/ VariantMakes \/ Compare

Spec == Init /\ [][Next]_vars

-----------------------------------------------------------------------------
(* Properties *)

TypeOK ==
  /\ port.edition \in 1..MaxPorts /\ port.reads \subseteq Names
  /\ tree.edition \in 0..port.edition /\ tree.reads \subseteq Names
  /\ tree.header \in Headers \cup {None}
  /\ actor.alive \in BOOLEAN /\ actor.at \in {"idle", "overlay", "make", "run"}
  /\ (actor.at # "idle" => actor.alive /\ actor.header \in Headers)
  /\ jobs \in 0..MaxJobs /\ Len(log) <= MaxEvals
  /\ \A s \in screened : s.id \in DOMAIN log
  /\ disturbed \in BOOLEAN
  /\ Len(finalists) <= TopK /\ Len(binaries) <= TopK + 1
  /\ outcome.status \in {"none", "preflight_failed", "build_failed", "incomplete", "promoted"}

\* A candidate's score is the score of its own header in the port being searched,
\* and a promoted variant's of its header in the port in force, even when an
\* earlier job was killed and left its actor building ("no stale actor from a
\* previous run", run_dse; search_running).
ScoreIsOfItsHeader ==
  /\ pc = "searching" =>
       \A i \in DOMAIN log : log[i].mpki # 0 =>
         log[i].binary = compiled(log[i].header, tree) /\ tree.edition = port.edition
  /\ pc \in {"variants", "variants make"} =>
       \A i \in DOMAIN binaries :
         binaries[i].binary =
           compiled(IF binaries[i].of = 0 THEN defaults ELSE log[binaries[i].of].header, port)

\* A search never credits storage for a knob that nothing reads ("every storage
\* comparison after that is fiction", preflight), unless an orphaned actor or a
\* build lost to its node disturbed the preflight, which it cannot tell.
OnlyLiveKnobsAreCredited ==
  pc = "searching" /\ ~disturbed =>
    tested \cap (SpecCosted \cup HostCosted) \subseteq tree.reads

\* What a search calls a repeat compiles to what it screened before, and no code
\* is screened twice; what failed may be tried again ("a run failure can be a
\* worker that died", evaluate_program).
OnlyRepeatsAreSkipped ==
  \A i \in DOMAIN log :
    /\ log[i].repeat_of # 0 =>
         LET first == log[log[i].repeat_of] IN
         /\ first.mpki # 0
         /\ first.header = log[i].header
    /\ \A j \in DOMAIN log :
         i < j /\ log[i].mpki # 0 /\ log[j].mpki # 0 => log[i].header # log[j].header

\* Promotion runs the best the search screened: a candidate that fits is a
\* finalist, or has the setting of one, or TopK finalists were screened as well;
\* and two finalists are two settings ("candidates with the same knob values are
\* one candidate", select_finalists).
FinalistsAreTheBest ==
  finalists # <<>> =>
    /\ \A i, j \in DOMAIN finalists :
         i # j => log[finalists[i]].header.values # log[finalists[j]].header.values
    /\ \A c \in DOMAIN log :
         log[c].mpki # 0 /\ check_static(log[c].header) /\ log[c].header.values # defaults.values =>
           \/ \E i \in DOMAIN finalists :
                /\ log[finalists[i]].header.values = log[c].header.values
                /\ log[finalists[i]].mpki <= log[c].mpki
           \/ /\ Len(finalists) = TopK
              /\ \A i \in DOMAIN finalists : log[finalists[i]].mpki <= log[c].mpki

\* A verdict compares means over the same traces: the winner, the defaults and
\* the baseline ran all of them, the winner fits the constraints, and no other
\* complete finalist did better (compare_variants).
VerdictIsLikeWithLike ==
  outcome.status = "promoted" =>
    LET w == outcome.winner
        score(i) == outcome.scores[i + 1]
    IN
    /\ outcome.scores[1] # 0 /\ score(1) # 0 /\ score(w) # 0
    /\ binaries[w].of # 0 /\ check_static(log[binaries[w].of].header)
    /\ \A i \in DOMAIN binaries : i > 1 /\ score(i) # 0 => score(w) <= score(i)
=============================================================================
