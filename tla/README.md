# Formal models of paper-to-pipeline

The repository turns an architecture paper into a working port: a pipeline of
four stages drives LLM agents, and plain Python code decides what they may keep.
These modules model that deciding code: what it writes, in which order, what it
believes at each step, and what is left when a step fails. What an agent, a
simulator or a cluster answers is arbitrary within its type.

Sections: [system](#1-the-system) · [modules](#2-the-modules) ·
[runs](#3-the-runs) · [proofs](#4-the-proofs) · [findings](#5-findings) ·
[hazards](#6-hazards) · [not modelled](#7-what-is-not-modelled).

## 1. The system

`loop/adopt_a_paper_loop.py main` runs the stages asked for, in this order:

    distill  paper -> feature spec          (LLM writes, checks and reviews repair)
    plan     spec + clean host -> plan pair (LLM writes plan.json and tests.json)
    integrate plan pair -> ported host tree (LLM edits the tree, the gate judges)
    dse      ported tree -> tuned knobs     (evolutionary search, an LLM mutates)

| Component | State it keeps | Operations | Interacts with |
|---|---|---|---|
| plan artifacts (`plan_revision.py`, `plan_node.py`) | per host: `plan.json`, `tests.json`, `*.rev<i>.json`, `superseded/`, `.escalations.json` | `make_plan`'s writes, `commit`, `retire`, `latest`, `count`, `record_escalation`, `open_escalations`, `clear_escalations` | written by stages 2 and 3, read by stages 2, 3 and 4; survives every job |
| stage 3 (`integrate`, `_consider_revision`) | pair in hand, attempt, revision, status | first turn, gate, debug turn, review with repair turns, commit, escalate, backend error | agent session, gate, plan artifacts |
| re-planning (`replan.py`) | round number, whether the tree is kept | round, re-plan after an escalation, `design_changes`, `save_port` | stage 3, stage 2 |
| stage 2 (`make_plan`) | planner's draft | planner turn, repair turns, restore of the checkout, writes | plan checks, plan artifacts, host checkout |
| revision guard (`plan_revision.guard`, `review`) | none: a proposal against the pair in force | which fields and entries a revision may change, what goes on the record | called by stage 3; its chain is what stage 2's demands survive |
| plan checks, spec checks | none | findings of one document or pair | called by stages 1, 2 and 3 |
| gate (`gate.py`) and runner (`plan_runner.py`) | per run: results, command cache | build, correctness, smoke, performance, G1-G5 | host executor |
| cbp2025 host (`hosts/cbp2025/adapter.py`, `chia_nodes/`) | port tree, binaries per feature state, which state `./cbp` in the tree is | build, shell, trace fan-out, aggregate, lay out the tree, diff | Ray workers |
| gem5 host (`hosts/gem5/`) | pristine checkout, port tree, run directory with its marker, binaries per state, recorded baseline with fingerprints | install, `record_baseline`, `check_baseline_current`, build, dispatch and await runs | Ray workers; the plan pair; people who edit the repository |
| search (`dse.py`, `sr_evaluator.py`, `constraints.py`) | search tree, candidate cache and log, detached actor | preflight, `run_dse`, evaluate, promote finalists | host, LLM gateway; an earlier job's actor |
| LLM calls (`llm.py`, `llm_gateway.py`) | bearer token, usage log | turn with 429 retries; request with one 401 refresh and one connect retry | every agent session |
| spec review (`spec_review.py`) | spec, open questions, rounds, minted knobs, units to retry | fan out to reviewers, apply patches and take them out, gate the round, stop | stage 1, spec checks |
| driver (`main`) | stage list, hosts | runs stages per host, saves ports, re-plans | all of the above |

What is hard here:

- **A job dies between two writes.** Jobs run for hours on a cluster. The disk is
  the only thing the next one has, and the protocol is made of several files.
- **Three readings of "the plan".** The pair handed over in memory, the pair in
  force on disk, and the pair that was passed into the round. Stage 3 changes the
  second while it runs.
- **An agent that answers anything.** It may escalate, propose a revision, do
  both, or be refused over and over; the loop has to stay within its budgets and
  must not lose what the agent said.
- **Two kinds of failure.** An `Exception` is a `backend_error` and is handled; a
  `SystemExit` goes through everything.
- **What a verdict is about.** A build belongs to a feature state, a cached
  outcome to a command, a pass to the pair it was judged by.
- **Judged step by step.** A revision is compared with the pair in force only, a
  review round with the spec before it; what matters is the distance from the
  first document.
- **Files that move under a measurement.** Baselines take hours, and people edit
  run scripts and workloads meanwhile.
- **Actors that outlive their job.** The search actor is detached, and builds in
  the tree the next job replaces.
- **Many reviewers at once.** Patches that are each sound may break a spec
  together, and code has to decide which of them to take out.

What makes each component correct: the pair a job works from is whole, is the
newest, and was reviewed; answers to escalations are neither lost nor forged; a
passed port was judged as it stands; a job stops, within its turns, and leaves
behind what its successor needs; a gate passes only on evidence measured in the
feature state it was asked about, and of everything stage 2 demanded; a baseline
is compared only with runs of the same files; a search scores candidates against
the tree it thinks it has, and credits storage only to knobs something reads; a
spec changes only on an authority, and what the paper says is not lost.

## 2. The modules

    PlanLedger     what the plan artifacts promise, one step per operation
       ^  ^
       |  +--------- Integration   stage 3 of one round
       |  refines        ^
    PlanStore        ReplanRounds  jobs, rounds, re-plans (EXTENDS Integration)

    PlanPair       a plan pair and what run_checks demands of it
       ^
    PlanGuard      what a revision may change; the chain of revisions
       ^
    Gem5Host       recordings, installs, runs, gate attempts; revises by PlanGuard

    GateRun        the gate attempts inside Integration's Gate, on cbp2025
    DseSearch      stage 4: preflight, detached actor, promotion
    SpecReview     stage 1's review rounds

An arrow is EXTENDS, except where it says "refines" (INSTANCE with a refinement
mapping). `MCGateRun`, `MCGem5`, `MCDse` and `MCReview` give the constants of
their module their values; `PlanStoreProofs`, `ReplanProofs`, `PlanGuardProofs`,
`Gem5Proofs`, `GateRunProofs`, `GateEvidenceProofs`, `DseProofs` and
`SpecReviewProofs` hold the theorems. A definition whose name ends in
`_<Change>` stands before the one it is a wrong version of; nothing uses it, it
is there to be put in the other's place to see that a property notices.

**PlanLedger** is the abstract specification: `gen` plans written, `rev`
revisions of the newest, and the `open` escalations. `Replan` retires every
revision and answers every escalation at once.

**PlanStore** is the same artifacts file by file. One action is one write (or one
rename) of the code:

| Action | Code |
|---|---|
| `StartPlan`, `RefusePlan` | `make_plan` up to its refusal; reads the open escalations |
| `WritePlan`, `WriteTests` | the two `write_text` calls |
| `RetirePlan`, `RetireTests`, `RetireDone` | `retire`'s loop: rename, rename, first index with no file |
| `ClearEscalations` | `clear_escalations` |
| `IntegratePlanned`, `IntegrateLoaded` | how stage 3 gets its pair: handed over, or `load_plans` |
| `CommitPlan`, `CommitTests` | `commit`'s two writes |
| `RecordEscalation` | `record_escalation` |
| `JobEnds`, `Crash` | the job returns, or dies; memory is lost, the disk stays |

A document is told apart by the plan it belongs to (`gen`) and, for a revision,
by its serial number; `[gen |-> 0]` is a file that does not exist. `CrashIn` says
in which windows a job may die: between turns (`"llm"`), between `commit`'s writes
(`"commit"`), among `make_plan`'s writes (`"make_plan"`). The variables `serial`,
`committed` and `view` are history: no action's guard reads them except `serial`'s
bound.

**Integration** is stage 3. `pc` is where `integrate` or `_consider_revision`
waits, and the actions are its turns: `FirstTurn`, `Gate`, `DebugTurn`,
`BudgetTurn`, `ReviewAccepts`, `ReviewRefuses`, `RepairTurn`, and the two ways a
backend fails, `BackendError` (an `Exception`) and `BackendExit` (`run_llm`'s
`SystemExit`). A reply is any record of "escalates", "proposes" and, for a
proposal, the design it describes. The gate and the review answer anything.

**ReplanRounds** puts jobs around it: `JobPlans` (`--stage plan integrate`),
`JobLoads` (`--stage integrate`), `StartRound`, `SetupRefused`, `EndRound`
(`save_port` after the round), `ReplanWritten`, `ReplanFails`. The disk is
PlanLedger's, which PlanStore justifies.

**GateRun** is what happens inside `Gate`: `run_test_plan` calls the cbp2025
executor, and `check_gate` judges. A step is one remote call, or the plain code
between two of them:

| Action | Code |
|---|---|
| `BuildSucceeds`, `BuildFails`, `BuildRaises` | a build, due at G1, in `_ensure_tree_state` or in `_binary_for` (`BuildIsDue`); `left_by_failed_build` is what a failed one leaves as `./cbp` |
| `AfterBuild` | G1's early return, or the first entry |
| `RunCommand`, `ReuseOutcome` | `run_once`, with `evaluate_condition` and the entry's result |
| `RunTraces` | `run_traces`: every trace a task of its own, on bytes; one step, because no task reads shared state |
| `RunTraceCommand` | one iteration of `_measure`'s own loop |
| `TraceListMissing`, `Score`, `CheckGate` | `_traces_of`, the arithmetic of `_run_performance`, `check_gate` |
| `AggregateRaises`, `TraceRaises`, `HostRaises`, `ScoreRaises` | an exception leaves `run_gate`: Integration's `BackendError` |
| `NextAttempt` | the agent edits the tree, the plan may be revised, `run_gate` makes a fresh executor |

`held` and `believed` are the executor's `_binaries` and `_tree_state`; `tree` is
what is really there. A build carries its key and the `edition` of the tree it
was compiled from. A pass condition is the set of exit codes and of match results
it accepts; an improvement is `"short"` of its floor, beats the `"floor"`, or meets
the `"target"`. `passed` and `refused` are the two outcomes of Integration's
`Gate`. `ran`, `completed`, `shells` and `builds` are history; a record is `unbuilt`
when the build that its own call began with had failed, which nobody looks at.

**PlanPair** has a port plan and a test plan, and as predicates what
`plan_checks.py` demands of the pair with severity `error`: identifiers are
distinct, references hold between the two documents, pointers hold into the spec,
knobs carry the macro their name derives, host knobs and host storage are
consistent, the enable knob is usable, trace lists and recorded metrics exist.
`run_checks` is what a revision is checked by, `run_all_checks` what stage 2's
pair is (it also has the checkout, the trace lists and the recording to look at).

**PlanGuard** is the revision guard, as the table of fields it is in the code:
`PORT_COLLECTIONS` and `TESTS_COLLECTIONS` name each collection's key and what is
frozen of an entry; `collection_kept` is the comparer, which finds an entry by
the first one with its key. The rules that are no table (metrics, smoke, `run`,
host storage, the enable knob, rejected alternatives) are an operator each.
`Revise` is an accepted proposal, with the fidelity lost and the changes of the
off path put on record. `Replies(pair)` is what a debug turn may propose.

**Gem5Host** is the second host, and composes with PlanGuard: `AgentTurn` is an
edit of the port and perhaps a `PlanNext` step.

| Action | Code |
|---|---|
| `EditFiles`, `MoveCheckout`, `PlannerWorks` | people edit run scripts and workloads at any time; between jobs the checkout moves, and stage 2's agent may dirty it and write into the run directory (`ShellEdits`), as stage 3's turns may |
| `InstallNoOp`, `InstallBegins`, `InstallStep` | `install` of the run directory: by its marker nothing to do, or scripts, workloads and the marker one after the other; `drift` compares what is there with the marker |
| `StartBaseline`, `RestoreCheckout`, `RunBaseline`, `RecordBaseline` | `record_baseline`: fingerprints first, restore and clean, install, runs, then the merge with what was recorded (`moved`, `carried`) |
| `StartIntegrate`, `CopyTree`, `Preflight`, `CheckBaseline` | the port tree (fresh or resumed), the baseline's problems, and `check_baseline_current` |
| `AgentTurn`, `BuildOff`, `RunCorrectness`, `StageStops` | a turn, and the gate's first calls |
| `Dispatch`, `NothingRuns`, `Tick`, `TickLost`, `Collect`, `TimesOut`, `Measured` | `run_workloads`: all runs dispatched at once, awaited in order, `Slots` at a time; a limit per run, restarted with each collected run |
| `Judge` | `check_gate` |
| `TaskLost`, `NodeLost`, `JobEnds` | a remote task dies partway, the node stops answering while runs are awaited; `JobEnds` is how every stage ends |

A version of a file is a number never used before; a fingerprint is the versions
it was taken of. `results` and the fields of a measurement other than its value
are history.

**DseSearch** is stage 4 on cbp2025. A build is two steps, the overlay of a header
and `make`, because the tree is shared: `JobOverlays`, `PreflightMakes`,
`VariantMakes` for the job, `ActorOverlays`, `ActorMakes`, `ActorScores` for the
detached actor. `JobKilled` is possible at any step and leaves the actor;
`Launch` kills an actor it finds and starts its own on an empty cache. `compiled`
says what a build is compiled to: the values of the knobs the port reads, and the
header's other code. `costed`, `blocking` and `variant` are the preflight's choice
of knobs; `Evaluate` is `evaluate_program` with its repeat cache; `kept`,
`ranked` and `winner_of` are `select_finalists` and `compare_variants`.

**SpecReview** is stage 1's review. `Answers` and `Fails` collect the reviewers'
replies of a round one by one, and `Judge` is the round: `apply_patches` (evidence,
ownership, shortened texts, `merged`, `twins`, `disputed`, then the three drops
`schema_kept`, `laundering_kept`, `regressing_kept`, with `settled` widening a
range), the questions that survive, `promote_unsupported` (`minted`), the gate
`is_worse`, and what is to be retried. `dropping` is the loop that
`drop_laundering` and `drop_regressing` share, with the blame as a parameter:
while an error can be blamed on patches, the first of those goes. A field is its
length or its value; the spec has one of each kind the rules tell apart.
`ClaimsAssumption` says what a reviewer may send, `OrderAssumption` that an object is
patched before its fields, as `_apply_to` sorts them.

## 3. The runs

| Run | Shows | Bounds |
|---|---|---|
| `store` | with jobs dying between turns and inside a commit: type; the held pair is whole and newest; `retire` is complete; the record of every revision survives; answers are in view and are kept; the files implement PlanLedger | 2 revisions, 3 plans, 5 revisions started, 3 escalations |
| `store_crash` | with a death inside `make_plan` too, `RetireMovesEveryRevision` fails | as above, 4 revisions started, 1 escalation |
| `rounds` | `PromotedAsJudged`, `StoppedForStageTwo`, `DisclaimedPlanIsNotRevised`, `TurnsAreBounded`, `FinishedJobSavedItsPort`, and the liveness property `JobsEnd` | 3 attempts, 2 revisions, 1 repair turn, 1 re-plan, 2 jobs, 2 designs |
| `kept_tree`, `escalation_heard`, `port_saved` | one finding each (section 5) | 2 attempts, 1 revision |
| `gate` | `EvidenceIsOfItsState`, `EvidenceIsOfThisAttempt`, `PassIsEvidence`, `RefusalHasACause`, `CommandsRunOnce`, `OneBuildAtRunTime` | 32 test plans (`MCGateRun`), 2 traces, 2 attempts |
| `gate_timeout`, `gate_dead_task` | one finding each | the same plans, 1 attempt |
| `gem5` | over PlanGuard: `StageTwoDemandsKept`, `LossIsOnRecord`; over the host: `BaselineIsOfItsFiles`, `ComparedLikeWithLike`, `FanOutIsOfThisAttempt`, `OnlyALostNodeStalls`; over both: `PassMeetsStageTwosDemands` | 2 workloads, 2 plan pairs with up to 12 proposals each, 2 revisions, 2 edits, 2 commits, 2 attempts, 2 jobs, 1 slot, a limit of 1 tick |
| `search` | `ScoreIsOfItsHeader`, `OnlyLiveKnobsAreCredited`, `OnlyRepeatsAreSkipped`, `FinalistsAreTheBest`, `VerdictIsLikeWithLike` | 2 knobs, 4 proposals, 3 evaluations, 2 ports, 2 jobs, 2 finalists, scores 1 and 2 |
| `review` | `ChangedOnAuthority`, `CorrectionsLandOrAreAsked`, `CompleteIsReviewed` | 17 claims of which at most 3 are made, at most 2 failed calls, 3 rounds, 2 drafts, 3 algorithms, 1 minted knob |

Every passing run also checks its module's `TypeOK`, which says more than types where
a budget is one: revisions, re-plans, minted knobs, a repeat cache that starts empty.

Why the bounds are enough. In `store`, two revision numbers are what a gap and an
overwrite need; three plans let a plan supersede one that superseded another;
five serials let a revision number be used by three plans. The budget of the
code (3 revisions) adds no new shape, and the proofs cover every value. In
`rounds`, three attempts fit a revision, an accepted second one and the
budget-spent turn into one round; one re-plan gives a second round with both
answers about the tree; a second job finds every disk the first can leave.

In `gate`, the plans have both bindings of the knob and both run modes, an entry
that runs in both states, two entries that share a command, an entry that accepts
any exit code after one that has swapped the tree, a plan with no baseline entry,
and performance entries with a measured and with a recorded baseline. Two traces
let the two sides lose different ones; the second attempt starts from every tree
and every plan the first can leave. A failed build may leave no `./cbp`, the one it
found, or its own, in every place a build can be asked for.

In `gem5`, the first job may record and the second integrate, or the host starts
with a recording (the initial `baseline`) and both jobs integrate, so a port tree
is resumed. One edit and one commit can fall anywhere: before, inside or after a
recording, an install or an attempt. Two revisions are what it takes to do in two
steps what one step may not; the proposals delete, loosen, re-point and add
entries, and bind the knob to what no build can deliver. Two workloads on one slot
queue behind each other. In `search`, the second job meets the actor of the first
at every point of an evaluation, and a port that reads one knob less; the
proposals hold a repeat, a twin in other code, a header that breaks the allowance,
and one that fits through the knob nothing may read. In `review`, three claims are
the fewest for two patches that break the spec together and a third that is
blamed; one claim narrows the search range below the default, which the round
widens again; and three rounds are the code's.

`rounds`, `gem5` and `search` turn deadlock checking off because `MaxJobs` stops the
submission of jobs: after the last one, the driver has no successor. `review` turns
it off because the review ends. `store` and `gate` keep it on: no attempt gets
stuck between two calls.

Fairness. `ReplanRounds` assumes `WF_vars(JobStep)`: a job in progress takes
another step. The driver is one sequential program, every turn and every gate or
plan run it waits for has a timeout, and its loops are `for` loops over budgets.
Nothing is assumed about which answer comes, and no job has to be submitted. The
safety properties need no fairness; the other specifications have none.

## 4. The proofs

### The plan artifacts

`PlanStoreProofs` proves about PlanStore, for every value of the constants:

| Theorem | Statement | Assumes |
|---|---|---|
| `TypeCorrect` | `Spec => []TypeOK` | |
| `EscalationsAnsweredInView` | `Spec => []AnsweredInView` | |
| `AnswersKept` | `Spec => AnswersAreKept` | |
| `PairIsWhole`, `PairIsNewest` | the pair stage 3 holds | `SafeCrash` |
| `RetireIsComplete` | `Spec => []RetireMovesEveryRevision` | `SafeCrash` |
| `RevisionsSurvive` | `Spec => []RevisionRecordSurvives` | `SafeCrash` |
| `FilesImplementLedger` | `Spec => ImplementsLedger` | `SafeCrash` |

`SafeCrash` is `"make_plan" \notin CrashIn`: no job dies among the last four
kinds of write of stage 2. It is needed, and `store_crash` is the counterexample
without it. The window is a few milliseconds of local writes at the end of hours
of turns.

None of the properties is inductive. `IInv` adds what the files look like at
each `pc`: which revision numbers are occupied and by which generation
(`FilesInv`), how far `make_plan` has come with the base pair (`BaseInv`), that
serial numbers grow with the revision number inside one plan (`SerialInv`), where
each committed document is (`CommittedInv`), and that the pair in memory is the
one `latest` would read (`HeldInv`). The central lemma is about `count`, which is
a cardinality: while the occupied numbers have no gap, `count(revs)` is their
number, so a commit moves it by one and `retire` brings it to 0. The refinement
maps `Writing` states to "no revision, nothing open": from `plan.json`'s write on
the new plan is in force, and the rest of `make_plan` is a stutter.

### The rounds

`ReplanProofs` proves about ReplanRounds, for every budget of attempts, revisions,
repair turns, re-plans and jobs, all designs and all escalations: `Typed`,
`PromotedWasJudged`, `StoppedWithReason`, `TurnsBounded`, `FinishedIsSaved` and
`DisclaimedIsNotRevised`. It assumes only the modules' assumptions on their
constants. `ReplanInv` adds that the pair in memory and the pair on disk are one
pair for as long as a round lasts, and that a reply under review never escalated
(`RoundInv`); and it counts turns by place in the loop (`TurnsInv`): before attempt
`a`, at most `1 + (a - 1) * PerAttempt` turns, and inside it what its own replies
have cost.

`JobsEnd` is liveness and stays with TLC. Its half that needs no fairness is
`JobsSpendTheirBudget`: `StepsLeft` is a natural number that the budgets fix when a job
starts, and every step of the job makes it smaller, so no sequence of proposals,
escalations and re-plans goes on for ever. That a job in progress can always take a
step is what TLC adds.

### The chain of revisions

`PlanGuardProofs` proves `DemandsKept` and `LossOnRecord` for every spec, every
pair stage 2 may write, every proposal and every budget. `review` compares a
proposal with the pair in force and never with stage 2's, so the invariant is
`guard`'s own relations, between `first` and `inforce` (`DemandsInv`): each is
transitive, key by key. The code finds an entry by the first one with its key, so
the step from "the first under its key" to "an entry of stage 2's" needs distinct
ids, which `run_checks` demands of both pairs (`PairInv`). `RecordInv` is the same for
the fidelity of a resolution: if it fell from stage 2's over the chain, some step
of the chain lowered it, and that step put it on record.

### The gate on cbp2025

`GateRunProofs` and `GateEvidenceProofs` prove about GateRun, for every set of test
plans, every trace list and any number of attempts:

| Theorem | Statement | Assumes |
|---|---|---|
| `MeasuredInItsState` | `Spec => []EvidenceIsOfItsState`, whatever a failed build leaves | |
| `MeasuredInThisAttempt` | `Spec => []EvidenceIsOfThisAttempt` | |
| `RunTimeKnobBuildsOnce` | `Spec => []OneBuildAtRunTime` | |
| `Typed` | `Spec => []TypeOK` | |
| `PassedOnEvidence` | `Spec => []PassIsEvidence` | |
| `CommandsShared` | `Spec => []CommandsRunOnce` | |
| `RefusedWithACause` | `Spec => []RefusalHasACause` | `DistinctTraces` |

The only other assumption is GateRun's `GateAssumption`: the schema's types and its
`minItems`. `DistinctTraces` says that the trace list names no trace twice. A list
that does would let a trace be completed at one place and lost at the other, and
the refusal could not be read off the set of completed traces.

`GateInv` is about beliefs. While an attempt runs, the build the executor believes
to be in the tree is there, and what a failed build leaves there is of this edition
too (`TreeInv`); a call whose build has been dispatched believes in the build of its
own state or in none (`TriedInv`); and with a run-time knob the first build stays
(`RunTimeInv`). `CommandFindsItsBuild` turns that into what a command runs on: its own
state's build, unless that was asked for and failed just before. Steps that call no build are handled at once: `Moved`
says where they may go, and `MovedKeepsTree` that this is enough.

`EvidenceInv` is about bookkeeping. The cache and the history of commands say the
same, and no more commands are dispatched than the cache has keys (`CacheInv`); so
an entry's result can be read off the cache, which only grows (`CorrectnessInv`,
`JudgedInv`); the states an entry has left, its failing flag and the outcomes so
far leave nothing out (`EntryInv`); a trace is to be run, lost or completed
(`DoneInv`); and what a block was judged by is what was completed (`ScoresInv`,
`VerdictInv`). `RefusalInv` is the converse: a trace is never at two of the three
places (`LossInv`), so a failed measurement has a trace that was not completed
(`MissingInv`).

### The gem5 host

`Gem5Proofs` proves about Gem5Host, for any workloads, slots, limits, edits, commits,
attempts and jobs, and any plans and proposals: `Typed`, `PlanDemandsKept`,
`PlanLossOnRecord`, `BaselineOfItsFiles`, `LikeWithLike`, `FanOutOfThisAttempt`,
`PassMeetsDemands` and `LostNodeStalls`, from `Gem5Assumption` and `StageTwoAssumption`
(stage 2's pairs are well formed and pass `run_all_checks`).

The argument about measurements is one about versions that only grow and are
never reused. What was fingerprinted before an install is not newer than what was
installed, which is not newer than the file; when the fingerprint matches the file
after the runs, all three are the same version, and the runs in between had it
(`RecordingInv`). The same from the other side for an attempt: what was recorded is
not newer than the file, and when it matches at the check and the run directory
does not drift from its marker, it is what is installed (`GateInv`). The waits rest on
the order of dispatch: the awaited run is the first that is not over, so it holds a
slot and ends within its limit, which the wait gives it in full (`FanInv`,
`AwaitedRuns`). `PassInv` follows the entries of the pair in force into the results,
and PlanGuard's invariant carries them back to stage 2's: `PlanStep` shows that only
`AgentTurn` touches the pair, so all of PlanGuard's proof is used as it stands.

### The search

`DseProofs` proves about DseSearch, for any knobs and formulas, any port stage 3 may
promote, any headers the evolver may propose, any scores and any number of jobs:
`Typed`, `ScoreOfItsHeader`, `OnlyLiveCredited`, `OnlyRepeatsSkipped`, `BestPromoted` and
`VerdictLikeWithLike`, from `DseAssumption` (defaults and ranges agree, the plan has
finitely many knobs, none of them called like the preflight's two default builds, a
score is not 0).

The search tree is shared with an actor that may be an earlier job's, so `DseInv`
says when it is not. Before `Launch` an orphan may be alive, and then the preflight
is `disturbed`; in an undisturbed one every knob is still to be built, was built from
the tree's own port, or is read (`PreflightInv`), so a knob that passes is live, by
`DeadKnob`. After `Launch` the tree is the new actor's until the search ends
(`SearchInv`). A promotion starts only with no actor alive, so the log it ranked is
the log it reports on (`FinalistsInv`, `VariantsInv`). The cache holds the headers that
were screened and no other, and an evaluation under way is of none of them (`LogInv`,
`ActorInv`). `TheBest` and `TheWinner` need that a finite strict order can be put in a
row and has a first; `InOrder` proves it by counting, for every member, the members
before it, because induction over sets is not available.

### The review

`SpecReviewProofs` proves about SpecReview, for any algorithms, drafts and claims, any
number of rounds, replies, failures and minted knobs:

| Theorem | Statement | Assumes |
|---|---|---|
| `TypeCorrect` | `Spec => []TypeOK` | `ReviewAssumption`, `DraftsAssumption`, `ClaimsAssumption` |
| `CompleteMeansHeard` | `Spec => []CompleteIsReviewed` | the same |
| `ChangesHaveAuthority` | `Spec => ChangedOnAuthority` | and `OrderAssumption` |
| `CorrectionsSurvive` | `Spec => CorrectionsLandOrAreAsked` | and `OrderAssumption` |

The assumptions are that a draft has the schema's required fields, that a patch
gives fields under its pointer, and that patches can be told apart and are sorted.
Nothing is assumed about how many claims there are or whether they agree.

The invariant (`ReviewInv`) is short: the spec has its required fields and its knobs
are within the cap (`DocOK`), the calls of a round are out, answered or failed
(`RoundInv`), and every unit has been heard, is out, or is on record as failed
(`HeardInv`). It is needed because a retry leaves out the units that answered: that
nothing is unreviewed at the end says something about the last round only.

The work is in one step, `Judge`. Its rules are recursive functions over sets of
patches, defined with CHOOSE, so nothing is known about them before they are shown
to have a solution: `SolutionExists` does, for every recursion that descends in a
finite set, from the smallest set without one (`SmallestSubset`). `DroppingFacts`
is then what a greedy drop returns: a subset that nobody in it is blamed for.
`ChangesHaveAuthority` follows a changed field back to the last patch that reaches it
(`Decider`), to its record (`LandedOrigin`) and to its rule (`InScope`), or to
`settled` (`FollowsFacts`). `CorrectionsSurvive` is about blame. A patch of one field
that is sound by itself is not taken out, whatever else is in the round: a schema
field that goes missing (`SchemaKept`) and detail that is lost (`LaunderingKept`) are
never blamed on the patch of one field, and a new error only on patches of the
object it is in (`RegressingKept`), where this one is alone and the error would have
shown without the others (`SoundLands`). What does not land is
asked about, because a patch that is refused becomes a question that no later rule
takes away (`CorrectionFacts`).

### What is only model-checked

`JobsEnd`: liveness under fairness is beyond the proof system, and of it only
`JobsSpendTheirBudget` is proved. The six violated
properties are counterexamples and have nothing to prove. Every other property a
run checks is proved.

## 5. Findings

Each has a run that reaches it.

1. **A re-plan is compared with the wrong pair** (`kept_tree`).
   `integrate_with_replans` decides whether the next round keeps the tree by
   comparing the new plan with the pair it passed into the round. If stage 3
   revised the design in that round, the tree follows the revision. A re-plan that
   goes back to the first design keeps a tree ported to the other.
2. **The budget-spent turn's escalation is thrown away** (`escalation_heard`).
   `budget_spent_prompt` offers the agent to escalate; the reply is dumped and not
   parsed, and the loop goes back to the gate.
3. **A `SystemExit` from a turn skips `save_port`** (`port_saved`). `run_llm` raises
   it on `success=False`; stage 3 catches `Exception` only, and the diff that "has
   to be pulled back before the job ends" stays on the node.
4. **A death inside `retire` leaves a gap** (`store_crash`). The next `retire` stops
   at the first number with no file, so the revisions behind the gap stay beside
   the new plan for good.

   The other half of that window is a mixed base pair: a death between the writes
   of `plan.json` and `tests.json` (`plan_node.py:239`) leaves the new port plan
   beside the old test plan, both files exist, and the next `--stage integrate` loads
   them as a pair (9 states; put `HeldPairIsWhole` for the invariant of
   `PlanStoreCrash.cfg` to see it). Nothing in the code detects it and no document
   promises otherwise, so it is not a finding of its own; `store` and the
   theorems about the pair exclude it by `SafeCrash`.

5. **A timed-out build raises** (`gate_timeout`). `TimeoutExpired.stdout` is bytes
   even under `text=True`, so the handler in `CBP2025Node.build` adds bytes and
   `str`: a build that had printed anything ends the attempt in a `TypeError` and
   not in G1. `CBP2025Node.run` does the same when one of the streams is empty.
6. **A dead trace task raises** (`gate_dead_task`). `aggregate` reads `r.trace` of a
   `None`. The adapter's comment and its test say that it counts it as a failure;
   the test replaces `aggregate` by a stub.

GateRun also has `ScoreRaises`: a companion metric whose recorded or measured
baseline is 0 divides by zero, where the entry's own metric is guarded. No document
speaks of it, so no run is about it.

### Read while modelling, no run about them

These are choices of the code that the models keep as they are. No document speaks
against them plainly enough to call them findings, or the models abstract from
them.

Stage 3's revisions:

- The guard keeps the smoke entry's `trace_list` and lets its inline `traces` grow. If
  stage 2 named a list only, a revision may add inline traces, `_traces_of` prefers
  those, and the port is smoke-tested on fewer workloads. `StageTwoDemandsKept`
  claims the inline ones only.
- Of two entries of one key the guard sees the first. `plan_checks.py` reports
  duplicate ids, but not two `interface_resolutions` for one need.
- `review` calls `run_checks` without checkout, recording and measured storage: a
  revision may append an entry whose trace list or baseline does not exist. It is
  frozen from then on, and the gate can never be passed.

The cbp2025 host:

- A command may run the other state's binary after all. `_ensure_tree_state` does not
  look at how its rebuild went (`adapter.py:390`), and `CBP2025Node.build` may fail
  with the old `./cbp` in place: `make clean`'s exit code is not read, and a timeout
  or an `OSError` in it ends the build at once (`cbp2025_node.py:123-137`). The
  docstring of `_ensure_tree_state` calls that "the worst kind of wrong".
  `EvidenceIsOfItsState` therefore has one exception, `unbuilt`: a command whose own
  build was dispatched for this very call and failed. Without it TLC finds, in
  11 states, a feature-off entry that ran the feature-on binary in an attempt
  that passed: on, off (the rebuild fails), then measurements whose bytes were
  held. `PassIsEvidence` is silent about it, as it is about what ran, not on which
  build. Whether a make that was interrupted really leaves a file is up to the
  port's Makefile, which a port with a compile-time knob has to edit.

The gem5 host:

- After a failed on-build, a shell command still finds an older binary at its
  state's path; only dispatched runs are protected (`FanOutIsOfThisAttempt`).
- A resumed port tree is not compared with the commit of the recording
  (`ComparedLikeWithLike` says "unless it was resumed"), and an edit that is undone
  before anybody looks is not noticed, which is right for fingerprints of content.
- `OnlyALostNodeStalls` takes waiting runs to get their slots in the order in which
  they were submitted.

The search:

- An actor left by a killed job may build between the preflight's overlay and its
  build, and make a dead knob look live; `OnlyLiveKnobsAreCredited` excludes exactly
  these preflights (`disturbed`).
- `alternate_value` of an enum may return its default; the knob is then reported
  as one nothing reads.

The review:

- The restriction of the coverage reviewer to `"add"` is never reached, so coverage
  may replace any field (`admissible`).
- Patches that reach one field by different pointers are no dispute; the order of
  application decides. `CorrectionsLandOrAreAsked` leaves them out.
- A default whose range has to be widened is dropped if an unrelated patch of the
  round introduces an error of its own (`settled`, `sound`).
- The coupling of a default and its range works both ways: a verified correction of
  the range that leaves the default outside lands widened, and nobody is asked
  (`narrows`, `widened`).
- A unit that failed and answered only in a round where another one failed is
  reported as never reviewed. `CompleteIsReviewed` is about the other direction.

## 6. Hazards

`PROJECT.json` lists them by line with the properties that would notice. Four have
no property, each with its reason there: torn writes (`write_text` truncates
first), two jobs over one host, the 429 retry of a turn that had already edited the
tree, and a companion metric with a zero baseline.

## 7. What is not modelled

- The checks of wording in `plan_checks.py` and `spec_checks.py` (hedges, patterns,
  pseudocode, English), and all warnings. A proposal that fails one is a refused
  proposal, and the models' documents pass them all.
- A write is one step: a job that dies inside `write_text` would leave half a
  document.
- Two jobs on one host at once, and several hosts in one job. The runbook submits
  one job at a time; hosts share nothing but the spec.
- Whether an agent's edits match the plan. The models assume the tree is a port of
  the pair in force after a turn, as the prompts ask; only `kept_tree` reads this.
- In GateRun, the text of a condition and the arithmetic of an improvement, and
  what a command does to the tree: it is assumed to leave `./cbp` as it found it.
  `command` stands for a command with its environment, as in the cache's key. A
  `make -j` that exits with 0 is assumed to have built `./cbp` from the sources and
  the environment of that call: a clean that fails, followed by a make that takes
  the old objects for up to date and exits with 0, is left out
  (`cbp2025_node.py:123-130`), and so is a compiler that outlives a make that was
  killed on a timeout and puts its `./cbp` there later.
- In Gem5Host, the simulated run itself, an abandoned build that lands after its
  task was given up, and two installs at once. cbp2025's recording follows the same
  rules without fingerprints.
- In DseSearch, the evolver, the text of a formula (it is the set of knobs it
  reads), the preflight's opt-out, and measured constraints, which are a candidate
  that failed. Killing the actor (`dse.py:581`) is assumed to end the build task it
  had in flight (`sr_evaluator.py:237`) too, as Ray cancels the tasks of an owner that
  is gone. Finalists are ranked by score and order of evaluation only:
  `_screen_rank`'s look at `iteration_found` (`dse.py:697`) and the merge of the
  candidate log with the database's record (`dse.py:619-622`) are left out, and so is
  `_map_results`' tolerance: a candidate that lost up to a tenth of the screening
  traces still counts as screened (`sr_evaluator.py:310`).
- In SpecReview, the distiller's first draft (an input), the merge of units beyond
  `REVIEW_MAX_UNITS`, `prune_open_questions`, `carry_source_notes`, the similarity of
  two questions (topics are equal or not), coverage in several chunks, and an `"add"`
  at an element of an array, which inserts and renumbers those behind it.
- The planner's repair turns in stage 2, the 429 retries of a call that has not
  returned, and the LLM gateway, a process of its own whose one credential is under
  one lock.
- Files under `out/`, which nothing reads back, and deployment, scripts,
  experiments and recorded runs.
