------------------------------- MODULE GateRun -------------------------------
(***************************************************************************)
(* Gate attempts on the cbp2025 host: plan_runner.run_test_plan drives the   *)
(* executor of hosts/cbp2025/adapter.py through a test plan, and             *)
(* gate.check_gate judges what came back.                                    *)
(*                                                                         *)
(* The executor compiles the port once, or once per feature state when the  *)
(* enable knob is bound at compile time. It holds the bytes of its builds    *)
(* for trace runs, and believes to know which build is the ./cbp in the      *)
(* tree, which is what a shell command runs. What a failed build leaves       *)
(* there is arbitrary too: the command that asked for it runs all the same.  *)
(* Every remote call is a step; what compiles, exits, matches or completes   *)
(* is arbitrary. The agent edits the tree between two attempts.              *)
(***************************************************************************)
EXTENDS Naturals, Sequences, FiniteSets

CONSTANTS
  TestPlans,   \* the test plans an attempt may be given, with the knob's binding
  TraceList,   \* the traces of every trace list, in order
  MaxAttempts  \* bound: gate attempts

Sides == {"off", "on"}     \* feature_on
Traces == {TraceList[i] : i \in DOMAIN TraceList}
Modes == {"host_adapter", "command_per_trace"}

\* `passes` is the entry's pass_condition: the exit codes and the matches it
\* accepts.
Entry == [kind : {"feature_off_baseline", "other"}, command : STRING,
          state : {"off", "on", "both"},
          passes : [exits : SUBSET {"zero", "other"}, hits : SUBSET BOOLEAN]]
PerformanceEntry == [mode : Modes, measured : BOOLEAN, companion : BOOLEAN]
TestPlan == [rebuild_per_state : BOOLEAN, correctness : Seq(Entry),
             smoke : Modes, performance : Seq(PerformanceEntry)]

\* The schema's types and minItems.
ASSUME GateAssumption ==
  /\ \A p \in TestPlans :
       /\ p \in TestPlan
       /\ p.correctness # <<>> /\ p.performance # <<>>
  /\ TraceList \in Seq(Traces) /\ TraceList # <<>>
  /\ MaxAttempts \in Nat \ {0}

VARIABLES
  plan,      \* the test plan of this attempt
  edition,   \* how often the agent has edited the tree
  pc,        \* what run_test_plan is doing
  held,      \* executor._binaries: the edition of the bytes per build key, or 0
  believed,  \* executor._tree_state, "none" for None
  tree,      \* which build the ./cbp in the tree is
  tried,     \* has the build that the due call begins with been dispatched?
  cache,     \* run_once's cache
  at,        \* index of the entry that is run
  left,      \* the sides, or the traces, it has left
  failing,   \* has it failed in a side it has run in?
  lost,      \* the traces its measurements have lost, by side
  results,   \* TestPlanResults
  verdict,   \* "none", then what the attempt came to
  ran,       \* history: every command, with the build it ran on, whether its own
             \*   build had just failed (unbuilt), and its outcome
  completed, \* history: every completed trace, with the same
  shells,    \* history: correctness commands dispatched
  builds     \* history: builds dispatched

executor == <<held, believed, tree, builds>>
progress == <<at, left, failing, lost, results>>
history == <<ran, completed, shells>>
vars == <<plan, edition, pc, executor, tried, cache, progress, verdict, history>>

NoBuild == [key |-> "none", edition |-> 0]
NoResults == [correctness |-> <<>>, smoke |-> FALSE, performance |-> <<>>]
NothingLost == [side \in Sides |-> {}]

\* Mutant: the results of the last attempt are added to.
results_at_start_Kept == results

\* run_test_plan's TestPlanResults.
results_at_start == NoResults

\* A fresh CBP2025Executor and an empty TestPlanResults.
Init ==
  /\ plan \in TestPlans
  /\ edition = 1
  /\ pc = "build"
  /\ held = [side \in Sides |-> 0]
  /\ believed = "none"
  /\ tree = NoBuild
  /\ tried = FALSE
  /\ cache = <<>>
  /\ at = 0 /\ left = <<>> /\ failing = FALSE /\ lost = NothingLost
  /\ results = NoResults
  /\ verdict = "none"
  /\ ran = {} /\ completed = {} /\ shells = 0 /\ builds = 0

-----------------------------------------------------------------------------
(* The test plan *)

\* _states: the order in which an entry runs in the states it declares.
states(entry) ==
  IF entry.state = "both" THEN <<"off", "on">> ELSE <<entry.state>>

\* What a command can come back with.
Outcomes ==
  [exit : {"zero", "other"}, hit : BOOLEAN, timed_out : {FALSE}]
    \cup {[exit |-> "other", hit |-> FALSE, timed_out |-> TRUE]}

\* evaluate_condition: no timeout, an exit code the condition accepts, and a
\* pattern or comparison that turns out as it asks.
evaluate_condition(entry, outcome) ==
  /\ ~outcome.timed_out
  /\ outcome.exit \in entry.passes.exits
  /\ outcome.hit \in entry.passes.hits

\* Mutant: entries of different kinds do not share an outcome.
cache_key_PerKind(entry, side) == <<entry.command, side, entry.kind>>

\* run_once's key. `command` stands for the command and its environment.
cache_key(entry, side) == <<entry.command, side>>

Current == plan.correctness[at]

Measuring == pc \in {"smoke", "performance_on", "performance_off"}

\* The feature state the due call is made in.
Side ==
  CASE pc = "correctness" -> Head(left)
    [] pc \in {"smoke", "performance_on"} -> "on"
    [] OTHER -> "off"

\* Does it go through the executor's fan-out, or through its shell?
ByAdapter ==
  \/ pc = "smoke" /\ plan.smoke = "host_adapter"
  \/ Measuring /\ pc # "smoke" /\ plan.performance[at].mode = "host_adapter"

ByShell == Measuring /\ ~ByAdapter

-----------------------------------------------------------------------------
(* The executor *)

\* Mutant: every state has a build of its own, whatever the binding.
build_key_PerState(side) == side

\* _build_key
build_key(side) == IF plan.rebuild_per_state THEN side ELSE "off"

\* Mutant: a state whose bytes are held is taken to be in the tree.
tree_is_stale_Held(side) == plan.rebuild_per_state /\ held[build_key(side)] = 0

\* _ensure_tree_state: must the tree be rebuilt before a command in `side`?
tree_is_stale(side) == plan.rebuild_per_state /\ believed # build_key(side)

\* Does the due call begin with a build? build, _binary_for, _ensure_tree_state
BuildIsDue ==
  /\ ~tried
  /\ \/ pc = "build" /\ ~(held["off"] # 0 /\ believed = "off")
     \/ ByAdapter /\ held[build_key(Side)] = 0
     \/ ByShell /\ tree_is_stale(Side)
     \/ /\ pc = "correctness"
        /\ cache_key(Current, Side) \notin DOMAIN cache
        /\ tree_is_stale(Side)

\* CBP2025Node.build: make clean, then make -j, in the state's environment.
BuildSucceeds ==
  /\ BuildIsDue
  /\ held' = [held EXCEPT ![build_key(Side)] = edition]
  /\ believed' = build_key(Side)
  /\ tree' = [key |-> build_key(Side), edition |-> edition]
  /\ builds' = builds + 1
  /\ tried' = TRUE
  /\ UNCHANGED <<plan, edition, pc, cache, progress, verdict, history>>

\* The ./cbp a build that fails, or whose worker dies, may leave: none; the one
\* that was there, since a `make clean` that fails or overruns is not looked at
\* or ends the build at once; or its own, of a make that fails after linking it.
left_by_failed_build ==
  {NoBuild, tree, [key |-> build_key(Side), edition |-> edition]}

\* It does not compile, or times out before any output. Outside G1 the caller
\* goes on: _ensure_tree_state does not look, _binary_for finds no bytes.
BuildFails ==
  /\ BuildIsDue
  /\ believed' = "none"
  /\ tree' \in left_by_failed_build
  /\ builds' = builds + 1
  /\ tried' = TRUE
  /\ UNCHANGED <<plan, edition, pc, held, cache, progress, verdict, history>>

\* It times out with output: bytes + str, a TypeError that reaches integrate.
BuildRaises ==
  /\ BuildIsDue
  /\ tree' \in left_by_failed_build
  /\ builds' = builds + 1
  /\ tried' = TRUE
  /\ verdict' = "build raised"
  /\ pc' = "over"
  /\ UNCHANGED <<plan, edition, held, believed, cache, progress, history>>

\* Did the build that the due call began with fail? Nobody looks.
Unbuilt == tried /\ believed = "none"

-----------------------------------------------------------------------------
(* run_test_plan *)

\* A measurement begins.
Measure(step, i) ==
  /\ pc' = step
  /\ at' = i
  /\ left' = TraceList
  /\ tried' = FALSE

ToEntry(i) ==
  IF i <= Len(plan.correctness)
    THEN /\ pc' = "correctness"
         /\ at' = i
         /\ left' = states(plan.correctness[i])
         /\ tried' = FALSE
    ELSE Measure("smoke", 0)

ToPerformance(i) ==
  IF i <= Len(plan.performance)
    THEN Measure("performance_on", i)
    ELSE /\ pc' = "judge"
         /\ UNCHANGED <<at, left, tried>>

\* The build that G1 asks for is there, or the attempt is over.
AfterBuild ==
  /\ pc = "build"
  /\ ~BuildIsDue
  /\ IF believed = "off"
       THEN ToEntry(1) /\ UNCHANGED verdict
       ELSE verdict' = "refused" /\ pc' = "over" /\ UNCHANGED <<at, left, tried>>
  /\ UNCHANGED <<plan, edition, executor, cache, failing, lost, results, history>>

\* The entry's condition is evaluated in one state; after the last one its
\* result is complete.
Evaluated(outcome) ==
  LET bad == failing \/ ~evaluate_condition(Current, outcome) IN
  /\ IF Len(left) = 1
       THEN /\ results' = [results EXCEPT !.correctness = Append(@, ~bad)]
            /\ failing' = FALSE
            /\ ToEntry(at + 1)
       ELSE /\ left' = Tail(left)
            /\ failing' = bad
            /\ tried' = FALSE
            /\ UNCHANGED <<pc, at, results>>
  /\ UNCHANGED <<plan, edition, executor, lost, verdict, completed>>

\* run_once, the first time: the command runs whatever ./cbp is in the tree.
RunCommand ==
  /\ pc = "correctness"
  /\ cache_key(Current, Side) \notin DOMAIN cache
  /\ ~BuildIsDue
  /\ \E outcome \in Outcomes :
       /\ cache' = [k \in DOMAIN cache \cup {cache_key(Current, Side)} |->
                     IF k \in DOMAIN cache THEN cache[k] ELSE outcome]
       /\ ran' = ran \cup {[command |-> Current.command, side |-> Side,
                            build |-> tree, unbuilt |-> Unbuilt,
                            outcome |-> outcome]}
       /\ Evaluated(outcome)
  /\ shells' = shells + 1

\* run_once, from its cache.
ReuseOutcome ==
  /\ pc = "correctness"
  /\ cache_key(Current, Side) \in DOMAIN cache
  /\ Evaluated(cache[cache_key(Current, Side)])
  /\ UNCHANGED <<cache, ran, shells>>

\* The result of a performance entry is complete.
Scored(failed_traces, gain) ==
  /\ results' = [results EXCEPT
       !.performance = Append(@, [failed_traces |-> failed_traces, gain |-> gain])]
  /\ lost' = NothingLost
  /\ ToPerformance(at + 1)

\* A measurement has lost the traces `missing`, all of them included. With no
\* trace left feature-on there is no metric, and no feature-off run.
Measured(missing) ==
  \/ /\ pc = "smoke"
     /\ results' = [results EXCEPT !.smoke = (missing = {})]
     /\ lost' = NothingLost
     /\ ToPerformance(1)
  \/ pc = "performance_on" /\ missing = Traces /\ Scored(missing, "short")
  \/ /\ pc = "performance_on" /\ missing # Traces
     /\ lost' = [lost EXCEPT !["on"] = missing]
     /\ UNCHANGED results
     /\ IF plan.performance[at].measured
          THEN Measure("performance_off", at)
          ELSE pc' = "score" /\ UNCHANGED <<at, left, tried>>
  \/ /\ pc = "performance_off"
     /\ lost' = [lost EXCEPT !["off"] = missing]
     /\ pc' = "score"
     /\ UNCHANGED <<results, at, left, tried>>

\* _traces_of finds no such list: a failed entry, never an exception.
TraceListMissing ==
  /\ pc \in {"smoke", "performance_on"}
  /\ left = TraceList /\ ~tried
  /\ \/ /\ pc = "smoke"
        /\ results' = [results EXCEPT !.smoke = FALSE]
        /\ ToPerformance(1)
        /\ UNCHANGED lost
     \/ pc = "performance_on" /\ Scored({}, "short")
  /\ UNCHANGED <<plan, edition, executor, cache, failing, verdict, history>>

Completion(traces, build, unbuilt) ==
  {[entry |-> at, side |-> Side, trace |-> t, build |-> build,
    unbuilt |-> unbuilt] : t \in traces}

\* run_traces: every trace in a task of its own, on the bytes of the build.
RunTraces ==
  /\ ByAdapter
  /\ ~BuildIsDue
  /\ LET bytes == [key |-> build_key(Side), edition |-> held[build_key(Side)]]
     IN \E missing \in (IF bytes.edition = 0 THEN {Traces} ELSE SUBSET Traces) :
          /\ completed' = completed \cup Completion(Traces \ missing, bytes, FALSE)
          /\ Measured(missing)
  /\ UNCHANGED <<plan, edition, executor, cache, failing, verdict, ran, shells>>

\* A task died and get returned None: aggregate's r.trace, an AttributeError.
AggregateRaises ==
  /\ ByAdapter
  /\ held[build_key(Side)] # 0
  /\ verdict' = "aggregate raised"
  /\ pc' = "over"
  /\ UNCHANGED <<plan, edition, executor, tried, cache, progress, history>>

\* A trace timed out with output on one stream: bytes + str, a TypeError.
TraceRaises ==
  /\ ByAdapter
  /\ held[build_key(Side)] # 0
  /\ verdict' = "trace raised"
  /\ pc' = "over"
  /\ UNCHANGED <<plan, edition, executor, tried, cache, progress, history>>

\* _measure's own loop: one shell command per trace, on the ./cbp in the tree.
\* It completes with exit code zero and a metrics row, or the trace is lost.
RunTraceCommand ==
  /\ ByShell
  /\ ~BuildIsDue
  /\ \E ok \in {FALSE} \cup {tree # NoBuild} :
       LET missing == lost[Side] \cup (IF ok THEN {} ELSE {Head(left)}) IN
       /\ completed' = completed \cup
            (IF ok THEN Completion({Head(left)}, tree, Unbuilt) ELSE {})
       /\ IF Len(left) = 1
            THEN Measured(missing)
            ELSE /\ lost' = [lost EXCEPT ![Side] = missing]
                 /\ left' = Tail(left)
                 /\ tried' = FALSE
                 /\ UNCHANGED <<pc, at, results>>
  /\ UNCHANGED <<plan, edition, executor, cache, failing, verdict, ran, shells>>

\* Mutant: only the feature-on side's failures are kept.
failed_traces_On == lost["on"]

\* The traces either side did not complete.
failed_traces == lost["on"] \cup lost["off"]

\* _run_performance's arithmetic: the entry misses its floor or regresses a
\* companion, beats the floor, or meets the claimed target too. Without a
\* baseline value it can only miss.
Score ==
  /\ pc = "score"
  /\ \E gain \in {"short", "floor", "target"} :
       /\ lost["off"] = Traces => gain = "short"
       /\ Scored(failed_traces, gain)
  /\ UNCHANGED <<plan, edition, executor, cache, failing, verdict, history>>

\* The worker dies under a build or a command: what get returns has no success
\* and no exit_code, or get itself raises.
HostRaises ==
  /\ \/ BuildIsDue /\ tree' \in left_by_failed_build
     \/ ByShell /\ UNCHANGED tree
     \/ /\ pc = "correctness"
        /\ cache_key(Current, Side) \notin DOMAIN cache
        /\ UNCHANGED tree
  /\ verdict' = "host raised"
  /\ pc' = "over"
  /\ UNCHANGED <<plan, edition, held, believed, builds, tried, cache, progress,
                 history>>

\* A companion metric whose baseline is 0: a ZeroDivisionError.
ScoreRaises ==
  /\ pc = "score"
  /\ plan.performance[at].companion
  /\ lost["off"] # Traces
  /\ verdict' = "score raised"
  /\ pc' = "over"
  /\ UNCHANGED <<plan, edition, executor, tried, cache, progress, history>>

-----------------------------------------------------------------------------
(* check_gate, and the next attempt *)

HasBaselineEntry ==
  \E i \in DOMAIN plan.correctness :
    plan.correctness[i].kind = "feature_off_baseline"

\* Mutant: a shortfall from the claimed target is a reason.
block_passed_Target(result) == result.gain = "target"

\* block_threshold holds; warn_threshold only warns.
block_passed(result) == result.gain # "short"

\* Mutant: an entry is scored on the traces that survived.
reasons_Survivors ==
  \/ ~HasBaselineEntry
  \/ \E i \in DOMAIN results.correctness : ~results.correctness[i]
  \/ ~results.smoke
  \/ \E i \in DOMAIN results.performance : ~block_passed(results.performance[i])

\* Is there any reason, G2 to G5?
reasons ==
  \/ ~HasBaselineEntry
  \/ \E i \in DOMAIN results.correctness : ~results.correctness[i]
  \/ ~results.smoke
  \/ \E i \in DOMAIN results.performance :
       \/ results.performance[i].failed_traces # {}
       \/ ~block_passed(results.performance[i])

CheckGate ==
  /\ pc = "judge"
  /\ verdict' = IF reasons THEN "refused" ELSE "passed"
  /\ pc' = "over"
  /\ UNCHANGED <<plan, edition, executor, tried, cache, progress, history>>

\* Mutant: the executor of the last attempt is used again.
executor_for_attempt_Reused == UNCHANGED <<held, believed>>

\* run_gate: "A fresh executor per attempt on purpose".
executor_for_attempt ==
  /\ held' = [side \in Sides |-> 0]
  /\ believed' = "none"

\* The agent has had its turn, a revision may have changed the plan, and the
\* gate runs again. The ./cbp of the last attempt is still in the tree.
NextAttempt ==
  /\ pc = "over"
  /\ edition < MaxAttempts
  /\ plan' \in TestPlans
  /\ edition' = edition + 1
  /\ executor_for_attempt
  /\ pc' = "build"
  /\ tried' = FALSE
  /\ cache' = <<>>
  /\ at' = 0 /\ left' = <<>> /\ failing' = FALSE /\ lost' = NothingLost
  /\ results' = results_at_start
  /\ verdict' = "none"
  /\ ran' = {} /\ completed' = {} /\ shells' = 0 /\ builds' = 0
  /\ UNCHANGED tree

\* The last attempt is over.
Stop == pc = "over" /\ edition = MaxAttempts /\ UNCHANGED vars

Next ==
  \/ BuildSucceeds \/ BuildFails \/ BuildRaises \/ AfterBuild
  \/ RunCommand \/ ReuseOutcome
  \/ TraceListMissing \/ RunTraces \/ RunTraceCommand
  \/ AggregateRaises \/ TraceRaises \/ HostRaises
  \/ Score \/ ScoreRaises \/ CheckGate
  \/ NextAttempt \/ Stop

Spec == Init /\ [][Next]_vars

-----------------------------------------------------------------------------
(* Properties *)

Builds == [key : Sides \cup {"none"}, edition : 0..MaxAttempts]
Commands == UNION {{p.correctness[i].command : i \in DOMAIN p.correctness} : p \in TestPlans}

CommandRuns == [command : Commands, side : Sides, build : Builds,
                unbuilt : BOOLEAN, outcome : Outcomes]
CompletedTraces == [entry : Nat, side : Sides, trace : Traces, build : Builds,
                    unbuilt : BOOLEAN]

\* Every variable keeps its type.
TypeOK ==
  /\ plan \in TestPlans
  /\ edition \in 1..MaxAttempts
  /\ pc \in {"build", "correctness", "smoke", "performance_on",
             "performance_off", "score", "judge", "over"}
  /\ held \in [Sides -> 0..MaxAttempts]
  /\ believed \in Sides \cup {"none"}
  /\ tree \in Builds
  /\ tried \in BOOLEAN
  /\ DOMAIN cache \subseteq Commands \X Sides
  /\ at \in Nat
  /\ failing \in BOOLEAN
  /\ lost \in [Sides -> SUBSET Traces]
  /\ results.correctness \in Seq(BOOLEAN)
  /\ Len(results.correctness) \leq Len(plan.correctness)
  /\ results.smoke \in BOOLEAN
  /\ Len(results.performance) \leq Len(plan.performance)
  /\ verdict \in {"none", "passed", "refused", "build raised", "trace raised",
                  "aggregate raised", "host raised", "score raised"}
  /\ ran \subseteq CommandRuns
  /\ completed \subseteq CompletedTraces
  /\ shells \in Nat /\ builds \in Nat

\* Whatever the order of the entries, their states and the builds that failed
\* before, a command runs the ./cbp of its state and a trace the bytes of its
\* state ("The entry would then measure the baseline and pass, which is the worst
\* kind of wrong", _ensure_tree_state). The one exception is the code's: a command
\* whose own build was asked for and failed runs what that build left in the tree.
EvidenceIsOfItsState ==
  \A r \in ran \cup completed : r.unbuilt \/ r.build.key = build_key(r.side)

\* Nothing is measured on a build of an earlier edition of the tree ("a cached
\* binary is a measurement of the previous attempt wearing this attempt's
\* verdict", run_gate).
EvidenceIsOfThisAttempt ==
  /\ \A r \in ran : r.build # NoBuild => r.build.edition = edition
  /\ \A c \in completed : c.build.edition = edition

\* What the test plan asks for, found in what was run: every condition held in
\* every state it was declared for, every trace of every side of every
\* measurement completed, and every entry beat its floor.
Evidence ==
  /\ HasBaselineEntry
  /\ \A i \in DOMAIN plan.correctness :
       LET entry == plan.correctness[i] IN
       \A j \in DOMAIN states(entry) :
         \E r \in ran :
           /\ r.command = entry.command
           /\ r.side = states(entry)[j]
           /\ evaluate_condition(entry, r.outcome)
  /\ \A t \in Traces : \E c \in completed : c.entry = 0 /\ c.trace = t
  /\ \A i \in DOMAIN plan.performance :
       /\ \A t \in Traces :
            \A side \in {"on"} \cup (IF plan.performance[i].measured THEN {"off"} ELSE {}) :
              \E c \in completed : c.entry = i /\ c.side = side /\ c.trace = t
       /\ i \in DOMAIN results.performance
       /\ results.performance[i].gain # "short"

\* A port passes the gate only on complete evidence: no verdict comes from a
\* shared outcome, a lost trace or the traces that survived (check_gate).
PassIsEvidence == verdict = "passed" => Evidence

\* A port is refused only for something that failed, never for a shortfall from
\* the claimed target ("warnings, never reasons", gate.py).
RefusalHasACause == verdict = "refused" => ~Evidence

\* Entries that share a command share its run ("once each", run_test_plan).
CommandsRunOnce ==
  shells \leq Cardinality({<<r.command, r.side>> : r \in ran})

\* A knob read at run time costs one build per attempt ("rebuilding anyway would
\* double every gate attempt's build time for nothing", CBP2025Executor).
OneBuildAtRunTime == ~plan.rebuild_per_state => builds \leq 1

-----------------------------------------------------------------------------
(* Claims of the code's comments that its behaviour contradicts *)

\* A build or a trace that overruns its timeout fails, and the gate reports it
\* ("A timeout is a failed entry with a reason, never an exception",
\* plan_runner; "a failed build with its log, never an exception",
\* CBP2025Node.build).
TimeoutIsNeverAnException == verdict \notin {"build raised", "trace raised"}

\* A trace task that died is a failed trace ("aggregate() already counts it as a
\* failure", run_traces).
DeadTaskIsAFailedTrace == verdict # "aggregate raised"
=============================================================================
