------------------------------ MODULE Gem5Host ------------------------------
(***************************************************************************)
(* The gem5 host (hosts/gem5/adapter.py): the trees and the run directory    *)
(* on its node, the recorded baseline, and the gate attempts of stage 3      *)
(* against a plan that stage 3 may revise (PlanGuard).                      *)
(*                                                                         *)
(* One job at a time records a baseline, plans, or integrates. Meanwhile     *)
(* people edit the run scripts and the workloads in the repository, and      *)
(* between jobs they move the pristine checkout. The node may stop           *)
(* answering, and a remote task may die partway: the head then waits once,   *)
(* cancels, and a cancelled task does not act again. A version of a file is  *)
(* a number that an edit has never used before.                             *)
(***************************************************************************)
EXTENDS PlanGuard, SequencesExt

CONSTANTS
  Workloads,    \* the workloads of the manifest, all of them in TraceLists
  Lists,        \* the workload lists a baseline is recorded over
  Slots,        \* the node's GEM5_HOST_RESOURCE: runs at one time
  RunLimit,     \* C.GEM5_RUN_TIMEOUT_S, in ticks
  MaxEdits,     \* bound: edits to the repository's files
  MaxCommits,   \* bound: commits the pristine checkout is moved to
  MaxAttempts,  \* C.NUM_INTEGRATION_ATTEMPTS
  MaxJobs       \* bound: jobs

ASSUME Gem5Assumption ==
  /\ Lists \subseteq SUBSET Workloads /\ {} \notin Lists
  /\ Slots \in Nat \ {0} /\ RunLimit \in Nat \ {0}
  /\ MaxEdits \in Nat \ {0} /\ MaxCommits \in Nat \ {0} /\ MaxAttempts \in Nat /\ MaxJobs \in Nat

VARIABLES
  files,     \* in the repository: the version of the run scripts, of each workload
  edits,     \* the newest version
  commit,    \* the commit GEM5_ROOT is at
  dirty,     \* has an agent left something in GEM5_ROOT?
  port,      \* GEM5_PORT_ROOT: its commit, the agent's edition, was it resumed?
  rundir,    \* GEM5_RUN_DIR: what is installed, and the marker
  copies,    \* the edition of the binary at each state's path in the port tree
  baseline,  \* baselines/<budget>.json: commit, per_trace, fingerprints
  stage,     \* what the running job does: "none", "baseline", "integrate"
  pc,        \* where in the stage it is
  jobs,      \* how many jobs have started
  answering, \* is the node answering?
  payload,   \* the tar the running install unpacks
  recording, \* record_baseline's list, fingerprints and measurements
  held,      \* the baseline integrate holds in memory
  attempt,   \* gate attempts of this job
  binaries,  \* executor._binaries: the states it holds a path for
  todo,      \* the fan-outs the attempt has left
  fan,       \* run_workloads, while it awaits its runs
  results,   \* what the attempt's entries came to
  verdict    \* "none", then what the attempt came to

repo == <<files, edits, commit>>
node == <<dirty, port, rundir, copies>>
job == <<stage, pc, jobs, answering>>
gating == <<attempt, binaries, todo, fan, results, verdict>>
gemVars == <<repo, node, baseline, job, payload, recording, held, gating>>
vars == <<planVars, gemVars>>

Tampered == MaxEdits + 1   \* the version of a file the agent's shell wrote
NoContents == [scripts |-> 0, loads |-> [w \in Workloads |-> 0]]  \* nothing installed
States == {"off", "on"}
NoBaseline == [commit |-> 0, per_trace |-> <<>>, prints |-> <<>>]
NoRecording == [names |-> {}, prints |-> <<>>, measured |-> <<>>]
NoPort == [commit |-> 0, edition |-> 0, resumed |-> FALSE]
NoFan == [queue |-> <<>>, next |-> 1, ticks |-> <<>>, waited |-> 0, lost |-> 0,
          stalled |-> FALSE, good |-> {}]
NoResults == [correct |-> {}, good |-> {}, compared |-> {}, ran |-> {}]

\* What a recording of every workload, with nobody near it, leaves behind.
Recording1 ==
  [commit |-> 1, prints |-> [w \in Workloads |-> <<1, 1>>],
   per_trace |-> [w \in Workloads |-> [print |-> <<1, 1>>, added |-> FALSE,
                                       dirty |-> FALSE, commit |-> 1]]]

Init ==
  /\ PlanInit
  /\ files = [scripts |-> 1, loads |-> [w \in Workloads |-> 1]]
  /\ edits = 1 /\ commit = 1
  /\ dirty = FALSE
  /\ port = NoPort
  /\ rundir = [has |-> NoContents, added |-> FALSE, marker |-> NoContents]
  /\ copies = [s \in States |-> 0]
  /\ baseline \in {NoBaseline, Recording1}
  /\ stage = "none" /\ pc = "idle" /\ jobs = 0 /\ answering = TRUE
  /\ payload = NoContents
  /\ recording = NoRecording
  /\ held = NoBaseline
  /\ attempt = 0 /\ binaries = {} /\ todo = <<>> /\ fan = NoFan
  /\ results = NoResults /\ verdict = "none"

-----------------------------------------------------------------------------
(* People *)

\* Somebody edits the run scripts or a workload, at any time.
EditFiles ==
  /\ edits < MaxEdits
  /\ edits' = edits + 1
  /\ \/ files' = [files EXCEPT !.scripts = edits']
     \/ \E w \in Workloads : files' = [files EXCEPT !.loads[w] = edits']
  /\ UNCHANGED <<planVars, commit, node, baseline, job, payload, recording, held, gating>>

\* Somebody checks another gem5 commit out in GEM5_ROOT, between two jobs.
MoveCheckout ==
  /\ stage = "none"
  /\ commit < MaxCommits
  /\ commit' = commit + 1
  /\ UNCHANGED <<planVars, files, edits, node, baseline, job, payload, recording, held,
                 gating>>

-----------------------------------------------------------------------------
(* Jobs and remote tasks *)

JobStarts(which, where) ==
  /\ stage = "none" /\ jobs < MaxJobs
  /\ stage' = which /\ pc' = where /\ jobs' = jobs + 1
  /\ results' = NoResults /\ verdict' = "none"
  /\ UNCHANGED answering

\* The stage is over, or a SystemExit ends it: what it had in memory is gone.
JobEnds ==
  /\ stage' = "none" /\ pc' = "idle" /\ answering' = TRUE
  /\ payload' = NoContents /\ recording' = NoRecording /\ held' = NoBaseline
  /\ attempt' = 0 /\ binaries' = {} /\ todo' = <<>> /\ fan' = NoFan
  /\ UNCHANGED jobs

Goto(where) ==
  /\ pc' = where
  /\ UNCHANGED <<stage, jobs, answering>>

\* _node_call, install_run_dir_on_cluster, record_baseline: the node does not
\* answer, or the task dies or fails, and the stage ends where it stood.
TaskLost ==
  /\ pc \in {"restore", "copy", "install", "scripts", "workloads", "marker", "build"}
  /\ JobEnds
  /\ UNCHANGED <<planVars, repo, node, baseline, results, verdict>>

-----------------------------------------------------------------------------
(* install_run_dir *)

\* Mutant: a marker of the same payload is believed.
drift_Ignored == FALSE

\* _drift: a file is not what the marker says, is gone, or is one too many.
drift == rundir.has # rundir.marker \/ rundir.added

\* Where record_baseline, default_adapter and gate_attempt go on.
Installed ==
  Goto(CASE stage = "baseline" -> "build"
         [] stage # "baseline" /\ attempt = 0 -> "preflight"
         [] OTHER -> "check")

\* Nothing to do while the marker is of this payload and nothing has drifted.
InstallNoOp ==
  /\ pc = "install"
  /\ rundir.marker = files /\ ~drift
  /\ Installed
  /\ UNCHANGED <<planVars, repo, node, baseline, payload, recording, held, gating>>

\* Otherwise build_run_payload's tar is unpacked beside, and the marker goes.
InstallBegins ==
  /\ pc = "install"
  /\ rundir.marker # files \/ drift
  /\ payload' = files
  /\ rundir' = [rundir EXCEPT !.marker = NoContents]
  /\ Goto("scripts")
  /\ UNCHANGED <<planVars, repo, dirty, port, copies, baseline, recording, held, gating>>

\* The top-level entries are renamed into place one by one, and every other
\* entry is moved out; the marker is written last.
InstallStep ==
  /\ \/ /\ pc = "scripts"
        /\ rundir' = [rundir EXCEPT !.has.scripts = payload.scripts]
        /\ Goto("workloads") /\ UNCHANGED payload
     \/ /\ pc = "workloads"
        /\ rundir' = [rundir EXCEPT !.has.loads = payload.loads, !.added = FALSE]
        /\ Goto("marker") /\ UNCHANGED payload
     \/ /\ pc = "marker"
        /\ rundir' = [rundir EXCEPT !.marker = payload]
        /\ payload' = NoContents
        /\ Installed
  /\ UNCHANGED <<planVars, repo, dirty, port, copies, baseline, recording, held, gating>>

-----------------------------------------------------------------------------
(* What an agent leaves behind *)

\* What an agent's shell may do to the run directory: nothing, write a run
\* script or a workload, or put a file next to them.
ShellEdits ==
  {rundir, [rundir EXCEPT !.has.scripts = Tampered], [rundir EXCEPT !.added = TRUE]}
  \cup {[rundir EXCEPT !.has.loads[w] = Tampered] : w \in Workloads}

\* Stage 2's planner has a shell in GEM5_ROOT.
PlannerWorks ==
  /\ stage = "none" /\ jobs < MaxJobs
  /\ jobs' = jobs + 1
  /\ dirty' = TRUE
  /\ rundir' \in ShellEdits
  /\ UNCHANGED <<planVars, repo, port, copies, baseline, stage, pc, answering, payload,
                 recording, held, gating>>

-----------------------------------------------------------------------------
(* record_baseline *)

\* Everything that decides a workload's numbers apart from gem5 itself.
workload_fingerprint(w) == <<files.scripts, files.loads[w]>>

\* What a run of the workload would read from the run directory.
content(w) == <<rundir.has.scripts, rundir.has.loads[w]>>

\* The fingerprints are taken before the install, of the list and of what the
\* earlier recording holds.
StartBaseline(list) ==
  /\ JobStarts("baseline", "restore")
  /\ recording' =
       [names |-> list,
        prints |-> [w \in list \cup DOMAIN baseline.per_trace |-> workload_fingerprint(w)],
        measured |-> <<>>]
  /\ UNCHANGED <<planVars, repo, node, baseline, payload, held, attempt, binaries, todo, fan>>

\* restore_host_checkout: reset and clean, build/ stays.
RestoreCheckout ==
  /\ pc = "restore"
  /\ dirty' = FALSE
  /\ Goto("install")
  /\ UNCHANGED <<planVars, repo, port, rundir, copies, baseline, payload, recording, held,
                 gating>>

\* build_tree, then run_workloads with no enable environment: the runs that
\* succeed are of what is installed, on the pristine tree as it is.
RunBaseline ==
  /\ pc = "build"
  /\ \E good \in SUBSET recording.names :
       recording' = [recording EXCEPT !.measured =
         [w \in good |-> [print |-> content(w), added |-> rundir.added, dirty |-> dirty,
                          commit |-> commit]]]
  /\ Goto("record")
  /\ UNCHANGED <<planVars, repo, node, baseline, payload, held, gating>>

\* Mutant: the fingerprints are not looked at again after the runs.
moved_Never == {}

\* The workloads whose files are no longer what was fingerprinted.
moved == {w \in recording.names : workload_fingerprint(w) # recording.prints[w]}

\* The earlier entries of the same revision whose fingerprint still matches.
carried ==
  {w \in DOMAIN baseline.per_trace \ DOMAIN recording.measured :
     baseline.commit = commit /\ recording.prints[w] = baseline.prints[w]}

\* A recording over part of the list, or of files that moved, leaves the
\* baseline file alone.
RecordBaseline ==
  /\ pc = "record"
  /\ LET names == recording.names
         kept == names \cup carried
     IN baseline' =
          IF moved # {} \/ DOMAIN recording.measured # names THEN baseline
          ELSE [commit |-> commit,
                per_trace |-> [w \in kept |-> IF w \in names THEN recording.measured[w]
                                                            ELSE baseline.per_trace[w]],
                prints |-> [w \in kept |-> recording.prints[w]]]
  /\ JobEnds
  /\ UNCHANGED <<planVars, repo, node, results, verdict>>

-----------------------------------------------------------------------------
(* Stage 3 up to the first gate attempt *)

\* clean_port_tree: a fresh tree goes before the copy starts.
StartIntegrate(fresh) ==
  /\ JobStarts("integrate", "copy")
  /\ port' = IF fresh THEN NoPort ELSE port
  /\ copies' = IF fresh THEN [s \in States |-> 0] ELSE copies
  /\ UNCHANGED <<planVars, repo, dirty, rundir, baseline, payload, recording, held,
                 attempt, binaries, todo, fan>>

\* materialize_port_tree: the copy lands beside and is renamed into place, then
\* reset and cleaned; a tree that is there is picked up as it is.
CopyTree ==
  /\ pc = "copy"
  /\ port' = IF port = NoPort THEN [commit |-> commit, edition |-> 1, resumed |-> FALSE]
             ELSE [port EXCEPT !.resumed = TRUE]
  /\ Goto("install")
  /\ UNCHANGED <<planVars, repo, dirty, rundir, copies, baseline, payload, recording,
                 held, gating>>

\* baseline_pointers
baseline_pointers(tests) ==
  {tests.correctness[i].pass_condition.pointer : i \in
     {j \in DOMAIN tests.correctness :
        tests.correctness[j].pass_condition.kind = "metrics_equal_baseline"}}
  \cup {tests.performance[i].baseline.pointer : i \in
          {j \in DOMAIN tests.performance :
             tests.performance[j].baseline.source = "recorded"}}

\* One pointer's part of baseline_workloads: a workload, or all of the recording.
pointed(pointer, recorded) ==
  IF pointer \in Workloads THEN {pointer} ELSE DOMAIN recorded.per_trace

\* baseline_workloads: those whose recorded numbers the plan compares against.
baseline_workloads(tests, recorded) ==
  UNION {pointed(p, recorded) : p \in baseline_pointers(tests)}

\* baseline_problems: is the recording of another commit, or of other files?
baseline_problems(recorded, tests) ==
  \/ recorded.commit # commit
  \/ \E w \in baseline_workloads(tests, recorded) :
       \/ w \notin DOMAIN recorded.prints
       \/ recorded.prints[w] # workload_fingerprint(w)

\* No baseline, or check_baseline_current exits, before the agent's first turn.
Preflight ==
  /\ pc = "preflight"
  /\ IF baseline = NoBaseline \/ baseline_problems(baseline, inforce.tests)
       THEN JobEnds
       ELSE /\ held' = baseline
            /\ Goto("turn")
            /\ UNCHANGED <<payload, recording, attempt, binaries, todo, fan>>
  /\ UNCHANGED <<planVars, repo, node, baseline, results, verdict>>

\* run_llm's turn: the agent writes the port and may touch the run directory. A
\* debug turn may revise the plan. The last attempt's turn ends the loop.
AgentTurn ==
  /\ pc = "turn"
  /\ port' = [port EXCEPT !.edition = @ + 1]
  /\ rundir' \in ShellEdits
  /\ \/ UNCHANGED planVars
     \/ attempt > 0 /\ PlanNext
  /\ IF attempt < MaxAttempts
       THEN /\ attempt' = attempt + 1
            /\ Goto("install")
            /\ UNCHANGED <<payload, recording, held, binaries, todo, fan>>
       ELSE JobEnds
  /\ UNCHANGED <<repo, dirty, copies, baseline, results, verdict>>

\* The reply escalates, or the backend fails.
StageStops ==
  /\ pc = "turn"
  /\ JobEnds
  /\ UNCHANGED <<planVars, repo, node, baseline, results, verdict>>

-----------------------------------------------------------------------------
(* gate_attempt *)

\* check_baseline_current, next to the attempt's install, against the plan in
\* force. A stale baseline ends the stage.
CheckBaseline ==
  /\ pc = "check"
  /\ IF baseline_problems(held, inforce.tests)
       THEN JobEnds
       ELSE /\ Goto("gate")
            /\ UNCHANGED <<payload, recording, held, attempt, binaries, todo, fan>>
  /\ UNCHANGED <<planVars, repo, node, baseline, results, verdict>>

\* Gem5Executor.__init__: does flipping the knob cost a build, can it be set?
binding == inforce.port.feature_enable.binding
rebuild_per_state == binding \in {"compile_time_define", "build_config"}
undeliverable == binding \in {"python_param", "constructor_arg", "other"}

\* _build_key
build_key(state) == IF rebuild_per_state /\ state = "on" THEN "on" ELSE "off"

\* build, of each of these keys: the edition in the tree gets the key's path.
built(keys) == [s \in States |-> IF s \in keys THEN port.edition ELSE copies[s]]

Refused == verdict' = "refused" /\ results' = NoResults

\* run_test_plan's first build, by a new executor. It may fail, and it does
\* when the run scripts cannot set the knob: that is G1.
BuildOff ==
  /\ pc = "gate"
  /\ \/ /\ ~undeliverable
        /\ copies' = built({"off"})
        /\ binaries' = {"off"}
        /\ results' = NoResults /\ verdict' = "none"
        /\ Goto("correctness")
     \/ /\ binaries' = {}
        /\ Refused
        /\ Goto("turn")
        /\ UNCHANGED copies
  /\ UNCHANGED <<planVars, repo, dirty, port, rundir, baseline, payload, recording, held,
                 attempt, todo, fan>>

\* What the recording says of these workloads, next to what ran.
compare(ws) ==
  {[run |-> content(w), added |-> rundir.added, commit |-> port.commit,
    against |-> held.per_trace[w]] : w \in ws \cap DOMAIN held.per_trace}

\* The states a performance entry is measured in: the clean side of one with a
\* recorded baseline was measured long ago.
sides(e) == IF e.baseline.source = "recorded" THEN <<"on">> ELSE <<"on", "off">>

\* The fan-outs of the smoke section and of the performance entries.
measurements(tests) ==
  LET of(e) == [k \in DOMAIN sides(e) |->
                  [id |-> e.id, side |-> sides(e)[k], traces |-> traces_of(e)]]
  IN <<[id |-> "smoke", side |-> "on", traces |-> traces_of(tests.smoke)]>>
     \o FlattenSeq([i \in DOMAIN tests.performance |-> of(tests.performance[i])])

\* The correctness entries, each through the shell in its state, with the tree
\* rebuilt for it (_ensure_tree_state). A rebuild may fail, any entry may; which
\* of them failed is not told apart.
RunCorrectness ==
  /\ pc = "correctness"
  /\ LET entries == inforce.tests.correctness
         on == rebuild_per_state /\ \E i \in DOMAIN entries : entries[i].feature_state # "off"
     IN /\ \E keys \in SUBSET (IF on THEN {"on"} ELSE {}) :
             /\ copies' = built(keys)
             /\ binaries' = binaries \cup keys
        /\ \E passed \in {{}, Values(entries, "id")} :
             results' = [results EXCEPT
               !.correct = passed,
               !.compared = compare(UNION
                 {pointed(entries[i].pass_condition.pointer, held) : i \in
                    {j \in DOMAIN entries :
                       entries[j].pass_condition.kind = "metrics_equal_baseline"}})]
  /\ todo' = measurements(inforce.tests)
  /\ Goto("measure")
  /\ UNCHANGED <<planVars, repo, dirty, port, rundir, baseline, payload, recording, held,
                 attempt, fan, verdict>>

\* What run_workloads holds when every run is dispatched.
dispatched(names) ==
  [queue |-> SetToSeq(names), next |-> 1, ticks |-> [w \in names |-> 0], waited |-> 0,
   lost |-> 0, stalled |-> FALSE, good |-> {}]

\* What is left after a side: one that measured nothing ends its entry.
todo_after(good) ==
  IF good = {} /\ Len(todo) > 1 /\ todo[2].id = todo[1].id THEN Tail(Tail(todo))
  ELSE Tail(todo)

\* Mutant: any binary in the tree will do.
runnable_Left(key) == key \in binaries \/ copies[key] > 0

\* _binary_for: has this executor built it?
runnable(key) == key \in binaries

\* run_traces: every run of a measurement is dispatched, on the binary of its
\* state, which is built now if only the other one was.
Dispatch ==
  /\ pc = "measure" /\ todo # <<>>
  /\ Head(todo).traces # {} /\ IsFiniteSet(Head(todo).traces)
  /\ LET m == Head(todo)
         key == build_key(m.side)
     IN /\ IF runnable(key) THEN UNCHANGED <<binaries, copies>>
           ELSE /\ copies' = built({key})
                /\ binaries' = binaries \cup {key}
        /\ fan' = dispatched(m.traces)
        /\ results' = [results EXCEPT !.ran = @ \cup {[state |-> key, edition |-> copies'[key]]}]
  /\ Goto("await")
  /\ UNCHANGED <<planVars, repo, dirty, port, rundir, baseline, payload, recording, held,
                 attempt, todo, verdict>>

\* That build fails, or the test plan's trace list is not one of the
\* repository's: nothing runs.
NothingRuns ==
  /\ pc = "measure" /\ todo # <<>>
  /\ ~runnable(build_key(Head(todo).side)) \/ Head(todo).traces = {}
  /\ todo' = todo_after({})
  /\ UNCHANGED <<planVars, repo, node, baseline, job, payload, recording, held, attempt,
                 binaries, fan, results, verdict>>

-----------------------------------------------------------------------------
(* run_workloads, in ticks *)

over == {w \in DOMAIN fan.ticks : fan.ticks[w] = RunLimit + 1}

\* How many runs were dispatched before the i-th and are not over.
ahead(i) == Cardinality({j \in 1..(i - 1) : fan.queue[j] \notin over})

\* The runs in the node's slots: it starts them in the order of their dispatch.
running == {fan.queue[i] : i \in {j \in DOMAIN fan.queue : ahead(j) < Slots}} \ over

\* The run whose turn it is.
awaited == fan.queue[fan.next]
awaiting == pc = "await" /\ fan.next <= Len(fan.queue)

\* May the head still wait for it?
waiting == awaiting /\ awaited \notin over /\ fan.waited < RunLimit /\ ~fan.stalled

\* A tick on the node: every running run may end, well or not, and one at its
\* limit is killed.
Tick ==
  /\ waiting /\ answering
  /\ \E ends \in SUBSET running :
       /\ {w \in running : fan.ticks[w] + 1 = RunLimit} \subseteq ends
       /\ fan' = [fan EXCEPT !.waited = @ + 1,
                    !.ticks = [w \in DOMAIN @ |->
                                 CASE w \in ends -> RunLimit + 1
                                   [] w \in running \ ends -> @[w] + 1
                                   [] OTHER -> @[w]]]
  /\ UNCHANGED <<planVars, repo, node, baseline, job, payload, recording, held, attempt,
                 binaries, todo, results, verdict>>

\* The node stops answering in the middle of the runs.
NodeLost ==
  /\ pc = "await" /\ answering
  /\ answering' = FALSE
  /\ UNCHANGED <<planVars, repo, node, baseline, stage, pc, jobs, payload, recording, held,
                 gating>>

\* A tick of a head that waits for a lost node.
TickLost ==
  /\ waiting /\ ~answering
  /\ fan' = [fan EXCEPT !.waited = @ + 1, !.lost = @ + 1]
  /\ UNCHANGED <<planVars, repo, node, baseline, job, payload, recording, held, attempt,
                 binaries, todo, results, verdict>>

\* Mutant: every wait is counted from the dispatch.
next_wait_FromDispatch == fan.waited

\* The wait is counted from when its own get() starts.
next_wait == 0

\* _wait and _judge_run: the next run is over and succeeded, or not.
Collect ==
  /\ awaiting /\ awaited \in over
  /\ \E ok \in SUBSET {awaited} :
       fan' = [fan EXCEPT !.good = @ \cup ok, !.next = @ + 1, !.waited = next_wait]
  /\ UNCHANGED <<planVars, repo, node, baseline, job, payload, recording, held, attempt,
                 binaries, todo, results, verdict>>

\* _wait gives up, and the node counts as lost; after a stall it hardly waits at all.
TimesOut ==
  /\ awaiting /\ awaited \notin over
  /\ fan.waited >= RunLimit \/ fan.stalled
  /\ fan' = [fan EXCEPT !.stalled = TRUE, !.next = @ + 1, !.waited = next_wait]
  /\ UNCHANGED <<planVars, repo, node, baseline, job, payload, recording, held, attempt,
                 binaries, todo, results, verdict>>

\* run_traces returns. A node that stays lost is lost again later.
Measured ==
  /\ pc = "await" /\ fan.next > Len(fan.queue)
  /\ todo' = todo_after(fan.good)
  /\ results' = IF fan.good # Head(todo).traces THEN results
                ELSE [results EXCEPT !.good = @ \cup {<<Head(todo).id, Head(todo).side>>}]
  /\ fan' = NoFan
  /\ pc' = "measure" /\ answering' = TRUE
  /\ UNCHANGED <<planVars, repo, node, baseline, stage, jobs, payload, recording, held,
                 attempt, binaries, verdict>>

-----------------------------------------------------------------------------
(* The verdict *)

\* What the performance entries compare with the recording.
recorded_entries ==
  UNION {pointed(inforce.tests.performance[i].baseline.pointer, held) : i \in
           {j \in DOMAIN inforce.tests.performance :
              inforce.tests.performance[j].baseline.source = "recorded"}}

\* check_gate: every entry passed, every trace of every side succeeded.
complete ==
  /\ results.correct = Values(inforce.tests.correctness, "id")
  /\ <<"smoke", "on">> \in results.good
  /\ \A i \in DOMAIN inforce.tests.performance :
       LET e == inforce.tests.performance[i] IN
       \A k \in DOMAIN sides(e) : <<e.id, sides(e)[k]>> \in results.good

\* A complete attempt passes if every entry beats its threshold.
Judge ==
  /\ pc = "measure" /\ todo = <<>>
  /\ \/ /\ complete
        /\ verdict' = "passed"
        /\ results' = [results EXCEPT !.compared = @ \cup compare(recorded_entries)]
        /\ JobEnds
     \/ /\ Refused
        /\ Goto("turn")
        /\ UNCHANGED <<payload, recording, held, attempt, binaries, todo, fan>>
  /\ UNCHANGED <<planVars, repo, node, baseline>>

-----------------------------------------------------------------------------
(* The specification *)

Next ==
  \/ EditFiles \/ MoveCheckout \/ TaskLost
  \/ InstallNoOp \/ InstallBegins \/ InstallStep
  \/ PlannerWorks
  \/ \E list \in Lists : StartBaseline(list)
  \/ RestoreCheckout \/ RunBaseline \/ RecordBaseline
  \/ \E fresh \in BOOLEAN : StartIntegrate(fresh)
  \/ CopyTree \/ Preflight \/ AgentTurn \/ StageStops
  \/ CheckBaseline \/ BuildOff \/ RunCorrectness
  \/ Dispatch \/ NothingRuns
  \/ Tick \/ NodeLost \/ TickLost \/ Collect \/ TimesOut \/ Measured
  \/ Judge

Gem5Spec == Init /\ [][Next]_vars

-----------------------------------------------------------------------------
(* Properties *)

TypeOK ==
  /\ edits \in 1..MaxEdits /\ commit \in 1..MaxCommits /\ jobs \in 0..MaxJobs
  /\ files \in [scripts : 1..edits, loads : [Workloads -> 1..edits]]
  /\ dirty \in BOOLEAN /\ answering \in BOOLEAN
  /\ port \in [commit : 0..commit, edition : Nat, resumed : BOOLEAN]
  /\ copies \in [States -> 0..port.edition]
  /\ stage \in {"none", "baseline", "integrate"}
  /\ DOMAIN baseline.per_trace \subseteq DOMAIN baseline.prints
  /\ attempt \in 0..MaxAttempts /\ (attempt > 0 => stage = "integrate")
  /\ binaries \subseteq States
  /\ verdict \in {"none", "refused", "passed"}
  /\ revision \in 0..PlanRevisions

\* The recorded number of a workload was measured at the recorded commit, on a
\* clean checkout, with the very files the recorded fingerprint names, whatever
\* was edited while it ran ("nobody can say which version the numbers
\* describe", record_baseline) and whatever was carried forward.
BaselineIsOfItsFiles ==
  \A w \in DOMAIN baseline.per_trace :
    LET m == baseline.per_trace[w] IN
    /\ m.print = baseline.prints[w] /\ m.commit = baseline.commit
    /\ ~m.added /\ ~m.dirty

\* A gate compares a run with a number measured on the same files, and, unless
\* the port tree was picked up from an earlier job, on the same commit ("a stale
\* baseline is a setup error, not a port failure", check_baseline_current).
ComparedLikeWithLike ==
  \A c \in results.compared :
    /\ c.run = c.against.print /\ ~c.added
    /\ port.resumed \/ c.commit = c.against.commit

\* A fan-out runs a binary that this attempt built after the agent's last edit
\* ("a cached binary is a measurement of the previous attempt wearing this
\* attempt's verdict", run_gate).
FanOutIsOfThisAttempt == \A r \in results.ran : r.edition = port.edition

\* A passed attempt passed everything stage 2 asked for, as stage 2 asked for
\* it, however often stage 3 revised the plan on the way: every correctness
\* entry under its own condition, every performance entry over its own traces,
\* every inline smoke workload.
PassMeetsStageTwosDemands ==
  verdict = "passed" =>
    /\ \A i \in DOMAIN first.tests.correctness :
         LET was == first.tests.correctness[i]
             now == entry(inforce.tests, "correctness", "id", was.id)
         IN was.id \in results.correct /\ now.pass_condition = was.pass_condition
              /\ now.feature_state = was.feature_state
    /\ \A i \in DOMAIN first.tests.performance :
         LET was == first.tests.performance[i]
             now == entry(inforce.tests, "performance", "id", was.id)
         IN /\ <<was.id, "on">> \in results.good /\ traces_of(now) = traces_of(was)
            /\ now.block_threshold = was.block_threshold /\ now.baseline = was.baseline
    /\ <<"smoke", "on">> \in results.good
    /\ first.tests.smoke.traces \subseteq traces_of(inforce.tests.smoke)

\* No wait gives up on a node that answers, however long the list is for the
\* node's slots, and a lost node costs a fan-out one limit ("that is long enough
\* even for a list longer than the node's slots", "one limit, not one per
\* workload", run_workloads).
OnlyALostNodeStalls ==
  /\ fan.stalled => ~answering
  /\ fan.lost <= RunLimit
=============================================================================
