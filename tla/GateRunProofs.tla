---------------------------- MODULE GateRunProofs ----------------------------
(***************************************************************************)
(* GateRun, for every set of test plans, every trace list and any number of *)
(* attempts: no evidence is measured on the build of the other feature       *)
(* state, unless the command's own build has just failed, none is measured on *)
(* a build of an earlier edition of the tree, and a knob read at run time     *)
(* costs one build.                                                         *)
(*                                                                         *)
(* The invariant is about what the executor believes. While an attempt runs, *)
(* what it believes to be in the tree is there, and whatever a failed build  *)
(* leaves there is of this edition (TreeInv); a call that has had its build  *)
(* believes in the build of its own state, or in none (TriedInv); with a     *)
(* run-time knob the one build stays (RunTimeInv).                           *)
(***************************************************************************)
EXTENDS GateRun, SequenceTheorems, TLAPS

\* The steps that call the executor.
Working == {"build", "correctness", "smoke", "performance_on", "performance_off"}

Built(key) == [key |-> key, edition |-> edition]

PlanInv ==
  /\ plan \in TestPlans
  /\ edition \in Nat \ {0}
  /\ builds \in Nat

\* What the entry being run has left.
WorkInv ==
  pc = "correctness" =>
    /\ at \in DOMAIN plan.correctness
    /\ left \in Seq(Sides)
    /\ left # <<>>

HeldInv ==
  /\ held \in [Sides -> Nat]
  /\ \A side \in Sides : held[side] \in {0, edition}

\* What the executor believes about the tree is true while the attempt runs.
TreeInv ==
  /\ believed \in Sides \cup {"none"}
  /\ pc # "over" /\ believed # "none" =>
       /\ tree = Built(believed)
       /\ held[believed] = edition
  /\ pc \notin {"over", "build"} =>
       tree \in {NoBuild} \cup {Built(side) : side \in Sides}

\* The build of the due call was the last one.
TriedInv ==
  /\ pc \in Working \ {"build"} /\ tried => believed \in {"none", build_key(Side)}
  /\ pc = "build" => believed \in {"none", "off"}
  /\ pc = "build" /\ ~tried => believed = "none"

RunTimeInv ==
  ~plan.rebuild_per_state =>
    /\ builds \leq 1
    /\ pc = "build" /\ ~tried => builds = 0
    /\ pc \notin {"build", "over"} => believed = "off"

RanInv ==
  /\ \A r \in ran : r.build \in {NoBuild} \cup {Built(side) : side \in Sides}
  /\ \A c \in completed : c.build \in {Built(side) : side \in Sides}
  /\ \A r \in ran \cup completed : r.unbuilt \/ r.build = Built(build_key(r.side))

GateInv ==
  PlanInv /\ WorkInv /\ HeldInv /\ TreeInv /\ TriedInv /\ RunTimeInv /\ RanInv

-----------------------------------------------------------------------------
(* The plan and the due call *)

LEMMA PlanTypes ==
  ASSUME PlanInv
  PROVE  /\ plan.rebuild_per_state \in BOOLEAN
         /\ plan.correctness \in Seq(Entry)
         /\ plan.correctness # <<>>
  BY GateAssumption DEF PlanInv, TestPlan

LEMMA StatesOfAnEntry ==
  ASSUME NEW entry \in Entry
  PROVE  states(entry) \in Seq(Sides) /\ states(entry) # <<>>
<1>1. entry.state \in {"off", "on", "both"}
  BY DEF Entry
<1>2. CASE entry.state = "both"
  <2>1. <<"off", "on">> \in Seq(Sides)
    BY DEF Sides
  <2> QED
    BY <1>2, <2>1 DEF states
<1>3. CASE entry.state # "both"
  <2>1. <<entry.state>> \in Seq(Sides)
    BY <1>1, <1>3 DEF Sides
  <2> QED
    BY <1>3, <2>1 DEF states
<1> QED
  BY <1>2, <1>3

LEMMA SideIsASide ==
  ASSUME PlanInv, WorkInv
  PROVE  /\ Side \in Sides
         /\ build_key(Side) \in Sides
         /\ pc = "build" => Side = "off" /\ build_key(Side) = "off"
<1>1. Side \in Sides /\ (pc = "build" => Side = "off")
  <2>1. CASE pc = "correctness"
    <3>1. Side = Head(left)
      BY <2>1 DEF Side
    <3>2. Head(left) \in Sides
      BY <2>1 DEF WorkInv
    <3> QED
      BY <2>1, <3>1, <3>2
  <2>2. CASE pc \in {"smoke", "performance_on"}
    BY <2>2 DEF Side, Sides
  <2>3. CASE pc \notin {"correctness", "smoke", "performance_on"}
    BY <2>3 DEF Side, Sides
  <2> QED
    BY <2>1, <2>2, <2>3
<1> QED
  BY <1>1, PlanTypes DEF build_key, Sides

\* The ./cbp a shell command finds, once no build is due before it.
LEMMA CommandFindsItsBuild ==
  ASSUME GateInv, ~BuildIsDue,
         \/ ByShell
         \/ pc = "correctness" /\ cache_key(Current, Side) \notin DOMAIN cache
  PROVE  /\ tree \in {NoBuild} \cup {Built(side) : side \in Sides}
         /\ Unbuilt \/ tree = Built(build_key(Side))
<1>1. pc \in Working \ {"build"}
  BY DEF ByShell, Measuring, Working
<1>2. tried \/ ~tree_is_stale(Side)
  BY DEF BuildIsDue
<1>3. Unbuilt \/ believed = build_key(Side)
  <2>1. CASE tried
    BY <1>1, <2>1 DEF GateInv, TriedInv, Unbuilt
  <2>2. CASE ~tried /\ plan.rebuild_per_state
    BY <1>2, <2>2 DEF tree_is_stale
  <2>3. CASE ~plan.rebuild_per_state
    BY <1>1, <2>3 DEF GateInv, RunTimeInv, Working, build_key
  <2> QED
    BY <2>1, <2>2, <2>3
<1>4. pc # "over" /\ pc # "build"
  BY <1>1 DEF Working
<1>5. build_key(Side) \in Sides /\ build_key(Side) # "none"
  BY SideIsASide DEF GateInv, Sides
<1> QED
  BY <1>3, <1>4, <1>5 DEF GateInv, TreeInv

-----------------------------------------------------------------------------
(* Steps that call no build *)

\* Where a step that leaves the executor alone may go.
Moved ==
  /\ pc # "over"
  /\ tried' \in {tried, FALSE}
  /\ \/ pc' = "over"
     \/ tried' = FALSE /\ pc' \in Working \ {"build"}
     \/ tried' = tried /\ pc' \in {"score", "judge"}
  /\ pc = "build" => pc' = "over" \/ believed = "off"

LEMMA MovedKeepsTree ==
  ASSUME GateInv, Moved, UNCHANGED <<plan, edition, executor>>
  PROVE  PlanInv' /\ HeldInv' /\ TreeInv' /\ TriedInv' /\ RunTimeInv'
<1> USE DEF executor
<1>1. PlanInv'
  BY DEF GateInv, PlanInv
<1>2. HeldInv'
  BY DEF GateInv, HeldInv
<1>3. TreeInv'
  <2>1. CASE pc' = "over"
    BY <2>1 DEF GateInv, TreeInv, Moved
  <2>2. CASE pc' # "over"
    BY <2>2 DEF GateInv, TreeInv, Moved, Working, Built
  <2> QED
    BY <2>1, <2>2
<1>4. TriedInv'
  BY DEF Moved, TriedInv, Working
<1>5. RunTimeInv'
  BY DEF GateInv, RunTimeInv, Moved, Working
<1> QED
  BY <1>1, <1>2, <1>3, <1>4, <1>5

LEMMA ToEntryMoves ==
  ASSUME GateInv, NEW i \in Nat \ {0}, ToEntry(i), plan' = plan,
         pc \in {"build", "correctness"}, pc = "build" => believed = "off"
  PROVE  Moved /\ WorkInv'
<1>1. CASE i <= Len(plan.correctness)
  <2>1. pc' = "correctness" /\ at' = i /\ left' = states(plan.correctness[i])
        /\ tried' = FALSE
    BY <1>1 DEF ToEntry
  <2>2. i \in DOMAIN plan.correctness /\ plan.correctness[i] \in Entry
    BY <1>1, PlanTypes DEF GateInv
  <2> QED
    BY <2>1, <2>2, StatesOfAnEntry DEF Moved, WorkInv, Working
<1>2. CASE ~(i <= Len(plan.correctness))
  BY <1>2 DEF ToEntry, Measure, Moved, WorkInv, Working
<1> QED
  BY <1>1, <1>2

LEMMA ToPerformanceMoves ==
  ASSUME GateInv, NEW i, ToPerformance(i), pc \notin {"build", "over"}
  PROVE  Moved /\ WorkInv'
  BY DEF ToPerformance, Measure, Moved, WorkInv, Working

LEMMA MeasuredMoves ==
  ASSUME GateInv, NEW missing, Measured(missing)
  PROVE  Moved /\ WorkInv'
<1>1. pc \notin {"build", "over"}
  BY DEF Measured
<1>2. CASE ToPerformance(1)
  BY <1>1, <1>2, ToPerformanceMoves
<1>3. CASE ToPerformance(at + 1)
  BY <1>1, <1>3, ToPerformanceMoves
<1>4. CASE Measure("performance_off", at)
  BY <1>1, <1>4 DEF Measure, Moved, WorkInv, Working
<1>5. CASE pc' = "score" /\ UNCHANGED <<at, left, tried>>
  BY <1>1, <1>5 DEF Moved, WorkInv
<1> QED
  BY <1>2, <1>3, <1>4, <1>5 DEF Measured, Scored

LEMMA EvaluatedMoves ==
  ASSUME GateInv, NEW outcome, Evaluated(outcome), pc = "correctness"
  PROVE  Moved /\ WorkInv'
<1>1. at \in Nat \ {0} /\ left \in Seq(Sides) /\ left # <<>>
  BY PlanTypes DEF GateInv, WorkInv
<1>2. plan' = plan
  BY DEF Evaluated
<1>3. CASE Len(left) = 1
  <2>1. ToEntry(at + 1)
    BY <1>3 DEF Evaluated
  <2>2. at + 1 \in Nat \ {0}
    BY <1>1
  <2> QED
    BY <1>2, <2>1, <2>2, ToEntryMoves
<1>4. CASE Len(left) # 1
  <2>1. left' = Tail(left) /\ tried' = FALSE /\ pc' = pc /\ at' = at
    BY <1>4 DEF Evaluated
  <2>2. Tail(left) \in Seq(Sides) /\ Tail(left) # <<>>
    <3>1. Len(left) \in Nat /\ Len(left) # 0
      BY <1>1, EmptySeq
    <3>2. Tail(left) \in Seq(Sides) /\ Len(Tail(left)) = Len(left) - 1
      BY <1>1, HeadTailProperties
    <3> QED
      BY <1>4, <3>1, <3>2
  <2>3. WorkInv'
    BY <1>2, <2>1, <2>2 DEF GateInv, WorkInv
  <2>4. Moved
    BY <2>1 DEF Moved, Working
  <2> QED
    BY <2>3, <2>4
<1> QED
  BY <1>3, <1>4

\* A step that runs nothing adds no evidence.
LEMMA NothingRan ==
  ASSUME GateInv, UNCHANGED <<plan, edition, ran, completed>>
  PROVE  RanInv'
  BY DEF GateInv, RanInv, Built, build_key

\* An attempt that ends in an exception, whatever that leaves in the tree.
LEMMA CallOver ==
  ASSUME GateInv, pc # "over", pc' = "over",
         UNCHANGED <<plan, edition, held, believed, builds, history>>
  PROVE  GateInv'
<1>1. PlanInv' /\ WorkInv' /\ HeldInv'
  BY DEF GateInv, PlanInv, WorkInv, HeldInv
<1>2. TreeInv' /\ TriedInv'
  BY DEF GateInv, TreeInv, TriedInv, Working
<1>3. RunTimeInv'
  BY DEF GateInv, RunTimeInv
<1>4. RanInv'
  BY NothingRan DEF history
<1> QED
  BY <1>1, <1>2, <1>3, <1>4 DEF GateInv

-----------------------------------------------------------------------------
(* Builds *)

\* With a run-time knob the attempt's first step is the only one with a build.
LEMMA RunTimeBuildsFirst ==
  ASSUME GateInv, BuildIsDue, ~plan.rebuild_per_state
  PROVE  pc = "build" /\ builds = 0
<1>1. ~tried /\ ~tree_is_stale(Side)
  BY DEF BuildIsDue, tree_is_stale
<1>2. CASE pc = "build"
  BY <1>1, <1>2 DEF GateInv, RunTimeInv
<1>3. CASE pc # "build"
  <2>1. ByAdapter /\ held[build_key(Side)] = 0
    BY <1>1, <1>3 DEF BuildIsDue
  <2>2. pc # "over"
    BY <2>1 DEF ByAdapter, Measuring
  <2>3. believed = "off" /\ build_key(Side) = "off"
    BY <1>3, <2>2 DEF GateInv, RunTimeInv, build_key
  <2>4. held["off"] = edition
    BY <2>2, <2>3 DEF GateInv, TreeInv
  <2> QED
    BY <2>1, <2>3, <2>4 DEF GateInv, PlanInv
<1> QED
  BY <1>2, <1>3

LEMMA BuildKeepsInv ==
  ASSUME GateInv, BuildSucceeds \/ BuildFails \/ BuildRaises
  PROVE  GateInv'
<1>1. BuildIsDue /\ UNCHANGED <<plan, edition, at, left, ran, completed>>
  BY DEF BuildSucceeds, BuildFails, BuildRaises, progress, history
<1>2. pc \in Working /\ ~tried
  BY <1>1 DEF BuildIsDue, ByAdapter, ByShell, Measuring, Working
<1>3. builds' = builds + 1 /\ tried' = TRUE
  BY DEF BuildSucceeds, BuildFails, BuildRaises
<1>4. PlanInv'
  BY <1>1, <1>3 DEF GateInv, PlanInv
<1>5. RanInv'
  BY <1>1, NothingRan
<1>6. Side \in Sides /\ build_key(Side) \in Sides
      /\ (pc = "build" => build_key(Side) = "off")
  BY SideIsASide DEF GateInv
<1>7. ~plan.rebuild_per_state => pc = "build" /\ builds = 0
  BY <1>1, RunTimeBuildsFirst
<1>8. CASE BuildSucceeds
  <2>1. pc' = pc /\ held' = [held EXCEPT ![build_key(Side)] = edition]
        /\ believed' = build_key(Side)
        /\ tree' = [key |-> build_key(Side), edition |-> edition]
    BY <1>8 DEF BuildSucceeds
  <2>2. Side' = Side /\ build_key(Side)' = build_key(Side)
    BY <1>1, <2>1 DEF Side, build_key
  <2>3. WorkInv'
    BY <1>1, <2>1 DEF GateInv, WorkInv
  <2>4. HeldInv'
    BY <1>1, <1>6, <2>1 DEF GateInv, HeldInv, PlanInv
  <2>5. TreeInv'
    <3>1. believed' \in Sides /\ believed' # "none"
      BY <1>6, <2>1 DEF Sides
    <3>2. held'[believed'] = edition
      BY <1>6, <2>1 DEF GateInv, HeldInv
    <3>3. tree' = [key |-> believed', edition |-> edition'] /\ edition' = edition
      BY <1>1, <2>1
    <3> QED
      BY <3>1, <3>2, <3>3 DEF TreeInv, Built
  <2>6. TriedInv'
    <3>1. believed' # "none"
      BY <1>6, <2>1 DEF Sides
    <3> QED
      BY <1>3, <1>6, <2>1, <2>2, <3>1 DEF TriedInv
  <2>7. RunTimeInv'
    BY <1>1, <1>3, <1>7, <2>1 DEF RunTimeInv
  <2> QED
    BY <1>4, <1>5, <2>3, <2>4, <2>5, <2>6, <2>7 DEF GateInv
<1>9. CASE BuildFails
  <2>1. pc' = pc /\ held' = held /\ believed' = "none"
        /\ tree' \in {NoBuild, tree, Built(build_key(Side))}
    BY <1>9 DEF BuildFails, left_by_failed_build, Built
  <2>2. WorkInv'
    BY <1>1, <2>1 DEF GateInv, WorkInv
  <2>3. HeldInv'
    BY <1>1, <2>1 DEF GateInv, HeldInv
  <2>4. TreeInv'
    <3>1. pc' \notin {"over", "build"} =>
            tree' \in {NoBuild} \cup {Built(side) : side \in Sides}
      BY <1>6, <2>1 DEF GateInv, TreeInv
    <3>2. \A side \in Sides : Built(side)' = Built(side)
      BY <1>1 DEF Built
    <3> QED
      BY <2>1, <3>1, <3>2 DEF TreeInv
  <2>5. TriedInv'
    BY <1>3, <2>1 DEF TriedInv
  <2>6. RunTimeInv'
    BY <1>1, <1>3, <1>7, <2>1 DEF RunTimeInv
  <2> QED
    BY <1>4, <1>5, <2>2, <2>3, <2>4, <2>5, <2>6 DEF GateInv
<1>10. CASE BuildRaises
  <2>1. pc' = "over" /\ held' = held /\ believed' = believed
    BY <1>10 DEF BuildRaises
  <2>2. WorkInv' /\ TriedInv'
    BY <2>1 DEF WorkInv, TriedInv, Working
  <2>3. HeldInv'
    BY <1>1, <2>1 DEF GateInv, HeldInv
  <2>4. TreeInv'
    BY <2>1 DEF GateInv, TreeInv
  <2>5. RunTimeInv'
    BY <1>1, <1>3, <1>7, <2>1 DEF RunTimeInv
  <2> QED
    BY <1>4, <1>5, <2>2, <2>3, <2>4, <2>5 DEF GateInv
<1> QED
  BY <1>8, <1>9, <1>10

-----------------------------------------------------------------------------
(* The other steps *)

\* A step that goes on, leaves the executor alone and adds sound evidence.
LEMMA StepKeepsInv ==
  ASSUME GateInv, Moved, WorkInv', UNCHANGED <<plan, edition, executor>>, RanInv'
  PROVE  GateInv'
  BY MovedKeepsTree DEF GateInv

LEMMA AfterBuildKeepsInv ==
  ASSUME GateInv, AfterBuild
  PROVE  GateInv'
<1>1. pc = "build" /\ UNCHANGED <<plan, edition, executor, ran, completed>>
  BY DEF AfterBuild, history
<1>2. RanInv'
  BY <1>1, NothingRan
<1>3. CASE believed = "off"
  <2>1. ToEntry(1)
    BY <1>3 DEF AfterBuild
  <2>2. Moved /\ WorkInv'
    BY <1>1, <1>3, <2>1, ToEntryMoves
  <2> QED
    BY <1>1, <1>2, <2>2, StepKeepsInv
<1>4. CASE believed # "off"
  <2>1. pc' = "over" /\ tried' = tried
    BY <1>4 DEF AfterBuild
  <2>2. Moved /\ WorkInv'
    BY <1>1, <2>1 DEF Moved, WorkInv
  <2> QED
    BY <1>1, <1>2, <2>2, StepKeepsInv
<1> QED
  BY <1>3, <1>4

LEMMA RunCommandKeepsInv ==
  ASSUME GateInv, RunCommand
  PROVE  GateInv'
<1>1. pc = "correctness" /\ ~BuildIsDue
      /\ cache_key(Current, Side) \notin DOMAIN cache
  BY DEF RunCommand
<1>2. PICK outcome \in Outcomes :
        /\ ran' = ran \cup {[command |-> Current.command, side |-> Side,
                             build |-> tree, unbuilt |-> Unbuilt,
                             outcome |-> outcome]}
        /\ Evaluated(outcome)
  BY DEF RunCommand
<1>3. UNCHANGED <<plan, edition, executor, completed>>
  BY <1>2 DEF Evaluated
<1>4. /\ tree \in {NoBuild} \cup {Built(side) : side \in Sides}
      /\ Unbuilt \/ tree = Built(build_key(Side))
  BY <1>1, CommandFindsItsBuild
<1>5. RanInv'
  BY <1>2, <1>3, <1>4 DEF GateInv, RanInv, Built, build_key
<1>6. Moved /\ WorkInv'
  BY <1>1, <1>2, EvaluatedMoves
<1> QED
  BY <1>3, <1>5, <1>6, StepKeepsInv

LEMMA ReuseOutcomeKeepsInv ==
  ASSUME GateInv, ReuseOutcome
  PROVE  GateInv'
<1>1. pc = "correctness" /\ Evaluated(cache[cache_key(Current, Side)]) /\ ran' = ran
  BY DEF ReuseOutcome
<1>2. UNCHANGED <<plan, edition, executor, completed>>
  BY <1>1 DEF Evaluated
<1>3. RanInv'
  BY <1>1, <1>2, NothingRan
<1>4. Moved /\ WorkInv'
  BY <1>1, EvaluatedMoves
<1> QED
  BY <1>2, <1>3, <1>4, StepKeepsInv

LEMMA TraceListMissingKeepsInv ==
  ASSUME GateInv, TraceListMissing
  PROVE  GateInv'
<1>1. UNCHANGED <<plan, edition, executor, ran, completed>>
      /\ pc \in {"smoke", "performance_on"}
  BY DEF TraceListMissing, history
<1>2. RanInv'
  BY <1>1, NothingRan
<1>3. ToPerformance(1) \/ ToPerformance(at + 1)
  BY DEF TraceListMissing, Scored
<1>4. Moved /\ WorkInv'
  BY <1>1, <1>3, ToPerformanceMoves
<1> QED
  BY <1>1, <1>2, <1>4, StepKeepsInv

LEMMA RunTracesKeepsInv ==
  ASSUME GateInv, RunTraces
  PROVE  GateInv'
<1>1. UNCHANGED <<plan, edition, executor, ran>>
  BY DEF RunTraces
<1> DEFINE bytes == [key |-> build_key(Side), edition |-> held[build_key(Side)]]
<1>2. PICK missing \in (IF bytes.edition = 0 THEN {Traces} ELSE SUBSET Traces) :
        /\ completed' = completed \cup Completion(Traces \ missing, bytes, FALSE)
        /\ Measured(missing)
  BY DEF RunTraces
<1>3. build_key(Side) \in Sides
  BY SideIsASide DEF GateInv
<1>4. held[build_key(Side)] # 0 => bytes = Built(build_key(Side))
  BY <1>3 DEF GateInv, HeldInv, Built
<1>5. held[build_key(Side)] = 0 => Traces \ missing = {}
  BY <1>2
<1>6. \A c \in Completion(Traces \ missing, bytes, FALSE) :
        c.side = Side /\ c.build = Built(build_key(Side))
  BY <1>4, <1>5 DEF Completion
<1>7. RanInv'
  BY <1>1, <1>2, <1>3, <1>6 DEF GateInv, RanInv, Built, build_key
<1>8. Moved /\ WorkInv'
  BY <1>2, MeasuredMoves
<1> QED
  BY <1>1, <1>7, <1>8, StepKeepsInv

LEMMA RunTraceCommandKeepsInv ==
  ASSUME GateInv, RunTraceCommand
  PROVE  GateInv'
<1>1. UNCHANGED <<plan, edition, executor, ran>> /\ ByShell /\ ~BuildIsDue
  BY DEF RunTraceCommand
<1>2. PICK ok \in {FALSE} \cup {tree # NoBuild} :
        LET missing == lost[Side] \cup (IF ok THEN {} ELSE {Head(left)}) IN
        /\ completed' = completed \cup
             (IF ok THEN Completion({Head(left)}, tree, Unbuilt) ELSE {})
        /\ IF Len(left) = 1
             THEN Measured(missing)
             ELSE /\ lost' = [lost EXCEPT ![Side] = missing]
                  /\ left' = Tail(left)
                  /\ tried' = FALSE
                  /\ UNCHANGED <<pc, at, results>>
  BY DEF RunTraceCommand
<1>3. /\ tree \in {NoBuild} \cup {Built(side) : side \in Sides}
      /\ Unbuilt \/ tree = Built(build_key(Side))
  BY <1>1, CommandFindsItsBuild
<1>4. \A c \in completed' :
        \/ c \in completed
        \/ /\ c.build \in {Built(side) : side \in Sides}
           /\ c.unbuilt \/ c.build = Built(build_key(c.side))
  <2>1. CASE ok
    <3>1. tree \in {Built(side) : side \in Sides}
      BY <1>2, <1>3, <2>1
    <3>2. completed' = completed \cup Completion({Head(left)}, tree, Unbuilt)
      BY <1>2, <2>1
    <3>3. \A c \in Completion({Head(left)}, tree, Unbuilt) :
            c.side = Side /\ c.build = tree /\ c.unbuilt = Unbuilt
      BY DEF Completion
    <3> QED
      BY <1>3, <3>1, <3>2, <3>3
  <2>2. CASE ~ok
    BY <1>2, <2>2
  <2> QED
    BY <2>1, <2>2
<1>5. RanInv'
  BY <1>1, <1>4 DEF GateInv, RanInv, Built, build_key
<1>6. Moved /\ WorkInv'
  <2>1. CASE Len(left) = 1
    BY <1>2, <2>1, MeasuredMoves
  <2>2. CASE Len(left) # 1
    BY <1>1, <1>2, <2>2 DEF ByShell, Measuring, Moved, WorkInv, Working
  <2> QED
    BY <2>1, <2>2
<1> QED
  BY <1>1, <1>5, <1>6, StepKeepsInv

LEMMA ScoreKeepsInv ==
  ASSUME GateInv, Score
  PROVE  GateInv'
<1>1. UNCHANGED <<plan, edition, executor, ran, completed>> /\ pc = "score"
  BY DEF Score, history
<1>2. RanInv'
  BY <1>1, NothingRan
<1>3. ToPerformance(at + 1)
  BY DEF Score, Scored
<1>4. Moved /\ WorkInv'
  BY <1>1, <1>3, ToPerformanceMoves
<1> QED
  BY <1>1, <1>2, <1>4, StepKeepsInv

LEMMA OverKeepsInv ==
  ASSUME GateInv,
         AggregateRaises \/ TraceRaises \/ HostRaises \/ ScoreRaises \/ CheckGate
  PROVE  GateInv'
<1>1. pc' = "over" /\ UNCHANGED <<plan, edition, held, believed, builds, history>>
  BY DEF AggregateRaises, TraceRaises, HostRaises, ScoreRaises, CheckGate, executor
<1>2. pc # "over"
  BY DEF AggregateRaises, TraceRaises, HostRaises, ScoreRaises, CheckGate,
         BuildIsDue, ByAdapter, ByShell, Measuring
<1> QED
  BY <1>1, <1>2, CallOver

LEMMA NextAttemptKeepsInv ==
  ASSUME GateInv, NextAttempt
  PROVE  GateInv'
<1>1. /\ pc' = "build" /\ plan' \in TestPlans /\ edition' = edition + 1
      /\ held' = [side \in Sides |-> 0] /\ believed' = "none" /\ tried' = FALSE
      /\ ran' = {} /\ completed' = {} /\ builds' = 0
  BY DEF NextAttempt, executor_for_attempt
<1>2. PlanInv'
  BY <1>1 DEF GateInv, PlanInv
<1>3. HeldInv'
  BY <1>1 DEF HeldInv
<1>4. WorkInv' /\ TreeInv' /\ TriedInv' /\ RunTimeInv' /\ RanInv'
  BY <1>1 DEF WorkInv, TreeInv, TriedInv, RunTimeInv, RanInv
<1> QED
  BY <1>2, <1>3, <1>4 DEF GateInv

LEMMA StutterKeepsInv ==
  ASSUME GateInv, UNCHANGED vars
  PROVE  GateInv'
<1> USE DEF vars, executor, progress, history
<1>1. PlanInv' /\ WorkInv' /\ HeldInv'
  BY DEF GateInv, PlanInv, WorkInv, HeldInv
<1>2. TreeInv'
  BY DEF GateInv, TreeInv, Built
<1>3. TriedInv'
  BY DEF GateInv, TriedInv, Side, build_key
<1>4. RunTimeInv'
  BY DEF GateInv, RunTimeInv
<1>5. RanInv'
  BY NothingRan
<1> QED
  BY <1>1, <1>2, <1>3, <1>4, <1>5 DEF GateInv

-----------------------------------------------------------------------------
(* The theorems *)

\* The invariant holds of every attempt.
THEOREM GateInvariant == Spec => []GateInv
<1>1. Init => GateInv
  <2> SUFFICES ASSUME Init PROVE GateInv
    OBVIOUS
  <2>1. PlanInv /\ WorkInv /\ HeldInv
    BY DEF Init, PlanInv, WorkInv, HeldInv
  <2>2. TreeInv /\ TriedInv /\ RunTimeInv /\ RanInv
    BY DEF Init, TreeInv, TriedInv, RunTimeInv, RanInv
  <2> QED
    BY <2>1, <2>2 DEF GateInv
<1>2. GateInv /\ [Next]_vars => GateInv'
  <2> SUFFICES ASSUME GateInv, [Next]_vars PROVE GateInv'
    OBVIOUS
  <2>1. CASE BuildSucceeds \/ BuildFails \/ BuildRaises
    BY <2>1, BuildKeepsInv
  <2>2. CASE AfterBuild
    BY <2>2, AfterBuildKeepsInv
  <2>3. CASE RunCommand \/ ReuseOutcome
    BY <2>3, RunCommandKeepsInv, ReuseOutcomeKeepsInv
  <2>4. CASE TraceListMissing \/ RunTraces \/ RunTraceCommand
    BY <2>4, TraceListMissingKeepsInv, RunTracesKeepsInv, RunTraceCommandKeepsInv
  <2>5. CASE AggregateRaises \/ TraceRaises \/ HostRaises \/ ScoreRaises \/ CheckGate
    BY <2>5, OverKeepsInv
  <2>6. CASE Score
    BY <2>6, ScoreKeepsInv
  <2>7. CASE NextAttempt
    BY <2>7, NextAttemptKeepsInv
  <2>8. CASE Stop \/ UNCHANGED vars
    BY <2>8, StutterKeepsInv DEF Stop
  <2> QED
    BY <2>1, <2>2, <2>3, <2>4, <2>5, <2>6, <2>7, <2>8 DEF Next
<1> QED
  BY <1>1, <1>2, PTL DEF Spec

\* Whatever the test plan and whatever failed before, nothing is measured on the
\* other state's build, except by a command whose own build has just failed.
THEOREM MeasuredInItsState == Spec => []EvidenceIsOfItsState
<1>1. GateInv => EvidenceIsOfItsState
  <2> SUFFICES ASSUME GateInv, NEW r \in ran \cup completed
               PROVE  r.unbuilt \/ r.build.key = build_key(r.side)
    BY DEF EvidenceIsOfItsState
  <2>1. r.unbuilt \/ r.build = Built(build_key(r.side))
    BY DEF GateInv, RanInv
  <2> QED
    BY <2>1 DEF Built
<1> QED
  BY <1>1, GateInvariant, PTL

\* Whatever the agent edits and whatever a failed build leaves, nothing is
\* measured on an earlier attempt's build.
THEOREM MeasuredInThisAttempt == Spec => []EvidenceIsOfThisAttempt
<1>1. GateInv => EvidenceIsOfThisAttempt
  <2> SUFFICES ASSUME GateInv PROVE EvidenceIsOfThisAttempt
    OBVIOUS
  <2>1. ASSUME NEW r \in ran, r.build # NoBuild
        PROVE  r.build.edition = edition
    BY <2>1 DEF GateInv, RanInv, Built
  <2>2. ASSUME NEW c \in completed
        PROVE  c.build.edition = edition
    BY <2>2 DEF GateInv, RanInv, Built
  <2> QED
    BY <2>1, <2>2 DEF EvidenceIsOfThisAttempt
<1> QED
  BY <1>1, GateInvariant, PTL

\* However many entries and states the plan has, a knob read at run time costs
\* one build.
THEOREM RunTimeKnobBuildsOnce == Spec => []OneBuildAtRunTime
<1>1. GateInv => OneBuildAtRunTime
  BY DEF GateInv, RunTimeInv, OneBuildAtRunTime
<1> QED
  BY <1>1, GateInvariant, PTL
=============================================================================
