-------------------------- MODULE GateEvidenceProofs --------------------------
(***************************************************************************)
(* GateRun, for every set of test plans, every trace list and any number of *)
(* attempts: a pass is a pass on complete evidence, a refusal has a cause in *)
(* what was run, and a command runs once.                                   *)
(*                                                                         *)
(* The invariant carries what the runner's bookkeeping stands for. The cache *)
(* and the history of commands say the same (CacheInv), so an entry's result *)
(* can be read off the cache, which only grows (CorrectnessInv); the states  *)
(* an entry has left, its failing flag and the outcomes so far leave nothing *)
(* out (EntryInv); a trace is to be run, lost or completed (DoneInv), and    *)
(* never two of these (LossInv).                                            *)
(***************************************************************************)
EXTENDS GateRunProofs, FiniteSetTheorems

Steps == {"build", "correctness", "smoke", "performance_on", "performance_off",
          "score", "judge", "over"}

\* The steps after the correctness entries, and after the smoke run.
Past == {"smoke", "performance_on", "performance_off", "score", "judge"}
Performing == {"performance_on", "performance_off", "score"}

Verdicts == {"none", "passed", "refused", "build raised", "trace raised",
             "aggregate raised", "host raised", "score raised"}

Result == [failed_traces : SUBSET Traces, gain : {"short", "floor", "target"}]
Results == [correctness : Seq(BOOLEAN), smoke : BOOLEAN, performance : Seq(Result)]

Items(s) == {s[n] : n \in DOMAIN s}
Declared(entry) == Items(states(entry))
Todo == Items(left)

\* What a cache holds for an entry in a state: nothing, or an outcome that
\* meets or misses the entry's condition.
Met(known, entry, side) ==
  /\ cache_key(entry, side) \in DOMAIN known
  /\ evaluate_condition(entry, known[cache_key(entry, side)])

Missed(known, entry, side) ==
  /\ cache_key(entry, side) \in DOMAIN known
  /\ ~evaluate_condition(entry, known[cache_key(entry, side)])

\* The sides a performance entry is measured in.
Measurements(i) == {"on"} \cup (IF plan.performance[i].measured THEN {"off"} ELSE {})

Done(traces, i, side, t) ==
  \E c \in traces : c.entry = i /\ c.side = side /\ c.trace = t

NodeType ==
  /\ edition \in 1..MaxAttempts
  /\ tree \in Builds
  /\ tried \in BOOLEAN

StepType ==
  /\ pc \in Steps
  /\ verdict \in Verdicts
  /\ at \in Nat
  /\ failing \in BOOLEAN
  /\ lost \in [Sides -> SUBSET Traces]
  /\ results \in Results
  /\ Measuring => left \in Seq(Traces) /\ left # <<>>
  /\ ByAdapter => left = TraceList

LogType ==
  /\ ran \subseteq CommandRuns
  /\ completed \subseteq CompletedTraces

\* The cache and the history of commands are the same thing.
CacheInv ==
  /\ DOMAIN cache = {<<r.command, r.side>> : r \in ran}
  /\ \A r \in ran : cache[<<r.command, r.side>>] = r.outcome
  /\ IsFiniteSet(DOMAIN cache)
  /\ shells \in Nat /\ shells \leq Cardinality(DOMAIN cache)

\* What the result of an entry says.
JudgedInv ==
  \A i \in DOMAIN results.correctness :
    IF results.correctness[i]
      THEN \A side \in Declared(plan.correctness[i]) : Met(cache, plan.correctness[i], side)
      ELSE \E side \in Declared(plan.correctness[i]) : Missed(cache, plan.correctness[i], side)

\* Where the correctness results are.
CorrectnessInv ==
  /\ pc = "build" => results.correctness = <<>> /\ ~failing
  /\ pc = "correctness" => Len(results.correctness) = at - 1
  /\ pc \in Past => Len(results.correctness) = Len(plan.correctness)
  /\ Len(results.correctness) \leq Len(plan.correctness)

\* The entry that is run.
EntryInv ==
  pc = "correctness" =>
    /\ Todo \subseteq Declared(Current)
    /\ \A side \in Declared(Current) : side \in Todo \/ failing \/ Met(cache, Current, side)
    /\ failing => \E side \in Declared(Current) : Missed(cache, Current, side)

\* Where the measurements are.
PerformanceInv ==
  /\ pc \in {"build", "correctness", "smoke"} => results.performance = <<>>
  /\ pc = "smoke" => at = 0
  /\ pc \in Performing =>
       /\ at \in DOMAIN plan.performance
       /\ Len(results.performance) = at - 1
  /\ pc = "judge" => Len(results.performance) = Len(plan.performance)
  /\ Len(results.performance) \leq Len(plan.performance)
  /\ pc = "performance_off" => plan.performance[at].measured
  /\ pc \in {"build", "correctness"} => ~results.smoke

\* What a measurement has not lost it has completed, or has yet to run.
DoneInv ==
  /\ Measuring => \A t \in Traces : t \in Todo \/ t \in lost[Side] \/ Done(completed, at, Side, t)
  /\ pc \in {"performance_off", "score"} =>
       \A t \in Traces : t \in lost["on"] \/ Done(completed, at, "on", t)
  /\ pc = "score" /\ plan.performance[at].measured =>
       \A t \in Traces : t \in lost["off"] \/ Done(completed, at, "off", t)

ScoresInv ==
  /\ results.smoke => \A t \in Traces : Done(completed, 0, "on", t)
  /\ \A i \in DOMAIN results.performance :
       results.performance[i].failed_traces = {} /\ results.performance[i].gain # "short" =>
         \A t \in Traces, side \in Measurements(i) : Done(completed, i, side, t)

VerdictInv ==
  verdict = "passed" => pc = "over" /\ Evidence

EvidenceInv ==
  /\ NodeType /\ StepType /\ LogType
  /\ CacheInv /\ JudgedInv /\ CorrectnessInv /\ EntryInv
  /\ PerformanceInv /\ DoneInv /\ ScoresInv /\ VerdictInv

\* No trace list names a trace twice.
DistinctTraces ==
  \A i, j \in DOMAIN TraceList : TraceList[i] = TraceList[j] => i = j

\* A trace is never at two places: what a measurement has lost, or has yet to
\* run, it has not completed.
LossInv ==
  /\ Measuring =>
       /\ \A i, j \in DOMAIN left : left[i] = left[j] => i = j
       /\ Todo \cap lost[Side] = {}
       /\ \A t \in Todo \cup lost[Side] : ~Done(completed, at, Side, t)
  /\ pc \in {"performance_off", "score"} =>
       \A t \in lost["on"] : ~Done(completed, at, "on", t)
  /\ pc = "score" =>
       /\ \A t \in lost["off"] : ~Done(completed, at, "off", t)
       /\ lost["off"] # {} => plan.performance[at].measured
  /\ pc = "build" => ran = {}
  /\ pc \in {"build", "correctness"} => lost = NothingLost /\ completed = {}
  /\ pc \in {"smoke", "performance_on"} => lost["off"] = {}
  /\ pc \in {"smoke"} \cup Performing => \A c \in completed : c.entry \leq at
  /\ \A c \in completed : c.entry = 0 => c.side = "on"
  /\ pc = "performance_on" => \A c \in completed : c.entry = at => c.side = "on"

\* A measurement that failed has not completed some trace.
MissingInv ==
  /\ pc \in Past \ {"smoke"} /\ ~results.smoke =>
       \E t \in Traces : ~Done(completed, 0, "on", t)
  /\ \A i \in DOMAIN results.performance :
       results.performance[i].failed_traces # {} /\ results.performance[i].gain # "short" =>
         \E t \in Traces, side \in Measurements(i) : ~Done(completed, i, side, t)

RefusedInv == verdict = "refused" => pc = "over" /\ ~Evidence

RefusalInv == LossInv /\ MissingInv /\ RefusedInv

-----------------------------------------------------------------------------
(* Sequences and plans *)

LEMMA ItemsSplit ==
  ASSUME NEW S, NEW s \in Seq(S), s # <<>>
  PROVE  /\ Items(s) = {Head(s)} \cup Items(Tail(s))
         /\ Items(s) \subseteq S /\ Head(s) \in Items(s)
         /\ Tail(s) \in Seq(S)
         /\ Len(s) = 1 => Items(s) = {Head(s)}
         /\ Len(s) # 1 => Tail(s) # <<>>
<1>1. /\ Len(s) \in Nat \ {0} /\ DOMAIN s = 1..Len(s)
      /\ Tail(s) \in Seq(S) /\ Len(Tail(s)) = Len(s) - 1
      /\ DOMAIN Tail(s) = 1..(Len(s) - 1)
      /\ \A i \in 1..(Len(s) - 1) : Tail(s)[i] = s[i + 1]
      /\ Head(s) = s[1]
  BY EmptySeq, LenProperties, HeadTailProperties
<1>2. \A i \in 1..Len(s) : s[i] \in S
  BY ElementOfSeq
<1>3. ASSUME NEW x \in Items(s)
      PROVE  x \in {Head(s)} \cup Items(Tail(s))
  <2>1. PICK i \in 1..Len(s) : x = s[i]
    BY <1>1, <1>3 DEF Items
  <2>2. CASE i = 1
    BY <1>1, <2>1, <2>2
  <2>3. CASE i # 1
    <3>1. i - 1 \in 1..(Len(s) - 1) /\ (i - 1) + 1 = i
      BY <1>1, <2>1, <2>3
    <3>2. Tail(s)[i - 1] = x
      BY <1>1, <2>1, <3>1
    <3> QED
      BY <1>1, <3>1, <3>2 DEF Items
  <2> QED
    BY <2>2, <2>3
<1>4. ASSUME NEW x \in Items(Tail(s))
      PROVE  x \in Items(s)
  <2>1. PICK i \in 1..(Len(s) - 1) : x = Tail(s)[i]
    BY <1>1, <1>4 DEF Items
  <2>2. i + 1 \in 1..Len(s) /\ x = s[i + 1]
    BY <1>1, <2>1
  <2> QED
    BY <1>1, <2>2 DEF Items
<1>5. Head(s) \in Items(s)
  BY <1>1 DEF Items
<1>6. Items(s) \subseteq S
  BY <1>1, <1>2 DEF Items
<1>7. Len(s) = 1 => Items(s) = {Head(s)}
  BY <1>1 DEF Items
<1>8. Len(s) # 1 => Tail(s) # <<>>
  BY <1>1, EmptySeq
<1> QED
  BY <1>1, <1>3, <1>4, <1>5, <1>6, <1>7, <1>8

LEMMA TracesOfTheList == Traces = Items(TraceList)
  BY DEF Traces, Items

\* What the schema gives the steps.
LEMMA PlanFacts ==
  ASSUME GateInv
  PROVE  /\ plan.correctness \in Seq(Entry) /\ plan.correctness # <<>>
         /\ Len(plan.correctness) \in Nat \ {0}
         /\ \A i \in DOMAIN plan.correctness : plan.correctness[i] \in Entry
         /\ DOMAIN plan.correctness = 1..Len(plan.correctness)
         /\ plan.performance \in Seq(PerformanceEntry)
         /\ Len(plan.performance) \in Nat \ {0}
         /\ DOMAIN plan.performance = 1..Len(plan.performance)
         /\ plan.smoke \in Modes
         /\ TraceList \in Seq(Traces) /\ TraceList # <<>>
<1>1. plan \in TestPlans
  BY DEF GateInv, PlanInv
<1>2. plan \in TestPlan /\ plan.correctness # <<>> /\ plan.performance # <<>>
  BY <1>1, GateAssumption
<1>3. plan.correctness \in Seq(Entry) /\ plan.performance \in Seq(PerformanceEntry)
      /\ plan.smoke \in Modes
  BY <1>2 DEF TestPlan
<1>4. Len(plan.correctness) \in Nat \ {0} /\ Len(plan.performance) \in Nat \ {0}
  BY <1>2, <1>3, EmptySeq
<1>5. DOMAIN plan.correctness = 1..Len(plan.correctness)
      /\ DOMAIN plan.performance = 1..Len(plan.performance)
  BY <1>3, LenProperties
<1>6. \A i \in DOMAIN plan.correctness : plan.correctness[i] \in Entry
  BY <1>3, <1>5, ElementOfSeq
<1> QED
  BY <1>2, <1>3, <1>4, <1>5, <1>6, GateAssumption

LEMMA DeclaredSides ==
  ASSUME NEW entry \in Entry
  PROVE  Declared(entry) \subseteq Sides /\ Declared(entry) # {}
<1>1. states(entry) \in Seq(Sides) /\ states(entry) # <<>>
  BY StatesOfAnEntry
<1> QED
  BY <1>1, ItemsSplit DEF Declared

\* An evaluated outcome is in the cache, and the cache is the history.
LEMMA MetIsHeld ==
  ASSUME CacheInv, NEW entry, NEW side, Met(cache, entry, side)
  PROVE  \E r \in ran : /\ r.command = entry.command
                        /\ r.side = side
                        /\ evaluate_condition(entry, r.outcome)
<1>1. <<entry.command, side>> \in DOMAIN cache
      /\ evaluate_condition(entry, cache[<<entry.command, side>>])
  BY DEF Met, cache_key
<1>2. PICK r \in ran : <<r.command, r.side>> = <<entry.command, side>>
  BY <1>1 DEF CacheInv
<1>3. r.command = entry.command /\ r.side = side
      /\ cache[<<entry.command, side>>] = r.outcome
  BY <1>2 DEF CacheInv
<1> QED
  BY <1>1, <1>3

LEMMA MissedIsNotHeld ==
  ASSUME CacheInv, NEW entry, NEW side, Missed(cache, entry, side),
         NEW r \in ran, r.command = entry.command, r.side = side
  PROVE  ~evaluate_condition(entry, r.outcome)
<1>1. cache[<<r.command, r.side>>] = r.outcome
  BY DEF CacheInv
<1> QED
  BY <1>1 DEF Missed, cache_key

-----------------------------------------------------------------------------
(* Steps that leave the attempt's record alone *)

LEMMA CacheKept ==
  ASSUME CacheInv, UNCHANGED <<cache, ran, shells>>
  PROVE  CacheInv'
  BY DEF CacheInv

LEMMA MetKept ==
  ASSUME UNCHANGED cache, NEW entry, NEW side
  PROVE  /\ Met(cache', entry, side) <=> Met(cache, entry, side)
         /\ Missed(cache', entry, side) <=> Missed(cache, entry, side)
  BY DEF Met, Missed, cache_key

LEMMA DoneKept ==
  ASSUME completed \subseteq completed', NEW i, NEW side, NEW t, Done(completed, i, side, t)
  PROVE  Done(completed', i, side, t)
  BY DEF Done

\* The correctness results stand while no entry is run.
LEMMA JudgedKept ==
  ASSUME JudgedInv, UNCHANGED <<plan, cache>>,
         results'.correctness = results.correctness
  PROVE  JudgedInv'
  BY DEF JudgedInv, Met, Missed, cache_key

LEMMA CorrectnessKept ==
  ASSUME CorrectnessInv, UNCHANGED plan,
         results'.correctness = results.correctness,
         \/ pc' = "over"
         \/ pc \in Past /\ pc' \in Past
         \/ UNCHANGED <<pc, at, failing>>
  PROVE  CorrectnessInv'
<1>1. Len(results'.correctness) \leq Len(plan'.correctness)
  BY DEF CorrectnessInv
<1>2. CASE pc' = "over"
  BY <1>1, <1>2 DEF CorrectnessInv, Past
<1>3. CASE pc \in Past /\ pc' \in Past
  BY <1>1, <1>3 DEF CorrectnessInv, Past
<1>4. CASE UNCHANGED <<pc, at, failing>>
  BY <1>1, <1>4 DEF CorrectnessInv, Past
<1> QED
  BY <1>2, <1>3, <1>4

\* A step that stays where it is, or ends the attempt.
LEMMA QuietKeepsEvidence ==
  ASSUME EvidenceInv, UNCHANGED <<plan, cache, progress, history>>,
         pc' \in {pc, "over"}, NodeType', verdict' \in Verdicts, VerdictInv'
  PROVE  EvidenceInv'
<1> USE DEF progress, history
<1>1. StepType'
  BY DEF EvidenceInv, StepType, Steps, Measuring, ByAdapter
<1>2. LogType'
  BY DEF EvidenceInv, LogType
<1>3. CacheInv'
  BY CacheKept DEF EvidenceInv
<1>4. CorrectnessInv'
  BY CorrectnessKept DEF EvidenceInv
<1>9. JudgedInv'
  BY JudgedKept DEF EvidenceInv
<1>5. EntryInv'
  <2>1. CASE pc' = pc
    BY <2>1, MetKept DEF EvidenceInv, EntryInv, Current, Todo
  <2>2. CASE pc' = "over"
    BY <2>2 DEF EntryInv
  <2> QED
    BY <2>1, <2>2
<1>6. PerformanceInv'
  BY DEF EvidenceInv, PerformanceInv, Performing
<1>7. DoneInv'
  <2>1. CASE pc' = pc
    BY <2>1 DEF EvidenceInv, DoneInv, Measuring, Side, Todo, Done
  <2>2. CASE pc' = "over"
    BY <2>2 DEF DoneInv, Measuring
  <2> QED
    BY <2>1, <2>2
<1>8. ScoresInv'
  BY DEF EvidenceInv, ScoresInv, Measurements, Done
<1> QED
  BY <1>1, <1>2, <1>3, <1>4, <1>5, <1>6, <1>7, <1>8, <1>9 DEF EvidenceInv

-----------------------------------------------------------------------------
(* Correctness entries *)

\* An entry begins, or the smoke run does.
LEMMA EntryBegins ==
  ASSUME GateInv, NEW i \in Nat \ {0}, i \leq Len(plan.correctness) + 1, ToEntry(i),
         plan' = plan, failing' = FALSE, results' \in Results,
         Len(results'.correctness) = i - 1,
         results'.performance = <<>>, ~results'.smoke
  PROVE  /\ pc' \in {"correctness", "smoke"} /\ at' \in Nat /\ tried' = FALSE
         /\ (Measuring => left \in Seq(Traces) /\ left # <<>>)'
         /\ (ByAdapter => left = TraceList)'
         /\ CorrectnessInv' /\ EntryInv' /\ PerformanceInv' /\ DoneInv'
<1>1. CASE i \leq Len(plan.correctness)
  <2>1. /\ pc' = "correctness" /\ at' = i /\ tried' = FALSE
        /\ left' = states(plan.correctness[i])
    BY <1>1 DEF ToEntry
  <2>2. CorrectnessInv'
    BY <1>1, <2>1, PlanFacts DEF CorrectnessInv, Past
  <2>3. EntryInv'
    BY <2>1 DEF EntryInv, Todo, Declared, Current
  <2>4. PerformanceInv' /\ DoneInv'
    BY <2>1, PlanFacts DEF PerformanceInv, DoneInv, Performing, Measuring
  <2> QED
    BY <2>1, <2>2, <2>3, <2>4 DEF Measuring, ByAdapter
<1>2. CASE ~(i \leq Len(plan.correctness))
  <2>1. pc' = "smoke" /\ at' = 0 /\ tried' = FALSE /\ left' = TraceList
    BY <1>2 DEF ToEntry, Measure
  <2>2. i - 1 = Len(plan.correctness)
    BY <1>2, PlanFacts
  <2>3. CorrectnessInv'
    BY <2>1, <2>2, PlanFacts DEF CorrectnessInv, Past
  <2>4. EntryInv' /\ PerformanceInv'
    BY <2>1, PlanFacts DEF EntryInv, PerformanceInv, Performing
  <2>5. Todo' = Traces
    BY <2>1, TracesOfTheList DEF Todo
  <2>6. DoneInv'
    BY <2>1, <2>5 DEF DoneInv
  <2> QED
    BY <2>1, <2>3, <2>4, <2>6, PlanFacts DEF Measuring, ByAdapter
<1> QED
  BY <1>1, <1>2

LEMMA AfterBuildKeepsEvidence ==
  ASSUME GateInv, EvidenceInv, AfterBuild
  PROVE  EvidenceInv'
<1>1. /\ pc = "build"
      /\ UNCHANGED <<plan, edition, tree, cache, failing, lost, results,
                     ran, completed, shells>>
  BY DEF AfterBuild, executor, history
<1>2. CASE believed = "off"
  <2>1. ToEntry(1) /\ verdict' = verdict
    BY <1>2 DEF AfterBuild
  <2>2. /\ failing' = FALSE /\ results' \in Results /\ Len(results'.correctness) = 0
        /\ results'.performance = <<>> /\ ~results'.smoke
    BY <1>1, EmptySeq DEF EvidenceInv, StepType, CorrectnessInv, PerformanceInv
  <2>3. /\ pc' \in {"correctness", "smoke"} /\ at' \in Nat /\ tried' = FALSE
        /\ (Measuring => left \in Seq(Traces) /\ left # <<>>)'
        /\ (ByAdapter => left = TraceList)'
        /\ CorrectnessInv' /\ EntryInv' /\ PerformanceInv' /\ DoneInv'
    <3>1. 1 \in Nat \ {0} /\ 1 \leq Len(plan.correctness) + 1 /\ plan' = plan
          /\ Len(results'.correctness) = 1 - 1
      BY <1>1, <2>2, PlanFacts
    <3> QED
      BY <2>1, <2>2, <3>1, EntryBegins
  <2>4. StepType'
    BY <1>1, <2>1, <2>3 DEF EvidenceInv, StepType, Steps
  <2>5. NodeType' /\ LogType'
    BY <1>1, <2>3 DEF EvidenceInv, NodeType, LogType
  <2>6. CacheInv' /\ JudgedInv'
    BY <1>1, CacheKept, JudgedKept DEF EvidenceInv
  <2>7. ScoresInv'
    BY <1>1 DEF EvidenceInv, ScoresInv, Measurements, Done
  <2>8. VerdictInv'
    BY <1>1, <2>1 DEF EvidenceInv, VerdictInv
  <2> QED
    BY <2>3, <2>4, <2>5, <2>6, <2>7, <2>8 DEF EvidenceInv
<1>3. CASE believed # "off"
  <2>1. pc' = "over" /\ verdict' = "refused" /\ UNCHANGED <<at, left, tried>>
    BY <1>3 DEF AfterBuild
  <2>2. NodeType' /\ VerdictInv'
    BY <1>1, <2>1 DEF EvidenceInv, NodeType, VerdictInv
  <2> QED
    BY <1>1, <2>1, <2>2, QuietKeepsEvidence DEF progress, history, Verdicts
<1> QED
  BY <1>2, <1>3

\* A condition is evaluated on an outcome that is in the cache by then.
LEMMA EvaluatedKeepsEvidence ==
  ASSUME GateInv, EvidenceInv, pc = "correctness", NEW outcome, Evaluated(outcome),
         LogType', CacheInv',
         cache_key(Current, Side) \in DOMAIN cache',
         cache'[cache_key(Current, Side)] = outcome,
         \A k \in DOMAIN cache : k \in DOMAIN cache' /\ cache'[k] = cache[k]
  PROVE  EvidenceInv'
<1> DEFINE bad == failing \/ ~evaluate_condition(Current, outcome)
<1>1. UNCHANGED <<plan, edition, tree, lost, verdict, completed>>
  BY DEF Evaluated, executor
<1>2. /\ at \in 1..Len(plan.correctness) /\ at \in Nat \ {0}
      /\ left \in Seq(Sides) /\ left # <<>> /\ Side = Head(left)
  BY PlanFacts DEF GateInv, WorkInv, Side
<1>3. /\ Todo = {Side} \cup Items(Tail(left)) /\ Side \in Todo
      /\ Len(left) = 1 => Todo = {Side}
  BY <1>2, ItemsSplit DEF Todo
<1>4. \A entry, side :
        /\ Met(cache, entry, side) => Met(cache', entry, side)
        /\ Missed(cache, entry, side) => Missed(cache', entry, side)
  BY DEF Met, Missed, cache_key
<1>5. Side \in Declared(Current)
  BY <1>3 DEF EvidenceInv, EntryInv
<1>6. IF evaluate_condition(Current, outcome)
        THEN Met(cache', Current, Side) ELSE Missed(cache', Current, Side)
  BY DEF Met, Missed
<1>7. \A s \in Declared(Current) : s \in Todo \/ failing \/ Met(cache', Current, s)
  BY <1>4 DEF EvidenceInv, EntryInv
<1>8. bad => \E s \in Declared(Current) : Missed(cache', Current, s)
  <2>1. CASE failing
    BY <1>4, <2>1 DEF EvidenceInv, EntryInv
  <2>2. CASE ~failing /\ bad
    BY <1>5, <1>6, <2>2
  <2> QED
    BY <2>1, <2>2
<1>9. /\ results \in Results /\ failing \in BOOLEAN /\ bad \in BOOLEAN
      /\ Len(results.correctness) = at - 1
      /\ results.performance = <<>> /\ ~results.smoke
  BY DEF EvidenceInv, StepType, CorrectnessInv, PerformanceInv, evaluate_condition
<1>10. VerdictInv'
  BY <1>1 DEF EvidenceInv, VerdictInv
<1>11. \A i \in DOMAIN results.correctness :
         IF results.correctness[i]
           THEN \A s \in Declared(plan.correctness[i]) : Met(cache', plan.correctness[i], s)
           ELSE \E s \in Declared(plan.correctness[i]) : Missed(cache', plan.correctness[i], s)
  BY <1>4 DEF EvidenceInv, JudgedInv
<1>12. CASE Len(left) = 1
  <2>1. /\ results' = [results EXCEPT !.correctness = Append(@, ~bad)]
        /\ failing' = FALSE /\ ToEntry(at + 1)
    BY <1>12 DEF Evaluated
  <2> HIDE DEF bad
  <2>2. /\ Append(results.correctness, ~bad) \in Seq(BOOLEAN)
        /\ Len(Append(results.correctness, ~bad)) = at
        /\ \A i \in 1..(at - 1) :
             Append(results.correctness, ~bad)[i] = results.correctness[i]
        /\ Append(results.correctness, ~bad)[at] = ~bad
        /\ DOMAIN Append(results.correctness, ~bad) = 1..at
        /\ DOMAIN results.correctness = 1..(at - 1)
    <3>1. results.correctness \in Seq(BOOLEAN) /\ (~bad) \in BOOLEAN
      BY <1>9 DEF Results
    <3>2. /\ Append(results.correctness, ~bad) \in Seq(BOOLEAN)
          /\ Len(Append(results.correctness, ~bad)) = Len(results.correctness) + 1
          /\ \A i \in 1..Len(results.correctness) :
               Append(results.correctness, ~bad)[i] = results.correctness[i]
          /\ Append(results.correctness, ~bad)[Len(results.correctness) + 1] = ~bad
      BY <3>1, AppendProperties
    <3>3. Len(results.correctness) + 1 = at
      BY <1>2, <1>9
    <3> QED
      BY <1>9, <3>1, <3>2, <3>3, LenProperties
  <2>3. /\ results'.correctness = Append(results.correctness, ~bad)
        /\ results' \in Results
        /\ results'.performance = results.performance
        /\ results'.smoke = results.smoke
    BY <1>9, <2>1, <2>2 DEF Results
  <2>4. JudgedInv'
    <3>1. ASSUME NEW i \in 1..at
          PROVE  IF results'.correctness[i]
                   THEN \A s \in Declared(plan.correctness[i]) :
                          Met(cache', plan.correctness[i], s)
                   ELSE \E s \in Declared(plan.correctness[i]) :
                          Missed(cache', plan.correctness[i], s)
      <4>1. CASE i = at
        <5>1. results'.correctness[i] = ~bad /\ plan.correctness[i] = Current
          BY <2>2, <2>3, <4>1 DEF Current
        <5>2. ~bad => \A s \in Declared(Current) : Met(cache', Current, s)
          BY <1>3, <1>6, <1>7, <1>12 DEF bad
        <5> QED
          BY <1>8, <1>9, <5>1, <5>2
      <4>2. CASE i # at
        <5>1. i \in 1..(at - 1)
          BY <1>2, <4>2
        <5>2. results'.correctness[i] = results.correctness[i]
              /\ i \in DOMAIN results.correctness
          BY <2>2, <2>3, <5>1
        <5> QED
          BY <1>11, <5>2
      <4> QED
        BY <4>1, <4>2
    <3> QED
      BY <1>1, <2>2, <2>3, <3>1 DEF JudgedInv
  <2>5. /\ pc' \in {"correctness", "smoke"} /\ at' \in Nat /\ tried' = FALSE
        /\ (Measuring => left \in Seq(Traces) /\ left # <<>>)'
        /\ (ByAdapter => left = TraceList)'
        /\ CorrectnessInv' /\ EntryInv' /\ PerformanceInv' /\ DoneInv'
    <3>1. /\ at + 1 \in Nat \ {0} /\ at + 1 \leq Len(plan.correctness) + 1
          /\ plan' = plan /\ Len(results'.correctness) = (at + 1) - 1
          /\ results'.performance = <<>> /\ ~results'.smoke
      BY <1>1, <1>2, <1>9, <2>2, <2>3, PlanFacts
    <3> QED
      BY <2>1, <2>3, <3>1, EntryBegins
  <2>6. StepType'
    BY <1>1, <2>1, <2>3, <2>5 DEF EvidenceInv, StepType, Steps
  <2>7. NodeType'
    BY <1>1, <2>5 DEF EvidenceInv, NodeType
  <2>8. ScoresInv'
    BY <1>9, <2>3 DEF ScoresInv
  <2> QED
    BY <1>10, <2>4, <2>5, <2>6, <2>7, <2>8 DEF EvidenceInv
<1>13. CASE Len(left) # 1
  <2>1. /\ left' = Tail(left) /\ failing' = bad /\ tried' = FALSE
        /\ UNCHANGED <<pc, at, results>>
    BY <1>13 DEF Evaluated
  <2> HIDE DEF bad
  <2>2. JudgedInv'
    BY <1>1, <1>11, <2>1 DEF JudgedInv
  <2>3. CorrectnessInv' /\ PerformanceInv' /\ DoneInv'
    BY <1>1, <2>1 DEF EvidenceInv, CorrectnessInv, PerformanceInv, DoneInv,
                      Performing, Measuring, Past
  <2>4. EntryInv'
    <3>1. Todo' = Items(Tail(left)) /\ Current' = Current
      BY <1>1, <2>1 DEF Todo, Current
    <3>2. \A s \in Declared(Current) : s \in Todo' \/ failing' \/ Met(cache', Current, s)
      BY <1>3, <1>6, <1>7, <2>1, <3>1 DEF bad
    <3>3. Todo' \subseteq Declared(Current)
      BY <1>3, <3>1 DEF EvidenceInv, EntryInv
    <3> QED
      BY <1>8, <2>1, <3>1, <3>2, <3>3 DEF EntryInv
  <2>5. StepType'
    BY <1>1, <1>9, <2>1 DEF EvidenceInv, StepType, Measuring, ByAdapter
  <2>6. NodeType'
    BY <1>1, <2>1 DEF EvidenceInv, NodeType
  <2>7. ScoresInv'
    BY <1>1, <2>1 DEF EvidenceInv, ScoresInv, Measurements
  <2> QED
    BY <1>10, <2>2, <2>3, <2>4, <2>5, <2>6, <2>7 DEF EvidenceInv
<1> QED
  BY <1>12, <1>13

LEMMA UnbuiltType == Unbuilt \in BOOLEAN
  BY DEF Unbuilt

LEMMA RunCommandKeepsEvidence ==
  ASSUME GateInv, GateInv', EvidenceInv, RunCommand
  PROVE  EvidenceInv'
<1> DEFINE key == cache_key(Current, Side)
<1>1. /\ pc = "correctness" /\ key \notin DOMAIN cache /\ shells' = shells + 1
  BY DEF RunCommand
<1>2. PICK outcome \in Outcomes :
        /\ cache' = [k \in DOMAIN cache \cup {key} |->
                       IF k \in DOMAIN cache THEN cache[k] ELSE outcome]
        /\ ran' = ran \cup {[command |-> Current.command, side |-> Side,
                             build |-> tree, unbuilt |-> Unbuilt,
                             outcome |-> outcome]}
        /\ Evaluated(outcome)
  BY DEF RunCommand
<1>3. /\ DOMAIN cache' = DOMAIN cache \cup {key}
      /\ cache'[key] = outcome
      /\ \A k \in DOMAIN cache : cache'[k] = cache[k]
  <2> HIDE DEF key
  <2> QED
    BY <1>1, <1>2 DEF key
<1>4. key = <<Current.command, Side>>
  BY DEF cache_key
<1>5. CacheInv'
  <2> HIDE DEF key
  <2>1. DOMAIN cache' = {<<r.command, r.side>> : r \in ran'}
    <3> DEFINE new == [command |-> Current.command, side |-> Side,
                       build |-> tree, unbuilt |-> Unbuilt,
                       outcome |-> outcome]
    <3>1. <<new.command, new.side>> = key /\ ran' = ran \cup {new}
      BY <1>2, <1>4
    <3>2. DOMAIN cache = {<<r.command, r.side>> : r \in ran}
      BY DEF EvidenceInv, CacheInv
    <3> HIDE DEF new
    <3> QED
      BY <1>3, <3>1, <3>2
  <2>2. ASSUME NEW r \in ran'
        PROVE  cache'[<<r.command, r.side>>] = r.outcome
    <3>1. CASE r \in ran
      <4>1. <<r.command, r.side>> \in DOMAIN cache
            /\ cache[<<r.command, r.side>>] = r.outcome
        BY <3>1 DEF EvidenceInv, CacheInv
      <4> QED
        BY <1>3, <4>1
    <3>2. CASE r \notin ran
      BY <1>2, <1>3, <1>4, <3>2
    <3> QED
      BY <3>1, <3>2
  <2>3. /\ IsFiniteSet(DOMAIN cache \cup {key})
        /\ Cardinality(DOMAIN cache \cup {key}) = Cardinality(DOMAIN cache) + 1
        /\ Cardinality(DOMAIN cache) \in Nat
    BY <1>1, FS_AddElement, FS_CardinalityType DEF EvidenceInv, CacheInv, key
  <2>4. shells' \in Nat /\ shells' \leq Cardinality(DOMAIN cache')
    BY <1>1, <1>3, <2>3 DEF EvidenceInv, CacheInv
  <2> QED
    BY <1>3, <2>1, <2>2, <2>3, <2>4 DEF CacheInv
<1>6. LogType'
  <2>1. /\ at \in DOMAIN plan.correctness /\ plan \in TestPlans /\ Side \in Sides
    BY <1>1, SideIsASide DEF GateInv, WorkInv, PlanInv
  <2>2. Current.command \in Commands
    BY <2>1 DEF Commands, Current
  <2>3. tree \in Builds /\ UNCHANGED completed
    BY <1>2 DEF EvidenceInv, NodeType, Evaluated
  <2>4. [command |-> Current.command, side |-> Side, build |-> tree,
         unbuilt |-> Unbuilt, outcome |-> outcome] \in CommandRuns
    BY <2>1, <2>2, <2>3, UnbuiltType DEF CommandRuns
  <2> QED
    BY <1>2, <2>3, <2>4 DEF EvidenceInv, LogType
<1> QED
  BY <1>1, <1>2, <1>3, <1>5, <1>6, EvaluatedKeepsEvidence

LEMMA ReuseOutcomeKeepsEvidence ==
  ASSUME GateInv, EvidenceInv, ReuseOutcome
  PROVE  EvidenceInv'
<1>1. /\ pc = "correctness" /\ UNCHANGED <<cache, ran, shells>>
      /\ cache_key(Current, Side) \in DOMAIN cache
      /\ Evaluated(cache[cache_key(Current, Side)])
  BY DEF ReuseOutcome
<1>2. UNCHANGED completed
  BY <1>1 DEF Evaluated
<1>3. CacheInv' /\ LogType'
  BY <1>1, <1>2, CacheKept DEF EvidenceInv, LogType
<1> QED
  BY <1>1, <1>3, EvaluatedKeepsEvidence

-----------------------------------------------------------------------------
(* Measurements *)

\* A step of a measurement adds completed traces and results of its own.
Measurement ==
  /\ pc \in Past /\ pc' \in Past
  /\ UNCHANGED <<plan, edition, tree, cache, failing, verdict, ran, shells>>
  /\ completed \subseteq completed'
  /\ completed' \subseteq CompletedTraces
  /\ tried' \in BOOLEAN
  /\ results'.correctness = results.correctness

\* What a measurement has not to look at.
LEMMA MeasurementFrame ==
  ASSUME EvidenceInv, Measurement
  PROVE  NodeType' /\ LogType' /\ CacheInv' /\ JudgedInv' /\ CorrectnessInv'
         /\ EntryInv' /\ VerdictInv'
<1> USE DEF Measurement
<1>1. NodeType' /\ LogType'
  BY DEF EvidenceInv, NodeType, LogType
<1>2. CacheInv' /\ JudgedInv' /\ CorrectnessInv'
  BY CacheKept, JudgedKept, CorrectnessKept DEF EvidenceInv
<1>3. EntryInv' /\ VerdictInv'
  BY DEF EvidenceInv, EntryInv, VerdictInv, Past
<1> QED
  BY <1>1, <1>2, <1>3

\* A performance entry begins, or the gate judges.
LEMMA PerformanceBegins ==
  ASSUME GateInv, EvidenceInv, NEW i \in Nat \ {0}, i \leq Len(plan.performance) + 1,
         ToPerformance(i), plan' = plan, tried \in BOOLEAN,
         Len(results'.performance) = i - 1
  PROVE  /\ pc' \in {"performance_on", "judge"} /\ at' \in Nat /\ tried' \in BOOLEAN
         /\ (Measuring => left \in Seq(Traces) /\ left # <<>>)'
         /\ (ByAdapter => left = TraceList)'
         /\ PerformanceInv' /\ DoneInv'
<1>1. CASE i \leq Len(plan.performance)
  <2>1. pc' = "performance_on" /\ at' = i /\ left' = TraceList /\ tried' = FALSE
    BY <1>1 DEF ToPerformance, Measure
  <2>2. PerformanceInv'
    BY <1>1, <2>1, PlanFacts DEF PerformanceInv, Performing
  <2>3. Todo' = Traces
    BY <2>1, TracesOfTheList DEF Todo
  <2>4. DoneInv'
    BY <2>1, <2>3 DEF DoneInv
  <2> QED
    BY <2>1, <2>2, <2>4, PlanFacts DEF Measuring, ByAdapter
<1>2. CASE ~(i \leq Len(plan.performance))
  <2>1. pc' = "judge" /\ UNCHANGED <<at, left, tried>>
    BY <1>2 DEF ToPerformance
  <2>2. i - 1 = Len(plan.performance)
    BY <1>2, PlanFacts
  <2>3. PerformanceInv' /\ DoneInv'
    BY <2>1, <2>2, PlanFacts DEF PerformanceInv, DoneInv, Performing, Measuring
  <2> QED
    BY <2>1, <2>3 DEF EvidenceInv, StepType, Measuring, ByAdapter
<1> QED
  BY <1>1, <1>2

\* The result of a scored entry is the next one.
LEMMA ScoredResults ==
  ASSUME GateInv, EvidenceInv, pc \in Performing, NEW failed \in SUBSET Traces,
         NEW gain \in {"short", "floor", "target"}, Scored(failed, gain)
  PROVE  /\ at \in 1..Len(plan.performance) /\ at \in Nat \ {0}
         /\ lost' = NothingLost /\ ToPerformance(at + 1)
         /\ results' \in Results
         /\ results'.correctness = results.correctness
         /\ results'.smoke = results.smoke
         /\ Len(results'.performance) = at
         /\ DOMAIN results'.performance = 1..at
         /\ DOMAIN results.performance = 1..(at - 1)
         /\ \A i \in 1..(at - 1) : results'.performance[i] = results.performance[i]
         /\ results'.performance[at] = [failed_traces |-> failed, gain |-> gain]
<1> DEFINE result == [failed_traces |-> failed, gain |-> gain]
<1>1. /\ results' = [results EXCEPT !.performance = Append(@, result)]
      /\ lost' = NothingLost /\ ToPerformance(at + 1)
  BY DEF Scored
<1>2. /\ at \in 1..Len(plan.performance) /\ at \in Nat \ {0}
      /\ Len(results.performance) = at - 1 /\ results \in Results
  BY PlanFacts DEF EvidenceInv, PerformanceInv, StepType
<1>3. result \in Result
  BY DEF Result
<1> HIDE DEF result
<1>4. /\ Append(results.performance, result) \in Seq(Result)
      /\ Len(Append(results.performance, result)) = at
      /\ \A i \in 1..(at - 1) :
           Append(results.performance, result)[i] = results.performance[i]
      /\ Append(results.performance, result)[at] = result
      /\ DOMAIN Append(results.performance, result) = 1..at
      /\ DOMAIN results.performance = 1..(at - 1)
  <2>1. results.performance \in Seq(Result)
    BY <1>2 DEF Results
  <2>2. /\ Append(results.performance, result) \in Seq(Result)
        /\ Len(Append(results.performance, result)) = Len(results.performance) + 1
        /\ \A i \in 1..Len(results.performance) :
             Append(results.performance, result)[i] = results.performance[i]
        /\ Append(results.performance, result)[Len(results.performance) + 1] = result
    BY <1>3, <2>1, AppendProperties
  <2>3. Len(results.performance) + 1 = at
    BY <1>2
  <2> QED
    BY <1>2, <2>1, <2>2, <2>3, LenProperties
<1>5. /\ results'.performance = Append(results.performance, result)
      /\ results' \in Results
      /\ results'.correctness = results.correctness
      /\ results'.smoke = results.smoke
  BY <1>1, <1>2, <1>4 DEF Results
<1> QED
  BY <1>1, <1>2, <1>4, <1>5 DEF result

\* An entry is scored: if it may pass, its measurements are complete.
LEMMA ScoredKeepsEvidence ==
  ASSUME GateInv, EvidenceInv, pc \in Performing,
         NEW failed \in SUBSET Traces, NEW gain \in {"short", "floor", "target"},
         Scored(failed, gain),
         UNCHANGED <<plan, edition, tree, cache, failing, verdict, ran, shells>>,
         completed \subseteq completed',
         completed' \subseteq CompletedTraces,
         failed = {} /\ gain # "short" =>
           \A t \in Traces, side \in Measurements(at) : Done(completed', at, side, t)
  PROVE  EvidenceInv'
<1>1. /\ at \in 1..Len(plan.performance) /\ at \in Nat \ {0}
      /\ lost' = NothingLost /\ ToPerformance(at + 1)
      /\ results' \in Results
      /\ results'.correctness = results.correctness
      /\ results'.smoke = results.smoke
      /\ Len(results'.performance) = at
      /\ DOMAIN results'.performance = 1..at
      /\ DOMAIN results.performance = 1..(at - 1)
      /\ \A i \in 1..(at - 1) : results'.performance[i] = results.performance[i]
      /\ results'.performance[at] = [failed_traces |-> failed, gain |-> gain]
  BY ScoredResults
<1>2. /\ pc' \in {"performance_on", "judge"} /\ at' \in Nat /\ tried' \in BOOLEAN
      /\ (Measuring => left \in Seq(Traces) /\ left # <<>>)'
      /\ (ByAdapter => left = TraceList)'
      /\ PerformanceInv' /\ DoneInv'
  <2>1. /\ at + 1 \in Nat \ {0} /\ at + 1 \leq Len(plan.performance) + 1
        /\ Len(results'.performance) = (at + 1) - 1 /\ tried \in BOOLEAN
    BY <1>1, PlanFacts DEF EvidenceInv, NodeType
  <2> QED
    BY <1>1, <2>1, PerformanceBegins
<1>3. Measurement
  BY <1>1, <1>2 DEF Measurement, Past, Performing
<1>4. StepType'
  BY <1>1, <1>2 DEF EvidenceInv, StepType, Steps, NothingLost
<1>5. ScoresInv'
  <2>1. \A t \in Traces : results'.smoke => Done(completed', 0, "on", t)
    BY <1>1, DoneKept DEF EvidenceInv, ScoresInv
  <2>2. ASSUME NEW i \in 1..at, results'.performance[i].failed_traces = {},
               results'.performance[i].gain # "short",
               NEW t \in Traces, NEW side \in Measurements(i)
        PROVE  Done(completed', i, side, t)
    <3>1. CASE i = at
      BY <1>1, <2>2, <3>1
    <3>2. CASE i # at
      <4>1. i \in DOMAIN results.performance
            /\ results'.performance[i] = results.performance[i]
        BY <1>1, <3>2
      <4>2. Done(completed, i, side, t)
        BY <2>2, <4>1 DEF EvidenceInv, ScoresInv
      <4> QED
        BY <4>2, DoneKept
    <3> QED
      BY <3>1, <3>2
  <2> QED
    BY <1>1, <2>1, <2>2 DEF ScoresInv, Measurements
<1> QED
  BY <1>2, <1>3, <1>4, <1>5, MeasurementFrame DEF EvidenceInv

\* A measurement has lost what it lost and completed the rest.
LEMMA MeasuredKeepsEvidence ==
  ASSUME GateInv, EvidenceInv, NEW missing \in SUBSET Traces, Measured(missing),
         UNCHANGED <<plan, edition, tree, cache, failing, verdict, ran, shells>>,
         completed \subseteq completed',
         completed' \subseteq CompletedTraces,
         \A t \in Traces : t \in missing \/ Done(completed', at, Side, t)
  PROVE  EvidenceInv'
<1>1. /\ results \in Results /\ lost \in [Sides -> SUBSET Traces] /\ tried \in BOOLEAN
      /\ Len(plan.performance) \in Nat \ {0}
      /\ {"on", "off"} = Sides
  BY PlanFacts DEF EvidenceInv, StepType, NodeType, Sides
<1>2. CASE pc = "smoke"
  <2>1. /\ results' = [results EXCEPT !.smoke = (missing = {})]
        /\ lost' = NothingLost /\ ToPerformance(1)
    BY <1>2 DEF Measured
  <2>2. /\ results' \in Results /\ results'.smoke = (missing = {})
        /\ results'.correctness = results.correctness
        /\ results'.performance = results.performance
        /\ results.performance = <<>> /\ at = 0
    BY <1>1, <1>2, <2>1 DEF Results, EvidenceInv, PerformanceInv
  <2>3. /\ pc' \in {"performance_on", "judge"} /\ at' \in Nat /\ tried' \in BOOLEAN
        /\ (Measuring => left \in Seq(Traces) /\ left # <<>>)'
        /\ (ByAdapter => left = TraceList)'
        /\ PerformanceInv' /\ DoneInv'
    <3>1. /\ 1 \in Nat \ {0} /\ 1 \leq Len(plan.performance) + 1
          /\ Len(results'.performance) = 1 - 1
      BY <1>1, <2>2
    <3> QED
      BY <1>1, <2>1, <3>1, PerformanceBegins
  <2>4. Measurement
    BY <1>2, <2>2, <2>3 DEF Measurement, Past
  <2>5. StepType'
    BY <2>1, <2>2, <2>3 DEF EvidenceInv, StepType, Steps, NothingLost
  <2>6. ScoresInv'
    <3>1. Side = "on"
      BY <1>2 DEF Side
    <3>2. results'.smoke => \A t \in Traces : Done(completed', 0, "on", t)
      BY <2>2, <3>1
    <3> QED
      BY <2>2, <3>2 DEF ScoresInv
  <2> QED
    BY <2>3, <2>4, <2>5, <2>6, MeasurementFrame DEF EvidenceInv
<1>3. CASE pc = "performance_on" /\ missing = Traces
  <2>1. Scored(missing, "short")
    BY <1>3 DEF Measured
  <2> QED
    BY <1>3, <2>1, ScoredKeepsEvidence DEF Performing
<1>4. CASE pc \in {"performance_on", "performance_off"}
           /\ ~(pc = "performance_on" /\ missing = Traces)
  <2>1. /\ lost' = [lost EXCEPT ![Side] = missing] /\ UNCHANGED results
        /\ \/ /\ pc = "performance_on" /\ plan.performance[at].measured
              /\ pc' = "performance_off" /\ at' = at /\ left' = TraceList
              /\ tried' = FALSE
           \/ /\ pc = "performance_on" /\ ~plan.performance[at].measured
              /\ pc' = "score" /\ UNCHANGED <<at, left, tried>>
           \/ /\ pc = "performance_off" /\ pc' = "score"
              /\ UNCHANGED <<at, left, tried>>
    BY <1>4 DEF Measured, Measure, Side
  <2>2. /\ pc = "performance_on" => Side = "on"
        /\ pc = "performance_off" => Side = "off"
    BY DEF Side
  <2>3. /\ at \in DOMAIN plan.performance /\ Len(results.performance) = at - 1
        /\ at \in Nat
        /\ pc = "performance_off" => plan.performance[at].measured
    BY <1>4 DEF EvidenceInv, PerformanceInv, Performing, StepType
  <2>4. Measurement
    BY <1>1, <1>4, <2>1 DEF Measurement, Past
  <2>5. lost' \in [Sides -> SUBSET Traces] /\ lost'[Side] = missing
        /\ \A s \in Sides : s # Side => lost'[s] = lost[s]
    BY <1>1, <1>4, <2>1, <2>2
  <2>6. StepType'
    BY <2>1, <2>5, PlanFacts DEF EvidenceInv, StepType, Steps, Measuring, ByAdapter
  <2>7. PerformanceInv'
    BY <2>1, <2>3 DEF EvidenceInv, PerformanceInv, Performing
  <2>8. DoneInv'
    <3>1. \A t \in Traces : t \in lost'["on"] \/ Done(completed', at, "on", t)
      <4>1. CASE pc = "performance_on"
        BY <2>2, <2>5, <4>1
      <4>2. CASE pc = "performance_off"
        BY <1>1, <2>2, <2>5, <4>2, DoneKept DEF EvidenceInv, DoneInv
      <4> QED
        BY <1>4, <4>1, <4>2
    <3>2. plan.performance[at].measured /\ pc' = "score" =>
            \A t \in Traces : t \in lost'["off"] \/ Done(completed', at, "off", t)
      BY <2>1, <2>2, <2>5
    <3>3. pc' = "performance_off" => Todo' = Traces
      BY <2>1, TracesOfTheList DEF Todo
    <3> QED
      BY <2>1, <3>1, <3>2, <3>3 DEF DoneInv, Measuring
  <2>9. ScoresInv'
    BY <2>1, DoneKept DEF EvidenceInv, ScoresInv, Measurements
  <2> QED
    BY <2>4, <2>6, <2>7, <2>8, <2>9, MeasurementFrame DEF EvidenceInv
<1> QED
  BY <1>2, <1>3, <1>4 DEF Measured

LEMMA TraceListMissingKeepsEvidence ==
  ASSUME GateInv, EvidenceInv, TraceListMissing
  PROVE  EvidenceInv'
<1>1. UNCHANGED <<plan, edition, tree, cache, failing, verdict, ran, completed, shells>>
  BY DEF TraceListMissing, executor, history
<1>2. /\ results \in Results /\ tried \in BOOLEAN
      /\ Len(plan.performance) \in Nat \ {0}
      /\ completed' \subseteq CompletedTraces
  BY <1>1, PlanFacts DEF EvidenceInv, StepType, NodeType, LogType
<1>3. CASE pc = "smoke"
  <2>1. /\ results' = [results EXCEPT !.smoke = FALSE]
        /\ ToPerformance(1) /\ UNCHANGED lost
    BY <1>3 DEF TraceListMissing
  <2>2. /\ results' \in Results /\ ~results'.smoke
        /\ results'.correctness = results.correctness
        /\ results'.performance = results.performance
        /\ results.performance = <<>>
    BY <1>2, <1>3, <2>1 DEF Results, EvidenceInv, PerformanceInv
  <2>3. /\ pc' \in {"performance_on", "judge"} /\ at' \in Nat /\ tried' \in BOOLEAN
        /\ (Measuring => left \in Seq(Traces) /\ left # <<>>)'
        /\ (ByAdapter => left = TraceList)'
        /\ PerformanceInv' /\ DoneInv'
    <3>1. /\ 1 \in Nat \ {0} /\ 1 \leq Len(plan.performance) + 1
          /\ Len(results'.performance) = 1 - 1 /\ plan' = plan
      BY <1>1, <1>2, <2>2
    <3> QED
      BY <1>2, <2>1, <3>1, PerformanceBegins
  <2>4. Measurement
    BY <1>1, <1>2, <1>3, <2>2, <2>3 DEF Measurement, Past
  <2>5. StepType'
    BY <1>1, <2>1, <2>2, <2>3 DEF EvidenceInv, StepType, Steps
  <2>6. ScoresInv'
    BY <2>2 DEF ScoresInv
  <2> QED
    BY <2>3, <2>4, <2>5, <2>6, MeasurementFrame DEF EvidenceInv
<1>4. CASE pc = "performance_on"
  <2>1. Scored({}, "short")
    BY <1>4 DEF TraceListMissing
  <2> QED
    BY <1>1, <1>2, <1>4, <2>1, ScoredKeepsEvidence DEF Performing
<1> QED
  BY <1>3, <1>4 DEF TraceListMissing

\* What a completed trace says is of its type.
LEMMA CompletionType ==
  ASSUME EvidenceInv, Side \in Sides, NEW done \in SUBSET Traces, NEW build \in Builds,
         NEW unbuilt \in BOOLEAN
  PROVE  Completion(done, build, unbuilt) \subseteq CompletedTraces
  BY DEF EvidenceInv, StepType, Completion, CompletedTraces

LEMMA CompletionIsDone ==
  ASSUME NEW done, NEW build, NEW unbuilt, NEW traces, NEW t \in done,
         Completion(done, build, unbuilt) \subseteq traces
  PROVE  Done(traces, at, Side, t)
<1>1. [entry |-> at, side |-> Side, trace |-> t, build |-> build,
       unbuilt |-> unbuilt] \in traces
  BY DEF Completion
<1> QED
  BY <1>1 DEF Done

LEMMA RunTracesKeepsEvidence ==
  ASSUME GateInv, EvidenceInv, RunTraces
  PROVE  EvidenceInv'
<1>1. /\ UNCHANGED <<plan, edition, tree, held, cache, failing, verdict, ran, shells>>
      /\ ByAdapter
  BY DEF RunTraces, executor
<1> DEFINE bytes == [key |-> build_key(Side), edition |-> held[build_key(Side)]]
<1>2. PICK missing \in SUBSET Traces :
        /\ completed' = completed \cup Completion(Traces \ missing, bytes, FALSE)
        /\ Measured(missing)
  BY DEF RunTraces
<1>3. Side \in Sides /\ build_key(Side) \in Sides
  BY SideIsASide DEF GateInv
<1>4. bytes \in Builds
  <2>1. held[build_key(Side)] \in 0..MaxAttempts
    BY <1>3, GateAssumption DEF GateInv, HeldInv, EvidenceInv, NodeType
  <2> QED
    BY <1>3, <2>1 DEF Builds
<1> HIDE DEF bytes
<1>5. completed' \subseteq CompletedTraces
  <2>1. Completion(Traces \ missing, bytes, FALSE) \subseteq CompletedTraces
    BY <1>3, <1>4, CompletionType
  <2> QED
    BY <1>2, <2>1 DEF EvidenceInv, LogType
<1>6. \A t \in Traces : t \in missing \/ Done(completed', at, Side, t)
  BY <1>2, CompletionIsDone
<1>7. completed \subseteq completed'
  BY <1>2
<1> QED
  BY <1>1, <1>2, <1>5, <1>6, <1>7, MeasuredKeepsEvidence

LEMMA RunTraceCommandKeepsEvidence ==
  ASSUME GateInv, EvidenceInv, RunTraceCommand
  PROVE  EvidenceInv'
<1>1. /\ UNCHANGED <<plan, edition, tree, cache, failing, verdict, ran, shells>>
      /\ ByShell /\ Measuring /\ pc \in {"smoke", "performance_on", "performance_off"}
  BY DEF RunTraceCommand, ByShell, Measuring, executor
<1>2. PICK ok \in {FALSE} \cup {tree # NoBuild} :
        LET missing == lost[Side] \cup (IF ok THEN {} ELSE {Head(left)}) IN
        /\ completed' = completed \cup
             (IF ok THEN Completion({Head(left)}, tree, Unbuilt) ELSE {})
        /\ IF Len(left) = 1
             THEN Measured(missing)
             ELSE /\ lost' = [lost EXCEPT ![Side] = missing]
                  /\ left' = Tail(left)
                  /\ tried' = FALSE
                  /\ UNCHANGED <<pc, at, results>>
  BY DEF RunTraceCommand
<1> DEFINE missing == lost[Side] \cup (IF ok THEN {} ELSE {Head(left)})
<1>3. /\ Side \in Sides /\ tree \in Builds /\ lost \in [Sides -> SUBSET Traces]
      /\ left \in Seq(Traces) /\ left # <<>>
  BY <1>1, SideIsASide DEF GateInv, EvidenceInv, NodeType, StepType
<1>4. /\ Todo = {Head(left)} \cup Items(Tail(left)) /\ Head(left) \in Traces
      /\ Len(left) = 1 => Todo = {Head(left)}
      /\ Tail(left) \in Seq(Traces) /\ (Len(left) # 1 => Tail(left) # <<>>)
  BY <1>3, ItemsSplit DEF Todo
<1>5. /\ completed \subseteq completed'
      /\ completed' \subseteq CompletedTraces
      /\ ok => Done(completed', at, Side, Head(left))
  <2>1. CASE ok
    <3>1. completed' = completed \cup Completion({Head(left)}, tree, Unbuilt)
      BY <1>2, <2>1
    <3>2. Completion({Head(left)}, tree, Unbuilt) \subseteq CompletedTraces
      BY <1>3, <1>4, CompletionType, UnbuiltType
    <3>3. Done(completed', at, Side, Head(left))
      BY <3>1, CompletionIsDone
    <3> QED
      BY <3>1, <3>2, <3>3 DEF EvidenceInv, LogType
  <2>2. CASE ~ok
    BY <1>2, <2>2 DEF EvidenceInv, LogType
  <2> QED
    BY <2>1, <2>2
<1>6. missing \in SUBSET Traces /\ (ok \/ Head(left) \in missing)
      /\ lost[Side] \subseteq missing
  BY <1>3, <1>4
<1>7. \A t \in Traces : t \in Items(Tail(left)) \/ t = Head(left) \/ t \in lost[Side]
                        \/ Done(completed, at, Side, t)
  BY <1>1, <1>4 DEF EvidenceInv, DoneInv
<1>8. \A t \in Traces : t \in Items(Tail(left)) \/ t \in missing
                        \/ Done(completed', at, Side, t)
  <2> HIDE DEF missing
  <2> SUFFICES ASSUME NEW t \in Traces, t \notin Items(Tail(left)), t \notin missing
               PROVE  Done(completed', at, Side, t)
    OBVIOUS
  <2>1. CASE t = Head(left)
    BY <1>5, <1>6, <2>1
  <2>2. CASE t # Head(left)
    BY <1>5, <1>6, <1>7, <2>2, DoneKept
  <2> QED
    BY <2>1, <2>2
<1>9. CASE Len(left) = 1
  <2>1. Measured(missing)
    BY <1>2, <1>9
  <2>2. \A t \in Traces : t \in missing \/ Done(completed', at, Side, t)
    <3> HIDE DEF missing
    <3>1. ASSUME NEW t \in Traces
          PROVE  t \in missing \/ Done(completed', at, Side, t)
      <4>1. CASE t = Head(left)
        BY <1>5, <1>6, <4>1
      <4>2. CASE t # Head(left)
        <5>1. t \in lost[Side] \/ Done(completed, at, Side, t)
          BY <1>1, <1>4, <1>9, <4>2 DEF EvidenceInv, DoneInv
        <5> QED
          BY <1>5, <1>6, <5>1, DoneKept
      <4> QED
        BY <4>1, <4>2
    <3> QED
      BY <3>1
  <2> HIDE DEF missing
  <2> QED
    BY <1>1, <1>5, <1>6, <2>1, <2>2, MeasuredKeepsEvidence
<1>10. CASE Len(left) # 1
  <2>1. /\ lost' = [lost EXCEPT ![Side] = missing] /\ left' = Tail(left)
        /\ tried' = FALSE /\ UNCHANGED <<pc, at, results>>
    BY <1>2, <1>10
  <2> HIDE DEF missing
  <2>2. Measurement
    BY <1>1, <1>5, <2>1 DEF Measurement, Past
  <2>3. /\ lost' \in [Sides -> SUBSET Traces] /\ lost'[Side] = missing
        /\ \A s \in Sides : s # Side => lost'[s] = lost[s]
    BY <1>3, <1>6, <2>1
  <2>4. /\ Todo' = Items(Tail(left)) /\ Side' = Side
        /\ pc = "performance_off" => Side = "off"
        /\ "on" \in Sides
    BY <1>1, <2>1 DEF Todo, Side, Sides
  <2>5. StepType'
    BY <1>1, <1>4, <1>10, <2>1, <2>3
       DEF EvidenceInv, StepType, ByAdapter, ByShell, Measuring
  <2>6. PerformanceInv'
    BY <1>1, <2>1 DEF EvidenceInv, PerformanceInv, Performing
  <2>7. DoneInv'
    <3>1. \A t \in Traces : t \in Todo' \/ t \in lost'[Side] \/ Done(completed', at, Side, t)
      BY <1>8, <2>3, <2>4
    <3>2. pc = "performance_off" =>
            \A t \in Traces : t \in lost'["on"] \/ Done(completed', at, "on", t)
      BY <1>5, <2>3, <2>4, DoneKept DEF EvidenceInv, DoneInv
    <3> QED
      BY <1>1, <2>1, <2>4, <3>1, <3>2 DEF DoneInv
  <2>8. ScoresInv'
    BY <1>1, <1>5, <2>1, DoneKept DEF EvidenceInv, ScoresInv, Measurements
  <2> QED
    BY <2>2, <2>5, <2>6, <2>7, <2>8, MeasurementFrame DEF EvidenceInv
<1> QED
  BY <1>9, <1>10

LEMMA ScoreKeepsEvidence ==
  ASSUME GateInv, EvidenceInv, Score
  PROVE  EvidenceInv'
<1>1. /\ pc = "score"
      /\ UNCHANGED <<plan, edition, tree, cache, failing, verdict, ran, completed, shells>>
  BY DEF Score, executor, history
<1>2. PICK gain \in {"short", "floor", "target"} : Scored(failed_traces, gain)
  BY DEF Score
<1>3. failed_traces \in SUBSET Traces
  BY DEF EvidenceInv, StepType, failed_traces, Sides
<1>4. failed_traces = {} =>
        \A t \in Traces, side \in Measurements(at) : Done(completed', at, side, t)
  <2>1. ASSUME failed_traces = {}, NEW t \in Traces, NEW side \in Measurements(at)
        PROVE  Done(completed, at, side, t)
    BY <1>1, <2>1 DEF EvidenceInv, DoneInv, failed_traces, Measurements
  <2> QED
    BY <1>1, <2>1
<1>5. completed' \subseteq CompletedTraces
  BY <1>1 DEF EvidenceInv, LogType
<1> HIDE DEF failed_traces
<1> QED
  BY <1>1, <1>2, <1>3, <1>4, <1>5, ScoredKeepsEvidence DEF Performing

-----------------------------------------------------------------------------
(* Builds, the verdict and the next attempt *)

LEMMA LeftByAFailedBuildType ==
  ASSUME GateInv, EvidenceInv
  PROVE  left_by_failed_build \subseteq Builds
<1>1. build_key(Side) \in Sides /\ edition \in 0..MaxAttempts
  BY SideIsASide, GateAssumption DEF GateInv, EvidenceInv, NodeType
<1>2. [key |-> build_key(Side), edition |-> edition] \in Builds
  BY <1>1 DEF Builds
<1>3. NoBuild \in Builds /\ tree \in Builds
  BY GateAssumption DEF Builds, NoBuild, EvidenceInv, NodeType
<1> QED
  BY <1>2, <1>3 DEF left_by_failed_build

LEMMA BuildKeepsEvidence ==
  ASSUME GateInv, EvidenceInv, BuildSucceeds \/ BuildFails \/ BuildRaises
  PROVE  EvidenceInv'
<1>1. /\ UNCHANGED <<plan, edition, cache, progress, history>> /\ tried' = TRUE
      /\ BuildIsDue
  BY DEF BuildSucceeds, BuildFails, BuildRaises
<1>2. pc # "over"
  BY <1>1 DEF BuildIsDue, ByAdapter, ByShell, Measuring
<1>3. \/ pc' = pc /\ verdict' = verdict
      \/ pc' = "over" /\ verdict' = "build raised"
  BY DEF BuildSucceeds, BuildFails, BuildRaises
<1>4. tree' \in Builds
  <2>1. [key |-> build_key(Side), edition |-> edition] \in left_by_failed_build
    BY DEF left_by_failed_build
  <2>2. tree' \in left_by_failed_build
    BY <2>1 DEF BuildSucceeds, BuildFails, BuildRaises
  <2> QED
    BY <2>2, LeftByAFailedBuildType
<1>5. NodeType'
  BY <1>1, <1>4 DEF EvidenceInv, NodeType
<1>6. verdict' \in Verdicts /\ VerdictInv'
  BY <1>2, <1>3 DEF EvidenceInv, StepType, VerdictInv, Verdicts
<1> QED
  BY <1>1, <1>3, <1>5, <1>6, QuietKeepsEvidence

LEMMA CallOverKeepsEvidence ==
  ASSUME GateInv, EvidenceInv,
         AggregateRaises \/ TraceRaises \/ HostRaises \/ ScoreRaises
  PROVE  EvidenceInv'
<1>1. /\ UNCHANGED <<plan, edition, tried, cache, progress, history>>
      /\ pc' = "over" /\ verdict' \in Verdicts \ {"passed"}
  BY DEF AggregateRaises, TraceRaises, HostRaises, ScoreRaises, Verdicts
<1>2. tree' \in {tree} \cup left_by_failed_build
  BY DEF AggregateRaises, TraceRaises, HostRaises, ScoreRaises, executor
<1>3. tree' \in Builds
  BY <1>2, LeftByAFailedBuildType DEF EvidenceInv, NodeType
<1>4. NodeType' /\ VerdictInv'
  BY <1>1, <1>3 DEF EvidenceInv, NodeType, VerdictInv
<1> QED
  BY <1>1, <1>4, QuietKeepsEvidence

\* With no reason, everything the test plan asks for is there.
LEMMA NoReasonIsEvidence ==
  ASSUME GateInv, EvidenceInv, pc = "judge", ~reasons
  PROVE  Evidence
<1>1. HasBaselineEntry
  BY DEF reasons
<1>2. /\ DOMAIN plan.correctness = 1..Len(plan.correctness)
      /\ DOMAIN results.correctness = 1..Len(plan.correctness)
      /\ DOMAIN plan.performance = 1..Len(plan.performance)
      /\ DOMAIN results.performance = 1..Len(plan.performance)
      /\ \A i \in DOMAIN results.correctness : results.correctness[i] \in BOOLEAN
  <2>1. /\ results.correctness \in Seq(BOOLEAN) /\ results.performance \in Seq(Result)
        /\ Len(results.correctness) = Len(plan.correctness)
        /\ Len(results.performance) = Len(plan.performance)
    BY DEF EvidenceInv, StepType, Results, CorrectnessInv, PerformanceInv, Past
  <2> QED
    BY <2>1, PlanFacts, LenProperties, ElementOfSeq
<1>3. ASSUME NEW i \in DOMAIN plan.correctness,
             NEW j \in DOMAIN states(plan.correctness[i])
      PROVE  \E r \in ran :
               /\ r.command = plan.correctness[i].command
               /\ r.side = states(plan.correctness[i])[j]
               /\ evaluate_condition(plan.correctness[i], r.outcome)
  <2>1. results.correctness[i]
    BY <1>2 DEF reasons
  <2>2. states(plan.correctness[i])[j] \in Declared(plan.correctness[i])
    BY DEF Declared, Items
  <2>3. Met(cache, plan.correctness[i], states(plan.correctness[i])[j])
    BY <1>2, <2>1, <2>2 DEF EvidenceInv, JudgedInv
  <2> QED
    BY <2>3, MetIsHeld DEF EvidenceInv
<1>4. \A t \in Traces : \E c \in completed : c.entry = 0 /\ c.trace = t
  BY DEF reasons, EvidenceInv, ScoresInv, Done
<1>5. ASSUME NEW i \in DOMAIN plan.performance
      PROVE  /\ \A t \in Traces :
                  \A side \in {"on"} \cup (IF plan.performance[i].measured THEN {"off"} ELSE {}) :
                    \E c \in completed : c.entry = i /\ c.side = side /\ c.trace = t
             /\ i \in DOMAIN results.performance
             /\ results.performance[i].gain # "short"
  <2>1. /\ i \in DOMAIN results.performance
        /\ results.performance[i].failed_traces = {}
        /\ results.performance[i].gain # "short"
    BY <1>2 DEF reasons, block_passed
  <2> QED
    BY <2>1 DEF EvidenceInv, ScoresInv, Measurements, Done
<1> QED
  BY <1>1, <1>3, <1>4, <1>5 DEF Evidence

\* What the evidence is about.
LEMMA EvidenceKept ==
  ASSUME UNCHANGED <<plan, results, ran, completed>>
  PROVE  Evidence' <=> Evidence
  BY DEF Evidence, HasBaselineEntry

LEMMA CheckGateKeepsEvidence ==
  ASSUME GateInv, EvidenceInv, CheckGate
  PROVE  EvidenceInv'
<1>1. /\ UNCHANGED <<plan, edition, executor, tried, cache, progress, history>>
      /\ pc = "judge" /\ pc' = "over"
      /\ verdict' = IF reasons THEN "refused" ELSE "passed"
  BY DEF CheckGate
<1>2. NodeType' /\ verdict' \in Verdicts
  BY <1>1 DEF EvidenceInv, NodeType, Verdicts, executor
<1>3. VerdictInv'
  <2>1. CASE reasons
    BY <1>1, <2>1 DEF VerdictInv
  <2>2. CASE ~reasons
    BY <1>1, <2>2, NoReasonIsEvidence, EvidenceKept DEF VerdictInv, progress, history
  <2> QED
    BY <2>1, <2>2
<1> QED
  BY <1>1, <1>2, <1>3, QuietKeepsEvidence

\* A fresh attempt has nothing to account for.
LEMMA FreshAttempt ==
  ASSUME GateInv, NodeType, pc = "build", cache = <<>>, at = 0, failing = FALSE,
         lost = NothingLost, results = NoResults, verdict = "none",
         ran = {}, completed = {}, shells = 0
  PROVE  EvidenceInv
<1>1. NoResults \in Results /\ NoResults.correctness = <<>>
      /\ NoResults.performance = <<>> /\ ~NoResults.smoke
  BY EmptySeq DEF NoResults, Results
<1>2. StepType
  BY <1>1 DEF StepType, Steps, Verdicts, NothingLost, Measuring, ByAdapter
<1>3. LogType
  BY DEF LogType
<1>4. CacheInv
  BY FS_EmptySet DEF CacheInv
<1>5. CorrectnessInv /\ PerformanceInv
  <2>1. Len(NoResults.correctness) = 0 /\ Len(NoResults.performance) = 0
    BY <1>1, EmptySeq
  <2> QED
    BY <1>1, <2>1, PlanFacts DEF CorrectnessInv, PerformanceInv, Past, Performing
<1>6. JudgedInv /\ EntryInv /\ DoneInv /\ ScoresInv /\ VerdictInv
  BY <1>1 DEF JudgedInv, EntryInv, DoneInv, ScoresInv, VerdictInv, Measuring
<1> QED
  BY <1>2, <1>3, <1>4, <1>5, <1>6 DEF EvidenceInv

LEMMA NextAttemptKeepsEvidence ==
  ASSUME GateInv', EvidenceInv, NextAttempt
  PROVE  EvidenceInv'
<1>1. /\ edition' = edition + 1 /\ edition < MaxAttempts /\ tree' = tree
      /\ pc' = "build" /\ tried' = FALSE /\ cache' = <<>> /\ at' = 0
      /\ failing' = FALSE /\ lost' = NothingLost /\ results' = NoResults
      /\ verdict' = "none" /\ ran' = {} /\ completed' = {} /\ shells' = 0
  BY DEF NextAttempt, results_at_start
<1>2. NodeType'
  <2>1. edition \in 1..MaxAttempts /\ tree \in Builds /\ MaxAttempts \in Nat
    BY GateAssumption DEF EvidenceInv, NodeType
  <2>2. edition' \in 1..MaxAttempts
    BY <1>1, <2>1
  <2> QED
    BY <1>1, <2>1, <2>2 DEF NodeType
<1>3. (GateInv /\ NodeType /\ pc = "build" /\ cache = <<>> /\ at = 0 /\ failing = FALSE
         /\ lost = NothingLost /\ results = NoResults /\ verdict = "none"
         /\ ran = {} /\ completed = {} /\ shells = 0 => EvidenceInv)'
  BY FreshAttempt, PTL
<1> QED
  BY <1>1, <1>2, <1>3

LEMMA StutterKeepsEvidence ==
  ASSUME EvidenceInv, UNCHANGED vars
  PROVE  EvidenceInv'
<1>1. UNCHANGED <<plan, edition, pc, tree, tried, cache, progress, verdict, history>>
  BY DEF vars, executor
<1>2. NodeType' /\ verdict' \in Verdicts
  BY <1>1 DEF EvidenceInv, NodeType, StepType
<1>3. VerdictInv'
  BY <1>1, EvidenceKept DEF EvidenceInv, VerdictInv, progress, history
<1> QED
  BY <1>1, <1>2, <1>3, QuietKeepsEvidence

-----------------------------------------------------------------------------
(* The theorems *)

\* The runner's bookkeeping stands for what was run, in every state of every
\* attempt (run_test_plan, run_once, _measure).
THEOREM EvidenceInvariant == Spec => []EvidenceInv
<1>1. GateInv /\ Init => EvidenceInv
  <2> SUFFICES ASSUME GateInv, Init PROVE EvidenceInv
    OBVIOUS
  <2>1. NodeType
    <3>1. NoBuild \in Builds /\ 1 \in 1..MaxAttempts
      BY GateAssumption DEF Builds, NoBuild
    <3> QED
      BY <3>1 DEF Init, NodeType
  <2> QED
    BY <2>1, FreshAttempt DEF Init
<1>2. GateInv /\ GateInv' /\ EvidenceInv /\ [Next]_vars => EvidenceInv'
  <2> SUFFICES ASSUME GateInv, GateInv', EvidenceInv, [Next]_vars PROVE EvidenceInv'
    OBVIOUS
  <2>1. CASE BuildSucceeds \/ BuildFails \/ BuildRaises
    BY <2>1, BuildKeepsEvidence
  <2>2. CASE AfterBuild
    BY <2>2, AfterBuildKeepsEvidence
  <2>3. CASE RunCommand \/ ReuseOutcome
    BY <2>3, RunCommandKeepsEvidence, ReuseOutcomeKeepsEvidence
  <2>4. CASE TraceListMissing \/ RunTraces \/ RunTraceCommand
    BY <2>4, TraceListMissingKeepsEvidence, RunTracesKeepsEvidence,
       RunTraceCommandKeepsEvidence
  <2>5. CASE AggregateRaises \/ TraceRaises \/ HostRaises \/ ScoreRaises
    BY <2>5, CallOverKeepsEvidence
  <2>6. CASE Score \/ CheckGate
    BY <2>6, ScoreKeepsEvidence, CheckGateKeepsEvidence
  <2>7. CASE NextAttempt
    BY <2>7, NextAttemptKeepsEvidence
  <2>8. CASE Stop \/ UNCHANGED vars
    BY <2>8, StutterKeepsEvidence DEF Stop
  <2> QED
    BY <2>1, <2>2, <2>3, <2>4, <2>5, <2>6, <2>7, <2>8 DEF Next
<1> QED
  BY <1>1, <1>2, GateInvariant, PTL DEF Spec

\* Every variable of a gate attempt keeps its type.
THEOREM Typed == Spec => []TypeOK
<1>1. GateInv /\ EvidenceInv => TypeOK
  <2> SUFFICES ASSUME GateInv, EvidenceInv PROVE TypeOK
    OBVIOUS
  <2>1. plan \in TestPlans /\ builds \in Nat /\ believed \in Sides \cup {"none"}
    BY DEF GateInv, PlanInv, TreeInv
  <2>2. held \in [Sides -> 0..MaxAttempts]
    BY GateAssumption DEF GateInv, HeldInv, EvidenceInv, NodeType
  <2>3. edition \in 1..MaxAttempts /\ tree \in Builds /\ tried \in BOOLEAN
    BY DEF EvidenceInv, NodeType
  <2>4. /\ pc \in Steps /\ verdict \in Verdicts /\ at \in Nat /\ failing \in BOOLEAN
        /\ lost \in [Sides -> SUBSET Traces] /\ results \in Results
    BY DEF EvidenceInv, StepType
  <2>5. /\ results.correctness \in Seq(BOOLEAN) /\ results.smoke \in BOOLEAN
        /\ Len(results.correctness) \leq Len(plan.correctness)
        /\ Len(results.performance) \leq Len(plan.performance)
    BY <2>4 DEF Results, EvidenceInv, CorrectnessInv, PerformanceInv
  <2>6. /\ ran \subseteq CommandRuns
        /\ completed \subseteq CompletedTraces
    BY DEF EvidenceInv, LogType
  <2>7. shells \in Nat /\ DOMAIN cache = {<<r.command, r.side>> : r \in ran}
    BY DEF EvidenceInv, CacheInv
  <2>8. DOMAIN cache \subseteq Commands \X Sides
    BY <2>6, <2>7 DEF CommandRuns
  <2> QED
    BY <2>1, <2>2, <2>3, <2>4, <2>5, <2>6, <2>7, <2>8 DEF TypeOK, Steps, Verdicts
<1> QED
  BY <1>1, GateInvariant, EvidenceInvariant, PTL

\* Whatever was shared, lost, repeated or raised on the way, a port that passes
\* has everything its test plan asks for (check_gate).
THEOREM PassedOnEvidence == Spec => []PassIsEvidence
<1>1. EvidenceInv => PassIsEvidence
  BY DEF EvidenceInv, VerdictInv, PassIsEvidence
<1> QED
  BY <1>1, EvidenceInvariant, PTL

\* However many entries and states share a command, it is dispatched once for
\* each state (run_once).
THEOREM CommandsShared == Spec => []CommandsRunOnce
<1>1. EvidenceInv => CommandsRunOnce
  BY DEF EvidenceInv, CacheInv, CommandsRunOnce
<1> QED
  BY <1>1, EvidenceInvariant, PTL

-----------------------------------------------------------------------------
(* A refusal *)

LEMMA TailDistinct ==
  ASSUME NEW S, NEW s \in Seq(S), s # <<>>,
         \A i, j \in DOMAIN s : s[i] = s[j] => i = j
  PROVE  /\ \A i, j \in DOMAIN Tail(s) : Tail(s)[i] = Tail(s)[j] => i = j
         /\ Head(s) \notin Items(Tail(s))
<1>1. /\ Len(s) \in Nat \ {0} /\ DOMAIN s = 1..Len(s)
      /\ DOMAIN Tail(s) = 1..(Len(s) - 1)
      /\ \A i \in 1..(Len(s) - 1) : Tail(s)[i] = s[i + 1]
      /\ Head(s) = s[1]
  BY EmptySeq, LenProperties, HeadTailProperties
<1>2. \A i \in 1..(Len(s) - 1) : i + 1 \in 1..Len(s)
  BY <1>1
<1>3. ASSUME NEW i \in DOMAIN Tail(s), NEW j \in DOMAIN Tail(s), Tail(s)[i] = Tail(s)[j]
      PROVE  i = j
  <2>1. i + 1 = j + 1
    BY <1>1, <1>2, <1>3
  <2> QED
    BY <1>1, <2>1
<1>4. Head(s) \notin Items(Tail(s))
  <2> SUFFICES ASSUME NEW i \in DOMAIN Tail(s), Tail(s)[i] = Head(s)
               PROVE  FALSE
    BY DEF Items
  <2>1. i + 1 = 1 /\ i \in 1..(Len(s) - 1)
    BY <1>1, <1>2
  <2> QED
    BY <1>1, <2>1
<1> QED
  BY <1>3, <1>4

\* New completions of other measurements change nothing for this one.
LEMMA NotDoneKept ==
  ASSUME NEW i, NEW side, NEW t, ~Done(completed, i, side, t),
         \A c \in completed' : c \in completed \/ c.entry # i \/ c.side # side \/ c.trace # t
  PROVE  ~Done(completed', i, side, t)
  BY DEF Done

LEMMA QuietKeepsRefusal ==
  ASSUME RefusalInv, UNCHANGED <<plan, progress, history>>,
         pc' \in {pc, "over"}, RefusedInv'
  PROVE  RefusalInv'
<1> USE DEF progress, history
<1>1. LossInv'
  <2>1. CASE pc' = pc
    BY <2>1 DEF RefusalInv, LossInv, Measuring, Side, Todo, Done, Performing
  <2>2. CASE pc' = "over"
    BY <2>2 DEF RefusalInv, LossInv, Measuring, Performing
  <2> QED
    BY <2>1, <2>2
<1>2. MissingInv'
  BY DEF RefusalInv, MissingInv, Measurements, Done, Past
<1> QED
  BY <1>1, <1>2 DEF RefusalInv

\* A step of a measurement gives no verdict.
LEMMA RefusedKept ==
  ASSUME RefusalInv, pc # "over", UNCHANGED verdict
  PROVE  RefusedInv'
  BY DEF RefusalInv, RefusedInv

\* A performance entry has lost and completed nothing when it begins.
LEMMA PerformanceBeginsUnlost ==
  ASSUME GateInv, DistinctTraces, NEW i \in Nat \ {0}, ToPerformance(i),
         lost' = NothingLost,
         pc \notin {"build", "correctness"},
         \A c \in completed' : c.entry \in Nat /\ c.entry < i,
         \A c \in completed' : c.entry = 0 => c.side = "on"
  PROVE  LossInv'
<1>1. CASE i \leq Len(plan.performance)
  <2>1. pc' = "performance_on" /\ at' = i /\ left' = TraceList
    BY <1>1 DEF ToPerformance, Measure
  <2>2. \A c \in completed' : c.entry \leq i /\ c.entry # i
    OBVIOUS
  <2>3. \A s, t : ~Done(completed', i, s, t)
    BY <2>2 DEF Done
  <2>4. lost'["on"] = {} /\ lost'["off"] = {} /\ Side' = "on"
    BY <2>1 DEF NothingLost, Sides, Side
  <2> QED
    BY <2>1, <2>2, <2>3, <2>4 DEF LossInv, DistinctTraces
<1>2. CASE ~(i \leq Len(plan.performance))
  BY <1>2 DEF ToPerformance, LossInv, Measuring, Performing
<1> QED
  BY <1>1, <1>2

\* The failures on record stay failures while later measurements complete.
LEMMA MissingKept ==
  ASSUME MissingInv, EvidenceInv, pc \in Performing, pc' \in Past \ {"smoke"},
         plan' = plan, results'.smoke = results.smoke,
         \A c \in completed' : c \in completed \/ c.entry = at
  PROVE  /\ pc' \in Past \ {"smoke"} /\ ~results'.smoke =>
              \E t \in Traces : ~Done(completed', 0, "on", t)
         /\ \A i \in DOMAIN results.performance :
              results.performance[i].failed_traces # {} /\ results.performance[i].gain # "short" =>
                \E t \in Traces, side \in Measurements(i) : ~Done(completed', i, side, t)
<1>1. at \in DOMAIN plan.performance /\ Len(results.performance) = at - 1
  BY DEF EvidenceInv, PerformanceInv
<1>2. at \in Nat /\ at \notin DOMAIN results.performance /\ at # 0
  <2>1. results.performance \in Seq(Result) /\ at \in Nat
    BY DEF EvidenceInv, StepType, Results
  <2>2. DOMAIN results.performance = 1..(at - 1) /\ at - 1 \in Nat
    BY <1>1, <2>1, LenProperties
  <2> QED
    BY <2>1, <2>2
<1>3. \A i, side, t : i # at /\ ~Done(completed, i, side, t) => ~Done(completed', i, side, t)
  BY DEF Done
<1>4. ~results.smoke => \E t \in Traces : ~Done(completed, 0, "on", t)
  BY DEF MissingInv, Past, Performing
<1>5. \A i \in DOMAIN results.performance :
        results.performance[i].failed_traces # {} /\ results.performance[i].gain # "short" =>
          \E t \in Traces, side \in Measurements(i) : ~Done(completed, i, side, t)
  BY DEF MissingInv
<1> QED
  BY <1>2, <1>3, <1>4, <1>5

LEMMA ScoredKeepsRefusal ==
  ASSUME GateInv, EvidenceInv, RefusalInv, DistinctTraces, pc \in Performing,
         NEW failed \in SUBSET Traces, NEW gain \in {"short", "floor", "target"},
         Scored(failed, gain), UNCHANGED <<plan, verdict>>,
         completed' \subseteq CompletedTraces,
         \A c \in completed' : c \in completed \/ c.entry = at,
         failed # {} /\ gain # "short" =>
           \E t \in Traces, side \in Measurements(at) : ~Done(completed', at, side, t)
  PROVE  RefusalInv'
<1>1. /\ at \in 1..Len(plan.performance) /\ at \in Nat \ {0}
      /\ lost' = NothingLost /\ ToPerformance(at + 1)
      /\ results'.smoke = results.smoke
      /\ DOMAIN results'.performance = 1..at
      /\ DOMAIN results.performance = 1..(at - 1)
      /\ \A i \in 1..(at - 1) : results'.performance[i] = results.performance[i]
      /\ results'.performance[at] = [failed_traces |-> failed, gain |-> gain]
  BY ScoredResults
<1>2. pc' \in Past \ {"smoke"}
  BY <1>1 DEF ToPerformance, Measure, Past
<1>3. LossInv'
  <2>1. \A c \in completed : c.entry \leq at /\ (c.entry = 0 => c.side = "on")
    BY DEF RefusalInv, LossInv
  <2>2. \A c \in completed' : c.entry \in Nat /\ c.entry < at + 1
                              /\ (c.entry = 0 => c.side = "on")
    BY <1>1, <2>1 DEF CompletedTraces
  <2>3. at + 1 \in Nat \ {0} /\ pc \notin {"build", "correctness"}
    BY <1>1 DEF Performing
  <2> QED
    BY <1>1, <2>2, <2>3, PerformanceBeginsUnlost
<1>4. MissingInv'
  <2>1. /\ ~results'.smoke => \E t \in Traces : ~Done(completed', 0, "on", t)
        /\ \A i \in DOMAIN results.performance :
             results.performance[i].failed_traces # {} /\ results.performance[i].gain # "short" =>
               \E t \in Traces, side \in Measurements(i) : ~Done(completed', i, side, t)
    BY <1>1, <1>2, MissingKept DEF RefusalInv
  <2>2. ASSUME NEW i \in 1..at, results'.performance[i].failed_traces # {},
               results'.performance[i].gain # "short"
        PROVE  \E t \in Traces, side \in Measurements(i) : ~Done(completed', i, side, t)
    <3>1. CASE i = at
      BY <1>1, <2>2, <3>1
    <3>2. CASE i # at
      <4>1. i \in 1..(at - 1)
        BY <1>1, <3>2
      <4> QED
        BY <1>1, <2>1, <2>2, <4>1
    <3> QED
      BY <3>1, <3>2
  <2> QED
    BY <1>1, <2>1, <2>2 DEF MissingInv, Measurements
<1>5. RefusedInv'
  BY RefusedKept DEF Performing
<1> QED
  BY <1>3, <1>4, <1>5 DEF RefusalInv

LEMMA MeasuredKeepsRefusal ==
  ASSUME GateInv, EvidenceInv, RefusalInv, DistinctTraces,
         NEW missing \in SUBSET Traces, Measured(missing), UNCHANGED <<plan, verdict>>,
         completed' \subseteq CompletedTraces,
         \A c \in completed' : c \in completed \/ (c.entry = at /\ c.side = Side),
         \A t \in missing : ~Done(completed', at, Side, t)
  PROVE  RefusalInv'
<1>1. /\ results \in Results /\ lost \in [Sides -> SUBSET Traces]
      /\ {"on", "off"} = Sides
  BY DEF EvidenceInv, StepType, Sides
<1>2. CASE pc = "smoke"
  <2>1. /\ results' = [results EXCEPT !.smoke = (missing = {})]
        /\ lost' = NothingLost /\ ToPerformance(1)
    BY <1>2 DEF Measured
  <2>2. /\ results'.smoke = (missing = {})
        /\ results'.performance = results.performance
        /\ results.performance = <<>> /\ at = 0 /\ Side = "on"
    BY <1>1, <1>2, <2>1 DEF Results, EvidenceInv, PerformanceInv, Side
  <2>3. LossInv'
    <3>1. \A c \in completed : c.entry \leq 0 /\ (c.entry = 0 => c.side = "on")
      BY <1>2, <2>2 DEF RefusalInv, LossInv
    <3>2. \A c \in completed' : c.entry \in Nat /\ c.entry < 1
                                /\ (c.entry = 0 => c.side = "on")
      BY <2>2, <3>1 DEF CompletedTraces
    <3>3. 1 \in Nat \ {0} /\ pc \notin {"build", "correctness"}
      BY <1>2
    <3> QED
      BY <2>1, <3>2, <3>3, PerformanceBeginsUnlost
  <2>4. MissingInv'
    <3>1. ~results'.smoke => \E t \in Traces : ~Done(completed', 0, "on", t)
      BY <2>2
    <3>2. DOMAIN results'.performance = {}
      BY <2>2
    <3> QED
      BY <3>1, <3>2 DEF MissingInv
  <2>5. RefusedInv'
    BY <1>2, RefusedKept
  <2> QED
    BY <2>3, <2>4, <2>5 DEF RefusalInv
<1>3. CASE pc = "performance_on" /\ missing = Traces
  <2>1. Scored(missing, "short")
    BY <1>3 DEF Measured
  <2> QED
    BY <1>3, <2>1, ScoredKeepsRefusal DEF Performing
<1>4. CASE pc \in {"performance_on", "performance_off"}
           /\ ~(pc = "performance_on" /\ missing = Traces)
  <2>1. /\ lost' = [lost EXCEPT ![Side] = missing] /\ UNCHANGED results
        /\ \/ /\ pc = "performance_on" /\ plan.performance[at].measured
              /\ pc' = "performance_off" /\ at' = at /\ left' = TraceList
           \/ /\ pc = "performance_on" /\ ~plan.performance[at].measured
              /\ pc' = "score" /\ UNCHANGED <<at, left>>
           \/ /\ pc = "performance_off" /\ pc' = "score" /\ UNCHANGED <<at, left>>
    BY <1>4 DEF Measured, Measure, Side
  <2>2. /\ pc = "performance_on" => Side = "on"
        /\ pc = "performance_off" => Side = "off"
    BY DEF Side
  <2>3. lost'[Side] = missing
        /\ \A s \in Sides : s # Side => lost'[s] = lost[s]
    BY <1>1, <1>4, <2>1, <2>2
  <2>4. /\ at \in DOMAIN plan.performance /\ at \in Nat
        /\ pc = "performance_off" => plan.performance[at].measured
    BY <1>4 DEF EvidenceInv, PerformanceInv, Performing, StepType
  <2>5. at # 0
    BY <2>4, PlanFacts
  <2>6. \A c \in completed' : c.entry \leq at /\ (c.entry = 0 => c.side = "on")
    BY <1>4, <2>4, <2>5 DEF RefusalInv, LossInv, Performing
  <2>7. \A t \in lost'["on"] : ~Done(completed', at, "on", t)
    <3>1. CASE pc = "performance_on"
      BY <2>2, <2>3, <3>1
    <3>2. CASE pc = "performance_off"
      BY <1>1, <2>2, <2>3, <3>2 DEF RefusalInv, LossInv, Done
    <3> QED
      BY <1>4, <3>1, <3>2
  <2>8. pc' = "score" =>
          /\ \A t \in lost'["off"] : ~Done(completed', at, "off", t)
          /\ lost'["off"] # {} => plan.performance[at].measured
    <3>1. CASE pc = "performance_on"
      BY <1>1, <2>2, <2>3, <3>1 DEF RefusalInv, LossInv
    <3>2. CASE pc = "performance_off"
      BY <2>2, <2>3, <2>4, <3>2
    <3> QED
      BY <1>4, <3>1, <3>2
  <2>9. pc' = "performance_off" =>
          /\ left' = TraceList /\ Side' = "off" /\ lost'["off"] = {}
          /\ \A t : ~Done(completed', at, "off", t)
    <3> SUFFICES ASSUME pc' = "performance_off"
                 PROVE  /\ left' = TraceList /\ Side' = "off" /\ lost'["off"] = {}
                        /\ \A t : ~Done(completed', at, "off", t)
      OBVIOUS
    <3>1. pc = "performance_on" /\ left' = TraceList /\ Side = "on" /\ Side' = "off"
      BY <2>1, <2>2 DEF Side
    <3>2. lost'["off"] = {}
      BY <1>1, <2>3, <3>1 DEF RefusalInv, LossInv
    <3>3. \A c \in completed' : c.entry = at => c.side = "on"
      BY <3>1 DEF RefusalInv, LossInv
    <3> QED
      BY <3>1, <3>2, <3>3 DEF Done
  <2>10. LossInv'
    <3>1. CASE pc' = "performance_off"
      BY <2>1, <2>6, <2>7, <2>9, <3>1 DEF LossInv, DistinctTraces, Measuring
    <3>2. CASE pc' = "score"
      BY <2>1, <2>6, <2>7, <2>8, <3>2 DEF LossInv, Measuring
    <3> QED
      BY <2>1, <3>1, <3>2
  <2>11. MissingInv'
    <3>1. pc \in Performing /\ pc' \in Past \ {"smoke"}
          /\ results'.smoke = results.smoke
          /\ \A c \in completed' : c \in completed \/ c.entry = at
      BY <1>4, <2>1 DEF Performing, Past
    <3>2. /\ ~results'.smoke => \E t \in Traces : ~Done(completed', 0, "on", t)
          /\ \A i \in DOMAIN results.performance :
               results.performance[i].failed_traces # {}
                 /\ results.performance[i].gain # "short" =>
                 \E t \in Traces, side \in Measurements(i) : ~Done(completed', i, side, t)
      BY <3>1, MissingKept DEF RefusalInv
    <3> QED
      BY <2>1, <3>2 DEF MissingInv, Measurements
  <2>12. RefusedInv'
    BY <1>4, RefusedKept
  <2> QED
    BY <2>10, <2>11, <2>12 DEF RefusalInv
<1> QED
  BY <1>2, <1>3, <1>4 DEF Measured

LEMMA BuildKeepsRefusal ==
  ASSUME RefusalInv, BuildSucceeds \/ BuildFails \/ BuildRaises
  PROVE  RefusalInv'
<1>1. UNCHANGED <<plan, progress, history>> /\ BuildIsDue
  BY DEF BuildSucceeds, BuildFails, BuildRaises
<1>2. pc # "over"
  BY <1>1 DEF BuildIsDue, ByAdapter, ByShell, Measuring
<1>3. \/ pc' = pc /\ verdict' = verdict
      \/ pc' = "over" /\ verdict' = "build raised"
  BY DEF BuildSucceeds, BuildFails, BuildRaises
<1>4. RefusedInv'
  BY <1>2, <1>3 DEF RefusalInv, RefusedInv
<1> QED
  BY <1>1, <1>3, <1>4, QuietKeepsRefusal

LEMMA CallOverKeepsRefusal ==
  ASSUME RefusalInv, AggregateRaises \/ TraceRaises \/ HostRaises \/ ScoreRaises
  PROVE  RefusalInv'
<1>1. UNCHANGED <<plan, progress, history>> /\ pc' = "over" /\ verdict' # "refused"
  BY DEF AggregateRaises, TraceRaises, HostRaises, ScoreRaises
<1>2. RefusedInv'
  BY <1>1 DEF RefusedInv
<1> QED
  BY <1>1, <1>2, QuietKeepsRefusal

\* Where the correctness entries lead, nothing is lost or completed yet.
LEMMA EntryBeginsUnlost ==
  ASSUME GateInv, DistinctTraces, NEW i \in Nat \ {0}, ToEntry(i),
         lost' = NothingLost, completed' = {}
  PROVE  LossInv'
<1>1. /\ pc' = "correctness" \/ (pc' = "smoke" /\ at' = 0 /\ left' = TraceList)
      /\ lost'["on"] = {} /\ lost'["off"] = {}
  BY DEF ToEntry, Measure, NothingLost, Sides
<1>2. pc' = "smoke" => Side' = "on"
  BY DEF Side
<1>3. \A j, s, t : ~Done(completed', j, s, t)
  BY DEF Done
<1> QED
  BY <1>1, <1>2, <1>3 DEF LossInv, DistinctTraces, Measuring, Performing

LEMMA AfterBuildKeepsRefusal ==
  ASSUME GateInv, EvidenceInv, RefusalInv, DistinctTraces, AfterBuild
  PROVE  RefusalInv'
<1>1. /\ pc = "build" /\ UNCHANGED <<plan, lost, results, ran, completed, shells, failing>>
      /\ ran = {} /\ lost = NothingLost /\ completed = {}
  BY DEF AfterBuild, history, RefusalInv, LossInv
<1>2. CASE believed = "off"
  <2>1. ToEntry(1) /\ verdict' = verdict
    BY <1>2 DEF AfterBuild
  <2>2. LossInv'
    BY <1>1, <2>1, EntryBeginsUnlost
  <2>3. pc' \in {"correctness", "smoke"} /\ results.performance = <<>>
    BY <1>1, <2>1 DEF ToEntry, Measure, EvidenceInv, PerformanceInv
  <2>4. MissingInv'
    BY <1>1, <2>3 DEF MissingInv, Past
  <2>5. RefusedInv'
    BY <1>1, <2>1, RefusedKept
  <2> QED
    BY <2>2, <2>4, <2>5 DEF RefusalInv
<1>3. CASE believed # "off"
  <2>1. pc' = "over" /\ UNCHANGED <<at, left>>
    BY <1>3 DEF AfterBuild
  <2>2. ~Evidence
    <3>1. 1 \in DOMAIN plan.correctness /\ plan.correctness[1] \in Entry
      BY PlanFacts
    <3>2. PICK s \in Declared(plan.correctness[1]) : TRUE
      BY <3>1, DeclaredSides
    <3>3. \E j \in DOMAIN states(plan.correctness[1]) : TRUE
      BY <3>2 DEF Declared, Items
    <3> QED
      BY <1>1, <3>1, <3>3 DEF Evidence
  <2>3. RefusedInv'
    BY <1>1, <2>1, <2>2, EvidenceKept DEF RefusedInv
  <2> QED
    BY <1>1, <2>1, <2>3, QuietKeepsRefusal DEF progress, history
<1> QED
  BY <1>2, <1>3

LEMMA EvaluatedKeepsRefusal ==
  ASSUME GateInv, EvidenceInv, RefusalInv, DistinctTraces, pc = "correctness",
         NEW outcome, Evaluated(outcome)
  PROVE  RefusalInv'
<1>1. /\ UNCHANGED <<plan, lost, verdict, completed>>
      /\ lost = NothingLost /\ completed = {}
      /\ at \in Nat \ {0} /\ results.performance = <<>> /\ results \in Results
  BY PlanFacts DEF Evaluated, RefusalInv, LossInv, GateInv, WorkInv, EvidenceInv,
                   PerformanceInv, StepType
<1>2. CASE Len(left) = 1
  <2>1. /\ ToEntry(at + 1) /\ at + 1 \in Nat \ {0}
        /\ results'.performance = results.performance
    BY <1>1, <1>2 DEF Evaluated, Results
  <2>2. LossInv'
    BY <1>1, <2>1, EntryBeginsUnlost
  <2>3. pc' \in {"correctness", "smoke"}
    BY <2>1 DEF ToEntry, Measure
  <2>4. MissingInv'
    BY <1>1, <2>1, <2>3 DEF MissingInv, Past
  <2> QED
    BY <1>1, <2>2, <2>4, RefusedKept DEF RefusalInv
<1>3. CASE Len(left) # 1
  <2>1. UNCHANGED <<pc, at, results>>
    BY <1>3 DEF Evaluated
  <2>2. LossInv'
    BY <1>1, <2>1 DEF LossInv, Measuring, Performing
  <2>3. MissingInv'
    BY <1>1, <2>1 DEF MissingInv, Past
  <2> QED
    BY <1>1, <2>2, <2>3, RefusedKept DEF RefusalInv
<1> QED
  BY <1>2, <1>3

LEMMA CommandKeepsRefusal ==
  ASSUME GateInv, EvidenceInv, RefusalInv, DistinctTraces, RunCommand \/ ReuseOutcome
  PROVE  RefusalInv'
<1>1. pc = "correctness" /\ \E outcome : Evaluated(outcome)
  BY DEF RunCommand, ReuseOutcome
<1> QED
  BY <1>1, EvaluatedKeepsRefusal

LEMMA TraceListMissingKeepsRefusal ==
  ASSUME GateInv, EvidenceInv, RefusalInv, DistinctTraces, TraceListMissing
  PROVE  RefusalInv'
<1>1. /\ UNCHANGED <<plan, verdict, completed>> /\ left = TraceList
      /\ completed' \subseteq CompletedTraces
      /\ lost \in [Sides -> SUBSET Traces] /\ results \in Results
  BY DEF TraceListMissing, history, EvidenceInv, LogType, StepType
<1>2. CASE pc = "smoke"
  <2>1. /\ results' = [results EXCEPT !.smoke = FALSE] /\ ToPerformance(1)
        /\ UNCHANGED lost /\ at = 0 /\ Side = "on" /\ results.performance = <<>>
    BY <1>2 DEF TraceListMissing, EvidenceInv, PerformanceInv, Side
  <2>2. results'.performance = results.performance
    BY <1>1, <2>1 DEF Results
  <2>3. Todo = Traces
    BY <1>1, TracesOfTheList DEF Todo
  <2>4. lost' = NothingLost
    <3>1. lost["on"] = {} /\ lost["off"] = {}
      BY <1>1, <1>2, <2>1, <2>3 DEF RefusalInv, LossInv, Measuring, Sides
    <3> QED
      BY <1>1, <2>1, <3>1 DEF NothingLost, Sides
  <2>5. LossInv'
    <3>1. \A c \in completed' : c.entry \in Nat /\ c.entry < 1 /\ (c.entry = 0 => c.side = "on")
      BY <1>1, <1>2, <2>1 DEF RefusalInv, LossInv, CompletedTraces
    <3>2. 1 \in Nat \ {0} /\ pc \notin {"build", "correctness"}
      BY <1>2
    <3> QED
      BY <2>1, <2>4, <3>1, <3>2, PerformanceBeginsUnlost
  <2>6. MissingInv'
    <3>1. \E t \in Traces : ~Done(completed', 0, "on", t)
      <4>1. Traces # {}
        BY PlanFacts, ItemsSplit, TracesOfTheList
      <4>2. \A t \in Traces : ~Done(completed, 0, "on", t)
        BY <1>2, <2>1, <2>3 DEF RefusalInv, LossInv, Measuring
      <4> QED
        BY <1>1, <4>1, <4>2
    <3>2. DOMAIN results'.performance = {}
      BY <2>1, <2>2
    <3> QED
      BY <3>1, <3>2 DEF MissingInv
  <2> QED
    BY <1>1, <1>2, <2>5, <2>6, RefusedKept DEF RefusalInv
<1>3. CASE pc = "performance_on"
  <2>1. Scored({}, "short")
    BY <1>3 DEF TraceListMissing
  <2> QED
    BY <1>1, <1>3, <2>1, ScoredKeepsRefusal DEF Performing
<1> QED
  BY <1>2, <1>3 DEF TraceListMissing

LEMMA RunTracesKeepsRefusal ==
  ASSUME GateInv, EvidenceInv, EvidenceInv', RefusalInv, DistinctTraces, RunTraces
  PROVE  RefusalInv'
<1>1. /\ UNCHANGED <<plan, verdict>> /\ ByAdapter /\ Measuring
      /\ completed' \subseteq CompletedTraces
  BY DEF RunTraces, ByAdapter, Measuring, EvidenceInv, LogType
<1> DEFINE bytes == [key |-> build_key(Side), edition |-> held[build_key(Side)]]
<1>2. PICK missing \in SUBSET Traces :
        /\ completed' = completed \cup Completion(Traces \ missing, bytes, FALSE)
        /\ Measured(missing)
  BY DEF RunTraces
<1> HIDE DEF bytes
<1>3. \A c \in Completion(Traces \ missing, bytes, FALSE) :
        c.entry = at /\ c.side = Side /\ c.trace \notin missing
  BY DEF Completion
<1>4. Todo = Traces
  BY <1>1, TracesOfTheList DEF EvidenceInv, StepType, Todo
<1>5. \A t \in missing : ~Done(completed', at, Side, t)
  BY <1>1, <1>2, <1>3, <1>4, NotDoneKept DEF RefusalInv, LossInv
<1> QED
  BY <1>1, <1>2, <1>3, <1>5, MeasuredKeepsRefusal

LEMMA RunTraceCommandKeepsRefusal ==
  ASSUME GateInv, EvidenceInv, EvidenceInv', RefusalInv, DistinctTraces, RunTraceCommand
  PROVE  RefusalInv'
<1>1. /\ UNCHANGED <<plan, verdict>> /\ ByShell /\ Measuring
      /\ pc \in {"smoke", "performance_on", "performance_off"}
      /\ completed' \subseteq CompletedTraces
  BY DEF RunTraceCommand, ByShell, Measuring, EvidenceInv, LogType
<1>2. PICK ok \in {FALSE} \cup {tree # NoBuild} :
        LET missing == lost[Side] \cup (IF ok THEN {} ELSE {Head(left)}) IN
        /\ completed' = completed \cup
             (IF ok THEN Completion({Head(left)}, tree, Unbuilt) ELSE {})
        /\ IF Len(left) = 1
             THEN Measured(missing)
             ELSE /\ lost' = [lost EXCEPT ![Side] = missing]
                  /\ left' = Tail(left)
                  /\ tried' = FALSE
                  /\ UNCHANGED <<pc, at, results>>
  BY DEF RunTraceCommand
<1> DEFINE missing == lost[Side] \cup (IF ok THEN {} ELSE {Head(left)})
<1>3. /\ Side \in Sides /\ lost \in [Sides -> SUBSET Traces]
      /\ left \in Seq(Traces) /\ left # <<>>
  BY <1>1, SideIsASide DEF GateInv, EvidenceInv, StepType
<1>4. /\ Todo = {Head(left)} \cup Items(Tail(left)) /\ Head(left) \in Traces
      /\ Head(left) \in Todo
  BY <1>3, ItemsSplit DEF Todo
<1>5. /\ \A i, j \in DOMAIN left : left[i] = left[j] => i = j
      /\ Todo \cap lost[Side] = {}
      /\ \A t \in Todo \cup lost[Side] : ~Done(completed, at, Side, t)
  BY <1>1 DEF RefusalInv, LossInv
<1>6. /\ \A i, j \in DOMAIN Tail(left) : Tail(left)[i] = Tail(left)[j] => i = j
      /\ Head(left) \notin Items(Tail(left))
  BY <1>3, <1>5, TailDistinct
<1>7. \A c \in completed' :
        c \in completed \/ (ok /\ c.entry = at /\ c.side = Side /\ c.trace = Head(left))
  BY <1>2 DEF Completion
<1>8. missing \in SUBSET Traces /\ missing \cap Items(Tail(left)) = {}
  BY <1>3, <1>4, <1>5, <1>6
<1>9. \A t \in missing \cup Items(Tail(left)) : ~Done(completed', at, Side, t)
  <2> SUFFICES ASSUME NEW t \in missing \cup Items(Tail(left))
               PROVE  ~Done(completed', at, Side, t)
    OBVIOUS
  <2>1. ~Done(completed, at, Side, t)
    BY <1>4, <1>5
  <2>2. ~ok \/ t # Head(left)
    BY <1>4, <1>5, <1>6
  <2> HIDE DEF missing
  <2> QED
    BY <1>7, <2>1, <2>2, NotDoneKept
<1> HIDE DEF missing
<1>10. CASE Len(left) = 1
  <2>1. Measured(missing)
    BY <1>2, <1>10 DEF missing
  <2> QED
    BY <1>1, <1>7, <1>8, <1>9, <2>1, MeasuredKeepsRefusal
<1>11. CASE Len(left) # 1
  <2>1. /\ lost' = [lost EXCEPT ![Side] = missing] /\ left' = Tail(left)
        /\ UNCHANGED <<pc, at, results>>
    BY <1>2, <1>11 DEF missing
  <2>2. /\ lost'[Side] = missing /\ \A s \in Sides : s # Side => lost'[s] = lost[s]
        /\ Todo' = Items(Tail(left)) /\ Side' = Side /\ "on" \in Sides /\ "off" \in Sides
        /\ pc = "performance_off" => Side = "off"
        /\ pc \in {"smoke", "performance_on"} => Side = "on"
    BY <1>1, <1>3, <2>1 DEF Todo, Side, Sides
  <2>3. LossInv'
    <3>1. pc = "performance_off" => \A t \in lost'["on"] : ~Done(completed', at, "on", t)
      <4> SUFFICES ASSUME pc = "performance_off", NEW t \in lost'["on"]
                   PROVE  ~Done(completed', at, "on", t)
        OBVIOUS
      <4>1. t \in lost["on"] /\ ~Done(completed, at, "on", t)
        BY <2>2 DEF RefusalInv, LossInv
      <4> QED
        BY <1>7, <2>2, <4>1, NotDoneKept
    <3>2. pc \in {"smoke", "performance_on"} => lost'["off"] = {}
      BY <2>2 DEF RefusalInv, LossInv
    <3>3. at \in Nat /\ (pc = "smoke" => at = 0) /\ (pc # "smoke" => at # 0)
      BY <1>1, PlanFacts DEF EvidenceInv, StepType, PerformanceInv, Performing
    <3>4. \A c \in completed' : c.entry \leq at /\ (c.entry = 0 => c.side = "on")
      BY <1>1, <1>7, <2>2, <3>3 DEF RefusalInv, LossInv, Performing
    <3>5. pc = "performance_on" => \A c \in completed' : c.entry = at => c.side = "on"
      BY <1>7, <2>2 DEF RefusalInv, LossInv
    <3>6. Todo' \cap lost'[Side] = {} /\ \A t \in Todo' \cup lost'[Side] : ~Done(completed', at, Side, t)
      BY <1>8, <1>9, <2>2
    <3> QED
      BY <1>1, <1>6, <2>1, <2>2, <3>1, <3>2, <3>4, <3>5, <3>6 DEF LossInv, Performing
  <2>4. MissingInv'
    <3>1. CASE pc = "smoke"
      <4>1. DOMAIN results'.performance = {}
        BY <2>1, <3>1 DEF EvidenceInv, PerformanceInv
      <4> QED
        BY <2>1, <3>1, <4>1 DEF MissingInv
    <3>2. CASE pc # "smoke"
      <4>1. pc \in Performing /\ pc' \in Past \ {"smoke"}
            /\ results'.smoke = results.smoke
            /\ \A c \in completed' : c \in completed \/ c.entry = at
        BY <1>1, <1>7, <2>1, <3>2 DEF Performing, Past
      <4>2. /\ ~results'.smoke => \E t \in Traces : ~Done(completed', 0, "on", t)
            /\ \A i \in DOMAIN results.performance :
                 results.performance[i].failed_traces # {}
                   /\ results.performance[i].gain # "short" =>
                   \E t \in Traces, side \in Measurements(i) : ~Done(completed', i, side, t)
        BY <1>1, <4>1, MissingKept DEF RefusalInv
      <4> QED
        BY <1>1, <2>1, <4>2 DEF MissingInv, Measurements
    <3> QED
      BY <3>1, <3>2
  <2> QED
    BY <1>1, <2>3, <2>4, RefusedKept DEF RefusalInv
<1> QED
  BY <1>10, <1>11

LEMMA ScoreKeepsRefusal ==
  ASSUME GateInv, EvidenceInv, RefusalInv, DistinctTraces, Score
  PROVE  RefusalInv'
<1>1. /\ pc = "score" /\ UNCHANGED <<plan, verdict, completed>>
      /\ completed' \subseteq CompletedTraces
  BY DEF Score, history, EvidenceInv, LogType
<1>2. PICK gain \in {"short", "floor", "target"} : Scored(failed_traces, gain)
  BY DEF Score
<1>3. failed_traces \in SUBSET Traces
  BY DEF EvidenceInv, StepType, failed_traces, Sides
<1>4. failed_traces # {} =>
        \E t \in Traces, side \in Measurements(at) : ~Done(completed', at, side, t)
  <2> SUFFICES ASSUME NEW t \in failed_traces
               PROVE  \E side \in Measurements(at) : ~Done(completed', at, side, t)
    BY <1>3
  <2>1. CASE t \in lost["on"]
    BY <1>1, <2>1 DEF RefusalInv, LossInv, Measurements
  <2>2. CASE t \in lost["off"]
    BY <1>1, <2>2 DEF RefusalInv, LossInv, Measurements
  <2> QED
    BY <2>1, <2>2 DEF failed_traces
<1> HIDE DEF failed_traces
<1> QED
  BY <1>1, <1>2, <1>3, <1>4, ScoredKeepsRefusal DEF Performing

\* A reason is something that was run and failed, or was not completed.
LEMMA ReasonIsACause ==
  ASSUME GateInv, EvidenceInv, RefusalInv, pc = "judge", reasons
  PROVE  ~Evidence
<1> SUFFICES ASSUME Evidence PROVE FALSE
  OBVIOUS
<1>1. /\ DOMAIN results.correctness = DOMAIN plan.correctness
      /\ DOMAIN results.performance = DOMAIN plan.performance
      /\ \A i \in DOMAIN results.correctness : results.correctness[i] \in BOOLEAN
  <2>1. /\ results.correctness \in Seq(BOOLEAN) /\ results.performance \in Seq(Result)
        /\ Len(results.correctness) = Len(plan.correctness)
        /\ Len(results.performance) = Len(plan.performance)
    BY DEF EvidenceInv, StepType, Results, CorrectnessInv, PerformanceInv, Past
  <2> QED
    BY <2>1, PlanFacts, LenProperties, ElementOfSeq
<1>2. CASE ~HasBaselineEntry
  BY <1>2 DEF Evidence
<1>3. ASSUME NEW i \in DOMAIN results.correctness, ~results.correctness[i]
      PROVE  FALSE
  <2>1. PICK side \in Declared(plan.correctness[i]) :
          Missed(cache, plan.correctness[i], side)
    BY <1>3 DEF EvidenceInv, JudgedInv
  <2>2. PICK j \in DOMAIN states(plan.correctness[i]) :
          side = states(plan.correctness[i])[j]
    BY <2>1 DEF Declared, Items
  <2>3. PICK r \in ran : /\ r.command = plan.correctness[i].command
                         /\ r.side = side
                         /\ evaluate_condition(plan.correctness[i], r.outcome)
    BY <1>1, <1>3, <2>2 DEF Evidence
  <2> QED
    BY <2>1, <2>3, MissedIsNotHeld DEF EvidenceInv
<1>4. CASE ~results.smoke
  <2>1. PICK t \in Traces : ~Done(completed, 0, "on", t)
    BY <1>4 DEF RefusalInv, MissingInv, Past
  <2>2. PICK c \in completed : c.entry = 0 /\ c.trace = t
    BY DEF Evidence
  <2>3. c.side = "on"
    BY <2>2 DEF RefusalInv, LossInv
  <2> QED
    BY <2>1, <2>2, <2>3 DEF Done
<1>5. ASSUME NEW i \in DOMAIN results.performance,
             results.performance[i].failed_traces # {} \/ ~block_passed(results.performance[i])
      PROVE  FALSE
  <2>1. results.performance[i].gain # "short"
    BY <1>1 DEF Evidence
  <2>2. results.performance[i].failed_traces # {}
    BY <1>5, <2>1 DEF block_passed
  <2>3. PICK t \in Traces, side \in Measurements(i) : ~Done(completed, i, side, t)
    BY <2>1, <2>2 DEF RefusalInv, MissingInv
  <2>4. \E c \in completed : c.entry = i /\ c.side = side /\ c.trace = t
    BY <1>1, <2>3 DEF Evidence, Measurements
  <2> QED
    BY <2>3, <2>4 DEF Done
<1> QED
  BY <1>2, <1>3, <1>4, <1>5 DEF reasons

LEMMA CheckGateKeepsRefusal ==
  ASSUME GateInv, EvidenceInv, RefusalInv, CheckGate
  PROVE  RefusalInv'
<1>1. /\ UNCHANGED <<plan, progress, history>> /\ pc = "judge" /\ pc' = "over"
      /\ verdict' = IF reasons THEN "refused" ELSE "passed"
  BY DEF CheckGate
<1>2. RefusedInv'
  <2>1. CASE reasons
    BY <1>1, <2>1, ReasonIsACause, EvidenceKept DEF RefusedInv, progress, history
  <2>2. CASE ~reasons
    BY <1>1, <2>2 DEF RefusedInv
  <2> QED
    BY <2>1, <2>2
<1> QED
  BY <1>1, <1>2, QuietKeepsRefusal

LEMMA FreshAttemptRefuses ==
  ASSUME pc = "build", lost = NothingLost, results = NoResults, verdict = "none",
         ran = {}, completed = {}
  PROVE  RefusalInv
<1>1. DOMAIN results.performance = {}
  BY DEF NoResults
<1> QED
  BY <1>1 DEF RefusalInv, LossInv, MissingInv, RefusedInv, Measuring, Performing, Past

LEMMA NextAttemptKeepsRefusal ==
  ASSUME NextAttempt
  PROVE  RefusalInv'
<1>1. /\ pc' = "build" /\ lost' = NothingLost /\ results' = NoResults
      /\ verdict' = "none" /\ ran' = {} /\ completed' = {}
  BY DEF NextAttempt, results_at_start
<1>2. (pc = "build" /\ lost = NothingLost /\ results = NoResults /\ verdict = "none"
         /\ ran = {} /\ completed = {} => RefusalInv)'
  BY FreshAttemptRefuses, PTL
<1> QED
  BY <1>1, <1>2

\* No port is refused for a lost or shared outcome: if the trace list names no
\* trace twice, something the test plan asks for did not hold when it was run,
\* was not completed, or missed its floor (check_gate).
THEOREM RefusedWithACause == ASSUME DistinctTraces PROVE Spec => []RefusalHasACause
<1>1. Init => RefusalInv
  BY FreshAttemptRefuses DEF Init
<1>2. GateInv /\ EvidenceInv /\ EvidenceInv' /\ RefusalInv /\ [Next]_vars => RefusalInv'
  <2> SUFFICES ASSUME GateInv, EvidenceInv, EvidenceInv', RefusalInv, [Next]_vars
               PROVE  RefusalInv'
    OBVIOUS
  <2>1. CASE BuildSucceeds \/ BuildFails \/ BuildRaises
    BY <2>1, BuildKeepsRefusal
  <2>2. CASE AfterBuild
    BY <2>2, AfterBuildKeepsRefusal
  <2>3. CASE RunCommand \/ ReuseOutcome
    BY <2>3, CommandKeepsRefusal
  <2>4. CASE TraceListMissing \/ RunTraces \/ RunTraceCommand
    BY <2>4, TraceListMissingKeepsRefusal, RunTracesKeepsRefusal,
       RunTraceCommandKeepsRefusal
  <2>5. CASE AggregateRaises \/ TraceRaises \/ HostRaises \/ ScoreRaises
    BY <2>5, CallOverKeepsRefusal
  <2>6. CASE Score \/ CheckGate
    BY <2>6, ScoreKeepsRefusal, CheckGateKeepsRefusal
  <2>7. CASE NextAttempt
    BY <2>7, NextAttemptKeepsRefusal
  <2>8. CASE Stop \/ UNCHANGED vars
    <3>1. UNCHANGED <<plan, progress, history, pc, verdict>>
      BY <2>8 DEF Stop, vars
    <3>2. RefusedInv'
      BY <3>1, EvidenceKept DEF RefusalInv, RefusedInv, progress, history
    <3> QED
      BY <3>1, <3>2, QuietKeepsRefusal
  <2> QED
    BY <2>1, <2>2, <2>3, <2>4, <2>5, <2>6, <2>7, <2>8 DEF Next
<1>3. RefusalInv => RefusalHasACause
  BY DEF RefusalInv, RefusedInv, RefusalHasACause
<1> QED
  BY <1>1, <1>2, <1>3, GateInvariant, EvidenceInvariant, PTL DEF Spec
=============================================================================
