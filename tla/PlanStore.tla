------------------------------ MODULE PlanStore ------------------------------
(***************************************************************************)
(* The plan artifacts of one host on disk, write by write: stage 2's pair   *)
(* (plan.json, tests.json), the numbered revision pairs stage 3 commits     *)
(* beside it, the superseded/ directory and the escalation record           *)
(* (loop/plan_revision.py, loop/plan_node.py make_plan).                    *)
(*                                                                         *)
(* One job at a time runs stage 2 or stage 3 over these files. A job may    *)
(* die between any two writes (CrashIn says where); the next job knows only *)
(* what is on disk.                                                         *)
(***************************************************************************)
EXTENDS Naturals, Sequences, FiniteSets

CONSTANTS
  PlanRevisions,   \* C.PLAN_REVISIONS
  MaxGen,          \* bound: plans stage 2 writes
  MaxSerial,       \* bound: revisions stage 3 starts to write
  MaxEscalations,  \* bound: escalations stage 3 records
  CrashIn          \* where a job may die: "llm", "commit", "make_plan"

ASSUME StoreAssumption ==
  /\ PlanRevisions \in Nat
  /\ MaxGen \in Nat
  /\ MaxSerial \in Nat
  /\ MaxEscalations \in Nat
  /\ CrashIn \subseteq {"llm", "commit", "make_plan"}

VARIABLES
  base,         \* plan.json and tests.json
  revs,         \* plan.rev<i>.json and tests.rev<i>.json
  superseded,   \* the port plans and the test plans in superseded/
  escalations,  \* .escalations.json: 0 while open, else the plan that answered
  pc,           \* what the running job is doing
  pair,         \* the pair the job holds in memory
  revision,     \* integrate's `revision`
  seen,         \* the escalations make_plan put in the planner's prompt
  index,        \* retire's loop index
  serial,       \* history: numbers the revisions
  committed,    \* history: every revision document of a completed commit
  view          \* history: <<e, g>> when plan g was written with e in view

disk == <<base, revs, superseded, escalations>>
memory == <<pc, pair, revision, seen, index>>
history == <<serial, committed, view>>
vars == <<disk, memory, history>>

Indexes == 1..PlanRevisions

\* A document is told apart by the plan it belongs to and, for a revision, by
\* its serial number. Generation 0 is a file that does not exist.
Doc == [gen : Nat, ser : Nat]
Absent == [gen |-> 0, ser |-> 0]
Pair == [plan : Doc, tests : Doc]
NoPair == [plan |-> Absent, tests |-> Absent]

Exists(doc) == doc # Absent

\* Mutant: the port plan alone is enough.
Complete_PlanOnly(files, i) == Exists(files[i].plan)

\* Both files or neither: a half-written revision does not count.
Complete(files, i) == Exists(files[i].plan) /\ Exists(files[i].tests)

\* Mutant: the loop looks for revision 0, which no commit writes.
count_FromZero(files) == 0

\* plan_revision.count: how far the complete revisions go without a gap.
count(files) ==
  Cardinality({n \in Indexes : \A i \in 1..n : Complete(files, i)})

\* Mutant: stage 2's own pair is always read back.
latest_Base == base

\* plan_revision.latest: the pair in force.
latest == IF count(revs) = 0 THEN base ELSE revs[count(revs)]

\* Mutant: only the newest entry is looked at.
open_escalations_Newest ==
  {e \in DOMAIN escalations : e = Len(escalations) /\ escalations[e] = 0}

\* plan_revision.open_escalations
open_escalations == {e \in DOMAIN escalations : escalations[e] = 0}

Init ==
  /\ base = NoPair
  /\ revs = [i \in Indexes |-> NoPair]
  /\ superseded = [plan |-> {}, tests |-> {}]
  /\ escalations = <<>>
  /\ pc = "idle"
  /\ pair = NoPair
  /\ revision = 0
  /\ seen = {}
  /\ index = 0
  /\ serial = 0
  /\ committed = {}
  /\ view = {}

\* A job that is over leaves nothing but the disk.
Forget ==
  /\ pc' = "idle"
  /\ pair' = NoPair
  /\ revision' = 0
  /\ seen' = {}
  /\ index' = 0

-----------------------------------------------------------------------------
(* Stage 2: make_plan *)

\* make_plan starts, in a job of its own or as a re-plan after an escalation,
\* and reads the open escalations into its prompt.
StartPlan ==
  /\ pc \in {"idle", "escalated"}
  /\ pc' = "planning"
  /\ seen' = open_escalations
  /\ UNCHANGED <<disk, pair, revision, index, history>>

\* The planner's pair has schema or plan errors left: SystemExit, no write.
RefusePlan ==
  /\ pc = "planning"
  /\ Forget
  /\ UNCHANGED <<disk, history>>

\* plan_path.write_text
WritePlan ==
  LET doc == [gen |-> base.plan.gen + 1, ser |-> 0] IN
  /\ pc = "planning"
  /\ base.plan.gen < MaxGen
  /\ base' = [base EXCEPT !.plan = doc]
  /\ pair' = [plan |-> doc, tests |-> doc]
  /\ view' = view \cup {<<e, doc.gen>> : e \in seen}
  /\ pc' = "write_tests"
  /\ UNCHANGED <<revs, superseded, escalations, revision, seen, index,
                 serial, committed>>

\* tests_path.write_text, and retire's first iteration
WriteTests ==
  /\ pc = "write_tests"
  /\ base' = [base EXCEPT !.tests = pair.tests]
  /\ pc' = "retire"
  /\ index' = 1
  /\ UNCHANGED <<revs, superseded, escalations, pair, revision, seen, history>>

\* Mutant: a half-moved revision ends the loop.
AnyAt_Both(i) == i \in Indexes /\ Complete(revs, i)

\* Mutant: only the first revision is looked for.
AnyAt_First(i) == i = 1 /\ (Exists(revs[i].plan) \/ Exists(revs[i].tests))

\* retire: does any file of revision `index` exist?
AnyAt(i) == i \in Indexes /\ (Exists(revs[i].plan) \/ Exists(revs[i].tests))

\* The documents of one file that superseded/ gains when it is moved there.
Moved(doc) == IF Exists(doc) THEN {doc} ELSE {}

\* path.rename for the port plan of revision `index`
RetirePlan ==
  /\ pc = "retire"
  /\ AnyAt(index)
  /\ superseded' = [superseded EXCEPT !.plan = @ \cup Moved(revs[index].plan)]
  /\ revs' = [revs EXCEPT ![index].plan = Absent]
  /\ pc' = "retire_tests"
  /\ UNCHANGED <<base, escalations, pair, revision, seen, index, history>>

\* path.rename for the test plan of revision `index`, then the next index
RetireTests ==
  /\ pc = "retire_tests"
  /\ superseded' = [superseded EXCEPT !.tests = @ \cup Moved(revs[index].tests)]
  /\ revs' = [revs EXCEPT ![index].tests = Absent]
  /\ index' = index + 1
  /\ pc' = "retire"
  /\ UNCHANGED <<base, escalations, pair, revision, seen, history>>

\* The first index with no file ends the loop.
RetireDone ==
  /\ pc = "retire"
  /\ ~AnyAt(index)
  /\ pc' = "clear"
  /\ UNCHANGED <<disk, pair, revision, seen, index, history>>

\* Mutant: the stamp overwrites the ones earlier plans left.
stamped_All(e) == pair.plan.gen

\* The entry as clear_escalations leaves it: an open one gets this plan's stamp.
stamped(e) == IF escalations[e] = 0 THEN pair.plan.gen ELSE escalations[e]

\* clear_escalations: every open entry is marked with this plan's stamp, in
\* one write; make_plan returns the pair.
ClearEscalations ==
  /\ pc = "clear"
  /\ escalations' = [e \in DOMAIN escalations |-> stamped(e)]
  /\ pc' = "planned"
  /\ UNCHANGED <<base, revs, superseded, pair, revision, seen, index, history>>

-----------------------------------------------------------------------------
(* Stage 3: integrate *)

\* A job that planned hands its pair over; the revision number is read off
\* the disk all the same.
IntegratePlanned ==
  /\ pc = "planned"
  /\ pc' = "integrating"
  /\ revision' = count(revs)
  /\ UNCHANGED <<disk, pair, seen, index, history>>

\* A job that did not plan takes the pair in force: load_plans.
IntegrateLoaded ==
  /\ pc = "idle"
  /\ Exists(base.plan) /\ Exists(base.tests)
  /\ pair' = latest
  /\ revision' = count(revs)
  /\ pc' = "integrating"
  /\ UNCHANGED <<disk, seen, index, history>>

\* Mutant: one revision past the budget is let through.
revisionsLeft_OneMore == revision <= PlanRevisions

\* Has this host's plan a revision left?
revisionsLeft == revision < PlanRevisions

\* commit, first write: the port plan of revision `revision + 1`
CommitPlan ==
  /\ pc = "integrating"
  /\ revisionsLeft
  /\ serial < MaxSerial
  /\ LET doc == [gen |-> pair.plan.gen, ser |-> serial + 1] IN
       revs' = [revs EXCEPT ![revision + 1].plan = doc]
  /\ serial' = serial + 1
  /\ pc' = "commit_tests"
  /\ UNCHANGED <<base, superseded, escalations, pair, revision, seen, index,
                 committed, view>>

\* commit, second write: the test plan; the revised pair is in force
CommitTests ==
  LET doc == [gen |-> pair.plan.gen, ser |-> serial] IN
  /\ pc = "commit_tests"
  /\ revs' = [revs EXCEPT ![revision + 1].tests = doc]
  /\ pair' = [plan |-> doc, tests |-> doc]
  /\ revision' = revision + 1
  /\ committed' = committed \cup {doc}
  /\ pc' = "integrating"
  /\ UNCHANGED <<base, superseded, escalations, seen, index, serial, view>>

\* record_escalation: append an open entry; the round ends needs_replan
RecordEscalation ==
  /\ pc = "integrating"
  /\ Len(escalations) < MaxEscalations
  /\ escalations' = Append(escalations, 0)
  /\ pc' = "escalated"
  /\ UNCHANGED <<base, revs, superseded, pair, revision, seen, index, history>>

\* The job ends: the gate passed, the attempts ran out, the re-plan budget is
\* spent, or only stage 2 was asked for.
JobEnds ==
  /\ pc \in {"integrating", "escalated", "planned"}
  /\ Forget
  /\ UNCHANGED <<disk, history>>

-----------------------------------------------------------------------------
(* A job that dies, and the whole machine *)

Writing == pc \in {"write_tests", "retire", "retire_tests", "clear"}

\* Which kind of window the job is in, for CrashIn.
Window ==
  IF Writing THEN "make_plan" ELSE IF pc = "commit_tests" THEN "commit" ELSE "llm"

\* What the job held in memory is gone; the disk stays as it is.
Crash ==
  /\ pc # "idle"
  /\ Window \in CrashIn
  /\ Forget
  /\ UNCHANGED <<disk, history>>

Next ==
  \/ StartPlan \/ RefusePlan \/ WritePlan \/ WriteTests
  \/ RetirePlan \/ RetireTests \/ RetireDone \/ ClearEscalations
  \/ IntegratePlanned \/ IntegrateLoaded
  \/ CommitPlan \/ CommitTests \/ RecordEscalation \/ JobEnds
  \/ Crash

Spec == Init /\ [][Next]_vars
-----------------------------------------------------------------------------
(* Properties *)

\* Every variable keeps its type: the state of the files, of the job's memory
\* and of the history.
TypeOK ==
  /\ base \in Pair
  /\ revs \in [Indexes -> Pair]
  /\ superseded \in [plan : SUBSET Doc, tests : SUBSET Doc]
  /\ escalations \in Seq(Nat)
  /\ pc \in {"idle", "planning", "write_tests", "retire", "retire_tests",
             "clear", "planned", "integrating", "commit_tests", "escalated"}
  /\ pair \in Pair
  /\ revision \in 0..PlanRevisions
  /\ seen \subseteq Nat
  /\ index \in Nat
  /\ serial \in Nat
  /\ committed \subseteq Doc
  /\ view \subseteq Nat \X Nat

\* Stage 3 never works from a port plan and a test plan of different origin
\* ("the one a resume must never construct silently", count).
HeldPairIsWhole == pc = "integrating" => pair.plan = pair.tests

\* Stage 3 works from the newest plan stage 2 wrote and from the last revision
\* of it that was committed, whether the pair was handed over in memory or read
\* back after a crash (latest, retire, load_plans).
HeldPairIsNewest ==
  pc = "integrating" =>
    /\ Exists(pair.plan)
    /\ pair.plan.gen = base.plan.gen
    /\ \A doc \in committed :
         doc.gen = pair.plan.gen => doc.ser \leq pair.plan.ser

\* When retire returns, no file of any revision is left beside the new pair
\* ("Move every existing revision out of the way").
RetireMovesEveryRevision ==
  pc = "clear" => \A i \in Indexes : revs[i] = NoPair

\* Both documents of every committed revision stay on disk, live or superseded:
\* no later job overwrites the record of what was asked of an earlier port.
RevisionRecordSurvives ==
  \A doc \in committed :
    /\ doc \in superseded.plan \/ \E i \in Indexes : revs[i].plan = doc
    /\ doc \in superseded.tests \/ \E i \in Indexes : revs[i].tests = doc

\* An escalation is marked as answered only by a plan that was written with it
\* in the planner's prompt (clear_escalations).
AnsweredInView ==
  \A e \in DOMAIN escalations :
    escalations[e] # 0 => <<e, escalations[e]>> \in view

\* The escalation record only grows, and an answer, once given, keeps naming
\* the plan that gave it (record_escalation, clear_escalations).
AnswersAreKept ==
  [][\A e \in DOMAIN escalations :
       /\ e \in DOMAIN escalations'
       /\ escalations[e] # 0 => escalations'[e] = escalations[e]]_vars

-----------------------------------------------------------------------------
(* The files implement the ledger. make_plan's first write decides: from there *)
(* on the new plan is in force, and what it supersedes or answers is only      *)
(* being cleared away.                                                         *)

Ledger == INSTANCE PlanLedger WITH
  Escalations <- 1..MaxEscalations,
  gen <- base.plan.gen,
  rev <- IF Writing THEN 0 ELSE count(revs),
  open <- IF Writing THEN {} ELSE open_escalations

\* Read through count, latest and open_escalations, the files behave as the
\* ledger: a plan retires every revision and answers every escalation at once,
\* and a revision is in force or not there at all.
ImplementsLedger == Ledger!LedgerSpec
=============================================================================
