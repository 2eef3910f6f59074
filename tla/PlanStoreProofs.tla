--------------------------- MODULE PlanStoreProofs ---------------------------
(***************************************************************************)
(* Proofs about PlanStore, for every value of its constants: the type       *)
(* invariant and the escalation properties hold wherever a job dies; the    *)
(* pair stage 3 holds is whole, current and the last one committed, and the *)
(* files implement PlanLedger, as long as no job dies inside make_plan's    *)
(* writes.                                                                  *)
(***************************************************************************)
EXTENDS PlanStore, FiniteSetTheorems, SequenceTheorems, TLAPS

-----------------------------------------------------------------------------
(* The inductive invariant *)

\* Revisions 1..m are complete pairs; above them only the port plan of revision
\* m + 1 may exist, left by a commit that did not finish.
Run(m, i) ==
  /\ i \leq m => Exists(revs[i].plan) /\ revs[i].plan = revs[i].tests
  /\ i > m => revs[i].tests = Absent
  /\ i > m + 1 => revs[i].plan = Absent

\* How far retire has come with revision i.
Retired(i) ==
  \/ pc \in {"clear", "planned"}
  \/ pc \in {"retire", "retire_tests"} /\ i < index
HalfRetired(i) == pc = "retire_tests" /\ i = index

\* The revision files on disk are such a run, from the first one retire has not
\* moved yet.
FilesInv ==
  /\ pc \in {"retire", "retire_tests"} => index > 0
  /\ \E m \in 0..PlanRevisions : \A i \in Indexes :
       /\ Retired(i) => revs[i] = NoPair
       /\ HalfRetired(i) => revs[i].plan = Absent
       /\ ~Retired(i) /\ ~HalfRetired(i) => Run(m, i)

\* Stage 2's pair is whole outside its own two writes, and it is the pair
\* make_plan holds.
BaseInv ==
  /\ base.plan.ser = 0
  /\ pc # "write_tests" => base.plan = base.tests
  /\ Writing \/ pc = "planned" =>
       pair.plan = base.plan /\ pair.tests = base.plan /\ base.plan.gen > 0

\* Revisions are numbered in the order they were written, and outside
\* make_plan's writes they all revise the plan on disk.
SerialInv ==
  /\ \A i \in Indexes : Exists(revs[i].plan) =>
       /\ revs[i].plan.ser \in 1..serial
       /\ revs[i].plan.gen \in 1..base.plan.gen
       /\ ~Writing => revs[i].plan.gen = base.plan.gen
  /\ \A i, j \in Indexes :
       i < j /\ Exists(revs[i].plan) /\ Exists(revs[j].plan)
         => revs[i].plan.ser < revs[j].plan.ser

\* Where the two documents of a committed revision are.
CommittedInv ==
  \A doc \in committed :
    /\ doc.ser > 0
    /\ doc.gen \leq base.plan.gen
    /\ Writing => doc.gen < base.plan.gen
    /\ \/ doc \in superseded.plan /\ doc \in superseded.tests
       \/ \E i \in Indexes : revs[i] = [plan |-> doc, tests |-> doc]
       \/ /\ pc = "retire_tests" /\ index \in Indexes
          /\ doc \in superseded.plan /\ revs[index].tests = doc
    /\ ~Writing /\ doc.gen = base.plan.gen =>
         \E i \in Indexes : revs[i] = [plan |-> doc, tests |-> doc]

\* What stage 3 holds in memory is what a restart would read back.
HeldInv ==
  pc \in {"integrating", "commit_tests"} =>
    /\ base.plan.gen > 0
    /\ revision \in 0..PlanRevisions
    /\ \A i \in Indexes : Run(revision, i)
    /\ pair = IF revision = 0 THEN base ELSE revs[revision]
    /\ pc = "commit_tests" =>
         /\ revision < PlanRevisions
         /\ revs[revision + 1].plan = [gen |-> pair.plan.gen, ser |-> serial]
         /\ serial > 0

\* The open escalations are the ones the planner has in view.
ViewInv ==
  /\ pc = "planning" => seen = open_escalations
  /\ Writing => \A e \in open_escalations : <<e, pair.plan.gen>> \in view

IInv ==
  /\ TypeOK /\ FilesInv /\ BaseInv /\ SerialInv /\ CommittedInv /\ HeldInv


-----------------------------------------------------------------------------
(* Lemmas about the operators *)

\* count(files) is a revision number, whatever the files are.
LEMMA CountType ==
  ASSUME NEW files
  PROVE  count(files) \in 0..PlanRevisions
<1> DEFINE S == {n \in Indexes : \A i \in 1..n : Complete(files, i)}
<1>1. IsFiniteSet(Indexes) /\ Cardinality(Indexes) = PlanRevisions
  BY FS_Interval, StoreAssumption DEF Indexes
<1>2. Cardinality(S) \in Nat /\ Cardinality(S) \leq PlanRevisions
  <2>1. S \subseteq Indexes
    OBVIOUS
  <2>2. IsFiniteSet(S) /\ Cardinality(S) \leq Cardinality(Indexes)
    BY <1>1, <2>1, FS_Subset
  <2> QED BY <1>1, <2>2, FS_CardinalityType
<1> QED BY <1>2, StoreAssumption DEF count

\* count(files) is the length of the unbroken run of complete pairs.
LEMMA CountIs ==
  ASSUME NEW files, NEW m \in 0..PlanRevisions,
         \A i \in 1..m : Complete(files, i),
         m < PlanRevisions => ~Complete(files, m + 1)
  PROVE  count(files) = m
<1> DEFINE S == {n \in Indexes : \A i \in 1..n : Complete(files, i)}
<1>1. S = 1..m
  <2>1. ASSUME NEW n \in S PROVE n \in 1..m
    <3>1. CASE m < n
      <4>1. m + 1 \in 1..n /\ m < PlanRevisions
        BY <2>1, <3>1, StoreAssumption DEF Indexes
      <4> QED BY <2>1, <4>1
    <3> QED BY <2>1, <3>1, StoreAssumption DEF Indexes
  <2>2. ASSUME NEW n \in 1..m PROVE n \in S
    <3>1. n \in Indexes /\ 1..n \subseteq 1..m
      BY StoreAssumption DEF Indexes
    <3> QED BY <3>1
  <2> QED BY <2>1, <2>2
<1>2. Cardinality(1..m) = m
  BY FS_Interval, StoreAssumption
<1> QED BY <1>1, <1>2 DEF count

\* The documents and pairs the actions build are documents and pairs.
LEMMA DocTypes ==
  /\ Absent \in Doc /\ NoPair \in Pair
  /\ \A g \in Nat, s \in Nat : [gen |-> g, ser |-> s] \in Doc
  /\ \A d \in Doc : d.gen \in Nat /\ d.ser \in Nat
  /\ \A d \in Doc, e \in Doc : [plan |-> d, tests |-> e] \in Pair
  /\ \A p \in Pair : p.plan \in Doc /\ p.tests \in Doc
BY DEF Doc, Pair, Absent, NoPair

LEMMA PairUpdate ==
  ASSUME NEW p \in Pair, NEW d \in Doc
  PROVE  [p EXCEPT !.plan = d] \in Pair /\ [p EXCEPT !.tests = d] \in Pair
BY DEF Pair

\* clear_escalations keeps the record a sequence of the same length.
LEMMA StampedType ==
  ASSUME escalations \in Seq(Nat), pair.plan.gen \in Nat
  PROVE  [e \in DOMAIN escalations |-> stamped(e)] \in Seq(Nat)
<1> DEFINE t == [e \in 1..Len(escalations) |-> stamped(e)]
<1>1. DOMAIN escalations = 1..Len(escalations) /\ Len(escalations) \in Nat
  BY LenProperties
<1>2. \A e \in 1..Len(escalations) : stamped(e) \in Nat
  BY ElementOfSeq DEF stamped
<1>3. t \in [1..Len(escalations) -> Nat]
  BY <1>2
<1> QED BY <1>1, <1>3, SeqDef

-----------------------------------------------------------------------------
(* Types *)

\* A commit half written is of a revision the budget allows, and a revision half
\* retired is one of them.
TypeInv ==
  /\ TypeOK
  /\ pc = "commit_tests" => revision < PlanRevisions
  /\ pc = "retire_tests" => index \in Indexes

LEMMA TypeInit == Init => TypeInv
BY StoreAssumption, EmptySeq
   DEF Init, TypeInv, TypeOK, NoPair, Absent, Pair, Doc, Indexes

LEMMA TypeStep == TypeInv /\ [Next]_vars => TypeInv'
<1> SUFFICES ASSUME TypeInv, [Next]_vars PROVE TypeInv'
  OBVIOUS
<1> USE StoreAssumption, DocTypes DEF TypeInv, TypeOK, Indexes
<1>1. CASE StartPlan
  BY <1>1, LenProperties DEF StartPlan, disk, history, open_escalations
<1>2. CASE RefusePlan
  BY <1>2 DEF RefusePlan, Forget, disk, history
<1>3. CASE WritePlan
  <2> DEFINE doc == [gen |-> base.plan.gen + 1, ser |-> 0]
  <2>1. doc \in Doc /\ doc.gen \in Nat
    OBVIOUS
  <2>2. base' \in Pair /\ pair' \in Pair
    BY <1>3, <2>1, PairUpdate DEF WritePlan
  <2>3. view' \subseteq Nat \X Nat
    BY <1>3, <2>1 DEF WritePlan
  <2> QED BY <1>3, <2>2, <2>3 DEF WritePlan
<1>4. CASE WriteTests
  <2>1. base' \in Pair
    BY <1>4, PairUpdate DEF WriteTests
  <2> QED BY <1>4, <2>1 DEF WriteTests, history
<1>5. CASE RetirePlan
  <2>1. revs' \in [Indexes -> Pair]
    BY <1>5, PairUpdate DEF RetirePlan, AnyAt
  <2>2. superseded' \in [plan : SUBSET Doc, tests : SUBSET Doc]
    BY <1>5 DEF RetirePlan, AnyAt, Moved
  <2>3. index \in Indexes
    BY <1>5 DEF RetirePlan, AnyAt
  <2> QED BY <1>5, <2>1, <2>2, <2>3 DEF RetirePlan, history
<1>6. CASE RetireTests
  <2>1. revs' \in [Indexes -> Pair] /\ (pc = "retire_tests" => index \in Indexes)
    BY <1>6, PairUpdate DEF RetireTests
  <2>2. superseded' \in [plan : SUBSET Doc, tests : SUBSET Doc]
    BY <1>6, <2>1 DEF RetireTests, Moved
  <2>3. index' \in Nat /\ pc' = "retire"
    BY <1>6 DEF RetireTests
  <2> QED BY <1>6, <2>1, <2>2, <2>3 DEF RetireTests, history
<1>7. CASE RetireDone
  BY <1>7 DEF RetireDone, disk, history
<1>8. CASE ClearEscalations
  BY <1>8, StampedType DEF ClearEscalations, history
<1>9. CASE IntegratePlanned
  BY <1>9, CountType DEF IntegratePlanned, disk, history
<1>10. CASE IntegrateLoaded
  <2>1. count(revs) \in 0..PlanRevisions
    BY CountType
  <2>2. latest \in Pair
    BY <2>1 DEF latest
  <2> QED BY <1>10, <2>1, <2>2 DEF IntegrateLoaded, disk, history
<1>11. CASE CommitPlan
  <2> DEFINE doc == [gen |-> pair.plan.gen, ser |-> serial + 1]
  <2>1. doc \in Doc /\ revision + 1 \in Indexes
    <3>1. revision + 1 \in Indexes
      BY <1>11 DEF CommitPlan, revisionsLeft
    <3>2. pair.plan.gen \in Nat /\ serial + 1 \in Nat
      OBVIOUS
    <3> QED BY <3>1, <3>2
  <2>2. revs' = [revs EXCEPT ![revision + 1] = [@ EXCEPT !.plan = doc]]
    BY <1>11 DEF CommitPlan
  <2>3. [revs[revision + 1] EXCEPT !.plan = doc] \in Pair
    BY <2>1, PairUpdate
  <2>4. revs' \in [Indexes -> Pair]
    BY <2>1, <2>2, <2>3
  <2> QED BY <1>11, <2>4 DEF CommitPlan
<1>12. CASE CommitTests
  <2> DEFINE doc == [gen |-> pair.plan.gen, ser |-> serial]
  <2>1. doc \in Doc /\ revision + 1 \in Indexes
    BY <1>12 DEF CommitTests
  <2>2. revs' \in [Indexes -> Pair]
    BY <1>12, <2>1, PairUpdate DEF CommitTests
  <2>3. pair' \in Pair /\ committed' \subseteq Doc
    BY <1>12, <2>1 DEF CommitTests
  <2> QED BY <1>12, <2>1, <2>2, <2>3 DEF CommitTests
<1>13. CASE RecordEscalation
  BY <1>13, AppendProperties DEF RecordEscalation, history
<1>14. CASE JobEnds
  BY <1>14 DEF JobEnds, Forget, disk, history
<1>15. CASE Crash
  BY <1>15 DEF Crash, Forget, disk, history
<1>16. CASE UNCHANGED vars
  BY <1>16 DEF vars, disk, memory, history
<1> QED
  BY <1>1, <1>2, <1>3, <1>4, <1>5, <1>6, <1>7, <1>8, <1>9, <1>10, <1>11, <1>12,
     <1>13, <1>14, <1>15, <1>16 DEF Next

\* Every variable keeps its type, wherever a job dies.
THEOREM TypeCorrect == Spec => []TypeOK
<1>1. TypeInv => TypeOK
  BY DEF TypeInv
<1> QED BY <1>1, TypeInit, TypeStep, PTL DEF Spec

-----------------------------------------------------------------------------
(* The escalation record, wherever a job dies *)

LEMMA ViewInit == Init => ViewInv /\ AnsweredInView
BY DEF Init, ViewInv, AnsweredInView, Writing

\* One step of any job keeps what the record says about the planner's view.
LEMMA ViewStep ==
  ASSUME TypeInv, ViewInv, AnsweredInView, [Next]_vars
  PROVE  ViewInv' /\ AnsweredInView'
<1> USE StoreAssumption DEF ViewInv, AnsweredInView, Writing, open_escalations
<1>1. CASE StartPlan
  BY <1>1 DEF StartPlan, disk, history
<1>2. CASE RefusePlan
  BY <1>2 DEF RefusePlan, Forget, disk, history
<1>3. CASE WritePlan
  <2> DEFINE doc == [gen |-> base.plan.gen + 1, ser |-> 0]
  <2>1. view' = view \cup {<<e, doc.gen>> : e \in seen} /\ pair'.plan = doc
    BY <1>3 DEF WritePlan
  <2>2. escalations' = escalations /\ seen = open_escalations
    BY <1>3 DEF WritePlan
  <2>3. AnsweredInView'
    BY <2>1, <2>2
  <2>4. \A e \in open_escalations : <<e, pair'.plan.gen>> \in view'
    BY <2>1, <2>2
  <2> QED BY <1>3, <2>2, <2>3, <2>4 DEF WritePlan
<1>4. CASE WriteTests
  BY <1>4 DEF WriteTests, history
<1>5. CASE RetirePlan
  BY <1>5 DEF RetirePlan, history
<1>6. CASE RetireTests
  BY <1>6 DEF RetireTests, history
<1>7. CASE RetireDone
  BY <1>7 DEF RetireDone, disk, history
<1>8. CASE ClearEscalations
  <2>1. AnsweredInView'
    <3>1. escalations' = [e \in DOMAIN escalations |-> stamped(e)] /\ view' = view
      BY <1>8 DEF ClearEscalations, history
    <3>2. ASSUME NEW e \in DOMAIN escalations', escalations'[e] # 0
          PROVE  <<e, escalations'[e]>> \in view
      <4>1. CASE escalations[e] = 0
        BY <1>8, <3>1, <3>2, <4>1 DEF stamped, ClearEscalations
      <4>2. CASE escalations[e] # 0
        BY <3>1, <3>2, <4>2 DEF stamped
      <4> QED BY <4>1, <4>2
    <3> QED BY <3>1, <3>2
  <2> QED BY <1>8, <2>1 DEF ClearEscalations
<1>9. CASE IntegratePlanned
  BY <1>9 DEF IntegratePlanned, disk, history
<1>10. CASE IntegrateLoaded
  BY <1>10 DEF IntegrateLoaded, disk, history
<1>11. CASE CommitPlan
  BY <1>11 DEF CommitPlan
<1>12. CASE CommitTests
  BY <1>12 DEF CommitTests
<1>13. CASE RecordEscalation
  <2>1. /\ DOMAIN escalations' = 1..(Len(escalations) + 1)
        /\ DOMAIN escalations = 1..Len(escalations) /\ Len(escalations) \in Nat
        /\ \A e \in DOMAIN escalations : escalations'[e] = escalations[e]
        /\ escalations'[Len(escalations) + 1] = 0
    BY <1>13, AppendProperties, LenProperties DEF RecordEscalation, TypeInv, TypeOK
  <2>2. view' = view /\ pc' = "escalated"
    BY <1>13 DEF RecordEscalation, history
  <2> QED BY <2>1, <2>2
<1>14. CASE JobEnds
  BY <1>14 DEF JobEnds, Forget, disk, history
<1>15. CASE Crash
  BY <1>15 DEF Crash, Forget, disk, history
<1>16. CASE UNCHANGED vars
  BY <1>16 DEF vars, disk, memory, history
<1> QED
  BY <1>1, <1>2, <1>3, <1>4, <1>5, <1>6, <1>7, <1>8, <1>9, <1>10, <1>11, <1>12,
     <1>13, <1>14, <1>15, <1>16 DEF Next

\* An escalation is marked as answered only by a plan whose planner had it in
\* its prompt, wherever a job dies.
THEOREM EscalationsAnsweredInView == Spec => []AnsweredInView
<1>1. Init => TypeInv /\ ViewInv /\ AnsweredInView
  BY TypeInit, ViewInit
<1>2. TypeInv /\ ViewInv /\ AnsweredInView /\ [Next]_vars
        => (TypeInv /\ ViewInv /\ AnsweredInView)'
  BY TypeStep, ViewStep
<1> QED BY <1>1, <1>2, PTL DEF Spec

\* The record only grows, and an answer keeps naming the plan that gave it.
LEMMA AnswersKeptStep ==
  ASSUME TypeInv, [Next]_vars
  PROVE  \A e \in DOMAIN escalations :
           /\ e \in DOMAIN escalations'
           /\ escalations[e] # 0 => escalations'[e] = escalations[e]
<1>1. CASE RecordEscalation
  BY <1>1, AppendProperties, LenProperties DEF RecordEscalation, TypeInv, TypeOK
<1>2. CASE ClearEscalations
  BY <1>2 DEF ClearEscalations, stamped
<1>3. CASE escalations' = escalations
  BY <1>3
<1>4. \/ RecordEscalation \/ ClearEscalations \/ escalations' = escalations
  BY DEF Next, vars, disk, StartPlan, RefusePlan, WritePlan, WriteTests, RetirePlan,
         RetireTests, RetireDone, IntegratePlanned, IntegrateLoaded, CommitPlan,
         CommitTests, JobEnds, Crash
<1> QED BY <1>1, <1>2, <1>3, <1>4

\* Answers are never withdrawn or rewritten, wherever a job dies.
THEOREM AnswersKept == Spec => AnswersAreKept
<1>1. TypeInv /\ [Next]_vars =>
        [\A e \in DOMAIN escalations :
           /\ e \in DOMAIN escalations'
           /\ escalations[e] # 0 => escalations'[e] = escalations[e]]_vars
  BY AnswersKeptStep
<1> QED BY <1>1, TypeInit, TypeStep, PTL DEF Spec, AnswersAreKept

-----------------------------------------------------------------------------
(* The pair in force, when no job dies inside make_plan's writes *)

SafeCrash == "make_plan" \notin CrashIn

LEMMA IInvInit == Init => IInv
<1> SUFFICES ASSUME Init PROVE IInv
  OBVIOUS
<1>1. TypeOK
  BY TypeInit DEF TypeInv
<1>2. FilesInv
  <2>1. 0 \in 0..PlanRevisions
    BY StoreAssumption
  <2>2. \A i \in Indexes : revs[i] = NoPair /\ Run(0, i)
    BY DEF Init, Run, NoPair, Indexes
  <2> QED BY <2>1, <2>2 DEF Init, FilesInv, Retired, HalfRetired
<1>3. BaseInv /\ SerialInv /\ CommittedInv /\ HeldInv
  BY DEF Init, BaseInv, SerialInv, CommittedInv, HeldInv, NoPair, Absent, Exists, Writing
<1> QED BY <1>1, <1>2, <1>3 DEF IInv

\* When retire has nothing left to look at, every revision has been moved.
LEMMA RetireCovers ==
  ASSUME TypeOK, FilesInv, pc = "retire", ~AnyAt(index)
  PROVE  \A i \in Indexes : revs[i] = NoPair
<1>1. PICK m \in 0..PlanRevisions : \A i \in Indexes :
         /\ i < index => revs[i] = NoPair
         /\ ~(i < index) => Run(m, i)
  BY DEF FilesInv, Retired, HalfRetired
<1> TAKE i \in Indexes
<1>2. CASE i < index
  BY <1>1, <1>2
<1>3. CASE ~(i < index)
  <2>1. index \in Indexes
    <3>1. index > 0 /\ index \in Nat
      BY DEF FilesInv, TypeOK
    <3> QED BY <1>3, <3>1, StoreAssumption DEF Indexes
  <2>2. revs[index].plan = Absent /\ revs[index].tests = Absent
    BY <2>1 DEF AnyAt, Exists
  <2>3. m < index
    <3>1. Run(m, index)
      BY <1>1, <2>1, StoreAssumption DEF Indexes
    <3>2. ~(index \leq m)
      BY <2>2, <3>1 DEF Run, Exists
    <3> QED BY <2>1, <3>2, StoreAssumption DEF Indexes
  <2>4. revs[i].plan = Absent /\ revs[i].tests = Absent
    <3>1. CASE i = index
      BY <2>2, <3>1
    <3>2. CASE i # index
      <4>1. i > m /\ i > m + 1
        BY <1>3, <2>1, <2>3, <3>2, StoreAssumption DEF Indexes
      <4> QED BY <1>1, <1>3, <4>1 DEF Run
    <3> QED BY <3>1, <3>2
  <2>5. revs[i] \in Pair
    BY DEF TypeOK
  <2> QED BY <2>4, <2>5 DEF Pair, NoPair
<1> QED BY <1>2, <1>3

\* What a job reads back when it starts stage 3: the last complete revision.
LEMMA CountReads ==
  ASSUME NEW m \in 0..PlanRevisions, \A i \in Indexes : Run(m, i)
  PROVE  count(revs) = m
<1>1. \A i \in 1..m : Complete(revs, i)
  BY StoreAssumption DEF Run, Complete, Indexes
<1>2. m < PlanRevisions => ~Complete(revs, m + 1)
  BY StoreAssumption DEF Run, Complete, Exists, Indexes
<1> QED BY <1>1, <1>2, CountIs

\* The plan stage 3 holds is of the generation on disk.
LEMMA HeldGen ==
  ASSUME TypeOK, BaseInv, SerialInv, HeldInv, pc \in {"integrating", "commit_tests"}
  PROVE  pair.plan.gen = base.plan.gen /\ pair.plan = pair.tests
<1>1. CASE revision = 0
  BY <1>1 DEF HeldInv, BaseInv
<1>2. CASE revision # 0
  <2>1. revision \in Indexes /\ pair = revs[revision] /\ Run(revision, revision)
    BY <1>2, StoreAssumption DEF HeldInv, Indexes
  <2>2. Exists(revs[revision].plan) /\ revs[revision].plan = revs[revision].tests
    BY <2>1, StoreAssumption DEF Run, Indexes
  <2> QED BY <2>1, <2>2 DEF SerialInv, Writing
<1> QED BY <1>1, <1>2

\* The steps that leave every file as it is.
LEMMA FilesUntouched ==
  ASSUME IInv, UNCHANGED <<base, revs, superseded, serial, committed>>,
         ~Writing, ~Writing'
  PROVE  /\ SerialInv'
         /\ pc # "planned" /\ pc' # "planned" => FilesInv'
         /\ CommittedInv'
<1>1. SerialInv'
  BY DEF IInv, SerialInv, Exists
<1>2. pc # "planned" /\ pc' # "planned" => FilesInv'
  BY DEF IInv, FilesInv, Retired, HalfRetired, Run, Exists, Writing
<1>3. CommittedInv'
  BY DEF IInv, CommittedInv, Writing
<1> QED BY <1>1, <1>2, <1>3

\* After retire and clear_escalations no revision file exists.
LEMMA NoFilesRun ==
  ASSUME \A i \in Indexes : revs[i] = NoPair
  PROVE  \A i \in Indexes : Run(0, i)
BY StoreAssumption DEF Run, NoPair, Indexes

\* The steps of a job that write no document keep the invariant.
LEMMA IInvNoWrite ==
  ASSUME IInv, TypeOK', StartPlan \/ RefusePlan \/ JobEnds \/ RecordEscalation
  PROVE  IInv'
<1>1. UNCHANGED <<base, revs, superseded, serial, committed>> /\ ~Writing /\ ~Writing'
  BY DEF StartPlan, RefusePlan, JobEnds, RecordEscalation, Forget, disk, history, Writing
<1>2. SerialInv' /\ CommittedInv'
  BY <1>1, FilesUntouched
<1>3. FilesInv'
  <2>1. CASE pc = "planned"
    <3>1. \A i \in Indexes : Run(0, i)
      BY <2>1, NoFilesRun DEF IInv, FilesInv, Retired
    <3>2. pc' = "idle"
      BY <2>1 DEF StartPlan, RefusePlan, JobEnds, RecordEscalation, Forget
    <3>3. 0 \in 0..PlanRevisions /\ \A i \in Indexes : Run(0, i)'
      BY <1>1, <3>1, StoreAssumption DEF Run, Exists
    <3> QED BY <3>2, <3>3 DEF FilesInv, Retired, HalfRetired
  <2>2. CASE pc # "planned"
    <3>1. pc' # "planned"
      BY DEF StartPlan, RefusePlan, JobEnds, RecordEscalation, Forget
    <3> QED BY <1>1, <2>2, <3>1, FilesUntouched
  <2> QED BY <2>1, <2>2
<1>4. BaseInv'
  BY <1>1 DEF IInv, BaseInv, StartPlan, RefusePlan, JobEnds, RecordEscalation, Forget, Writing
<1>5. HeldInv'
  BY DEF HeldInv, StartPlan, RefusePlan, JobEnds, RecordEscalation, Forget
<1> QED BY <1>2, <1>3, <1>4, <1>5 DEF IInv

\* A job may die anywhere but inside make_plan's writes.
LEMMA IInvCrash ==
  ASSUME IInv, TypeOK', SafeCrash, Crash
  PROVE  IInv'
<1>1. UNCHANGED <<base, revs, superseded, serial, committed>> /\ ~Writing /\ ~Writing'
  BY DEF Crash, Forget, disk, history, Writing, Window, SafeCrash
<1>2. SerialInv' /\ CommittedInv'
  BY <1>1, FilesUntouched
<1>3. FilesInv'
  <2>1. CASE pc = "planned"
    <3>1. \A i \in Indexes : Run(0, i)
      BY <2>1, NoFilesRun DEF IInv, FilesInv, Retired
    <3>2. 0 \in 0..PlanRevisions /\ \A i \in Indexes : Run(0, i)'
      BY <1>1, <3>1, StoreAssumption DEF Run, Exists
    <3> QED BY <3>2 DEF FilesInv, Retired, HalfRetired, Crash, Forget
  <2>2. CASE pc # "planned"
    BY <1>1, <2>2, FilesUntouched DEF Crash, Forget
  <2> QED BY <2>1, <2>2
<1>4. BaseInv'
  BY <1>1 DEF IInv, BaseInv, Crash, Forget, Writing
<1>5. HeldInv'
  BY DEF HeldInv, Crash, Forget
<1> QED BY <1>2, <1>3, <1>4, <1>5 DEF IInv

\* make_plan's first write: every revision on disk now belongs to an older plan.
LEMMA IInvWritePlan ==
  ASSUME IInv, TypeOK', WritePlan
  PROVE  IInv'
<1> DEFINE doc == [gen |-> base.plan.gen + 1, ser |-> 0]
<1>1. /\ base.plan.gen \in Nat
      /\ base'.plan = doc /\ pair' = [plan |-> doc, tests |-> doc]
      /\ pc = "planning" /\ pc' = "write_tests"
      /\ UNCHANGED <<revs, superseded, serial, committed, index>>
  BY DocTypes DEF IInv, TypeOK, WritePlan, Pair
<1>2. FilesInv'
  BY <1>1 DEF IInv, FilesInv, Retired, HalfRetired, Run, Exists
<1>3. BaseInv'
  BY <1>1 DEF BaseInv, Writing
<1>4. SerialInv'
  BY <1>1 DEF IInv, SerialInv, Writing, Exists
<1>5. CommittedInv'
  <2>1. committed \subseteq Doc
    BY DEF IInv, TypeOK
  <2> QED BY <1>1, <2>1, DocTypes DEF IInv, CommittedInv, Writing
<1>6. HeldInv'
  BY <1>1 DEF HeldInv
<1> QED BY <1>2, <1>3, <1>4, <1>5, <1>6 DEF IInv

LEMMA IInvWriteTests ==
  ASSUME IInv, TypeOK', WriteTests
  PROVE  IInv'
<1>1. /\ base'.plan = base.plan /\ base'.tests = pair.tests
      /\ pc = "write_tests" /\ pc' = "retire" /\ index' = 1
      /\ UNCHANGED <<revs, superseded, serial, committed, pair>>
  BY DEF IInv, TypeOK, WriteTests, history, Pair
<1>2. FilesInv'
  BY <1>1 DEF IInv, FilesInv, Retired, HalfRetired, Run, Exists, Indexes
<1>3. BaseInv'
  BY <1>1 DEF IInv, BaseInv, Writing
<1>4. SerialInv'
  BY <1>1 DEF IInv, SerialInv, Writing, Exists
<1>5. CommittedInv'
  BY <1>1 DEF IInv, CommittedInv, Writing
<1>6. HeldInv'
  BY <1>1 DEF HeldInv
<1> QED BY <1>2, <1>3, <1>4, <1>5, <1>6 DEF IInv

LEMMA IInvRetireDone ==
  ASSUME IInv, TypeOK', RetireDone
  PROVE  IInv'
<1>1. /\ pc = "retire" /\ pc' = "clear"
      /\ UNCHANGED <<base, revs, superseded, serial, committed, pair>>
  BY DEF RetireDone, disk, history
<1>2. \A i \in Indexes : revs[i] = NoPair
  BY RetireCovers DEF IInv, RetireDone
<1>3. FilesInv'
  <2>1. 0 \in 0..PlanRevisions
    BY StoreAssumption
  <2> QED BY <1>1, <1>2, <2>1 DEF FilesInv, Retired, HalfRetired
<1>4. BaseInv'
  BY <1>1 DEF IInv, BaseInv, Writing
<1>5. SerialInv'
  BY <1>1 DEF IInv, SerialInv, Writing, Exists
<1>6. CommittedInv'
  BY <1>1 DEF IInv, CommittedInv, Writing
<1>7. HeldInv'
  BY <1>1 DEF HeldInv
<1> QED BY <1>3, <1>4, <1>5, <1>6, <1>7 DEF IInv

LEMMA IInvClear ==
  ASSUME IInv, TypeOK', ClearEscalations
  PROVE  IInv'
<1>1. /\ pc = "clear" /\ pc' = "planned"
      /\ UNCHANGED <<base, revs, superseded, serial, committed, pair>>
  BY DEF ClearEscalations, history
<1>2. FilesInv'
  BY <1>1 DEF IInv, FilesInv, Retired, HalfRetired
<1>3. BaseInv'
  BY <1>1 DEF IInv, BaseInv, Writing
<1>4. \A i \in Indexes : revs[i] = NoPair
  BY <1>1 DEF IInv, FilesInv, Retired
<1>5. SerialInv'
  BY <1>1, <1>4 DEF SerialInv, Exists, NoPair
<1>6. CommittedInv'
  <2>1. \A doc \in committed : doc.gen \in Nat /\ doc.gen < base.plan.gen
    BY <1>1, DocTypes DEF IInv, TypeOK, CommittedInv, Writing
  <2>2. base.plan.gen \in Nat
    BY DocTypes DEF IInv, TypeOK
  <2> QED BY <1>1, <2>1, <2>2 DEF IInv, CommittedInv, Writing
<1>7. HeldInv'
  BY <1>1 DEF HeldInv
<1> QED BY <1>2, <1>3, <1>5, <1>6, <1>7 DEF IInv

\* Moving the port plan of a revision: superseded/ gains it if it exists.
LEMMA IInvRetirePlan ==
  ASSUME IInv, TypeOK', RetirePlan
  PROVE  IInv'
<1>1. /\ pc = "retire" /\ pc' = "retire_tests" /\ index \in Indexes
      /\ UNCHANGED <<base, index, serial, committed, pair>>
  BY DEF RetirePlan, AnyAt, history
<1>2. /\ revs'[index].plan = Absent /\ revs'[index].tests = revs[index].tests
      /\ \A i \in Indexes : i # index => revs'[i] = revs[i]
  BY <1>1, DocTypes DEF IInv, TypeOK, RetirePlan, Pair
<1>3. /\ superseded'.plan = superseded.plan \cup Moved(revs[index].plan)
      /\ superseded'.tests = superseded.tests
  BY DEF IInv, TypeOK, RetirePlan
<1>4. FilesInv'
  <2>1. PICK m \in 0..PlanRevisions : \A i \in Indexes :
          /\ i < index => revs[i] = NoPair
          /\ ~(i < index) => Run(m, i)
    BY <1>1 DEF IInv, FilesInv, Retired, HalfRetired
  <2>2. \A i \in Indexes :
          /\ i < index => revs'[i] = NoPair
          /\ i = index => revs'[i].plan = Absent
          /\ ~(i < index) /\ i # index => Run(m, i)'
    <3> TAKE i \in Indexes
    <3>1. CASE i = index
      BY <1>2, <3>1, StoreAssumption DEF Indexes
    <3>2. CASE i # index
      BY <1>1, <1>2, <2>1, <3>2, StoreAssumption DEF Run, Exists
    <3> QED BY <3>1, <3>2
  <2>3. index > 0
    BY <1>1, StoreAssumption DEF Indexes
  <2> QED BY <1>1, <2>2, <2>3 DEF FilesInv, Retired, HalfRetired
<1>5. BaseInv'
  BY <1>1 DEF IInv, BaseInv, Writing
<1>6. SerialInv'
  <2>1. \A i \in Indexes : Exists(revs'[i].plan) => i # index /\ revs'[i] = revs[i]
    BY <1>2 DEF Exists
  <2> QED BY <1>1, <2>1 DEF IInv, SerialInv, Writing, Exists
<1>7. CommittedInv'
  <2> SUFFICES ASSUME NEW doc \in committed
               PROVE  \/ doc \in superseded'.plan /\ doc \in superseded'.tests
                      \/ \E i \in Indexes : revs'[i] = [plan |-> doc, tests |-> doc]
                      \/ doc \in superseded'.plan /\ revs'[index].tests = doc
    BY <1>1 DEF IInv, CommittedInv, Writing
  <2>1. CASE doc \in superseded.plan /\ doc \in superseded.tests
    BY <1>3, <2>1
  <2>2. CASE revs[index] = [plan |-> doc, tests |-> doc]
    <3>1. doc # Absent
      <4>1. doc.ser > 0
        BY DEF IInv, CommittedInv
      <4> QED BY <4>1 DEF Absent
    <3> QED BY <1>2, <1>3, <2>2, <3>1 DEF Moved, Exists
  <2>3. CASE \E i \in Indexes : i # index /\ revs[i] = [plan |-> doc, tests |-> doc]
    BY <1>2, <2>3
  <2> QED BY <1>1, <2>1, <2>2, <2>3 DEF IInv, CommittedInv
<1>8. HeldInv'
  BY <1>1 DEF HeldInv
<1> QED BY <1>4, <1>5, <1>6, <1>7, <1>8 DEF IInv

LEMMA IInvRetireTests ==
  ASSUME IInv, TypeInv, TypeOK', RetireTests
  PROVE  IInv'
<1>1. /\ pc = "retire_tests" /\ pc' = "retire" /\ index \in Indexes
      /\ index' = index + 1
      /\ UNCHANGED <<base, serial, committed, pair>>
  BY DEF RetireTests, TypeInv, history
<1>2. /\ revs'[index].plan = revs[index].plan /\ revs'[index].tests = Absent
      /\ \A i \in Indexes : i # index => revs'[i] = revs[i]
  BY <1>1, DocTypes DEF IInv, TypeOK, RetireTests, Pair
<1>3. revs[index].plan = Absent
  BY <1>1 DEF IInv, FilesInv, Retired, HalfRetired
<1>4. revs'[index] = NoPair
  <2>1. revs'[index] \in Pair
    BY <1>1 DEF TypeOK
  <2> QED BY <1>2, <1>3, <2>1 DEF Pair, NoPair
<1>5. /\ superseded'.tests = superseded.tests \cup Moved(revs[index].tests)
      /\ superseded'.plan = superseded.plan
  BY DEF IInv, TypeOK, RetireTests
<1>6. FilesInv'
  <2>1. PICK m \in 0..PlanRevisions : \A i \in Indexes :
          /\ i < index => revs[i] = NoPair
          /\ ~(i < index) /\ i # index => Run(m, i)
    BY <1>1 DEF IInv, FilesInv, Retired, HalfRetired
  <2>2. \A i \in Indexes :
          /\ i < index + 1 => revs'[i] = NoPair
          /\ ~(i < index + 1) => Run(m, i)'
    <3> TAKE i \in Indexes
    <3>1. CASE i = index
      BY <1>4, <3>1, StoreAssumption DEF Indexes
    <3>2. CASE i # index
      BY <1>1, <1>2, <2>1, <3>2, StoreAssumption DEF Run, Exists, Indexes
    <3> QED BY <3>1, <3>2
  <2>3. index' > 0
    BY <1>1, StoreAssumption DEF Indexes
  <2> QED BY <1>1, <2>2, <2>3 DEF FilesInv, Retired, HalfRetired
<1>7. BaseInv'
  BY <1>1 DEF IInv, BaseInv, Writing
<1>8. SerialInv'
  <2>1. \A i \in Indexes : Exists(revs'[i].plan) => i # index /\ revs'[i] = revs[i]
    BY <1>4, <1>2 DEF Exists, NoPair
  <2> QED BY <1>1, <2>1 DEF IInv, SerialInv, Writing, Exists
<1>9. CommittedInv'
  <2> SUFFICES ASSUME NEW doc \in committed
               PROVE  \/ doc \in superseded'.plan /\ doc \in superseded'.tests
                      \/ \E i \in Indexes : revs'[i] = [plan |-> doc, tests |-> doc]
    BY <1>1 DEF IInv, CommittedInv, Writing
  <2>1. doc # Absent
    <3>1. doc.ser > 0
      BY DEF IInv, CommittedInv
    <3> QED BY <3>1 DEF Absent
  <2>2. CASE doc \in superseded.plan /\ doc \in superseded.tests
    BY <1>5, <2>2
  <2>3. CASE \E i \in Indexes : revs[i] = [plan |-> doc, tests |-> doc]
    BY <1>2, <1>3, <2>1, <2>3
  <2>4. CASE doc \in superseded.plan /\ revs[index].tests = doc
    BY <1>5, <2>1, <2>4 DEF Moved, Exists
  <2> QED BY <2>2, <2>3, <2>4 DEF IInv, CommittedInv
<1>10. HeldInv'
  BY <1>1 DEF HeldInv
<1> QED BY <1>6, <1>7, <1>8, <1>9, <1>10 DEF IInv

\* Stage 3 starts from the pair stage 2 handed over: no revision is in force.
LEMMA IInvIntegratePlanned ==
  ASSUME IInv, TypeOK', IntegratePlanned
  PROVE  IInv'
<1>1. /\ pc = "planned" /\ pc' = "integrating" /\ revision' = count(revs)
      /\ UNCHANGED <<base, revs, superseded, serial, committed, pair>>
  BY DEF IntegratePlanned, disk, history
<1>2. \A i \in Indexes : Run(0, i)
  BY <1>1, NoFilesRun DEF IInv, FilesInv, Retired
<1>3. 0 \in 0..PlanRevisions /\ count(revs) = 0
  <2>1. 0 \in 0..PlanRevisions
    BY StoreAssumption
  <2> QED BY <1>2, <2>1, CountReads
<1>4. \A i \in Indexes : Run(0, i)'
  BY <1>1, <1>2 DEF Run, Exists
<1>5. FilesInv'
  BY <1>1, <1>3, <1>4 DEF FilesInv, Retired, HalfRetired
<1>6. BaseInv'
  BY <1>1 DEF IInv, BaseInv, Writing
<1>7. SerialInv' /\ CommittedInv'
  BY <1>1, FilesUntouched DEF Writing
<1>8. HeldInv'
  <2>1. pair' = base'
    BY <1>1 DEF IInv, BaseInv, TypeOK, Pair
  <2>2. base'.plan.gen > 0
    BY <1>1 DEF IInv, BaseInv
  <2> QED BY <1>1, <1>3, <1>4, <2>1, <2>2 DEF HeldInv
<1> QED BY <1>5, <1>6, <1>7, <1>8 DEF IInv

\* Stage 3 starts from the files: it reads the last complete revision.
LEMMA IInvIntegrateLoaded ==
  ASSUME IInv, TypeOK', IntegrateLoaded
  PROVE  IInv'
<1>1. /\ pc = "idle" /\ pc' = "integrating" /\ revision' = count(revs)
      /\ pair' = latest /\ Exists(base.plan)
      /\ UNCHANGED <<base, revs, superseded, serial, committed>>
  BY DEF IntegrateLoaded, disk, history
<1>2. PICK m \in 0..PlanRevisions : \A i \in Indexes : Run(m, i)
  BY <1>1 DEF IInv, FilesInv, Retired, HalfRetired
<1>3. count(revs) = m
  BY <1>2, CountReads
<1>4. \A i \in Indexes : Run(m, i)'
  BY <1>1, <1>2 DEF Run, Exists
<1>5. FilesInv'
  BY <1>1, <1>4 DEF FilesInv, Retired, HalfRetired
<1>6. BaseInv'
  BY <1>1 DEF IInv, BaseInv, Writing
<1>7. SerialInv' /\ CommittedInv'
  BY <1>1, FilesUntouched DEF Writing
<1>8. HeldInv'
  <2>1. base.plan.gen > 0
    <3>1. base.plan \in Doc /\ base.plan.ser = 0
      BY DocTypes DEF IInv, TypeOK, BaseInv
    <3> QED BY <1>1, <3>1 DEF Exists, Absent, Doc
  <2> QED BY <1>1, <1>3, <1>4, <2>1 DEF HeldInv, latest
<1> QED BY <1>5, <1>6, <1>7, <1>8 DEF IInv

\* commit's first write: a port plan beside the pair in force, not yet counted.
LEMMA IInvCommitPlan ==
  ASSUME IInv, TypeOK', CommitPlan
  PROVE  IInv'
<1> DEFINE doc == [gen |-> pair.plan.gen, ser |-> serial + 1]
           k == revision + 1
<1>1. /\ pc = "integrating" /\ pc' = "commit_tests" /\ revision < PlanRevisions
      /\ serial' = serial + 1 /\ serial \in Nat
      /\ UNCHANGED <<base, superseded, committed, pair, revision>>
  BY DEF IInv, TypeOK, CommitPlan, revisionsLeft
<1>2. revision \in 0..PlanRevisions /\ k \in Indexes
  BY <1>1, StoreAssumption DEF IInv, TypeOK, Indexes
<1>3. /\ revs'[k].plan = doc /\ revs'[k].tests = revs[k].tests
      /\ \A i \in Indexes : i # k => revs'[i] = revs[i]
  BY <1>2, DocTypes DEF IInv, TypeOK, CommitPlan, Pair
<1>4. \A i \in Indexes : Run(revision, i)
  BY <1>1 DEF IInv, HeldInv
<1>5. revs[k].tests = Absent
  BY <1>2, <1>4, StoreAssumption DEF Run
<1>6. doc # Absent /\ doc.ser = serial + 1 /\ doc.gen = base.plan.gen
  <2>1. pair.plan.gen = base.plan.gen
    BY <1>1, HeldGen DEF IInv
  <2> QED BY <1>1, <2>1 DEF Absent
<1>7. \A i \in Indexes : Run(revision, i)'
  <2> TAKE i \in Indexes
  <2>1. CASE i = k
    BY <1>1, <1>2, <1>3, <1>5, <2>1, StoreAssumption DEF Run
  <2>2. CASE i # k
    BY <1>1, <1>3, <1>4, <2>2 DEF Run, Exists
  <2> QED BY <2>1, <2>2
<1>8. FilesInv'
  BY <1>1, <1>2, <1>7 DEF FilesInv, Retired, HalfRetired
<1>9. BaseInv'
  BY <1>1 DEF IInv, BaseInv, Writing
<1>10. SerialInv'
  <2>1. \A i \in Indexes : i > k => revs[i].plan = Absent
    BY <1>2, <1>4, StoreAssumption DEF Run, Indexes
  <2>2. base.plan.gen \in Nat /\ base.plan.gen > 0
    BY <1>1, DocTypes DEF IInv, TypeOK, HeldInv
  <2>3. ASSUME NEW i \in Indexes, Exists(revs'[i].plan)
        PROVE  /\ revs'[i].plan.ser \in 1..serial'
               /\ revs'[i].plan.gen \in 1..base'.plan.gen
               /\ revs'[i].plan.gen = base'.plan.gen
    <3>1. CASE i = k
      BY <1>1, <1>3, <1>6, <2>2, <3>1
    <3>2. CASE i # k
      BY <1>1, <1>3, <2>3, <3>2 DEF IInv, SerialInv, Exists, Writing
    <3> QED BY <3>1, <3>2
  <2>4. ASSUME NEW i \in Indexes, NEW j \in Indexes, i < j,
               Exists(revs'[i].plan), Exists(revs'[j].plan)
        PROVE  revs'[i].plan.ser < revs'[j].plan.ser
    <3>1. CASE i = k
      BY <1>3, <2>1, <2>4, <3>1 DEF Exists, Indexes
    <3>2. CASE j = k
      <4>1. revs'[i] = revs[i] /\ revs[i].plan.ser \in 1..serial
        BY <1>3, <2>4, <3>2 DEF IInv, SerialInv, Exists, Indexes
      <4> QED BY <1>1, <1>3, <1>6, <3>2, <4>1
    <3>3. CASE i # k /\ j # k
      BY <1>3, <2>4, <3>3 DEF IInv, SerialInv, Exists
    <3> QED BY <3>1, <3>2, <3>3
  <2> QED BY <2>3, <2>4 DEF SerialInv, Exists
<1>11. CommittedInv'
  <2> SUFFICES ASSUME NEW d \in committed, NEW i \in Indexes,
                      revs[i] = [plan |-> d, tests |-> d]
               PROVE  revs'[i] = [plan |-> d, tests |-> d]
    BY <1>1 DEF IInv, CommittedInv, Writing
  <2>1. d # Absent
    <3>1. d.ser > 0
      BY DEF IInv, CommittedInv
    <3> QED BY <3>1 DEF Absent
  <2> QED BY <1>3, <1>5, <2>1
<1>12. HeldInv'
  <2>1. base'.plan.gen > 0 /\ pair' = IF revision' = 0 THEN base' ELSE revs'[revision']
    BY <1>1, <1>2, <1>3 DEF IInv, HeldInv, Indexes
  <2>2. revs'[revision' + 1].plan = [gen |-> pair'.plan.gen, ser |-> serial'] /\ serial' > 0
    BY <1>1, <1>3
  <2> QED BY <1>1, <1>2, <1>7, <2>1, <2>2 DEF HeldInv
<1> QED BY <1>8, <1>9, <1>10, <1>11, <1>12 DEF IInv

\* commit's second write completes the revision: it is counted from here on.
LEMMA IInvCommitTests ==
  ASSUME IInv, TypeOK', CommitTests
  PROVE  IInv'
<1> DEFINE doc == [gen |-> pair.plan.gen, ser |-> serial]
           k == revision + 1
<1>1. /\ pc = "commit_tests" /\ pc' = "integrating" /\ revision' = k
      /\ pair' = [plan |-> doc, tests |-> doc]
      /\ committed' = committed \cup {doc}
      /\ UNCHANGED <<base, superseded, serial>>
  BY DEF CommitTests
<1>2. /\ revision \in 0..PlanRevisions /\ revision < PlanRevisions
      /\ k \in Indexes /\ k \in 0..PlanRevisions
      /\ revs[k].plan = doc /\ serial > 0 /\ serial \in Nat
  BY <1>1, StoreAssumption DEF IInv, HeldInv, TypeOK, Indexes
<1>3. \A i \in Indexes : Run(revision, i)
  BY <1>1 DEF IInv, HeldInv
<1>4. /\ revs'[k] = [plan |-> doc, tests |-> doc]
      /\ \A i \in Indexes : i # k => revs'[i] = revs[i]
  <2>1. revs' = [revs EXCEPT ![k] = [@ EXCEPT !.tests = doc]]
    BY DEF CommitTests
  <2>2. revs[k] \in Pair /\ revs \in [Indexes -> Pair]
    BY <1>2 DEF IInv, TypeOK
  <2> QED BY <1>2, <2>1, <2>2 DEF Pair
<1>5. doc # Absent /\ doc.ser = serial /\ doc.gen = base.plan.gen
  <2>1. pair.plan.gen = base.plan.gen
    BY <1>1, HeldGen DEF IInv
  <2> QED BY <1>2, <2>1 DEF Absent
<1>6. \A i \in Indexes : Run(revision, i)'
  <2> TAKE i \in Indexes
  <2>1. CASE i = k
    BY <1>1, <1>2, <1>4, <1>5, <2>1, StoreAssumption DEF Run, Exists, Indexes
  <2>2. CASE i # k
    BY <1>1, <1>2, <1>3, <1>4, <2>2, StoreAssumption DEF Run, Exists, Indexes
  <2> QED BY <2>1, <2>2
<1>7. FilesInv'
  BY <1>1, <1>2, <1>6 DEF FilesInv, Retired, HalfRetired
<1>8. BaseInv'
  BY <1>1 DEF IInv, BaseInv, Writing
<1>9. \A i \in Indexes : revs'[i].plan = revs[i].plan
  BY <1>2, <1>4
<1>10. SerialInv'
  BY <1>1, <1>9 DEF IInv, SerialInv, Writing, Exists
<1>11. CommittedInv'
  <2>1. base.plan.gen \in Nat
    BY DocTypes DEF IInv, TypeOK
  <2>2. ASSUME NEW d \in committed, NEW i \in Indexes,
               revs[i] = [plan |-> d, tests |-> d]
        PROVE  revs'[i] = [plan |-> d, tests |-> d]
    <3>1. d # Absent
      <4>1. d.ser > 0
        BY DEF IInv, CommittedInv
      <4> QED BY <4>1 DEF Absent
    <3>2. revs[k].tests = Absent
      BY <1>2, <1>3, StoreAssumption DEF Run, Indexes
    <3>3. i # k
      BY <2>2, <3>1, <3>2
    <3> QED BY <1>4, <2>2, <3>3
  <2>3. ASSUME NEW d \in committed'
        PROVE  /\ d.ser > 0
               /\ d.gen \leq base'.plan.gen
               /\ \/ d \in superseded'.plan /\ d \in superseded'.tests
                  \/ \E i \in Indexes : revs'[i] = [plan |-> d, tests |-> d]
               /\ d.gen = base'.plan.gen =>
                    \E i \in Indexes : revs'[i] = [plan |-> d, tests |-> d]
    <3>1. CASE d = doc
      BY <1>1, <1>2, <1>4, <1>5, <2>1, <3>1
    <3>2. CASE d \in committed
      BY <1>1, <2>2, <3>2 DEF IInv, CommittedInv, Writing
    <3> QED BY <1>1, <3>1, <3>2
  <2> QED BY <1>1, <2>3 DEF CommittedInv, Writing
<1>12. HeldInv'
  <2>1. base'.plan.gen > 0
    BY <1>1 DEF IInv, HeldInv
  <2>2. pair' = revs'[revision'] /\ revision' # 0
    BY <1>1, <1>2, <1>4
  <2> QED BY <1>1, <1>2, <1>6, <2>1, <2>2 DEF HeldInv
<1> QED BY <1>7, <1>8, <1>10, <1>11, <1>12 DEF IInv

\* Every step keeps the invariant while no job dies inside make_plan's writes.
LEMMA IInvStep ==
  ASSUME TypeInv, IInv, SafeCrash, [Next]_vars
  PROVE  IInv'
<1>1. TypeOK'
  BY TypeStep DEF TypeInv
<1>2. CASE UNCHANGED vars
  <2>1. UNCHANGED <<base, revs, superseded, pc, pair, revision, index, serial, committed>>
    BY <1>2 DEF vars, disk, memory, history
  <2>2. FilesInv'
    BY <2>1 DEF IInv, FilesInv, Retired, HalfRetired, Run, Exists
  <2>3. BaseInv' /\ SerialInv' /\ CommittedInv'
    BY <2>1 DEF IInv, BaseInv, SerialInv, CommittedInv, Writing, Exists
  <2>4. HeldInv'
    BY <2>1 DEF IInv, HeldInv, Run, Exists
  <2> QED BY <1>1, <2>2, <2>3, <2>4 DEF IInv
<1>3. CASE StartPlan \/ RefusePlan \/ JobEnds \/ RecordEscalation
  BY <1>1, <1>3, IInvNoWrite
<1>4. CASE WritePlan
  BY <1>1, <1>4, IInvWritePlan
<1>5. CASE WriteTests
  BY <1>1, <1>5, IInvWriteTests
<1>6. CASE RetirePlan
  BY <1>1, <1>6, IInvRetirePlan
<1>7. CASE RetireTests
  BY <1>1, <1>7, IInvRetireTests
<1>8. CASE RetireDone
  BY <1>1, <1>8, IInvRetireDone
<1>9. CASE ClearEscalations
  BY <1>1, <1>9, IInvClear
<1>10. CASE IntegratePlanned
  BY <1>1, <1>10, IInvIntegratePlanned
<1>11. CASE IntegrateLoaded
  BY <1>1, <1>11, IInvIntegrateLoaded
<1>12. CASE CommitPlan
  BY <1>1, <1>12, IInvCommitPlan
<1>13. CASE CommitTests
  BY <1>1, <1>13, IInvCommitTests
<1>14. CASE Crash
  BY <1>1, <1>14, IInvCrash
<1> QED
  BY <1>2, <1>3, <1>4, <1>5, <1>6, <1>7, <1>8,
     <1>9, <1>10, <1>11, <1>12, <1>13, <1>14 DEF Next

\* What the invariant says of the properties the runs check.
LEMMA IInvImplies ==
  IInv => /\ HeldPairIsWhole /\ HeldPairIsNewest
          /\ RetireMovesEveryRevision /\ RevisionRecordSurvives
<1> SUFFICES ASSUME IInv
             PROVE  /\ HeldPairIsWhole /\ HeldPairIsNewest
                    /\ RetireMovesEveryRevision /\ RevisionRecordSurvives
  OBVIOUS
<1>1. HeldPairIsWhole
  BY HeldGen DEF IInv, HeldPairIsWhole
<1>2. HeldPairIsNewest
  <2> SUFFICES ASSUME pc = "integrating"
               PROVE  /\ Exists(pair.plan)
                      /\ pair.plan.gen = base.plan.gen
                      /\ \A doc \in committed :
                           doc.gen = pair.plan.gen => doc.ser \leq pair.plan.ser
    BY DEF HeldPairIsNewest
  <2>1. pair.plan.gen = base.plan.gen /\ base.plan.gen > 0
    BY HeldGen DEF IInv, HeldInv
  <2>2. Exists(pair.plan)
    BY <2>1 DEF Exists, Absent
  <2>3. ASSUME NEW doc \in committed, doc.gen = base.plan.gen
        PROVE  doc.ser \leq pair.plan.ser
    <3>1. PICK i \in Indexes : revs[i] = [plan |-> doc, tests |-> doc]
      BY <2>3 DEF IInv, CommittedInv, Writing
    <3>2. doc # Absent /\ doc.ser \in Nat
      <4>1. doc.ser > 0 /\ doc \in Doc
        BY DEF IInv, CommittedInv, TypeOK
      <4> QED BY <4>1, DocTypes DEF Absent
    <3>3. revision \in Nat /\ i \leq revision
      <4>1. Run(revision, i) /\ revision \in 0..PlanRevisions
        BY DEF IInv, HeldInv
      <4> QED BY <3>1, <3>2, <4>1, StoreAssumption DEF Run, Indexes
    <3>4. revision \in Indexes /\ pair = revs[revision]
      BY <3>3, StoreAssumption DEF IInv, HeldInv, Indexes
    <3>5. CASE i = revision
      BY <3>1, <3>2, <3>4, <3>5
    <3>6. CASE i # revision
      <4>1. Exists(revs[i].plan) /\ Exists(revs[revision].plan) /\ i < revision
        BY <2>2, <3>1, <3>2, <3>3, <3>4, <3>6, StoreAssumption DEF Exists, Indexes
      <4>2. revs[i].plan.ser < revs[revision].plan.ser
        BY <3>4, <4>1 DEF IInv, SerialInv
      <4>3. revs[revision].plan.ser \in Nat
        BY <3>4, DocTypes DEF IInv, TypeOK
      <4> QED BY <3>1, <3>2, <3>4, <4>2, <4>3
    <3> QED BY <3>5, <3>6
  <2> QED BY <2>1, <2>2, <2>3
<1>3. RetireMovesEveryRevision
  BY DEF IInv, FilesInv, Retired, RetireMovesEveryRevision
<1>4. RevisionRecordSurvives
  <2> SUFFICES ASSUME NEW doc \in committed
               PROVE  /\ doc \in superseded.plan \/ \E i \in Indexes : revs[i].plan = doc
                      /\ doc \in superseded.tests \/ \E i \in Indexes : revs[i].tests = doc
    BY DEF RevisionRecordSurvives
  <2>1. CASE \E i \in Indexes : revs[i] = [plan |-> doc, tests |-> doc]
    BY <2>1
  <2>2. CASE index \in Indexes /\ doc \in superseded.plan /\ revs[index].tests = doc
    BY <2>2
  <2> QED BY <2>1, <2>2 DEF IInv, CommittedInv
<1> QED BY <1>1, <1>2, <1>3, <1>4

\* Stage 3 never works from a port plan and a test plan of different origin, as
\* long as no job dies inside make_plan's writes.
THEOREM PairIsWhole == ASSUME SafeCrash PROVE Spec => []HeldPairIsWhole
<1>1. Init => TypeInv /\ IInv
  BY TypeInit, IInvInit
<1>2. TypeInv /\ IInv /\ [Next]_vars => (TypeInv /\ IInv)'
  BY TypeStep, IInvStep
<1>3. IInv => HeldPairIsWhole
  BY IInvImplies
<1> QED BY <1>1, <1>2, <1>3, PTL DEF Spec

\* Stage 3 always holds the newest plan and its last committed revision, under
\* the same assumption.
THEOREM PairIsNewest == ASSUME SafeCrash PROVE Spec => []HeldPairIsNewest
<1>1. Init => TypeInv /\ IInv
  BY TypeInit, IInvInit
<1>2. TypeInv /\ IInv /\ [Next]_vars => (TypeInv /\ IInv)'
  BY TypeStep, IInvStep
<1>3. IInv => HeldPairIsNewest
  BY IInvImplies
<1> QED BY <1>1, <1>2, <1>3, PTL DEF Spec

\* retire leaves no revision file behind, under the same assumption.
THEOREM RetireIsComplete == ASSUME SafeCrash PROVE Spec => []RetireMovesEveryRevision
<1>1. Init => TypeInv /\ IInv
  BY TypeInit, IInvInit
<1>2. TypeInv /\ IInv /\ [Next]_vars => (TypeInv /\ IInv)'
  BY TypeStep, IInvStep
<1>3. IInv => RetireMovesEveryRevision
  BY IInvImplies
<1> QED BY <1>1, <1>2, <1>3, PTL DEF Spec

\* No revision that was ever committed is lost, under the same assumption.
THEOREM RevisionsSurvive == ASSUME SafeCrash PROVE Spec => []RevisionRecordSurvives
<1>1. Init => TypeInv /\ IInv
  BY TypeInit, IInvInit
<1>2. TypeInv /\ IInv /\ [Next]_vars => (TypeInv /\ IInv)'
  BY TypeStep, IInvStep
<1>3. IInv => RevisionRecordSurvives
  BY IInvImplies
<1> QED BY <1>1, <1>2, <1>3, PTL DEF Spec

-----------------------------------------------------------------------------
(* The files implement the ledger *)

\* CountReads for the files a step leaves.
LEMMA CountReadsNext ==
  ASSUME NEW m \in 0..PlanRevisions, \A i \in Indexes : Run(m, i)'
  PROVE  count(revs') = m
<1>1. \A i \in 1..m : Complete(revs', i)
  BY StoreAssumption DEF Run, Complete, Exists, Indexes
<1>2. m < PlanRevisions => ~Complete(revs', m + 1)
  BY StoreAssumption DEF Run, Complete, Exists, Indexes
<1> QED BY <1>1, <1>2, CountIs

\* The initial state maps to the empty ledger.
LEMMA LedgerInitMaps == Init => Ledger!LedgerInit
<1> SUFFICES ASSUME Init PROVE Ledger!LedgerInit
  OBVIOUS
<1>1. \A i \in Indexes : Run(0, i)
  BY NoFilesRun DEF Init
<1>2. 0 \in 0..PlanRevisions
  BY StoreAssumption
<1>3. count(revs) = 0
  BY <1>1, <1>2, CountReads
<1>4. open_escalations = {}
  BY EmptySeq DEF Init, open_escalations
<1>5. base.plan.gen = 0 /\ ~Writing
  BY DEF Init, NoPair, Absent, Writing
<1> QED BY <1>3, <1>4, <1>5 DEF Ledger!LedgerInit

\* A step that leaves the files and the escalation record as they are, and does
\* not start or finish make_plan's writes, stutters.
LEMMA LedgerStutters ==
  ASSUME UNCHANGED <<base, revs, escalations>>, Writing' = Writing
  PROVE  UNCHANGED Ledger!ledgerVars
<1>1. count(revs)' = count(revs)
  BY DEF count, Complete, Exists
<1>2. open_escalations' = open_escalations
  BY DEF open_escalations
<1> QED BY <1>1, <1>2 DEF Ledger!ledgerVars

\* Every step of a job is one operation of the ledger, or none.
LEMMA LedgerStep ==
  ASSUME TypeInv, IInv, IInv', SafeCrash, [Next]_vars
  PROVE  [Ledger!LedgerNext]_(Ledger!ledgerVars)
<1>1. CASE StartPlan \/ RefusePlan \/ IntegratePlanned \/ IntegrateLoaded \/ JobEnds
           \/ Crash
  <2>1. UNCHANGED disk /\ ~Writing /\ ~Writing'
    BY <1>1 DEF StartPlan, RefusePlan, IntegratePlanned, IntegrateLoaded, JobEnds,
       Crash, Forget, Writing, Window, SafeCrash
  <2>2. UNCHANGED <<base, revs, escalations>> /\ Writing' = Writing
    BY <2>1 DEF disk, Writing
  <2> QED BY <2>2, LedgerStutters
<1>2. CASE WritePlan
  <2>1. base'.plan.gen = base.plan.gen + 1 /\ Writing'
    BY <1>2 DEF IInv, TypeOK, Pair, WritePlan, Writing
  <2>2. Ledger!Replan
    BY <2>1 DEF Ledger!Replan
  <2> QED BY <2>2 DEF Ledger!LedgerNext
<1>3. CASE WriteTests \/ RetirePlan \/ RetireTests \/ RetireDone
  <2>1. base'.plan = base.plan /\ Writing /\ Writing'
    BY <1>3 DEF IInv, TypeOK, Pair, WriteTests, RetirePlan, RetireTests, RetireDone,
       disk, Writing
  <2> QED BY <2>1 DEF Ledger!ledgerVars
<1>4. CASE ClearEscalations
  <2>1. pc = "clear" /\ pc' = "planned" /\ UNCHANGED <<base, revs>>
    BY <1>4 DEF ClearEscalations
  <2>2. count(revs') = 0
    <3>1. \A i \in Indexes : revs[i] = NoPair
      BY <2>1 DEF IInv, FilesInv, Retired
    <3>2. \A i \in Indexes : Run(0, i)'
      BY <2>1, <3>1, NoFilesRun DEF Run, Exists
    <3>3. 0 \in 0..PlanRevisions
      BY StoreAssumption
    <3> QED BY <3>2, <3>3, CountReadsNext
  <2>3. open_escalations' = {}
    <3>1. pair.plan.gen # 0
      BY <2>1 DEF IInv, BaseInv, Writing
    <3>2. escalations' = [e \in DOMAIN escalations |-> stamped(e)]
      BY <1>4 DEF ClearEscalations
    <3>3. \A e \in DOMAIN escalations : stamped(e) # 0
      BY <3>1 DEF stamped
    <3> QED BY <3>2, <3>3 DEF open_escalations
  <2>4. Writing /\ ~Writing'
    BY <2>1 DEF Writing
  <2> QED BY <2>1, <2>2, <2>3, <2>4 DEF Ledger!ledgerVars
<1>5. CASE CommitPlan
  <2>1. /\ pc = "integrating" /\ pc' = "commit_tests"
        /\ UNCHANGED <<base, escalations, revision>>
    BY <1>5 DEF CommitPlan
  <2>2. /\ revision \in 0..PlanRevisions
        /\ \A i \in Indexes : Run(revision, i) /\ Run(revision, i)'
    BY <2>1 DEF IInv, HeldInv
  <2>3. count(revs) = revision
    BY <2>2, CountReads
  <2>4. count(revs') = revision'
    BY <2>1, <2>2, CountReadsNext
  <2>5. count(revs') = revision
    BY <2>1, <2>4
  <2>6. ~Writing /\ ~Writing' /\ open_escalations' = open_escalations
    BY <2>1 DEF Writing, open_escalations
  <2> QED BY <2>1, <2>3, <2>5, <2>6 DEF Ledger!ledgerVars
<1>6. CASE CommitTests
  <2>1. /\ pc = "commit_tests" /\ pc' = "integrating"
        /\ revision' = revision + 1
        /\ UNCHANGED <<base, escalations>>
    BY <1>6 DEF CommitTests
  <2>2. /\ revision \in 0..PlanRevisions /\ revision < PlanRevisions
        /\ base.plan.gen > 0
        /\ \A i \in Indexes : Run(revision, i)
    BY <2>1 DEF IInv, HeldInv
  <2>3. count(revs) = revision
    BY <2>2, CountReads
  <2>4. count(revs') = revision + 1
    <3>1. revision' \in 0..PlanRevisions /\ \A i \in Indexes : Run(revision, i)'
      BY <2>1 DEF IInv, HeldInv
    <3> QED BY <2>1, <3>1, CountReadsNext DEF Run
  <2>5. ~Writing /\ ~Writing' /\ open_escalations' = open_escalations
    BY <2>1 DEF Writing, open_escalations
  <2> QED BY <2>1, <2>2, <2>3, <2>4, <2>5 DEF Ledger!LedgerNext, Ledger!Revise
<1>7. CASE RecordEscalation
  <2> DEFINE e == Len(escalations) + 1
  <2>1. /\ pc = "integrating" /\ pc' = "escalated"
        /\ UNCHANGED <<base, revs>>
    BY <1>7 DEF RecordEscalation
  <2>2. base.plan.gen > 0
    BY <2>1 DEF IInv, HeldInv
  <2>3. count(revs)' = count(revs)
    BY <2>1 DEF count, Complete, Exists
  <2>4. /\ DOMAIN escalations = 1..Len(escalations) /\ Len(escalations) \in Nat
        /\ DOMAIN escalations' = 1..(Len(escalations) + 1)
        /\ \A k \in DOMAIN escalations : escalations'[k] = escalations[k]
        /\ escalations'[Len(escalations) + 1] = 0
    BY <1>7, AppendProperties, LenProperties DEF RecordEscalation, IInv, TypeOK
  <2>5. e \notin open_escalations /\ open_escalations' = open_escalations \cup {e}
    BY <2>4 DEF open_escalations
  <2>6. e \in 1..MaxEscalations
    BY <1>7, <2>4, StoreAssumption DEF RecordEscalation
  <2>7. ~Writing /\ ~Writing'
    BY <2>1 DEF Writing
  <2>8. Ledger!Escalate(e)
    BY <2>1, <2>2, <2>3, <2>5, <2>7 DEF Ledger!Escalate
  <2> QED BY <2>6, <2>8 DEF Ledger!LedgerNext
<1>8. CASE UNCHANGED vars
  <2>1. UNCHANGED <<base, revs, escalations>> /\ Writing' = Writing
    BY <1>8 DEF vars, disk, memory, Writing
  <2> QED BY <2>1, LedgerStutters
<1> QED
  BY <1>1, <1>2, <1>3, <1>4, <1>5, <1>6, <1>7, <1>8 DEF Next

\* The files implement the ledger, as long as no job dies inside make_plan's
\* writes: a plan supersedes every revision and answers every open escalation
\* at once, and a revision is in force or not there at all.
THEOREM FilesImplementLedger == ASSUME SafeCrash PROVE Spec => ImplementsLedger
<1>1. Init => TypeInv /\ IInv /\ Ledger!LedgerInit
  BY TypeInit, IInvInit, LedgerInitMaps
<1>2. TypeInv /\ IInv /\ [Next]_vars => (TypeInv /\ IInv)'
  BY TypeStep, IInvStep
<1>3. TypeInv /\ IInv /\ IInv' /\ [Next]_vars => [Ledger!LedgerNext]_(Ledger!ledgerVars)
  BY LedgerStep
<1> QED BY <1>1, <1>2, <1>3, PTL DEF Spec, ImplementsLedger, Ledger!LedgerSpec
=============================================================================
