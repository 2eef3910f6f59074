----------------------------- MODULE PlanLedger -----------------------------
(***************************************************************************)
(* What the stage-2 artifacts of one host promise their readers, with every *)
(* operation a single step: which plan is in force, how often stage 3 has   *)
(* corrected it, and which escalations nobody has answered yet.            *)
(*                                                                         *)
(* PlanStore shows that the files of loop/plan_revision.py implement this   *)
(* ledger while no job dies inside make_plan's writes; Integration and      *)
(* ReplanRounds are built on it.                                           *)
(***************************************************************************)
EXTENDS Naturals

CONSTANTS
  PlanRevisions,  \* C.PLAN_REVISIONS
  Escalations     \* names for the escalations stage 3 may record

VARIABLES
  gen,   \* how many plans stage 2 has written; 0 when there is none
  rev,   \* how many revisions of that plan stage 3 has committed
  open   \* the escalations no later plan has answered

ledgerVars == <<gen, rev, open>>

LedgerTypeOK ==
  /\ gen \in Nat
  /\ rev \in 0..PlanRevisions
  /\ open \subseteq Escalations

LedgerInit == gen = 0 /\ rev = 0 /\ open = {}

\* Stage 2 writes a plan: no revision of an older one stays in force, and the
\* open escalations were in front of the planner, so they are answered.
Replan ==
  /\ gen' = gen + 1
  /\ rev' = 0
  /\ open' = {}

\* Stage 3 commits one accepted revision of the plan in force.
Revise ==
  /\ gen > 0
  /\ rev < PlanRevisions
  /\ rev' = rev + 1
  /\ UNCHANGED <<gen, open>>

\* Stage 3 records that only stage 2 can decide something.
Escalate(e) ==
  /\ gen > 0
  /\ e \notin open
  /\ open' = open \cup {e}
  /\ UNCHANGED <<gen, rev>>

LedgerNext == Replan \/ Revise \/ \E e \in Escalations : Escalate(e)

LedgerSpec == LedgerInit /\ [][LedgerNext]_ledgerVars
=============================================================================
