----------------------------- MODULE Integration -----------------------------
(***************************************************************************)
(* Stage 3 for one host (loop/adopt_a_paper_loop.py integrate and           *)
(* _consider_revision): one first turn of the agent, then gate runs and     *)
(* debug turns until the gate passes, the agent escalates, the backend      *)
(* fails or the attempts run out. A debug turn may propose a revision of    *)
(* the plan, which code reviews and commits.                                *)
(*                                                                         *)
(* The disk is the ledger of PlanLedger (every operation one step; the      *)
(* writes underneath are PlanStore). What the agent and the gate say is     *)
(* arbitrary. The agent is assumed to keep the tree a port of the plan in   *)
(* force: that is what the prompts ask, and no property below needs more.   *)
(***************************************************************************)
EXTENDS Naturals

CONSTANTS
  Attempts,         \* C.NUM_INTEGRATION_ATTEMPTS
  PlanRevisions,    \* C.PLAN_REVISIONS
  PlanRepairTurns,  \* C.PLAN_REPAIR_TURNS
  Escalations,      \* bound: names for the escalations open at one time
  Designs           \* port designs, as far as replan.DESIGN tells them apart

ASSUME IntegrationAssumption ==
  /\ Attempts \in Nat \ {0}
  /\ PlanRevisions \in Nat
  /\ PlanRepairTurns \in Nat
  /\ "clean" \notin Designs

VARIABLES
  gen, rev, open,  \* the ledger: plan, revisions of it, open escalations
  design,          \* the design of the pair in force on disk
  tree,            \* the design the port tree is a port of, or "clean"
  pc,              \* what stage 3 is doing
  plan,            \* the pair stage 3 holds: [gen, rev, design]
  attempt,         \* attempts_used
  reply,           \* the agent's last reply
  reviews,         \* reviews made of the current proposal
  status,          \* the status integrate returns
  startedAt,       \* started_at: the revision this run began from
  turns,           \* history: LLM turns of this round
  judged,          \* history: the pair of the last gate run
  touched,         \* history: has the agent had a turn since that gate run?
  unsaved,         \* history: has it had one since the diff was last saved?
  unheard          \* history: has it escalated without ending the round?

Ledger == INSTANCE PlanLedger

disk == <<gen, rev, open, design>>
round == <<plan, attempt, reply, reviews, startedAt>>
history == <<turns, judged, touched, unsaved, unheard>>
stageVars == <<disk, tree, pc, round, status, history>>

PairInForce == [gen |-> gen, rev |-> rev, design |-> design]

Replies == [escalates : BOOLEAN, proposes : BOOLEAN, design : Designs]

\* LLM turns a round may take: the first one, then per attempt a debug turn and
\* either the repair turns of one proposal or the turn that says the budget is
\* spent.
TurnLimit ==
  1 + Attempts * (1 + (IF PlanRepairTurns > 1 THEN PlanRepairTurns ELSE 1))

-----------------------------------------------------------------------------
(* A turn of the agent *)

AgentTurns == {"first_turn", "debug_turn", "repair_turn", "budget_turn"}

\* What every turn leaves behind. The count stops one above the limit.
Worked ==
  /\ turns' = IF turns > TurnLimit THEN turns ELSE turns + 1
  /\ touched' = TRUE
  /\ unsaved' = TRUE

\* A turn whose reply is `r`.
TurnTaken(r) ==
  /\ Worked
  /\ reply' = r
  /\ unheard' = (unheard \/ r.escalates)

\* Mutant: the count is not advanced.
NextAttempt_Stuck ==
  \/ /\ attempt < Attempts
     /\ attempt' = attempt
     /\ pc' = "gate"
     /\ UNCHANGED status
  \/ /\ attempt = Attempts
     /\ pc' = "round_end"
     /\ status' = "failed"
     /\ UNCHANGED attempt

\* The loop goes round, or its attempts are spent.
NextAttempt ==
  \/ /\ attempt < Attempts
     /\ attempt' = attempt + 1
     /\ pc' = "gate"
     /\ UNCHANGED status
  \/ /\ attempt = Attempts
     /\ pc' = "round_end"
     /\ status' = "failed"
     /\ UNCHANGED attempt

\* Mutant: the escalation is dumped under out/ only.
record_escalation_DumpOnly == UNCHANGED <<gen, rev, open>>

\* plan_revision.record_escalation: an entry beside the plan.
record_escalation == \E e \in Escalations : Ledger!Escalate(e)

\* An escalation ends the round and is recorded beside the plan.
Escalated ==
  /\ record_escalation
  /\ status' = "needs_replan"
  /\ pc' = "round_end"
  /\ UNCHANGED <<design, attempt>>

\* integrate's first turn: the agent ports the plan it was given. Its reply is
\* dumped and never read.
FirstTurn ==
  /\ pc = "first_turn"
  /\ Worked
  /\ tree' = plan.design
  /\ attempt' = 1
  /\ pc' = "gate"
  /\ UNCHANGED <<disk, plan, reply, reviews, startedAt, status, judged, unheard>>

\* Mutant: the revision the round was started with.
gatePair_AsStarted == [plan EXCEPT !.rev = startedAt]

\* The pair the gate judges by.
gatePair == plan

\* adapter.run_gate: a pass ends the round, a refusal buys a debug turn.
Gate ==
  /\ pc = "gate"
  /\ judged' = gatePair
  /\ touched' = FALSE
  /\ \/ pc' = "round_end" /\ status' = "passed"
     \/ pc' = "debug_turn" /\ UNCHANGED status
  /\ UNCHANGED <<disk, tree, round, turns, unsaved, unheard>>

\* Mutant: a proposal is taken first.
heardAs_ProposalFirst(r) ==
  IF r.proposes THEN "proposal" ELSE IF r.escalates THEN "escalation" ELSE "work"

\* Which part of the reply is acted on.
heardAs(r) ==
  IF r.escalates THEN "escalation" ELSE IF r.proposes THEN "proposal" ELSE "work"

\* The debug turn. An escalation is heard before a proposal, and
\* unconditionally; a proposal past the revision budget is not reviewed.
DebugTurn ==
  /\ pc = "debug_turn"
  /\ \E r \in Replies :
       /\ TurnTaken(r)
       /\ \/ heardAs(r) = "escalation" /\ Escalated
          \/ heardAs(r) = "work" /\ NextAttempt /\ UNCHANGED disk
          \/ /\ heardAs(r) = "proposal"
             /\ pc' = IF rev >= PlanRevisions THEN "budget_turn" ELSE "review"
             /\ UNCHANGED <<disk, status, attempt>>
  /\ reviews' = 0
  /\ tree' = plan.design
  /\ UNCHANGED <<plan, startedAt, judged>>

\* budget_spent_prompt: one turn, whose reply nobody reads.
BudgetTurn ==
  /\ pc = "budget_turn"
  /\ \E r \in Replies : TurnTaken(r)
  /\ NextAttempt
  /\ tree' = plan.design
  /\ UNCHANGED <<disk, plan, reviews, startedAt, judged>>

\* The proposal survives plan_revision.review and is committed. The agent has
\* edited the tree to match it.
ReviewAccepts ==
  /\ pc = "review"
  /\ Ledger!Revise
  /\ design' = reply.design
  /\ plan' = [plan EXCEPT !.rev = rev + 1, !.design = reply.design]
  /\ tree' = reply.design
  /\ NextAttempt
  /\ UNCHANGED <<reply, reviews, startedAt, history>>

\* Mutant: there always is one.
repairLeft_Always == TRUE

\* Is there a repair turn left?
repairLeft == reviews < PlanRepairTurns

\* The proposal is refused: it gets a repair turn, or the loop goes on.
ReviewRefuses ==
  /\ pc = "review"
  /\ \/ repairLeft /\ pc' = "repair_turn" /\ UNCHANGED <<status, attempt>>
     \/ ~repairLeft /\ NextAttempt
  /\ UNCHANGED <<disk, tree, plan, reply, reviews, startedAt, history>>

\* The repair turn: it may escalate, give up the proposal, or propose again.
RepairTurn ==
  /\ pc = "repair_turn"
  /\ \E r \in Replies :
       /\ TurnTaken(r)
       /\ \/ r.escalates /\ Escalated
          \/ ~r.escalates /\ ~r.proposes /\ NextAttempt /\ UNCHANGED disk
          \/ /\ ~r.escalates /\ r.proposes
             /\ pc' = "review"
             /\ UNCHANGED <<disk, status, attempt>>
  /\ reviews' = reviews + 1
  /\ tree' = plan.design
  /\ UNCHANGED <<plan, startedAt, judged>>

\* An Exception out of a turn or the gate: backend_error, and the round ends.
BackendError ==
  /\ pc \in AgentTurns \cup {"gate"}
  /\ status' = "backend_error"
  /\ pc' = "round_end"
  /\ touched' = TRUE
  /\ unsaved' = (unsaved \/ pc # "gate")
  /\ UNCHANGED <<disk, tree, round, turns, judged, unheard>>

\* run_llm's SystemExit on success=False is not an Exception: integrate does
\* not return, and nothing up to main catches it.
BackendExit ==
  /\ pc \in AgentTurns
  /\ status' = "died"
  /\ pc' = "idle"
  /\ touched' = TRUE
  /\ unsaved' = TRUE
  /\ UNCHANGED <<disk, tree, round, turns, judged, unheard>>

StageThree ==
  \/ FirstTurn \/ Gate \/ DebugTurn \/ BudgetTurn
  \/ ReviewAccepts \/ ReviewRefuses \/ RepairTurn
  \/ BackendError \/ BackendExit
=============================================================================
