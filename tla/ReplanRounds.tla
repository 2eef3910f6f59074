----------------------------- MODULE ReplanRounds -----------------------------
(***************************************************************************)
(* The jobs of one host: stage 2, then rounds of stage 3 with a re-plan      *)
(* after each escalation, within budget (loop/replan.py                      *)
(* integrate_with_replans, called from the driver's main). Stage 3 itself is *)
(* Integration. A job that ends or dies leaves the disk and the port tree to *)
(* the next one.                                                             *)
(***************************************************************************)
EXTENDS Integration

CONSTANTS
  Replans,  \* C.ESCALATION_REPLANS
  MaxJobs   \* bound: jobs submitted

ASSUME ReplanAssumption == Replans \in Nat /\ MaxJobs \in Nat

VARIABLES
  n,      \* integrate_with_replans' loop index
  fresh,  \* does the next round start from a clean tree?
  passed, \* the pair integrate_with_replans passed into the round
  jobs    \* jobs submitted so far

vars == <<stageVars, n, fresh, passed, jobs>>

NoPlan == [gen |-> 0, rev |-> 0, design |-> "clean"]

Init ==
  /\ Ledger!LedgerInit
  /\ design = "clean" /\ tree = "clean"
  /\ pc = "idle"
  /\ plan = NoPlan /\ passed = NoPlan /\ judged = NoPlan
  /\ attempt = 0 /\ reviews = 0 /\ startedAt = 0 /\ n = 0
  /\ reply \in {r \in Replies : ~r.escalates /\ ~r.proposes}
  /\ status = "none"
  /\ turns = 0 /\ touched = FALSE /\ unsaved = FALSE /\ unheard = FALSE
  /\ fresh = TRUE
  /\ jobs = 0

-----------------------------------------------------------------------------
(* A job starts *)

\* The job's first round. P2P_<HOST>_PORT_FRESH decides about the tree.
FirstRound(pair) ==
  /\ plan' = pair
  /\ passed' = pair
  /\ n' = 0
  /\ fresh' \in BOOLEAN
  /\ jobs' = jobs + 1
  /\ status' = "none"
  /\ pc' = "start_round"
  /\ UNCHANGED <<tree, attempt, reply, reviews, startedAt, history>>

\* --stage plan integrate: stage 2 writes a plan and hands it over. A planner
\* that is refused ends the job with nothing changed.
JobPlans ==
  /\ pc = "idle"
  /\ jobs < MaxJobs
  /\ \E d \in Designs :
       /\ Ledger!Replan
       /\ design' = d
       /\ FirstRound([gen |-> gen + 1, rev |-> 0, design |-> d])

\* --stage integrate: load_plans takes the pair in force.
JobLoads ==
  /\ pc = "idle"
  /\ jobs < MaxJobs
  /\ gen > 0
  /\ FirstRound(PairInForce)
  /\ UNCHANGED disk

-----------------------------------------------------------------------------
(* A round *)

\* default_adapter lays the tree out, the baseline and the preflight pass.
StartRound ==
  /\ pc = "start_round"
  /\ tree' = IF fresh THEN "clean" ELSE tree
  /\ attempt' = 0
  /\ startedAt' = rev
  /\ turns' = 0
  /\ unheard' = FALSE
  /\ status' = "failed"
  /\ pc' = "first_turn"
  /\ UNCHANGED <<disk, plan, reply, reviews, judged, touched, unsaved,
                 n, fresh, passed, jobs>>

\* No recorded baseline, or a stale one: SystemExit before the first turn.
SetupRefused ==
  /\ pc = "start_round"
  /\ tree' = IF fresh THEN "clean" ELSE tree
  /\ status' = "died"
  /\ pc' = "idle"
  /\ UNCHANGED <<disk, round, history, n, fresh, passed, jobs>>

Stage3Step == StageThree /\ UNCHANGED <<n, fresh, passed, jobs>>

\* Mutant: only a passed port's diff is pulled back.
saved_OnlyPassed == (status # "passed" /\ unsaved)

\* What save_port, run after every round that returned, leaves unsaved.
saved == FALSE

\* Mutant: one re-plan too many.
replansLeft_OneMore == n <= Replans

\* Does the job's budget allow another re-plan?
replansLeft == n < Replans

\* The round returned and its diff was saved. It is the last one unless stage 3
\* escalated with a re-plan left.
EndRound ==
  /\ pc = "round_end"
  /\ unsaved' = saved
  /\ pc' = IF status = "needs_replan" /\ replansLeft THEN "planning" ELSE "idle"
  /\ UNCHANGED <<disk, tree, round, status, turns, judged, touched, unheard,
                 n, fresh, passed, jobs>>

\* Stage 2 refuses its plan, or its backend fails: caught either way.
ReplanFails ==
  /\ pc = "planning"
  /\ status' = "replan_failed"
  /\ pc' = "idle"
  /\ UNCHANGED <<disk, tree, round, history, n, fresh, passed, jobs>>

\* design_changes between the pair passed into the round and the new plan.
design_changes(old, new) == old.design # new.design

\* Stage 2 writes a plan that answers the escalations.
ReplanWritten ==
  /\ pc = "planning"
  /\ \E d \in Designs :
       LET new == [gen |-> gen + 1, rev |-> 0, design |-> d] IN
       /\ Ledger!Replan
       /\ design' = d
       /\ fresh' = design_changes(passed, new)
       /\ plan' = new
       /\ passed' = new
  /\ n' = n + 1
  /\ pc' = "start_round"
  /\ UNCHANGED <<tree, attempt, reply, reviews, startedAt, status, history, jobs>>

Next ==
  \/ JobPlans \/ JobLoads
  \/ StartRound \/ SetupRefused \/ Stage3Step
  \/ EndRound \/ ReplanFails \/ ReplanWritten

\* A job in progress goes on: the driver is one sequential program, and every
\* turn, gate run and plan run it waits for is under a timeout of its own.
JobStep == pc # "idle" /\ Next

Spec == Init /\ [][Next]_vars /\ WF_vars(JobStep)

-----------------------------------------------------------------------------
(* Properties *)

Plans == [gen : Nat, rev : Nat, design : Designs \cup {"clean"}]

\* Every variable keeps its type.
TypeOK ==
  /\ Ledger!LedgerTypeOK
  /\ design \in Designs \cup {"clean"}
  /\ tree \in Designs \cup {"clean"}
  /\ pc \in {"idle", "start_round", "gate", "review", "round_end", "planning"}
            \cup AgentTurns
  /\ plan \in Plans /\ passed \in Plans /\ judged \in Plans
  /\ attempt \in 0..Attempts
  /\ reply \in Replies
  /\ reviews \in Nat
  /\ status \in {"none", "failed", "passed", "needs_replan", "backend_error",
                 "replan_failed", "died"}
  /\ startedAt \in 0..PlanRevisions
  /\ turns \in Nat
  /\ touched \in BOOLEAN /\ unsaved \in BOOLEAN /\ unheard \in BOOLEAN
  /\ n \in 0..Replans
  /\ fresh \in BOOLEAN
  /\ jobs \in 0..MaxJobs

\* A port is reported as passed only if the last gate run judged it by the pair
\* that is in force on disk, and the agent has not had a turn since.
PromotedAsJudged == status = "passed" => ~touched /\ judged = PairInForce

\* A round, or a job, that stops because only stage 2 can go on leaves an open
\* escalation on disk for the next stage-2 run to read, also when the re-plan
\* was refused.
StoppedForStageTwo ==
  status \in {"needs_replan", "replan_failed"} /\ pc # "start_round" => open # {}

\* No reply both disclaims the plan and changes it: a revision never comes from
\* a turn that escalates ("a document its own author just disclaimed").
DisclaimedPlanIsNotRevised == [][rev' > rev => ~reply.escalates]_vars

\* However the agent answers, a round costs at most TurnLimit LLM turns.
TurnsAreBounded == turns \leq TurnLimit

\* A job that ends by itself has pulled the port's diff back, whatever the
\* verdict was; only a job that died has not.
FinishedJobSavedItsPort == pc = "idle" /\ status # "died" => ~unsaved

\* Every job ends, however often the agent proposes, escalates or fails.
JobsEnd == pc # "idle" ~> pc = "idle"

-----------------------------------------------------------------------------
(* Claims of the code's comments that its behaviour contradicts *)

\* A round that keeps the port tree starts from a port of its plan ("the port
\* the agent already wrote is still a port of this plan, and the next round
\* keeps it", replan.design_changes).
KeptTreeIsAPortOfThePlan ==
  pc = "start_round" /\ n > 0 /\ ~fresh => tree = plan.design

\* An agent that escalated is not sent back into the gate ("Dropping it left
\* the agent's ... unrecorded and sent it back into the same gate",
\* _consider_revision; budget_spent_prompt offers the escalation).
EscalationIsHeard == pc = "gate" => ~unheard

\* The port's diff is pulled back before the job ends ("it has to be pulled
\* back before the job ends. Written whether the gate passed or failed", main).
PortSavedBeforeJobEnds == pc = "idle" => ~unsaved
=============================================================================
