---------------------------- MODULE ReplanProofs ----------------------------
(***************************************************************************)
(* ReplanRounds, for any budgets of attempts, revisions, repair turns,      *)
(* re-plans and jobs, any port designs and any escalations.                 *)
(*                                                                         *)
(* What the disk holds and what stage 3 holds are one pair for as long as a  *)
(* round lasts (RoundInv), so the pair that was judged is the pair in force. *)
(* A reply that is under review never escalated. The turns of a round are    *)
(* counted against its attempts: TurnsBefore is what the attempts that are   *)
(* over may have cost, and every place in the loop adds what its own attempt *)
(* has cost so far (TurnsInv). StepsLeft counts all steps in the same way,   *)
(* and every step of a job makes it smaller.                                *)
(***************************************************************************)
EXTENDS ReplanRounds, TLAPS

\* Where a round is between its first turn and its end.
InRound == AgentTurns \cup {"gate", "review"}

\* The pair in memory is the pair on disk; a round that goes on has no verdict.
RoundInv ==
  /\ pc \in InRound \cup {"start_round", "round_end"} => plan = PairInForce /\ gen > 0
  /\ pc \in InRound => status = "failed"
  /\ pc \in InRound \ {"first_turn"} => attempt > 0
  /\ pc \in {"review", "repair_turn"} => reviews <= PlanRepairTurns
  /\ pc = "repair_turn" => reviews < PlanRepairTurns
  /\ pc = "review" => ~reply.escalates
  /\ pc = "planning" => status = "needs_replan" /\ n < Replans /\ ~unsaved
  /\ pc = "start_round" => status \in {"none", "needs_replan"}
  /\ pc = "round_end" => status \in {"passed", "failed", "needs_replan", "backend_error"}

\* The most turns an attempt may take.
PerAttempt == 1 + (IF PlanRepairTurns > 1 THEN PlanRepairTurns ELSE 1)

\* What the first turn and the attempts before this one may have taken.
TurnsBefore(a) == 1 + (a - 1) * PerAttempt

TurnsInv ==
  /\ pc = "first_turn" => turns = 0
  /\ pc \in {"gate", "debug_turn"} => turns <= TurnsBefore(attempt)
  /\ pc = "budget_turn" => turns <= TurnsBefore(attempt) + 1
  /\ pc \in {"review", "repair_turn"} => turns <= TurnsBefore(attempt) + 1 + reviews
  /\ TurnsAreBounded

ReplanInv ==
  /\ TypeOK /\ RoundInv /\ TurnsInv
  /\ PromotedAsJudged /\ StoppedForStageTwo /\ FinishedJobSavedItsPort

-----------------------------------------------------------------------------
(* Counting turns *)

LEMMA PerAttemptType == PerAttempt \in Nat /\ PerAttempt >= 2 /\ PlanRepairTurns + 1 <= PerAttempt
BY IntegrationAssumption DEF PerAttempt

\* Another attempt costs PerAttempt turns, and Attempts of them the whole limit.
LEMMA TurnsGrow ==
  ASSUME NEW a \in 1..Attempts
  PROVE  /\ TurnsBefore(a) \in Nat
         /\ TurnsBefore(a + 1) = TurnsBefore(a) + PerAttempt
         /\ TurnsBefore(a) + PerAttempt <= TurnLimit
         /\ TurnLimit \in Nat
<1> DEFINE k == PerAttempt
<1>1. k \in Nat /\ Attempts \in Nat /\ a \in Nat /\ 1 <= a /\ a <= Attempts
  BY PerAttemptType, IntegrationAssumption
<1> HIDE DEF k
<1>2. (a - 1) * k \in Nat
  BY <1>1
<1>3. ((a + 1) - 1) * k = (a - 1) * k + k
  BY <1>1
<1>4. a * k <= Attempts * k
  <2>1. (Attempts - a) * k >= 0
    BY <1>1
  <2> QED BY <1>1, <2>1
<1>5. (a - 1) * k + k = a * k
  BY <1>1
<1>6. TurnLimit = 1 + Attempts * k
  BY DEF TurnLimit, PerAttempt, k
<1>7. TurnLimit \in Nat
  BY <1>1, <1>6
<1> QED BY <1>1, <1>2, <1>3, <1>4, <1>5, <1>6, <1>7 DEF TurnsBefore, k

\* Within the limit a turn is counted.
LEMMA WorkedCounts ==
  ASSUME TypeOK, turns <= TurnLimit, TurnLimit \in Nat, Worked
  PROVE  turns' = turns + 1 /\ touched' = TRUE /\ unsaved' = TRUE
BY DEF Worked, TypeOK

\* After a turn that the attempt can afford, the loop goes round or ends.
LEMMA NextAttemptTurns ==
  ASSUME TypeOK, attempt > 0, NextAttempt, NEW t \in Nat, t <= TurnsBefore(attempt) + PerAttempt
  PROVE  /\ t <= TurnLimit
         /\ pc' = "gate" => t <= TurnsBefore(attempt') /\ attempt' \in 1..Attempts /\ status' = status
         /\ pc' \in {"gate", "round_end"} /\ attempt' \in 0..Attempts
         /\ pc' = "round_end" => status' = "failed"
<1>1. attempt \in 1..Attempts /\ Attempts \in Nat
  BY IntegrationAssumption DEF TypeOK
<1>2. /\ TurnsBefore(attempt) \in Nat /\ TurnLimit \in Nat /\ PerAttempt \in Nat
      /\ TurnsBefore(attempt + 1) = TurnsBefore(attempt) + PerAttempt
      /\ TurnsBefore(attempt) + PerAttempt <= TurnLimit
  BY <1>1, TurnsGrow, PerAttemptType
<1>3. CASE attempt < Attempts /\ attempt' = attempt + 1 /\ pc' = "gate" /\ status' = status
  BY <1>1, <1>2, <1>3
<1>4. CASE attempt = Attempts /\ pc' = "round_end" /\ status' = "failed" /\ attempt' = attempt
  BY <1>1, <1>2, <1>4
<1> QED BY <1>3, <1>4 DEF NextAttempt

-----------------------------------------------------------------------------
(* The invariant is preserved, part by part *)

\* Types.
LEMMA StepType == ASSUME ReplanInv, [Next]_vars PROVE TypeOK'
<1>1. TypeOK /\ RoundInv
  BY DEF ReplanInv
<1>a. PlanRevisions \in Nat /\ Attempts \in Nat \ {0} /\ Replans \in Nat /\ MaxJobs \in Nat
  BY IntegrationAssumption, ReplanAssumption
<1>2. CASE JobPlans
  BY <1>1, <1>a, <1>2 DEF JobPlans, FirstRound, Ledger!Replan, vars, stageVars, disk,
     round, history, TypeOK, Ledger!LedgerTypeOK, Plans, RoundInv, InRound, AgentTurns
<1>3. CASE JobLoads
  BY <1>1, <1>a, <1>3 DEF JobLoads, FirstRound, PairInForce, vars, stageVars, disk,
     round, history, TypeOK, Ledger!LedgerTypeOK, Plans, RoundInv, InRound, AgentTurns
<1>4. CASE StartRound
  <2>1. tree' \in Designs \cup {"clean"}
    BY <1>1, <1>4 DEF StartRound, TypeOK
  <2>2. 0 \in 0..Attempts /\ rev \in 0..PlanRevisions
    BY <1>1, <1>a DEF TypeOK, Ledger!LedgerTypeOK
  <2>3. /\ attempt' = 0 /\ startedAt' = rev /\ turns' = 0 /\ unheard' = FALSE
        /\ status' = "failed" /\ pc' = "first_turn"
        /\ UNCHANGED <<disk, plan, reply, reviews, judged, touched, unsaved, n, fresh, passed, jobs>>
    BY <1>4 DEF StartRound
  <2> QED BY <1>1, <2>1, <2>2, <2>3 DEF TypeOK, Ledger!LedgerTypeOK, AgentTurns, disk
<1>5. CASE SetupRefused
  BY <1>1, <1>a, <1>5 DEF SetupRefused, vars, stageVars, disk, round, history,
     TypeOK, Ledger!LedgerTypeOK, Plans, RoundInv, InRound, AgentTurns
<1>6. CASE FirstTurn /\ UNCHANGED <<n, fresh, passed, jobs>>
  BY <1>1, <1>a, <1>6 DEF FirstTurn, Worked, vars, stageVars, disk, round, history,
     TypeOK, Ledger!LedgerTypeOK, Plans, RoundInv, InRound, AgentTurns
<1>7. CASE Gate /\ UNCHANGED <<n, fresh, passed, jobs>>
  BY <1>1, <1>a, <1>7 DEF Gate, gatePair, vars, stageVars, disk, round, history,
     TypeOK, Ledger!LedgerTypeOK, Plans, RoundInv, InRound, AgentTurns
<1>8. CASE DebugTurn /\ UNCHANGED <<n, fresh, passed, jobs>>
  BY <1>1, <1>a, <1>8 DEF DebugTurn, TurnTaken, Worked, Escalated, record_escalation,
     Ledger!Escalate, NextAttempt, heardAs, Replies, vars, stageVars, disk, round,
     history, TypeOK, Ledger!LedgerTypeOK, Plans, RoundInv, InRound, AgentTurns
<1>9. CASE BudgetTurn /\ UNCHANGED <<n, fresh, passed, jobs>>
  BY <1>1, <1>a, <1>9 DEF BudgetTurn, TurnTaken, Worked, NextAttempt, Replies, vars,
     stageVars, disk, round, history, TypeOK, Ledger!LedgerTypeOK, Plans, RoundInv,
     InRound, AgentTurns
<1>10. CASE ReviewAccepts /\ UNCHANGED <<n, fresh, passed, jobs>>
  <2>1. /\ rev' = rev + 1 /\ rev + 1 \in 0..PlanRevisions /\ gen' = gen /\ open' = open
        /\ design' = reply.design /\ tree' = reply.design /\ reply.design \in Designs
        /\ UNCHANGED <<reply, reviews, startedAt, history, n, fresh, passed, jobs>>
        /\ pc = "review" /\ gen > 0 /\ gen \in Nat
    BY <1>1, <1>a, <1>10 DEF ReviewAccepts, Ledger!Revise, TypeOK, Ledger!LedgerTypeOK, Replies
  <2>2. /\ plan' = [gen |-> plan.gen, rev |-> rev + 1, design |-> reply.design]
        /\ plan.gen = gen
    <3>1. plan = [gen |-> gen, rev |-> rev, design |-> design]
      BY <1>1, <2>1 DEF RoundInv, InRound, PairInForce
    <3>2. plan' = [plan EXCEPT !.rev = rev + 1, !.design = reply.design]
      BY <1>10 DEF ReviewAccepts
    <3> QED BY <3>1, <3>2
  <2>3. /\ attempt > 0 /\ status = "failed"
    BY <1>1, <2>1 DEF RoundInv, InRound, AgentTurns
  <2>4. /\ attempt' \in 0..Attempts /\ attempt' > 0 /\ status' = "failed"
        /\ pc' \in {"gate", "round_end"}
    BY <1>1, <1>a, <2>3, <1>10 DEF ReviewAccepts, NextAttempt, TypeOK
  <2> QED BY <1>1, <2>1, <2>2, <2>4
          DEF TypeOK, Ledger!LedgerTypeOK, Plans, history
<1>11. CASE ReviewRefuses /\ UNCHANGED <<n, fresh, passed, jobs>>
  BY <1>1, <1>a, <1>11 DEF ReviewRefuses, NextAttempt, repairLeft, vars, stageVars,
     disk, round, history, TypeOK, Ledger!LedgerTypeOK, Plans, RoundInv, InRound,
     AgentTurns
<1>12. CASE RepairTurn /\ UNCHANGED <<n, fresh, passed, jobs>>
  BY <1>1, <1>a, <1>12 DEF RepairTurn, TurnTaken, Worked, Escalated,
     record_escalation, Ledger!Escalate, NextAttempt, Replies, vars, stageVars, disk,
     round, history, TypeOK, Ledger!LedgerTypeOK, Plans, RoundInv, InRound, AgentTurns
<1>13. CASE BackendError /\ UNCHANGED <<n, fresh, passed, jobs>>
  BY <1>1, <1>a, <1>13 DEF BackendError, vars, stageVars, disk, round, history,
     TypeOK, Ledger!LedgerTypeOK, Plans, RoundInv, InRound, AgentTurns
<1>14. CASE BackendExit /\ UNCHANGED <<n, fresh, passed, jobs>>
  BY <1>1, <1>a, <1>14 DEF BackendExit, vars, stageVars, disk, round, history,
     TypeOK, Ledger!LedgerTypeOK, Plans, RoundInv, InRound, AgentTurns
<1>15. CASE EndRound
  BY <1>1, <1>a, <1>15 DEF EndRound, saved, replansLeft, vars, stageVars, disk,
     round, history, TypeOK, Ledger!LedgerTypeOK, Plans, RoundInv, InRound, AgentTurns
<1>16. CASE ReplanFails
  BY <1>1, <1>a, <1>16 DEF ReplanFails, vars, stageVars, disk, round, history,
     TypeOK, Ledger!LedgerTypeOK, Plans, RoundInv, InRound, AgentTurns
<1>17. CASE ReplanWritten
  <2>1. PICK d \in Designs :
          LET new == [gen |-> gen + 1, rev |-> 0, design |-> d] IN
          /\ Ledger!Replan
          /\ design' = d
          /\ fresh' = design_changes(passed, new)
          /\ plan' = new /\ passed' = new
    BY <1>17 DEF ReplanWritten
  <2>2. /\ gen' = gen + 1 /\ rev' = 0 /\ open' = {} /\ design' \in Designs
        /\ fresh' \in BOOLEAN
        /\ plan' \in Plans /\ passed' \in Plans
    BY <1>1, <2>1 DEF Ledger!Replan, design_changes, TypeOK, Ledger!LedgerTypeOK, Plans
  <2>3. n' \in 0..Replans /\ pc' = "start_round"
        /\ UNCHANGED <<tree, attempt, reply, reviews, startedAt, status, history, jobs>>
    BY <1>1, <1>a, <1>17 DEF ReplanWritten, RoundInv, TypeOK
  <2> QED BY <1>1, <1>a, <2>2, <2>3 DEF TypeOK, Ledger!LedgerTypeOK, history
<1>18. CASE UNCHANGED vars
  BY <1>1, <1>a, <1>18 DEF vars, stageVars, disk, round, history, TypeOK,
     Ledger!LedgerTypeOK, Plans, RoundInv, InRound, AgentTurns
<1> QED
  BY <1>2, <1>3, <1>4, <1>5, <1>6, <1>7, <1>8, <1>9, <1>10, <1>11, <1>12, <1>13,
     <1>14, <1>15, <1>16, <1>17, <1>18 DEF Next, Stage3Step, StageThree

\* One pair in memory and on disk.
LEMMA StepRound == ASSUME ReplanInv, [Next]_vars PROVE RoundInv'
<1>1. TypeOK /\ RoundInv
  BY DEF ReplanInv
<1>a. PlanRevisions \in Nat /\ PlanRepairTurns \in Nat /\ Attempts \in Nat \ {0}
  BY IntegrationAssumption
<1>2. CASE JobPlans
  BY <1>1, <1>a, <1>2 DEF JobPlans, FirstRound, Ledger!Replan, vars, stageVars, disk,
     round, history, TypeOK, Ledger!LedgerTypeOK, RoundInv, InRound, AgentTurns,
     PairInForce
<1>3. CASE JobLoads
  BY <1>1, <1>a, <1>3 DEF JobLoads, FirstRound, PairInForce, vars, stageVars, disk,
     round, history, TypeOK, Ledger!LedgerTypeOK, RoundInv, InRound, AgentTurns
<1>4. CASE StartRound
  BY <1>1, <1>a, <1>4 DEF StartRound, vars, stageVars, disk, round, history, TypeOK,
     Ledger!LedgerTypeOK, RoundInv, InRound, AgentTurns, PairInForce
<1>5. CASE SetupRefused
  BY <1>1, <1>a, <1>5 DEF SetupRefused, vars, stageVars, disk, round, history,
     TypeOK, Ledger!LedgerTypeOK, RoundInv, InRound, AgentTurns, PairInForce
<1>6. CASE FirstTurn /\ UNCHANGED <<n, fresh, passed, jobs>>
  BY <1>1, <1>a, <1>6 DEF FirstTurn, Worked, vars, stageVars, disk, round, history,
     TypeOK, Ledger!LedgerTypeOK, RoundInv, InRound, AgentTurns, PairInForce
<1>7. CASE Gate /\ UNCHANGED <<n, fresh, passed, jobs>>
  BY <1>1, <1>a, <1>7 DEF Gate, gatePair, vars, stageVars, disk, round, history,
     TypeOK, Ledger!LedgerTypeOK, RoundInv, InRound, AgentTurns, PairInForce
<1>8. CASE DebugTurn /\ UNCHANGED <<n, fresh, passed, jobs>>
  BY <1>1, <1>a, <1>8 DEF DebugTurn, TurnTaken, Worked, Escalated, record_escalation,
     Ledger!Escalate, NextAttempt, heardAs, Replies, vars, stageVars, disk, round,
     history, TypeOK, Ledger!LedgerTypeOK, RoundInv, InRound, AgentTurns, PairInForce
<1>9. CASE BudgetTurn /\ UNCHANGED <<n, fresh, passed, jobs>>
  BY <1>1, <1>a, <1>9 DEF BudgetTurn, TurnTaken, Worked, NextAttempt, Replies, vars,
     stageVars, disk, round, history, TypeOK, Ledger!LedgerTypeOK, RoundInv, InRound,
     AgentTurns, PairInForce
<1>10. CASE ReviewAccepts /\ UNCHANGED <<n, fresh, passed, jobs>>
  <2>1. /\ rev' = rev + 1 /\ rev + 1 \in 0..PlanRevisions /\ gen' = gen /\ open' = open
        /\ design' = reply.design /\ tree' = reply.design /\ reply.design \in Designs
        /\ UNCHANGED <<reply, reviews, startedAt, history, n, fresh, passed, jobs>>
        /\ pc = "review" /\ gen > 0 /\ gen \in Nat
    BY <1>1, <1>a, <1>10 DEF ReviewAccepts, Ledger!Revise, TypeOK, Ledger!LedgerTypeOK, Replies
  <2>2. /\ plan' = [gen |-> plan.gen, rev |-> rev + 1, design |-> reply.design]
        /\ plan.gen = gen
    <3>1. plan = [gen |-> gen, rev |-> rev, design |-> design]
      BY <1>1, <2>1 DEF RoundInv, InRound, PairInForce
    <3>2. plan' = [plan EXCEPT !.rev = rev + 1, !.design = reply.design]
      BY <1>10 DEF ReviewAccepts
    <3> QED BY <3>1, <3>2
  <2>3. /\ attempt > 0 /\ status = "failed"
    BY <1>1, <2>1 DEF RoundInv, InRound, AgentTurns
  <2>4. /\ attempt' \in 0..Attempts /\ attempt' > 0 /\ status' = "failed"
        /\ pc' \in {"gate", "round_end"}
    BY <1>1, <1>a, <2>3, <1>10 DEF ReviewAccepts, NextAttempt, TypeOK
  <2> QED BY <1>1, <2>1, <2>2, <2>4 DEF RoundInv, InRound, AgentTurns, PairInForce
<1>11. CASE ReviewRefuses /\ UNCHANGED <<n, fresh, passed, jobs>>
  BY <1>1, <1>a, <1>11 DEF ReviewRefuses, NextAttempt, repairLeft, vars, stageVars,
     disk, round, history, TypeOK, Ledger!LedgerTypeOK, RoundInv, InRound, AgentTurns,
     PairInForce
<1>12. CASE RepairTurn /\ UNCHANGED <<n, fresh, passed, jobs>>
  BY <1>1, <1>a, <1>12 DEF RepairTurn, TurnTaken, Worked, Escalated,
     record_escalation, Ledger!Escalate, NextAttempt, Replies, vars, stageVars, disk,
     round, history, TypeOK, Ledger!LedgerTypeOK, RoundInv, InRound, AgentTurns,
     PairInForce
<1>13. CASE BackendError /\ UNCHANGED <<n, fresh, passed, jobs>>
  BY <1>1, <1>a, <1>13 DEF BackendError, vars, stageVars, disk, round, history,
     TypeOK, Ledger!LedgerTypeOK, RoundInv, InRound, AgentTurns, PairInForce
<1>14. CASE BackendExit /\ UNCHANGED <<n, fresh, passed, jobs>>
  BY <1>1, <1>a, <1>14 DEF BackendExit, vars, stageVars, disk, round, history,
     TypeOK, Ledger!LedgerTypeOK, RoundInv, InRound, AgentTurns, PairInForce
<1>15. CASE EndRound
  BY <1>1, <1>a, <1>15 DEF EndRound, saved, replansLeft, vars, stageVars, disk,
     round, history, TypeOK, Ledger!LedgerTypeOK, RoundInv, InRound, AgentTurns,
     PairInForce
<1>16. CASE ReplanFails
  BY <1>1, <1>a, <1>16 DEF ReplanFails, vars, stageVars, disk, round, history,
     TypeOK, Ledger!LedgerTypeOK, RoundInv, InRound, AgentTurns, PairInForce
<1>17. CASE ReplanWritten
  BY <1>1, <1>a, <1>17 DEF ReplanWritten, Ledger!Replan, vars, stageVars, disk,
     round, history, TypeOK, Ledger!LedgerTypeOK, RoundInv, InRound, AgentTurns,
     PairInForce
<1>18. CASE UNCHANGED vars
  BY <1>1, <1>a, <1>18 DEF vars, stageVars, disk, round, history, TypeOK,
     Ledger!LedgerTypeOK, RoundInv, InRound, AgentTurns, PairInForce
<1> QED
  BY <1>2, <1>3, <1>4, <1>5, <1>6, <1>7, <1>8, <1>9, <1>10, <1>11, <1>12, <1>13,
     <1>14, <1>15, <1>16, <1>17, <1>18 DEF Next, Stage3Step, StageThree

\* No attempt takes more turns than it may.
LEMMA StepTurns == ASSUME ReplanInv, [Next]_vars PROVE TurnsInv'
<1>1. TypeOK /\ RoundInv /\ TurnsInv
  BY DEF ReplanInv
<1>a. /\ attempt > 0 => attempt \in 1..Attempts
      /\ PlanRepairTurns \in Nat /\ PerAttempt \in Nat /\ PerAttempt >= 2
      /\ PlanRepairTurns + 1 <= PerAttempt
      /\ turns \in Nat /\ turns <= TurnLimit /\ reviews \in Nat
  BY <1>1, IntegrationAssumption, PerAttemptType DEF TypeOK, TurnsInv, TurnsAreBounded
<1>b. attempt > 0 => /\ TurnsBefore(attempt) \in Nat
                     /\ TurnsBefore(attempt) + PerAttempt <= TurnLimit
  BY <1>a, TurnsGrow
<1>c. TurnLimit \in Nat /\ 1 <= TurnLimit /\ TurnsBefore(1) = 1
  <2>1. 1 \in 1..Attempts
    BY IntegrationAssumption
  <2>2. PerAttempt \in Nat /\ TurnsBefore(1) \in Nat /\ TurnsBefore(1) + PerAttempt <= TurnLimit /\ TurnLimit \in Nat
    BY <2>1, TurnsGrow, PerAttemptType
  <2>3. TurnsBefore(1) = 1
    BY <2>2 DEF TurnsBefore
  <2> QED BY <2>2, <2>3
<1>d. Worked => turns' = turns + 1
  BY <1>1, <1>a, <1>c, WorkedCounts
<1>2. CASE JobPlans
  BY <1>1, <1>a, <1>c, <1>2 DEF JobPlans, FirstRound, Ledger!Replan, vars, stageVars,
     disk, round, history, TurnsInv, TurnsAreBounded, RoundInv, InRound, AgentTurns
<1>3. CASE JobLoads
  BY <1>1, <1>a, <1>c, <1>3 DEF JobLoads, FirstRound, PairInForce, vars, stageVars,
     disk, round, history, TurnsInv, TurnsAreBounded, RoundInv, InRound, AgentTurns
<1>4. CASE StartRound
  BY <1>1, <1>a, <1>c, <1>4 DEF StartRound, vars, stageVars, disk, round, history,
     TurnsInv, TurnsAreBounded, RoundInv, InRound, AgentTurns
<1>5. CASE SetupRefused
  BY <1>1, <1>a, <1>c, <1>5 DEF SetupRefused, vars, stageVars, disk, round, history,
     TurnsInv, TurnsAreBounded, RoundInv, InRound, AgentTurns
<1>6. CASE FirstTurn /\ UNCHANGED <<n, fresh, passed, jobs>>
  <2>1. turns = 0 /\ turns' = 1 /\ attempt' = 1 /\ pc' = "gate"
    BY <1>1, <1>d, <1>6 DEF FirstTurn, TurnsInv
  <2> QED BY <1>c, <2>1 DEF TurnsInv, TurnsAreBounded
<1>7. CASE Gate /\ UNCHANGED <<n, fresh, passed, jobs>>
  <2>1. pc = "gate" /\ pc' \in {"round_end", "debug_turn"} /\ turns' = turns /\ attempt' = attempt
    BY <1>7 DEF Gate, round
  <2> QED BY <1>1, <1>a, <2>1 DEF TurnsInv, TurnsAreBounded
<1>8. CASE DebugTurn /\ UNCHANGED <<n, fresh, passed, jobs>>
  <2>1. /\ pc = "debug_turn" /\ Worked /\ attempt > 0
    BY <1>1, <1>8 DEF DebugTurn, TurnTaken, RoundInv, InRound, AgentTurns
  <2>2. turns' = turns + 1 /\ turns + 1 <= TurnsBefore(attempt) + 1 /\ reviews' = 0
        /\ turns + 1 <= TurnLimit
    <3>1. turns' = turns + 1 /\ reviews' = 0 /\ turns <= TurnsBefore(attempt)
      BY <1>1, <1>d, <2>1, <1>8 DEF DebugTurn, TurnsInv
    <3>2. /\ TurnsBefore(attempt) \in Nat /\ TurnLimit \in Nat
          /\ TurnsBefore(attempt) + PerAttempt <= TurnLimit
      BY <1>b, <1>c, <2>1
    <3> QED BY <1>a, <3>1, <3>2
  <2>3. CASE NextAttempt
    BY <1>1, <1>a, <1>b, <2>1, <2>2, <2>3, NextAttemptTurns DEF TurnsInv, TurnsAreBounded
  <2>4. CASE attempt' = attempt /\ pc' \in {"round_end", "budget_turn", "review"}
    BY <1>a, <1>b, <1>c, <2>1, <2>2, <2>4 DEF TurnsInv, TurnsAreBounded
  <2> QED BY <2>3, <2>4, <1>8 DEF DebugTurn, Escalated
<1>9. CASE BudgetTurn /\ UNCHANGED <<n, fresh, passed, jobs>>
  <2>1. /\ pc = "budget_turn" /\ Worked /\ attempt > 0
    BY <1>1, <1>9 DEF BudgetTurn, TurnTaken, RoundInv, InRound, AgentTurns
  <2>2. turns' = turns + 1 /\ turns + 1 <= TurnsBefore(attempt) + PerAttempt /\ NextAttempt
    BY <1>1, <1>a, <1>b, <1>d, <2>1, <1>9 DEF BudgetTurn, TurnsInv
  <2> QED BY <1>1, <1>a, <1>b, <2>1, <2>2, NextAttemptTurns DEF TurnsInv, TurnsAreBounded
<1>10. CASE ReviewAccepts /\ UNCHANGED <<n, fresh, passed, jobs>>
  <2>1. /\ pc = "review" /\ attempt > 0 /\ turns' = turns /\ NextAttempt
        /\ turns <= TurnsBefore(attempt) + 1 + reviews /\ reviews <= PlanRepairTurns
    BY <1>1, <1>10 DEF ReviewAccepts, history, TurnsInv, RoundInv, InRound
  <2>2. turns <= TurnsBefore(attempt) + PerAttempt
    BY <1>a, <1>b, <2>1
  <2> QED BY <1>1, <1>a, <2>1, <2>2, NextAttemptTurns DEF TurnsInv, TurnsAreBounded
<1>11. CASE ReviewRefuses /\ UNCHANGED <<n, fresh, passed, jobs>>
  <2>1. /\ pc = "review" /\ attempt > 0 /\ turns' = turns /\ reviews' = reviews
        /\ turns <= TurnsBefore(attempt) + 1 + reviews /\ reviews <= PlanRepairTurns
    BY <1>1, <1>11 DEF ReviewRefuses, history, TurnsInv, RoundInv, InRound
  <2>2. turns <= TurnsBefore(attempt) + PerAttempt
    BY <1>a, <1>b, <2>1
  <2>3. CASE NextAttempt
    BY <1>1, <1>a, <2>1, <2>2, <2>3, NextAttemptTurns DEF TurnsInv, TurnsAreBounded
  <2>4. CASE pc' = "repair_turn" /\ attempt' = attempt
    BY <1>a, <2>1, <2>4 DEF TurnsInv, TurnsAreBounded
  <2> QED BY <2>3, <2>4, <1>11 DEF ReviewRefuses
<1>12. CASE RepairTurn /\ UNCHANGED <<n, fresh, passed, jobs>>
  <2>1. /\ pc = "repair_turn" /\ Worked /\ attempt > 0
    BY <1>1, <1>12 DEF RepairTurn, TurnTaken, RoundInv, InRound, AgentTurns
  <2>2. /\ turns' = turns + 1 /\ reviews' = reviews + 1 /\ reviews < PlanRepairTurns
        /\ turns + 1 <= TurnsBefore(attempt) + 1 + (reviews + 1)
    BY <1>1, <1>a, <1>b, <1>d, <2>1, <1>12 DEF RepairTurn, TurnsInv, RoundInv
  <2>3. turns + 1 <= TurnsBefore(attempt) + PerAttempt /\ turns + 1 <= TurnLimit
    BY <1>a, <1>b, <1>c, <2>1, <2>2
  <2>4. CASE NextAttempt
    BY <1>1, <1>a, <2>1, <2>2, <2>3, <2>4, NextAttemptTurns DEF TurnsInv, TurnsAreBounded
  <2>5. CASE attempt' = attempt /\ pc' \in {"round_end", "review"}
    BY <1>a, <1>b, <1>c, <2>1, <2>2, <2>3, <2>5 DEF TurnsInv, TurnsAreBounded
  <2> QED BY <2>4, <2>5, <1>12 DEF RepairTurn, Escalated
<1>13. CASE BackendError /\ UNCHANGED <<n, fresh, passed, jobs>>
  BY <1>1, <1>a, <1>c, <1>13 DEF BackendError, vars, stageVars, disk, round, history,
     TurnsInv, TurnsAreBounded, RoundInv, InRound, AgentTurns
<1>14. CASE BackendExit /\ UNCHANGED <<n, fresh, passed, jobs>>
  BY <1>1, <1>a, <1>c, <1>14 DEF BackendExit, vars, stageVars, disk, round, history,
     TurnsInv, TurnsAreBounded, RoundInv, InRound, AgentTurns
<1>15. CASE EndRound
  BY <1>1, <1>a, <1>c, <1>15 DEF EndRound, saved, replansLeft, vars, stageVars, disk,
     round, history, TurnsInv, TurnsAreBounded, RoundInv, InRound, AgentTurns
<1>16. CASE ReplanFails
  BY <1>1, <1>a, <1>c, <1>16 DEF ReplanFails, vars, stageVars, disk, round, history,
     TurnsInv, TurnsAreBounded, RoundInv, InRound, AgentTurns
<1>17. CASE ReplanWritten
  BY <1>1, <1>a, <1>c, <1>17 DEF ReplanWritten, Ledger!Replan, vars, stageVars, disk,
     round, history, TurnsInv, TurnsAreBounded, RoundInv, InRound, AgentTurns
<1>18. CASE UNCHANGED vars
  BY <1>1, <1>a, <1>c, <1>18 DEF vars, stageVars, disk, round, history, TurnsInv,
     TurnsAreBounded, RoundInv, InRound, AgentTurns
<1> QED
  BY <1>2, <1>3, <1>4, <1>5, <1>6, <1>7, <1>8, <1>9, <1>10, <1>11, <1>12, <1>13,
     <1>14, <1>15, <1>16, <1>17, <1>18 DEF Next, Stage3Step, StageThree

\* A pass stands until the agent, or stage 2, works again.
LEMMA StepPromoted == ASSUME ReplanInv, [Next]_vars PROVE PromotedAsJudged'
<1>1. RoundInv /\ PromotedAsJudged
  BY DEF ReplanInv
<1>2. CASE JobPlans
  BY <1>1, <1>2 DEF JobPlans, FirstRound, Ledger!Replan, vars, stageVars, disk,
     round, history, PromotedAsJudged, PairInForce, RoundInv, InRound, AgentTurns
<1>3. CASE JobLoads
  BY <1>1, <1>3 DEF JobLoads, FirstRound, PairInForce, vars, stageVars, disk, round,
     history, PromotedAsJudged, RoundInv, InRound, AgentTurns
<1>4. CASE StartRound
  BY <1>1, <1>4 DEF StartRound, vars, stageVars, disk, round, history,
     PromotedAsJudged, PairInForce, RoundInv, InRound, AgentTurns
<1>5. CASE SetupRefused
  BY <1>1, <1>5 DEF SetupRefused, vars, stageVars, disk, round, history,
     PromotedAsJudged, PairInForce, RoundInv, InRound, AgentTurns
<1>6. CASE FirstTurn /\ UNCHANGED <<n, fresh, passed, jobs>>
  BY <1>1, <1>6 DEF FirstTurn, Worked, vars, stageVars, disk, round, history,
     PromotedAsJudged, PairInForce, RoundInv, InRound, AgentTurns
<1>7. CASE Gate /\ UNCHANGED <<n, fresh, passed, jobs>>
  BY <1>1, <1>7 DEF Gate, gatePair, vars, stageVars, disk, round, history,
     PromotedAsJudged, PairInForce, RoundInv, InRound, AgentTurns
<1>8. CASE DebugTurn /\ UNCHANGED <<n, fresh, passed, jobs>>
  BY <1>1, <1>8 DEF DebugTurn, TurnTaken, Worked, Escalated, record_escalation,
     Ledger!Escalate, NextAttempt, heardAs, Replies, vars, stageVars, disk, round,
     history, PromotedAsJudged, PairInForce, RoundInv, InRound, AgentTurns
<1>9. CASE BudgetTurn /\ UNCHANGED <<n, fresh, passed, jobs>>
  BY <1>1, <1>9 DEF BudgetTurn, TurnTaken, Worked, NextAttempt, Replies, vars,
     stageVars, disk, round, history, PromotedAsJudged, PairInForce, RoundInv, InRound,
     AgentTurns
<1>10. CASE ReviewAccepts /\ UNCHANGED <<n, fresh, passed, jobs>>
  BY <1>1, <1>10 DEF ReviewAccepts, Ledger!Revise, NextAttempt, Replies, vars,
     stageVars, disk, round, history, PromotedAsJudged, PairInForce, RoundInv, InRound,
     AgentTurns
<1>11. CASE ReviewRefuses /\ UNCHANGED <<n, fresh, passed, jobs>>
  BY <1>1, <1>11 DEF ReviewRefuses, NextAttempt, repairLeft, vars, stageVars, disk,
     round, history, PromotedAsJudged, PairInForce, RoundInv, InRound, AgentTurns
<1>12. CASE RepairTurn /\ UNCHANGED <<n, fresh, passed, jobs>>
  BY <1>1, <1>12 DEF RepairTurn, TurnTaken, Worked, Escalated, record_escalation,
     Ledger!Escalate, NextAttempt, Replies, vars, stageVars, disk, round, history,
     PromotedAsJudged, PairInForce, RoundInv, InRound, AgentTurns
<1>13. CASE BackendError /\ UNCHANGED <<n, fresh, passed, jobs>>
  BY <1>1, <1>13 DEF BackendError, vars, stageVars, disk, round, history,
     PromotedAsJudged, PairInForce, RoundInv, InRound, AgentTurns
<1>14. CASE BackendExit /\ UNCHANGED <<n, fresh, passed, jobs>>
  BY <1>1, <1>14 DEF BackendExit, vars, stageVars, disk, round, history,
     PromotedAsJudged, PairInForce, RoundInv, InRound, AgentTurns
<1>15. CASE EndRound
  BY <1>1, <1>15 DEF EndRound, saved, replansLeft, vars, stageVars, disk, round,
     history, PromotedAsJudged, PairInForce, RoundInv, InRound, AgentTurns
<1>16. CASE ReplanFails
  BY <1>1, <1>16 DEF ReplanFails, vars, stageVars, disk, round, history,
     PromotedAsJudged, PairInForce, RoundInv, InRound, AgentTurns
<1>17. CASE ReplanWritten
  BY <1>1, <1>17 DEF ReplanWritten, Ledger!Replan, vars, stageVars, disk, round,
     history, PromotedAsJudged, PairInForce, RoundInv, InRound, AgentTurns
<1>18. CASE UNCHANGED vars
  BY <1>1, <1>18 DEF vars, stageVars, disk, round, history, PromotedAsJudged,
     PairInForce, RoundInv, InRound, AgentTurns
<1> QED
  BY <1>2, <1>3, <1>4, <1>5, <1>6, <1>7, <1>8, <1>9, <1>10, <1>11, <1>12, <1>13,
     <1>14, <1>15, <1>16, <1>17, <1>18 DEF Next, Stage3Step, StageThree

\* What a round escalates stays open until a plan answers it.
LEMMA StepStopped == ASSUME ReplanInv, [Next]_vars PROVE StoppedForStageTwo'
<1>1. RoundInv /\ StoppedForStageTwo
  BY DEF ReplanInv
<1>2. CASE JobPlans
  BY <1>1, <1>2 DEF JobPlans, FirstRound, Ledger!Replan, vars, stageVars, disk,
     round, history, StoppedForStageTwo, RoundInv, InRound, AgentTurns
<1>3. CASE JobLoads
  BY <1>1, <1>3 DEF JobLoads, FirstRound, PairInForce, vars, stageVars, disk, round,
     history, StoppedForStageTwo, RoundInv, InRound, AgentTurns
<1>4. CASE StartRound
  BY <1>1, <1>4 DEF StartRound, vars, stageVars, disk, round, history,
     StoppedForStageTwo, RoundInv, InRound, AgentTurns
<1>5. CASE SetupRefused
  BY <1>1, <1>5 DEF SetupRefused, vars, stageVars, disk, round, history,
     StoppedForStageTwo, RoundInv, InRound, AgentTurns
<1>6. CASE FirstTurn /\ UNCHANGED <<n, fresh, passed, jobs>>
  BY <1>1, <1>6 DEF FirstTurn, Worked, vars, stageVars, disk, round, history,
     StoppedForStageTwo, RoundInv, InRound, AgentTurns
<1>7. CASE Gate /\ UNCHANGED <<n, fresh, passed, jobs>>
  BY <1>1, <1>7 DEF Gate, gatePair, vars, stageVars, disk, round, history,
     StoppedForStageTwo, RoundInv, InRound, AgentTurns
<1>8. CASE DebugTurn /\ UNCHANGED <<n, fresh, passed, jobs>>
  BY <1>1, <1>8 DEF DebugTurn, TurnTaken, Worked, Escalated, record_escalation,
     Ledger!Escalate, NextAttempt, heardAs, Replies, vars, stageVars, disk, round,
     history, StoppedForStageTwo, RoundInv, InRound, AgentTurns
<1>9. CASE BudgetTurn /\ UNCHANGED <<n, fresh, passed, jobs>>
  BY <1>1, <1>9 DEF BudgetTurn, TurnTaken, Worked, NextAttempt, Replies, vars,
     stageVars, disk, round, history, StoppedForStageTwo, RoundInv, InRound, AgentTurns
<1>10. CASE ReviewAccepts /\ UNCHANGED <<n, fresh, passed, jobs>>
  BY <1>1, <1>10 DEF ReviewAccepts, Ledger!Revise, NextAttempt, Replies, vars,
     stageVars, disk, round, history, StoppedForStageTwo, RoundInv, InRound, AgentTurns
<1>11. CASE ReviewRefuses /\ UNCHANGED <<n, fresh, passed, jobs>>
  BY <1>1, <1>11 DEF ReviewRefuses, NextAttempt, repairLeft, vars, stageVars, disk,
     round, history, StoppedForStageTwo, RoundInv, InRound, AgentTurns
<1>12. CASE RepairTurn /\ UNCHANGED <<n, fresh, passed, jobs>>
  BY <1>1, <1>12 DEF RepairTurn, TurnTaken, Worked, Escalated, record_escalation,
     Ledger!Escalate, NextAttempt, Replies, vars, stageVars, disk, round, history,
     StoppedForStageTwo, RoundInv, InRound, AgentTurns
<1>13. CASE BackendError /\ UNCHANGED <<n, fresh, passed, jobs>>
  BY <1>1, <1>13 DEF BackendError, vars, stageVars, disk, round, history,
     StoppedForStageTwo, RoundInv, InRound, AgentTurns
<1>14. CASE BackendExit /\ UNCHANGED <<n, fresh, passed, jobs>>
  BY <1>1, <1>14 DEF BackendExit, vars, stageVars, disk, round, history,
     StoppedForStageTwo, RoundInv, InRound, AgentTurns
<1>15. CASE EndRound
  BY <1>1, <1>15 DEF EndRound, saved, replansLeft, vars, stageVars, disk, round,
     history, StoppedForStageTwo, RoundInv, InRound, AgentTurns
<1>16. CASE ReplanFails
  BY <1>1, <1>16 DEF ReplanFails, vars, stageVars, disk, round, history,
     StoppedForStageTwo, RoundInv, InRound, AgentTurns
<1>17. CASE ReplanWritten
  BY <1>1, <1>17 DEF ReplanWritten, Ledger!Replan, vars, stageVars, disk, round,
     history, StoppedForStageTwo, RoundInv, InRound, AgentTurns
<1>18. CASE UNCHANGED vars
  BY <1>1, <1>18 DEF vars, stageVars, disk, round, history, StoppedForStageTwo,
     RoundInv, InRound, AgentTurns
<1> QED
  BY <1>2, <1>3, <1>4, <1>5, <1>6, <1>7, <1>8, <1>9, <1>10, <1>11, <1>12, <1>13,
     <1>14, <1>15, <1>16, <1>17, <1>18 DEF Next, Stage3Step, StageThree

\* A job ends after its diff was saved, or dies.
LEMMA StepSaved == ASSUME ReplanInv, [Next]_vars PROVE FinishedJobSavedItsPort'
<1>1. RoundInv /\ FinishedJobSavedItsPort
  BY DEF ReplanInv
<1>2. CASE JobPlans
  BY <1>1, <1>2 DEF JobPlans, FirstRound, Ledger!Replan, vars, stageVars, disk,
     round, history, FinishedJobSavedItsPort, RoundInv, InRound, AgentTurns
<1>3. CASE JobLoads
  BY <1>1, <1>3 DEF JobLoads, FirstRound, PairInForce, vars, stageVars, disk, round,
     history, FinishedJobSavedItsPort, RoundInv, InRound, AgentTurns
<1>4. CASE StartRound
  BY <1>1, <1>4 DEF StartRound, vars, stageVars, disk, round, history,
     FinishedJobSavedItsPort, RoundInv, InRound, AgentTurns
<1>5. CASE SetupRefused
  BY <1>1, <1>5 DEF SetupRefused, vars, stageVars, disk, round, history,
     FinishedJobSavedItsPort, RoundInv, InRound, AgentTurns
<1>6. CASE FirstTurn /\ UNCHANGED <<n, fresh, passed, jobs>>
  BY <1>1, <1>6 DEF FirstTurn, Worked, vars, stageVars, disk, round, history,
     FinishedJobSavedItsPort, RoundInv, InRound, AgentTurns
<1>7. CASE Gate /\ UNCHANGED <<n, fresh, passed, jobs>>
  BY <1>1, <1>7 DEF Gate, gatePair, vars, stageVars, disk, round, history,
     FinishedJobSavedItsPort, RoundInv, InRound, AgentTurns
<1>8. CASE DebugTurn /\ UNCHANGED <<n, fresh, passed, jobs>>
  BY <1>1, <1>8 DEF DebugTurn, TurnTaken, Worked, Escalated, record_escalation,
     Ledger!Escalate, NextAttempt, heardAs, Replies, vars, stageVars, disk, round,
     history, FinishedJobSavedItsPort, RoundInv, InRound, AgentTurns
<1>9. CASE BudgetTurn /\ UNCHANGED <<n, fresh, passed, jobs>>
  BY <1>1, <1>9 DEF BudgetTurn, TurnTaken, Worked, NextAttempt, Replies, vars,
     stageVars, disk, round, history, FinishedJobSavedItsPort, RoundInv, InRound,
     AgentTurns
<1>10. CASE ReviewAccepts /\ UNCHANGED <<n, fresh, passed, jobs>>
  BY <1>1, <1>10 DEF ReviewAccepts, Ledger!Revise, NextAttempt, Replies, vars,
     stageVars, disk, round, history, FinishedJobSavedItsPort, RoundInv, InRound,
     AgentTurns
<1>11. CASE ReviewRefuses /\ UNCHANGED <<n, fresh, passed, jobs>>
  BY <1>1, <1>11 DEF ReviewRefuses, NextAttempt, repairLeft, vars, stageVars, disk,
     round, history, FinishedJobSavedItsPort, RoundInv, InRound, AgentTurns
<1>12. CASE RepairTurn /\ UNCHANGED <<n, fresh, passed, jobs>>
  BY <1>1, <1>12 DEF RepairTurn, TurnTaken, Worked, Escalated, record_escalation,
     Ledger!Escalate, NextAttempt, Replies, vars, stageVars, disk, round, history,
     FinishedJobSavedItsPort, RoundInv, InRound, AgentTurns
<1>13. CASE BackendError /\ UNCHANGED <<n, fresh, passed, jobs>>
  BY <1>1, <1>13 DEF BackendError, vars, stageVars, disk, round, history,
     FinishedJobSavedItsPort, RoundInv, InRound, AgentTurns
<1>14. CASE BackendExit /\ UNCHANGED <<n, fresh, passed, jobs>>
  BY <1>1, <1>14 DEF BackendExit, vars, stageVars, disk, round, history,
     FinishedJobSavedItsPort, RoundInv, InRound, AgentTurns
<1>15. CASE EndRound
  BY <1>1, <1>15 DEF EndRound, saved, replansLeft, vars, stageVars, disk, round,
     history, FinishedJobSavedItsPort, RoundInv, InRound, AgentTurns
<1>16. CASE ReplanFails
  BY <1>1, <1>16 DEF ReplanFails, vars, stageVars, disk, round, history,
     FinishedJobSavedItsPort, RoundInv, InRound, AgentTurns
<1>17. CASE ReplanWritten
  BY <1>1, <1>17 DEF ReplanWritten, Ledger!Replan, vars, stageVars, disk, round,
     history, FinishedJobSavedItsPort, RoundInv, InRound, AgentTurns
<1>18. CASE UNCHANGED vars
  BY <1>1, <1>18 DEF vars, stageVars, disk, round, history, FinishedJobSavedItsPort,
     RoundInv, InRound, AgentTurns
<1> QED
  BY <1>2, <1>3, <1>4, <1>5, <1>6, <1>7, <1>8, <1>9, <1>10, <1>11, <1>12, <1>13,
     <1>14, <1>15, <1>16, <1>17, <1>18 DEF Next, Stage3Step, StageThree

LEMMA InitReplan == ASSUME Init PROVE ReplanInv
<1>1. /\ gen = 0 /\ rev = 0 /\ open = {} /\ design = "clean" /\ tree = "clean" /\ pc = "idle"
      /\ plan = NoPlan /\ passed = NoPlan /\ judged = NoPlan
      /\ attempt = 0 /\ reviews = 0 /\ startedAt = 0 /\ n = 0 /\ reply \in Replies
      /\ status = "none" /\ turns = 0 /\ touched = FALSE /\ unsaved = FALSE
      /\ unheard = FALSE /\ fresh = TRUE /\ jobs = 0
  BY DEF Init, Ledger!LedgerInit
<1>2. NoPlan \in Plans
  BY DEF NoPlan, Plans
<1>3. TypeOK
  <2>1. 0 \in 0..Attempts /\ 0 \in 0..PlanRevisions /\ 0 \in 0..Replans /\ 0 \in 0..MaxJobs
    BY IntegrationAssumption, ReplanAssumption
  <2>2. Ledger!LedgerTypeOK
    BY <1>1, <2>1 DEF Ledger!LedgerTypeOK
  <2> QED BY <1>1, <1>2, <2>1, <2>2 DEF TypeOK
<1>4. RoundInv
  BY <1>1 DEF RoundInv, InRound, AgentTurns
<1>5. TurnsInv
  <2>1. TurnLimit \in Nat
    <3>1. 1 \in 1..Attempts
      BY IntegrationAssumption
    <3> QED BY <3>1, TurnsGrow
  <2> QED BY <1>1, <2>1 DEF TurnsInv, TurnsAreBounded
<1> QED BY <1>1, <1>3, <1>4, <1>5
        DEF ReplanInv, PromotedAsJudged, StoppedForStageTwo, FinishedJobSavedItsPort

LEMMA StepReplan == ASSUME ReplanInv, [Next]_vars PROVE ReplanInv'
BY StepType, StepRound, StepTurns, StepPromoted, StepStopped, StepSaved DEF ReplanInv

LEMMA Invariant == Spec => []ReplanInv
<1>1. Init => ReplanInv
  BY InitReplan
<1>2. ReplanInv /\ [Next]_vars => ReplanInv'
  BY StepReplan
<1> QED BY <1>1, <1>2, PTL DEF Spec

-----------------------------------------------------------------------------
(* Counting steps *)

\* The most steps of an attempt: a gate run, a debug turn, a review before every
\* repair turn and one after the last.
AttemptSteps == 3 + 2 * PlanRepairTurns

\* The most steps of a round: its start, the first turn, the attempts, its end,
\* and the stage 2 that may follow.
RoundSteps == 4 + Attempts * AttemptSteps

\* What the attempts after `a` and the re-plans after the m-th may take.
StepsAfter(a) == (Attempts - a) * AttemptSteps
StepsBeyond(m) == (Replans - m) * RoundSteps

\* The most steps an attempt still has.
AttemptStepsLeft ==
  CASE pc = "gate"        -> AttemptSteps
    [] pc = "debug_turn"  -> AttemptSteps - 1
    [] pc = "review"      -> 2 * (PlanRepairTurns - reviews) + 1
    [] pc = "repair_turn" -> 2 * (PlanRepairTurns - reviews)
    [] pc = "budget_turn" -> 1

\* The most steps a round still has.
RoundStepsLeft ==
  CASE pc = "start_round" -> RoundSteps
    [] pc = "first_turn"  -> RoundSteps - 1
    [] pc = "round_end"   -> 2
    [] pc = "planning"    -> 1
    [] OTHER              -> 2 + StepsAfter(attempt) + AttemptStepsLeft

\* The most steps the job still has.
StepsLeft == IF pc = "idle" THEN 0 ELSE StepsBeyond(n) + RoundStepsLeft

\* Whatever the agent, the gate and stage 2 answer, every step of a job uses up
\* one of a number that was fixed when it started.
JobsAreBounded == [][pc # "idle" => StepsLeft' < StepsLeft]_vars

\* The arithmetic of attempts.
LEMMA AttemptsCount ==
  /\ AttemptSteps \in Nat /\ AttemptSteps = 3 + 2 * PlanRepairTurns
  /\ RoundSteps \in Nat /\ RoundSteps >= 4
  /\ \A a \in 1..Attempts :
        /\ StepsAfter(a) \in Nat
        /\ a < Attempts => StepsAfter(a) = StepsAfter(a + 1) + AttemptSteps
        /\ StepsAfter(a) + AttemptSteps + 4 <= RoundSteps
  /\ RoundSteps = StepsAfter(1) + AttemptSteps + 4
<1> DEFINE k == AttemptSteps
<1>1. k \in Nat /\ k = 3 + 2 * PlanRepairTurns /\ Attempts \in Nat /\ 1 <= Attempts
  BY IntegrationAssumption DEF AttemptSteps
<1>2. RoundSteps = 4 + Attempts * k
  BY DEF RoundSteps
<1> HIDE DEF k
<1>3. RoundSteps \in Nat /\ RoundSteps >= 4
  <2>1. Attempts * k \in Nat
    BY <1>1
  <2> QED BY <1>2, <2>1
<1>4. ASSUME NEW a \in 1..Attempts
      PROVE  /\ (Attempts - a) * k \in Nat
             /\ (Attempts - a) * k = (Attempts - (a + 1)) * k + k
             /\ (Attempts - a) * k + k <= Attempts * k
             /\ a = 1 => (Attempts - a) * k + k = Attempts * k
  <2>1. (Attempts - a) * k \in Nat /\ (a - 1) * k \in Nat
    BY <1>1
  <2>2. (Attempts - a) * k = (Attempts - (a + 1)) * k + k
    BY <1>1
  <2>3. (Attempts - a) * k + k + (a - 1) * k = Attempts * k
    BY <1>1
  <2>4. a = 1 => (Attempts - a) * k + k = Attempts * k
    BY <1>1
  <2> QED BY <1>1, <2>1, <2>2, <2>3, <2>4
<1> QED BY <1>1, <1>2, <1>3, <1>4 DEF StepsAfter, k

\* The arithmetic of re-plans.
LEMMA ReplansCount ==
  ASSUME NEW m \in 0..Replans
  PROVE  /\ StepsBeyond(m) \in Nat
         /\ m < Replans => StepsBeyond(m) = StepsBeyond(m + 1) + RoundSteps
<1> DEFINE k == RoundSteps
<1>1. k \in Nat /\ Replans \in Nat
  BY AttemptsCount, ReplanAssumption
<1> HIDE DEF k
<1>2. (Replans - m) * k \in Nat /\ (Replans - m) * k = (Replans - (m + 1)) * k + k
  BY <1>1
<1> QED BY <1>2 DEF StepsBeyond, k

\* Going round the loop costs what the attempts after this one may take.
LEMMA NextAttemptSteps ==
  ASSUME attempt \in 1..Attempts, NextAttempt
  PROVE  /\ pc' # "idle"
         /\ RoundStepsLeft' \in Nat /\ RoundStepsLeft' <= 2 + StepsAfter(attempt)
<1>1. attempt \in Nat /\ StepsAfter(attempt) \in Nat /\ AttemptSteps \in Nat
  BY AttemptsCount, IntegrationAssumption
<1>2. CASE attempt < Attempts /\ attempt' = attempt + 1 /\ pc' = "gate"
  <2>1. RoundStepsLeft' = 2 + StepsAfter(attempt + 1) + AttemptSteps
    BY <1>2 DEF RoundStepsLeft, AttemptStepsLeft, StepsAfter
  <2>2. attempt + 1 \in 1..Attempts
    BY <1>1, <1>2, IntegrationAssumption
  <2>3. StepsAfter(attempt) = StepsAfter(attempt + 1) + AttemptSteps /\ StepsAfter(attempt + 1) \in Nat
    BY <1>2, <2>2, AttemptsCount
  <2> QED BY <1>1, <1>2, <2>1, <2>3
<1>3. CASE pc' = "round_end"
  BY <1>1, <1>3 DEF RoundStepsLeft
<1> QED BY <1>2, <1>3 DEF NextAttempt

InAttempt == {"gate", "debug_turn", "review", "repair_turn", "budget_turn"}

\* What an attempt that goes on has left.
LEMMA AttemptHasLeft ==
  ASSUME ReplanInv, pc \in InAttempt
  PROVE  /\ attempt \in 1..Attempts /\ StepsAfter(attempt) \in Nat
         /\ AttemptStepsLeft \in Nat /\ AttemptStepsLeft > 0
         /\ RoundStepsLeft = 2 + StepsAfter(attempt) + AttemptStepsLeft
<1>1. TypeOK /\ RoundInv
  BY DEF ReplanInv
<1>2. PlanRepairTurns \in Nat /\ attempt \in 0..Attempts /\ reviews \in Nat /\ Attempts \in Nat
  BY <1>1, IntegrationAssumption DEF TypeOK
<1>3. attempt \in 1..Attempts
  BY <1>1, <1>2 DEF RoundInv, InRound, AgentTurns, InAttempt
<1>4. StepsAfter(attempt) \in Nat
  BY <1>3, AttemptsCount
<1>5. AttemptStepsLeft \in Nat /\ AttemptStepsLeft > 0
  BY <1>1, <1>2, AttemptsCount DEF AttemptStepsLeft, RoundInv, InAttempt
<1>6. RoundStepsLeft = 2 + StepsAfter(attempt) + AttemptStepsLeft
  BY DEF RoundStepsLeft, InAttempt
<1> QED BY <1>3, <1>4, <1>5, <1>6

\* A round always has steps left.
LEMMA RoundHasLeft ==
  ReplanInv => (pc # "idle" => RoundStepsLeft \in Nat /\ RoundStepsLeft > 0)
<1> SUFFICES ASSUME ReplanInv, pc # "idle"
             PROVE  RoundStepsLeft \in Nat /\ RoundStepsLeft > 0
  OBVIOUS
<1>1. CASE pc \in {"start_round", "first_turn", "round_end", "planning"}
  BY <1>1, AttemptsCount DEF RoundStepsLeft
<1>2. CASE pc \in InAttempt
  BY <1>2, AttemptHasLeft
<1> QED BY <1>1, <1>2 DEF ReplanInv, TypeOK, AgentTurns, InAttempt

\* So has a job.
LEMMA JobHasLeft == ReplanInv => StepsLeft \in Nat
<1> SUFFICES ASSUME ReplanInv PROVE StepsLeft \in Nat
  OBVIOUS
<1>1. StepsBeyond(n) \in Nat
  BY ReplansCount DEF ReplanInv, TypeOK
<1> QED BY <1>1, RoundHasLeft DEF StepsLeft

\* Going on inside an attempt, round the loop, or out of it.
LEMMA AttemptSpends ==
  ASSUME ReplanInv, pc \in InAttempt,
         \/ pc' = "round_end"
         \/ NextAttempt
         \/ pc' \in InAttempt /\ attempt' = attempt /\ AttemptStepsLeft' < AttemptStepsLeft
            /\ AttemptStepsLeft' \in Nat
  PROVE  RoundStepsLeft' < RoundStepsLeft
<1>1. /\ attempt \in 1..Attempts /\ StepsAfter(attempt) \in Nat
      /\ AttemptStepsLeft \in Nat /\ AttemptStepsLeft > 0
      /\ RoundStepsLeft = 2 + StepsAfter(attempt) + AttemptStepsLeft
  BY AttemptHasLeft
<1>2. CASE pc' = "round_end"
  BY <1>1, <1>2 DEF RoundStepsLeft
<1>3. CASE NextAttempt
  BY <1>1, <1>3, NextAttemptSteps
<1>4. CASE pc' \in InAttempt /\ attempt' = attempt /\ AttemptStepsLeft' < AttemptStepsLeft
           /\ AttemptStepsLeft' \in Nat
  <2>1. RoundStepsLeft' = 2 + StepsAfter(attempt) + AttemptStepsLeft'
    BY <1>4 DEF RoundStepsLeft, StepsAfter, InAttempt
  <2> QED BY <1>1, <1>4, <2>1
<1> QED BY <1>2, <1>3, <1>4

\* Every step of a round leaves it fewer.
LEMMA StageSpends ==
  ASSUME ReplanInv, StageThree
  PROVE  pc # "idle" /\ (pc' # "idle" => RoundStepsLeft' < RoundStepsLeft)
<1>1. TypeOK /\ RoundInv
  BY DEF ReplanInv
<1>2. PlanRepairTurns \in Nat /\ reviews \in Nat /\ AttemptSteps = 3 + 2 * PlanRepairTurns
  BY <1>1, AttemptsCount, IntegrationAssumption DEF TypeOK
<1>3. CASE FirstTurn
  <2>1. pc = "first_turn" /\ pc' = "gate" /\ attempt' = 1
    BY <1>3 DEF FirstTurn
  <2>2. RoundStepsLeft' = 2 + StepsAfter(1) + AttemptSteps
    BY <2>1 DEF RoundStepsLeft, AttemptStepsLeft, StepsAfter
  <2>3. StepsAfter(1) \in Nat /\ RoundSteps = StepsAfter(1) + AttemptSteps + 4
    BY AttemptsCount, IntegrationAssumption
  <2> QED BY <1>2, <2>1, <2>2, <2>3 DEF RoundStepsLeft
<1>4. CASE Gate
  <2>1. /\ pc = "gate"
        /\ \/ pc' = "round_end"
           \/ pc' = "debug_turn" /\ attempt' = attempt
    BY <1>4 DEF Gate, round
  <2>2. pc' = "debug_turn" => AttemptStepsLeft' = AttemptSteps - 1 /\ AttemptStepsLeft = AttemptSteps
    BY <2>1 DEF AttemptStepsLeft
  <2> QED BY <1>2, <2>1, <2>2, AttemptSpends DEF InAttempt
<1>5. CASE DebugTurn
  <2>1. /\ pc = "debug_turn" /\ reviews' = 0
        /\ \/ pc' = "round_end"
           \/ NextAttempt
           \/ pc' \in {"budget_turn", "review"} /\ attempt' = attempt
    BY <1>5 DEF DebugTurn, Escalated
  <2>2. AttemptStepsLeft = AttemptSteps - 1
    BY <2>1 DEF AttemptStepsLeft
  <2>3. /\ pc' = "budget_turn" => AttemptStepsLeft' = 1
        /\ pc' = "review" => AttemptStepsLeft' = 2 * (PlanRepairTurns - 0) + 1
    BY <2>1 DEF AttemptStepsLeft
  <2> QED BY <1>2, <2>1, <2>2, <2>3, AttemptSpends DEF InAttempt
<1>6. CASE BudgetTurn
  BY <1>6, AttemptSpends DEF BudgetTurn, InAttempt
<1>7. CASE ReviewAccepts
  BY <1>7, AttemptSpends DEF ReviewAccepts, InAttempt
<1>8. CASE ReviewRefuses
  <2>1. /\ pc = "review" /\ reviews' = reviews /\ reviews <= PlanRepairTurns
        /\ \/ NextAttempt
           \/ pc' = "repair_turn" /\ attempt' = attempt /\ reviews < PlanRepairTurns
    BY <1>1, <1>8 DEF ReviewRefuses, repairLeft, RoundInv
  <2>2. AttemptStepsLeft = 2 * (PlanRepairTurns - reviews) + 1
    BY <2>1 DEF AttemptStepsLeft
  <2>3. pc' = "repair_turn" => AttemptStepsLeft' = 2 * (PlanRepairTurns - reviews)
    BY <2>1 DEF AttemptStepsLeft
  <2> QED BY <1>2, <2>1, <2>2, <2>3, AttemptSpends DEF InAttempt
<1>9. CASE RepairTurn
  <2>1. /\ pc = "repair_turn" /\ reviews' = reviews + 1
        /\ \/ pc' = "round_end"
           \/ NextAttempt
           \/ pc' = "review" /\ attempt' = attempt
    BY <1>9 DEF RepairTurn, Escalated
  <2>2. AttemptStepsLeft = 2 * (PlanRepairTurns - reviews) /\ reviews < PlanRepairTurns
    BY <1>1, <2>1 DEF AttemptStepsLeft, RoundInv
  <2>3. pc' = "review" => AttemptStepsLeft' = 2 * (PlanRepairTurns - (reviews + 1)) + 1
    BY <2>1 DEF AttemptStepsLeft
  <2> QED BY <1>2, <2>1, <2>2, <2>3, AttemptSpends DEF InAttempt
<1>10. CASE BackendError
  <2>1. pc' = "round_end" /\ pc \in InAttempt \cup {"first_turn"}
    BY <1>10 DEF BackendError, AgentTurns, InAttempt
  <2>2. CASE pc = "first_turn"
    <3>1. RoundSteps \in Nat /\ RoundSteps >= 4 /\ RoundStepsLeft = RoundSteps - 1
      BY <2>2, AttemptsCount DEF RoundStepsLeft
    <3> QED BY <2>1, <2>2, <3>1 DEF RoundStepsLeft
  <2> QED BY <2>1, <2>2, AttemptSpends DEF InAttempt
<1>11. CASE BackendExit
  BY <1>11 DEF BackendExit, AgentTurns
<1> QED BY <1>3, <1>4, <1>5, <1>6, <1>7, <1>8, <1>9, <1>10, <1>11 DEF StageThree

\* Every step of a job leaves it fewer.
LEMMA StepSpends ==
  ASSUME ReplanInv, Next, pc # "idle"
  PROVE  StepsLeft' < StepsLeft
<1>1. TypeOK /\ RoundInv
  BY DEF ReplanInv
<1>2. n \in 0..Replans /\ StepsBeyond(n) \in Nat
  BY <1>1, ReplansCount DEF TypeOK
<1>3. /\ RoundStepsLeft \in Nat /\ RoundStepsLeft > 0
      /\ StepsLeft = StepsBeyond(n) + RoundStepsLeft
  BY RoundHasLeft DEF StepsLeft
<1>4. RoundSteps \in Nat /\ Replans \in Nat
  BY AttemptsCount, ReplanAssumption
<1>5. ASSUME n' = n, pc' # "idle" => RoundStepsLeft' < RoundStepsLeft, RoundStepsLeft' \in Nat
      PROVE  StepsLeft' < StepsLeft
  <2>1. CASE pc' = "idle"
    BY <1>2, <1>3, <2>1 DEF StepsLeft
  <2>2. CASE pc' # "idle"
    <3>1. StepsLeft' = StepsBeyond(n) + RoundStepsLeft'
      BY <1>5, <2>2 DEF StepsLeft, StepsBeyond
    <3> QED BY <1>2, <1>3, <1>5, <2>2, <3>1
  <2> QED BY <2>1, <2>2
<1>6. CASE pc' = "idle"
  BY <1>2, <1>3, <1>6 DEF StepsLeft
<1>7. CASE pc' # "idle"
  <2>1. RoundStepsLeft' \in Nat
    <3>1. ReplanInv'
      BY StepReplan
    <3>2. ReplanInv' => (pc # "idle" => RoundStepsLeft \in Nat /\ RoundStepsLeft > 0)'
      BY RoundHasLeft, PTL
    <3> QED BY <1>7, <3>1, <3>2
  <2>2. CASE Stage3Step
    BY <1>5, <2>1, <2>2, StageSpends DEF Stage3Step
  <2>3. CASE StartRound
    <3>1. pc = "start_round" /\ pc' = "first_turn" /\ n' = n
      BY <2>3 DEF StartRound
    <3> QED BY <1>4, <1>5, <2>1, <3>1 DEF RoundStepsLeft
  <2>4. CASE EndRound
    <3>1. pc = "round_end" /\ pc' = "planning" /\ n' = n
      BY <1>7, <2>4 DEF EndRound
    <3> QED BY <1>5, <2>1, <3>1 DEF RoundStepsLeft
  <2>5. CASE ReplanWritten
    <3>1. pc = "planning" /\ pc' = "start_round" /\ n' = n + 1 /\ n < Replans
      BY <1>1, <2>5 DEF ReplanWritten, RoundInv
    <3>2. StepsBeyond(n) = StepsBeyond(n + 1) + RoundSteps /\ StepsBeyond(n + 1) \in Nat
      <4>1. n + 1 \in 0..Replans
        BY <1>2, <1>4, <3>1
      <4> QED BY <1>2, <3>1, <4>1, ReplansCount
    <3>3. StepsLeft = StepsBeyond(n) + 1 /\ StepsLeft' = StepsBeyond(n + 1) + RoundSteps
      BY <1>3, <3>1 DEF StepsLeft, RoundStepsLeft, StepsBeyond
    <3> QED BY <1>4, <3>2, <3>3
  <2>6. ~JobPlans /\ ~JobLoads
    BY DEF JobPlans, JobLoads
  <2>7. ~SetupRefused /\ ~ReplanFails
    BY <1>7 DEF SetupRefused, ReplanFails
  <2> QED BY <2>2, <2>3, <2>4, <2>5, <2>6, <2>7 DEF Next
<1> QED BY <1>6, <1>7

-----------------------------------------------------------------------------
(* Theorems *)

\* Types, for every value of the budgets (Integration, ReplanRounds).
THEOREM Typed == Spec => []TypeOK
<1>1. ReplanInv => TypeOK
  BY DEF ReplanInv
<1> QED BY <1>1, Invariant, PTL

\* A port that is reported as passed was judged by the plan in force (integrate).
THEOREM PromotedWasJudged == Spec => []PromotedAsJudged
<1>1. ReplanInv => PromotedAsJudged
  BY DEF ReplanInv
<1> QED BY <1>1, Invariant, PTL

\* A job that stops for stage 2 leaves it something to answer (record_escalation,
\* integrate_with_replans).
THEOREM StoppedWithReason == Spec => []StoppedForStageTwo
<1>1. ReplanInv => StoppedForStageTwo
  BY DEF ReplanInv
<1> QED BY <1>1, Invariant, PTL

\* A round's cost in turns is bounded, for every budget (integrate,
\* _consider_revision).
THEOREM TurnsBounded == Spec => []TurnsAreBounded
<1>1. ReplanInv => TurnsAreBounded
  BY DEF ReplanInv, TurnsInv
<1> QED BY <1>1, Invariant, PTL

\* A job that ends by itself has pulled the diff back (save_port).
THEOREM FinishedIsSaved == Spec => []FinishedJobSavedItsPort
<1>1. ReplanInv => FinishedJobSavedItsPort
  BY DEF ReplanInv
<1> QED BY <1>1, Invariant, PTL

\* A reply that escalates never revises the plan (_consider_revision).
THEOREM DisclaimedIsNotRevised == Spec => DisclaimedPlanIsNotRevised
<1>1. ReplanInv /\ [Next]_vars => [rev' > rev => ~reply.escalates]_vars
  <2> SUFFICES ASSUME ReplanInv, [Next]_vars, rev' > rev PROVE ~reply.escalates
    OBVIOUS
  <2>1. rev \in Nat /\ ~(rev > rev) /\ ~(0 > rev)
    BY DEF ReplanInv, TypeOK, Ledger!LedgerTypeOK
  <2>2. CASE ReviewAccepts
    BY <2>2 DEF ReviewAccepts, ReplanInv, RoundInv
  <2>3. CASE rev' = rev \/ rev' = 0
    BY <2>1, <2>3
  <2> QED
    BY <2>2, <2>3
    DEF Next, vars, stageVars, disk, JobPlans, JobLoads, Ledger!Replan, StartRound, SetupRefused,
        Stage3Step, StageThree, FirstTurn, Gate, DebugTurn, BudgetTurn, ReviewRefuses, RepairTurn,
        Escalated, record_escalation, Ledger!Escalate, BackendError, BackendExit, EndRound,
        ReplanFails, ReplanWritten
<1> QED BY <1>1, Invariant, PTL DEF Spec, DisclaimedPlanIsNotRevised

\* A job is over after a number of steps that its budgets give, however often the
\* agent proposes, escalates or fails (integrate_with_replans, integrate,
\* _consider_revision): the part of JobsEnd that needs no fairness.
THEOREM JobsSpendTheirBudget == Spec => [](StepsLeft \in Nat) /\ JobsAreBounded
<1>1. ReplanInv => StepsLeft \in Nat
  BY JobHasLeft
<1>2. ReplanInv /\ [Next]_vars => [pc # "idle" => StepsLeft' < StepsLeft]_vars
  BY StepSpends
<1> QED BY <1>1, <1>2, Invariant, PTL DEF Spec, JobsAreBounded
=============================================================================
