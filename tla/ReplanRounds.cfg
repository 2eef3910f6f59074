SPECIFICATION Spec
CONSTANTS
  Attempts = 3
  PlanRevisions = 2
  PlanRepairTurns = 1
  Escalations = {e1, e2}
  Designs = {d1, d2}
  Replans = 1
  MaxJobs = 2
INVARIANTS
  TypeOK
  PromotedAsJudged
  
  TurnsAreBounded
  FinishedJobSavedItsPort
PROPERTIES
  DisclaimedPlanIsNotRevised
  JobsEnd
CHECK_DEADLOCK FALSE
