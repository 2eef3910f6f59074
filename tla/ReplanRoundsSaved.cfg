SPECIFICATION Spec
CONSTANTS
  Attempts = 2
  PlanRevisions = 1
  PlanRepairTurns = 1
  Escalations = {e1, e2}
  Designs = {d1, d2}
  Replans = 1
  MaxJobs = 2
INVARIANT
  PortSavedBeforeJobEnds
CHECK_DEADLOCK FALSE
