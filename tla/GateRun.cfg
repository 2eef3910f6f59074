SPECIFICATION Spec
CONSTANTS
  TestPlans <- MCTestPlans
  TraceList <- MCTraceList
  MaxAttempts = 2
INVARIANTS
  TypeOK
  EvidenceIsOfItsState
  EvidenceIsOfThisAttempt
  PassIsEvidence
  RefusalHasACause
  CommandsRunOnce
  OneBuildAtRunTime
