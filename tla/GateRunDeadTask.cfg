SPECIFICATION Spec
CONSTANTS
  TestPlans <- MCTestPlans
  TraceList <- MCTraceList
  MaxAttempts = 1
INVARIANT
  DeadTaskIsAFailedTrace
