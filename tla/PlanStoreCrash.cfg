SPECIFICATION Spec
CONSTANTS
  PlanRevisions = 2
  MaxGen = 3
  MaxSerial = 4
  MaxEscalations = 1
  CrashIn = {"llm", "commit", "make_plan"}
INVARIANT
  RetireMovesEveryRevision
