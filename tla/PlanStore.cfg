SPECIFICATION Spec
CONSTANTS
  PlanRevisions = 2
  MaxGen = 3
  MaxSerial = 5
  MaxEscalations = 3
  CrashIn = {"llm", "commit"}
INVARIANTS
  TypeOK
  HeldPairIsWhole
  HeldPairIsNewest
  RetireMovesEveryRevision
  RevisionRecordSurvives
  AnsweredInView
PROPERTIES
  AnswersAreKept
  ImplementsLedger
