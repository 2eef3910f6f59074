CONSTANTS
    None = None
    Algorithms <- MCAlgorithms
    Claims <- MCClaims
    Drafts <- MCDrafts
    MaxRecords = 3
    MaxFailures = 2
    Rounds = 3
    MaxPromoted = 1
    FieldSteps = 2
    FeatureBudget = 2
SPECIFICATION Spec
INVARIANTS TypeOK CompleteIsReviewed
PROPERTIES ChangedOnAuthority CorrectionsLandOrAreAsked
CHECK_DEADLOCK FALSE
