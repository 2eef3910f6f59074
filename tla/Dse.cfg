SPECIFICATION Spec
CONSTANTS
  Knobs <- MCKnobs
  SpecCosted = {"entries"}
  HostCosted = {"ways"}
  Allowance = 2
  Wirings <- MCWirings
  Proposals <- MCProposals
  Scores = {1, 2}
  TopK = 2
  MaxEvals = 3
  MaxPorts = 2
  MaxJobs = 2
  None = None
INVARIANTS
  TypeOK
  ScoreIsOfItsHeader
  OnlyLiveKnobsAreCredited
  OnlyRepeatsAreSkipped
  FinalistsAreTheBest
  VerdictIsLikeWithLike
CHECK_DEADLOCK FALSE
