SPECIFICATION Gem5Spec
CONSTANTS
  Spec <- MCSpec
  Files <- MCFiles
  TraceLists <- MCTraceLists
  Recorded <- MCRecorded
  StageTwoPairs <- MCPairs
  Replies <- MCReplies
  PlanRevisions = 2
  Workloads <- MCWorkloads
  Lists <- MCLists
  Slots = 1
  RunLimit = 1
  MaxEdits = 2
  MaxCommits = 2
  MaxAttempts = 2
  MaxJobs = 2
INVARIANTS
  TypeOK
  StageTwoDemandsKept
  LossIsOnRecord
  BaselineIsOfItsFiles
  ComparedLikeWithLike
  FanOutIsOfThisAttempt
  PassMeetsStageTwosDemands
  OnlyALostNodeStalls
CHECK_DEADLOCK FALSE
