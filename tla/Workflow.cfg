SPECIFICATION FairSpec
CONSTANTS
  Patches = {p1, p2}
  MaxSteps = 2
  MaxCalls = 3
  MaxFixRetries = 2
  NoFixMaxRetries = 1
  MaxRounds = 1
  MaxCrashes = 1
  MaxFaults = 1
  MaxBase = 1
  Confs <- MCConfs
  NoName = NoName
  NoPatch = NoPatch
  NoTree = NoTree
  NoClone = NoClone
  BaseBranch = BaseBranch
CHECK_DEADLOCK FALSE
INVARIANTS PushedWasTested RequestsAreGreen FixedMeansReviewed BudgetHolds RefusedBeforeSpending
PROPERTIES MergedStays BaseMovesByMerge RunEnds
