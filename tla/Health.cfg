SPECIFICATION FairSpec
CONSTANTS
  MaxRestarts = 2
  WaitsForExit = TRUE
  QuickBoot = TRUE
  MayKill = TRUE
  MaySignal = TRUE
  MayStall = TRUE
  RedisMayFail = TRUE
INVARIANTS TypeOK RestartsCapped DoneIsReal OneWorker
PROPERTY OnlyHarmedReplaced
PROPERTY SilenceIsNoticed
