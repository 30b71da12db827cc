CONSTANTS
  MaxThreads = 4
  PoolSizes = {1, 2, 4}
  MaxWork = 4
  Launches <- Few
  CreateMayFail = TRUE
SPECIFICATION FairSpec
INVARIANTS
  LaunchIsExact
  QuietWhenReady
PROPERTIES
  IsWorkPool
  Progress
