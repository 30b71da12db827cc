CONSTANTS
  MaxThreads = 3
  SpawnBegins = {0, 1}
  CanBind = TRUE
  BindMayFail = TRUE
  SpawnMayFail = TRUE
  Requests <- OneLarge
  CallsDown = {"initialize", "finalize", "for"}
  CallsAwake = {"finalize", "sleep"}
  CallsAsleep = {"wake"}
  MaxLeaked = 1
SPECIFICATION FairSpec
INVARIANTS
  PoolIsComplete
PROPERTIES
  SleepEndsWithWake
CHECK_DEADLOCK FALSE
