CONSTANTS
  MaxThreads = 2
  SpawnBegins = {0, 1}
  CanBind = FALSE
  BindMayFail = FALSE
  SpawnMayFail = FALSE
  Requests <- OneLarge
  CallsDown = {"initialize"}
  CallsAwake = {"sleep", "finalize"}
  CallsAsleep = {"wake"}
  MaxLeaked = 0
SPECIFICATION FairSpec
PROPERTIES
  FinalizeReturns
CHECK_DEADLOCK FALSE
