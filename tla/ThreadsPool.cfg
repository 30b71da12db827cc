CONSTANTS
  MaxThreads = 4
  SpawnBegins = {0, 1}
  CanBind = FALSE
  BindMayFail = FALSE
  SpawnMayFail = FALSE
  Requests <- Both
  CallsDown = {"initialize", "finalize", "for", "reduce"}
  CallsAwake = {"finalize", "fence", "for", "reduce"}
  CallsAsleep = {}
  MaxLeaked = 0
SPECIFICATION FairSpec
INVARIANTS
  TypeOK
  Inductive
  JoinIsSound
  NoCrash
  AllocationIsSafe
PROPERTIES
  FinalizeReaps
  NoActivationLost
  IsForkJoin
  CallsReturn
  IsFairForkJoin
