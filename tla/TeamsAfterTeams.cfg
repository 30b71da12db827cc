CONSTANTS
  MaxThreads = 3
  Launches <- Stale
SPECIFICATION Spec
INVARIANTS
  LeagueRunsOnce
CHECK_DEADLOCK FALSE
