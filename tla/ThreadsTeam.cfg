CONSTANTS
  MaxThreads = 5
  Launches <- Sample
SPECIFICATION FairSpec
INVARIANTS
  ResultsAreExact
  LeagueRunsOnce
  TeamTogether
  RootIsLast
PROPERTIES
  LaunchEnds
CHECK_DEADLOCK FALSE
