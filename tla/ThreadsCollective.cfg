CONSTANTS
  MaxThreads = 6
  Programs <- BySize
SPECIFICATION FairSpec
INVARIANTS
  ResultsAreExact
  LaunchIsWhole
PROPERTIES
  IsRendezvous
  LaunchEnds
CHECK_DEADLOCK FALSE
