CONSTANTS
  MaxThreads = 6
  Launches <- Threes
SPECIFICATION Spec
INVARIANTS
  RootIsLast
CHECK_DEADLOCK FALSE
