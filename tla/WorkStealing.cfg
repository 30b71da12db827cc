CONSTANTS
  MaxThreads = 3
  Policies <- Aligned
  Leftovers = {0, 4}
SPECIFICATION FairSpec
INVARIANTS
  ClaimsAreSound
  NothingLost
PROPERTIES
  RangesShrink
  LoopsEnd
CHECK_DEADLOCK FALSE
