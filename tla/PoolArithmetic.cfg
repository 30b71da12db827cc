CONSTANTS
  MaxSize = 130
  MaxParts = 5
  MaxIndex = 14
  ChunkSizes = {1, 2, 4}
SPECIFICATION Spec
INVARIANTS
  FansAreTrees
  RangesAreDivided
CHECK_DEADLOCK FALSE
