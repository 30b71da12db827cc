CONSTANTS
  t1 = t1
  t2 = t2
  a = a
  b = b
  Thread = {t1, t2}
  Record = {a, b}
  Root = Root
  Null = Null
  MaxRefs = 2
  MaxCalls = 1
SPECIFICATION FairSpec
INVARIANTS
  RingIsSafe
PROPERTIES
  IsSharedPointer
  Progress
CHECK_DEADLOCK FALSE
