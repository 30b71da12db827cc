CONSTANTS
  a = a
  b = b
  c = c
  l = l
  Task = {a, b, c, l}
  Latches = {l}
  Main = Main
  Null = Null
  Lock = Lock
  Denied = Denied
  Threads = 2
  Programs <- Sample
SPECIFICATION FairSpec
INVARIANTS
  MemoryIsSound
  NeverAborts
  WaitsInOnePlace
  CountIsSound
PROPERTIES
  IsTaskGraph
  WaitEnds
CHECK_DEADLOCK FALSE
