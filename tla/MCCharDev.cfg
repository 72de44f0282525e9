SPECIFICATION FairSpec
CONSTANTS
  t1 = t1
  t2 = t2
  Threads <- MCThreads
  Files = {1}
  Values = {0, 1}
  Zero = 0
  Size = 2
INVARIANTS
  PositionsInside
PROPERTIES
  ImplementsAtomicFile
  CallsReturn
