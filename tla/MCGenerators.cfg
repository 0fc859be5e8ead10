SPECIFICATION FairSpec
CONSTANTS
  c1 = c1
  c2 = c2
  Consumers = {c1, c2}
  Depth = 3
  MaxYields = 4
  MaxLoops = 1
  MayReiterate = TRUE
CHECK_DEADLOCK FALSE
INVARIANTS
  NobodyStuck
  SingleRun
  InOrder
  Lazy
  ErrorSurfaces
  InnerReleased
PROPERTIES
  NextReturns
  CloseUnwinds
