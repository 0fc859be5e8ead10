SPECIFICATION FairSpec
CONSTANTS
  c1 = c1
  c2 = c2
  Consumers = {c1}
  Depth = 1
  MaxYields = 2
  MaxLoops = 2
  MayReiterate = TRUE
CHECK_DEADLOCK FALSE
PROPERTIES
  NextAlwaysReturns
