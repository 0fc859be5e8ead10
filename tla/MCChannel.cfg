SPECIFICATION FairSpec
CONSTANTS
  g1 = g1
  g2 = g2
  g3 = g3
  v1 = v1
  v2 = v2
  None = None
  Goroutines = {g1, g2, g3}
  Values = {v1, v2}
  Sizes <- MCSizes
  MaxSends = 3
CHECK_DEADLOCK FALSE
INVARIANTS
  TypeOK
  Conservation
  NoDoubleClose
  DrainedBeforeTold
  LateSendRaises
PROPERTIES
  ImplementsQueue
  CloseReleases
  RangeEnds
