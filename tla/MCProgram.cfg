SPECIFICATION FairSpec
CONSTANTS
  main = main
  g1 = g1
  g2 = g2
  n1 = n1
  n2 = n2
  Main = main
  Goroutines = {g1, g2}
  Generators = {n1, n2}
  GeneratorsSpawn = FALSE
CHECK_DEADLOCK FALSE
INVARIANTS
  SomebodyRuns
  Counted
  Joined
PROPERTIES
  AddCovered
  Exits
