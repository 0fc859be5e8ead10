SPECIFICATION Spec
CONSTANTS
  Main = main
  Clones = {c1}
  Depth = 3
  Defining = {1, 2}
  MaxCalls = 3
  MaxDefers = 1
  BuiltinsInClones = FALSE
INVARIANTS
  TopIsOwn
  SuperAscends
