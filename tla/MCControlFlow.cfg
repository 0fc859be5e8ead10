SPECIFICATION Spec
CONSTANTS
  MaxCallDepth = 2
  MaxStack = 3
  MaxDefers = 2
INVARIANTS
  DeferLists
  FinallyOwed
  ReturnStaysHome
