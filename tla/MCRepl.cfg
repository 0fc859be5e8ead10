CONSTANTS
  InputKinds = {"simple", "if", "else", "def"}
  InputIndents = {0, 1}
  MaxInput = 3
SPECIFICATION Spec
INVARIANT BlockWaits
CHECK_DEADLOCK FALSE
