CONSTANTS
  Families <- MCFamilies
  MaxLines = 5
  Indents = {0, 1, 2}
SPECIFICATION Spec
INVARIANTS
  LayoutNests
  FollowsIndentation
  DecoratorsAttach
CHECK_DEADLOCK FALSE
