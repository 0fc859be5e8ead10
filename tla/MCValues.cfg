CONSTANTS
  x = x
  y = y
  z = z
  MaxInt = 15
  MaxLen = 3
  Bounds <- MCBounds
  Steps <- MCSliceSteps
  RangeBounds <- MCRangeBounds
  Strides <- MCSteps
  Omitted = Omitted
  Names = {x, y, z}
  MaxParams = 3
  MaxArgs = 3
SPECIFICATION Spec
INVARIANTS
  NoWrap
  Exact
  PanicsOnOverflow
  SliceIsPythons
  RangeIsPythons
  BindsAsPython
CHECK_DEADLOCK FALSE
