SPECIFICATION Spec
CONSTANTS
  SizeMod = 1048576
  VectorMax = 1000000
  MaxLens = {120}
  MaxSize = 1
  ShortSize = 1
  InVals <- MCFourHours
INVARIANT CompressesToMaxLen
CHECK_DEADLOCK FALSE
