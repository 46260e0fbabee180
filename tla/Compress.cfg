SPECIFICATION Spec
CONSTANTS
  SizeMod = 1024
  VectorMax = 5
  MaxLens = {1, 2, 3, 4, 5, 6}
  MaxSize = 31
  ShortSize = 7
  InVals <- MCInVals
INVARIANTS
  TypeOK
  Tiled
  ResultLength
  OverrunExactly
  Balanced
  KeepsTimeOrder
\* the call is over once it has returned
CHECK_DEADLOCK FALSE
