SPECIFICATION Spec
CONSTANTS
  temp = temp
  hum = hum
  NoName = NoName
  Names = {temp, NoName}
  Colors = {"color"}
  Vals = {15, NotFinite}
  NotFinite = NotFinite
  MaxSignificand = 100
  PowersOfTen = {1, 10, 100}
  Clock = {1000}
  IoErrors = TRUE
  SizeMod = 64
  VectorMax = 8
  Absent = Absent
  Idle = Idle
  Requests <- AnyMessage
  Conns = {c1, c2}
  SeedName = temp
  SeedColor = "color"
  max_values_ammount = 1
  MaxRequests = 1
  MaxBoots = 3
  MaxStray = 0
SYMMETRY ConnSymmetry
INVARIANTS
  TypeOK
  ServesOnlyNewFile
  KeptWhileConnected
  OthersAnswered
PROPERTIES
  ResetSessionSpins
  ImplementsLog
\* bounded clients stop sending and a bounded process is not started again
CHECK_DEADLOCK FALSE
