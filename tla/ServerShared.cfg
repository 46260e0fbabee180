SPECIFICATION Spec
CONSTANTS
  temp = temp
  hum = hum
  NoName = NoName
  Names = {temp, hum, NoName}
  Colors = {"color"}
  Vals = {15}
  NotFinite = NotFinite
  MaxSignificand = 100
  PowersOfTen = {1, 10, 100}
  Clock = {1000}
  IoErrors = FALSE
  SizeMod = 64
  VectorMax = 8
  Absent = Absent
  Idle = Idle
  Requests <- SharedVariable
  Conns = {c1, c2}
  SeedName = temp
  SeedColor = "color"
  max_values_ammount = 2
  MaxRequests = 2
  MaxBoots = 1
  MaxStray = 1
SYMMETRY ConnSymmetry
INVARIANTS
  IntegrityHolds
  FramingAligned
  AnsweredInOrder
  SavedAtMostOnce
PROPERTIES
  ImplementsService
\* bounded clients stop sending and a bounded process is not started again
CHECK_DEADLOCK FALSE
