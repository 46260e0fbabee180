SPECIFICATION FairSpec
CONSTANTS
  temp = temp
  hum = hum
  NoName = NoName
  Names = {temp, hum, NoName}
  Colors = {"color"}
  Vals = {15, NotFinite}
  NotFinite = NotFinite
  MaxSignificand = 100
  PowersOfTen = {1, 10, 100}
  Clock = {1000, 2000}
  IoErrors = TRUE
  SizeMod = 64
  VectorMax = 8
  Absent = Absent
  Idle = Idle
  Requests <- KnownKinds
  Conns = {c1, c2}
  SeedName = temp
  SeedColor = "color"
  max_values_ammount = 2
  MaxRequests = 1
  MaxBoots = 2
  MaxStray = 1
INVARIANTS
  ReadsSeeAcknowledged
PROPERTIES
  ImplementsService
  RequestsAnswered
\* bounded clients stop sending and a bounded process is not started again
CHECK_DEADLOCK FALSE
