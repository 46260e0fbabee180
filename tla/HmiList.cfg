SPECIFICATION Spec
CONSTANTS
  temp = temp
  hum = hum
  hmi = hmi
  Absent = Absent
  Requests <- UserRequests
  Responses <- EveryResponse
  Names = {temp, hum}
  Color = "color"
  Reals <- OneReal
  Rounded <- AsIs
  Times = {}
  SeedName = temp
  Limit = 3
  MayFail = FALSE
  MhSize = 1
  HSize = 1
  StatusSize = 1
  EntrySize = 1
  MaxResponses = 4
  MaxUnsent = 3
  Placeholders = Placeholders
  Garbled = Garbled
  Zoomed = Zoomed
  One = 10000000
  MaxAsks = 2
  MaxRefreshes = 1
  MaxReadings = 0
INVARIANTS
  TypeOK
  ListComplete
  PlaceholdersUntilAddition
PROPERTIES
  ListOnlyGrows
\* a connection that has ended, or a terminated process
CHECK_DEADLOCK FALSE
