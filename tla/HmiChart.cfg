SPECIFICATION FairSpec
CONSTANTS
  temp = temp
  hum = hum
  hmi = hmi
  Absent = Absent
  Requests <- UserRequests
  Responses <- EveryResponse
  Names = {temp}
  Color = "color"
  Reals <- TwoReals
  Rounded <- AsIs
  Times = {1000, 2000}
  SeedName = temp
  Limit = 3
  MayFail = TRUE
  MhSize = 1
  HSize = 1
  StatusSize = 1
  EntrySize = 1
  MaxResponses = 4
  MaxUnsent = 3
  Placeholders = Placeholders
  Garbled = Garbled
  Zoomed = Zoomed
  One = 10000000
  MaxAsks = 1
  MaxRefreshes = 0
  MaxReadings = 2
INVARIANTS
  HistoricOfLastFilledPeriod
  AxesHoldPoints
PROPERTIES
  ClosedForGood
  AsksComeBack
\* a connection that has ended, or a terminated process
CHECK_DEADLOCK FALSE
