SPECIFICATION FairSpec
CONSTANTS
  Absent = Absent
  Requests <- OneRequest
  Responses <- FourResponses
  MhSize = 2
  HSize = 2
  StatusSize = 2
  EntrySize = 1
  MaxResponses = 3
  MaxUnsent = 1
INVARIANTS
  TypeOK
  SignalsFollowResponses
PROPERTIES
  LagNeverShrinks
  WaitEnds
  EachHandled
\* a connection that has ended, or a terminated process
CHECK_DEADLOCK FALSE
