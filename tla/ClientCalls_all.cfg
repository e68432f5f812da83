\* Every call of the client, lists of up to five entries in pages of two.
CONSTANTS
  Calls <- SdkCalls
  PageSize = 2
  MaxEntries = 5
  MaxTries = 3
  Tolerance = 1
  Skews <- BehindOrAhead
  MaxTime = 2
SPECIFICATION EventsSpec
INVARIANTS
  TypeOK
  TokenWhereNeeded
  ReplayOnlyToRepeat
  EachOnceInOrder
  WalkComplete
  UpdateHonoured
  VerifiedIfSigned
  NamesSplit
PROPERTIES
  GarbledIsNoticed
  DocumentedAnswersAreRead
  WalkEnds
CHECK_DEADLOCK FALSE
