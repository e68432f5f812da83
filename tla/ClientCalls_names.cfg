\* Subscriptions, one try: the names that events give the tools.
CONSTANTS
  Calls <- SdkCalls
  PageSize = 1
  MaxEntries = 1
  MaxTries = 1
  Tolerance = 0
  Skews = {0}
  MaxTime = 0
SPECIFICATION EventsSpec
INVARIANTS
  EventNamesSplit
CHECK_DEADLOCK FALSE
