\* Three threads and three portals: closed twice and used again.
CONSTANTS
  Threads = {t1, t2, t3}
  MaxPortals = 3
SPECIFICATION FairSpec
INVARIANTS
  TypeOK
  OnePortal
  HeldPortalRuns
  LoopAffinity
PROPERTIES
  CloseEnds
CHECK_DEADLOCK FALSE
