\* Two tasks read and write beside another client.
CONSTANTS
  Nobody = Nobody
  Tasks = {t1, t2}
  TTL = 2
  Delay = 1
  MaxWrites = 3
  MaxTime = 4
SPECIFICATION FairSpec
INVARIANTS
  TypeOK
  OneRequest
  ColdReadsOnly
  CoherentCache
PROPERTIES
  BoundedStaleness
  CallsEnd
