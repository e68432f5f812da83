\* Two tasks read the agent card, forced and not.
CONSTANTS
  Nobody = Nobody
  Tasks = {t1, t2}
  Forcing = {TRUE, FALSE}
  TTL = 2
  Delay = 1
  MaxVersions = 3
  MaxTime = 4
SPECIFICATION Spec
INVARIANTS
  TypeOK
  OneFetch
  Coalesced
  ForcedIsFresh
PROPERTIES
  BoundedStaleness
