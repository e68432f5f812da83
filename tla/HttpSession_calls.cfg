\* One HTTP client shared by the calls of a few tasks.
CONSTANTS
  Tasks = {t1, t2, t3}
  Statuses = {200, 401, 500}
  MaxClients = 3
SPECIFICATION Spec
INVARIANTS
  TypeOK
  OneOpenClient
  ClosedOnlyByClose
CHECK_DEADLOCK FALSE
