\* One HTTP client shared by two tasks.
CONSTANTS
  Tasks = {t1, t2}
  Statuses = {200, 401, 404, 429, 500, 504}
  MaxClients = 2
SPECIFICATION Spec
INVARIANTS
  RaisesTeardropErrors
CHECK_DEADLOCK FALSE
