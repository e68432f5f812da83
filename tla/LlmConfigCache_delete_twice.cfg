\* A delete whose answer is lost, and the same delete again.
CONSTANTS
  Nobody = Nobody
  Tasks = {t1}
  TTL = 2
  Delay = 1
  MaxWrites = 3
  MaxTime = 2
SPECIFICATION Spec
PROPERTIES
  DeleteIdempotent
