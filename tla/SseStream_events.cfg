\* Every body of up to five lines.
CONSTANTS
  Pieces = {"done", "done-1st-half", "done-2nd-half", "untyped", "array", "text", ""}
  MaxLines = 5
SPECIFICATION Spec
INVARIANTS
  TypeOK
  YieldsTheEvents
CHECK_DEADLOCK FALSE
