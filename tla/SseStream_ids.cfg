\* Bodies with blocks that hold an id only.
CONSTANTS
  Pieces = {"done"}
  MaxLines = 5
SPECIFICATION Spec
INVARIANTS
  IdOfOwnBlock
CHECK_DEADLOCK FALSE
