SPECIFICATION Spec
CONSTANTS
  W = 3
  K = 3
  Q = 1
  Rows <- MCRows
INVARIANT StagedJustBefore
CHECK_DEADLOCK FALSE
