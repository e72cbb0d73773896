SPECIFICATION Spec
CONSTANTS
  MaxRecords = 2
  PageRows = 1
INVARIANT CompleteOrMarked
CHECK_DEADLOCK FALSE
