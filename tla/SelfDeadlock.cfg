SPECIFICATION Spec
CONSTANTS
  MaxTasks = 4
  LineMax = 1
  HeapPrints = TRUE
  UserFaults = FALSE
INVARIANTS
  SpinNeverContended
CHECK_DEADLOCK FALSE
