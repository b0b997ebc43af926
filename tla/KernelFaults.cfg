SPECIFICATION Spec
CONSTANTS
  MaxTasks = 4
  LineMax = 2
  HeapPrints = TRUE
  UserFaults = TRUE
PROPERTIES
  KeyboardFifo
  MonitorFifo
CHECK_DEADLOCK FALSE
