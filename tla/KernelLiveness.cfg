SPECIFICATION FairSpec
CONSTANTS
  MaxTasks = 3
  LineMax = 1
  HeapPrints = FALSE
  UserFaults = FALSE
PROPERTIES
  RunnableRuns
  HeadBecomesReader
  KeyConsumed
