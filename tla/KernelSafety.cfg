SPECIFICATION Spec
CONSTANTS
  MaxTasks = 4
  LineMax = 1
  HeapPrints = FALSE
  UserFaults = FALSE
INVARIANTS
  TypeOK
  ReaderOwnsKeyboard
  ReaderAwakeIffKey
  HeadNotAsleep
  IdleRunnable
  SpinNeverContended
  NoLockLeak
  NoHalfMadeTask
  OnePrinter
  WakeupInv
PROPERTIES
  ExitIsFinal
