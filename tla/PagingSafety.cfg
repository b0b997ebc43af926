SPECIFICATION Spec
CONSTANTS
  Frames <- MCFrames
  SparePages <- MCSpare
  Layout <- MCLayout
  Unit = 4
  Programs <- MCPrograms
  MaxTasks = 3
  MaxExecs = 4
INVARIANTS
  OneHolder
  LoadedImage
PROPERTIES
  StacksKept
CHECK_DEADLOCK FALSE
