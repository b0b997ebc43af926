SPECIFICATION Spec
CONSTANTS
  NameSize = 3
  Characters = {"0", " ", "A", "B", "C", "D", "E", "K", "S", "V", "X"}
  Volumes <- MCVolumes
  Stage2Name <- MCStage2Name
  KernelName <- MCKernelName
  Kernels <- MCKernels
  BufferEntries <- MCHeapEntries
  Arguments <- MCArguments
  HeapWords <- MCHeapWords
  HeapEntries <- MCHeapEntries
  Stage2Room = 3
  KernelRoom = 3
  MaxSectors = 4
  MayFail = TRUE
INVARIANTS
  HaltsWithoutFile
  LoadsWhole
  FindsFirst
  ReadsWholeFile
  BufferFits
PROPERTIES
  BootEnds
  Terminates
CHECK_DEADLOCK FALSE
