SPECIFICATION Spec
CONSTANTS
  WordSize = 3
  MemoryMaps <- MCMemoryMaps
  LowBlocks = 1
  KernelStart = 2
  KernelBlocks = 1
INVARIANTS
  CountMatchesMap
  OwnedBlocksSafe
  FrameInv
  NothingLost
  LoopsMatch
CHECK_DEADLOCK FALSE
