SPECIFICATION FairHistSpec
CONSTANTS
  PoolSize = 24
  ARENA = 2
  CELL = 2
  MIN_BLOCKSIZE = 1
  PROTECT_LRU = 6
  Indices <- MCIndices
  SizeOf <- MCSizeOf
  EndWords = {"other"}
INVARIANTS Tiling NoFreeNeighbours
PROPERTIES AllocatesBlocks LoadsInOneStep AllocationEnds
