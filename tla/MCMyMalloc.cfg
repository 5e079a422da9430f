SPECIFICATION CarefulSpec
CONSTANTS
  PAGE = 4096
  Requests <- MCRequests
  MaxRegions = 3
INVARIANTS TypeOK Tiled EveryBlockOnce BinsSorted
PROPERTY ImplementsAllocator
CHECK_DEADLOCK FALSE
