SPECIFICATION SteadySpec
CONSTANTS
  Names <- MCNames
  Paths <- MCPaths
  UserFiles <- MCOddFiles
  MAX_INODES = 5
  MAX_DIRECT = 2
  BITMAP_BLOCKS = 1
  DATA_BLOCKS = 4
  BLOCK_UNITS = 2
  MaxAdds = 3
  MaxTorn = 0
INVARIANT FilesWholeAtRest
CHECK_DEADLOCK FALSE
