SPECIFICATION Spec
CONSTANTS
  PAGE = 4096
  Requests <- MCRequests
  MaxRegions = 2
INVARIANT LiveDisjoint
CHECK_DEADLOCK FALSE
