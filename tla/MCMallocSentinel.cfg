SPECIFICATION Spec
CONSTANTS
  PAGE = 4096
  Requests = {4016}
  MaxRegions = 3
INVARIANT SentinelAtTail
CHECK_DEADLOCK FALSE
