CONSTANTS
  Producers = {p1, p2, p3, p4}
  Consumers = {c1, c2}
  BUF_SIZE = 8
  NumChars = 1
SPECIFICATION Spec
PROPERTIES
  Termination
CHECK_DEADLOCK FALSE
