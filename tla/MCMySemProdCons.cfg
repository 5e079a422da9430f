CONSTANTS
  Producers = {p1, p2}
  Consumers = {c1}
  BUF_SIZE = 4
  NumChars = 3
  NoThread = NoThread
  NoSem = NoSem
SPECIFICATION Spec
PROPERTIES
  ImplementsSemProdCons
  Termination
CHECK_DEADLOCK TRUE
