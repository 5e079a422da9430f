CONSTANTS
  Producers = {p1, p2, p3}
  Consumers = {c1, c2}
  BUF_SIZE = 4
  NumChars = 5
  NoThread = NoThread
SPECIFICATION Spec
INVARIANTS
  TypeOK
  LockDiscipline
  Ring
  NoLostWakeup
PROPERTIES
  ImplementsDelivery
  Termination
CHECK_DEADLOCK TRUE
