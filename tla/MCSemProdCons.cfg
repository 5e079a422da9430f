CONSTANTS
  Producers = {p1, p2}
  Consumers = {c1, c2, c3}
  BUF_SIZE = 8
  NumChars = 10
SPECIFICATION Spec
INVARIANTS
  TypeOK
  MutualExclusion
  SlotAccounting
  PendingInOrder
PROPERTIES
  ImplementsDelivery
  Termination
CHECK_DEADLOCK TRUE
