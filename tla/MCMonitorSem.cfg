CONSTANTS
  Threads = {t1, t2, t3, t4}
  Sems = {s}
  InitialCount <- MCInitialCount
  MaxCount = 3
  NoThread = NoThread
  NoSem = NoSem
SPECIFICATION Spec
INVARIANTS
  TypeOK
  LockDiscipline
  NoLostWakeup
PROPERTIES
  ImplementsSemaphore
CHECK_DEADLOCK TRUE
