SPECIFICATION ExercisesSpec
CONSTANTS Threads = {t1, t2, t3, t4}  NUMTHREADS = 3  COUNTS = 2  ROUNDS = 12  MsgLen = 30
INVARIANTS CountIsExact OpensOnlyWhenFull
INVARIANTS NoUpdateLost PrintedInRange InTurns NoEarlyEnd ParentLast WholeMessage
PROPERTIES ImplementsRendezvous EveryProgramEnds
