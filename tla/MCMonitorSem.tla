---------------------------- MODULE MCMonitorSem ----------------------------
\* Four threads on one Sem initialised with 1, as hw2/my_sem.c's mutex and
\* full and empty semaphores are used by several threads each.
EXTENDS MonitorSem

MCInitialCount == [s \in Sems |-> 1]
=============================================================================
