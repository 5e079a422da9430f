--------------------------- MODULE MCCondProdCons ---------------------------
\* The program of pthread.c on a buffer small enough to be full and empty in
\* every phase, with threads of each kind that compete for the wakeups.
EXTENDS CondProdCons
=============================================================================
