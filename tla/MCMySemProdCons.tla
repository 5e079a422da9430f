-------------------------- MODULE MCMySemProdCons --------------------------
\* my_sem.c with as little room as a run that ends needs: two producers leak a
\* unit of empty each, and one pill stays in the buffer.
EXTENDS MySemProdCons
=============================================================================
