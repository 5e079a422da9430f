--------------------------- MODULE MCSemProdCons ---------------------------
EXTENDS SemProdCons
=============================================================================
