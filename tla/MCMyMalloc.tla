----------------------------- MODULE MCMyMalloc -----------------------------
EXTENDS MyMalloc

\* Totals 2136, 1848, 40 and 4056.  Of a 4096-byte region they leave 1928, 2216,
\* 4024 and 8 bytes; splits leave 1888, 80 and 40, so that the regular bins 3, 2
\* and 0 and a fast bin fill, and three regions make lists of three blocks, with
\* insertions at the head, in the middle and at the tail.  The 8 bytes are too few
\* for a header and stay unused before the sentinel.
MCRequests == {2100, 1816, 8, 4024}
=============================================================================
