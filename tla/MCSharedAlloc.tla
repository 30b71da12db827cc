--------------------------- MODULE MCSharedAlloc ---------------------------
EXTENDS SharedAlloc
CONSTANTS t1, t2, a, b
=============================================================================
