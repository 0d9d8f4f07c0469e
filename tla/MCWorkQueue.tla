----------------------------- MODULE MCWorkQueue -----------------------------
EXTENDS WorkQueue

CONSTANTS j1, j2, j3, j4, w1, w2
==============================================================================
