------------------------------ MODULE MCDispatch ------------------------------
EXTENDS Dispatch

CONSTANTS c1, c2, s1
==============================================================================
