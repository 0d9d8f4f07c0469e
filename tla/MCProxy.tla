------------------------------- MODULE MCProxy -------------------------------
EXTENDS Proxy, TLC

CONSTANTS c1, c2, c3, s1, w1, w2

\* Sound for the runs that check no liveness property.
Symmetry == Permutations(Chats) \cup Permutations(Workers)
==============================================================================
