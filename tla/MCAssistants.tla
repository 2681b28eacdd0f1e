----------------------------- MODULE MCAssistants -----------------------------
EXTENDS Assistants, TLC

CONSTANTS t1, t2, r1, r2, m1, s1, u1, u2

Symmetry == Permutations(Threads) \cup Permutations(Turns)
=============================================================================
