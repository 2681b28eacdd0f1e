------------------------------ MODULE MCAccounts ------------------------------
EXTENDS Accounts, TLC

CONSTANTS t1, t2, p1, p2, l1, l2

Symmetry ==
  Permutations(Threads) \cup Permutations(Passwords) \cup Permutations(Links)
=============================================================================
