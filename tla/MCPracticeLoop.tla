---------------------------- MODULE MCPracticeLoop ----------------------------
(* Two requests at a time on one learning space.                            *)
EXTENDS PracticeLoop, TLC

CONSTANTS t1, t2, book, chat, k1, k2, a1, a2, s1, p1, p2

\* Both threads in one process, or in a process each.
OneProcess == [t \in Threads |-> p1]
TwoProcesses == [t \in Threads |-> IF t = t1 THEN p1 ELSE p2]
BothHosts == {OneProcess, TwoProcesses}

\* Ids of attempts and of requests are compared with nothing but each other.
Symmetry == Permutations(AttemptIds) \cup Permutations(RequestIds)
=============================================================================
