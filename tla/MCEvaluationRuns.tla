--------------------------- MODULE MCEvaluationRuns ---------------------------
(* Two requests at a time on two client keys.                               *)
EXTENDS EvaluationRuns, TLC

CONSTANTS t1, t2, k1, k2, r1, a1, a2, w1

\* Client keys and threads are compared with nothing but each other.
Symmetry == Permutations(Threads) \cup Permutations(Keys) \cup Permutations(AttemptIds)
=============================================================================
