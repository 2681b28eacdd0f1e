------------------------ MODULE MCMaterialLifecycle ------------------------
(* One or two instances serve one learner from one data root.               *)
EXTENDS MaterialLifecycle, TLC

CONSTANTS m1, m2, w1, h1, h2, i1, i2, j1, j2, j3

\* Both requests on one instance.
OneHost == [h \in Handlers |-> i1]

\* One request on each of two instances (several processes over one data root).
TwoHosts == [h \in Handlers |-> IF h = h1 THEN i1 ELSE i2]

\* Ids are compared with nothing but each other; on one host so are the request threads.
FleetSymmetry == Permutations(Materials) \cup Permutations(Journals)
Symmetry == FleetSymmetry \cup Permutations(Handlers)
=============================================================================
