CONSTANTS
  None = None
  t1 = t1  t2 = t2
  k1 = k1  k2 = k2
  r1 = r1  a1 = a1  a2 = a2  w1 = w1
  Threads = {t1, t2}
  Keys = {k1, k2}
  RequestIds = {r1}
  AttemptIds = {a1, a2}
  Answers = {w1}
  Versions = {1}
  MaxTokens = 2
  MaxQuestions = 1
  MayCrash = TRUE
SPECIFICATION Spec
SYMMETRY Symmetry
INVARIANTS TypeOK SandboxUnmixed ReadsOwnRun GradedOnce
PROPERTIES CompletedOnRecord
