CONSTANTS
  None = None
  t1 = t1  t2 = t2
  p1 = p1  p2 = p2
  l1 = l1  l2 = l2
  Threads = {t1, t2}
  Passwords = {p1, p2}
  Links = {l1, l2}
  MaxHashes = 4
  MaxVersion = 2
  MaxTokens = 1
SPECIFICATION Spec
SYMMETRY Symmetry
CHECK_DEADLOCK FALSE
INVARIANT LoginBindsCredential
PROPERTIES EndedStaysEnded ResetSpendsLinks
