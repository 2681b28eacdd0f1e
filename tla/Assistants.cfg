CONSTANTS
  None = None
  t1 = t1  t2 = t2
  r1 = r1  r2 = r2
  m1 = m1  s1 = s1  u1 = u1  u2 = u2
  Threads = {t1, t2}
  Requests = {r1}
  Materials = {m1}
  SessionIds = {s1}
  Turns = {u1, u2}
  MaxWorkspaces = 2
  MaxSessions = 1
  MaxTurns = 1
  MaxIds = 2
  MaxEdits = 1
  MaxTokens = 1
  MaxReplies = 2
SPECIFICATION Spec
SYMMETRY Symmetry
INVARIANT TalksHaveSpace
PROPERTIES ActsOnce ActsOnWhatWasSeen
