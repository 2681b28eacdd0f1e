SPECIFICATION Spec
CONSTANTS
  m1 = m1  m2 = m2  w1 = w1  h1 = h1  h2 = h2  i1 = i1  i2 = i2  j1 = j1  j2 = j2  j3 = j3
  None = None
  Materials = {m1}
  Workspaces = {w1}
  Handlers = {h1, h2}
  Instances = {i1}
  Journals = {j1, j2}
  Host <- OneHost
  MaxCrashes = 0
  MaxErrors = 0
INVARIANT DeletionFinal
