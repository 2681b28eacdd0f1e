SPECIFICATION Spec
CONSTANTS
  t1 = t1  t2 = t2  book = book  chat = chat  k1 = k1  k2 = k2  a1 = a1  a2 = a2  s1 = s1  p1 = p1  p2 = p2
  None = None
  Threads = {t1, t2}
  Hosts <- BothHosts
  Prompts = {book, chat}
  Grounded = {book}
  MaterialOnly = {t1}
  RequestIds = {k1, k2}
  AttemptIds = {a1, a2}
  Sessions = {s1}
  MaxHistory = 1
  MaxRequests = 1
  MaxSaved = 1
  MaxCredited = 1
  MaxWrites = 3
INVARIANTS TypeOK CreditedOnce SavedKept GradedAsAsked
PROPERTIES RetriesRepeat DraftYields
SYMMETRY Symmetry
CHECK_DEADLOCK FALSE
