SPECIFICATION Spec
CONSTANTS
  None = None
  t1 = t1  t2 = t2  k1 = k1
  Threads = {t1, t2}
  Keys = {k1}
  Slots = 2
  LastDay = 2
  Clock = {0, 3}
  Exams = {3, 5}
  Budgets = {1, 2}
  Minutes = {1, 2}
  Destinations = {0, 3}
  Additions <- SomeAdditions
  Targeted <- SomeTargeted
  ActivityCycle <- LearnReview
  ReviewMinutes = 1
  ReviewDelay = 3
  RetryDelay = 1
  MaxReviews = 1
  MaxTargeted = 1
  MaxTopics = 2
  MaxEdits = 3
PROPERTIES BudgetKept MoveLossless ProgressCarried PromiseKept LatePlanSpares
VIEW Record
SYMMETRY Symmetry
CHECK_DEADLOCK FALSE
