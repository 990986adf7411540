SPECIFICATION Spec
CONSTANTS
  Threads = {t1, t2, t3}
  Ids = {a, b, c}
  TTL = 2
  MaxLag = 1
  MaxTime = 5
SYMMETRY Symmetry
INVARIANTS TypeOK RetryIsCaught OldestFirstWithinLag
PROPERTIES NothingExpiredSurvives
CHECK_DEADLOCK FALSE
