SPECIFICATION BoundAtFirst
CONSTANTS
  t1 = t1  t2 = t2  s1 = s1  s2 = s2  ama = ama  book = book
  NoCall = NoCall  NoTurn = NoTurn
  Threads = {t1, t2}
  Sessions = {s1, s2}
  Customers = {ama}
  CustomerOf <- OneCustomer
  Tools = {book}
  Configs <- Changing
  InputEnabled = TRUE
  OutputEnabled = TRUE
  Overlap = FALSE
  Faults <- BeforeEffects
  CrashAnywhere = FALSE
  SweepInterval = 2
  MaxTurns = 3
  MaxRestarts = 1
SYMMETRY Symmetry
INVARIANTS TypeOK AtMostOnce CancelledNeverRan HistoryIsWholeTurns TranscriptsAreValid NothingLeavesUnchecked
PROPERTIES RequestsAreSettled GateSpec
CHECK_DEADLOCK FALSE
