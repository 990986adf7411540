SPECIFICATION Spec
CONSTANTS
  t1 = t1  t2 = t2  s1 = s1  s2 = s2  ama = ama  book = book
  NoCall = NoCall  NoTurn = NoTurn
  Threads = {t1, t2}
  Sessions = {s1}
  Customers = {ama}
  CustomerOf <- OneCustomer
  Tools = {book}
  Configs <- OnlyWrite
  InputEnabled = FALSE
  OutputEnabled = FALSE
  Overlap = TRUE
  Faults = {}
  CrashAnywhere = TRUE
  SweepInterval = 2
  MaxTurns = 3
  MaxRestarts = 0
INVARIANTS AtMostOnce
CHECK_DEADLOCK FALSE
