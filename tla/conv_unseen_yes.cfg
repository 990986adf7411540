SPECIFICATION Spec
CONSTANTS
  t1 = t1  t2 = t2  s1 = s1  s2 = s2  ama = ama  book = book
  NoCall = NoCall  NoTurn = NoTurn
  Threads = {t1}
  Sessions = {s1}
  Customers = {ama}
  CustomerOf <- OneCustomer
  Tools = {book}
  Configs <- OnlyWrite
  InputEnabled = TRUE
  OutputEnabled = TRUE
  Overlap = FALSE
  Faults = {}
  CrashAnywhere = FALSE
  SweepInterval = 2
  MaxTurns = 2
  MaxRestarts = 0
INVARIANTS ConfirmedWasShown
CHECK_DEADLOCK FALSE
