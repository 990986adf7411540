SPECIFICATION BoundAtFirst
CONSTANTS
  t1 = t1  t2 = t2  s1 = s1  s2 = s2  ama = ama  book = book  m1 = m1  m2 = m2
  NoCall = NoCall  NoTurn = NoTurn  NoJob = NoJob
  Threads = {t1, t2}
  Sessions = {s1, s2}
  Customers = {ama}
  CustomerOf <- OneCustomer
  Tools = {book}
  Configs <- Changing
  InputEnabled = TRUE
  OutputEnabled = FALSE
  Overlap = TRUE
  Faults <- Anywhere
  CrashAnywhere = TRUE
  SweepInterval = 5
  MaxTurns = 2
  MaxRestarts = 1
  Ids = {m1, m2}
  MayRefuse = TRUE
  SendFaults = TRUE
CHECK_DEADLOCK FALSE
SYMMETRY Symmetry
INVARIANTS WebTypeOK OneTurnPerMessage JudgedAsRun RunsOnlyWhenAllowed BlockedIsInert
