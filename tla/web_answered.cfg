SPECIFICATION FairWebSpec
CONSTANTS
  t1 = t1  t2 = t2  s1 = s1  s2 = s2  ama = ama  book = book  m1 = m1  m2 = m2 
  NoCall = NoCall  NoTurn = NoTurn  NoJob = NoJob
  Threads = {t1, t2}
  Sessions = {s1}
  Customers = {ama}
  CustomerOf <- OneCustomer
  Tools = {book}
  Configs <- OnlyWrite
  InputEnabled = TRUE
  OutputEnabled = FALSE
  Overlap = TRUE
  Faults = {}
  CrashAnywhere = FALSE
  SweepInterval = 5
  MaxTurns = 3
  MaxRestarts = 0
  Ids = {m1, m2}
  MayRefuse = FALSE
  SendFaults = FALSE
CHECK_DEADLOCK FALSE
INVARIANTS DoneIsAnswered
PROPERTIES EveryMessageIsAnswered
