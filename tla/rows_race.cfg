SPECIFICATION Spec
CONSTANTS
  t1 = t1  t2 = t2
  NoConn = NoConn  NoRow = NoRow  NoRequest = NoRequest  NoTxn = NoTxn  Unread = Unread
  Threads = {t1, t2}
  Conns = {admin, chat}
  Admin = admin
  Columns = {name, note}
  Required = {name}
  Values = {some, none}
  Null = none
  MaxRequests = 3
  MaxCrashes = 1
SYMMETRY Symmetry
INVARIANTS TypeOK AsWritten ReadBack TransactionsEnd
PROPERTIES StaleUntilRestart
CHECK_DEADLOCK FALSE
