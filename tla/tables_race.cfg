SPECIFICATION BoundedSpec
CONSTANTS
  t1 = t1  t2 = t2
  NoTable = NoTable  NoRepo = NoRepo  NoRequest = NoRequest
  Threads = {t1, t2}
  TableNames = {menu, spa}
  Columns = {price, note}
  Required = {price}
  Menu = menu
  MaxRequests = 3
  MaxTokens = 1
  MaxCrashes = 1
SYMMETRY Symmetry
INVARIANTS TypeOK DescribedIffThere ColumnsMatch LinkedKeepsColumns OneLinkedTable OneCrashOneTable
CHECK_DEADLOCK FALSE
