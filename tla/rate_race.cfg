SPECIFICATION Spec
CONSTANTS
  Threads = {t1, t2}
  Keys = {k1, k2}
  MaxPerWindow = 2
  Window = 2
  IdleTTL = 3
  SweepInterval = 2
  MaxLag = 1
  MaxTime = 5
  MaxCalls = 5
SYMMETRY Symmetry
INVARIANTS TypeOK WindowBound
PROPERTIES RefusedOnlyWhenFull
CHECK_DEADLOCK FALSE
