SPECIFICATION Spec
CONSTANTS
  Threads = {t1, t2, t3}
  Kids = {k}
  Leader = t1
  Starts <- MCStarts
  Spawners = {t1}
  t1 = t1
  t2 = t2
  t3 = t3
  Exiters = {t3}
  Yama = TRUE
  Spare = 0
  Signals = {"SIGABRT", "SIGSEGV"}
  MaxCalls = 2
  MaxFaults = 1
INVARIANTS FrozenAtCallback ResultIsTruth
PROPERTIES StrandsOnlyOnFailure CallReturns
CHECK_DEADLOCK FALSE
