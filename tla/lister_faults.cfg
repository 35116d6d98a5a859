\* System calls fail, crash signals hit the lister, the pid array can overflow
\* and the leader may exit, over two calls.
SPECIFICATION Spec
CONSTANTS
  Threads = {m, a, b}
  Leader = m
  Caller = a
  Initial = {m, a}
  Spawners = {m}
  Exiters = {m, b}
  Unshared = {}
  Denied = {}
  MAX_THREADS = 2
  Yama = FALSE
  SigchldIgnored = FALSE
  CrashSignals = {"SIGABRT", "SIGSEGV"}
  CallbackResults = {0}
  MaxCalls = 2
  MaxFaults = 2
INVARIANTS HandlerListIsCurrent CallRestoresProcess ResultIsTruth
PROPERTIES CrashStrandsOnlyInWindows ExitLeavesNoTracee
CHECK_DEADLOCK FALSE
