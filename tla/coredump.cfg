\* Both strategies, aborts, failures and a crash signal, while threads work.
SPECIFICATION DumpSpec
CONSTANTS
  Threads = {m, a}
  Leader = m
  Caller = a
  Initial = {m, a}
  Spawners = {}
  Exiters = {}
  Unshared = {}
  Denied = {}
  MAX_THREADS = 2
  Yama = FALSE
  SigchldIgnored = FALSE
  CrashSignals = {"SIGSEGV"}
  CallbackResults = {0}
  MaxCalls = 1
  MaxFaults = 1
  Strategies = {"ForkSnapshot", "InProcessFrozen"}
  Kinds = {"private", "shared"}
  HasCallback = TRUE
  MAX_DUMP_THREADS = 2
  MaxWork = 1
INVARIANTS CoreIsConsistent
PROPERTIES ImplementsSnapshot 
CHECK_DEADLOCK FALSE
