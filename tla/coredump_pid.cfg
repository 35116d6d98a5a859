\* The pid the core names as the process that was dumped.
SPECIFICATION DumpSpec
CONSTANTS
  Threads = {m, a}
  Leader = m
  Caller = a
  Initial = {m, a}
  Spawners = {}
  Exiters = {}
  Unshared = {}
  Denied = {}
  MAX_THREADS = 2
  Yama = FALSE
  SigchldIgnored = FALSE
  CrashSignals = {}
  CallbackResults = {0}
  MaxCalls = 1
  MaxFaults = 0
  Strategies = {"ForkSnapshot", "InProcessFrozen"}
  Kinds = {"private", "shared"}
  HasCallback = TRUE
  MAX_DUMP_THREADS = 2
  MaxWork = 1
INVARIANTS PrpsinfoNamesTheProcess
CHECK_DEADLOCK FALSE
