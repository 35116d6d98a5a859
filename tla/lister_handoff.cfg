\* A listed thread creates another and exits before it is attached.
SPECIFICATION Spec
CONSTANTS
  Threads = {m, b, n}
  Leader = m
  Caller = m
  Initial = {m}
  Spawners = {m, b}
  Exiters = {b}
  Unshared = {}
  Denied = {}
  MAX_THREADS = 3
  Yama = FALSE
  SigchldIgnored = FALSE
  CrashSignals = {}
  CallbackResults = {0}
  MaxCalls = 1
  MaxFaults = 0
INVARIANTS FrozenAtCallback
CHECK_DEADLOCK FALSE
