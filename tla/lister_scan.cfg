\* Threads come and go during the scan; the Caller is not the leader; the
\* lister races PR_SET_PTRACER; the snapshot child may write for ever.
SPECIFICATION SlowChildSpec
CONSTANTS
  Threads = {m, a, b, n}
  Leader = m
  Caller = a
  Initial = {m, a, b}
  Spawners = {m, a}
  Exiters = {b, n}
  Unshared = {}
  Denied = {}
  MAX_THREADS = 4
  Yama = TRUE
  SigchldIgnored = FALSE
  CrashSignals = {}
  CallbackResults = {0}
  MaxCalls = 1
  MaxFaults = 1
INVARIANTS FrozenAtCallback
PROPERTIES CallReturns StoppedThreadsResume
CHECK_DEADLOCK FALSE
