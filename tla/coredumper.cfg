SPECIFICATION Spec
CONSTANTS
  t1 = t1
  t2 = t2
  NULL = NULL
  gz = gz
  Versions = {3, 4, 9}
  Tables = {gz}
  Lengths = {5}
  SIZE_MAX = 9
  PidLists <- MCPidLists
  main_pid = t1
  Stats <- MCStats
  Exes <- MCExes
  FnameSize = 2
  MaxSets = 3
  MaxFaults = 1
INVARIANTS PriorityExcludesCompression DescriptorIsUnlimited 
