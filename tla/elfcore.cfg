\* Every kind of area, vdso and limit, on every architecture; one call fails.
SPECIFICATION Spec
CONSTANTS
  AddressSpaces <- MCAddressSpaces
  Auxvs <- MCAuxvs
  pagesize = 4096
  MaxFaults = 1
  ThreadLists <- MCThreadLists
  main_pid = 1
  NoteLists <- MCNoteLists
  Limits <- MCLimits
INVARIANTS HeadersDescribeFile CoreKeepsData ResultIsTruth ReadsAreSafe
CHECK_DEADLOCK FALSE
