SPECIFICATION Spec
CHECK_DEADLOCK FALSE
CONSTANTS
  NULL = NULL
  W = 2
  Id16 = 1
  Ids <- MCIds
  MaxCalls = 4
  Sent <- MCSent
INVARIANT SetsMatchKernel
PROPERTIES RestoreIsExact FallbackIsTransparent
