SPECIFICATION Spec
CONSTANTS
  Tables <- MCTables
  OpenSets <- MCOpenSets
  openmax = 12
  PathLen = 2
  MaxFaults = 2
  Blocks = 4
  Cap = 2
  Lengths = {0, 3, 6}
INVARIANTS CompressorHoldsOnlyItsPipes  ResultIsTruth
PROPERTIES CallReturns ReaderGetsTheCore
CHECK_DEADLOCK FALSE
