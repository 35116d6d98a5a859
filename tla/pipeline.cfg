\* Two compressors, with and without the uncompressed fallback; a pipe of one block.
SPECIFICATION Spec
CONSTANTS
  Tables <- MCTables
  Blocks = 2
  Capacity = 1
  HostForks = TRUE
  MaxFaults = 3
INVARIANTS SelectedStreamIsWhole NothingLeft
PROPERTY CallReturns
CHECK_DEADLOCK FALSE
