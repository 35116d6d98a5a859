\* Parsing, filtering, limiting and writing a core, with one system call that fails.
SPECIFICATION Spec
CONSTANTS
  Inputs <- MCInputs
  Limits <- MCLimits
  MAX_MAPPINGS = 4
  MinPage = 2
  Buffer = 6
  PipeSize = 4
  EHDR = 3
  PHDR = 2
  NHDR = 2
  NOTE_ALIGN = 2
  Long = 1
  CORE_NAMESZ = 1
  CORE_NAME = 2
  Desc <- MCDesc
  MaxFaults = 1
INVARIANTS
  HeadersDescribeFile
  ResultIsTruth
  PrioritizedEndsAtLimit
  DumpsWhatItShould
  ProbesFindRoom
  ReadsAreSafe
PROPERTY
  Returns
