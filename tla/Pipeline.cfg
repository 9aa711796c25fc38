SPECIFICATION PipelineSpec
CHECK_DEADLOCK FALSE
CONSTANTS
  IntMax = 127
  SizeMod = 65536
  Prefixes <- MCPrefixes
  PrefixRegex <- MCRegex
  Stores = {"gen", "in", "out"}
  Conf <- MCConf
  Keys <- MCKeys
  Blocks = {"x", "empty", "garbled"}
  Reuse = FALSE
  Faults = FALSE
  Crashes = TRUE
  Fragments <- MCFragments
  Payloads = {"x"}
  MaxLives = 1
INVARIANTS
  NoStoreThrows
  CopyOnDisk
  OutputFromInput
PROPERTIES
  CopyAdvances
  CopyEnds
