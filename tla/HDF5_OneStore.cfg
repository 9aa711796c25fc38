SPECIFICATION Spec
CONSTANTS
  IntMax = 127
  SizeMod = 65536
  Prefixes <- MCPrefixes
  PrefixRegex <- PlainRegex
  Stores = {"writer"}
  Conf <- EventFiles
  Keys <- OneNegative
  Blocks = {"x", "y"}
  Reuse = FALSE
  Faults = TRUE
  Crashes = TRUE
INVARIANTS
  TypeOK
  HandleAgrees
  Placement
  AckedDurable
  ReadFindsAcked
  NoKeyTwice
PROPERTIES
  ImplementsDataStore
