SPECIFICATION Spec
CONSTANTS
  IntMax = 127
  SizeMod = 65536
  Prefixes <- MCPrefixes
  PrefixRegex <- PlainRegex
  Stores = {"writer"}
  Conf <- EventFiles
  Keys <- TwoKeys
  Blocks = {"x"}
  Reuse = TRUE
  Faults = FALSE
  Crashes = FALSE
INVARIANTS
  HandleAgrees
