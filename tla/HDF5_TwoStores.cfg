SPECIFICATION Spec
CONSTANTS
  IntMax = 127
  SizeMod = 65536
  Prefixes <- MCPrefixes
  PrefixRegex <- PlainRegex
  Stores = {"writer", "reader"}
  Conf <- EventFiles
  Keys <- ThreeKeys
  Blocks = {"x"}
  Reuse = FALSE
  Faults = FALSE
  Crashes = FALSE
INVARIANTS
  ListComplete
PROPERTIES
  AbandonedOnlyByFailure
