SPECIFICATION Spec
CONSTANTS
  IntMax = 127
  SizeMod = 65536
  Prefixes <- MCPrefixes
  PrefixRegex <- PlainRegex
  Stores = {"writer"}
  Conf <- FragmentFiles
  Keys <- OneEvent
  Blocks = {"x", "y"}
  Reuse = TRUE
  Faults = TRUE
  Crashes = TRUE
INVARIANTS
  AckedKeptSomewhere
  OneBlockPerPlace
