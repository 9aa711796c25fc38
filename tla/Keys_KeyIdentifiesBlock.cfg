SPECIFICATION MCSpec
CONSTANTS
  IntMax = 127
  SizeMod = 65536
  Prefixes <- MCPrefixes
  PrefixRegex <- MCRegex
  Ids <- FewIds
  Detectors = {"FELIX", "Invalid"}
  Names = {}
  Depth = 0
INVARIANTS
  KeyIdentifiesBlock
