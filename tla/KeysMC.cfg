SPECIFICATION MCSpec
CONSTANTS
  IntMax = 127
  SizeMod = 65536
  Prefixes <- MCPrefixes
  PrefixRegex <- MCRegex
  Ids <- MCIds
  Detectors = {"FELIX"}
  Names = {"a", "b"}
  Depth = 3
INVARIANTS
  RoundTrip
  ListedIdIsWrittenOrInvalid
  ReadLooksWhereWritten
  OnePlacePerIds
  NoCrossTalk
  EveryDataSetOnce
