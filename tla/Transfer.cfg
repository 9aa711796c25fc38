SPECIFICATION Spec
CONSTANTS
  Targets = {"in", "out"}
  Fed = {"in"}
  Keys = {"k1", "k2"}
  Live = TRUE
  Faults = TRUE
INVARIANTS
  TypeOK
  CopyComplete
  ConfigurationIsWhole
PROPERTIES
  StopAdvances
  StopEnds
