SPECIFICATION Spec
CONSTANTS
  Targets = {"a"}
  Ints = {0}
  EventIDs = {257}
  GeoIDs = {101}
  IntMax = 127
  Faults = TRUE
  MaxEvents = 2
INVARIANTS
  TypeOK
  EventsContiguous
  ReadsTheBlockAskedFor
  UndefinedHasCause
  ConfigurationIsWhole
PROPERTIES
  StopEnds
