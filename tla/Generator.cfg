SPECIFICATION Spec
CONSTANTS
  Targets = {"a"}
  Counts = {0, 2}
  Sizes = {8}
  IntMax = 7
  Faults = TRUE
  MaxEvents = 2
INVARIANTS
  TypeOK
  NoUndefinedBehaviour
  WholeEvents
  DuplicateOnlyFirst
  ConfigurationIsWhole
PROPERTIES
  StopAdvances
  StopEnds
