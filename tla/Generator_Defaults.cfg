SPECIFICATION Spec
CONSTANTS
  Targets = {"a"}
  Counts = {0, 2}
  Sizes = {0, 16}
  IntMax = 7
  Faults = FALSE
  MaxEvents = 1
INVARIANTS
  SchemaDefaults

