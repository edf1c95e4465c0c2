SPECIFICATION Spec
CONSTANTS
  MaxRelease = 2
  Slots = {1,2,3}
  Mirrors = FALSE
  Yanks = TRUE
  Aliased = TRUE
  MaxFaults = 1
  Settles = FALSE
PROPERTIES
  KeptTreeStays
