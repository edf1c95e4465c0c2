SPECIFICATION Spec
CONSTANTS
  MaxRelease = 2
  Slots = {1,2,3}
  Mirrors = TRUE
  Yanks = TRUE
  Aliased = FALSE
  MaxFaults = 1
  Settles = FALSE
INVARIANTS
  PairIsOneGeneration
