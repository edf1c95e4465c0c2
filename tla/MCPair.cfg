SPECIFICATION Spec
CONSTANTS
  MaxRelease = 2
  Slots = {1,2,3}
  Mirrors = TRUE
  Yanks = TRUE
  Aliased = FALSE
  MaxFaults = 1
  Settles = TRUE
ACTION_CONSTRAINT BlindIsLast
INVARIANTS
  ExtractHasArchive
  PairRootsExist
PROPERTIES
  NoDowngrade
  KeepsServing
  Converges
  ImplementsPointer
