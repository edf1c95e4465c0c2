CONSTANTS
  a1 = a1
  a2 = a2
SPECIFICATION Spec
SYMMETRY Symmetry
CHECK_DEADLOCK FALSE
INVARIANTS
  TypeOK
  ReloadIsARestart
PROPERTIES
  ImagesAreWhole
  NothingIsOverwritten
  ArchivesAreGenuine
  OutcomesAreTrue
