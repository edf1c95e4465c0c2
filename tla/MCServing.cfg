CONSTANTS
  c1 = c1
  c2 = c2
SPECIFICATION Spec
SYMMETRY Symmetry
CHECK_DEADLOCK FALSE
INVARIANTS
  TypeOK
  SnapshotIsFresh
  DatabaseIsVouched
  CachesAreWhole
  AnswersAreWhole
PROPERTIES
  CallsAreAnswered
