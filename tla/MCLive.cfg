CONSTANTS
  c1 = c1
  c2 = c2
SPECIFICATION Spec
CHECK_DEADLOCK FALSE
PROPERTIES
  WorkEnds
  ComesToRest
