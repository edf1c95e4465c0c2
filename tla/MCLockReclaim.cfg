SPECIFICATION Spec
CONSTANTS
  Procs = {p1,p2}
  Suspends = FALSE
  MaxCrashes = 1
PROPERTIES
  NoReclaimMidRun
