SPECIFICATION Spec
CONSTANTS
  Procs = {p1,p2,p3}
  Suspends = FALSE
  MaxCrashes = 1
CONSTRAINT OneReclaimer
SYMMETRY Ids
INVARIANTS
  MutualExclusion
  OneHolder
