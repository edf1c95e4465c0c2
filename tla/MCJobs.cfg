CONSTANTS
  j1 = j1
  j2 = j2
  j3 = j3
  Enabled = {"images"}
  Targets = {"all", "images"}
  JobIds = {j1, j2}
  HistoryLimit = 1
  RetryDelays = 1
  MaxRevision = 2
SPECIFICATION Spec
SYMMETRY Ids
CHECK_DEADLOCK FALSE
INVARIANTS
  ReservationsDisjoint
  RunnerOwnsReservation
  StopReachesEveryJob
  DrainedIsQuiet
  HistoryInOrder
PROPERTIES
  VerdictIsFinal
  OnlyFailuresConsumeDelays
  ImplementsReservations
