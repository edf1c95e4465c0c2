CONSTANTS
  j1 = j1
  j2 = j2
  j3 = j3
  Enabled = {"database"}
  Targets = {"game"}
  JobIds = {j1}
  HistoryLimit = 0
  RetryDelays = 1
  MaxRevision = 2
SPECIFICATION FairSpec
CHECK_DEADLOCK FALSE
PROPERTIES
  DrainCompletes
  PollingResumes
