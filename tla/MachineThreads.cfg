SPECIFICATION Spec
CONSTANTS
  c1 = c1
  c2 = c2
  Clients = {c1, c2}
  Nobody = nobody
  MaxJobs = 2
  MaxHosts = 1
  MaxLines = 1
  Programs = {0, 1}
  MaxActions = 0
  MaxCrashes = 1
  DiskFaults = FALSE
  StopReset = "at_start"
SYMMETRY Symmetry
INVARIANTS
  TypeOK
  ActiveJobHasWorker
  StaleWorkersAreCancelled
  CommandExcludesStreaming
  OutcomeLoggedOnce
  MiscountNeedsLateWorker
  SnapshotNamesActiveJob
  ThrottledMeansSaved
