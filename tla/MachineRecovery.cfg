SPECIFICATION Spec
CONSTANTS
  c1 = c1
  Clients = {c1}
  Nobody = nobody
  MaxJobs = 2
  MaxHosts = 1
  MaxLines = 1
  Programs = {1}
  MaxActions = 0
  MaxCrashes = 1
  DiskFaults = TRUE
  StopReset = "at_end"
INVARIANT
  OutcomeLoggedOnce
PROPERTY
  ImplementsJobService
