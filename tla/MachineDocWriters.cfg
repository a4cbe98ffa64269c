SPECIFICATION Spec
CONSTANTS
  c1 = c1
  Clients = {c1}
  Nobody = nobody
  MaxJobs = 1
  MaxHosts = 1
  MaxLines = 1
  Programs = {1}
  MaxActions = 0
  MaxCrashes = 0
  DiskFaults = FALSE
  StopReset = "at_end"
INVARIANT
  SingleWriter
