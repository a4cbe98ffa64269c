SPECIFICATION FairSpec
CONSTANTS
  c1 = c1
  c2 = c2
  Clients = {c1, c2}
  Nobody = nobody
  MaxJobs = 1
  MaxHosts = 1
  MaxLines = 1
  Programs = {1}
  MaxActions = 1
  MaxCrashes = 0
  DiskFaults = FALSE
  StopReset = "at_start"
PROPERTIES
  DisconnectReturns
  EstopEndsStreaming
  WorkerSettles
