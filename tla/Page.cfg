SPECIFICATION PageSpec
CONSTANTS
  x1 = x1
  x2 = x2
  x3 = x3
  Opens = {x1, x2, x3}
  NoOpen = noopen
  MaxPageLoads = 2
  c1 = c1
  c2 = c2
  Calls = {c1, c2}
  Warm = warm
  Threads <- ThreadSet
  NoThread = nothread
  NoStart = nostart
  MaxFaults = 2
  MaxAttempts = 2
  p1 = p1
  p2 = p2
  Probes = {p1, p2}
  MaxChanges = 2
  MaxToasts = 2
  Durations = {2}
INVARIANTS
  PageTypeOK
  NeverOpenedTwice
  OneSidecar
  FailuresAccounted
  DisplayTimeKept
PROPERTIES
  CallsSettle
  HealthIsSeen
  ToastsGoAway
CHECK_DEADLOCK FALSE
