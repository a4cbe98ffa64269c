SPECIFICATION Spec
CONSTANTS
  u1 = u1
  u2 = u2
  p1 = p1
  Users = {u1, u2}
  Polls = {p1}
  MaxJobs = 2
  MaxEvents = 0
  MaxCrashes = 0
  MaxReloads = 0
  MaxRetries = 1
  Faults = FALSE
SYMMETRY Symmetry
INVARIANTS
  StreamIsPolled
