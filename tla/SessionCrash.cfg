SPECIFICATION Spec
CONSTANTS
  u1 = u1
  p1 = p1
  Users = {u1}
  Polls = {p1}
  MaxJobs = 2
  MaxEvents = 1
  MaxCrashes = 1
  MaxReloads = 1
  MaxRetries = 1
  Faults = FALSE
SYMMETRY Symmetry
INVARIANTS
  TypeOK
  EventsSeenOnce
  NoAbandonedJob
