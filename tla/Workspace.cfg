SPECIFICATION WorkspaceSpec
CONSTANTS
  f1 = f1
  f2 = f2
  Files = {f1, f2}
  NoFile = nofile
  Torn = torn
  o1 = o1
  o2 = o2
  Ops = {o1, o2}
  MaxAttempts = 2
  MaxRecent = 2
  MaxEdits = 2
  l1 = l1
  l2 = l2
  l3 = l3
  Layers = {l1, l2, l3}
  NoLayer = nolayer
  MaxRequests = 3
SYMMETRY Symmetry
INVARIANTS
  WorkspaceTypeOK
  CleanMeansSaved
  SpinnerMeansPending
PROPERTIES
  DiscardIsAgreed
