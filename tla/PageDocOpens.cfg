SPECIFICATION OpenSpec
CONSTANTS
  Opens = {x1, x2}
  NoOpen = noopen
  MaxPageLoads = 2
INVARIANTS
  NoStalePath
CHECK_DEADLOCK FALSE
