SPECIFICATION Spec
CONSTANTS
  t1 = t1
  t2 = t2
  f1 = f1
  Tasks <- MCTasks
  Futures <- MCFuture
  Depth = 0
  Priorities = {0}
  Counts = {}
  Delays <- MCDelays
  LateDelays <- MCNext
  Finally = {}
  Outlive = FALSE
  Budget = 4
  Releases = 3
  Runs = 2
INVARIANTS
  NothingIsLostOrEarly
PROPERTIES
  IdleLoopsAreToldApart
SYMMETRY Symmetry
CHECK_DEADLOCK FALSE
