SPECIFICATION Spec
CONSTANTS
  t1 = t1
  t2 = t2
  f1 = f1
  Tasks <- MCTasks
  Futures <- MCFuture
  Depth = 3
  Priorities = {0}
  Counts = {0, 1}
  Delays <- MCNext
  LateDelays <- MCNext
  Finally = {"acts", "raises"}
  Outlive = TRUE
  Budget = 3
  Releases = 2
  Runs = 2
PROPERTIES
  RunEnds
  LoweredBelowEveryTask
CHECK_DEADLOCK FALSE
