SPECIFICATION MCSpec
CONSTANTS
  Processes = {p, q}
  Contracts = {"c"}
  Cases = {"a"}
  Environments <- MCEnvironments
  MaxCalls = 2
  MaxSeatCalls = 2
  Others = {t, u}
  MaxRunCalls = 2
  MaxEntries = 3
  MaxRuns = 2
  Modes <- MCModes
  MaxFns = 2
  MaxTime = 10
  Timeouts = {0, 2, 8}
  Pauses = {0, 3}
  Advances = {0, 1, 2}
  Naps = {0, 1, 2, 3}
  Sleepers = {s}
  Works = {v, w}
  Grace = 2
  Fold <- MCFold
  Recorded = {"r","w","x"}
  MaxTasks = 4
  Root = 1
  GoldenRoot = 2
  Asked <- MCAsked
  Disks <- MCDisks
  FileCalls = {"create", "overwrite", "unchanged", "update", "match"}
  ChangesOf <- MCChangesOf
  Scrub <- MCScrub
  Outputs = {11, 12, 13}
  JsonFields = {"a", "b"}
INVARIANTS
  CaseRunsInItsWrapper
  RecordsAreWhole
  SeatsKeepTheirWord
  WaitsEndInTime
  WritesKeepTheirWord
  GoldenSettles
PROPERTIES
  StoreIsKept
SYMMETRY Symmetry
CHECK_DEADLOCK FALSE
