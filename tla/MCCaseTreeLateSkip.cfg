SPECIFICATION TreeSpec
CONSTANTS
  Infinite = 16
  NaN = 99
  NoMax = 98
  MaxChoices = 14
  ByteBase = 4
  UnboundedLengths = 3
  FilterAttempts = 3
  MaxDiscards = 2
  Budget = 3
  Endless = 8
  Half = 4
  Day = 2
  Widths = {2, 3, 4}
  WideWidth = 4
  LastSecond = 2
  MaxOffset = 2
  MaxDuration = 2
  LargestFloat = 12
  Named <- MCNamed
  Recursives <- MCRecursives
  Zones <- MCZones
  Units <- MCUnits
  Keeps <- MCKeeps
  Applied <- MCApplied
  BoundTo <- MCBoundTo
  Backs <- MCBacks
  Bodies <- MCBodies
  Providers <- MCProviders
  Foreign <- MCForeign
  Far = Far
  Undrawn = Far
  Bounds <- MCBounds
  Depth = 2
  Limit = 4
  Endings = {"passed", "failed", "rejected", "overran", "skipped"}
  Laters = {"none", "passed", "failed", "skipped"}
  FlakyLaters = {"none", "passed", "skipped"}
INVARIANTS
  SameOutcome
CHECK_DEADLOCK FALSE
