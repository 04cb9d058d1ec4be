SPECIFICATION FairSpec
CONSTANTS
  Labels = {"a", "b"}
  Identities = {"i", "j", "k"}
  Starts <- MCStarts
  Cases = 1
  MaxRejections = 1
  Boundaries = 2
  GenerationFactor = 2
  PrefixDivisor = 1
  Checks <- MCChecks
  Scores = {0, 1}
  MaxExplored = 3
INVARIANTS
  OutcomeIsJustified
  FailuresAreReported
PROPERTY
  RunEnds
CHECK_DEADLOCK FALSE
