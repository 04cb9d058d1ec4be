\* Four cases, two identities, two workers and a budget of five runs.
SPECIFICATION FairSpec
CONSTANTS
  MaxCase = 3
  Length <- MCLength
  Identities = {"a", "b"}
  Budget = 5
  Repeats = 2
  Kinds <- MCKinds
  Candidates <- MCCandidates
  Probes <- MCProbes
  Deletions <- MCDeletions
  Calls = 1
  Draws = 1
  Fillings = 2
  Workers = 2
INVARIANTS
  BestIsTheLeast
  BudgetHolds
  SweepsMissNothing
PROPERTIES
  SameAsOneWorker
  ShrinkEnds
CHECK_DEADLOCK FALSE
