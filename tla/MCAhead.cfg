\* Two workers and four random cases: the run implements the run of one worker,
\* and it ends.
SPECIFICATION FairSpec
CONSTANTS
  Workers = {w1, w2}
  Boundaries = 2
  Limits <- MCLimits
INVARIANTS
  RunsOnce
  NoLostWakeup
  TableBounded
PROPERTIES
  SameCasesAsOneWorker
  RunEnds
