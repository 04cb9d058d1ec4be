SPECIFICATION MCSpec
CONSTANTS
  Clients <- MCClients
  MaxEvents = 6
  MaxCalls = 2
  Pending = Pending
  Logs <- MCLogs
  Machine <- MCMachine
  Configs <- MCConfigs
  Traces <- MCTraces
  NoState = NoState
  NoTrace = NoTrace
  States <- KeyedStates
  Initial <- KeyedInitial
  After <- KeyedAfter
  Raises <- KeyedRaises
  Cost <- One
  ClockSteps = 2
  Inputs <- KeyedInputs
  Opaque = Opaque
  Scalar = Scalar
  NotAHistory = NotAHistory
  Checks <- MCChecks
  MaxWorkers = 2
INVARIANTS
  Inductive
  OutcomesTellTheTruth
  IntervalsKeepTheirOrder
  StepsKeepTheirWord
  SearchIsInStep
  ReportIsRight
  PoolKeepsItsWord
  VerdictIsProved
PROPERTIES
  IsARecording
  SearchMovesOn
