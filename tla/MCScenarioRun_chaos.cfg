SPECIFICATION RunSpec
CONSTANTS
  FailureThreshold = 2
  SuccessThreshold = 1
  ResetTimeout = 1
  CountCap = 2
  Threads = {t1, t2}
  Prompts = {q1, q2}
  Private = {q2}
  Caching = TRUE
  Providers = {1, 2}
  Rate <- MCRate
  CallCost <- MCCallCost
  DearestCall = 2
  MaxCost = 0
  SoftLimit = 2
  MaxRequests = 4
  Scenarios <- MCScenarios
  FailRate <- MCFailRate
  RecoverAfter <- MCRecoverAfter
  RecoveredRate <- MCRecoveredRate
  Latencies = {1, 3}
  MaxTicks = 2
SYMMETRY Symmetric
INVARIANTS
  RunTypeOK
  AccountsBalance
  OpensAreExplained
  RecoveriesTakeTheTimeout
  VerdictsAreEarned
  PercentilesInOrder
PROPERTY
  RecoveredStayRecovered
CHECK_DEADLOCK FALSE
