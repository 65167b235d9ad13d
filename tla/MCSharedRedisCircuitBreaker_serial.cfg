SPECIFICATION Spec
CONSTANTS
  Clients = {c1, c2, c3}
  FailureThreshold = 2
  SuccessThreshold = 2
  ResetTimeout = 2
  ProbeTTL = 2
  LockTTL = 3
  StateTTL = 4
  CountCap = 3
  SlowMethods = FALSE
  Overlap = FALSE
PROPERTIES
  ContractSpec
  KeepsOpenedAt
