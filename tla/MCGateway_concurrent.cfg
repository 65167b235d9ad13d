SPECIFICATION Spec
CONSTANTS
  FailureThreshold = 2
  SuccessThreshold = 1
  ResetTimeout = 1
  CountCap = 2
  Threads = {t1, t2, t3}
  Prompts = {q1, q2}
  Private = {q2}
  Caching = TRUE
  Providers = {1, 2}
  Rate <- MCRate
  CallCost <- MCFree
  DearestCall = 2
  MaxCost = 0
  SoftLimit = 2
  MaxRequests = 4
INVARIANTS
  DuplicatesBounded
  NoLeakedProbe
PROPERTY
  ProvidersAreProtected
CHECK_DEADLOCK FALSE
