SPECIFICATION FairSpec
CONSTANTS
  FailureThreshold = 1
  SuccessThreshold = 1
  ResetTimeout = 1
  CountCap = 1
  Threads = {t1, t2, t3}
  Prompts = {q1, q2}
  Private = {q2}
  Caching = TRUE
  Providers = {1, 2}
  Rate <- MCRate
  CallCost <- MCCallCost
  DearestCall = 2
  MaxCost = 4
  SoftLimit = 2
  MaxRequests = 5
INVARIANTS
  TypeOK
  OverrunBelowOneAnswer
  CallsWithinLimits
  NothingBoughtTwice
  ProbesAreSingle
PROPERTY
  EveryRequestAnswered
CHECK_DEADLOCK FALSE
