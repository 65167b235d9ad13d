SPECIFICATION FairSpec
CONSTANTS
  Clients = {c1, c2}
  FailureThreshold = 1
  SuccessThreshold = 1
  ResetTimeout = 1
  ProbeTTL = 1
  LockTTL = 2
  StateTTL = 2
  CountCap = 2
  SlowMethods = TRUE
  Overlap = TRUE
INVARIANTS
  TypeOK
  SingleProbeUnlessOvertaken
PROPERTIES
  RecoversOnceHealthy
  TripsOnceFailing
