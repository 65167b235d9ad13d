SPECIFICATION FairSpec
CONSTANTS
  Threads = {t1, t2, t3, t4}
  FailureThreshold = 3
  SuccessThreshold = 2
  ResetTimeout = 2
  CountCap = 4
INVARIANTS
  TypeOK
  ClosedBelowThreshold
  TimedUnlessClosed
  NoLeakedProbe
  SingleProbeUnlessOvertaken
PROPERTIES
  ContractSpec
  ClosesOnEvidence
  RecoversOnceHealthy
  RecoveryIsDecided
