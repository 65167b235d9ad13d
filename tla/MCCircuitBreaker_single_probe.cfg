SPECIFICATION Spec
CONSTANTS
  FailureThreshold = 3
  SuccessThreshold = 2
  ResetTimeout = 2
  CountCap = 4
  Threads = {t1, t2, t3}
SYMMETRY ThreadSymmetry
INVARIANT AtMostOneProbe
