SPECIFICATION Spec
CONSTANTS
  Threads = {t1, t2}
  q2023 = q2023
  q2024 = q2024
  general = general
  blank = blank
  secret = secret
  None = None
  Queries <- MCQueries
  Private <- MCPrivate
  Numbers <- MCNumbers
  Cosine <- MCCosine
  Exact = 4
  Threshold = 2
  TTL = 1
  MaxWait = 1
  MaxEntries = 3
INVARIANTS
  TypeOK
  ServesAcceptable
PROPERTIES
  OwnAnswerIsFound
  NothingLiveIsDropped
SYMMETRY ThreadSymmetry
