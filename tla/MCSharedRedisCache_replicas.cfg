SPECIFICATION Spec
CONSTANTS
  q2023 = q2023
  q2024 = q2024
  general = general
  secret = secret
  k2023 = k2023
  k2024 = k2024
  kgeneral = kgeneral
  None = None
  Threads = {r1, r2}
  Replicas = {r1, r2}
  ReplicaOf <- MCReplicaOf
  Keys = {k2023, k2024, kgeneral}
  Hash <- MCHash
  Queries <- MCQueries
  Private <- MCPrivate
  Numbers <- MCNumbers
  Cosine <- MCCosine
  Exact = 2
  Threshold = 1
  TTL = 1
  MaxSets = 2
SYMMETRY ReplicaSymmetry
INVARIANTS
  TypeOK
  ServesAcceptable
PROPERTIES
  SurvivesOutage
  PairedUnlessOvertaken
  FlushForgets
