CONSTANTS
  N = 3
  Concurrency = 2
  MaxPages = 2
  Providers = {"aws", "azure", "k8s"}
SPECIFICATION ClusterSpec
INVARIANTS
  TypeOK
  CompleteIsWhole
PROPERTIES
  KeepsContract
  Terminates
