CONSTANTS
  N = 3
  Concurrency = 2
  DefaultConcurrency = 10
  Providers = {"gcp", "github", "bitbucket", "gitlab"}
  Group <- Groups
  SubgroupsOf <- Below
  MaxDepth = 2
SPECIFICATION WalkSpec
INVARIANTS
  TypeOK
  SlotsNotShared
  CompleteIsWhole
  CompleteReadsTree
  EnumerationsAgree
PROPERTIES
  KeepsContract
  Terminates
