CONSTANTS
  Readers = {"cloudwatch", "stackdriver", "k8slogs"}
  Groups = 2
  MaxEvents = 3
  Bounds = {0, 1, 2, 3, 5}
  PageLimit = 2
  HalfRange = 4
  MaxEmpty = 1
  ByteLimits = {0, 2}
  ByteSlack = 1
  Pipes = {"loki", "cloudwatch", "stackdriver", "k8slogs"}
  Wildcard = "<*>"
  Logs <- LogsRead
  Numbered = {"1", "2"}
  GoFrames = {"go", "frame", "err", "panic", "created"}
  GoHeaders = {"err"}
  PyFrames = {"err", "py"}
  PyHeaders = {"tb"}
  Exceptions = {"err"}
  MaxDepth = 2
  MaxChildren = 3
  MaxClusters = 5
  GoWindow = 2
  PyWindow = 1
  MinGroup = 2
SPECIFICATION CollectSpec
INVARIANTS
  TypeOK
  CompleteIsWhole
  CompleteButForShortCuts
  TruncatedLeftSome
  PatternsDistinct
  EntriesLand
  CountsAddUp
PROPERTIES
  Terminates
