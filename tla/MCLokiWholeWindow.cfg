CONSTANTS
  WindowStart = 1
  WindowEnd = 3
  PerInstant = 3
  PageLimit = 2
  ClientRetries = 1
  Walks = {"loki"}
  ResultCap = 3
  BatchLimit = 2
  MaxHeld = 5
  Waits = {1}
  RetryDeadline = 2
SPECIFICATION SearchSpec
INVARIANT
  CompleteIsWholeWindow
