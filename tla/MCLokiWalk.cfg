CONSTANTS
  WindowStart = 1
  WindowEnd = 3
  PerInstant = 3
  PageLimit = 2
  ClientRetries = 2
  Walks = {"loki", "hubspot", "notion", "slackSearch", "slackChannel"}
  ResultCap = 3
  BatchLimit = 2
  MaxHeld = 5
  Waits = {1, 2}
  RetryDeadline = 2
SPECIFICATION SearchSpec
INVARIANTS
  TypeOK
  CompleteButForPageEdges
PROPERTIES
  Terminates
