SPECIFICATION ReviewSpec
CONSTANTS
  x1 = x1
  NReviewed = 2
  Commands = {x1}
  MaxRevision = 2
  MaxSteps = 3
  Statuses = {"completed", "stale"}
  Unregistered = {}
INVARIANTS
  ReadyIsRecommended
