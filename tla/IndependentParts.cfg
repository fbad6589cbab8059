SPECIFICATION PartsSpec
CONSTANTS
  c1 = c1
  c2 = c2
  c3 = c3
  k1 = k1
  k2 = k2
  e1 = e1
  e2 = e2
  Calls = {c1, c2, c3}
  Keys = {k1, k2}
  Entries = {e1, e2}
  MaxEntries = 1
  Foreign = TRUE
  t1 = t1
  t2 = t2
  h1 = h1
  h2 = h2
  d1 = d1
  Tasks = {t1, t2}
  Handles = {h1, h2}
  Decisions = {d1}
  MaxPending = 1
  MaxDecisions = 1
  Ttl = 1
  MaxTime = 1
  d2 = d2
  Domains = {d2}
  Baselines = {1, 2}
  Texts = {1, 2}
  MaxEdits = 2
  MaxRunning = 1
  Resigns = TRUE
  NDomains = 3
  NMapped = 3
  Reasons = {"none", "output added", "contract changed", "evidence changed"}
  Bindings = {"none", "domain evidence", "read claim", "security claim"}
  x1 = x1
  x2 = x2
  NReviewed = 2
  Commands = {x1, x2}
  MaxRevision = 2
  MaxSteps = 3
  Statuses = {"completed", "stale"}
  Unregistered = {2}
  Branches = {1, 2, 3}
  Depth = 2
  Capabilities <- SampleCapabilities
  OperationScopes <- SampleScopes
  Ceilings <- SampleCeilings
  Permissions <- SamplePermissions
  ScopeMapping <- SampleMapping
  Workflows <- SampleWorkflows
  Size <- SampleSize
SYMMETRY PartsSymmetry
INVARIANTS
  Exclusion
  TableIsInUse
  WaitersAreWoken
  ApprovalIsDecided
  AnswerIsTrue
  PackagedWasExecuted
  GuidanceFitsTools
  ImpactIsClosed
  AnswerIsAccounted
  ImpactIsExact
  WriteKeepsValid
  ProvenIsSubset
  StatusForetellsRun
  SingleMutation
PROPERTIES
  AppliesToPrepared
  DecisionEndsOnce
  DecisionIsCurrent
  SettledStaysSettled
