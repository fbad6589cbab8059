SPECIFICATION Spec
CONSTANTS
  a1 = a1
  g1 = g1
  p1 = p1
  t1 = t1
  Tasks = {t1}
  Principals = {p1}
  Actions = {a1}
  Grants = {g1}
  NeedsApproval = {}
  Recoverable = {a1}
  Guarded = {}
  MaxActions = 1
  Ttl = 1
  MaxTime = 1
  AuditRequired = FALSE
  Faults = {"cancel"}
SYMMETRY TaskSymmetry
INVARIANTS
  CommitLeavesUnknown
