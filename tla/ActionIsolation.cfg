SPECIFICATION Spec
CONSTANTS
  a1 = a1
  a2 = a2
  a3 = a3
  g1 = g1
  p1 = p1
  p2 = p2
  t1 = t1
  t2 = t2
  Tasks = {t1, t2}
  Principals = {p1, p2}
  Actions = {a1, a2, a3}
  Grants = {g1}
  NeedsApproval = {a1, a2}
  Recoverable = {a2}
  Guarded = {a3}
  MaxActions = 2
  Ttl = 1
  MaxTime = 0
  AuditRequired = TRUE
  Faults = {}
SYMMETRY TaskSymmetry
INVARIANTS
  OnlyOwnerIsTold
  ApprovalPrecedesMutation
