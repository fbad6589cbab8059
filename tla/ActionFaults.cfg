SPECIFICATION Spec
CONSTANTS
  a1 = a1
  a2 = a2
  g1 = g1
  p1 = p1
  t1 = t1
  t2 = t2
  Tasks = {t1, t2}
  Principals = {p1}
  Actions = {a1, a2}
  Grants = {g1}
  NeedsApproval = {a1}
  Recoverable = {a1}
  Guarded = {a2}
  MaxActions = 1
  Ttl = 1
  MaxTime = 1
  AuditRequired = TRUE
  Faults = {"cancel", "crash", "lock", "audit", "source"}
SYMMETRY TaskSymmetry
INVARIANTS
  AtMostOneMutation
  SuccessIsReal
  RequiredAuditBrackets
  AnswersAgree
PROPERTIES
  StatusFollowsTable
  ImplementsContract
