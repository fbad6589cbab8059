SPECIFICATION Spec
CONSTANTS
  t1 = t1
  t2 = t2
  s1 = s1
  s2 = s2
  Tasks = {t1, t2}
  Sessions = {s1, s2}
  MaxSessions = 2
  Ttl = 2
  Lifetime = 1
  MaxTime = 0
  Faults = {"reject"}
INVARIANTS
  SourceUnauthorizedStaysLocal
