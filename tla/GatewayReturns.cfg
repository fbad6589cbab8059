SPECIFICATION Spec
CONSTANTS
  t1 = t1
  t2 = t2
  s1 = s1
  s2 = s2
  Tasks = {t1, t2}
  Sessions = {s1}
  MaxSessions = 1
  Ttl = 1
  Lifetime = 1
  MaxTime = 1
  Faults = {"cancel", "crash", "lock", "reject"}
PROPERTIES
  RequestsReturn
