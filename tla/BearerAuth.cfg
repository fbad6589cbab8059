SPECIFICATION FairSpec
CONSTANTS
  c1 = c1
  c2 = c2
  c3 = c3
  f1 = f1
  f2 = f2
  Calls = {c1, c2, c3}
  Flights = {f1, f2}
  MaxLogins = 2
  Retry = TRUE
INVARIANTS
  OneLogin
  LoginIsAwaited
  NoNeedlessLogin
PROPERTIES
  RefusedIsNotSent
  CallsReturn
