SPECIFICATION Spec
CONSTANTS
  c1 = c1
  c2 = c2
  c3 = c3
  p1 = p1
  p2 = p2
  Calls = {c1, c2, c3}
  Procs = {p1, p2}
  ProcOf <- ProcOfShared
  NoOwner = NoOwner
  LockTimeout = 1
  StaleAfter = 2
  Deaths = "any"
  MaxChanges = 3
  Services = {"web", "mail"}
PROPERTIES RequestSettles AbandonedLockRecovered ChangeIsReloaded
CHECK_DEADLOCK FALSE
