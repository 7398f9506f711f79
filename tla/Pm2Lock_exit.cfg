SPECIFICATION LockSpec
CONSTANTS
  c1 = c1
  c2 = c2
  c3 = c3
  p1 = p1
  p2 = p2
  p3 = p3
  Calls = {c1, c2, c3}
  Procs = {p1, p2, p3}
  ProcOf <- ProcOfCall
  NoOwner = NoOwner
  LockTimeout = 1
  StaleAfter = 2
  Deaths = "any"
INVARIANTS MutualExclusion
CHECK_DEADLOCK FALSE
