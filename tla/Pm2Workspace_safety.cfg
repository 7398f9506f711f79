SPECIFICATION Spec
CONSTANTS
  c1 = c1
  c2 = c2
  c3 = c3
  p1 = p1
  p2 = p2
  Calls = {c1, c2, c3}
  Procs = {p1, p2}
  ProcOf <- ProcOfCall
  Spawners = {c1, c3}
  Nobody = Nobody
  NoOwner = NoOwner
  MaxDaemons = 2
  LockTimeout = 1
  StaleAfter = 2
  Deaths = "quiet"
SYMMETRY InterchangeableCalls
INVARIANTS MutualExclusion SingleDaemon
PROPERTIES GuardSpec
CHECK_DEADLOCK FALSE
