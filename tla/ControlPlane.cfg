SPECIFICATION Spec
CONSTANTS
  Processes = {p1, p2}
  Updates = {u1, u2, u3}
  Overlap = FALSE
  MaxLoads = 2
  MaxCrashes = 1
  Asks = {a1, a2, a3}
  Ports = {5000, 5001}
  MaxStarts = 2
  MaxOthers = 1
  Pids = {d1, d2, d3}
  NoPid = NoPid
  Streams = {t1, t2}
  MaxLines = 4
  Kept = 3
  Listed = 2
  MaxApplies = 3
  MaxEdits = 1
  Urls = {"url1", "url2"}
  Literal = FALSE
  MaxInstalls = 2
  MaxChangesByUser = 3
INVARIANTS   DescriptorIsTruthful StreamIsUnbroken LiveStreamIsFed WhatIsWrittenRuns AppliedPlanIsComplete ReportsAgree KeyOpensData
PROPERTIES StateIsDurable AccountIsKept IssuerIsKept
CHECK_DEADLOCK FALSE
