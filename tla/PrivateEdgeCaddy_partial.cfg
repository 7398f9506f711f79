\* A reconciliation while another service is selected and not yet applied.
CONSTANTS
  s1 = s1
  s2 = s2
  Services <- Two
  Sidecar = TRUE
  Watched = TRUE
  MaxTries = 2
  Faults = {}
SPECIFICATION MCSpec
PROPERTIES ReconcileOnlyRemoves
CHECK_DEADLOCK FALSE
