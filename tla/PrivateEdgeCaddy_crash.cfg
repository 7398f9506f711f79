\* A shared sidecar that watches its configuration, two services, commands that
\* fail, crashes, and a user who stops the services.
CONSTANTS
  s1 = s1
  s2 = s2
  Services <- Two
  Sidecar = TRUE
  Watched = TRUE
  MaxTries = 3
  Faults = {"crash", "stop"}
SPECIFICATION MCSpec
INVARIANTS TypeOK Recoverable RestartSafe
PROPERTIES Restored StopsOnlyOwn
SYMMETRY Symmetry
CHECK_DEADLOCK FALSE
