SPECIFICATION FairSpec
CONSTANTS
  s1 = s1
  s2 = s2
  a1 = a1
  a2 = a2
  Services = {s1, s2}
  Inspectable = {s1}
  Attempts = {a1}
  Nobody = Nobody
  Earlier = Earlier
  Faults = {"offline", "external"}
INVARIANTS FailureReport AllAccounted
PROPERTIES Converges
