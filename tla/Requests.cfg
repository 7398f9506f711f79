SPECIFICATION MCSpec
CONSTANTS
  s1 = s1
  s2 = s2
  s3 = s3
  n1 = n1
  n2 = n2
  p1 = p1
  p2 = p2
  p3 = p3
  c1 = c1
  c2 = c2
  Pids = {p1, p2, p3}
  NoPid = NoPid
  MaxStart = 3
  Services = {s1, s2, s3}
  Names = {n1, n2}
  NameOf <- DisplayName
  RuntimeNameOf <- EntryName
  Pm2Services = {s1, s2}
  Launchable = {s1, s2}
  Graphs <- Declarations
  Calls = {c1, c2}
  TaskRequests <- TasksOf
  ListRequests <- ListsOf
  Nobody = Nobody
  FirstPid <- FirstPidOf
  Attempts = 2
  ProcessIds = {q0, q1, q2}
  Protected = {q0}
  Programs = {"node", "vite"}
  NoTarget = NoTarget
  MaxMinutes = 1
  MaxCalls = 3
  MaxEvents = 3
  ReusedInBetween = FALSE
  EnvKeys = {"WEB_PORT", "API_PORT"}
  Values = {"4000", "5000", "40 #00"}
  Escaped = {"40 #00"}
  Unset = Unset
  Garbled = Garbled
  MaxWrites = 2
  MaxUserChanges = 1
  WriteFaults = {}
  Endpoints = {"app", "api"}
  EndpointPorts = {1, 2}
  Appliers = {"http"}
  MaxDeclares = 2
  MaxRuns = 2
  AccessFaults = {"late"}
INVARIANTS DependenciesFirst ObsoleteTreeGone SavedListCurrent TerminatedIsReviewed WrittenIsLoaded AccessRoutesKept
PROPERTIES ForeignSpared TasksKeepGuard
CHECK_DEADLOCK FALSE
