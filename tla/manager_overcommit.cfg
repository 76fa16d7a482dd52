\* Two launches of one profile overlap; the other profile waits.
SPECIFICATION ManagerSpec
CONSTANTS
  p1 = p1
  p2 = p2
  l1 = l1
  l2 = l2
  l3 = l3
  s1 = s1
  s2 = s2
  NoOne = NoOne
  Profiles <- TwoProfiles
  Launches <- ThreeLaunches
  Stops <- OneStop
  ProfileOf <- Mostly1
  LocksMayAge = FALSE
  Overlap = TRUE
  AuthPending = FALSE
  SpawnRetries = 0
  SessionInsertFails = FALSE
  MaxRestarts = 0
  MaxConcurrent = 1
  CheckDisk = FALSE
  Reaps <- NoReaps
  ClientsOverlap = TRUE
INVARIANTS BrowsersWithinCap
\* Every call is used once, so the system stops when they are used up.
CHECK_DEADLOCK FALSE
