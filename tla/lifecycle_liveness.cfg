\* Browser and server crash, calls overlap, launches are slow, an insert fails.
SPECIFICATION FairSpec
CONSTANTS
  p1 = p1
  p2 = p2
  l1 = l1
  l2 = l2
  l3 = l3
  s1 = s1
  s2 = s2
  NoOne = NoOne
  Profiles <- OneProfile
  Launches <- TwoLaunches
  Stops <- OneStop
  ProfileOf <- AllOnOne
  LocksMayAge = TRUE
  Overlap = TRUE
  AuthPending = TRUE
  SpawnRetries = 0
  SessionInsertFails = TRUE
  MaxRestarts = 1
PROPERTIES CallsReturn UntouchedDeathNoticed  
\* Every call is used once, so the system stops when they are used up.
CHECK_DEADLOCK FALSE
