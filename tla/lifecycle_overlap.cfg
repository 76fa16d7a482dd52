\* Three launches and two stops of one profile overlap freely.
SPECIFICATION Spec
CONSTANTS
  p1 = p1
  p2 = p2
  l1 = l1
  l2 = l2
  l3 = l3
  s1 = s1
  s2 = s2
  NoOne = NoOne
  Profiles <- OneProfile
  Launches <- ThreeLaunches
  Stops <- TwoStops
  ProfileOf <- AllOnOne
  LocksMayAge = FALSE
  Overlap = TRUE
  AuthPending = FALSE
  SpawnRetries = 1
  SessionInsertFails = FALSE
  MaxRestarts = 1
SYMMETRY SymLS
INVARIANTS OneBrowser LockAgreesWithLive  SessionsClosed
\* Every call is used once, so the system stops when they are used up.
CHECK_DEADLOCK FALSE
