\* One browser, every kind of connection to it, two requests of its pages.
SPECIFICATION FairSpec
CONSTANTS
  r1 = r1
  r2 = r2
  Requests = {r1, r2}
  MaxChallenges = 1
  MaxChunk = 2
INVARIANTS CredentialsOnlyToTheProxy HeldRequestsAreOnTheirWay
PROPERTIES  EveryCallSettles
\* The calls are made once, so the system stops when all have ended.
CHECK_DEADLOCK FALSE
