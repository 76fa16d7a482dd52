\* Two jobs for one slot, and two crashes of the server.
SPECIFICATION FairSpec
CONSTANTS
  r1 = r1
  r2 = r2
  NoRun = NoRun
  Runs <- TwoRuns
  MaxConcurrentRuns = 1
  MaxRestarts = 2
INVARIANTS  NoRunLost
PROPERTIES FinishedIsFinal EveryRunEnds
\* Every job is created once, so the system stops when all have ended.
CHECK_DEADLOCK FALSE
