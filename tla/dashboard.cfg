\* The user signs in and out, the line or the server fails, answers overtake.
SPECIFICATION FairDashboard
CONSTANTS
  None = None
  Evals = {e1}
  Thresholds <- MCThresholds
  Readings <- MCReadings
  MaxChanges = 1
  Sockets = {w1, w2}
  Slots = {c1, c2}
  MaxClicks = 2
  MaxTroubles = 1
INVARIANTS  OneConnection
PROPERTIES MonitoringPageSettles
