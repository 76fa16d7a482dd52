---------------------------- MODULE MCDashboard ----------------------------
EXTENDS Dashboard

MCThresholds == [diskCritical |-> 1, diskWarn |-> 2, queueBacklog |-> 10, launchFailures |-> 5,
                 failureRate |-> 50, minRuns |-> 3]

Calm == [free |-> 9, depth |-> 0, failures |-> 0, finished |-> 4, failed |-> 1]
Failing == [Calm EXCEPT !.failed = 2]
MCReadings == {Calm, Failing}
=============================================================================
