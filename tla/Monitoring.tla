----------------------------- MODULE Monitoring -----------------------------
(* The monitoring service (packages/api/src/monitoring/): an interval starts *)
(* an evaluation, which reads the database, waits for `df`, reads the disk   *)
(* and the launch queue, and then tells the listeners of the alerts that     *)
(* were raised and cleared since the last one.  The interval does not wait,  *)
(* so a slow evaluation is overtaken by the next.                            *)
(*                                                                           *)
(* The metrics that a summary carries along are left out; its alerts are not *)
(* cached, they are the active ones when it is answered.                     *)
EXTENDS Integers

CONSTANTS
  None,          \* nothing: a disk that cannot be measured, a call's no answer
  Evals,         \* bound: evaluations under way at a time
  Thresholds,    \* options.thresholds, the failure rate in percent
  Readings,      \* what the system may be like
  MaxChanges     \* bound: changes of the system

(* Other thresholds make the constructor throw.                              *)
ResolveThresholds(t) ==
  /\ \A k \in DOMAIN t : t[k] \in Nat
  /\ t.failureRate <= 100
  /\ t.diskCritical <= t.diskWarn

ASSUME MonitoringAssumption ==
  /\ ResolveThresholds(Thresholds)
  /\ MaxChanges \in Nat

VARIABLES
  system,        \* external: what a collection would read now
  changes,       \* changes of the system so far
  up,            \* the server runs
  evaluations,   \* the rows each evaluation has read; None when it is not under way
  activeAlerts,  \* the alerts of the last evaluation
  told           \* history: of each alert, events raised minus events cleared

monitoring == <<system, changes, up, evaluations, activeAlerts, told>>

AlertIds == {"disk-critical", "disk-warning", "queue-backlog", "launch-failures", "run-failures"}

(* ------------------------------------------------- collecting, evaluating *)

Rows(s) == [failures |-> s.failures, finished |-> s.finished, failed |-> s.failed]

(* The rows were read before the disk and the queue.                         *)
CollectMetrics(rows, s) == [s EXCEPT !.failures = rows.failures, !.finished = rows.finished,
                                     !.failed = rows.failed]

DiskAlerts(free) ==
  IF free = None THEN {}
  ELSE IF free < Thresholds.diskCritical THEN {"disk-critical"}
  ELSE IF free < Thresholds.diskWarn THEN {"disk-warning"} ELSE {}

(* No failure rate is computed of no runs.                                   *)
FailureRateReached(failed, finished) ==
  IF finished = 0 THEN Thresholds.failureRate = 0
  ELSE 100 * failed >= Thresholds.failureRate * finished

EvaluateAlerts(m) ==
  DiskAlerts(m.free)
    \cup {a \in {"queue-backlog"} : m.depth > Thresholds.queueBacklog}
    \cup {a \in {"launch-failures"} : m.failures >= Thresholds.launchFailures}
    \cup {a \in {"run-failures"} : /\ m.finished >= Thresholds.minRuns
                                   /\ FailureRateReached(m.failed, m.finished)}

(* ----------------------------------------------------------- the service *)

ServiceInit ==
  /\ evaluations = [e \in Evals |-> None]
  /\ activeAlerts = {}
  /\ told = [a \in AlertIds |-> 0]

MonitoringInit ==
  /\ system \in Readings
  /\ changes = 0
  /\ up = TRUE
  /\ ServiceInit

(* The interval fires: collectMetrics reads the rows and goes on to `df`.    *)
Begin(e) ==
  /\ up
  /\ evaluations[e] = None
  /\ evaluations' = [evaluations EXCEPT ![e] = Rows(system)]
  /\ UNCHANGED <<system, changes, up, activeAlerts, told>>

Found(e) == EvaluateAlerts(CollectMetrics(evaluations[e], system))

(* A mutant: an alert is announced by every evaluation that finds it.        *)
RaisedEachTime(e) == Found(e)

Raised(e) == Found(e) \ activeAlerts
Cleared(e) == activeAlerts \ Found(e)

(* `df` has answered; the rest of evaluate() does not wait for anything.     *)
Finish(e) ==
  /\ up
  /\ evaluations[e] # None
  /\ evaluations' = [evaluations EXCEPT ![e] = None]
  /\ activeAlerts' = Found(e)
  /\ told' = [a \in AlertIds |-> IF a \in Raised(e) THEN told[a] + 1
                                 ELSE IF a \in Cleared(e) THEN told[a] - 1 ELSE told[a]]
  /\ UNCHANGED <<system, changes, up>>

(* getSummary, for the routes /v1/monitoring/summary and /alerts.            *)
Summary == activeAlerts

(* Stopped by close() or killed: the alerts are in memory only.              *)
ServiceStops ==
  /\ up
  /\ up' = FALSE
  /\ evaluations' = [e \in Evals |-> None]
  /\ activeAlerts' = {}
  /\ told' = [a \in AlertIds |-> 0]
  /\ UNCHANGED <<system, changes>>

ServiceStarts ==
  /\ ~up
  /\ up' = TRUE
  /\ UNCHANGED <<system, changes, evaluations, activeAlerts, told>>

SystemChanges ==
  /\ changes < MaxChanges
  /\ changes' = changes + 1
  /\ system' \in Readings \ {system}
  /\ UNCHANGED <<up, evaluations, activeAlerts, told>>

(* ------------------------------------------------------------- properties *)

(* Whoever follows the events knows the active alerts: however evaluations   *)
(* overlap, an alert is raised once before it is cleared, and cleared once   *)
(* before it is raised again ("on transitions only", service.ts:5).          *)
ToldIsActive ==
  \A a \in AlertIds : told[a] = IF a \in activeAlerts THEN 1 ELSE 0
=============================================================================
