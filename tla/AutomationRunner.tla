-------------------------- MODULE AutomationRunner --------------------------
(***************************************************************************)
(* The AutomationRunner of packages/api/src/automation/runner.ts with the  *)
(* job and run rows of repository.ts: jobs are created, queued, claimed    *)
(* under a concurrency cap, executed against a browser tab with a timer,   *)
(* cancelled, and reconciled after a crash of the server.                  *)
(*                                                                         *)
(* A job has exactly one run, so both go by the name of the run.  The      *)
(* promise that executes the steps of a script (work) and the one that     *)
(* races it against the timer (exec) are processes of their own.  As in    *)
(* ProfileLifecycle, a call that waits only for the database is not        *)
(* interrupted by timers, I/O or requests, but the server may die midway.  *)
(***************************************************************************)
EXTENDS Naturals, Sequences, FiniteSets, SequencesExt

CONSTANTS
  Runs,              \* the jobs ever created, each with its run
  MaxConcurrentRuns, \* options.maxConcurrentRuns
  NoRun,             \* null
  MaxRestarts        \* bound: how often the server process dies

ASSUME AutomationAssumption ==
  /\ IsFiniteSet(Runs)
  /\ NoRun \notin Runs
  /\ MaxConcurrentRuns \in Nat \ {0}
  /\ MaxRestarts \in Nat

VARIABLES
  \* rows of SQLite
  runStatus,    \* automation_runs.status
  jobStatus,    \* automation_jobs.status
  createdAt,    \* automation_runs.created_at
  \* memory of the server process
  making,       \* createJob has inserted the run, its handler goes on to enqueue it
  queue,        \* AutomationRunner.queue
  claimed,      \* AutomationRunner.running
  exec,         \* where runClaimed and executeRun of each run are
  outcome,      \* the status fail() is to write
  work,         \* where the steps of each run are
  aborted,      \* abortState.aborted
  cancelling,   \* where the finishCancelled of each run is
  closing,      \* whether close() has begun, has emptied the queue, or is done
  \* the browser
  tab,          \* runs with an open automation tab
  server,       \* up, or where start() is
  restarts

rows == <<runStatus, jobStatus>>
runner == <<making, queue, claimed, exec, outcome, work, aborted, cancelling, closing>>
vars == <<rows, createdAt, runner, tab, server, restarts>>
outside == <<createdAt, server, restarts>>

RunStatuses == {"queued", "running", "completed", "failed", "cancelled", "timed_out"}
JobStatuses == RunStatuses \ {"timed_out"}
ExecSteps == {"none", "claim", "start", "startJob", "race", "fail", "failJob",
              "cancel", "closeTab", "release"}
WorkSteps == {"none", "open", "steps", "complete", "completeJob", "done", "threw"}

TypeOK ==
  /\ runStatus \in [Runs -> RunStatuses \cup {"none"}]
  /\ jobStatus \in [Runs -> JobStatuses \cup {"none"}]
  /\ createdAt \in [Runs -> Nat]
  /\ making \in SUBSET Runs
  /\ queue \in Seq(Runs)
  /\ claimed \in SUBSET Runs
  /\ Cardinality(claimed) <= MaxConcurrentRuns
  /\ exec \in [Runs -> ExecSteps]
  /\ outcome \in [Runs -> {"failed", "timed_out"}]
  /\ work \in [Runs -> WorkSteps]
  /\ aborted \in SUBSET Runs
  /\ cancelling \in [Runs -> {"no", "read", "run", "job"}]
  /\ closing \in {"no", "drain", "done"}
  /\ tab \in SUBSET Runs
  /\ server \in [step : {"up", "select", "fail", "failJob"},
                 todo : SUBSET Runs, on : Runs \cup {NoRun}]
  /\ restarts \in 0 .. MaxRestarts

Init ==
  /\ runStatus = [r \in Runs |-> "none"]
  /\ jobStatus = [r \in Runs |-> "none"]
  /\ createdAt = [r \in Runs |-> 0]
  /\ making = {}
  /\ queue = << >>
  /\ claimed = {}
  /\ exec = [r \in Runs |-> "none"]
  /\ outcome = [r \in Runs |-> "failed"]
  /\ work = [r \in Runs |-> "none"]
  /\ aborted = {}
  /\ cancelling = [r \in Runs |-> "no"]
  /\ closing = "no"
  /\ tab = {}
  /\ server = [step |-> "up", todo |-> {}, on |-> NoRun]
  /\ restarts = 0

-----------------------------------------------------------------------------
SetRun(r, status) == runStatus' = [runStatus EXCEPT ![r] = status] /\ UNCHANGED jobStatus
SetJob(r, status) == jobStatus' = [jobStatus EXCEPT ![r] = status] /\ UNCHANGED runStatus

ExecGoto(r, step) == exec' = [exec EXCEPT ![r] = step]
WorkGoto(r, step) == work' = [work EXCEPT ![r] = step]

\* pump(): runs leave queue q in order while fewer than the cap are in c.
Pump(q, c) ==
  LET free == IF closing # "no" THEN 0 ELSE MaxConcurrentRuns - Cardinality(c)
      n == IF free < Len(q) THEN free ELSE Len(q)
      next == ToSet(SubSeq(q, 1, n))
  IN /\ queue' = SubSeq(q, n + 1, Len(q))
     /\ claimed' = c \cup next
     /\ exec' = [r \in Runs |-> IF r \in next THEN "claim"
                                ELSE IF r \in c THEN exec[r] ELSE "none"]

-----------------------------------------------------------------------------
\* The API: create a job, cancel it, close the runner.

Existing == {r \in Runs : runStatus[r] # "none"}

\* createJob: one transaction inserts job and run.
CreateJob(r) ==
  /\ runStatus[r] = "none"
  /\ runStatus' = [runStatus EXCEPT ![r] = "queued"]
  /\ jobStatus' = [jobStatus EXCEPT ![r] = "queued"]
  /\ createdAt' = [createdAt EXCEPT ![r] = Cardinality(Existing) + 1]
  /\ making' = making \cup {r}
  /\ UNCHANGED <<queue, claimed, exec, outcome, work, aborted, cancelling, closing,
                 tab, server, restarts>>

\* enqueueRun: a closed runner leaves the row to the next boot.
EnqueueRun(r) ==
  /\ r \in making
  /\ making' = making \ {r}
  /\ IF closing # "no" \/ r \in ToSet(queue) \/ r \in claimed
     THEN UNCHANGED <<queue, claimed, exec>>
     ELSE Pump(Append(queue, r), claimed)
  /\ UNCHANGED <<rows, outcome, work, aborted, cancelling, closing, tab, outside>>

\* cancelJobRoute and cancelRun: a queued run leaves the queue and is finished,
\* a running one gets its abort flag.  A claimed run is never seen still
\* 'queued': runClaimed waits for nothing but the database before 'running'.
CancelRun(r) ==
  /\ runStatus[r] \in {"queued", "running"}
  /\ \/ /\ \E i \in DOMAIN queue : queue[i] = r /\ queue' = RemoveAt(queue, i)
        /\ cancelling' = [cancelling EXCEPT ![r] = "read"]
        /\ UNCHANGED aborted
     \/ /\ r \in claimed
        /\ aborted' = aborted \cup {r}
        /\ UNCHANGED <<queue, cancelling>>
  /\ UNCHANGED <<rows, making, claimed, exec, outcome, work, closing, tab, outside>>

\* close(): the queue is emptied and everybody in it finished ...
Close ==
  /\ closing = "no"
  /\ closing' = "drain"
  /\ queue' = << >>
  /\ cancelling' = [r \in Runs |-> IF r \in ToSet(queue) THEN "read" ELSE cancelling[r]]
  /\ UNCHANGED <<rows, making, claimed, exec, outcome, work, aborted, tab, outside>>

\* ... then what is running is aborted.
CloseAborts ==
  /\ closing = "drain"
  /\ \A r \in Runs \ claimed : cancelling[r] = "no"
  /\ closing' = "done"
  /\ aborted' = aborted \cup {r \in claimed : exec[r] # "claim"}
  /\ UNCHANGED <<rows, making, queue, claimed, exec, outcome, work, cancelling, tab, outside>>

\* finishCancelled: getRun, then the run's row, then the job's.
FinishReads(r) ==
  /\ cancelling[r] = "read"
  /\ cancelling' = [cancelling EXCEPT ![r] =
                      IF runStatus[r] \in {"queued", "running"} THEN "run" ELSE "no"]
  /\ UNCHANGED <<rows, making, queue, claimed, exec, outcome, work, aborted, closing, tab, outside>>

FinishRun(r) ==
  /\ cancelling[r] = "run"
  /\ SetRun(r, "cancelled")
  /\ cancelling' = [cancelling EXCEPT ![r] = "job"]
  /\ UNCHANGED <<making, queue, claimed, exec, outcome, work, aborted, closing, tab, outside>>

\* Mutant: finishCancelled forgets the job.
FinishJobForgets(r) ==
  /\ cancelling[r] = "job"
  /\ cancelling' = [cancelling EXCEPT ![r] = "no"]
  /\ UNCHANGED <<rows, making, queue, claimed, exec, outcome, work, aborted, closing, tab, outside>>

FinishJob(r) ==
  /\ cancelling[r] = "job"
  /\ SetJob(r, "cancelled")
  /\ cancelling' = [cancelling EXCEPT ![r] = "no"]
  /\ UNCHANGED <<making, queue, claimed, exec, outcome, work, aborted, closing, tab, outside>>

-----------------------------------------------------------------------------
\* runClaimed and executeRun.

\* getRun, and the claim is dropped if the run is not to be started any more.
Claim(r) ==
  /\ exec[r] = "claim"
  /\ ExecGoto(r, IF closing = "no" /\ runStatus[r] = "queued" THEN "start" ELSE "release")
  /\ UNCHANGED <<rows, making, queue, claimed, outcome, work, aborted, cancelling, closing, tab, outside>>

StartRun(r) ==
  /\ exec[r] = "start"
  /\ SetRun(r, "running")
  /\ ExecGoto(r, "startJob")
  /\ UNCHANGED <<making, queue, claimed, outcome, work, aborted, cancelling, closing, tab, outside>>

\* The job is running; work and timer start to race.
StartJob(r) ==
  /\ exec[r] = "startJob"
  /\ SetJob(r, "running")
  /\ ExecGoto(r, "race")
  /\ WorkGoto(r, "open")
  /\ UNCHANGED <<making, queue, claimed, outcome, aborted, cancelling, closing, tab, outside>>

\* The timer of runWithTimeout.  The promise it beats goes on regardless.
TimesOut(r) ==
  /\ exec[r] = "race"
  /\ work[r] \in {"open", "steps"}
  /\ outcome' = [outcome EXCEPT ![r] = "timed_out"]
  /\ ExecGoto(r, "fail")
  /\ UNCHANGED <<rows, making, queue, claimed, work, aborted, cancelling, closing, tab, outside>>

\* The work wins the race: it is complete, was aborted, or failed.
WorkWins(r) ==
  /\ exec[r] = "race"
  /\ \/ /\ work[r] = "done"
        /\ ExecGoto(r, "closeTab")
        /\ UNCHANGED cancelling
     \/ /\ work[r] = "threw"
        /\ r \in aborted
        /\ ExecGoto(r, "cancel")
        /\ cancelling' = [cancelling EXCEPT ![r] = "read"]
     \/ /\ work[r] = "threw"
        /\ r \notin aborted
        /\ ExecGoto(r, "fail")
        /\ UNCHANGED cancelling
  /\ UNCHANGED <<rows, making, queue, claimed, outcome, work, aborted, closing, tab, outside>>

\* fail(): the run's row, then the job's, which knows no 'timed_out'.
Fail(r) ==
  /\ exec[r] = "fail"
  /\ SetRun(r, outcome[r])
  /\ ExecGoto(r, "failJob")
  /\ UNCHANGED <<making, queue, claimed, outcome, work, aborted, cancelling, closing, tab, outside>>

FailJob(r) ==
  /\ exec[r] = "failJob"
  /\ SetJob(r, "failed")
  /\ ExecGoto(r, "closeTab")
  /\ UNCHANGED <<making, queue, claimed, outcome, work, aborted, cancelling, closing, tab, outside>>

Cancelled(r) ==
  /\ exec[r] = "cancel"
  /\ cancelling[r] = "no"
  /\ ExecGoto(r, "closeTab")
  /\ UNCHANGED <<rows, making, queue, claimed, outcome, work, aborted, cancelling, closing, tab, outside>>

\* The tab is closed if it is open by now.
CloseTab(r) ==
  /\ exec[r] = "closeTab"
  /\ tab' = tab \ {r}
  /\ ExecGoto(r, "release")
  /\ UNCHANGED <<rows, making, queue, claimed, outcome, work, aborted, cancelling, closing, outside>>

\* Mutant: a finished run makes room but nobody looks at the queue.
ReleaseWithoutPump(r) ==
  /\ exec[r] = "release"
  /\ claimed' = claimed \ {r}
  /\ ExecGoto(r, "none")
  /\ UNCHANGED <<rows, making, queue, outcome, work, aborted, cancelling, closing, tab, outside>>

\* The finally block of runClaimed.
Release(r) ==
  /\ exec[r] = "release"
  /\ Pump(queue, claimed \ {r})
  /\ UNCHANGED <<rows, making, outcome, work, aborted, cancelling, closing, tab, outside>>

-----------------------------------------------------------------------------
\* The steps of the script.

\* The profile is not running, or openTab succeeds or fails; one that fails
\* halfway counts as having opened no tab.
OpenTab(r) ==
  /\ work[r] = "open"
  /\ \/ WorkGoto(r, "steps") /\ tab' = tab \cup {r}
     \/ WorkGoto(r, "threw") /\ UNCHANGED tab
  /\ UNCHANGED <<rows, making, queue, claimed, exec, outcome, aborted, cancelling, closing, outside>>

\* A step fails, or sees the abort flag.
StepThrows(r) ==
  /\ work[r] = "steps"
  /\ WorkGoto(r, "threw")
  /\ UNCHANGED <<rows, making, queue, claimed, exec, outcome, aborted, cancelling, closing, tab, outside>>

\* The last step is done and the abort flag is not set: both rows are written.
LastStep(r) ==
  /\ work[r] = "steps"
  /\ r \notin aborted
  /\ WorkGoto(r, "complete")
  /\ UNCHANGED <<rows, making, queue, claimed, exec, outcome, aborted, cancelling, closing, tab, outside>>

Complete(r) ==
  /\ work[r] = "complete"
  /\ SetRun(r, "completed")
  /\ WorkGoto(r, "completeJob")
  /\ UNCHANGED <<making, queue, claimed, exec, outcome, aborted, cancelling, closing, tab, outside>>

CompleteJob(r) ==
  /\ work[r] = "completeJob"
  /\ SetJob(r, "completed")
  /\ WorkGoto(r, "done")
  /\ UNCHANGED <<making, queue, claimed, exec, outcome, aborted, cancelling, closing, tab, outside>>

-----------------------------------------------------------------------------
\* The server dies; the boot reaper has killed the browsers before start() runs.
ServerDies ==
  /\ restarts < MaxRestarts
  /\ restarts' = restarts + 1
  /\ server' = [step |-> "select", todo |-> {}, on |-> NoRun]
  /\ making' = {}
  /\ queue' = << >>
  /\ claimed' = {}
  /\ exec' = [r \in Runs |-> "none"]
  /\ outcome' = [r \in Runs |-> "failed"]
  /\ work' = [r \in Runs |-> "none"]
  /\ aborted' = {}
  /\ cancelling' = [r \in Runs |-> "no"]
  /\ closing' = "no"
  /\ tab' = {}
  /\ UNCHANGED <<rows, createdAt>>

Booting(step) == server.step = step /\ UNCHANGED <<createdAt, tab, restarts>>

\* Mutant: reconcile goes by the status of the job.
BootSelectsByJob ==
  /\ Booting("select")
  /\ server' = [server EXCEPT !.step = "fail", !.todo = {r \in Runs : jobStatus[r] = "running"}]
  /\ UNCHANGED <<rows, runner>>

\* reconcileInterruptedRuns: select, then two updates for each run found.
BootSelects ==
  /\ Booting("select")
  /\ server' = [server EXCEPT !.step = "fail", !.todo = {r \in Runs : runStatus[r] = "running"}]
  /\ UNCHANGED <<rows, runner>>

BootFails(r) ==
  /\ Booting("fail")
  /\ r \in server.todo
  /\ SetRun(r, "failed")
  /\ server' = [step |-> "failJob", todo |-> server.todo \ {r}, on |-> r]
  /\ UNCHANGED runner

BootFailsJob ==
  /\ Booting("failJob")
  /\ SetJob(server.on, "failed")
  /\ server' = [server EXCEPT !.step = "fail", !.on = NoRun]
  /\ UNCHANGED runner

\* Mutant: start() reconciles but does not requeue.
BootForgetsQueued ==
  /\ Booting("fail")
  /\ server.todo = {}
  /\ server' = [server EXCEPT !.step = "up"]
  /\ UNCHANGED <<rows, runner>>

\* The runs of S in the order of their creation.
OldestFirst(S) ==
  {q \in [1 .. Cardinality(S) -> S] :
     \A i, j \in 1 .. Cardinality(S) : i < j => createdAt[q[i]] < createdAt[q[j]]}

\* listQueuedRuns, and enqueueRun for each.
BootRequeues ==
  /\ Booting("fail")
  /\ server.todo = {}
  /\ server' = [server EXCEPT !.step = "up"]
  /\ \E q \in OldestFirst({r \in Runs : runStatus[r] = "queued"}) : Pump(q, {})
  /\ UNCHANGED <<rows, making, outcome, work, aborted, cancelling, closing>>

Boot == BootSelects \/ BootFailsJob \/ BootRequeues \/ \E r \in Runs : BootFails(r)

-----------------------------------------------------------------------------
\* Waiting for nothing but the database.
Midway(r) ==
  \/ r \in making
  \/ cancelling[r] # "no"
  \/ exec[r] \in {"claim", "start", "startJob", "fail", "failJob", "cancel", "release"}
  \/ exec[r] = "race" /\ work[r] \in {"done", "threw"}
  \/ exec[r] = "closeTab" /\ r \notin tab
  \/ work[r] \in {"complete", "completeJob"}

Up == server.step = "up"

NobodyMidway == closing # "drain" /\ \A r \in Runs : ~Midway(r)

\* The microtasks of a call on run r.
Continue(r) ==
  /\ Up
  /\ \/ EnqueueRun(r) \/ FinishReads(r) \/ FinishRun(r) \/ FinishJob(r)
     \/ Claim(r) \/ StartRun(r) \/ StartJob(r) \/ WorkWins(r) \/ Fail(r) \/ FailJob(r)
     \/ Cancelled(r) \/ Release(r) \/ Complete(r) \/ CompleteJob(r)

\* What a timer, the browser or a request brings about.
Turn == Up /\ NobodyMidway

CloseTabTurn(r) == Up /\ (r \in tab => NobodyMidway) /\ CloseTab(r)

Next ==
  \/ \E r \in Runs :
       \/ Continue(r)
       \/ CloseTabTurn(r)
       \/ Turn /\ CreateJob(r)
       \/ Turn /\ CancelRun(r)
       \/ Turn /\ TimesOut(r)
       \/ Turn /\ (OpenTab(r) \/ StepThrows(r) \/ LastStep(r))
  \/ Turn /\ Close
  \/ Up /\ CloseAborts
  \/ ServerDies
  \/ Boot

Spec == Init /\ [][Next]_vars

\* Microtasks run, timers fire, closing a tab has a timeout of its own, and a
\* boot runs to its end.  Steps need not ever end: the timer sees to that.
Fairness ==
  /\ \A r \in Runs : /\ WF_vars(Continue(r))
                     /\ SF_vars(CloseTabTurn(r))
                     /\ SF_vars(Turn /\ TimesOut(r))
  /\ WF_vars(Up /\ CloseAborts)
  /\ WF_vars(Boot)

FairSpec == Spec /\ Fairness

-----------------------------------------------------------------------------
Finished == {"completed", "failed", "cancelled"}

\* The status of the job that goes with a run (runner.ts 469-470).
JobStatusOf(status) == IF status = "timed_out" THEN "failed" ELSE status

Unattended(r) ==
  /\ Up
  /\ ~Midway(r)
  /\ exec[r] = "none"
  /\ closing # "drain"

\* A run that was completed, failed or cancelled stays so, whoever else still
\* writes to its row: a cancelled run is never started, a finished one never
\* cancelled, a reconciled one never finished (runner.ts 286-405, 575-582).
FinishedIsFinal ==
  [][\A r \in Runs : runStatus[r] \in Finished => runStatus'[r] = runStatus[r]]_vars

\* Once nothing is under way for a run, its job tells the same story, unless
\* the server died between the two rows (repository.ts 423-557).
JobFollowsRun ==
  \A r \in Runs : Unattended(r) /\ restarts = 0 => jobStatus[r] = JobStatusOf(runStatus[r])

\* No queued run is forgotten: it is in the queue or on its way into it, about
\* to be started or cancelled, or left to the next boot (runner.ts 249-270).
NoRunLost ==
  \A r \in Runs :
    Up /\ closing = "no" /\ runStatus[r] = "queued"
      => \/ r \in making \cup ToSet(queue)
         \/ exec[r] \in {"claim", "start"}
         \/ cancelling[r] # "no"

\* Nobody waits in the queue while a slot is free (runner.ts 340-383).
NoIdleSlot == queue # << >> => Cardinality(claimed) = MaxConcurrentRuns

\* A run leaves no tab behind in the profile, whichever way it ends, except when
\* its timer beats the opening of the tab (runner.ts 583-587).
TabsAreClosed == \A r \in tab : r \in claimed \/ outcome[r] = "timed_out"

\* Every job comes to an end, through any crash, unless the runner is closed
\* first (runner.ts 12-19, 245-261).
EveryRunEnds ==
  \A r \in Runs :
    runStatus[r] = "queued" ~> runStatus[r] \in Finished \cup {"timed_out"} \/ closing # "no"
=============================================================================
