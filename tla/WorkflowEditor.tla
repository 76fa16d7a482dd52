--------------------------- MODULE WorkflowEditor ---------------------------
(* The workflows page (packages/web/src/pages/Workflows.tsx) against the     *)
(* scripts, jobs and runs of the server (packages/api/src/automation/).      *)
(*                                                                           *)
(* A click starts a call; the call reaches the server, is answered, and its  *)
(* answer comes back to a page that may have moved on.  Each of these is a   *)
(* step of its own, and nothing orders the answers of two calls.  `busy`     *)
(* disables the Save and Run buttons and the version menu, and nothing else: *)
(* the blocks stay editable, and the list of scripts and the New button can  *)
(* be clicked.  With Patient set the user does not click those two while     *)
(* the page is busy.                                                         *)
EXTENDS WorkflowBlocks, FiniteSets

CONSTANTS
  Scripts,        \* the identities of scripts
  Known,          \* the scripts there are when the page is opened
  Shared,         \* the scripts that others save, too
  Jobs,           \* the identities of jobs
  Slots,          \* bound: calls outstanding at a time
  TypedTexts,     \* what the user types into text fields
  TypedNumbers,   \* what the user types into number fields; None clears one
  MaxBlocks,      \* bound: blocks in the editor
  MaxVersions,    \* bound: versions of a script
  MaxClicks,      \* bound: what the user does
  MaxFailures,    \* bound: calls that fail on their way
  Patient         \* the user waits while the page is busy

ASSUME EditorAssumption ==
  /\ Known \cup Shared \subseteq Scripts
  /\ None \notin Scripts \cup Jobs \cup Texts
  /\ TypedTexts \subseteq Texts
  /\ TypedNumbers \subseteq Int \cup {None}
  /\ {MaxBlocks, MaxVersions, MaxClicks, MaxFailures} \subseteq Nat
  /\ MaxBlocks <= EditorMax.steps
  /\ Patient \in BOOLEAN

VARIABLES
  published,   \* server: the versions of each script, oldest first
  jobs,        \* server: each job's script, version and status
  scripts,     \* page: how many versions of each script its list knows
  selectedId,  \* page: the script that Save and Run mean
  blocks,      \* page: the blocks in the editor
  versions,    \* page: how many versions its menu offers
  busy,        \* page: Save, Run and the version menu are disabled
  lastJob,     \* page: the job whose name it shows
  lastRun,     \* page: the run whose status it shows and polls
  calls,       \* calls outstanding
  clicks,      \* what the user has done so far
  failures,    \* failed calls so far
  origin,      \* history: the script the blocks were loaded from or saved to
  clean        \* history: no edit since they were

server == <<published, jobs>>
job == <<lastJob, lastRun>>
page == <<scripts, selectedId, blocks, versions, busy, origin, clean>>
vars == <<server, job, page, calls, clicks, failures>>

NoJob == [script |-> None, version |-> 0, status |-> "none"]
Run(j, status) == [job |-> j, status |-> status]

Call(kind, script, version, steps, j) ==
  [kind |-> kind, script |-> script, version |-> version, steps |-> steps,
   job |-> j, state |-> "sent", answer |-> None]
Idle == [Call("idle", None, 0, << >>, None) EXCEPT !.state = "idle"]

Sample == <<Step("navigate", Text(20, "allowed"), None, None)>>

Init ==
  /\ published = [s \in Scripts |-> IF s \in Known THEN <<Sample>> ELSE << >>]
  /\ jobs = [j \in Jobs |-> NoJob]
  /\ scripts = [s \in Scripts |-> 0]
  /\ selectedId = None
  /\ blocks = << >>
  /\ versions = 0
  /\ busy = FALSE
  /\ lastJob = None
  /\ lastRun = None
  /\ \E c \in Slots : calls = [d \in Slots |-> IF d = c THEN Call("list", None, 0, << >>, None) ELSE Idle]
  /\ clicks = 0
  /\ failures = 0
  /\ origin = None
  /\ clean = TRUE

(* -------------------------------------------------------------- the user *)

Start(c, call) ==
  /\ calls[c] = Idle
  /\ calls' = [calls EXCEPT ![c] = call]

(* Of the controls, busy disables only some; a patient user waits.           *)
Click ==
  /\ clicks < MaxClicks
  /\ clicks' = clicks + 1

MayLeave == Patient => ~busy

NewWorkflow ==
  /\ MayLeave
  /\ Click
  /\ selectedId' = None
  /\ blocks' = <<CreateBlock("navigate")>>
  /\ versions' = 0
  /\ lastJob' = None
  /\ lastRun' = None
  /\ origin' = None
  /\ clean' = FALSE
  /\ UNCHANGED <<server, scripts, busy, calls, failures>>

OpenScript(s, c) ==
  /\ MayLeave
  /\ Click
  /\ scripts[s] > 0
  /\ Start(c, Call("open", s, 0, << >>, None))
  /\ busy' = TRUE
  /\ UNCHANGED <<server, job, scripts, selectedId, blocks, versions, failures, origin, clean>>

(* A mutant: the version menu is not disabled while the page is busy.        *)
OpenVersionAnytime(v, c) ==
  /\ Click
  /\ selectedId # None
  /\ v \in 1..versions
  /\ Start(c, Call("version", selectedId, v, << >>, None))
  /\ busy' = TRUE
  /\ UNCHANGED <<server, job, scripts, selectedId, blocks, versions, failures, origin, clean>>

OpenVersion(v, c) ==
  /\ ~busy
  /\ Click
  /\ selectedId # None
  /\ v \in 1..versions
  /\ Start(c, Call("version", selectedId, v, << >>, None))
  /\ busy' = TRUE
  /\ UNCHANGED <<server, job, scripts, selectedId, blocks, versions, failures, origin, clean>>

Edit(new) ==
  /\ Click
  /\ new # blocks
  /\ blocks' = new
  /\ clean' = FALSE
  /\ UNCHANGED <<server, job, scripts, selectedId, versions, busy, calls, failures, origin>>

(* The editor is shown once a script is selected or there are blocks.        *)
AddBlock(type) ==
  /\ selectedId # None \/ blocks # << >>
  /\ Len(blocks) < MaxBlocks
  /\ Edit(Append(blocks, CreateBlock(type)))

RemoveBlock(i) ==
  Edit([j \in 1..(Len(blocks) - 1) |-> IF j < i THEN blocks[j] ELSE blocks[j + 1]])

Move(i, direction) ==
  Edit(MoveBlock(blocks, i, direction))

TypeText(i, text) ==
  /\ blocks[i].raw = None
  /\ blocks[i].type \in TextTypes
  /\ Edit([blocks EXCEPT ![i].text = text])

(* A wait cannot be cleared: its field ignores what is not an integer.       *)
TypeNumber(i, num) ==
  /\ blocks[i].raw = None
  /\ blocks[i].type \in TimeoutTypes \/ (blocks[i].type = "wait" /\ num # None)
  /\ Edit([blocks EXCEPT ![i].num = num])

Toggle(i) ==
  /\ blocks[i].raw = None
  /\ blocks[i].type = "screenshot"
  /\ Edit([blocks EXCEPT ![i].flag = IF @ = TRUE THEN FALSE ELSE TRUE])

Save(c) ==
  /\ ~busy
  /\ Click
  /\ ValidBlocks(blocks)
  /\ Start(c, Call(IF selectedId = None THEN "create" ELSE "publish",
                   selectedId, 0, BlocksToSteps(blocks), None))
  /\ busy' = TRUE
  /\ UNCHANGED <<server, job, scripts, selectedId, blocks, versions, failures, origin, clean>>

RunAsJob(c) ==
  /\ ~busy
  /\ Click
  /\ selectedId # None
  /\ Start(c, Call("job", selectedId, 0, << >>, None))
  /\ busy' = TRUE
  /\ UNCHANGED <<server, job, scripts, selectedId, blocks, versions, failures, origin, clean>>

(* A mutant: the run is asked for once.                                      *)
PollOnce(c) ==
  /\ lastRun # None
  /\ lastRun.status # "ended"
  /\ failures = 0
  /\ Start(c, Call("poll", None, 0, << >>, lastRun.job))
  /\ UNCHANGED <<server, job, page, clicks, failures>>

(* The interval of the effect on lastRun fires.                              *)
Poll(c) ==
  /\ lastRun # None
  /\ lastRun.status # "ended"
  /\ Start(c, Call("poll", None, 0, << >>, lastRun.job))
  /\ UNCHANGED <<server, job, page, clicks, failures>>

(* ------------------------------------------------------------ the server *)

Answered(c, answer) ==
  calls' = [calls EXCEPT ![c].state = "answered", ![c].answer = answer]

Handles(c, kind) == calls[c].state = "sent" /\ calls[c].kind = kind

ListScripts(c) ==
  /\ Handles(c, "list") \/ Handles(c, "relist")
  /\ Answered(c, [s \in Scripts |-> Len(published[s])])
  /\ UNCHANGED <<server, job, page, clicks, failures>>

(* One version, or the latest, and the numbers of all.                       *)
GetScript(c) ==
  LET call == calls[c]
      all == published[call.script]
      wanted == IF call.kind = "version" THEN call.version ELSE Len(all) IN
  /\ Handles(c, "open") \/ Handles(c, "version") \/ Handles(c, "versions")
  /\ Answered(c, [steps |-> all[wanted], versions |-> Len(all)])
  /\ UNCHANGED <<server, job, page, clicks, failures>>

(* The validator's 400: nothing is stored.                                   *)
Refused(c) ==
  /\ calls' = [calls EXCEPT ![c].state = "refused"]
  /\ UNCHANGED published

CreateScriptVersion(c) ==
  LET s == calls[c].script
      steps == Normal(calls[c].steps) IN
  /\ Handles(c, "publish")
  /\ IF AcceptsSteps(calls[c].steps)
     THEN /\ Len(published[s]) < MaxVersions
          /\ published' = [published EXCEPT ![s] = Append(@, steps)]
          /\ Answered(c, [steps |-> steps, versions |-> 0])
     ELSE Refused(c)
  /\ UNCHANGED <<jobs, job, page, clicks, failures>>

CreateScript(c) ==
  /\ Handles(c, "create")
  /\ IF AcceptsSteps(calls[c].steps)
     THEN \E s \in Scripts :
            /\ published[s] = << >>
            /\ published' = [published EXCEPT ![s] = <<Normal(calls[c].steps)>>]
            /\ Answered(c, s)
     ELSE Refused(c)
  /\ UNCHANGED <<jobs, job, page, clicks, failures>>

(* A job runs the version that is the latest when it is created.             *)
CreateJob(c) ==
  /\ Handles(c, "job")
  /\ \E j \in Jobs :
       /\ jobs[j] = NoJob
       /\ jobs' = [jobs EXCEPT ![j] = [script |-> calls[c].script,
                                       version |-> Len(published[calls[c].script]),
                                       status |-> "queued"]]
       /\ Answered(c, j)
  /\ UNCHANGED <<published, job, page, clicks, failures>>

ListRuns(c) ==
  /\ Handles(c, "poll")
  /\ Answered(c, jobs[calls[c].job].status)
  /\ UNCHANGED <<server, job, page, clicks, failures>>

RunEnds(j) ==
  /\ jobs[j].status = "queued"
  /\ jobs' = [jobs EXCEPT ![j].status = "ended"]
  /\ UNCHANGED <<published, job, page, calls, clicks, failures>>

(* Somebody else saves a version from another page.                          *)
OthersPublish(s) ==
  /\ Len(published[s]) \in 1..(MaxVersions - 1)
  /\ published' = [published EXCEPT ![s] = Append(@, Sample)]
  /\ UNCHANGED <<jobs, job, page, calls, clicks, failures>>

(* The connection breaks, or the profile of a job is not there.              *)
CallFails(c) ==
  /\ calls[c].state \in {"sent", "answered"}
  /\ failures < MaxFailures
  /\ failures' = failures + 1
  /\ calls' = [calls EXCEPT ![c].state = "failed"]
  /\ UNCHANGED <<server, job, page, clicks>>

(* ----------------------------------------------------- answers come back *)

Returns(c, kind) == calls[c].state = "answered" /\ calls[c].kind = kind
Done(c) == calls' = [calls EXCEPT ![c] = Idle]

Listed(c) ==
  /\ Returns(c, "list")
  /\ Done(c)
  /\ scripts' = calls[c].answer
  /\ UNCHANGED <<server, job, selectedId, blocks, versions, busy, origin, clean, clicks, failures>>

Opened(c) ==
  /\ Returns(c, "open")
  /\ Done(c)
  /\ selectedId' = calls[c].script
  /\ blocks' = StepsToBlocks(calls[c].answer.steps)
  /\ versions' = calls[c].answer.versions
  /\ lastJob' = None
  /\ lastRun' = None
  /\ busy' = FALSE
  /\ origin' = calls[c].script
  /\ clean' = TRUE
  /\ UNCHANGED <<server, scripts, clicks, failures>>

VersionOpened(c) ==
  /\ Returns(c, "version")
  /\ Done(c)
  /\ blocks' = StepsToBlocks(calls[c].answer.steps)
  /\ busy' = FALSE
  /\ origin' = calls[c].script
  /\ clean' = TRUE
  /\ UNCHANGED <<server, job, scripts, selectedId, versions, clicks, failures>>

(* The save goes on to ask for the versions, with the steps in hand.         *)
Published(c) ==
  /\ Returns(c, "publish")
  /\ calls' = [calls EXCEPT ![c] = Call("versions", @.script, 0, @.answer.steps, None)]
  /\ UNCHANGED <<server, job, page, clicks, failures>>

VersionsListed(c) ==
  /\ Returns(c, "versions")
  /\ Done(c)
  /\ versions' = calls[c].answer.versions
  /\ blocks' = StepsToBlocks(calls[c].steps)
  /\ busy' = FALSE
  /\ origin' = calls[c].script
  /\ clean' = TRUE
  /\ UNCHANGED <<server, job, scripts, selectedId, clicks, failures>>

(* A new script: the blocks stay, and the list is fetched again.             *)
Created(c) ==
  /\ Returns(c, "create")
  /\ calls' = [calls EXCEPT ![c] = Call("relist", None, 0, << >>, None)]
  /\ selectedId' = calls[c].answer
  /\ origin' = IF origin = None THEN calls[c].answer ELSE origin
  /\ clean' = (BlocksToSteps(blocks) = calls[c].steps)
  /\ UNCHANGED <<server, job, scripts, blocks, versions, busy, clicks, failures>>

Relisted(c) ==
  /\ Returns(c, "relist")
  /\ Done(c)
  /\ scripts' = calls[c].answer
  /\ busy' = FALSE
  /\ UNCHANGED <<server, job, selectedId, blocks, versions, origin, clean, clicks, failures>>

JobCreated(c) ==
  /\ Returns(c, "job")
  /\ Done(c)
  /\ lastJob' = calls[c].answer
  /\ lastRun' = Run(calls[c].answer, "queued")
  /\ busy' = FALSE
  /\ UNCHANGED <<server, scripts, selectedId, blocks, versions, origin, clean, clicks, failures>>

Polled(c) ==
  /\ Returns(c, "poll")
  /\ Done(c)
  /\ lastRun' = Run(calls[c].job, calls[c].answer)
  /\ UNCHANGED <<server, lastJob, page, clicks, failures>>

(* The error is shown, except a poll's; what the call was to change stays.   *)
Errored(c) ==
  /\ calls[c].state \in {"failed", "refused"}
  /\ Done(c)
  /\ busy' = (busy /\ calls[c].kind \in {"list", "poll"})
  /\ UNCHANGED <<server, job, scripts, selectedId, blocks, versions, origin, clean, clicks, failures>>

EditorStep ==
  \/ NewWorkflow
  \/ \E c \in Slots : Save(c) \/ RunAsJob(c)
  \/ \E c \in Slots, s \in Scripts : OpenScript(s, c)
  \/ \E c \in Slots, v \in 1..MaxVersions : OpenVersion(v, c)
  \/ \E t \in BlockTypes : AddBlock(t)
  \/ \E i \in 1..Len(blocks) :
       \/ RemoveBlock(i)
       \/ Toggle(i)
       \/ \E d \in {-1, 1} : Move(i, d)
       \/ \E t \in TypedTexts : TypeText(i, t)
       \/ \E n \in TypedNumbers : TypeNumber(i, n)

ServerStep(c) ==
  \/ ListScripts(c) \/ GetScript(c) \/ CreateScriptVersion(c)
  \/ CreateScript(c) \/ CreateJob(c) \/ ListRuns(c)

PageStep(c) ==
  \/ Listed(c) \/ Opened(c) \/ VersionOpened(c) \/ Published(c) \/ VersionsListed(c)
  \/ Created(c) \/ Relisted(c) \/ JobCreated(c) \/ Polled(c) \/ Errored(c)

Next ==
  \/ EditorStep
  \/ \E c \in Slots : Poll(c) \/ ServerStep(c) \/ PageStep(c) \/ CallFails(c)
  \/ \E j \in Jobs : RunEnds(j)
  \/ \E s \in Shared : OthersPublish(s)

Spec == Init /\ [][Next]_vars

(* The server answers and the browser hands the answer over; the interval    *)
(* fires again and again; the runner ends what it runs.                      *)
Fairness ==
  /\ \A c \in Slots : WF_vars(ServerStep(c)) /\ WF_vars(PageStep(c))
  /\ WF_vars(\E c \in Slots : Poll(c))
  /\ \A j \in Jobs : WF_vars(RunEnds(j))

FairSpec == Spec /\ Fairness

(* ------------------------------------------------------------ properties *)

(* A save goes to the script whose blocks are in the editor, whatever was    *)
(* opened before and in whatever order the answers came (Workflows.tsx:301). *)
SavesGoHome ==
  [][\A c \in Slots :
       calls[c].kind = "idle" /\ calls'[c].kind = "publish" => calls'[c].script = origin]_vars

(* "The editor rejects what the server would reject, before any network      *)
(* call" (workflow-blocks.ts:8): no save that was sent is refused.           *)
EditorAgreesWithServer ==
  \A c \in Slots : calls[c].state # "refused"

(* Blocks nobody has touched since they were loaded or saved are a version   *)
(* of the selected script, through both conversions and the server's own     *)
(* rebuilding of the steps (Workflows.tsx:313, script.ts:238).               *)
UntouchedIsStored ==
  clean /\ selectedId # None =>
    \E v \in 1..Len(published[selectedId]) : BlocksToSteps(blocks) = published[selectedId][v]

(* Once a run is shown, polling brings its end to the page, or the user      *)
(* moves on (Workflows.tsx:213).                                             *)
ShownRunsEnd ==
  lastRun # None ~> lastRun = None \/ lastRun.status = "ended"
=============================================================================
