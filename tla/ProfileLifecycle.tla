-------------------------- MODULE ProfileLifecycle --------------------------
(***************************************************************************)
(* The ProfileManager of packages/api/src/profiles: launches, stops, the   *)
(* crash handler, the heartbeat and monitor loops, the per-profile lock    *)
(* and state rows in SQLite, and the boot reaper of browser/reaper.ts.     *)
(*                                                                         *)
(* Every call of launchProfile is a member of Launches and is used once.   *)
(* It names everything the call creates: its lock owner token, its browser *)
(* process, its session row and its LiveProfile entry.  An action is the   *)
(* code between two awaits; a statement of the single SQLite connection,   *)
(* or a transaction on it, is atomic.                                      *)
(*                                                                         *)
(* node:sqlite answers synchronously, so an await on the database is only  *)
(* a microtask: no timer, event or request gets in before the call reaches *)
(* a wait for real I/O.                                                    *)
(***************************************************************************)
EXTENDS Naturals, FiniteSets, ProfileStates

CONSTANTS
  Profiles,            \* profile ids
  Launches,            \* calls of launchProfile, each used once
  Stops,               \* calls of stopProfile, each used once
  ProfileOf,           \* the profile a call is about
  NoOne,               \* null
  LocksMayAge,         \* may a launch hold its lock longer than lockTtlMs?
  Overlap,             \* may two unfinished calls be about the same profile?
  AuthPending,         \* does attaching proxy credentials take I/O?
  SpawnRetries,        \* launchChromium's options.spawnRetries
  SessionInsertFails,  \* may the insert of the session row fail?
  MaxRestarts          \* bound: how often the server process dies

ASSUME LifecycleAssumption ==
  /\ IsFiniteSet(Launches)
  /\ Launches \cap Stops = {}
  /\ ProfileOf \in [Launches \cup Stops -> Profiles]
  /\ NoOne \notin Launches \cup Stops \cup Profiles
  /\ LocksMayAge \in BOOLEAN
  /\ Overlap \in BOOLEAN
  /\ AuthPending \in BOOLEAN
  /\ SpawnRetries \in Nat
  /\ SessionInsertFails \in BOOLEAN
  /\ MaxRestarts \in Nat

VARIABLES
  \* rows of SQLite
  state,      \* profiles.state
  lock,       \* profiles.locked_by
  stale,      \* profiles whose locked_at is older than lockTtlMs
  lastPid,    \* profiles.last_pid, as the launch whose browser has that pid
  session,    \* sessions: not inserted, open, or the exit_reason
  \* the operating system
  browser,    \* the browser process of each launch
  \* memory of the server process
  live,       \* ProfileManager.live
  watched,    \* launches whose process has the 'exit' listener
  exited,     \* 'exit' events not yet delivered
  stopping,   \* entries with entry.stopping
  settled,    \* entries with entry.settled
  at,         \* where each launch is
  tries,      \* how often it has spawned again
  stopAt,     \* where each stop is
  target,     \* the entry each stop works on
  crashAt,    \* where the handleCrash of each entry is
  monitor,    \* the monitorAll loop
  server,     \* up, or which step of the boot reaper (and for which profile)
  restarts

rows == <<state, lock, stale, lastPid, session>>
memory == <<live, watched, exited, stopping, settled, at, tries, stopAt, target, crashAt, monitor>>
\* What each kind of thread leaves alone.
notLaunch == <<stopAt, target, crashAt, monitor, server, restarts>>
notStop == <<at, tries, crashAt, monitor, server, restarts>>
notCrash == <<at, tries, stopAt, target, server, restarts>>
entries == <<live, watched, exited, stopping, settled>>
vars == <<rows, browser, memory, server, restarts>>

Calls == Launches \cup Stops
OrNone(S) == S \cup {NoOne}

LaunchSteps == {"new", "lock", "toLaunching", "spawn", "cdp", "session",
                "proxyAuth", "toRunning", "recordPid", "abort", "endSession",
                "readState", "toError", "unlock", "throw", "done", "failed"}
StopSteps == {"new", "read", "toStopping", "terminate", "finalize",
              "endSession", "toStopped", "clearPid", "unlock", "release",
              "unmanaged", "ackLock", "ackState", "ackUnlock", "done", "failed"}
CrashSteps == {"none", "endSession", "read", "toCrashed", "unlock", "release", "done"}

TypeOK ==
  /\ state \in [Profiles -> States]
  /\ lock \in [Profiles -> OrNone(Calls)]
  /\ stale \in SUBSET Profiles
  /\ lastPid \in [Profiles -> OrNone(Launches)]
  /\ session \in [Launches -> {"none", "open", "stopped", "crashed", "error"}]
  /\ browser \in [Launches -> {"none", "alive", "dead"}]
  /\ live \in [Profiles -> OrNone(Launches)]
  /\ watched \in SUBSET Launches
  /\ exited \in SUBSET Launches
  /\ stopping \in SUBSET Launches
  /\ settled \in SUBSET Launches
  /\ at \in [Launches -> LaunchSteps]
  /\ tries \in [Launches -> 0 .. SpawnRetries]
  /\ stopAt \in [Stops -> StopSteps]
  /\ target \in [Stops -> OrNone(Launches)]
  /\ crashAt \in [Launches -> CrashSteps]
  /\ monitor \in [todo : SUBSET Launches, on : OrNone(Launches), step : {"read", "write"}]
  /\ server \in [step : {"up", "reapLocks", "settle", "forceUnlock"}, on : OrNone(Profiles)]
  /\ restarts \in 0 .. MaxRestarts

Idle == [todo |-> {}, on |-> NoOne, step |-> "read"]

Init ==
  /\ state = [p \in Profiles |-> "created"]
  /\ lock = [p \in Profiles |-> NoOne]
  /\ stale = {}
  /\ lastPid = [p \in Profiles |-> NoOne]
  /\ session = [l \in Launches |-> "none"]
  /\ browser = [l \in Launches |-> "none"]
  /\ live = [p \in Profiles |-> NoOne]
  /\ watched = {}
  /\ exited = {}
  /\ stopping = {}
  /\ settled = {}
  /\ at = [l \in Launches |-> "new"]
  /\ tries = [l \in Launches |-> 0]
  /\ stopAt = [s \in Stops |-> "new"]
  /\ target = [s \in Stops |-> NoOne]
  /\ crashAt = [l \in Launches |-> "none"]
  /\ monitor = Idle
  /\ server = [step |-> "up", on |-> NoOne]
  /\ restarts = 0

-----------------------------------------------------------------------------
\* Statements on the profile's row and on the session's row.

SetState(p, to) ==
  /\ state' = [state EXCEPT ![p] = to]
  /\ UNCHANGED <<lock, stale, lastPid, session>>

\* transitionState() whose caller ignores IllegalTransitionError.
TrySetState(p, to) ==
  IF CanTransition(state[p], to) THEN SetState(p, to) ELSE UNCHANGED rows

\* Mutant: acquireLock() never takes a stale lock over.
LockFreeIgnoresAge(p) == lock[p] = NoOne

\* acquireLock(): one UPDATE, which also takes over a stale lock.
LockFree(p) == lock[p] = NoOne \/ p \in stale

TakeLock(p, owner) ==
  /\ lock' = [lock EXCEPT ![p] = owner]
  /\ stale' = stale \ {p}
  /\ UNCHANGED <<state, lastPid, session>>

\* releaseLock(): only the owning token can release the lock.
ReleaseLock(p, owner) ==
  /\ lock' = [lock EXCEPT ![p] = IF @ = owner THEN NoOne ELSE @]
  /\ stale' = IF lock[p] = owner THEN stale \ {p} ELSE stale
  /\ UNCHANGED <<state, lastPid, session>>

\* startSession() inserts the row; endSession() writes its exit_reason.
WriteSession(l, reason) ==
  /\ session' = [session EXCEPT ![l] = reason]
  /\ UNCHANGED <<state, lock, stale, lastPid>>

\* The browser's process group is gone, and an 'exit' event is on its way.
\* Before CDP is ready it concerns only launchChromium, which CdpFails models.
Die(l) ==
  /\ browser' = [browser EXCEPT ![l] = IF @ = "alive" THEN "dead" ELSE @]
  /\ exited' = IF browser[l] = "alive" /\ at[l] # "cdp" THEN exited \cup {l} ELSE exited

-----------------------------------------------------------------------------
\* Calls of launchProfile and stopProfile.

Working(c) ==
  IF c \in Launches THEN at[c] \notin {"new", "done", "failed"}
                    ELSE stopAt[c] \notin {"new", "done", "failed"}

MayBegin(c) ==
  Overlap \/ \A d \in Calls : Working(d) => ProfileOf[d] # ProfileOf[c]

-----------------------------------------------------------------------------
\* launchProfileInner and its failure paths.

Goto(l, step) == at' = [at EXCEPT ![l] = step]

\* The live check.  In the server a launch gets here once it has a slot.
Enter(l) ==
  /\ at[l] = "new"
  /\ MayBegin(l)
  /\ Goto(l, IF live[ProfileOf[l]] # NoOne THEN "throw" ELSE "lock")
  /\ UNCHANGED <<rows, browser, entries, tries, notLaunch>>

LaunchLock(l) ==
  /\ at[l] = "lock"
  /\ IF LockFree(ProfileOf[l])
     THEN TakeLock(ProfileOf[l], l) /\ Goto(l, "toLaunching")
     ELSE UNCHANGED rows /\ Goto(l, "throw")
  /\ UNCHANGED <<browser, entries, tries, notLaunch>>

ToLaunching(l) ==
  /\ at[l] = "toLaunching"
  /\ TrySetState(ProfileOf[l], "launching")
  /\ Goto(l, IF CanTransition(state[ProfileOf[l]], "launching") THEN "spawn" ELSE "unlock")
  /\ UNCHANGED <<browser, entries, tries, notLaunch>>

\* resolveProxy and ensureWebrtcPolicy, then attemptLaunch spawns Chromium;
\* any of the three may throw instead.
Spawn(l) ==
  /\ at[l] = "spawn"
  /\ \/ browser' = [browser EXCEPT ![l] = "alive"] /\ Goto(l, "cdp")
     \/ UNCHANGED browser /\ Goto(l, "readState")
  /\ UNCHANGED <<rows, entries, tries, notLaunch>>

\* CDP answers; or it does not in time, and launchChromium kills what it
\* spawned and tries again or gives up; or the browser exits first.
CdpReady(l) ==
  /\ at[l] = "cdp"
  /\ browser[l] = "alive"
  /\ Goto(l, "session")
  /\ UNCHANGED <<rows, browser, entries, tries, notLaunch>>

\* Mutant: the retry counter starts again with every attempt.
CdpFailsForgetsCount(l) ==
  /\ at[l] = "cdp"
  /\ Die(l)
  /\ \/ browser[l] = "alive" /\ Goto(l, "spawn")
     \/ browser[l] # "alive" /\ Goto(l, "readState")
  /\ UNCHANGED <<rows, live, watched, stopping, settled, tries, notLaunch>>

\* Mutant: a browser that does not answer is given up but not killed.
CdpFailsLeavesBrowser(l) ==
  /\ at[l] = "cdp"
  /\ Goto(l, "readState")
  /\ UNCHANGED <<rows, browser, entries, tries, notLaunch>>

CdpFails(l) ==
  /\ at[l] = "cdp"
  /\ Die(l)
  /\ \/ /\ browser[l] = "alive"
        /\ tries[l] < SpawnRetries
        /\ tries' = [tries EXCEPT ![l] = @ + 1]
        /\ Goto(l, "spawn")
     \/ /\ browser[l] = "alive" => tries[l] = SpawnRetries
        /\ UNCHANGED tries
        /\ Goto(l, "readState")
  /\ UNCHANGED <<rows, live, watched, stopping, settled, notLaunch>>

\* startSession, then the entry is registered: 'exit' listener and live.set.
Register(l) ==
  /\ at[l] = "session"
  /\ WriteSession(l, "open")
  /\ watched' = watched \cup {l}
  /\ live' = [live EXCEPT ![ProfileOf[l]] = l]
  /\ Goto(l, "proxyAuth")
  /\ UNCHANGED <<browser, exited, stopping, settled, tries, notLaunch>>

\* A failing insert escapes every handler of launchProfileInner.
SessionFails(l) ==
  /\ at[l] = "session"
  /\ SessionInsertFails
  /\ Goto(l, "throw")
  /\ UNCHANGED <<rows, browser, entries, tries, notLaunch>>

\* resolveProxyAuth and attachProxyAuth: attached, not needed, or thrown.
ProxyAuth(l) ==
  /\ at[l] = "proxyAuth"
  /\ \/ Goto(l, "toRunning")
     \/ Goto(l, "abort")
  /\ UNCHANGED <<rows, browser, entries, tries, notLaunch>>

ToRunning(l) ==
  /\ at[l] = "toRunning"
  /\ TrySetState(ProfileOf[l], "running")
  /\ Goto(l, IF CanTransition(state[ProfileOf[l]], "running") THEN "recordPid" ELSE "abort")
  /\ UNCHANGED <<browser, entries, tries, notLaunch>>

RecordPid(l) ==
  /\ at[l] = "recordPid"
  /\ lastPid' = [lastPid EXCEPT ![ProfileOf[l]] = l]
  /\ Goto(l, "done")
  /\ UNCHANGED <<state, lock, stale, session, browser, entries, tries, notLaunch>>

\* abortLaunchedEntry up to its first await.  live.delete goes by profile id.
Abort(l) ==
  /\ at[l] = "abort"
  /\ live' = [live EXCEPT ![ProfileOf[l]] = NoOne]
  /\ settled' = settled \cup {l}
  /\ Die(l)
  /\ Goto(l, "endSession")
  /\ UNCHANGED <<rows, watched, stopping, tries, notLaunch>>

AbortEndsSession(l) ==
  /\ at[l] = "endSession"
  /\ WriteSession(l, "error")
  /\ Goto(l, "readState")
  /\ UNCHANGED <<browser, entries, tries, notLaunch>>

\* The common tail of markLaunchFailed and abortLaunchedEntry: getState, the
\* transition to 'error' if the profile was still launching, releaseLock.
ReadState(l) ==
  /\ at[l] = "readState"
  /\ Goto(l, IF state[ProfileOf[l]] = "launching" THEN "toError" ELSE "unlock")
  /\ UNCHANGED <<rows, browser, entries, tries, notLaunch>>

ToError(l) ==
  /\ at[l] = "toError"
  /\ TrySetState(ProfileOf[l], "error")
  /\ Goto(l, "unlock")
  /\ UNCHANGED <<browser, entries, tries, notLaunch>>

LaunchUnlock(l) ==
  /\ at[l] = "unlock"
  /\ ReleaseLock(ProfileOf[l], l)
  /\ Goto(l, "throw")
  /\ UNCHANGED <<browser, entries, tries, notLaunch>>

\* The catch of launchProfile, which gives the slot back unless the profile is
\* live, and rethrows.
Throw(l) ==
  /\ at[l] = "throw"
  /\ Goto(l, "failed")
  /\ UNCHANGED <<rows, browser, entries, tries, notLaunch>>

Launch(l) ==
  \/ LaunchLock(l) \/ ToLaunching(l) \/ Spawn(l) \/ CdpReady(l) \/ CdpFails(l)
  \/ Register(l) \/ SessionFails(l) \/ ProxyAuth(l) \/ ToRunning(l) \/ RecordPid(l)
  \/ Abort(l) \/ AbortEndsSession(l) \/ ReadState(l) \/ ToError(l) \/ LaunchUnlock(l)

-----------------------------------------------------------------------------
\* stopProfile, terminateEntry, finalizeStop and stopUnmanaged.

StopGoto(s, step) == stopAt' = [stopAt EXCEPT ![s] = step]

BeginStop(s) ==
  /\ stopAt[s] = "new"
  /\ MayBegin(s)
  /\ target' = [target EXCEPT ![s] = live[ProfileOf[s]]]
  /\ IF live[ProfileOf[s]] = NoOne
     THEN StopGoto(s, "unmanaged") /\ UNCHANGED stopping
     ELSE /\ StopGoto(s, "read")
          /\ stopping' = stopping \cup {live[ProfileOf[s]]}
  /\ UNCHANGED <<rows, browser, live, watched, exited, settled, notStop>>

StopReads(s) ==
  /\ stopAt[s] = "read"
  /\ StopGoto(s, IF state[ProfileOf[s]] \in {"running", "launching"}
                 THEN "toStopping" ELSE "terminate")
  /\ UNCHANGED <<rows, browser, entries, target, notStop>>

\* The state may have moved since it was read: the transition then throws out
\* of stopProfile, which leaves entry.stopping set.
ToStopping(s) ==
  /\ stopAt[s] = "toStopping"
  /\ TrySetState(ProfileOf[s], "stopping")
  /\ StopGoto(s, IF CanTransition(state[ProfileOf[s]], "stopping")
                 THEN "terminate" ELSE "failed")
  /\ UNCHANGED <<browser, entries, target, notStop>>

\* Browser.close over CDP, SIGTERM, SIGKILL: the browser is gone in the end.
Terminate(s) ==
  /\ stopAt[s] = "terminate"
  /\ Die(target[s])
  /\ StopGoto(s, "finalize")
  /\ UNCHANGED <<rows, live, watched, stopping, settled, target, notStop>>

\* ... or it survives even SIGKILL for five seconds.
StopTimesOut(s) ==
  /\ stopAt[s] = "terminate"
  /\ browser[target[s]] = "alive"
  /\ StopGoto(s, "failed")
  /\ UNCHANGED <<rows, browser, entries, target, notStop>>

\* Mutant: finalizeStop forgets live.delete.
FinalizeKeepsEntry(s) ==
  /\ stopAt[s] = "finalize"
  /\ IF target[s] \in settled \/ live[ProfileOf[s]] = NoOne
     THEN StopGoto(s, "done") /\ UNCHANGED settled
     ELSE settled' = settled \cup {target[s]} /\ StopGoto(s, "endSession")
  /\ UNCHANGED <<rows, browser, live, watched, exited, stopping, target, notStop>>

Finalize(s) ==
  /\ stopAt[s] = "finalize"
  /\ IF target[s] \in settled \/ live[ProfileOf[s]] = NoOne
     THEN StopGoto(s, "done") /\ UNCHANGED <<live, settled>>
     ELSE /\ settled' = settled \cup {target[s]}
          /\ live' = [live EXCEPT ![ProfileOf[s]] = NoOne]
          /\ StopGoto(s, "endSession")
  /\ UNCHANGED <<rows, browser, watched, exited, stopping, target, notStop>>

StopEndsSession(s) ==
  /\ stopAt[s] = "endSession"
  /\ WriteSession(target[s], "stopped")
  /\ StopGoto(s, "toStopped")
  /\ UNCHANGED <<browser, entries, target, notStop>>

ToStopped(s) ==
  /\ stopAt[s] = "toStopped"
  /\ TrySetState(ProfileOf[s], "stopped")
  /\ StopGoto(s, "clearPid")
  /\ UNCHANGED <<browser, entries, target, notStop>>

ClearPid(s) ==
  /\ stopAt[s] = "clearPid"
  /\ lastPid' = [lastPid EXCEPT ![ProfileOf[s]] = NoOne]
  /\ StopGoto(s, "unlock")
  /\ UNCHANGED <<state, lock, stale, session, browser, entries, target, notStop>>

\* Mutant: finalizeStop releases with a token of its own, as stopUnmanaged does.
StopUnlockOwnToken(s) ==
  /\ stopAt[s] = "unlock"
  /\ ReleaseLock(ProfileOf[s], s)
  /\ StopGoto(s, "release")
  /\ UNCHANGED <<browser, entries, target, notStop>>

StopUnlock(s) ==
  /\ stopAt[s] = "unlock"
  /\ ReleaseLock(ProfileOf[s], target[s])
  /\ StopGoto(s, "release")
  /\ UNCHANGED <<browser, entries, target, notStop>>

\* resources.release(); the slots are the business of ProfileManager.tla.
StopRelease(s) ==
  /\ stopAt[s] = "release"
  /\ StopGoto(s, "done")
  /\ UNCHANGED <<rows, browser, entries, target, notStop>>

\* Without a live entry: nothing to do, acknowledge a failure, or refuse.
StopUnmanaged(s) ==
  /\ stopAt[s] = "unmanaged"
  /\ StopGoto(s, CASE state[ProfileOf[s]] \in {"stopped", "created"} -> "done"
                   [] state[ProfileOf[s]] \in {"crashed", "error"}   -> "ackLock"
                   [] OTHER                                          -> "failed")
  /\ UNCHANGED <<rows, browser, entries, target, notStop>>

AckLock(s) ==
  /\ stopAt[s] = "ackLock"
  /\ IF LockFree(ProfileOf[s])
     THEN TakeLock(ProfileOf[s], s) /\ StopGoto(s, "ackState")
     ELSE UNCHANGED rows /\ StopGoto(s, "failed")
  /\ UNCHANGED <<browser, entries, target, notStop>>

AckState(s) ==
  /\ stopAt[s] = "ackState"
  /\ TrySetState(ProfileOf[s], "stopped")
  /\ StopGoto(s, "ackUnlock")
  /\ UNCHANGED <<browser, entries, target, notStop>>

AckUnlock(s) ==
  /\ stopAt[s] = "ackUnlock"
  /\ ReleaseLock(ProfileOf[s], s)
  /\ StopGoto(s, "done")
  /\ UNCHANGED <<browser, entries, target, notStop>>

Stop(s) ==
  \/ StopReads(s) \/ ToStopping(s) \/ Terminate(s) \/ StopTimesOut(s)
  \/ Finalize(s) \/ StopEndsSession(s) \/ ToStopped(s) \/ ClearPid(s) \/ StopUnlock(s)
  \/ StopUnmanaged(s) \/ AckLock(s) \/ AckState(s) \/ AckUnlock(s)

-----------------------------------------------------------------------------
\* The crash handler, and the loops that call it.

CrashGoto(l, step) == crashAt' = [crashAt EXCEPT ![l] = step]

\* Mutant: handleCrash forgets live.delete.
HandleCrashKeepsEntry(l) ==
  IF l \in settled \/ live[ProfileOf[l]] = NoOne
  THEN UNCHANGED <<live, settled, crashAt>>
  ELSE /\ settled' = settled \cup {l}
       /\ CrashGoto(l, "endSession")
       /\ UNCHANGED live

\* Mutant: handleCrash does not close the session row.
HandleCrashKeepsSession(l) ==
  IF l \in settled \/ live[ProfileOf[l]] = NoOne
  THEN UNCHANGED <<live, settled, crashAt>>
  ELSE /\ settled' = settled \cup {l}
       /\ live' = [live EXCEPT ![ProfileOf[l]] = NoOne]
       /\ CrashGoto(l, "read")

\* handleCrash up to its first await.
HandleCrash(l) ==
  IF l \in settled \/ live[ProfileOf[l]] = NoOne
  THEN UNCHANGED <<live, settled, crashAt>>
  ELSE /\ settled' = settled \cup {l}
       /\ live' = [live EXCEPT ![ProfileOf[l]] = NoOne]
       /\ CrashGoto(l, "endSession")

\* The 'exit' event, if there is a listener by now; the handler stands down
\* while a stop is on the entry.
ExitEvent(l) ==
  /\ l \in exited
  /\ exited' = exited \ {l}
  /\ IF l \in stopping \/ l \notin watched
     THEN UNCHANGED <<live, settled, crashAt>>
     ELSE HandleCrash(l)
  /\ UNCHANGED <<rows, browser, watched, stopping, monitor, notCrash>>

CrashEndsSession(l) ==
  /\ crashAt[l] = "endSession"
  /\ WriteSession(l, "crashed")
  /\ CrashGoto(l, "read")
  /\ UNCHANGED <<browser, entries, monitor, notCrash>>

CrashReads(l) ==
  /\ crashAt[l] = "read"
  /\ CrashGoto(l, IF state[ProfileOf[l]] \in ActiveStates THEN "toCrashed" ELSE "unlock")
  /\ UNCHANGED <<rows, browser, entries, monitor, notCrash>>

ToCrashed(l) ==
  /\ crashAt[l] = "toCrashed"
  /\ TrySetState(ProfileOf[l], "crashed")
  /\ CrashGoto(l, "unlock")
  /\ UNCHANGED <<browser, entries, monitor, notCrash>>

CrashUnlock(l) ==
  /\ crashAt[l] = "unlock"
  /\ ReleaseLock(ProfileOf[l], l)
  /\ CrashGoto(l, "release")
  /\ UNCHANGED <<browser, entries, monitor, notCrash>>

CrashRelease(l) ==
  /\ crashAt[l] = "release"
  /\ CrashGoto(l, "done")
  /\ UNCHANGED <<rows, browser, entries, monitor, notCrash>>

Crash(l) == CrashEndsSession(l) \/ CrashReads(l) \/ ToCrashed(l) \/ CrashUnlock(l)

\* heartbeatAll: a live entry that owns its lock refreshes locked_at.
Heartbeat(p) ==
  /\ live[p] # NoOne
  /\ lock[p] = live[p]
  /\ p \in stale
  /\ stale' = stale \ {p}
  /\ UNCHANGED <<state, lock, lastPid, session, browser, memory, server, restarts>>

\* monitorAll works through a snapshot of the live entries.
MonitorStarts ==
  /\ monitor = Idle
  /\ {live[p] : p \in Profiles} # {NoOne}
  /\ monitor' = [Idle EXCEPT !.todo = {live[p] : p \in Profiles} \ {NoOne}]
  /\ UNCHANGED <<rows, browser, entries, crashAt, notCrash>>

\* An entry is skipped while it is being stopped or settled; its browser is
\* dead, healthy, or has missed its third ping in a row.
MonitorVisits(l) ==
  /\ l \in monitor.todo
  /\ monitor.on = NoOne
  /\ \/ /\ l \in stopping \cup settled \/ browser[l] = "alive"
        /\ monitor' = [monitor EXCEPT !.todo = @ \ {l}]
        /\ UNCHANGED <<live, settled, crashAt>>
     \/ /\ l \notin stopping \cup settled
        /\ browser[l] = "alive"
        /\ monitor' = [monitor EXCEPT !.todo = @ \ {l}, !.on = l]
        /\ UNCHANGED <<live, settled, crashAt>>
     \/ /\ l \notin stopping \cup settled
        /\ browser[l] = "dead"
        /\ monitor' = [monitor EXCEPT !.todo = @ \ {l}]
        /\ HandleCrash(l)
  /\ UNCHANGED <<rows, browser, watched, exited, stopping, notCrash>>

MonitorReads ==
  /\ monitor.on # NoOne
  /\ monitor.step = "read"
  /\ monitor' = IF state[ProfileOf[monitor.on]] = "running"
                THEN [monitor EXCEPT !.step = "write"]
                ELSE [monitor EXCEPT !.on = NoOne]
  /\ UNCHANGED <<rows, browser, entries, crashAt, notCrash>>

MonitorMarksError ==
  /\ monitor.on # NoOne
  /\ monitor.step = "write"
  /\ TrySetState(ProfileOf[monitor.on], "error")
  /\ monitor' = [monitor EXCEPT !.on = NoOne, !.step = "read"]
  /\ UNCHANGED <<browser, entries, crashAt, notCrash>>

Monitor == MonitorReads \/ MonitorMarksError \/ \E l \in Launches : MonitorVisits(l)

-----------------------------------------------------------------------------
\* The world outside: browsers die, time passes, the server process dies.

BrowserDies(l) ==
  /\ browser[l] = "alive"
  /\ Die(l)
  /\ UNCHANGED <<rows, live, watched, stopping, settled, at, tries, notLaunch>>

InFlight(c) ==
  \/ Working(c)
  \/ c \in Launches /\ crashAt[c] \notin {"none", "done"}
  \/ \E s \in Stops : target[s] = c /\ Working(s)

\* lockTtlMs pass without a heartbeat.  The loop beats three times per TTL for
\* the entries in live, so only a lock without a live owner grows stale.
LockAges(p) ==
  /\ lock[p] # NoOne
  /\ lock[p] # live[p]
  /\ p \notin stale
  /\ LocksMayAge \/ ~InFlight(lock[p])
  /\ stale' = stale \cup {p}
  /\ UNCHANGED <<state, lock, lastPid, session, browser, memory, server, restarts>>

\* The server process dies, also while it boots; browsers run detached and
\* survive it.  The calls it was serving are lost.
ServerDies ==
  /\ restarts < MaxRestarts
  /\ restarts' = restarts + 1
  /\ server' = [step |-> "reapLocks", on |-> NoOne]
  /\ live' = [p \in Profiles |-> NoOne]
  /\ watched' = {}
  /\ exited' = {}
  /\ stopping' = {}
  /\ settled' = {}
  /\ at' = [l \in Launches |-> IF at[l] \in {"new", "done"} THEN at[l] ELSE "failed"]
  /\ stopAt' = [s \in Stops |-> IF stopAt[s] \in {"new", "done"} THEN stopAt[s] ELSE "failed"]
  /\ target' = [s \in Stops |-> NoOne]
  /\ crashAt' = [l \in Launches |-> "none"]
  /\ monitor' = Idle
  /\ UNCHANGED <<rows, browser, tries>>

-----------------------------------------------------------------------------
\* reconcileOnBoot, which ends before the server listens.

ServerStep(from, to, p) ==
  /\ server.step = from
  /\ server' = [step |-> to, on |-> p]
  /\ UNCHANGED <<memory, restarts>>

BootReapsLocks ==
  /\ ServerStep("reapLocks", "settle", NoOne)
  /\ lock' = [p \in Profiles |-> IF p \in stale THEN NoOne ELSE lock[p]]
  /\ stale' = {}
  /\ UNCHANGED <<state, lastPid, session, browser>>

\* settleStuckProfile: kill the recorded browser, settle the state ...
BootSettles(p) ==
  /\ state[p] \in ActiveStates
  /\ ServerStep("settle", "forceUnlock", p)
  /\ SetState(p, IF state[p] = "stopping" THEN "stopped" ELSE "crashed")
  /\ browser' = [l \in Launches |-> IF l = lastPid[p] /\ browser[l] = "alive"
                                    THEN "dead" ELSE browser[l]]

\* ... and drop the lock, whoever held it.
BootForcesUnlock ==
  /\ ServerStep("forceUnlock", "settle", NoOne)
  /\ lock' = [lock EXCEPT ![server.on] = NoOne]
  /\ stale' = stale \ {server.on}
  /\ lastPid' = [lastPid EXCEPT ![server.on] = NoOne]
  /\ UNCHANGED <<state, session, browser>>

\* Mutant: the boot reaper trusts last_pid and looks for no other browser.
BootKillsNoOrphans ==
  /\ \A p \in Profiles : state[p] \notin ActiveStates
  /\ ServerStep("settle", "up", NoOne)
  /\ UNCHANGED <<rows, browser>>

\* killOrphanBrowsers: nothing is live at boot, so everything found goes.
BootKillsOrphans ==
  /\ \A p \in Profiles : state[p] \notin ActiveStates
  /\ ServerStep("settle", "up", NoOne)
  /\ browser' = [l \in Launches |-> IF browser[l] = "alive" THEN "dead" ELSE browser[l]]
  /\ UNCHANGED rows

Boot ==
  \/ BootReapsLocks \/ BootForcesUnlock \/ BootKillsOrphans
  \/ \E p \in Profiles : BootSettles(p)

-----------------------------------------------------------------------------
\* Calls and handlers that wait for nothing but the database, or not at all.
\* Credentials come from the vault file; only attaching them goes to the browser.
LaunchMidway(l) ==
  at[l] \notin {"new", "spawn", "cdp", "done", "failed"}
    \cup IF AuthPending THEN {"proxyAuth"} ELSE {}

StopMidway(s) == stopAt[s] \notin {"new", "terminate", "done", "failed"}

CrashMidway(l) == crashAt[l] \notin {"none", "done"}

MonitorMidway == monitor.on # NoOne

NobodyMidway ==
  /\ \A l \in Launches : ~LaunchMidway(l) /\ ~CrashMidway(l)
  /\ \A s \in Stops : ~StopMidway(s)
  /\ ~MonitorMidway

Up == server.step = "up"

\* Who may run: those already midway go first.
Turn(midway) == Up /\ (midway \/ NobodyMidway)

Next ==
  \/ \E l \in Launches : Turn(LaunchMidway(l)) /\ (Enter(l) \/ Launch(l) \/ Throw(l))
  \/ \E s \in Stops : Turn(StopMidway(s)) /\ (BeginStop(s) \/ Stop(s) \/ StopRelease(s))
  \/ \E l \in Launches : Turn(CrashMidway(l)) /\ (Crash(l) \/ CrashRelease(l))
  \/ \E l \in Launches : Turn(FALSE) /\ ExitEvent(l)
  \/ \E p \in Profiles : Turn(FALSE) /\ Heartbeat(p)
  \/ Turn(FALSE) /\ MonitorStarts
  \/ Turn(MonitorMidway) /\ Monitor
  \/ \E l \in Launches : BrowserDies(l)
  \/ \E p \in Profiles : LockAges(p)
  \/ ServerDies
  \/ Boot

Spec == Init /\ [][Next]_vars

\* Node's event loop is first come first served: a call whose I/O is done gets
\* its turn, although others midway go first again and again (hence strong
\* fairness).  What is midway goes on, the loops fire, and the boot reaper runs
\* to its end.  Nobody promises to launch or to stop, and no browser has to die.
Fairness ==
  /\ \A l \in Launches :
       /\ SF_vars(Turn(LaunchMidway(l)) /\ (Launch(l) \/ Throw(l)))
       /\ WF_vars(Turn(CrashMidway(l)) /\ (Crash(l) \/ CrashRelease(l)))
       /\ SF_vars(Turn(FALSE) /\ ExitEvent(l))
  /\ \A s \in Stops : SF_vars(Turn(StopMidway(s)) /\ (Stop(s) \/ StopRelease(s)))
  /\ \A p \in Profiles : WF_vars(LockAges(p))
  /\ WF_vars(Turn(FALSE) /\ MonitorStarts)
  /\ WF_vars(Turn(MonitorMidway) /\ Monitor)
  /\ WF_vars(Boot)

FairSpec == Spec /\ Fairness

-----------------------------------------------------------------------------
\* No call and no handler is at work on profile p.
Quiescent(p) ==
  /\ Up
  /\ \A c \in Calls : ProfileOf[c] = p => ~Working(c)
  /\ \A l \in Launches : ProfileOf[l] = p => crashAt[l] \in {"none", "done"}

\* Two browsers never run on the profile directory of one profile: no second
\* API request can double-launch a profile (manager.ts 4-6).
OneBrowser ==
  \A k, l \in Launches :
    k # l /\ browser[k] = "alive" /\ browser[l] = "alive" => ProfileOf[k] # ProfileOf[l]

\* While an entry is live its launch owns the profile's lock, for the whole
\* session (manager.ts 4-5); and once every call on a profile has returned, the
\* lock is owned by the live entry or by nobody: each failure path releases the
\* lock it took, so the next launch does not get ProfileBusyError
\* (manager.ts 264-273, 368-399, 502-566).
LockAgreesWithLive ==
  \A p \in Profiles :
    /\ live[p] # NoOne => lock[p] = live[p]
    /\ Quiescent(p) /\ lock[p] # NoOne /\ restarts = 0 => lock[p] = live[p]

\* Once every call on a profile has returned, a profile that is launching,
\* running or stopping has a live entry that can still be stopped; otherwise
\* stopProfile refuses it as if the manager had died (manager.ts 401-452).  And
\* a live browser is one the profile list shows as running, stopping or in
\* error: late writes of an earlier session never reach the row of a new one
\* (manager.ts 335-340, 502-566).
StateAgreesWithLive ==
  \A p \in Profiles : Quiescent(p) =>
    /\ state[p] \in ActiveStates => live[p] # NoOne
    /\ live[p] # NoOne => state[p] \in {"running", "stopping", "error"}

\* Once every call on a profile has returned, its only open session row is the
\* live one: every way a browser goes away closes its row (sessions.ts 50-60).
SessionsClosed ==
  \A l \in Launches :
    session[l] = "open" /\ restarts = 0 /\ Quiescent(ProfileOf[l]) => live[ProfileOf[l]] = l

\* Every launchProfile and stopProfile returns or throws.
CallsReturn == \A c \in Calls : Working(c) ~> ~Working(c)

\* A dead browser does not stay live: the exit event or the monitor sees it
\* (manager.ts 14-16).  This is so for entries no stopProfile has touched; a
\* stop that throws leaves entry.stopping set, and both watchers stand down.
UntouchedDeathNoticed ==
  \A l \in Launches :
    browser[l] = "dead" /\ live[ProfileOf[l]] = l
      ~> live[ProfileOf[l]] # l \/ l \in stopping

\* Whatever crashes, of a browser or of the server, no lock blocks a profile
\* for good: it is released, or grows old enough to be taken over, or the
\* profile has a live session (lock.ts 7-13, reaper.ts 151-165).
LockRecovers ==
  \A p \in Profiles : lock[p] # NoOne ~> LockFree(p) \/ live[p] # NoOne

\* When the server starts to listen, no browser survives from before and no
\* profile still claims one, however often the boot itself was cut short
\* (reaper.ts 143-170).
BootReconciles ==
  [][~Up /\ Up' => /\ \A l \in Launches : browser'[l] # "alive"
                   /\ \A p \in Profiles : state'[p] \notin ActiveStates /\ live'[p] = NoOne]_vars
=============================================================================
