------------------------ MODULE ProfileManager_proofs ------------------------
(***************************************************************************)
(* What TLAPS proves about ProfileLifecycle.tla and about ProfileManager,  *)
(* which wires the lifecycle to the launch governor.                       *)
(*                                                                         *)
(* Of the lifecycle: the type invariant, what the boot reaper leaves       *)
(* behind, and, for any number of profiles, calls, retries and restarts,   *)
(* that one profile never has two browsers and that the lock, the state    *)
(* row and the session rows agree with the live entry.                     *)
(*                                                                         *)
(* The lock is the heart of the argument.  At every moment a few calls     *)
(* "own" a profile (Owns): the launch in its live entry, a launch between  *)
(* acquireLock and releaseLock, a launch whose crash handler has not yet   *)
(* released, and a stop that works on an entry or acknowledges a failure.  *)
(* An owner has the lock (OwnersLock), so there is one at a time; a lock   *)
(* that is taken has an owner (LockOwned), so nobody forgets to release    *)
(* it; and a state that claims a browser has an owner too (ActiveOwned).   *)
(* The other parts say where each call, handler and loop can be meanwhile. *)
(*                                                                         *)
(* Of the manager: the composition still is the lifecycle, every browser   *)
(* has a slot, every slot comes back, and the cap bounds the browsers      *)
(* themselves; for any number of profiles, calls and slots.                *)
(*                                                                         *)
(* The argument is an equivalence.  A launch uses its profile (Using) when *)
(* it owns it in the lifecycle's sense, when a stop or a crash handler is  *)
(* about to give its slot back, or when it has its slot and is about to    *)
(* find out whether the profile is free.  A profile holds a slot exactly   *)
(* when some launch uses it (SlotInUse).  release() therefore has to come  *)
(* when the last one stops using it, and for this HolderAlone says that    *)
(* there is one holder at a time, and ClientsSerial that no other call of  *)
(* a client asks for the slot meanwhile.                                   *)
(*                                                                         *)
(* Both components bring their own invariants: LifecycleInv is kept        *)
(* because a step of the manager is a step of the lifecycle or none, and   *)
(* GovernorInv and NoLeakInv because it is one of the governor or none.    *)
(***************************************************************************)
EXTENDS ProfileManager, FiniteSetTheorems, TLAPS

\* What the guarantees rest on: the insert of the session row does not fail
\* (its failure escapes every handler of launchProfileInner), and when calls
\* on one profile may overlap, no launch outlives its lock's TTL and attaching
\* credentials does not let a crash handler in.  One call at a time, as the
\* API's clients make them, needs neither of these two.
Orderly ==
  /\ ~SessionInsertFails
  /\ Overlap => ~LocksMayAge /\ ~AuthPending

-----------------------------------------------------------------------------
\* Between acquireLock and releaseLock.
LaunchHolds ==
  {"toLaunching", "spawn", "cdp", "session", "proxyAuth", "toRunning",
   "recordPid", "abort", "endSession", "readState", "toError", "unlock"}
CrashHolds == {"endSession", "read", "toCrashed", "unlock"}
StopHolds == {"endSession", "toStopped", "clearPid", "unlock"}
AckHolds == {"ackState", "ackUnlock"}

\* A call owns its profile: its entry is live, or it is between acquireLock
\* and releaseLock, or its crash handler or the stop of its entry is.
Owns(c) ==
  \/ c \in Launches /\ live[ProfileOf[c]] = c
  \/ c \in Launches /\ at[c] \in LaunchHolds /\ crashAt[c] = "none"
  \/ c \in Launches /\ crashAt[c] \in CrashHolds
  \/ \E s \in Stops : target[s] = c /\ stopAt[s] \in StopHolds
  \/ c \in Stops /\ stopAt[c] \in AckHolds

\* What waits for nothing but the database runs to its end before anything
\* else starts.
OneMidway ==
  /\ \A k, l \in Launches : LaunchMidway(k) /\ LaunchMidway(l) => k = l
  /\ \A k, l \in Launches : CrashMidway(k) /\ CrashMidway(l) => k = l
  /\ \A s, t \in Stops : StopMidway(s) /\ StopMidway(t) => s = t
  /\ \A k, l \in Launches : ~(LaunchMidway(k) /\ CrashMidway(l))
  /\ \A l \in Launches, s \in Stops :
       StopMidway(s) => ~LaunchMidway(l) /\ ~CrashMidway(l)
  /\ MonitorMidway => /\ \A l \in Launches : ~LaunchMidway(l) /\ ~CrashMidway(l)
                      /\ \A s \in Stops : ~StopMidway(s)

\* Without Overlap, a profile has one call at a time.
Serial ==
  ~Overlap => \A c, d \in Calls :
    Working(c) /\ Working(d) /\ ProfileOf[c] = ProfileOf[d] => c = d

\* An owner has the lock, and when others may come for it the lock is fresh.
OwnersLock ==
  \A c \in Calls : Owns(c) => /\ lock[ProfileOf[c]] = c
                              /\ Overlap => ProfileOf[c] \notin stale

\* A lock has an owner, unless a server that died left it.
LockOwned ==
  Up /\ restarts = 0 => \A p \in Profiles :
    lock[p] # NoOne => ProfileOf[lock[p]] = p /\ Owns(lock[p])

\* A state that claims a browser has an owner who will correct it.
ActiveOwned ==
  Up => \A p \in Profiles :
    state[p] \in ActiveStates => \E l \in Launches : ProfileOf[l] = p /\ Owns(l)

\* A browser belongs to the launch that has just spawned it or to a live entry.
AliveOwned ==
  Up => \A l \in Launches :
    browser[l] = "alive" => at[l] \in {"cdp", "session"} \/ live[ProfileOf[l]] = l

\* A live entry is watched, not settled, and its launch is past startSession.
LiveParts ==
  \A p \in Profiles : live[p] # NoOne =>
    /\ ProfileOf[live[p]] = p
    /\ live[p] \in watched \ settled
    /\ crashAt[live[p]] = "none"
    /\ at[live[p]] \in {"proxyAuth", "toRunning", "recordPid", "abort", "done"}
    /\ at[live[p]] = "done" => state[p] \in {"running", "stopping", "error"}

\* An entry leaves live when it is settled, and is settled when it leaves.
EntryParts ==
  /\ \A l \in watched \ settled : live[ProfileOf[l]] = l
  /\ stopping \subseteq watched
  /\ settled \subseteq watched
  /\ \A l \in settled : browser[l] # "alive"
  /\ \A l \in watched :
       at[l] \notin {"new", "lock", "toLaunching", "spawn", "cdp", "session"}
  /\ \A l \in exited :
       /\ browser[l] = "dead"
       /\ at[l] \notin {"new", "lock", "toLaunching", "spawn", "cdp"}

\* The monitor looks at entries it saw live, and writes only what it has read.
MonitorParts ==
  /\ monitor.todo \subseteq watched
  /\ monitor.on # NoOne => live[ProfileOf[monitor.on]] = monitor.on
  /\ monitor.on # NoOne /\ monitor.step = "write" =>
       state[ProfileOf[monitor.on]] = "running"
  /\ monitor.on = NoOne => monitor.step = "read"

\* What a launch can rely on at each step, whatever the others do meanwhile.
LaunchParts == \A l \in Launches :
  /\ at[l] \in {"new", "lock", "toLaunching", "spawn"} => browser[l] # "alive"
  /\ at[l] \in {"new", "lock", "toLaunching"} => browser[l] = "none"
  /\ at[l] = "lock" => live[ProfileOf[l]] = NoOne
  /\ at[l] \in {"toLaunching", "unlock"} => state[ProfileOf[l]] \notin ActiveStates
  /\ at[l] \in {"spawn", "cdp", "session", "proxyAuth", "toRunning", "abort",
                "endSession", "readState"} /\ crashAt[l] = "none"
       => state[ProfileOf[l]] = "launching"
  /\ at[l] = "toError" => state[ProfileOf[l]] = "launching" /\ crashAt[l] = "none"
  /\ at[l] = "recordPid" => state[ProfileOf[l]] = "running"
  /\ at[l] \in {"proxyAuth", "toRunning", "recordPid", "abort"} /\ crashAt[l] = "none"
       => live[ProfileOf[l]] = l
  /\ at[l] = "recordPid" => crashAt[l] = "none"
  /\ Working(l) /\ crashAt[l] # "none" => live[ProfileOf[l]] = NoOne /\ ~Overlap

\* What a crash handler can rely on at each step.
CrashParts == \A l \in Launches :
  /\ crashAt[l] # "none" => l \in settled
  /\ crashAt[l] \in CrashHolds => live[ProfileOf[l]] = NoOne
  /\ crashAt[l] = "toCrashed" => state[ProfileOf[l]] \in ActiveStates
  /\ crashAt[l] \in {"unlock", "release"} => state[ProfileOf[l]] \notin ActiveStates
  /\ crashAt[l] = "done" /\ Working(l) => state[ProfileOf[l]] \notin ActiveStates

\* What a stop can rely on at each step.
StopParts == \A s \in Stops :
  /\ target[s] \in Launches => /\ ProfileOf[target[s]] = ProfileOf[s]
                               /\ target[s] \in stopping
                               /\ at[target[s]] = "done"
  /\ stopAt[s] \in {"read", "toStopping", "terminate", "finalize"} \cup StopHolds
       => target[s] \in Launches
  /\ stopAt[s] \in {"read", "toStopping"} => live[ProfileOf[s]] = target[s]
  /\ stopAt[s] = "toStopping" => state[ProfileOf[s]] = "running"
  /\ stopAt[s] \in {"terminate", "finalize"} /\ target[s] \notin settled
       => state[ProfileOf[s]] \in {"stopping", "error"}
  /\ stopAt[s] = "finalize" => browser[target[s]] # "alive"
  /\ stopAt[s] \in StopHolds => target[s] \in settled /\ live[ProfileOf[s]] = NoOne
  /\ stopAt[s] \in {"endSession", "toStopped"}
       => state[ProfileOf[s]] \in {"stopping", "error"}
  /\ stopAt[s] \in {"clearPid", "unlock"} => state[ProfileOf[s]] = "stopped"
  /\ stopAt[s] \in {"unmanaged", "ackLock"} \cup AckHolds => live[ProfileOf[s]] = NoOne
  /\ stopAt[s] \in {"ackLock", "ackState"}
       => state[ProfileOf[s]] \in {"crashed", "error"}
  /\ stopAt[s] = "ackUnlock" => state[ProfileOf[s]] \notin ActiveStates

\* An open session row has somebody who will close it.
SessionOwned ==
  restarts = 0 => \A l \in Launches : session[l] = "open" =>
    \/ live[ProfileOf[l]] = l
    \/ at[l] = "endSession"
    \/ crashAt[l] = "endSession"
    \/ \E s \in Stops : target[s] = l /\ stopAt[s] = "endSession"

\* The memory of a server that boots is empty.
Cleared ==
  ~Up =>
    /\ \A l \in Launches : at[l] \in {"new", "done", "failed"} /\ crashAt[l] = "none"
    /\ \A s \in Stops : stopAt[s] \in {"new", "done", "failed"} /\ target[s] = NoOne
    /\ \A p \in Profiles : live[p] = NoOne
    /\ watched = {} /\ monitor = Idle /\ restarts > 0

\* The inductive invariant behind every theorem with Orderly below.
LifecycleInv ==
  /\ TypeOK
  /\ OneMidway
  /\ Serial
  /\ OwnersLock
  /\ LockOwned
  /\ ActiveOwned
  /\ AliveOwned
  /\ LiveParts
  /\ EntryParts
  /\ MonitorParts
  /\ LaunchParts
  /\ CrashParts
  /\ StopParts
  /\ SessionOwned
  /\ Cleared
  /\ OneBrowser

\* A stop that is at work on an entry has one.
StopsHaveTarget ==
  \A s \in Stops :
    stopAt[s] \in {"read", "toStopping", "terminate", "finalize"} \cup StopHolds
      => target[s] \in Launches

\* The memory of a server that boots has no live entry, whatever the constants.
BootsEmpty == ~Up => \A p \in Profiles : live[p] = NoOne

-----------------------------------------------------------------------------
\* A step of the monitor keeps the types; the record it updates is a case of
\* its own.
LEMMA MonitorTyped ==
  ASSUME TypeOK, MonitorStarts \/ Monitor
  PROVE  TypeOK'
<1> USE LifecycleAssumption DEF TypeOK, OrNone, Calls, rows, entries, notCrash
<1> DEFINE T == [todo : SUBSET Launches, on : OrNone(Launches), step : {"read", "write"}]
<1>1. ASSUME monitor \in T, NEW S \in SUBSET Launches, NEW l \in OrNone(Launches),
             NEW x \in {"read", "write"}
      PROVE  /\ [monitor EXCEPT !.todo = S] \in T
             /\ [monitor EXCEPT !.todo = S, !.on = l] \in T
             /\ [monitor EXCEPT !.on = l] \in T
             /\ [monitor EXCEPT !.on = l, !.step = x] \in T
             /\ [monitor EXCEPT !.step = x] \in T
  BY <1>1
<1>2. CASE MonitorStarts
  <2>1. {live[p] : p \in Profiles} \ {NoOne} \in SUBSET Launches
    OBVIOUS
  <2>2. monitor' \in T
    BY <1>2, <2>1 DEF MonitorStarts, Idle
  <2> QED BY <1>2, <2>2 DEF MonitorStarts
<1>3. ASSUME NEW l \in Launches, MonitorVisits(l) PROVE TypeOK'
  <2>1. monitor.todo \ {l} \in SUBSET Launches
    OBVIOUS
  <2>2. monitor' \in T
    <3>1. \/ monitor' = [monitor EXCEPT !.todo = @ \ {l}]
          \/ monitor' = [monitor EXCEPT !.todo = @ \ {l}, !.on = l]
      BY <1>3 DEF MonitorVisits
    <3>2. monitor \in T /\ l \in OrNone(Launches)
      OBVIOUS
    <3>3. /\ [monitor EXCEPT !.todo = @ \ {l}] \in T
          /\ [monitor EXCEPT !.todo = @ \ {l}, !.on = l] \in T
      BY <1>1, <2>1, <3>2
    <3> QED BY <3>1, <3>3
  <2>3. /\ live' \in [Profiles -> OrNone(Launches)]
        /\ settled' \in SUBSET Launches
        /\ crashAt' \in [Launches -> CrashSteps]
    BY <1>3 DEF MonitorVisits, HandleCrash, CrashGoto, CrashSteps
  <2> QED BY <1>3, <2>2, <2>3 DEF MonitorVisits
<1>4. CASE MonitorReads
  <2>1. monitor' \in T
    BY <1>1, <1>4 DEF MonitorReads
  <2> QED BY <1>4, <2>1 DEF MonitorReads
<1>5. CASE MonitorMarksError
  <2>1. monitor' \in T
    BY <1>1, <1>5 DEF MonitorMarksError
  <2> QED BY <1>5, <2>1 DEF MonitorMarksError, TrySetState, SetState, States
<1> QED BY <1>2, <1>3, <1>4, <1>5 DEF Monitor

\* One step keeps the types, and every stop at work on an entry has one.
LEMMA TypesStep ==
  TypeOK /\ StopsHaveTarget /\ [Next]_vars => TypeOK' /\ StopsHaveTarget'
<1> SUFFICES ASSUME TypeOK, StopsHaveTarget, [Next]_vars
             PROVE  TypeOK' /\ StopsHaveTarget'
  OBVIOUS
<1> USE LifecycleAssumption
    DEF TypeOK, OrNone, Calls, StopsHaveTarget, StopHolds, rows, entries
<1>1. ASSUME NEW l \in Launches, Enter(l) \/ Launch(l) \/ Throw(l)
      PROVE  TypeOK' /\ StopsHaveTarget'
  BY <1>1 DEF Enter, Throw, Launch, LaunchLock, ToLaunching, Spawn, CdpReady,
     CdpFails, Register, SessionFails, ProxyAuth, ToRunning, RecordPid, Abort,
     AbortEndsSession, ReadState, ToError, LaunchUnlock, Goto, notLaunch,
     LaunchSteps, Die, TrySetState, SetState, TakeLock, ReleaseLock,
     WriteSession, States
<1>2. ASSUME NEW s \in Stops, BeginStop(s) \/ Stop(s) \/ StopRelease(s)
      PROVE  TypeOK' /\ StopsHaveTarget'
  BY <1>2 DEF BeginStop, StopRelease, Stop, StopReads, ToStopping, Terminate,
     StopTimesOut, Finalize, StopEndsSession, ToStopped, ClearPid, StopUnlock,
     StopUnmanaged, AckLock, AckState, AckUnlock, StopGoto, notStop, StopSteps,
     Die, TrySetState, SetState, TakeLock, ReleaseLock, WriteSession, States
<1>3. ASSUME NEW l \in Launches, Crash(l) \/ CrashRelease(l) \/ ExitEvent(l)
      PROVE  TypeOK' /\ StopsHaveTarget'
  BY <1>3 DEF Crash, CrashEndsSession, CrashReads, ToCrashed, CrashUnlock,
     CrashRelease, CrashGoto, ExitEvent, HandleCrash, CrashSteps, notCrash,
     TrySetState, SetState, ReleaseLock, WriteSession, States
<1>4. CASE MonitorStarts \/ Monitor
  <2>1. UNCHANGED <<stopAt, target>>
    BY <1>4 DEF MonitorStarts, Monitor, MonitorVisits, MonitorReads,
       MonitorMarksError, notCrash
  <2> QED BY <1>4, <2>1, MonitorTyped
<1>5. ASSUME NEW p \in Profiles, Heartbeat(p) \/ LockAges(p)
      PROVE  TypeOK' /\ StopsHaveTarget'
  BY <1>5 DEF Heartbeat, LockAges, memory
<1>6. ASSUME NEW l \in Launches, BrowserDies(l)
      PROVE  TypeOK' /\ StopsHaveTarget'
  BY <1>6 DEF BrowserDies, Die, notLaunch
<1>7. CASE ServerDies
  BY <1>7 DEF ServerDies, Idle, LaunchSteps, StopSteps, CrashSteps
<1>8. CASE Boot
  BY <1>8 DEF Boot, BootReapsLocks, BootSettles, BootForcesUnlock,
     BootKillsOrphans, ServerStep, SetState, memory, States
<1>9. CASE UNCHANGED vars
  BY <1>9 DEF vars, memory
<1> QED BY <1>1, <1>2, <1>3, <1>4, <1>5, <1>6, <1>7, <1>8, <1>9 DEF Next

\* Whatever the constants, every variable keeps its type, and a stop at work on
\* an entry has one.
THEOREM TypeCorrect == Spec => [](TypeOK /\ StopsHaveTarget)
<1>1. Init => TypeOK /\ StopsHaveTarget
  BY LifecycleAssumption DEF Init, TypeOK, OrNone, Calls, Idle, States,
     LaunchSteps, StopSteps, CrashSteps, StopsHaveTarget, StopHolds
<1> QED BY <1>1, TypesStep, PTL DEF Spec

\* When a launch takes its turn, nobody else is midway.
LEMMA LaunchAlone ==
  ASSUME TypeOK, OneMidway, NEW l \in Launches, Turn(LaunchMidway(l))
  PROVE  /\ \A k \in Launches \ {l} : ~LaunchMidway(k)
         /\ \A k \in Launches : ~CrashMidway(k)
         /\ \A s \in Stops : ~StopMidway(s)
         /\ ~MonitorMidway
         /\ Up
BY DEF OneMidway, Turn, NobodyMidway

\* ... nor is anybody else after a step of the launch.
LEMMA LaunchStaysAlone ==
  ASSUME TypeOK, OneMidway, NEW l \in Launches, Turn(LaunchMidway(l)),
         NEW x, at' = [at EXCEPT ![l] = x], UNCHANGED <<stopAt, crashAt, monitor>>
  PROVE  OneMidway'
<1>1. /\ \A k \in Launches \ {l} : ~LaunchMidway(k)'
      /\ \A k \in Launches : ~CrashMidway(k)'
      /\ \A s \in Stops : ~StopMidway(s)'
      /\ ~MonitorMidway'
  BY LaunchAlone DEF LaunchMidway, CrashMidway, StopMidway, MonitorMidway, TypeOK
<1> QED BY <1>1 DEF OneMidway

\* Every step of launchProfileInner and of its failure paths keeps the invariant.
\* The lock is taken at LaunchLock, where nobody owns the profile.
LEMMA LaunchKeeps ==
  ASSUME LifecycleInv, TypeOK', Orderly, NEW l \in Launches, Turn(LaunchMidway(l)),
         Enter(l) \/ Launch(l) \/ Throw(l)
  PROVE  LifecycleInv'
<1> USE LifecycleAssumption DEF LifecycleInv, TypeOK, OrNone, Calls
<1>0. /\ \A k \in Launches \ {l} : ~LaunchMidway(k)
      /\ \A k \in Launches : ~CrashMidway(k)
      /\ \A s \in Stops : ~StopMidway(s)
      /\ ~MonitorMidway
      /\ Up
  BY LaunchAlone
<1> USE DEF LaunchHolds, CrashHolds, StopHolds, AckHolds, ActiveStates, LaunchMidway,
   CrashMidway, StopMidway, MonitorMidway, Up
<1>1. CASE Enter(l)
  <2> USE <1>1 DEF Enter, Goto, rows, entries, notLaunch, MayBegin, Orderly,
     Turn, NobodyMidway
  <2>1. OneMidway'
    BY LaunchStaysAlone
  <2>2. Serial' /\ OwnersLock' /\ LockOwned' /\ ActiveOwned'
    BY <1>0 DEF Serial, Working, OwnersLock, Owns, LockOwned, ActiveOwned
  <2>3. /\ AliveOwned' /\ LiveParts' /\ EntryParts' /\ MonitorParts'
        /\ SessionOwned' /\ Cleared' /\ OneBrowser'
    BY <1>0 DEF AliveOwned, LiveParts, EntryParts, MonitorParts, SessionOwned,
       Cleared, OneBrowser
  <2>4. StopParts'
    BY <1>0 DEF StopParts
  <2>5. LaunchParts'
    BY <1>0 DEF LaunchParts, Working, CrashParts, EntryParts
  <2>6. CrashParts'
    BY <1>0 DEF CrashParts, Working, EntryParts
  <2> QED BY <2>1, <2>2, <2>3, <2>4, <2>5, <2>6
<1>2. CASE LaunchLock(l)
  <2> USE <1>2 DEF LaunchLock, Goto, rows, entries, notLaunch, TakeLock,
     LockFree
  <2> DEFINE p == ProfileOf[l]
  <2>1. ASSUME LockFree(p), NEW c \in Calls, ProfileOf[c] = p PROVE ~Owns(c)
    <3>1. live[p] = NoOne
       BY DEF LaunchParts
    <3>2. CASE Overlap
      BY <2>1, <3>2 DEF LockFree, OwnersLock
    <3>3. CASE ~Overlap
      <4>1. \A d \in Launches : d # l /\ ProfileOf[d] = p => at[d] \in {"new",
         "done", "failed"}
        BY <3>3 DEF Serial, Working
      <4> QED BY <2>1, <3>1, <4>1, <1>0 DEF Owns
    <3> QED BY <3>2, <3>3
  <2>2. ASSUME LockFree(p) PROVE state[p] \notin ActiveStates
    BY <2>1, <2>2, <1>0 DEF ActiveOwned
  <2>3. crashAt[l] = "none"
    BY DEF CrashParts, EntryParts
  <2>4. ASSUME NEW c \in Calls, c # l PROVE Owns(c)' <=> Owns(c)
    BY <2>4 DEF Owns
  <2>5. Owns(l)' <=> LockFree(p)
    BY <2>1, <2>3, <1>0 DEF Owns, LaunchParts
  <2>6. ~Owns(l)
    BY <2>3, <1>0 DEF Owns, LaunchParts
  <2>7. OneMidway'
    BY LaunchStaysAlone
  <2>8. Serial'
    BY <1>0 DEF Serial, Working
  <2>9. ActiveOwned'
    BY <1>0 DEF ActiveOwned, Owns
  <2>10. /\ AliveOwned' /\ LiveParts' /\ EntryParts' /\ MonitorParts'
         /\ SessionOwned' /\ Cleared' /\ OneBrowser'
    BY <1>0 DEF AliveOwned, LiveParts, EntryParts, MonitorParts, SessionOwned,
       Cleared, OneBrowser
  <2>11. CrashParts' /\ StopParts'
    BY <1>0 DEF CrashParts, Working, StopParts
  <2>12. OwnersLock'
    BY <2>1, <2>4, <2>5 DEF OwnersLock
  <2>13. LockOwned'
    BY <2>4, <2>5, <2>6 DEF LockOwned
  <2>14. LaunchParts'
    BY <2>2, <2>3 DEF LaunchParts, Working
  <2> QED BY <2>7, <2>8, <2>9, <2>10, <2>11, <2>12, <2>13, <2>14
<1>3. CASE ToLaunching(l)
  <2> USE <1>3 DEF ToLaunching, Goto, rows, entries, notLaunch, TrySetState,
     SetState, CanTransition, Successors
  <2>1. OneMidway'
    BY LaunchStaysAlone
  <2>2. Serial' /\ OwnersLock' /\ LockOwned'
    BY <1>0 DEF Serial, Working, OwnersLock, Owns, LockOwned
  <2>3. /\ AliveOwned' /\ EntryParts' /\ MonitorParts' /\ SessionOwned'
        /\ Cleared' /\ OneBrowser'
    BY <1>0 DEF AliveOwned, EntryParts, MonitorParts, SessionOwned, Cleared,
       OneBrowser
  <2>4. LaunchParts'
    BY <1>0 DEF LaunchParts, Working
  <2>5. ActiveOwned'
    BY <1>0 DEF ActiveOwned, Owns, CrashParts, EntryParts
  <2>6. LiveParts'
    BY <1>0 DEF LiveParts, EntryParts, CrashParts, OwnersLock, Owns
  <2>7. CrashParts'
    BY <1>0 DEF CrashParts, Working, LaunchParts, EntryParts, Serial
  <2>8. StopParts'
    BY <1>0 DEF StopParts, EntryParts, CrashParts, OwnersLock, Owns
  <2> QED BY <2>1, <2>2, <2>3, <2>4, <2>5, <2>6, <2>7, <2>8
<1>4. CASE Spawn(l)
  <2> USE <1>4 DEF Spawn, Goto, rows, entries, notLaunch
  <2>1. OneMidway'
    BY LaunchStaysAlone
  <2>2. Serial' /\ OwnersLock'
    BY <1>0 DEF Serial, Working, OwnersLock, Owns
  <2>3. LockOwned' /\ ActiveOwned'
    BY <1>0 DEF LockOwned, Owns, ActiveOwned
  <2>4. /\ AliveOwned' /\ LiveParts' /\ EntryParts' /\ MonitorParts'
        /\ SessionOwned' /\ Cleared'
    BY <1>0 DEF AliveOwned, LiveParts, EntryParts, MonitorParts, SessionOwned,
       Cleared
  <2>5. LaunchParts' /\ CrashParts' /\ StopParts'
    BY <1>0 DEF LaunchParts, Working, CrashParts, StopParts
  <2>6. OneBrowser'
    BY <1>0 DEF OneBrowser, AliveOwned, OwnersLock, Owns, EntryParts,
       CrashParts
  <2> QED BY <2>1, <2>2, <2>3, <2>4, <2>5, <2>6
<1>5. CASE CdpReady(l)
  <2> USE <1>5 DEF CdpReady, Goto, rows, entries, notLaunch
  <2>1. OneMidway'
    BY LaunchStaysAlone
  <2>2. Serial' /\ OwnersLock' /\ LockOwned' /\ ActiveOwned'
    BY <1>0 DEF Serial, Working, OwnersLock, Owns, LockOwned, ActiveOwned
  <2>3. /\ AliveOwned' /\ LiveParts' /\ EntryParts' /\ MonitorParts'
        /\ SessionOwned' /\ Cleared' /\ OneBrowser'
    BY <1>0 DEF AliveOwned, LiveParts, EntryParts, MonitorParts, SessionOwned,
       Cleared, OneBrowser
  <2>4. LaunchParts' /\ CrashParts' /\ StopParts'
    BY <1>0 DEF LaunchParts, Working, CrashParts, StopParts
  <2> QED BY <2>1, <2>2, <2>3, <2>4
<1>6. CASE CdpFails(l)
  <2> USE <1>6 DEF CdpFails, Goto, rows, entries, notLaunch, Die
  <2>1. OneMidway'
    BY LaunchStaysAlone
  <2>2. Serial'
    <3>1. \A c \in Calls : Working(c)' => Working(c)
      BY DEF Working
    <3> QED BY <3>1 DEF Serial
  <2>3. OwnersLock'
    BY <1>0 DEF OwnersLock, Owns
  <2>4. LockOwned' /\ ActiveOwned'
    BY <1>0 DEF LockOwned, Owns, ActiveOwned
  <2>5. /\ AliveOwned' /\ LiveParts' /\ EntryParts' /\ MonitorParts'
        /\ SessionOwned' /\ Cleared' /\ OneBrowser'
    BY <1>0 DEF AliveOwned, LiveParts, EntryParts, MonitorParts, SessionOwned,
       Cleared, OneBrowser
  <2>6. LaunchParts' /\ CrashParts' /\ StopParts'
    BY <1>0 DEF LaunchParts, Working, CrashParts, StopParts
  <2> QED BY <2>1, <2>2, <2>3, <2>4, <2>5, <2>6
<1>7. CASE Register(l)
  <2> USE <1>7 DEF Register, Goto, rows, entries, notLaunch, WriteSession
  <2>1. OneMidway'
    BY LaunchStaysAlone
  <2>2. Serial' /\ ActiveOwned'
    BY <1>0 DEF Serial, Working, ActiveOwned, Owns
  <2>3. MonitorParts' /\ Cleared' /\ OneBrowser'
    BY <1>0 DEF MonitorParts, Cleared, OneBrowser
  <2>4. CrashParts' /\ StopParts'
    BY <1>0 DEF CrashParts, Working, StopParts
  <2>5. OwnersLock'
    BY <1>0 DEF OwnersLock, Owns, CrashParts, EntryParts
  <2>6. LockOwned'
    BY <1>0 DEF LockOwned, Owns, CrashParts, EntryParts, OwnersLock
  <2>7. AliveOwned'
    BY <1>0 DEF AliveOwned, EntryParts, CrashParts, OwnersLock, Owns
  <2>8. LiveParts'
    BY <1>0 DEF LiveParts, EntryParts, CrashParts
  <2>9. EntryParts'
    BY <1>0 DEF EntryParts, CrashParts, OwnersLock, Owns
  <2>10. LaunchParts'
    BY <1>0 DEF LaunchParts, Working, CrashParts, EntryParts, OwnersLock, Owns
  <2>11. SessionOwned'
    BY <1>0 DEF SessionOwned, CrashParts, EntryParts, OwnersLock, Owns
  <2> QED BY <2>1, <2>2, <2>3, <2>4, <2>5, <2>6, <2>7, <2>8, <2>9, <2>10, <2>11
<1>8. CASE ProxyAuth(l)
  <2> USE <1>8 DEF ProxyAuth, Goto, rows, entries, notLaunch
  <2>1. OneMidway'
    BY LaunchStaysAlone
  <2>2. Serial'
    BY <1>0 DEF Serial, Working
  <2>3. OwnersLock'
    BY <1>0 DEF OwnersLock, Owns
  <2>4. LockOwned' /\ ActiveOwned'
    BY <1>0 DEF LockOwned, Owns, ActiveOwned
  <2>5. /\ AliveOwned' /\ LiveParts' /\ EntryParts' /\ MonitorParts'
        /\ SessionOwned' /\ Cleared' /\ OneBrowser'
    BY <1>0 DEF AliveOwned, LiveParts, EntryParts, MonitorParts, SessionOwned,
       Cleared, OneBrowser
  <2>6. LaunchParts' /\ CrashParts' /\ StopParts'
    BY <1>0 DEF LaunchParts, Working, CrashParts, StopParts
  <2> QED BY <2>1, <2>2, <2>3, <2>4, <2>5, <2>6
<1>9. CASE ToRunning(l)
  <2> USE <1>9 DEF ToRunning, Goto, rows, entries, notLaunch, TrySetState,
     SetState, CanTransition, Successors
  <2>1. \A c \in Calls : Owns(c)' <=> Owns(c)
    BY DEF Owns
  <2>2. state'[ProfileOf[l]] \in ActiveStates => state[ProfileOf[l]] \in ActiveStates
    BY DEF States
  <2>3. OneMidway'
    BY LaunchStaysAlone
  <2>4. Serial' /\ OwnersLock' /\ LockOwned'
    BY <1>0 DEF Serial, Working, OwnersLock, Owns, LockOwned
  <2>5. AliveOwned'
    BY <1>0 DEF AliveOwned
  <2>6. LiveParts' /\ EntryParts'
    BY <1>0 DEF LiveParts, EntryParts
  <2>7. MonitorParts' /\ SessionOwned' /\ Cleared' /\ OneBrowser'
    BY <1>0 DEF MonitorParts, SessionOwned, Cleared, OneBrowser
  <2>8. StopParts'
    BY <1>0 DEF StopParts
  <2>9. ActiveOwned'
    BY <2>1, <2>2 DEF ActiveOwned
  <2>10. LaunchParts'
    BY <1>0 DEF LaunchParts, Working, CrashParts, StopParts, LiveParts,
       EntryParts, OwnersLock, ActiveOwned, Owns, States, Serial
  <2>11. CrashParts'
    BY <1>0 DEF CrashParts, Working, LaunchParts, LiveParts, EntryParts,
       OwnersLock, Owns, Serial, States
  <2> QED BY <2>3, <2>4, <2>5, <2>6, <2>7, <2>8, <2>9, <2>10, <2>11
<1>10. CASE RecordPid(l)
  <2> USE <1>10 DEF RecordPid, Goto, rows, entries, notLaunch
  <2>1. OneMidway'
    BY LaunchStaysAlone
  <2>2. Serial' /\ OwnersLock'
    BY <1>0 DEF Serial, Working, OwnersLock, Owns
  <2>3. /\ AliveOwned' /\ EntryParts' /\ MonitorParts' /\ SessionOwned'
        /\ Cleared' /\ OneBrowser'
    BY <1>0 DEF AliveOwned, EntryParts, MonitorParts, SessionOwned, Cleared,
       OneBrowser
  <2>4. LaunchParts' /\ CrashParts' /\ StopParts'
    BY <1>0 DEF LaunchParts, Working, CrashParts, StopParts
  <2>5. LockOwned'
    BY <1>0 DEF LockOwned, Owns, LaunchParts
  <2>6. ActiveOwned'
    BY <1>0 DEF ActiveOwned, Owns, LaunchParts
  <2>7. LiveParts'
    BY <1>0 DEF LiveParts, LaunchParts
  <2> QED BY <2>1, <2>2, <2>3, <2>4, <2>5, <2>6, <2>7
<1>11. CASE Abort(l)
  <2> USE <1>11 DEF Abort, Goto, rows, entries, notLaunch, Die
  <2>1. /\ live[ProfileOf[l]] \in {l, NoOne}
        /\ crashAt[l] = "none" => live[ProfileOf[l]] = l
        /\ crashAt[l] # "none" => live[ProfileOf[l]] = NoOne
        /\ at[l] = "abort" /\ l \in watched
    BY DEF LaunchParts, Working, LiveParts, EntryParts, CrashParts
  <2>2. /\ live' = [live EXCEPT ![ProfileOf[l]] = NoOne]
        /\ settled' = settled \cup {l}
        /\ at' = [at EXCEPT ![l] = "endSession"]
        /\ UNCHANGED <<lock, state, session, stale, stopAt, target, crashAt, server,
           restarts, monitor, watched, stopping>>
        /\ \A k \in Launches \ {l} : browser'[k] = browser[k]
        /\ browser'[l] # "alive"
        /\ exited' \subseteq exited \cup {l}
        /\ exited' # exited => browser'[l] = "dead"
    OBVIOUS
  <2>3. \A c \in Calls : Owns(c)' <=> Owns(c)
    <3>1. Owns(l)' <=> Owns(l)
      BY <1>0, <2>1, <2>2 DEF Owns
    <3>2. ASSUME NEW k \in Launches \ {l}
          PROVE  live'[ProfileOf[k]] = k <=> live[ProfileOf[k]] = k
      BY <2>1, <2>2
    <3> QED BY <3>1, <3>2, <2>2 DEF Owns
  <2>4. OneMidway'
    BY LaunchStaysAlone
  <2>5. Serial'
    BY <1>0 DEF Serial, Working
  <2>6. LiveParts' /\ MonitorParts' /\ Cleared' /\ OneBrowser'
    BY <1>0 DEF LiveParts, MonitorParts, Cleared, OneBrowser
  <2>7. LaunchParts' /\ CrashParts' /\ StopParts'
    BY <1>0 DEF LaunchParts, Working, CrashParts, StopParts
  <2>8. OwnersLock'
    BY <2>2, <2>3 DEF OwnersLock
  <2>9. LockOwned'
    BY <2>2, <2>3 DEF LockOwned
  <2>10. ActiveOwned'
    BY <2>2, <2>3 DEF ActiveOwned
  <2>11. AliveOwned'
    BY <2>1, <2>2 DEF AliveOwned
  <2>12. EntryParts'
    BY <2>1, <2>2 DEF EntryParts
  <2>13. SessionOwned'
    BY <1>0, <2>1, <2>2 DEF SessionOwned, LaunchParts
  <2> QED BY <2>4, <2>5, <2>6, <2>7, <2>8, <2>9, <2>10, <2>11, <2>12, <2>13
<1>12. CASE AbortEndsSession(l)
  <2> USE <1>12 DEF AbortEndsSession, Goto, rows, entries, notLaunch,
     WriteSession
  <2>1. OneMidway'
    BY LaunchStaysAlone
  <2>2. Serial' /\ OwnersLock' /\ LockOwned' /\ ActiveOwned'
    BY <1>0 DEF Serial, Working, OwnersLock, Owns, LockOwned, ActiveOwned
  <2>3. /\ AliveOwned' /\ LiveParts' /\ EntryParts' /\ MonitorParts'
        /\ SessionOwned' /\ Cleared' /\ OneBrowser'
    BY <1>0 DEF AliveOwned, LiveParts, EntryParts, MonitorParts, SessionOwned,
       Cleared, OneBrowser
  <2>4. LaunchParts' /\ CrashParts' /\ StopParts'
    BY <1>0 DEF LaunchParts, Working, CrashParts, StopParts
  <2> QED BY <2>1, <2>2, <2>3, <2>4
<1>13. CASE ReadState(l)
  <2> USE <1>13 DEF ReadState, Goto, rows, entries, notLaunch
  <2>1. OneMidway'
    BY LaunchStaysAlone
  <2>2. Serial' /\ OwnersLock' /\ LockOwned' /\ ActiveOwned'
    BY <1>0 DEF Serial, Working, OwnersLock, Owns, LockOwned, ActiveOwned
  <2>3. /\ AliveOwned' /\ LiveParts' /\ EntryParts' /\ MonitorParts'
        /\ SessionOwned' /\ Cleared' /\ OneBrowser'
    BY <1>0 DEF AliveOwned, LiveParts, EntryParts, MonitorParts, SessionOwned,
       Cleared, OneBrowser
  <2>4. CrashParts' /\ StopParts'
    BY <1>0 DEF CrashParts, Working, StopParts
  <2>5. LaunchParts'
    BY <1>0 DEF LaunchParts, Working, CrashParts
  <2> QED BY <2>1, <2>2, <2>3, <2>4, <2>5
<1>14. CASE ToError(l)
  <2> USE <1>14 DEF ToError, Goto, rows, entries, notLaunch, TrySetState,
     SetState, CanTransition, Successors
  <2>1. OneMidway'
    BY LaunchStaysAlone
  <2>2. Serial' /\ OwnersLock' /\ LockOwned' /\ ActiveOwned'
    BY <1>0 DEF Serial, Working, OwnersLock, Owns, LockOwned, ActiveOwned
  <2>3. /\ AliveOwned' /\ LiveParts' /\ EntryParts' /\ MonitorParts'
        /\ SessionOwned' /\ Cleared' /\ OneBrowser'
    BY <1>0 DEF AliveOwned, LiveParts, EntryParts, MonitorParts, SessionOwned,
       Cleared, OneBrowser
  <2>4. CrashParts' /\ StopParts'
    BY <1>0 DEF CrashParts, Working, StopParts
  <2>5. LaunchParts'
    BY <1>0 DEF LaunchParts, Working, OwnersLock, Owns
  <2> QED BY <2>1, <2>2, <2>3, <2>4, <2>5
<1>15. CASE LaunchUnlock(l)
  <2> USE <1>15 DEF LaunchUnlock, Goto, rows, entries, notLaunch, ReleaseLock
  <2>1. ASSUME NEW c \in Calls, c # l PROVE Owns(c)' <=> Owns(c)
    BY <2>1 DEF Owns
  <2>2. at[l] = "unlock" /\ at' = [at EXCEPT ![l] = "throw"] /\ UNCHANGED <<live,
     crashAt, stopAt, target>>
    OBVIOUS
  <2>3. ~Owns(l)'
    BY <2>2, <1>0 DEF Owns, LiveParts
  <2>4. OneMidway'
    BY LaunchStaysAlone
  <2>5. Serial'
    BY <1>0 DEF Serial, Working
  <2>6. /\ AliveOwned' /\ LiveParts' /\ EntryParts' /\ MonitorParts'
        /\ SessionOwned' /\ Cleared' /\ OneBrowser'
    BY <1>0 DEF AliveOwned, LiveParts, EntryParts, MonitorParts, SessionOwned,
       Cleared, OneBrowser
  <2>7. LaunchParts' /\ CrashParts' /\ StopParts'
    BY <1>0 DEF LaunchParts, Working, CrashParts, StopParts
  <2>8. OwnersLock'
    BY <2>1, <2>3 DEF OwnersLock
  <2>9. LockOwned'
    BY <2>1, <2>3 DEF LockOwned
  <2>10. ActiveOwned'
    BY <1>0 DEF ActiveOwned, Owns, LaunchParts
  <2> QED BY <2>4, <2>5, <2>6, <2>7, <2>8, <2>9, <2>10
<1>16. CASE Throw(l)
  <2> USE <1>16 DEF Throw, Goto, rows, entries, notLaunch
  <2>1. OneMidway'
    BY LaunchStaysAlone
  <2>2. Serial' /\ OwnersLock' /\ LockOwned' /\ ActiveOwned'
    BY <1>0 DEF Serial, Working, OwnersLock, Owns, LockOwned, ActiveOwned
  <2>3. /\ AliveOwned' /\ LiveParts' /\ EntryParts' /\ MonitorParts'
        /\ SessionOwned' /\ Cleared' /\ OneBrowser'
    BY <1>0 DEF AliveOwned, LiveParts, EntryParts, MonitorParts, SessionOwned,
       Cleared, OneBrowser
  <2>4. LaunchParts' /\ CrashParts' /\ StopParts'
    BY <1>0 DEF LaunchParts, Working, CrashParts, StopParts
  <2> QED BY <2>1, <2>2, <2>3, <2>4
<1>17. CASE SessionFails(l)
  BY <1>17 DEF SessionFails, Orderly
<1> QED BY <1>1, <1>2, <1>3, <1>4, <1>5, <1>6, <1>7, <1>8, <1>9, <1>10, <1>11,
   <1>12, <1>13, <1>14, <1>15, <1>16, <1>17 DEF Launch

-----------------------------------------------------------------------------
\* When a stop takes its turn, nobody else is midway.
LEMMA StopAlone ==
  ASSUME TypeOK, OneMidway, NEW s \in Stops, Turn(StopMidway(s))
  PROVE  /\ \A l \in Launches : ~LaunchMidway(l)
         /\ \A l \in Launches : ~CrashMidway(l)
         /\ \A t \in Stops \ {s} : ~StopMidway(t)
         /\ ~MonitorMidway
         /\ Up
BY DEF OneMidway, Turn, NobodyMidway

\* ... nor is anybody else after a step of the stop.
LEMMA StopStaysAlone ==
  ASSUME TypeOK, OneMidway, NEW s \in Stops, Turn(StopMidway(s)),
         NEW x, stopAt' = [stopAt EXCEPT ![s] = x], UNCHANGED <<at, crashAt, monitor>>
  PROVE  OneMidway'
<1>1. /\ \A l \in Launches : ~LaunchMidway(l)'
      /\ \A l \in Launches : ~CrashMidway(l)'
      /\ \A t \in Stops \ {s} : ~StopMidway(t)'
      /\ ~MonitorMidway'
  BY StopAlone DEF LaunchMidway, CrashMidway, StopMidway, MonitorMidway, TypeOK
<1> QED BY <1>1 DEF OneMidway

\* Every step of stopProfile, finalizeStop and stopUnmanaged keeps the invariant.
LEMMA StopKeeps ==
  ASSUME LifecycleInv, TypeOK', Orderly, NEW s \in Stops, Turn(StopMidway(s)),
         BeginStop(s) \/ Stop(s) \/ StopRelease(s)
  PROVE  LifecycleInv'
<1> USE LifecycleAssumption DEF LifecycleInv, TypeOK, OrNone, Calls
<1>0. /\ \A l \in Launches : ~LaunchMidway(l)
      /\ \A l \in Launches : ~CrashMidway(l)
      /\ \A t \in Stops \ {s} : ~StopMidway(t)
      /\ ~MonitorMidway
      /\ Up
  BY StopAlone
<1> USE DEF LaunchHolds, CrashHolds, StopHolds, AckHolds, ActiveStates, LaunchMidway,
   CrashMidway, StopMidway, MonitorMidway, Up
<1>1. CASE BeginStop(s)
  <2> USE <1>1 DEF BeginStop, StopGoto, rows, entries, notStop, MayBegin,
     Orderly, Turn, NobodyMidway
  <2>1. live[ProfileOf[s]] # NoOne => at[live[ProfileOf[s]]] = "done"
    <3> SUFFICES ASSUME live[ProfileOf[s]] # NoOne,
       at[live[ProfileOf[s]]] # "done" PROVE FALSE
      OBVIOUS
    <3>1. at[live[ProfileOf[s]]] = "proxyAuth" /\ AuthPending
      BY <1>0 DEF LiveParts
    <3>2. ~Overlap
      BY <3>1 DEF Orderly
    <3> QED BY <3>1, <3>2 DEF MayBegin, Working, LiveParts
  <2>2. OneMidway'
    BY StopStaysAlone
  <2>3a. Serial'
    BY <1>0 DEF Serial, Working
  <2>3. OwnersLock'
    BY <1>0 DEF OwnersLock, Owns
  <2>4. LockOwned' /\ ActiveOwned'
    BY <1>0 DEF LockOwned, Owns, ActiveOwned
  <2>5. /\ AliveOwned' /\ LiveParts' /\ MonitorParts' /\ SessionOwned'
        /\ Cleared' /\ OneBrowser'
    BY <1>0 DEF AliveOwned, LiveParts, MonitorParts, SessionOwned, Cleared,
       OneBrowser
  <2>6. LaunchParts' /\ CrashParts'
    BY <1>0 DEF LaunchParts, Working, CrashParts
  <2>7. EntryParts'
    BY <1>0 DEF EntryParts, LiveParts
  <2>8. StopParts'
    BY <1>0, <2>1 DEF StopParts, LiveParts, EntryParts
  <2> QED BY <2>2, <2>3a, <2>3, <2>4, <2>5, <2>6, <2>7, <2>8
<1>2. CASE StopReads(s)
  <2> USE <1>2 DEF StopReads, StopGoto, rows, entries, notStop
  <2>1. OneMidway'
    BY StopStaysAlone
  <2>2. Serial' /\ OwnersLock' /\ LockOwned' /\ ActiveOwned'
    BY <1>0 DEF Serial, Working, OwnersLock, Owns, LockOwned, ActiveOwned
  <2>3. /\ AliveOwned' /\ LiveParts' /\ EntryParts' /\ MonitorParts'
        /\ SessionOwned' /\ Cleared' /\ OneBrowser'
    BY <1>0 DEF AliveOwned, LiveParts, EntryParts, MonitorParts, SessionOwned,
       Cleared, OneBrowser
  <2>4. LaunchParts' /\ CrashParts'
    BY <1>0 DEF LaunchParts, Working, CrashParts
  <2>5. StopParts'
    BY <1>0 DEF StopParts, LiveParts
  <2> QED BY <2>1, <2>2, <2>3, <2>4, <2>5
<1>3. CASE ToStopping(s)
  <2> USE <1>3 DEF ToStopping, StopGoto, rows, entries, notStop, TrySetState,
     SetState, CanTransition, Successors
  <2>1. OneMidway'
    BY StopStaysAlone
  <2>2a. Serial'
    BY <1>0 DEF Serial, Working
  <2>2. OwnersLock' /\ LockOwned'
    BY <1>0 DEF OwnersLock, Owns, LockOwned
  <2>3. /\ AliveOwned' /\ LiveParts' /\ EntryParts' /\ MonitorParts'
        /\ SessionOwned' /\ Cleared' /\ OneBrowser'
    BY <1>0 DEF AliveOwned, LiveParts, EntryParts, MonitorParts, SessionOwned,
       Cleared, OneBrowser
  <2>4. StopParts'
    BY <1>0 DEF StopParts
  <2>5. ActiveOwned'
    BY <1>0 DEF ActiveOwned, Owns, StopParts
  <2>6. LaunchParts'
    BY <1>0 DEF LaunchParts, Working, StopParts
  <2>7. CrashParts'
    <3>1. ASSUME NEW l \in Launches, crashAt[l] = "done", Working(l)
          PROVE  ProfileOf[l] # ProfileOf[s]
      <4>1. ~Overlap
        BY <3>1 DEF LaunchParts
      <4>2. Working(s) /\ l # s
        BY DEF Working
      <4> QED BY <3>1, <4>1, <4>2 DEF Serial
    <3> QED BY <1>0, <3>1 DEF CrashParts, Working
  <2> QED BY <2>1, <2>2a, <2>2, <2>3, <2>4, <2>5, <2>6, <2>7
<1>4. CASE Terminate(s)
  <2> USE <1>4 DEF Terminate, StopGoto, rows, entries, notStop, Die
  <2>1. OneMidway'
    BY StopStaysAlone
  <2>2a. Serial'
    BY <1>0 DEF Serial, Working
  <2>2. OwnersLock' /\ LockOwned' /\ ActiveOwned'
    BY <1>0 DEF OwnersLock, Owns, LockOwned, ActiveOwned
  <2>3. /\ AliveOwned' /\ LiveParts' /\ MonitorParts' /\ SessionOwned'
        /\ Cleared' /\ OneBrowser'
    BY <1>0 DEF AliveOwned, LiveParts, MonitorParts, SessionOwned, Cleared,
       OneBrowser
  <2>4. LaunchParts' /\ CrashParts' /\ StopParts'
    BY <1>0 DEF LaunchParts, Working, CrashParts, StopParts
  <2>5. EntryParts'
    BY <1>0 DEF EntryParts, StopParts
  <2> QED BY <2>1, <2>2a, <2>2, <2>3, <2>4, <2>5
<1>5. CASE StopTimesOut(s)
  <2> USE <1>5 DEF StopTimesOut, StopGoto, rows, entries, notStop
  <2>1. OneMidway'
    BY StopStaysAlone
  <2>2. Serial' /\ OwnersLock' /\ LockOwned' /\ ActiveOwned'
    BY <1>0 DEF Serial, Working, OwnersLock, Owns, LockOwned, ActiveOwned
  <2>3. /\ AliveOwned' /\ LiveParts' /\ EntryParts' /\ MonitorParts'
        /\ SessionOwned' /\ Cleared' /\ OneBrowser'
    BY <1>0 DEF AliveOwned, LiveParts, EntryParts, MonitorParts, SessionOwned,
       Cleared, OneBrowser
  <2>4. LaunchParts' /\ CrashParts' /\ StopParts'
    BY <1>0 DEF LaunchParts, Working, CrashParts, StopParts
  <2> QED BY <2>1, <2>2, <2>3, <2>4
<1>6. CASE Finalize(s)
  <2> USE <1>6 DEF Finalize, StopGoto, rows, entries, notStop
  <2>1. /\ target[s] \in Launches /\ ProfileOf[target[s]] = ProfileOf[s]
        /\ browser[target[s]] # "alive" /\ target[s] \in watched
    BY DEF StopParts, EntryParts
  <2>2. target[s] \notin settled => live[ProfileOf[s]] = target[s]
    BY <2>1 DEF EntryParts
  <2>3. OneMidway'
    BY StopStaysAlone
  <2>4. Serial'
    BY <1>0 DEF Serial, Working
  <2>5. MonitorParts' /\ Cleared' /\ OneBrowser'
    BY <1>0 DEF MonitorParts, Cleared, OneBrowser
  <2>6. CrashParts' /\ StopParts'
    BY <1>0 DEF CrashParts, Working, StopParts
  <2>7. OwnersLock'
    BY <1>0 DEF OwnersLock, Owns, StopParts, EntryParts
  <2>8. LockOwned'
    BY <1>0 DEF LockOwned, Owns, StopParts, EntryParts
  <2>9. ActiveOwned'
    BY <1>0 DEF ActiveOwned, Owns, StopParts
  <2>10. AliveOwned'
    BY <2>1, <2>2 DEF AliveOwned
  <2>11. LiveParts'
    BY <1>0 DEF LiveParts, StopParts
  <2>12. EntryParts'
    BY <1>0 DEF EntryParts, StopParts
  <2>13. LaunchParts'
    BY <1>0 DEF LaunchParts, Working, StopParts
  <2>14. SessionOwned'
    BY <2>1, <2>2 DEF SessionOwned
  <2> QED BY <2>3, <2>4, <2>5, <2>6, <2>7, <2>8, <2>9, <2>10, <2>11, <2>12,
     <2>13, <2>14
<1>7. CASE StopEndsSession(s)
  <2> USE <1>7 DEF StopEndsSession, StopGoto, rows, entries, notStop,
     WriteSession
  <2>1. OneMidway'
    BY StopStaysAlone
  <2>2. Serial' /\ OwnersLock' /\ LockOwned' /\ ActiveOwned'
    BY <1>0 DEF Serial, Working, OwnersLock, Owns, LockOwned, ActiveOwned
  <2>3. /\ AliveOwned' /\ LiveParts' /\ EntryParts' /\ MonitorParts'
        /\ SessionOwned' /\ Cleared' /\ OneBrowser'
    BY <1>0 DEF AliveOwned, LiveParts, EntryParts, MonitorParts, SessionOwned,
       Cleared, OneBrowser
  <2>4. LaunchParts' /\ CrashParts' /\ StopParts'
    BY <1>0 DEF LaunchParts, Working, CrashParts, StopParts
  <2> QED BY <2>1, <2>2, <2>3, <2>4
<1>8. CASE ToStopped(s)
  <2> USE <1>8 DEF ToStopped, StopGoto, rows, entries, notStop, TrySetState,
     SetState, CanTransition, Successors
  <2>1. OneMidway'
    BY StopStaysAlone
  <2>2. Serial' /\ OwnersLock' /\ LockOwned' /\ ActiveOwned'
    <3>1. Serial'
      BY <1>0 DEF Serial, Working
    <3>2. OwnersLock'
      BY <1>0 DEF OwnersLock, Owns
    <3>3. LockOwned'
      BY <1>0 DEF LockOwned, Owns
    <3>4. ActiveOwned'
      BY <1>0 DEF ActiveOwned, Owns
    <3> QED BY <3>1, <3>2, <3>3, <3>4
  <2>3. /\ AliveOwned' /\ EntryParts' /\ MonitorParts' /\ SessionOwned'
        /\ Cleared' /\ OneBrowser'
    BY <1>0 DEF AliveOwned, EntryParts, MonitorParts, SessionOwned, Cleared,
       OneBrowser
  <2>4. LaunchParts'
    BY <1>0 DEF LaunchParts, Working
  <2>5. CrashParts'
    BY <1>0 DEF CrashParts, Working
  <2>6. LiveParts'
    BY <1>0 DEF LiveParts, StopParts
  <2>7. StopParts'
    BY <1>0 DEF StopParts, EntryParts
  <2> QED BY <2>1, <2>2, <2>3, <2>4, <2>5, <2>6, <2>7
<1>9. CASE ClearPid(s)
  <2> USE <1>9 DEF ClearPid, StopGoto, rows, entries, notStop
  <2>1. OneMidway'
    BY StopStaysAlone
  <2>2. Serial' /\ OwnersLock' /\ LockOwned' /\ ActiveOwned'
    BY <1>0 DEF Serial, Working, OwnersLock, Owns, LockOwned, ActiveOwned
  <2>3. /\ AliveOwned' /\ LiveParts' /\ EntryParts' /\ MonitorParts'
        /\ SessionOwned' /\ Cleared' /\ OneBrowser'
    BY <1>0 DEF AliveOwned, LiveParts, EntryParts, MonitorParts, SessionOwned,
       Cleared, OneBrowser
  <2>4. LaunchParts' /\ CrashParts' /\ StopParts'
    BY <1>0 DEF LaunchParts, Working, CrashParts, StopParts
  <2> QED BY <2>1, <2>2, <2>3, <2>4
<1>10. CASE StopUnlock(s)
  <2> USE <1>10 DEF StopUnlock, StopGoto, rows, entries, notStop, ReleaseLock
  <2>1. /\ target[s] \in Launches /\ ProfileOf[target[s]] = ProfileOf[s]
        /\ target[s] \in settled /\ at[target[s]] = "done"
    BY DEF StopParts
  <2>2. ASSUME NEW c \in Calls, c # target[s] PROVE Owns(c)' <=> Owns(c)
    BY <2>2 DEF Owns
  <2>3. ~Owns(target[s])'
    <3>1. live[ProfileOf[target[s]]] # target[s]
      BY <2>1 DEF LiveParts
    <3> QED BY <1>0, <2>1, <3>1 DEF Owns
  <2>4. OneMidway'
    BY StopStaysAlone
  <2>5. Serial'
    BY <1>0 DEF Serial, Working
  <2>6. /\ AliveOwned' /\ LiveParts' /\ EntryParts' /\ MonitorParts'
        /\ SessionOwned' /\ Cleared' /\ OneBrowser'
    BY <1>0 DEF AliveOwned, LiveParts, EntryParts, MonitorParts, SessionOwned,
       Cleared, OneBrowser
  <2>7. LaunchParts' /\ CrashParts' /\ StopParts'
    BY <1>0 DEF LaunchParts, Working, CrashParts, StopParts
  <2>8. OwnersLock'
    BY <2>1, <2>2, <2>3 DEF OwnersLock
  <2>9. LockOwned'
    BY <2>1, <2>2, <2>3 DEF LockOwned
  <2>10. ActiveOwned'
    BY <1>0 DEF ActiveOwned, Owns, StopParts
  <2> QED BY <2>4, <2>5, <2>6, <2>7, <2>8, <2>9, <2>10
<1>11. CASE StopRelease(s)
  <2> USE <1>11 DEF StopRelease, StopGoto, rows, entries, notStop
  <2>1. OneMidway'
    BY StopStaysAlone
  <2>2. Serial' /\ OwnersLock' /\ LockOwned' /\ ActiveOwned'
    BY <1>0 DEF Serial, Working, OwnersLock, Owns, LockOwned, ActiveOwned
  <2>3. /\ AliveOwned' /\ LiveParts' /\ EntryParts' /\ MonitorParts'
        /\ SessionOwned' /\ Cleared' /\ OneBrowser'
    BY <1>0 DEF AliveOwned, LiveParts, EntryParts, MonitorParts, SessionOwned,
       Cleared, OneBrowser
  <2>4. LaunchParts' /\ CrashParts' /\ StopParts'
    BY <1>0 DEF LaunchParts, Working, CrashParts, StopParts
  <2> QED BY <2>1, <2>2, <2>3, <2>4
<1>12. CASE StopUnmanaged(s)
  <2> USE <1>12 DEF StopUnmanaged, StopGoto, rows, entries, notStop
  <2>1. OneMidway'
    BY StopStaysAlone
  <2>2. Serial' /\ OwnersLock' /\ LockOwned' /\ ActiveOwned'
    BY <1>0 DEF Serial, Working, OwnersLock, Owns, LockOwned, ActiveOwned
  <2>3. /\ AliveOwned' /\ LiveParts' /\ EntryParts' /\ MonitorParts'
        /\ SessionOwned' /\ Cleared' /\ OneBrowser'
    BY <1>0 DEF AliveOwned, LiveParts, EntryParts, MonitorParts, SessionOwned,
       Cleared, OneBrowser
  <2>4. LaunchParts' /\ CrashParts' /\ StopParts'
    BY <1>0 DEF LaunchParts, Working, CrashParts, StopParts
  <2> QED BY <2>1, <2>2, <2>3, <2>4
<1>13. CASE AckLock(s)
  <2> USE <1>13 DEF AckLock, StopGoto, rows, entries, notStop, TakeLock,
     LockFree
  <2>1. OneMidway'
    BY StopStaysAlone
  <2>2. Serial'
    BY <1>0 DEF Serial, Working
  <2>3. LockOwned' /\ ActiveOwned'
    BY <1>0 DEF LockOwned, Owns, ActiveOwned
  <2>4. /\ AliveOwned' /\ LiveParts' /\ EntryParts' /\ MonitorParts'
        /\ SessionOwned' /\ Cleared' /\ OneBrowser'
    BY <1>0 DEF AliveOwned, LiveParts, EntryParts, MonitorParts, SessionOwned,
       Cleared, OneBrowser
  <2>5. LaunchParts' /\ CrashParts' /\ StopParts'
    BY <1>0 DEF LaunchParts, Working, CrashParts, StopParts
  <2>6. OwnersLock'
    BY <1>0 DEF OwnersLock, Owns, LaunchParts, StopParts, EntryParts
  <2> QED BY <2>1, <2>2, <2>3, <2>4, <2>5, <2>6
<1>14. CASE AckState(s)
  <2> USE <1>14 DEF AckState, StopGoto, rows, entries, notStop, TrySetState,
     SetState, CanTransition, Successors
  <2>1. OneMidway'
    BY StopStaysAlone
  <2>2. Serial' /\ OwnersLock' /\ LockOwned' /\ ActiveOwned'
    BY <1>0 DEF Serial, Working, OwnersLock, Owns, LockOwned, ActiveOwned
  <2>3. /\ AliveOwned' /\ EntryParts' /\ MonitorParts' /\ SessionOwned'
        /\ Cleared' /\ OneBrowser'
    BY <1>0 DEF AliveOwned, EntryParts, MonitorParts, SessionOwned, Cleared,
       OneBrowser
  <2>4. LaunchParts'
    BY <1>0 DEF LaunchParts, Working
  <2>5. CrashParts'
    BY <1>0 DEF CrashParts, Working
  <2>6. LiveParts'
    BY <1>0 DEF LiveParts, OwnersLock, Owns
  <2>7. StopParts'
    BY <1>0 DEF StopParts, EntryParts
  <2> QED BY <2>1, <2>2, <2>3, <2>4, <2>5, <2>6, <2>7
<1>15. CASE AckUnlock(s)
  <2> USE <1>15 DEF AckUnlock, StopGoto, rows, entries, notStop, ReleaseLock
  <2>1. ASSUME NEW c \in Calls, c # s PROVE Owns(c)' <=> Owns(c)
    BY <2>1 DEF Owns
  <2>2. ~Owns(s)'
    BY <1>0 DEF Owns, LiveParts, StopParts
  <2>3. OneMidway'
    BY StopStaysAlone
  <2>4. Serial' /\ ActiveOwned'
    BY <1>0 DEF Serial, Working, ActiveOwned, Owns
  <2>5. /\ AliveOwned' /\ LiveParts' /\ EntryParts' /\ MonitorParts'
        /\ SessionOwned' /\ Cleared' /\ OneBrowser'
    BY <1>0 DEF AliveOwned, LiveParts, EntryParts, MonitorParts, SessionOwned,
       Cleared, OneBrowser
  <2>6. LaunchParts' /\ CrashParts' /\ StopParts'
    BY <1>0 DEF LaunchParts, Working, CrashParts, StopParts
  <2>7. OwnersLock'
    BY <2>1, <2>2 DEF OwnersLock
  <2>8. LockOwned'
    BY <2>1, <2>2 DEF LockOwned
  <2> QED BY <2>3, <2>4, <2>5, <2>6, <2>7, <2>8
<1> QED BY <1>1, <1>2, <1>3, <1>4, <1>5, <1>6, <1>7, <1>8, <1>9, <1>10, <1>11,
   <1>12, <1>13, <1>14, <1>15 DEF Stop

-----------------------------------------------------------------------------
\* When a crash handler takes its turn, nobody else is midway.
LEMMA CrashAlone ==
  ASSUME TypeOK, OneMidway, NEW l \in Launches, Turn(CrashMidway(l))
  PROVE  /\ \A k \in Launches : ~LaunchMidway(k)
         /\ \A k \in Launches \ {l} : ~CrashMidway(k)
         /\ \A s \in Stops : ~StopMidway(s)
         /\ ~MonitorMidway
         /\ Up
BY DEF OneMidway, Turn, NobodyMidway

\* ... nor is anybody else after a step of the handler.
LEMMA CrashStaysAlone ==
  ASSUME TypeOK, OneMidway, NEW l \in Launches, Turn(CrashMidway(l)),
         NEW x, crashAt' = [crashAt EXCEPT ![l] = x], UNCHANGED <<at, stopAt, monitor>>
  PROVE  OneMidway'
<1>1. /\ \A k \in Launches : ~LaunchMidway(k)'
      /\ \A k \in Launches \ {l} : ~CrashMidway(k)'
      /\ \A s \in Stops : ~StopMidway(s)'
      /\ ~MonitorMidway'
  BY CrashAlone DEF LaunchMidway, CrashMidway, StopMidway, MonitorMidway, TypeOK
<1> QED BY <1>1 DEF OneMidway

\* Every step of handleCrash after its first await keeps the invariant.
LEMMA CrashKeeps ==
  ASSUME LifecycleInv, TypeOK', Orderly, NEW l \in Launches, Turn(CrashMidway(l)),
         Crash(l) \/ CrashRelease(l)
  PROVE  LifecycleInv'
<1> USE LifecycleAssumption DEF LifecycleInv, TypeOK, OrNone, Calls
<1>0. /\ \A k \in Launches : ~LaunchMidway(k)
      /\ \A k \in Launches \ {l} : ~CrashMidway(k)
      /\ \A s \in Stops : ~StopMidway(s)
      /\ ~MonitorMidway
      /\ Up
  BY CrashAlone
<1> USE DEF LaunchHolds, CrashHolds, StopHolds, AckHolds, ActiveStates, LaunchMidway,
   CrashMidway, StopMidway, MonitorMidway, Up
<1>1. CASE CrashEndsSession(l)
  <2> USE <1>1 DEF CrashEndsSession, CrashGoto, rows, entries, notCrash,
     WriteSession
  <2>1. OneMidway'
    BY CrashStaysAlone
  <2>2. Serial' /\ OwnersLock' /\ LockOwned' /\ ActiveOwned'
    BY <1>0 DEF Serial, Working, OwnersLock, Owns, LockOwned, ActiveOwned
  <2>3. /\ AliveOwned' /\ LiveParts' /\ EntryParts' /\ MonitorParts'
        /\ SessionOwned' /\ Cleared' /\ OneBrowser'
    BY <1>0 DEF AliveOwned, LiveParts, EntryParts, MonitorParts, SessionOwned,
       Cleared, OneBrowser
  <2>4. LaunchParts' /\ CrashParts' /\ StopParts'
    BY <1>0 DEF LaunchParts, Working, CrashParts, StopParts
  <2> QED BY <2>1, <2>2, <2>3, <2>4
<1>2. CASE CrashReads(l)
  <2> USE <1>2 DEF CrashReads, CrashGoto, rows, entries, notCrash
  <2>1. OneMidway'
    BY CrashStaysAlone
  <2>2. Serial' /\ OwnersLock' /\ LockOwned' /\ ActiveOwned'
    BY <1>0 DEF Serial, Working, OwnersLock, Owns, LockOwned, ActiveOwned
  <2>3. /\ AliveOwned' /\ LiveParts' /\ EntryParts' /\ MonitorParts'
        /\ SessionOwned' /\ Cleared' /\ OneBrowser'
    BY <1>0 DEF AliveOwned, LiveParts, EntryParts, MonitorParts, SessionOwned,
       Cleared, OneBrowser
  <2>4. LaunchParts' /\ CrashParts' /\ StopParts'
    BY <1>0 DEF LaunchParts, Working, CrashParts, StopParts
  <2> QED BY <2>1, <2>2, <2>3, <2>4
<1>3. CASE ToCrashed(l)
  <2> USE <1>3 DEF ToCrashed, CrashGoto, rows, entries, notCrash, TrySetState,
     SetState, CanTransition, Successors
  <2>1. OneMidway'
    BY CrashStaysAlone
  <2>2. Serial' /\ OwnersLock' /\ LockOwned' /\ ActiveOwned'
    BY <1>0 DEF Serial, Working, OwnersLock, Owns, LockOwned, ActiveOwned
  <2>3. /\ AliveOwned' /\ EntryParts' /\ MonitorParts' /\ SessionOwned'
        /\ Cleared' /\ OneBrowser'
    BY <1>0 DEF AliveOwned, EntryParts, MonitorParts, SessionOwned, Cleared,
       OneBrowser
  <2>4. CrashParts'
    BY <1>0 DEF CrashParts, Working
  <2>5. LiveParts'
    BY <1>0 DEF LiveParts, OwnersLock, Owns
  <2>6. LaunchParts'
    BY <1>0 DEF LaunchParts, Working, OwnersLock, Owns
  <2>7. StopParts'
    BY <1>0 DEF StopParts, EntryParts, CrashParts
  <2> QED BY <2>1, <2>2, <2>3, <2>4, <2>5, <2>6, <2>7
<1>4. CASE CrashUnlock(l)
  <2> USE <1>4 DEF CrashUnlock, CrashGoto, rows, entries, notCrash, ReleaseLock
  <2>1. ASSUME NEW c \in Calls, c # l PROVE Owns(c)' <=> Owns(c)
    BY <2>1 DEF Owns
  <2>2. ~Owns(l)'
    BY <1>0 DEF Owns, LiveParts
  <2>3. OneMidway'
    BY CrashStaysAlone
  <2>4. Serial'
    BY <1>0 DEF Serial, Working
  <2>5. /\ AliveOwned' /\ LiveParts' /\ EntryParts' /\ MonitorParts'
        /\ SessionOwned' /\ Cleared' /\ OneBrowser'
    BY <1>0 DEF AliveOwned, LiveParts, EntryParts, MonitorParts, SessionOwned,
       Cleared, OneBrowser
  <2>6. LaunchParts' /\ CrashParts' /\ StopParts'
    BY <1>0 DEF LaunchParts, Working, CrashParts, StopParts
  <2>7. OwnersLock'
    BY <2>1, <2>2 DEF OwnersLock
  <2>8. LockOwned'
    BY <2>1, <2>2 DEF LockOwned
  <2>9. ActiveOwned'
    BY <1>0 DEF ActiveOwned, Owns, CrashParts
  <2> QED BY <2>3, <2>4, <2>5, <2>6, <2>7, <2>8, <2>9
<1>5. CASE CrashRelease(l)
  <2> USE <1>5 DEF CrashRelease, CrashGoto, rows, entries, notCrash
  <2>1. OneMidway'
    BY CrashStaysAlone
  <2>2. Serial' /\ OwnersLock' /\ LockOwned' /\ ActiveOwned'
    BY <1>0 DEF Serial, Working, OwnersLock, Owns, LockOwned, ActiveOwned
  <2>3. /\ AliveOwned' /\ LiveParts' /\ EntryParts' /\ MonitorParts'
        /\ SessionOwned' /\ Cleared' /\ OneBrowser'
    BY <1>0 DEF AliveOwned, LiveParts, EntryParts, MonitorParts, SessionOwned,
       Cleared, OneBrowser
  <2>4. LaunchParts' /\ CrashParts' /\ StopParts'
    BY <1>0 DEF LaunchParts, Working, CrashParts, StopParts
  <2> QED BY <2>1, <2>2, <2>3, <2>4
<1> QED BY <1>1, <1>2, <1>3, <1>4, <1>5 DEF Crash

\* handleCrash up to its first await, whoever calls it: the entry leaves live, and
\* the handler goes on owning its lock.
LEMMA CrashHandlerKeeps ==
  ASSUME LifecycleInv, TypeOK', Orderly, NobodyMidway, Up, NEW l \in Launches,
         l \in watched, browser[l] # "alive", HandleCrash(l),
         UNCHANGED <<rows, browser, watched, stopping, notCrash>>,
         exited' \subseteq exited,
         monitor' = monitor \/ monitor' = [monitor EXCEPT !.todo = @ \ {l}]
  PROVE  LifecycleInv'
<1> USE LifecycleAssumption DEF LifecycleInv, TypeOK, OrNone, Calls, rows, notCrash
<1>1. CASE l \in settled \/ live[ProfileOf[l]] = NoOne
  <2> USE <1>1 DEF HandleCrash
  <2>1. UNCHANGED <<rows, browser, watched, stopping, notCrash, live, settled, crashAt>>
    OBVIOUS
  <2> HIDE DEF HandleCrash, rows, notCrash
  <2>2. OneMidway' BY <2>1 DEF OneMidway, LaunchMidway, StopMidway, CrashMidway,
     MonitorMidway, rows, notCrash
  <2>3. /\ Serial' /\ OwnersLock' /\ LockOwned' /\ ActiveOwned'
    BY <2>1 DEF Serial, Working, OwnersLock, Owns, LockOwned, ActiveOwned, Up, rows,
       notCrash
  <2>4. AliveOwned' /\ LiveParts' /\ EntryParts' /\ LaunchParts'
    BY <2>1 DEF AliveOwned, LiveParts, EntryParts, LaunchParts, Working, Up, rows,
       notCrash
  <2>5. MonitorParts'
    BY <2>1 DEF MonitorParts, rows, notCrash
  <2>6. CrashParts' /\ StopParts'
    BY <2>1 DEF CrashParts, StopParts, Working, rows, notCrash
  <2>7. SessionOwned' /\ Cleared' /\ OneBrowser'
    BY <2>1 DEF SessionOwned, Cleared, OneBrowser, Up, rows, notCrash
  <2> QED BY <2>2, <2>3, <2>4, <2>5, <2>6, <2>7
<1>2. CASE ~(l \in settled \/ live[ProfileOf[l]] = NoOne)
  <2> USE <1>2 DEF HandleCrash, CrashGoto, NobodyMidway, MonitorMidway
  <2>1. live[ProfileOf[l]] = l /\ at[l] \in {"proxyAuth", "done"} /\ crashAt[l] = "none"
    BY DEF EntryParts, LiveParts, LaunchMidway
  <2>2. at[l] = "proxyAuth" => ~Overlap /\ state[ProfileOf[l]] = "launching"
    BY <2>1 DEF LaunchMidway, Orderly, LaunchParts
  <2>3. live' = [live EXCEPT ![ProfileOf[l]] = NoOne]
        /\ settled' = settled \cup {l}
        /\ crashAt' = [crashAt EXCEPT ![l] = "endSession"]
    OBVIOUS
  <2>4. \A c \in Calls : Owns(c)' <=> Owns(c)
    <3>1. Owns(l) /\ Owns(l)'
      BY <2>1, <2>3 DEF Owns, CrashHolds
    <3>2. ASSUME NEW c \in Calls, c # l PROVE Owns(c)' <=> Owns(c)
      BY <2>1, <2>3, <3>2 DEF Owns
    <3> QED BY <3>1, <3>2
  <2>5. OneMidway' BY <2>3 DEF OneMidway, LaunchMidway, CrashMidway, StopMidway
  <2>6. Serial' BY DEF Serial, Working
  <2>7. OwnersLock' BY <2>4 DEF OwnersLock
  <2>8. LockOwned' BY <2>4 DEF LockOwned, Up
  <2>9. ActiveOwned' BY <2>4 DEF ActiveOwned, Up
  <2>10. AliveOwned' BY <2>1, <2>3 DEF AliveOwned, Up
  <2>11. LiveParts' BY <2>1, <2>3 DEF LiveParts
  <2>12. EntryParts' BY <2>1, <2>3 DEF EntryParts
  <2>13. MonitorParts' BY <2>1, <2>3 DEF MonitorParts
  <2>14. LaunchParts' BY <2>1, <2>2, <2>3 DEF LaunchParts, Working, LaunchMidway
  <2>15. CrashParts' BY <2>1, <2>3 DEF CrashParts, CrashHolds, CrashMidway, Working
  <2>16. StopParts' BY <2>1, <2>3 DEF StopParts, StopMidway, AckHolds, StopHolds
  <2>17. SessionOwned' BY <2>1, <2>3 DEF SessionOwned, CrashMidway
  <2>18. Cleared' BY DEF Cleared, Up
  <2>19. OneBrowser' BY DEF OneBrowser
  <2> QED BY <2>5, <2>6, <2>7, <2>8, <2>9, <2>10, <2>11, <2>12, <2>13, <2>14, <2>15,
     <2>16, <2>17, <2>18, <2>19
<1> QED BY <1>1, <1>2

\* The 'exit' event, with or without a listener, keeps the invariant.
LEMMA ExitEventKeeps ==
  ASSUME LifecycleInv, TypeOK', Orderly, Turn(FALSE), NEW l \in Launches, ExitEvent(l)
  PROVE  LifecycleInv'
<1> USE LifecycleAssumption DEF LifecycleInv, TypeOK, OrNone, Calls
<1>1. NobodyMidway /\ Up
  BY DEF Turn
<1>2. l \in exited /\ browser[l] # "alive"
  BY DEF ExitEvent, EntryParts
<1>3. CASE l \in stopping \/ l \notin watched
  <2>1. UNCHANGED <<rows, browser, watched, stopping, notCrash, live, settled,
     crashAt, monitor>> /\ exited' \subseteq exited
    BY <1>3 DEF ExitEvent
  <2>2. OneMidway' BY <2>1 DEF OneMidway, LaunchMidway, StopMidway, CrashMidway,
     MonitorMidway, rows, notCrash
  <2>3. /\ Serial' /\ OwnersLock' /\ LockOwned' /\ ActiveOwned'
    BY <2>1 DEF Serial, Working, OwnersLock, Owns, LockOwned, ActiveOwned, Up, rows,
       notCrash
  <2>4. AliveOwned' /\ LiveParts' /\ EntryParts' /\ LaunchParts'
    BY <2>1 DEF AliveOwned, LiveParts, EntryParts, LaunchParts, Working, Up, rows,
       notCrash
  <2>5. MonitorParts'
    BY <2>1 DEF MonitorParts, rows, notCrash
  <2>6. CrashParts' /\ StopParts'
    BY <2>1 DEF CrashParts, StopParts, Working, rows, notCrash
  <2>7. SessionOwned' /\ Cleared' /\ OneBrowser'
    BY <2>1 DEF SessionOwned, Cleared, OneBrowser, Up, rows, notCrash
  <2> QED BY <2>2, <2>3, <2>4, <2>5, <2>6, <2>7
<1>4. CASE ~(l \in stopping \/ l \notin watched)
  <2>1. /\ HandleCrash(l)
        /\ UNCHANGED <<rows, browser, watched, stopping, monitor, notCrash>>
        /\ exited' \subseteq exited
    BY <1>4 DEF ExitEvent
  <2> QED BY <1>1, <1>2, <1>4, <2>1, CrashHandlerKeeps DEF rows, notCrash
<1> QED BY <1>3, <1>4

\* Every step of monitorAll keeps the invariant.
LEMMA MonitorKeeps ==
  ASSUME LifecycleInv, TypeOK', Orderly, Turn(MonitorMidway), MonitorStarts \/ Monitor
  PROVE  LifecycleInv'
<1> USE LifecycleAssumption DEF LifecycleInv, TypeOK, OrNone, Calls
<1>1. /\ \A l \in Launches : ~LaunchMidway(l) /\ ~CrashMidway(l)
      /\ \A s \in Stops : ~StopMidway(s)
      /\ Up
  BY DEF OneMidway, Turn, NobodyMidway
<1>2. monitor.on = NoOne => NobodyMidway
  BY <1>1 DEF NobodyMidway, MonitorMidway
<1>3. ASSUME UNCHANGED <<rows, browser, entries, crashAt, notCrash>>, MonitorParts'
      PROVE  LifecycleInv'
  <2>2. OneMidway' BY <1>1, <1>3 DEF OneMidway, LaunchMidway, StopMidway,
     CrashMidway, rows, notCrash
  <2>3. /\ Serial' /\ OwnersLock' /\ LockOwned' /\ ActiveOwned'
    BY <1>3 DEF Serial, Working, OwnersLock, Owns, LockOwned, ActiveOwned, Up, rows,
       entries, notCrash
  <2>4. AliveOwned' /\ LiveParts' /\ EntryParts' /\ LaunchParts'
    BY <1>3 DEF AliveOwned, LiveParts, EntryParts, LaunchParts, Working, Up, rows,
       entries, notCrash
  <2>6. CrashParts' /\ StopParts'
    BY <1>3 DEF CrashParts, StopParts, Working, rows, entries, notCrash
  <2>7. SessionOwned' /\ Cleared' /\ OneBrowser'
    BY <1>1, <1>3 DEF SessionOwned, Cleared, OneBrowser, Up, rows, entries, notCrash
  <2> QED BY <1>3, <2>2, <2>3, <2>4, <2>6, <2>7
<1>4. CASE MonitorStarts
  <2>1. MonitorParts'
    BY <1>4 DEF MonitorStarts, Idle, MonitorParts, LiveParts, entries
  <2> QED BY <1>3, <1>4, <2>1 DEF MonitorStarts
<1>5. ASSUME NEW l \in Launches, MonitorVisits(l) PROVE LifecycleInv'
  <2>1. CASE l \notin stopping \cup settled /\ browser[l] = "dead"
    <3>1. /\ HandleCrash(l)
          /\ UNCHANGED <<rows, browser, watched, exited, stopping, notCrash>>
          /\ monitor' = [monitor EXCEPT !.todo = @ \ {l}]
      BY <1>5, <2>1 DEF MonitorVisits
    <3>2. NobodyMidway /\ l \in watched
      BY <1>2, <1>5 DEF MonitorVisits, MonitorParts
    <3> QED BY <1>1, <2>1, <3>1, <3>2, CrashHandlerKeeps DEF rows, notCrash
  <2>2. CASE ~(l \notin stopping \cup settled /\ browser[l] = "dead")
    <3>1. /\ UNCHANGED <<rows, browser, entries, crashAt, notCrash>>
          /\ monitor.on = NoOne
          /\ \/ monitor' = [monitor EXCEPT !.todo = @ \ {l}]
             \/ /\ l \notin settled /\ l \in watched
                /\ monitor' = [monitor EXCEPT !.todo = @ \ {l}, !.on = l]
      BY <1>5, <2>2 DEF MonitorVisits, entries, MonitorParts
    <3>2. MonitorParts'
      <4>1. /\ monitor'.todo \subseteq monitor.todo
            /\ monitor'.step = "read"
            /\ monitor'.on # NoOne => monitor'.on = l /\ l \in watched \ settled
        <5>1. monitor \in [todo : SUBSET Launches, on : Launches \cup {NoOne},
           step : {"read", "write"}]
          OBVIOUS
        <5>2. monitor.step = "read"
          BY <3>1 DEF MonitorParts
        <5> HIDE DEF TypeOK, LifecycleInv
        <5>3. CASE monitor' = [monitor EXCEPT !.todo = @ \ {l}]
          BY <3>1, <5>1, <5>2, <5>3
        <5>4. CASE /\ l \in watched \ settled
                   /\ monitor' = [monitor EXCEPT !.todo = @ \ {l}, !.on = l]
          BY <5>1, <5>2, <5>4
        <5> QED BY <3>1, <5>3, <5>4
      <4> QED BY <3>1, <4>1 DEF MonitorParts, EntryParts, entries
    <3> QED BY <1>3, <3>1, <3>2
  <2> QED BY <2>1, <2>2
<1>6. CASE MonitorReads
  <2>1. MonitorParts'
    BY <1>6 DEF MonitorReads, MonitorParts, rows, entries
  <2> QED BY <1>3, <1>6, <2>1 DEF MonitorReads
<1>7. CASE MonitorMarksError
  <2> DEFINE l == monitor.on
             p == ProfileOf[l]
  <2>1. /\ l \in Launches /\ p \in Profiles
        /\ state[p] = "running" /\ live[p] = l
        /\ state' = [state EXCEPT ![p] = "error"]
        /\ UNCHANGED <<lock, stale, session, browser, entries, crashAt, notCrash>>
        /\ monitor' = [monitor EXCEPT !.on = NoOne, !.step = "read"]
    BY <1>7 DEF MonitorMarksError, MonitorParts, TrySetState, SetState,
       CanTransition, Successors
  <2>2. at[l] = "done"
    BY <1>1, <2>1 DEF LiveParts, LaunchParts, LaunchMidway
  <2> USE DEF entries, notCrash
  <2>3. OneMidway' BY <1>1, <2>1 DEF OneMidway, LaunchMidway, StopMidway, CrashMidway
  <2>4. \A c \in Calls : Owns(c)' <=> Owns(c)
    BY <2>1 DEF Owns
  <2>5. Serial' /\ OwnersLock' /\ LockOwned' /\ ActiveOwned'
    BY <2>1, <2>4 DEF Serial, Working, OwnersLock, LockOwned, ActiveOwned, Up,
       ActiveStates
  <2>6. AliveOwned' /\ LiveParts' /\ EntryParts'
    BY <2>1 DEF AliveOwned, LiveParts, EntryParts, Up
  <2>7. MonitorParts'
    BY <2>1 DEF MonitorParts
  <2>8. LaunchParts'
    BY <1>1, <2>1, <2>2 DEF LaunchParts, Working, LaunchMidway, OwnersLock, Owns,
       LaunchHolds, CrashParts
  <2>9. CrashParts' /\ StopParts'
    BY <1>1, <2>1 DEF CrashParts, StopParts, Working, StopMidway, CrashMidway,
       StopHolds, AckHolds, ActiveStates
  <2>10. SessionOwned' /\ Cleared' /\ OneBrowser'
    BY <1>1, <2>1 DEF SessionOwned, Cleared, OneBrowser, Up
  <2> QED BY <2>3, <2>5, <2>6, <2>7, <2>8, <2>9, <2>10
<1> QED BY <1>4, <1>5, <1>6, <1>7 DEF Monitor

\* Heartbeats, dying browsers, ageing locks, a dying server and the boot reaper
\* keep the invariant.
LEMMA WorldKeeps ==
  ASSUME LifecycleInv, TypeOK', Orderly,
         \/ \E p \in Profiles : (Up /\ Heartbeat(p)) \/ LockAges(p)
         \/ \E l \in Launches : BrowserDies(l)
         \/ ServerDies
         \/ Boot
         \/ UNCHANGED vars
  PROVE  LifecycleInv'
<1> USE LifecycleAssumption DEF LifecycleInv, TypeOK, OrNone, Calls
<1>1. ASSUME UNCHANGED <<state, lock, session, browser, memory, server, restarts>>,
   OwnersLock'
      PROVE  LifecycleInv'
  <2>2. OneMidway' BY <1>1 DEF OneMidway, LaunchMidway, StopMidway, CrashMidway,
     MonitorMidway, memory
  <2>3. /\ Serial' /\ LockOwned' /\ ActiveOwned'
    BY <1>1 DEF Serial, Working, Owns, LockOwned, ActiveOwned, Up, memory
  <2>4. AliveOwned' /\ LiveParts' /\ EntryParts' /\ LaunchParts'
    BY <1>1 DEF AliveOwned, LiveParts, EntryParts, LaunchParts, Working, Up, memory
  <2>5. MonitorParts' BY <1>1 DEF MonitorParts, memory
  <2>6. CrashParts' /\ StopParts'
    BY <1>1 DEF CrashParts, StopParts, Working, memory
  <2>7. SessionOwned' /\ Cleared' /\ OneBrowser'
    BY <1>1 DEF SessionOwned, Cleared, OneBrowser, Up, memory
  <2> QED BY <1>1, <2>2, <2>3, <2>4, <2>5, <2>6, <2>7
<1>2. ASSUME NEW p \in Profiles, Heartbeat(p) PROVE LifecycleInv'
  <2>1. OwnersLock' BY <1>2 DEF Heartbeat, OwnersLock, Owns, memory
  <2> QED BY <1>1, <1>2, <2>1 DEF Heartbeat
<1>3. ASSUME NEW p \in Profiles, LockAges(p) PROVE LifecycleInv'
  <2>1. ASSUME Overlap, NEW c \in Calls, ProfileOf[c] = p PROVE ~Owns(c)
    <3> SUFFICES ASSUME Owns(c) PROVE FALSE
      OBVIOUS
    <3>1. lock[p] = c /\ live[p] # c /\ ~InFlight(c)
      BY <1>3, <2>1 DEF LockAges, OwnersLock, Orderly
    <3> QED BY <2>1, <3>1 DEF InFlight, Working, Owns, LaunchHolds, CrashHolds,
       StopHolds, AckHolds
  <2>2. OwnersLock'
    BY <1>3, <2>1 DEF LockAges, OwnersLock, Owns, memory
  <2> QED BY <1>1, <1>3, <2>2 DEF LockAges
<1>4. ASSUME NEW l \in Launches, BrowserDies(l) PROVE LifecycleInv'
  <2>1. /\ browser[l] = "alive" /\ browser' = [browser EXCEPT ![l] = "dead"]
        /\ exited' \subseteq exited \cup {l} /\ (at[l] = "cdp" => exited' = exited)
        /\ UNCHANGED <<rows, live, watched, stopping, settled, at, tries, notLaunch>>
    BY <1>4 DEF BrowserDies, Die
  <2> USE DEF notLaunch, rows
  <2>2. OneMidway' BY <2>1 DEF OneMidway, LaunchMidway, StopMidway, CrashMidway,
     MonitorMidway
  <2>3. /\ Serial' /\ OwnersLock' /\ LockOwned' /\ ActiveOwned'
    BY <2>1 DEF Serial, Working, OwnersLock, Owns, LockOwned, ActiveOwned, Up
  <2>4. AliveOwned' /\ LiveParts' /\ LaunchParts'
    BY <2>1 DEF AliveOwned, LiveParts, LaunchParts, Working, Up
  <2>5. EntryParts'
    BY <2>1 DEF EntryParts, LaunchParts
  <2>6. MonitorParts' BY <2>1 DEF MonitorParts
  <2>7. CrashParts' /\ StopParts'
    BY <2>1 DEF CrashParts, StopParts, Working
  <2>8. SessionOwned' /\ Cleared' /\ OneBrowser'
    BY <2>1 DEF SessionOwned, Cleared, OneBrowser, Up
  <2> QED BY <2>2, <2>3, <2>4, <2>5, <2>6, <2>7, <2>8
<1>5. CASE ServerDies
  <2> USE <1>5 DEF ServerDies
  <2>1. ~Up' /\ restarts' > 0
    BY DEF Up
  <2>2. \A c \in Calls : ~Owns(c)' /\ ~Working(c)'
    BY DEF Owns, Working, LaunchHolds, StopHolds, CrashHolds, AckHolds
  <2>3. OneMidway'
    BY DEF OneMidway, LaunchMidway, StopMidway, CrashMidway, MonitorMidway, Idle
  <2>4. /\ Serial' /\ OwnersLock' /\ LockOwned' /\ ActiveOwned'
        /\ AliveOwned' /\ SessionOwned'
    BY <2>1, <2>2 DEF Serial, OwnersLock, LockOwned, ActiveOwned, AliveOwned,
       SessionOwned
  <2>5. /\ LiveParts' /\ EntryParts' /\ MonitorParts'
    BY DEF LiveParts, EntryParts, MonitorParts, Idle
  <2>6. LaunchParts'
    BY <2>2 DEF LaunchParts
  <2>7. CrashParts' /\ StopParts'
    BY DEF CrashParts, StopParts, CrashHolds, StopHolds, AckHolds
  <2>8. Cleared'
    BY <2>1 DEF Cleared
  <2>9. OneBrowser'
    BY DEF OneBrowser, rows
  <2> QED BY <2>3, <2>4, <2>5, <2>6, <2>7, <2>8, <2>9
<1>6. CASE Boot
  <2>1. ~Up /\ UNCHANGED <<memory, restarts>>
    BY <1>6 DEF Boot, BootReapsLocks, BootSettles, BootForcesUnlock,
       BootKillsOrphans, ServerStep, Up
  <2> DEFINE OnlyKills == \A l \in Launches :
               browser'[l] = browser[l] \/ (browser[l] = "alive" /\ browser'[l] = "dead")
  <2>2. OnlyKills
    <3>1. BootReapsLocks \/ BootForcesUnlock => UNCHANGED browser
      BY DEF BootReapsLocks, BootForcesUnlock
    <3>2. ASSUME NEW p \in Profiles, BootSettles(p) PROVE OnlyKills
      BY <3>2 DEF BootSettles
    <3>3. BootKillsOrphans => OnlyKills
      BY DEF BootKillsOrphans
    <3> QED BY <3>1, <3>2, <3>3, <1>6 DEF Boot
  <2>3. Up' => /\ \A p \in Profiles : state'[p] \notin ActiveStates
               /\ \A l \in Launches : browser'[l] # "alive"
    BY <1>6 DEF Boot, BootReapsLocks, BootSettles, BootForcesUnlock,
       BootKillsOrphans, rows, ServerStep, Up
  <2> HIDE <1>6
  <2> USE DEF memory
  <2>4. \A c \in Calls : ~Owns(c)' /\ ~Working(c)'
    BY <2>1 DEF Owns, Working, LaunchHolds, StopHolds, CrashHolds, AckHolds, Cleared
  <2>5. OneMidway'
    BY <2>1 DEF OneMidway, LaunchMidway, StopMidway, CrashMidway, MonitorMidway
  <2>6. /\ Serial' /\ OwnersLock' /\ LockOwned' /\ ActiveOwned'
        /\ AliveOwned' /\ SessionOwned'
    BY <2>1, <2>3, <2>4 DEF Serial, OwnersLock, LockOwned, ActiveOwned, AliveOwned,
       SessionOwned, Cleared
  <2>7. /\ LiveParts' /\ EntryParts' /\ MonitorParts'
    BY <2>1, <2>2 DEF LiveParts, EntryParts, MonitorParts, Cleared, Idle
  <2>8. LaunchParts'
    BY <2>1, <2>2, <2>4 DEF LaunchParts, Cleared
  <2>9. CrashParts' /\ StopParts'
    BY <2>1 DEF CrashParts, StopParts, CrashHolds, StopHolds, AckHolds, Cleared
  <2>10. Cleared'
    BY <2>1 DEF Cleared
  <2>11. OneBrowser'
    BY <2>2 DEF OneBrowser
  <2> QED BY <2>5, <2>6, <2>7, <2>8, <2>9, <2>10, <2>11
<1>7. CASE UNCHANGED vars
  <2>1. OwnersLock' BY <1>7 DEF vars, rows, memory, OwnersLock, Owns
  <2> QED BY <1>1, <1>7, <2>1 DEF vars, rows
<1> QED BY <1>2, <1>3, <1>4, <1>5, <1>6, <1>7
-----------------------------------------------------------------------------
\* The inductive invariant holds at the start ...
LEMMA InitEstablishes == Init => LifecycleInv
<1> SUFFICES ASSUME Init PROVE LifecycleInv
  OBVIOUS
<1> USE LifecycleAssumption DEF Init, Idle
<1>1. TypeOK
  BY DEF TypeOK, OrNone, Calls, States, LaunchSteps, StopSteps, CrashSteps
<1>2. \A c \in Calls : ~Owns(c) /\ ~Working(c)
  BY DEF Calls, Owns, Working, LaunchHolds, CrashHolds, StopHolds, AckHolds
<1>3. OneMidway
  BY DEF OneMidway, LaunchMidway, StopMidway, CrashMidway, MonitorMidway
<1>4. Serial /\ OwnersLock /\ LockOwned /\ ActiveOwned
  BY <1>2 DEF Serial, OwnersLock, LockOwned, ActiveOwned, ActiveStates
<1>5. AliveOwned /\ LiveParts /\ EntryParts /\ MonitorParts
  BY DEF AliveOwned, LiveParts, EntryParts, MonitorParts
<1>6. LaunchParts
  BY DEF LaunchParts, Working, ActiveStates
<1>7. CrashParts /\ StopParts
  BY DEF CrashParts, StopParts, CrashHolds, StopHolds, AckHolds
<1>8. SessionOwned /\ Cleared /\ OneBrowser
  BY DEF SessionOwned, Cleared, Up, OneBrowser
<1> QED BY <1>1, <1>3, <1>4, <1>5, <1>6, <1>7, <1>8 DEF LifecycleInv

\* ... and no step breaks it.
LEMMA StepKeeps ==
  ASSUME Orderly, LifecycleInv, TypeOK', [Next]_vars
  PROVE  LifecycleInv'
<1>1. ASSUME NEW l \in Launches, Turn(LaunchMidway(l)),
             Enter(l) \/ Launch(l) \/ Throw(l)
      PROVE  LifecycleInv'
  BY <1>1, LaunchKeeps
<1>2. ASSUME NEW s \in Stops, Turn(StopMidway(s)),
             BeginStop(s) \/ Stop(s) \/ StopRelease(s)
      PROVE  LifecycleInv'
  BY <1>2, StopKeeps
<1>3. ASSUME NEW l \in Launches, Turn(CrashMidway(l)), Crash(l) \/ CrashRelease(l)
      PROVE  LifecycleInv'
  BY <1>3, CrashKeeps
<1>4. ASSUME NEW l \in Launches, Turn(FALSE), ExitEvent(l)
      PROVE  LifecycleInv'
  BY <1>4, ExitEventKeeps
<1>5. ASSUME NEW p \in Profiles, Turn(FALSE), Heartbeat(p)
      PROVE  LifecycleInv'
  BY <1>5, WorldKeeps DEF Turn
<1>6. CASE Turn(FALSE) /\ MonitorStarts
  BY <1>6, MonitorKeeps DEF Turn
<1>7. CASE Turn(MonitorMidway) /\ Monitor
  BY <1>7, MonitorKeeps
<1>8. CASE (\E l \in Launches : BrowserDies(l)) \/ (\E p \in Profiles : LockAges(p))
           \/ ServerDies \/ Boot \/ UNCHANGED vars
  BY <1>8, WorldKeeps
<1> QED BY <1>1, <1>2, <1>3, <1>4, <1>5, <1>6, <1>7, <1>8 DEF Next

\* The inductive invariant holds throughout.
THEOREM LifecycleInvariant ==
  ASSUME Orderly
  PROVE  Spec => []LifecycleInv
<1>1. LifecycleInv /\ TypeOK' /\ [Next]_vars => LifecycleInv'
  BY StepKeeps
<1> QED BY <1>1, InitEstablishes, TypeCorrect, PTL DEF Spec

\* Whatever dies and however calls, handlers and loops interleave, two browsers
\* never run on the directory of one profile.
THEOREM BrowsersExclusive ==
  ASSUME Orderly
  PROVE  Spec => []OneBrowser
<1>1. LifecycleInv => OneBrowser
  BY DEF LifecycleInv
<1> QED BY <1>1, LifecycleInvariant, PTL

\* Once nothing is at work on a profile, its only owner is its live entry.
LEMMA QuietOwner ==
  ASSUME LifecycleInv, NEW p \in Profiles, Quiescent(p),
         NEW c \in Calls, ProfileOf[c] = p, Owns(c)
  PROVE  c \in Launches /\ live[p] = c
<1> USE LifecycleAssumption DEF LifecycleInv
<1>1. c \in Launches => at[c] \notin LaunchHolds /\ crashAt[c] \notin CrashHolds
  BY DEF Quiescent, Working, LaunchHolds, CrashHolds, Calls, TypeOK
<1>2. c \in Stops => stopAt[c] \notin AckHolds
  BY DEF Quiescent, Working, AckHolds, Calls
<1>3. ASSUME NEW s \in Stops, target[s] = c PROVE stopAt[s] \notin StopHolds
  <2>1. stopAt[s] \in StopHolds => ProfileOf[s] = p
    BY <1>3 DEF StopParts
  <2> QED BY <2>1 DEF Quiescent, Working, StopHolds, Calls
<1> QED BY <1>1, <1>2, <1>3 DEF Owns, Calls

\* A live entry owns its profile's lock, and once every call has returned
\* nobody else does: no path leaves a lock behind that a later launch would
\* meet, short of a server that dies.
THEOREM LockFollowsLive ==
  ASSUME Orderly
  PROVE  Spec => []LockAgreesWithLive
<1>1. LifecycleInv => LockAgreesWithLive
  <2> SUFFICES ASSUME LifecycleInv, NEW p \in Profiles
               PROVE  /\ live[p] # NoOne => lock[p] = live[p]
                      /\ Quiescent(p) /\ lock[p] # NoOne /\ restarts = 0
                           => lock[p] = live[p]
    BY DEF LockAgreesWithLive
  <2> USE LifecycleAssumption DEF LifecycleInv, Calls
  <2>1. live[p] # NoOne => lock[p] = live[p]
    BY DEF TypeOK, OrNone, LiveParts, OwnersLock, Owns
  <2>2. ASSUME Quiescent(p), lock[p] # NoOne, restarts = 0 PROVE lock[p] = live[p]
    <3>1. lock[p] \in Calls /\ ProfileOf[lock[p]] = p /\ Owns(lock[p])
      BY <2>2 DEF TypeOK, OrNone, LockOwned, Quiescent
    <3> QED BY <2>2, <3>1, QuietOwner
  <2> QED BY <2>1, <2>2
<1> QED BY <1>1, LifecycleInvariant, PTL

\* Once every call has returned, a state that claims a browser belongs to a
\* live entry, and a live entry has one of the states the list shows for it.
THEOREM StateFollowsLive ==
  ASSUME Orderly
  PROVE  Spec => []StateAgreesWithLive
<1>1. LifecycleInv => StateAgreesWithLive
  <2> SUFFICES ASSUME LifecycleInv, NEW p \in Profiles, Quiescent(p)
               PROVE  /\ state[p] \in ActiveStates => live[p] # NoOne
                      /\ live[p] # NoOne => state[p] \in {"running", "stopping", "error"}
    BY DEF StateAgreesWithLive
  <2> USE LifecycleAssumption DEF LifecycleInv, Calls
  <2>1. ASSUME state[p] \in ActiveStates PROVE live[p] # NoOne
    <3>1. PICK l \in Launches : ProfileOf[l] = p /\ Owns(l)
      BY <2>1 DEF ActiveOwned, Quiescent
    <3> QED BY <3>1, QuietOwner
  <2>2. ASSUME live[p] # NoOne PROVE state[p] \in {"running", "stopping", "error"}
    <3>1. /\ live[p] \in Launches /\ ProfileOf[live[p]] = p
          /\ at[live[p]] \notin {"new", "failed"}
      BY <2>2 DEF TypeOK, OrNone, LiveParts
    <3>2. at[live[p]] = "done"
      BY <3>1 DEF Quiescent, Working
    <3> QED BY <2>2, <3>2 DEF LiveParts
  <2> QED BY <2>1, <2>2
<1> QED BY <1>1, LifecycleInvariant, PTL

\* Once every call has returned, a session row that is still open is the live
\* one: every way a browser goes away has closed its row.
THEOREM SessionsFollowLive ==
  ASSUME Orderly
  PROVE  Spec => []SessionsClosed
<1>1. LifecycleInv => SessionsClosed
  <2> SUFFICES ASSUME LifecycleInv, NEW l \in Launches, session[l] = "open",
                      restarts = 0, Quiescent(ProfileOf[l])
               PROVE  live[ProfileOf[l]] = l
    BY DEF SessionsClosed
  <2> USE LifecycleAssumption DEF LifecycleInv, Calls
  <2>1. at[l] # "endSession" /\ crashAt[l] # "endSession"
    BY DEF Quiescent, Working
  <2>2. ASSUME NEW s \in Stops, target[s] = l PROVE stopAt[s] # "endSession"
    BY <2>2 DEF StopParts, Quiescent, Working
  <2> QED BY <2>1, <2>2 DEF SessionOwned
<1> QED BY <1>1, LifecycleInvariant, PTL

-----------------------------------------------------------------------------
\* A server that boots has no live entry in memory, whatever the constants.
LEMMA BootsEmptyStep ==
  ASSUME BootsEmpty, [Next]_vars
  PROVE  BootsEmpty'
<1> USE DEF BootsEmpty, Up
<1>1. ASSUME Up, UNCHANGED server PROVE BootsEmpty'
  BY <1>1
<1>2. ASSUME NEW l \in Launches, Turn(LaunchMidway(l)),
             Enter(l) \/ Launch(l) \/ Throw(l)
      PROVE  Up /\ UNCHANGED server
  BY <1>2 DEF Turn, Enter, Throw, Launch, LaunchLock, ToLaunching, Spawn,
     CdpReady, CdpFails, Register, SessionFails, ProxyAuth, ToRunning, RecordPid,
     Abort, AbortEndsSession, ReadState, ToError, LaunchUnlock, notLaunch
<1>3. ASSUME NEW s \in Stops, Turn(StopMidway(s)),
             BeginStop(s) \/ Stop(s) \/ StopRelease(s)
      PROVE  Up /\ UNCHANGED server
  BY <1>3 DEF Turn, BeginStop, StopRelease, Stop, StopReads, ToStopping, Terminate,
     StopTimesOut, Finalize, StopEndsSession, ToStopped, ClearPid, StopUnlock,
     StopUnmanaged, AckLock, AckState, AckUnlock, notStop
<1>4. ASSUME NEW l \in Launches, Turn(CrashMidway(l)), Crash(l) \/ CrashRelease(l)
      PROVE  Up /\ UNCHANGED server
  BY <1>4 DEF Turn, Crash, CrashEndsSession, CrashReads, ToCrashed, CrashUnlock,
     CrashRelease, notCrash
<1>5. ASSUME NEW l \in Launches, Turn(FALSE), ExitEvent(l)
      PROVE  Up /\ UNCHANGED server
  BY <1>5 DEF Turn, ExitEvent, notCrash
<1>6. ASSUME NEW p \in Profiles, Turn(FALSE), Heartbeat(p)
      PROVE  Up /\ UNCHANGED server
  BY <1>6 DEF Turn, Heartbeat
<1>7. CASE (Turn(FALSE) /\ MonitorStarts) \/ (Turn(MonitorMidway) /\ Monitor)
  <2>1. Up /\ UNCHANGED server
    BY <1>7 DEF Turn, MonitorStarts, Monitor, MonitorVisits, MonitorReads,
       MonitorMarksError, notCrash
  <2> QED BY <1>1, <2>1
<1>8. ASSUME UNCHANGED <<live, server>> PROVE BootsEmpty'
  BY <1>8
<1>9. CASE (\E l \in Launches : BrowserDies(l)) \/ (\E p \in Profiles : LockAges(p))
           \/ UNCHANGED vars
  BY <1>8, <1>9 DEF BrowserDies, LockAges, notLaunch, memory, vars
<1>10. CASE ServerDies
  BY <1>10 DEF ServerDies
<1>11. CASE Boot
  BY <1>11 DEF Boot, BootReapsLocks, BootSettles, BootForcesUnlock,
     BootKillsOrphans, ServerStep, memory
<1> QED BY <1>1, <1>2, <1>3, <1>4, <1>5, <1>6, <1>7, <1>9, <1>10, <1>11 DEF Next

\* Only the last step of the boot reaper lets the server listen.
LEMMA OnlyBootListens ==
  ASSUME ~Up, Up', [Next]_vars
  PROVE  BootKillsOrphans
<1> USE DEF Up
<1>1. CASE Boot
  BY <1>1 DEF Boot, BootReapsLocks, BootSettles, BootForcesUnlock,
     BootKillsOrphans, ServerStep
<1>2. CASE (\E l \in Launches : BrowserDies(l)) \/ (\E p \in Profiles : LockAges(p))
           \/ UNCHANGED vars
  BY <1>2 DEF BrowserDies, LockAges, notLaunch, vars
<1>3. CASE ServerDies
  BY <1>3 DEF ServerDies
<1> QED BY <1>1, <1>2, <1>3 DEF Next, Turn

\* When the server starts to listen, no browser survives from before and no
\* profile claims one: for any number of profiles, launches and restarts, also
\* where sessions fail, locks age and calls overlap.
THEOREM BootClears == Spec => BootReconciles
<1>1. Init => BootsEmpty
  BY DEF Init, BootsEmpty
<1>2. TypeOK /\ BootsEmpty /\ [Next]_vars =>
        [~Up /\ Up' => /\ \A l \in Launches : browser'[l] # "alive"
                       /\ \A p \in Profiles : state'[p] \notin ActiveStates
                                              /\ live'[p] = NoOne]_vars
  <2> SUFFICES ASSUME TypeOK, BootsEmpty, [Next]_vars, ~Up, Up'
               PROVE  /\ \A l \in Launches : browser'[l] # "alive"
                      /\ \A p \in Profiles : state'[p] \notin ActiveStates
                                             /\ live'[p] = NoOne
    OBVIOUS
  <2>1. BootKillsOrphans
    BY OnlyBootListens
  <2> QED BY <2>1 DEF BootKillsOrphans, ServerStep, BootsEmpty, TypeOK, rows, memory
<1>3. BootsEmpty /\ [Next]_vars => BootsEmpty'
  BY BootsEmptyStep
<1> QED BY <1>1, <1>2, <1>3, TypeCorrect, PTL DEF Spec, BootReconciles

-----------------------------------------------------------------------------
(* The manager: the lifecycle with its governor.                            *)

\* The governor's theorems, with the calls of launchProfile as its callers.
Gov == INSTANCE LaunchGovernor_proofs WITH Callers <- Launches

-----------------------------------------------------------------------------
\* A crash handler or a stop is about to give back the slot of this launch.
Releasing(l) ==
  \/ crashAt[l] = "release"
  \/ \E s \in Stops : target[s] = l /\ stopAt[s] = "release"

\* The launch has a claim on its profile that others can see ...
Holding(l) == Owns(l) \/ Releasing(l)

\* ... or has its slot and is about to find out whether the profile is free,
\* or has found out that it is not.
Asking(l) ==
  \/ at[l] \in {"lock", "throw"} /\ crashAt[l] = "none"
  \/ at[l] = "new" /\ phase[l] = "admitted"

\* A launch for which its profile holds a slot.
Using(l) == Holding(l) \/ Asking(l)

\* A call is under way, in acquire() or after it.
Busy(c) == Working(c) \/ Acquiring(c)

\* acquire() is asked for the profile that is launched.
WantsOwn == \A l \in Launches : want[l] = ProfileOf[l]

\* A launch past acquire() was admitted.
Entered == \A l \in Launches : at[l] # "new" => phase[l] = "admitted"

\* Who is to go on between acquire() and launchProfileInner, or between getState
\* and stopProfile, is alone: nobody else is midway.
TurnsAlone ==
  /\ \A l \in Launches : SlotMidway(l) =>
       /\ NobodyMidway
       /\ \A k \in Launches : SlotMidway(k) => k = l
       /\ \A s \in Stops : ~ReapMidway(s)
  /\ \A s \in Stops : ReapMidway(s) =>
       /\ NobodyMidway
       /\ \A t \in Stops : ReapMidway(t) => t = s

\* Clients have one call at a time on a profile; the idle reaper comes on top.
ClientsSerial ==
  \A c, d \in Calls \ Reaps :
    Busy(c) /\ Busy(d) /\ ProfileOf[c] = ProfileOf[d] => c = d

\* A profile has one holder, also while its slot is being given back.
HolderAlone ==
  \A k, l \in Launches :
    Holding(k) /\ Holding(l) /\ ProfileOf[k] = ProfileOf[l] => k = l

\* Who is about to give a slot back has settled its entry.
ReleaseParts == \A s \in Stops : stopAt[s] = "release" => target[s] \in settled

\* A slot is held for a profile exactly as long as a launch uses it.
SlotInUse ==
  \A p \in Profiles : p \in held <=> \E l \in Launches : ProfileOf[l] = p /\ Using(l)

\* What the composition adds to the invariants of its parts.
SlotParts ==
  /\ Up /\ restarts = 0
  /\ reaping \in SUBSET Reaps
  /\ WantsOwn
  /\ Entered
  /\ TurnsAlone
  /\ ClientsSerial
  /\ HolderAlone
  /\ ReleaseParts
  /\ SlotInUse

\* The inductive invariant of the composition.
ManagerInv ==
  /\ LifecycleInv
  /\ Gov!GovernorInv
  /\ Gov!NoLeakInv
  /\ SlotParts

\* What a step of the lifecycle that concerns no slot does to all this.
PlainStep ==
  /\ \A c \in Calls : Working(c)' => Working(c)
  /\ \A l \in Launches : at'[l] = "new" <=> at[l] = "new"
  /\ \A s \in Stops : stopAt'[s] = "new" <=> stopAt[s] = "new"
  /\ \A l \in Launches : Using(l)' <=> Using(l)
  /\ HolderAlone'
  /\ ReleaseParts'
  /\ UNCHANGED <<server, restarts>>

-----------------------------------------------------------------------------
\* No step of launchProfileInner starts or ends the use of a profile: what it
\* takes at acquireLock it gives up in the catch of launchProfile at the earliest.
LEMMA LaunchIsPlain ==
  ASSUME LifecycleInv, LifecycleInv', HolderAlone, ReleaseParts, Orderly,
         NEW l \in Launches, Turn(LaunchMidway(l)), Launch(l), UNCHANGED phase
  PROVE  PlainStep
<1> USE LifecycleAssumption DEF LifecycleInv, TypeOK, OrNone, Calls
<1>0. /\ \A k \in Launches \ {l} : ~LaunchMidway(k)
      /\ \A k \in Launches : ~CrashMidway(k)
      /\ \A s \in Stops : ~StopMidway(s)
  BY LaunchAlone
<1> USE DEF LaunchHolds, CrashHolds, StopHolds, AckHolds, LaunchMidway,
   CrashMidway, StopMidway
<1>1. CASE LaunchLock(l)
  <2> USE <1>1 DEF LaunchLock, Goto, notLaunch, entries
  <2>1. /\ \A c \in Calls : Working(c)' => Working(c)
        /\ \A k \in Launches : at'[k] = "new" <=> at[k] = "new"
        /\ \A t \in Stops : stopAt'[t] = "new" <=> stopAt[t] = "new"
        /\ UNCHANGED <<server, restarts>>
    BY DEF Working
  <2>2. crashAt[l] = "none"
    BY DEF CrashParts, EntryParts
  <2>3. \A k \in Launches : Using(k)' <=> Using(k)
    BY <1>0, <2>2 DEF Using, Asking, Holding, Releasing, Owns
  <2>4. HolderAlone' /\ \A k \in Launches : Using(k)' <=> Using(k)
    <3>1. \A k \in Launches : ~Releasing(k)'
      BY <1>0 DEF Releasing
    <3> QED BY <2>3, <3>1 DEF HolderAlone, Holding, OwnersLock
  <2>5. ReleaseParts'
    BY <1>0 DEF ReleaseParts
  <2> QED BY <2>1, <2>4, <2>5 DEF PlainStep
<1>2. CASE ToLaunching(l)
  <2> USE <1>2 DEF ToLaunching, Goto, notLaunch, entries
  <2>1. /\ \A c \in Calls : Working(c)' => Working(c)
        /\ \A k \in Launches : at'[k] = "new" <=> at[k] = "new"
        /\ \A t \in Stops : stopAt'[t] = "new" <=> stopAt[t] = "new"
        /\ UNCHANGED <<server, restarts>>
    BY DEF Working
  <2>2. \A k \in Launches : Holding(k)' <=> Holding(k)
    BY <1>0 DEF Holding, Releasing, Owns
  <2>3. \A k \in Launches : Asking(k)' <=> Asking(k)
    BY <1>0 DEF Asking
  <2>4. HolderAlone' /\ \A k \in Launches : Using(k)' <=> Using(k)
    BY <2>2, <2>3 DEF HolderAlone, Using
  <2>5. ReleaseParts'
    BY <1>0 DEF ReleaseParts
  <2> QED BY <2>1, <2>4, <2>5 DEF PlainStep
<1>3. CASE Spawn(l)
  <2> USE <1>3 DEF Spawn, Goto, notLaunch, entries
  <2>1. /\ \A c \in Calls : Working(c)' => Working(c)
        /\ \A k \in Launches : at'[k] = "new" <=> at[k] = "new"
        /\ \A t \in Stops : stopAt'[t] = "new" <=> stopAt[t] = "new"
        /\ UNCHANGED <<server, restarts>>
    BY DEF Working
  <2>2. \A k \in Launches : Holding(k)' <=> Holding(k)
    BY <1>0 DEF Holding, Releasing, Owns
  <2>3. \A k \in Launches : Asking(k)' <=> Asking(k)
    BY <1>0 DEF Asking
  <2>4. HolderAlone' /\ \A k \in Launches : Using(k)' <=> Using(k)
    BY <2>2, <2>3 DEF HolderAlone, Using
  <2>5. ReleaseParts'
    BY <1>0 DEF ReleaseParts
  <2> QED BY <2>1, <2>4, <2>5 DEF PlainStep
<1>4. CASE CdpReady(l)
  <2> USE <1>4 DEF CdpReady, Goto, notLaunch, entries
  <2>1. /\ \A c \in Calls : Working(c)' => Working(c)
        /\ \A k \in Launches : at'[k] = "new" <=> at[k] = "new"
        /\ \A t \in Stops : stopAt'[t] = "new" <=> stopAt[t] = "new"
        /\ UNCHANGED <<server, restarts>>
    BY DEF Working
  <2>2. \A k \in Launches : Holding(k)' <=> Holding(k)
    BY <1>0 DEF Holding, Releasing, Owns
  <2>3. \A k \in Launches : Asking(k)' <=> Asking(k)
    BY <1>0 DEF Asking
  <2>4. HolderAlone' /\ \A k \in Launches : Using(k)' <=> Using(k)
    BY <2>2, <2>3 DEF HolderAlone, Using
  <2>5. ReleaseParts'
    BY <1>0 DEF ReleaseParts
  <2> QED BY <2>1, <2>4, <2>5 DEF PlainStep
<1>5. CASE CdpFails(l)
  <2> USE <1>5 DEF CdpFails, Goto, notLaunch, entries
  <2>1. /\ \A c \in Calls : Working(c)' => Working(c)
        /\ \A k \in Launches : at'[k] = "new" <=> at[k] = "new"
        /\ \A t \in Stops : stopAt'[t] = "new" <=> stopAt[t] = "new"
        /\ UNCHANGED <<server, restarts>>
    BY DEF Working
  <2>2. \A k \in Launches : Holding(k)' <=> Holding(k)
    BY <1>0 DEF Holding, Releasing, Owns
  <2>3. \A k \in Launches : Asking(k)' <=> Asking(k)
    BY <1>0 DEF Asking
  <2>4. HolderAlone' /\ \A k \in Launches : Using(k)' <=> Using(k)
    BY <2>2, <2>3 DEF HolderAlone, Using
  <2>5. ReleaseParts'
    BY <1>0 DEF ReleaseParts
  <2> QED BY <2>1, <2>4, <2>5 DEF PlainStep
<1>6. CASE Register(l)
  <2> USE <1>6 DEF Register, Goto, notLaunch, entries
  <2>1. /\ \A c \in Calls : Working(c)' => Working(c)
        /\ \A k \in Launches : at'[k] = "new" <=> at[k] = "new"
        /\ \A t \in Stops : stopAt'[t] = "new" <=> stopAt[t] = "new"
        /\ UNCHANGED <<server, restarts>>
    BY DEF Working
  <2>2. \A k \in Launches : Holding(k)' <=> Holding(k)
    BY <1>0 DEF Holding, Releasing, Owns, LiveParts, LaunchParts, EntryParts, CrashParts
  <2>3. \A k \in Launches : Asking(k)' <=> Asking(k)
    BY <1>0 DEF Asking
  <2>4. HolderAlone' /\ \A k \in Launches : Using(k)' <=> Using(k)
    BY <2>2, <2>3 DEF HolderAlone, Using
  <2>5. ReleaseParts'
    BY <1>0 DEF ReleaseParts
  <2> QED BY <2>1, <2>4, <2>5 DEF PlainStep
<1>7. CASE ProxyAuth(l)
  <2> USE <1>7 DEF ProxyAuth, Goto, notLaunch, entries
  <2>1. /\ \A c \in Calls : Working(c)' => Working(c)
        /\ \A k \in Launches : at'[k] = "new" <=> at[k] = "new"
        /\ \A t \in Stops : stopAt'[t] = "new" <=> stopAt[t] = "new"
        /\ UNCHANGED <<server, restarts>>
    BY DEF Working
  <2>2. \A k \in Launches : Holding(k)' <=> Holding(k)
    BY <1>0 DEF Holding, Releasing, Owns
  <2>3. \A k \in Launches : Asking(k)' <=> Asking(k)
    BY <1>0 DEF Asking
  <2>4. HolderAlone' /\ \A k \in Launches : Using(k)' <=> Using(k)
    BY <2>2, <2>3 DEF HolderAlone, Using
  <2>5. ReleaseParts'
    BY <1>0 DEF ReleaseParts
  <2> QED BY <2>1, <2>4, <2>5 DEF PlainStep
<1>8. CASE ToRunning(l)
  <2> USE <1>8 DEF ToRunning, Goto, notLaunch, entries
  <2>1. /\ \A c \in Calls : Working(c)' => Working(c)
        /\ \A k \in Launches : at'[k] = "new" <=> at[k] = "new"
        /\ \A t \in Stops : stopAt'[t] = "new" <=> stopAt[t] = "new"
        /\ UNCHANGED <<server, restarts>>
    BY DEF Working
  <2>2. \A k \in Launches : Holding(k)' <=> Holding(k)
    BY <1>0 DEF Holding, Releasing, Owns
  <2>3. \A k \in Launches : Asking(k)' <=> Asking(k)
    BY <1>0 DEF Asking
  <2>4. HolderAlone' /\ \A k \in Launches : Using(k)' <=> Using(k)
    BY <2>2, <2>3 DEF HolderAlone, Using
  <2>5. ReleaseParts'
    BY <1>0 DEF ReleaseParts
  <2> QED BY <2>1, <2>4, <2>5 DEF PlainStep
<1>9. CASE RecordPid(l)
  <2> USE <1>9 DEF RecordPid, Goto, notLaunch, entries
  <2>1. /\ \A c \in Calls : Working(c)' => Working(c)
        /\ \A k \in Launches : at'[k] = "new" <=> at[k] = "new"
        /\ \A t \in Stops : stopAt'[t] = "new" <=> stopAt[t] = "new"
        /\ UNCHANGED <<server, restarts>>
    BY DEF Working
  <2>2. \A k \in Launches : Holding(k)' <=> Holding(k)
    BY <1>0 DEF Holding, Releasing, Owns, LaunchParts
  <2>3. \A k \in Launches : Asking(k)' <=> Asking(k)
    BY <1>0 DEF Asking
  <2>4. HolderAlone' /\ \A k \in Launches : Using(k)' <=> Using(k)
    BY <2>2, <2>3 DEF HolderAlone, Using
  <2>5. ReleaseParts'
    BY <1>0 DEF ReleaseParts
  <2> QED BY <2>1, <2>4, <2>5 DEF PlainStep
<1>10. CASE Abort(l)
  <2> USE <1>10 DEF Abort, Goto, notLaunch, entries
  <2>1. /\ \A c \in Calls : Working(c)' => Working(c)
        /\ \A k \in Launches : at'[k] = "new" <=> at[k] = "new"
        /\ \A t \in Stops : stopAt'[t] = "new" <=> stopAt[t] = "new"
        /\ UNCHANGED <<server, restarts>>
    BY DEF Working
  <2>2. \A k \in Launches : Holding(k)' <=> Holding(k)
    BY <1>0 DEF Holding, Releasing, Owns, LaunchParts, LiveParts, Working
  <2>3. \A k \in Launches : Asking(k)' <=> Asking(k)
    BY <1>0 DEF Asking
  <2>4. HolderAlone' /\ \A k \in Launches : Using(k)' <=> Using(k)
    BY <2>2, <2>3 DEF HolderAlone, Using
  <2>5. ReleaseParts'
    BY <1>0 DEF ReleaseParts
  <2> QED BY <2>1, <2>4, <2>5 DEF PlainStep
<1>11. CASE AbortEndsSession(l)
  <2> USE <1>11 DEF AbortEndsSession, Goto, notLaunch, entries
  <2>1. /\ \A c \in Calls : Working(c)' => Working(c)
        /\ \A k \in Launches : at'[k] = "new" <=> at[k] = "new"
        /\ \A t \in Stops : stopAt'[t] = "new" <=> stopAt[t] = "new"
        /\ UNCHANGED <<server, restarts>>
    BY DEF Working
  <2>2. \A k \in Launches : Holding(k)' <=> Holding(k)
    BY <1>0 DEF Holding, Releasing, Owns
  <2>3. \A k \in Launches : Asking(k)' <=> Asking(k)
    BY <1>0 DEF Asking
  <2>4. HolderAlone' /\ \A k \in Launches : Using(k)' <=> Using(k)
    BY <2>2, <2>3 DEF HolderAlone, Using
  <2>5. ReleaseParts'
    BY <1>0 DEF ReleaseParts
  <2> QED BY <2>1, <2>4, <2>5 DEF PlainStep
<1>12. CASE ReadState(l)
  <2> USE <1>12 DEF ReadState, Goto, notLaunch, entries
  <2>1. /\ \A c \in Calls : Working(c)' => Working(c)
        /\ \A k \in Launches : at'[k] = "new" <=> at[k] = "new"
        /\ \A t \in Stops : stopAt'[t] = "new" <=> stopAt[t] = "new"
        /\ UNCHANGED <<server, restarts>>
    BY DEF Working
  <2>2. \A k \in Launches : Holding(k)' <=> Holding(k)
    BY <1>0 DEF Holding, Releasing, Owns
  <2>3. \A k \in Launches : Asking(k)' <=> Asking(k)
    BY <1>0 DEF Asking
  <2>4. HolderAlone' /\ \A k \in Launches : Using(k)' <=> Using(k)
    BY <2>2, <2>3 DEF HolderAlone, Using
  <2>5. ReleaseParts'
    BY <1>0 DEF ReleaseParts
  <2> QED BY <2>1, <2>4, <2>5 DEF PlainStep
<1>13. CASE ToError(l)
  <2> USE <1>13 DEF ToError, Goto, notLaunch, entries
  <2>1. /\ \A c \in Calls : Working(c)' => Working(c)
        /\ \A k \in Launches : at'[k] = "new" <=> at[k] = "new"
        /\ \A t \in Stops : stopAt'[t] = "new" <=> stopAt[t] = "new"
        /\ UNCHANGED <<server, restarts>>
    BY DEF Working
  <2>2. \A k \in Launches : Holding(k)' <=> Holding(k)
    BY <1>0 DEF Holding, Releasing, Owns
  <2>3. \A k \in Launches : Asking(k)' <=> Asking(k)
    BY <1>0 DEF Asking
  <2>4. HolderAlone' /\ \A k \in Launches : Using(k)' <=> Using(k)
    BY <2>2, <2>3 DEF HolderAlone, Using
  <2>5. ReleaseParts'
    BY <1>0 DEF ReleaseParts
  <2> QED BY <2>1, <2>4, <2>5 DEF PlainStep
<1>14. CASE LaunchUnlock(l)
  <2> USE <1>14 DEF LaunchUnlock, Goto, notLaunch, entries
  <2>1. /\ \A c \in Calls : Working(c)' => Working(c)
        /\ \A k \in Launches : at'[k] = "new" <=> at[k] = "new"
        /\ \A t \in Stops : stopAt'[t] = "new" <=> stopAt[t] = "new"
        /\ UNCHANGED <<server, restarts>>
    BY DEF Working
  <2>2. \A k \in Launches : Holding(k)' => Holding(k)
    BY <1>0 DEF Holding, Releasing, Owns
  <2>3. \A k \in Launches : Using(k)' <=> Using(k)
    BY <1>0 DEF Using, Asking, Holding, Releasing, Owns
  <2>4. HolderAlone' /\ \A k \in Launches : Using(k)' <=> Using(k)
    BY <2>2, <2>3 DEF HolderAlone
  <2>5. ReleaseParts'
    BY <1>0 DEF ReleaseParts
  <2> QED BY <2>1, <2>4, <2>5 DEF PlainStep
<1>15. CASE SessionFails(l)
  BY <1>15 DEF SessionFails, Orderly
<1> QED BY <1>1, <1>2, <1>3, <1>4, <1>5, <1>6, <1>7, <1>8, <1>9, <1>10,
          <1>11, <1>12, <1>13, <1>14, <1>15 DEF Launch

\* ... nor does a stop before it releases ...
LEMMA StopIsPlain ==
  ASSUME LifecycleInv, LifecycleInv', HolderAlone, ReleaseParts, Orderly,
         NEW s \in Stops, Turn(StopMidway(s)), Stop(s), UNCHANGED phase
  PROVE  PlainStep
<1> USE LifecycleAssumption DEF LifecycleInv, TypeOK, OrNone, Calls
<1>0. /\ \A l \in Launches : ~LaunchMidway(l)
      /\ \A l \in Launches : ~CrashMidway(l)
      /\ \A t \in Stops \ {s} : ~StopMidway(t)
  BY StopAlone
<1> USE DEF LaunchHolds, CrashHolds, StopHolds, AckHolds, LaunchMidway,
   CrashMidway, StopMidway
<1>1. CASE StopReads(s)
  <2> USE <1>1 DEF StopReads, StopGoto, notStop, entries
  <2>1. /\ \A c \in Calls : Working(c)' => Working(c)
        /\ \A k \in Launches : at'[k] = "new" <=> at[k] = "new"
        /\ \A t \in Stops : stopAt'[t] = "new" <=> stopAt[t] = "new"
        /\ UNCHANGED <<server, restarts>>
    BY DEF Working
  <2>2. \A k \in Launches : Holding(k)' <=> Holding(k)
    BY <1>0 DEF Holding, Releasing, Owns
  <2>3. \A k \in Launches : Asking(k)' <=> Asking(k)
    BY <1>0 DEF Asking
  <2>4. HolderAlone' /\ \A k \in Launches : Using(k)' <=> Using(k)
    BY <2>2, <2>3 DEF HolderAlone, Using
  <2>5. ReleaseParts'
    BY <1>0 DEF ReleaseParts
  <2> QED BY <2>1, <2>4, <2>5 DEF PlainStep
<1>2. CASE ToStopping(s)
  <2> USE <1>2 DEF ToStopping, StopGoto, notStop, entries
  <2>1. /\ \A c \in Calls : Working(c)' => Working(c)
        /\ \A k \in Launches : at'[k] = "new" <=> at[k] = "new"
        /\ \A t \in Stops : stopAt'[t] = "new" <=> stopAt[t] = "new"
        /\ UNCHANGED <<server, restarts>>
    BY DEF Working
  <2>2. \A k \in Launches : Holding(k)' <=> Holding(k)
    BY <1>0 DEF Holding, Releasing, Owns
  <2>3. \A k \in Launches : Asking(k)' <=> Asking(k)
    BY <1>0 DEF Asking
  <2>4. HolderAlone' /\ \A k \in Launches : Using(k)' <=> Using(k)
    BY <2>2, <2>3 DEF HolderAlone, Using
  <2>5. ReleaseParts'
    BY <1>0 DEF ReleaseParts
  <2> QED BY <2>1, <2>4, <2>5 DEF PlainStep
<1>3. CASE Terminate(s)
  <2> USE <1>3 DEF Terminate, StopGoto, notStop, entries
  <2>1. /\ \A c \in Calls : Working(c)' => Working(c)
        /\ \A k \in Launches : at'[k] = "new" <=> at[k] = "new"
        /\ \A t \in Stops : stopAt'[t] = "new" <=> stopAt[t] = "new"
        /\ UNCHANGED <<server, restarts>>
    BY DEF Working
  <2>2. \A k \in Launches : Holding(k)' <=> Holding(k)
    BY <1>0 DEF Holding, Releasing, Owns
  <2>3. \A k \in Launches : Asking(k)' <=> Asking(k)
    BY <1>0 DEF Asking
  <2>4. HolderAlone' /\ \A k \in Launches : Using(k)' <=> Using(k)
    BY <2>2, <2>3 DEF HolderAlone, Using
  <2>5. ReleaseParts'
    BY <1>0 DEF ReleaseParts
  <2> QED BY <2>1, <2>4, <2>5 DEF PlainStep
<1>4. CASE StopTimesOut(s)
  <2> USE <1>4 DEF StopTimesOut, StopGoto, notStop, entries
  <2>1. /\ \A c \in Calls : Working(c)' => Working(c)
        /\ \A k \in Launches : at'[k] = "new" <=> at[k] = "new"
        /\ \A t \in Stops : stopAt'[t] = "new" <=> stopAt[t] = "new"
        /\ UNCHANGED <<server, restarts>>
    BY DEF Working
  <2>2. \A k \in Launches : Holding(k)' <=> Holding(k)
    BY <1>0 DEF Holding, Releasing, Owns
  <2>3. \A k \in Launches : Asking(k)' <=> Asking(k)
    BY <1>0 DEF Asking
  <2>4. HolderAlone' /\ \A k \in Launches : Using(k)' <=> Using(k)
    BY <2>2, <2>3 DEF HolderAlone, Using
  <2>5. ReleaseParts'
    BY <1>0 DEF ReleaseParts
  <2> QED BY <2>1, <2>4, <2>5 DEF PlainStep
<1>5. CASE Finalize(s)
  <2> USE <1>5 DEF Finalize, StopGoto, notStop, entries
  <2>1. /\ \A c \in Calls : Working(c)' => Working(c)
        /\ \A k \in Launches : at'[k] = "new" <=> at[k] = "new"
        /\ \A t \in Stops : stopAt'[t] = "new" <=> stopAt[t] = "new"
        /\ UNCHANGED <<server, restarts>>
    BY DEF Working
  <2>2. \A k \in Launches : Holding(k)' <=> Holding(k)
    BY <1>0 DEF Holding, Releasing, Owns, StopParts, LiveParts, EntryParts
  <2>3. \A k \in Launches : Asking(k)' <=> Asking(k)
    BY <1>0 DEF Asking
  <2>4. HolderAlone' /\ \A k \in Launches : Using(k)' <=> Using(k)
    BY <2>2, <2>3 DEF HolderAlone, Using
  <2>5. ReleaseParts'
    BY <1>0 DEF ReleaseParts
  <2> QED BY <2>1, <2>4, <2>5 DEF PlainStep
<1>6. CASE StopEndsSession(s)
  <2> USE <1>6 DEF StopEndsSession, StopGoto, notStop, entries
  <2>1. /\ \A c \in Calls : Working(c)' => Working(c)
        /\ \A k \in Launches : at'[k] = "new" <=> at[k] = "new"
        /\ \A t \in Stops : stopAt'[t] = "new" <=> stopAt[t] = "new"
        /\ UNCHANGED <<server, restarts>>
    BY DEF Working
  <2>2. \A k \in Launches : Holding(k)' <=> Holding(k)
    BY <1>0 DEF Holding, Releasing, Owns
  <2>3. \A k \in Launches : Asking(k)' <=> Asking(k)
    BY <1>0 DEF Asking
  <2>4. HolderAlone' /\ \A k \in Launches : Using(k)' <=> Using(k)
    BY <2>2, <2>3 DEF HolderAlone, Using
  <2>5. ReleaseParts'
    BY <1>0 DEF ReleaseParts
  <2> QED BY <2>1, <2>4, <2>5 DEF PlainStep
<1>7. CASE ToStopped(s)
  <2> USE <1>7 DEF ToStopped, StopGoto, notStop, entries
  <2>1. /\ \A c \in Calls : Working(c)' => Working(c)
        /\ \A k \in Launches : at'[k] = "new" <=> at[k] = "new"
        /\ \A t \in Stops : stopAt'[t] = "new" <=> stopAt[t] = "new"
        /\ UNCHANGED <<server, restarts>>
    BY DEF Working
  <2>2. \A k \in Launches : Holding(k)' <=> Holding(k)
    BY <1>0 DEF Holding, Releasing, Owns
  <2>3. \A k \in Launches : Asking(k)' <=> Asking(k)
    BY <1>0 DEF Asking
  <2>4. HolderAlone' /\ \A k \in Launches : Using(k)' <=> Using(k)
    BY <2>2, <2>3 DEF HolderAlone, Using
  <2>5. ReleaseParts'
    BY <1>0 DEF ReleaseParts
  <2> QED BY <2>1, <2>4, <2>5 DEF PlainStep
<1>8. CASE ClearPid(s)
  <2> USE <1>8 DEF ClearPid, StopGoto, notStop, entries
  <2>1. /\ \A c \in Calls : Working(c)' => Working(c)
        /\ \A k \in Launches : at'[k] = "new" <=> at[k] = "new"
        /\ \A t \in Stops : stopAt'[t] = "new" <=> stopAt[t] = "new"
        /\ UNCHANGED <<server, restarts>>
    BY DEF Working
  <2>2. \A k \in Launches : Holding(k)' <=> Holding(k)
    BY <1>0 DEF Holding, Releasing, Owns
  <2>3. \A k \in Launches : Asking(k)' <=> Asking(k)
    BY <1>0 DEF Asking
  <2>4. HolderAlone' /\ \A k \in Launches : Using(k)' <=> Using(k)
    BY <2>2, <2>3 DEF HolderAlone, Using
  <2>5. ReleaseParts'
    BY <1>0 DEF ReleaseParts
  <2> QED BY <2>1, <2>4, <2>5 DEF PlainStep
<1>9. CASE StopUnlock(s)
  <2> USE <1>9 DEF StopUnlock, StopGoto, notStop, entries
  <2>1. /\ \A c \in Calls : Working(c)' => Working(c)
        /\ \A k \in Launches : at'[k] = "new" <=> at[k] = "new"
        /\ \A t \in Stops : stopAt'[t] = "new" <=> stopAt[t] = "new"
        /\ UNCHANGED <<server, restarts>>
    BY DEF Working
  <2>2. \A k \in Launches : Holding(k)' <=> Holding(k)
    BY <1>0 DEF Holding, Releasing, Owns, StopParts
  <2>3. \A k \in Launches : Asking(k)' <=> Asking(k)
    BY <1>0 DEF Asking
  <2>4. HolderAlone' /\ \A k \in Launches : Using(k)' <=> Using(k)
    BY <2>2, <2>3 DEF HolderAlone, Using
  <2>5. ReleaseParts'
    BY <1>0 DEF ReleaseParts, StopParts
  <2> QED BY <2>1, <2>4, <2>5 DEF PlainStep
<1>10. CASE StopUnmanaged(s)
  <2> USE <1>10 DEF StopUnmanaged, StopGoto, notStop, entries
  <2>1. /\ \A c \in Calls : Working(c)' => Working(c)
        /\ \A k \in Launches : at'[k] = "new" <=> at[k] = "new"
        /\ \A t \in Stops : stopAt'[t] = "new" <=> stopAt[t] = "new"
        /\ UNCHANGED <<server, restarts>>
    BY DEF Working
  <2>2. \A k \in Launches : Holding(k)' <=> Holding(k)
    BY <1>0 DEF Holding, Releasing, Owns
  <2>3. \A k \in Launches : Asking(k)' <=> Asking(k)
    BY <1>0 DEF Asking
  <2>4. HolderAlone' /\ \A k \in Launches : Using(k)' <=> Using(k)
    BY <2>2, <2>3 DEF HolderAlone, Using
  <2>5. ReleaseParts'
    BY <1>0 DEF ReleaseParts
  <2> QED BY <2>1, <2>4, <2>5 DEF PlainStep
<1>11. CASE AckLock(s)
  <2> USE <1>11 DEF AckLock, StopGoto, notStop, entries
  <2>1. /\ \A c \in Calls : Working(c)' => Working(c)
        /\ \A k \in Launches : at'[k] = "new" <=> at[k] = "new"
        /\ \A t \in Stops : stopAt'[t] = "new" <=> stopAt[t] = "new"
        /\ UNCHANGED <<server, restarts>>
    BY DEF Working
  <2>2. \A k \in Launches : Holding(k)' <=> Holding(k)
    BY <1>0 DEF Holding, Releasing, Owns
  <2>3. \A k \in Launches : Asking(k)' <=> Asking(k)
    BY <1>0 DEF Asking
  <2>4. HolderAlone' /\ \A k \in Launches : Using(k)' <=> Using(k)
    BY <2>2, <2>3 DEF HolderAlone, Using
  <2>5. ReleaseParts'
    BY <1>0 DEF ReleaseParts
  <2> QED BY <2>1, <2>4, <2>5 DEF PlainStep
<1>12. CASE AckState(s)
  <2> USE <1>12 DEF AckState, StopGoto, notStop, entries
  <2>1. /\ \A c \in Calls : Working(c)' => Working(c)
        /\ \A k \in Launches : at'[k] = "new" <=> at[k] = "new"
        /\ \A t \in Stops : stopAt'[t] = "new" <=> stopAt[t] = "new"
        /\ UNCHANGED <<server, restarts>>
    BY DEF Working
  <2>2. \A k \in Launches : Holding(k)' <=> Holding(k)
    BY <1>0 DEF Holding, Releasing, Owns
  <2>3. \A k \in Launches : Asking(k)' <=> Asking(k)
    BY <1>0 DEF Asking
  <2>4. HolderAlone' /\ \A k \in Launches : Using(k)' <=> Using(k)
    BY <2>2, <2>3 DEF HolderAlone, Using
  <2>5. ReleaseParts'
    BY <1>0 DEF ReleaseParts
  <2> QED BY <2>1, <2>4, <2>5 DEF PlainStep
<1>13. CASE AckUnlock(s)
  <2> USE <1>13 DEF AckUnlock, StopGoto, notStop, entries
  <2>1. /\ \A c \in Calls : Working(c)' => Working(c)
        /\ \A k \in Launches : at'[k] = "new" <=> at[k] = "new"
        /\ \A t \in Stops : stopAt'[t] = "new" <=> stopAt[t] = "new"
        /\ UNCHANGED <<server, restarts>>
    BY DEF Working
  <2>2. \A k \in Launches : Holding(k)' <=> Holding(k)
    BY <1>0 DEF Holding, Releasing, Owns
  <2>3. \A k \in Launches : Asking(k)' <=> Asking(k)
    BY <1>0 DEF Asking
  <2>4. HolderAlone' /\ \A k \in Launches : Using(k)' <=> Using(k)
    BY <2>2, <2>3 DEF HolderAlone, Using
  <2>5. ReleaseParts'
    BY <1>0 DEF ReleaseParts
  <2> QED BY <2>1, <2>4, <2>5 DEF PlainStep
<1> QED BY <1>1, <1>2, <1>3, <1>4, <1>5, <1>6, <1>7, <1>8, <1>9, <1>10,
          <1>11, <1>12, <1>13 DEF Stop

\* ... nor a crash handler.
LEMMA CrashIsPlain ==
  ASSUME LifecycleInv, LifecycleInv', HolderAlone, ReleaseParts, Orderly,
         NEW l \in Launches, Turn(CrashMidway(l)), Crash(l), UNCHANGED phase
  PROVE  PlainStep
<1> USE LifecycleAssumption DEF LifecycleInv, TypeOK, OrNone, Calls
<1>0. /\ \A k \in Launches : ~LaunchMidway(k)
      /\ \A k \in Launches \ {l} : ~CrashMidway(k)
      /\ \A s \in Stops : ~StopMidway(s)
  BY CrashAlone
<1> USE DEF LaunchHolds, CrashHolds, StopHolds, AckHolds, LaunchMidway,
   CrashMidway, StopMidway
<1>1. CASE CrashEndsSession(l)
  <2> USE <1>1 DEF CrashEndsSession, CrashGoto, notCrash, entries
  <2>1. /\ \A c \in Calls : Working(c)' => Working(c)
        /\ \A k \in Launches : at'[k] = "new" <=> at[k] = "new"
        /\ \A t \in Stops : stopAt'[t] = "new" <=> stopAt[t] = "new"
        /\ UNCHANGED <<server, restarts>>
    BY DEF Working
  <2>2. \A k \in Launches : Holding(k)' <=> Holding(k)
    BY <1>0 DEF Holding, Releasing, Owns
  <2>3. \A k \in Launches : Asking(k)' <=> Asking(k)
    BY <1>0 DEF Asking
  <2>4. HolderAlone' /\ \A k \in Launches : Using(k)' <=> Using(k)
    BY <2>2, <2>3 DEF HolderAlone, Using
  <2>5. ReleaseParts'
    BY <1>0 DEF ReleaseParts
  <2> QED BY <2>1, <2>4, <2>5 DEF PlainStep
<1>2. CASE CrashReads(l)
  <2> USE <1>2 DEF CrashReads, CrashGoto, notCrash, entries
  <2>1. /\ \A c \in Calls : Working(c)' => Working(c)
        /\ \A k \in Launches : at'[k] = "new" <=> at[k] = "new"
        /\ \A t \in Stops : stopAt'[t] = "new" <=> stopAt[t] = "new"
        /\ UNCHANGED <<server, restarts>>
    BY DEF Working
  <2>2. \A k \in Launches : Holding(k)' <=> Holding(k)
    BY <1>0 DEF Holding, Releasing, Owns
  <2>3. \A k \in Launches : Asking(k)' <=> Asking(k)
    BY <1>0 DEF Asking
  <2>4. HolderAlone' /\ \A k \in Launches : Using(k)' <=> Using(k)
    BY <2>2, <2>3 DEF HolderAlone, Using
  <2>5. ReleaseParts'
    BY <1>0 DEF ReleaseParts
  <2> QED BY <2>1, <2>4, <2>5 DEF PlainStep
<1>3. CASE ToCrashed(l)
  <2> USE <1>3 DEF ToCrashed, CrashGoto, notCrash, entries
  <2>1. /\ \A c \in Calls : Working(c)' => Working(c)
        /\ \A k \in Launches : at'[k] = "new" <=> at[k] = "new"
        /\ \A t \in Stops : stopAt'[t] = "new" <=> stopAt[t] = "new"
        /\ UNCHANGED <<server, restarts>>
    BY DEF Working
  <2>2. \A k \in Launches : Holding(k)' <=> Holding(k)
    BY <1>0 DEF Holding, Releasing, Owns
  <2>3. \A k \in Launches : Asking(k)' <=> Asking(k)
    BY <1>0 DEF Asking
  <2>4. HolderAlone' /\ \A k \in Launches : Using(k)' <=> Using(k)
    BY <2>2, <2>3 DEF HolderAlone, Using
  <2>5. ReleaseParts'
    BY <1>0 DEF ReleaseParts
  <2> QED BY <2>1, <2>4, <2>5 DEF PlainStep
<1>4. CASE CrashUnlock(l)
  <2> USE <1>4 DEF CrashUnlock, CrashGoto, notCrash, entries
  <2>1. /\ \A c \in Calls : Working(c)' => Working(c)
        /\ \A k \in Launches : at'[k] = "new" <=> at[k] = "new"
        /\ \A t \in Stops : stopAt'[t] = "new" <=> stopAt[t] = "new"
        /\ UNCHANGED <<server, restarts>>
    BY DEF Working
  <2>2. \A k \in Launches : Holding(k)' <=> Holding(k)
    BY <1>0 DEF Holding, Releasing, Owns, CrashParts, EntryParts, LiveParts
  <2>3. \A k \in Launches : Asking(k)' <=> Asking(k)
    BY <1>0 DEF Asking
  <2>4. HolderAlone' /\ \A k \in Launches : Using(k)' <=> Using(k)
    BY <2>2, <2>3 DEF HolderAlone, Using
  <2>5. ReleaseParts'
    BY <1>0 DEF ReleaseParts
  <2> QED BY <2>1, <2>4, <2>5 DEF PlainStep
<1> QED BY <1>1, <1>2, <1>3, <1>4 DEF Crash
-----------------------------------------------------------------------------
(* The governor's theorems, for the calls of launchProfile.                 *)

\* The manager gives the governor constants its theorems allow.
LEMMA GovernorAssumed == Gov!GovernorAssumption
<1>1. /\ MaxConcurrent \in Nat \ {0}
      /\ CheckDisk \in BOOLEAN
      /\ Overlap \in BOOLEAN
      /\ Gov!IsFiniteSet(Profiles)
      /\ Gov!IsFiniteSet(Launches)
  BY ManagerAssumption, LifecycleAssumption DEF Gov!IsFiniteSet, IsFiniteSet
<1> QED BY <1>1 DEF Gov!GovernorAssumption

\* The governor of the manager's actions is the one the theorems are about.
LEMMA SameGovernor ==
  /\ \A l \in Launches, p \in Profiles : Governor!Acquire(l, p) <=> Gov!Acquire(l, p)
  /\ \A l \in Launches : Governor!DiskChecked(l) <=> Gov!DiskChecked(l)
  /\ \A l \in Launches : Governor!Resume(l) <=> Gov!Resume(l)
  /\ \A p \in Profiles : Governor!Release(p) <=> Gov!Release(p)
  /\ \A p \in Profiles : Governor!NoteActivity(p) <=> Gov!NoteActivity(p)
  /\ \A p \in Profiles : Governor!IdleElapses(p) <=> Gov!IdleElapses(p)
  /\ \A i \in DOMAIN waiting : Governor!QueueTimeout(i) <=> Gov!QueueTimeout(i)
  /\ Governor!Close <=> Gov!Close
<1>1. \A l \in Launches, p \in Profiles : Governor!Acquire(l, p) <=> Gov!Acquire(l, p)
  BY DEF Governor!Acquire, Gov!Acquire, Governor!Unfinished, Gov!Unfinished,
     Governor!Move, Gov!Move, Governor!Decide, Gov!Decide, Governor!Enqueue,
     Gov!Enqueue, Governor!ToSet, Gov!ToSet
<1>2. \A l \in Launches : Governor!DiskChecked(l) <=> Gov!DiskChecked(l)
  BY DEF Governor!DiskChecked, Gov!DiskChecked, Governor!Move, Gov!Move,
     Governor!Decide, Gov!Decide, Governor!Enqueue, Gov!Enqueue, Governor!ToSet,
     Gov!ToSet
<1>3. \A l \in Launches : Governor!Resume(l) <=> Gov!Resume(l)
  BY DEF Governor!Resume, Gov!Resume, Governor!Granted, Gov!Granted,
     Governor!Move, Gov!Move
<1>4. \A p \in Profiles : Governor!Release(p) <=> Gov!Release(p)
  BY DEF Governor!Release, Gov!Release, Governor!Move, Gov!Move,
     Governor!Awaiting, Gov!Awaiting
<1>5. \A p \in Profiles : Governor!NoteActivity(p) <=> Gov!NoteActivity(p)
  BY DEF Governor!NoteActivity, Gov!NoteActivity
<1>6. \A p \in Profiles : Governor!IdleElapses(p) <=> Gov!IdleElapses(p)
  BY DEF Governor!IdleElapses, Gov!IdleElapses
<1>7. \A i \in DOMAIN waiting : Governor!QueueTimeout(i) <=> Gov!QueueTimeout(i)
  BY DEF Governor!QueueTimeout, Gov!QueueTimeout, Governor!Move, Gov!Move,
     Governor!Awaiting, Gov!Awaiting, Governor!RemoveAt, Gov!RemoveAt
<1>8. Governor!Close <=> Gov!Close
  BY DEF Governor!Close, Gov!Close, Governor!Move, Gov!Move
<1> QED BY <1>1, <1>2, <1>3, <1>4, <1>5, <1>6, <1>7, <1>8

\* What the manager needs of the governor's types and of its queue.
LEMMA GovernorTyped ==
  ASSUME Gov!GovernorInv
  PROVE  /\ held \in SUBSET Profiles
         /\ phase \in [Launches ->
               {"none", "disk", "queued", "granted", "admitted", "rejected"}]
         /\ want \in [Launches -> Profiles]
         /\ waiting \in Seq(Launches)
BY DEF Gov!GovernorInv, Gov!TypeOK, Gov!Phases

\* A release takes the slot of its profile and wakes at most one launch that
\* waits in the queue.
LEMMA ReleaseFacts ==
  ASSUME Gov!GovernorInv, Gov!NoLeakInv, NEW p \in Profiles, Governor!Release(p)
  PROVE  /\ held' = held \ {p}
         /\ want' = want
         /\ \/ phase' = phase
            \/ \E r \in Launches : /\ phase[r] = "queued"
                                   /\ phase' = [phase EXCEPT ![r] = "granted"]
<1> USE GovernorTyped
<1>1. held' = held \ {p} /\ want' = want
  BY DEF Governor!Release
<1>2. CASE UNCHANGED phase
  BY <1>1, <1>2
<1>3. CASE waiting # << >> /\ Governor!Move(Governor!Awaiting(Head(waiting)), "granted")
  <2> DEFINE r == Head(waiting)
  <2>1. r \in Launches /\ r = waiting[1] /\ 1 \in DOMAIN waiting
    BY <1>3
  <2>2. phase[r] = "queued" /\ \A c \in Launches : ticket[c] = c
    BY <2>1 DEF Gov!GovernorInv, Gov!EveryRequestIsAwaited, Gov!NoLeakInv,
       Gov!OneCallPerProfile
  <2>3. Governor!Awaiting(r) = {r}
    BY <2>1, <2>2 DEF Governor!Awaiting
  <2>4. phase' = [phase EXCEPT ![r] = "granted"]
    BY <1>3, <2>3 DEF Governor!Move
  <2> QED BY <1>1, <2>1, <2>2, <2>4
<1> QED BY <1>2, <1>3 DEF Governor!Release

-----------------------------------------------------------------------------
(* Handlers, loops and the world outside concern no slot until they release. *)

\* An entry that is settled leaves live for its crash handler: the profile stays
\* in use.
LEMMA CrashHandlerIsPlain ==
  ASSUME LifecycleInv, HolderAlone, ReleaseParts, NobodyMidway, NEW l \in Launches,
         l \in watched, HandleCrash(l),
         UNCHANGED <<at, stopAt, target, server, restarts, phase>>
  PROVE  PlainStep
<1> USE LifecycleAssumption DEF LifecycleInv, TypeOK, OrNone, Calls
<1>1. CASE l \in settled \/ live[ProfileOf[l]] = NoOne
  <2>1. UNCHANGED <<live, settled, crashAt>>
    BY <1>1 DEF HandleCrash
  <2>2. \A k \in Launches : (Holding(k)' <=> Holding(k)) /\ (Asking(k)' <=> Asking(k))
    BY <2>1 DEF Holding, Releasing, Owns, Asking
  <2>3. ReleaseParts'
    BY <2>1 DEF ReleaseParts
  <2>4. \A c \in Calls : Working(c)' => Working(c)
    BY DEF Working
  <2> QED BY <2>2, <2>3, <2>4 DEF PlainStep, HolderAlone, Using
<1>2. CASE ~(l \in settled \/ live[ProfileOf[l]] = NoOne)
  <2>1. /\ settled' = settled \cup {l}
        /\ live' = [live EXCEPT ![ProfileOf[l]] = NoOne]
        /\ crashAt' = [crashAt EXCEPT ![l] = "endSession"]
    BY <1>2 DEF HandleCrash, CrashGoto
  <2>2. live[ProfileOf[l]] = l /\ crashAt[l] = "none"
    BY <1>2 DEF EntryParts, CrashParts
  <2>3. at[l] \notin {"new", "lock"} /\ \A k \in Launches : ~LaunchMidway(k)
    BY DEF EntryParts, NobodyMidway
  <2>4. at[l] # "throw"
    BY <2>3 DEF LaunchMidway
  <2>5. \A k \in Launches : Owns(k)' <=> Owns(k)
    <3>1. \A k \in Launches \ {l} : live'[ProfileOf[k]] = k <=> live[ProfileOf[k]] = k
      BY <2>1, <2>2
    <3>2. Owns(l) /\ Owns(l)'
      BY <2>1, <2>2 DEF Owns, CrashHolds
    <3> QED BY <2>1, <3>1, <3>2 DEF Owns
  <2>6. \A k \in Launches : Holding(k)' <=> Holding(k)
    BY <2>1, <2>2, <2>5 DEF Holding, Releasing
  <2>7. \A k \in Launches : Asking(k)' <=> Asking(k)
    BY <2>1, <2>3, <2>4 DEF Asking
  <2>8. ReleaseParts'
    BY <2>1 DEF ReleaseParts
  <2>9. \A c \in Calls : Working(c)' => Working(c)
    BY DEF Working
  <2> QED BY <2>6, <2>7, <2>8, <2>9 DEF PlainStep, HolderAlone, Using
<1> QED BY <1>1, <1>2

\* Exit events, heartbeats, the monitor, dying browsers and ageing locks.
LEMMA WorldIsPlain ==
  ASSUME LifecycleInv, HolderAlone, ReleaseParts, UNCHANGED phase,
         \/ NobodyMidway /\ \E l \in Launches : ExitEvent(l)
         \/ \E p \in Profiles : Heartbeat(p) \/ LockAges(p)
         \/ MonitorStarts
         \/ (MonitorMidway \/ NobodyMidway) /\ Monitor
         \/ \E l \in Launches : BrowserDies(l)
  PROVE  PlainStep
<1> USE LifecycleAssumption DEF notLaunch, notCrash, memory
<1>1. ASSUME UNCHANGED <<live, settled, at, stopAt, target, crashAt, server, restarts>>
      PROVE  PlainStep
  <2>1. \A k \in Launches : (Holding(k)' <=> Holding(k)) /\ (Asking(k)' <=> Asking(k))
    BY <1>1 DEF Holding, Releasing, Owns, Asking
  <2>2. \A c \in Calls : Working(c)' => Working(c)
    BY <1>1 DEF Working
  <2> QED BY <1>1, <2>1, <2>2 DEF PlainStep, HolderAlone, ReleaseParts, Using
<1>2. ASSUME NEW l \in Launches, NobodyMidway, ExitEvent(l) PROVE PlainStep
  <2>1. CASE l \in stopping \/ l \notin watched
    BY <1>1, <1>2, <2>1 DEF ExitEvent
  <2>2. CASE ~(l \in stopping \/ l \notin watched)
    BY <1>2, <2>2, CrashHandlerIsPlain DEF ExitEvent
  <2> QED BY <2>1, <2>2
<1>3. CASE \E p \in Profiles : Heartbeat(p) \/ LockAges(p)
  BY <1>1, <1>3 DEF Heartbeat, LockAges
<1>4. CASE MonitorStarts \/ MonitorReads \/ MonitorMarksError
  BY <1>1, <1>4 DEF MonitorStarts, MonitorReads, MonitorMarksError, entries
<1>5. ASSUME NEW l \in Launches, MonitorVisits(l), MonitorMidway \/ NobodyMidway
      PROVE  PlainStep
  <2>1. NobodyMidway
    BY <1>5 DEF MonitorVisits, MonitorMidway
  <2>2. l \in watched
    BY <1>5 DEF MonitorVisits, LifecycleInv, MonitorParts
  <2>3. CASE UNCHANGED <<live, settled, crashAt>>
    BY <1>1, <1>5, <2>3 DEF MonitorVisits
  <2>4. CASE HandleCrash(l)
    BY <1>5, <2>1, <2>2, <2>4, CrashHandlerIsPlain DEF MonitorVisits
  <2> QED BY <1>5, <2>3, <2>4 DEF MonitorVisits
<1>6. CASE \E l \in Launches : BrowserDies(l)
  BY <1>1, <1>6 DEF BrowserDies
<1> QED BY <1>2, <1>3, <1>4, <1>5, <1>6 DEF Monitor

\* A step that concerns no slot keeps the composition together.
LEMMA PlainStepKeeps ==
  ASSUME ManagerInv, PlainStep, UNCHANGED <<governor, reaping>>, TurnsAlone'
  PROVE  SlotParts'
<1> USE DEF ManagerInv, SlotParts, governor
<1>1. Up' /\ restarts' = 0 /\ reaping' \in SUBSET Reaps /\ WantsOwn'
  BY DEF PlainStep, Up, WantsOwn
<1>2. Entered'
  BY DEF PlainStep, Entered
<1>3. \A c \in Calls : Busy(c)' => Busy(c)
  BY DEF PlainStep, Busy, Acquiring
<1>4. ClientsSerial'
  BY <1>3 DEF ClientsSerial
<1>5. SlotInUse'
  BY DEF PlainStep, SlotInUse
<1> QED BY <1>1, <1>2, <1>4, <1>5 DEF PlainStep

\* A call that gives back a slot nobody uses any more keeps it together.
LEMMA ReleaseKeepsSlots ==
  ASSUME ManagerInv, NEW p \in Profiles, Governor!Release(p),
         UNCHANGED <<reaping, server, restarts>>,
         NobodyMidway',
         \A l \in Launches : ~SlotMidway(l),
         \A s \in Stops : ~ReapMidway(s),
         \A l \in Launches : at'[l] = "new" <=> at[l] = "new",
         \A s \in Stops : stopAt'[s] = "new" <=> stopAt[s] = "new",
         \A c \in Calls : Working(c)' => Working(c),
         \A l \in Launches : ProfileOf[l] # p => (Using(l)' <=> Using(l)),
         \A l \in Launches : ProfileOf[l] = p => ~Using(l)',
         HolderAlone',
         ReleaseParts'
  PROVE  SlotParts'
<1> USE GovernorTyped, LifecycleAssumption DEF ManagerInv, SlotParts
<1>1. held' = held \ {p} /\ want' = want
  BY ReleaseFacts
<1>2. \/ phase' = phase
      \/ \E r \in Launches : phase[r] = "queued" /\ phase' = [phase EXCEPT ![r] = "granted"]
  BY ReleaseFacts
<1>3. Up' /\ restarts' = 0 /\ reaping' \in SUBSET Reaps /\ WantsOwn'
  BY <1>1 DEF Up, WantsOwn
<1>4. Entered'
  BY <1>2 DEF Entered
<1>5. TurnsAlone'
  <2>1. \A s \in Stops : ~ReapMidway(s)'
    BY DEF ReapMidway
  <2>2. \A k, l \in Launches : SlotMidway(k)' /\ SlotMidway(l)' => k = l
    BY <1>2 DEF SlotMidway
  <2> QED BY <2>1, <2>2 DEF TurnsAlone
<1>6. \A c \in Calls : Busy(c)' => Busy(c)
  BY <1>2 DEF Busy, Acquiring
<1>7. ClientsSerial'
  BY <1>6 DEF ClientsSerial
<1>8. SlotInUse'
  BY <1>1 DEF SlotInUse
<1> QED BY <1>3, <1>4, <1>5, <1>7, <1>8

-----------------------------------------------------------------------------
(* Calls get their slots and give them back.                                *)

\* A step of the governor alone: only launches that wait for a slot move.
LEMMA QueueKeepsSlots ==
  ASSUME ManagerInv, UNCHANGED <<vars, want>>, reaping' \in SUBSET Reaps,
         \A l \in Launches : phase'[l] # phase[l] => at[l] = "new",
         TurnsAlone', ClientsSerial', SlotInUse'
  PROVE  SlotParts'
BY DEF ManagerInv, SlotParts, vars, memory, Up, WantsOwn, Entered, HolderAlone,
   Holding, Owns, Releasing, ReleaseParts

\* One launch asks for a slot, or hears whether it gets one at once.
LEMMA AdmissionKeepsSlots ==
  ASSUME ManagerInv, UNCHANGED <<vars, reaping, want>>,
         NEW l \in Launches, at[l] = "new", phase[l] # "admitted",
         NEW x \in {"disk", "queued", "admitted", "rejected"},
         phase' = [c \in Launches |-> IF c \in {l} THEN x ELSE phase[c]],
         held' = IF x = "admitted" THEN held \cup {ProfileOf[l]} ELSE held,
         ManagerTurn(FALSE),
         \A d \in Calls \ Reaps :
           d # l /\ ProfileOf[d] = ProfileOf[l] => ~Busy(d)
  PROVE  SlotParts'
<1> USE GovernorTyped, LifecycleAssumption DEF vars, memory, ManagerInv
<1>1. /\ NobodyMidway
      /\ \A k \in Launches : ~SlotMidway(k)
      /\ \A s \in Stops : ~ReapMidway(s)
  BY DEF ManagerTurn
<1>2. TurnsAlone'
  <2>1. \A k \in Launches : SlotMidway(k)' => k = l
    BY <1>1 DEF SlotMidway
  <2>2. \A s \in Stops : ~ReapMidway(s)'
    BY <1>1 DEF ReapMidway
  <2>3. NobodyMidway'
    BY <1>1 DEF NobodyMidway, LaunchMidway, CrashMidway, StopMidway, MonitorMidway
  <2> QED BY <2>1, <2>2, <2>3 DEF TurnsAlone
<1>3. ClientsSerial'
  <2>1. \A c \in Calls : c # l => (Busy(c)' => Busy(c))
    BY DEF Busy, Acquiring, Working
  <2> QED BY <2>1 DEF ClientsSerial, SlotParts
<1>4. \A k \in Launches : Using(k)' <=> Using(k) \/ (k = l /\ x = "admitted")
  <2>1. \A k \in Launches : Holding(k)' <=> Holding(k)
    BY DEF Holding, Owns, Releasing
  <2>2. \A k \in Launches : Asking(k)' <=> Asking(k) \/ (k = l /\ x = "admitted")
    BY DEF Asking
  <2> QED BY <2>1, <2>2 DEF Using
<1>5. SlotInUse'
  <2> USE DEF SlotParts, SlotInUse
  <2>1. CASE x = "admitted"
    <3>1. \A q \in Profiles : q \in held' <=> q \in held \/ q = ProfileOf[l]
      BY <2>1
    <3>2. ASSUME NEW q \in Profiles
          PROVE  (\E k \in Launches : ProfileOf[k] = q /\ Using(k)')
                 <=> (\E k \in Launches : ProfileOf[k] = q /\ Using(k)) \/ q = ProfileOf[l]
      BY <1>4, <2>1
    <3> QED BY <3>1, <3>2
  <2>2. CASE x # "admitted"
    BY <1>4, <2>2
  <2> QED BY <2>1, <2>2
<1>6. /\ reaping' \in SUBSET Reaps
      /\ \A k \in Launches : phase'[k] # phase[k] => at[k] = "new"
  BY DEF SlotParts
<1> QED BY <1>2, <1>3, <1>5, <1>6, QueueKeepsSlots

\* What admission under the cap, or the queue, comes to.
LEMMA DecideFacts ==
  ASSUME NEW l \in Launches, NEW p \in Profiles, Governor!Decide(l, p)
  PROVE  \E x \in {"queued", "admitted"} :
           /\ phase' = [c \in Launches |-> IF c \in {l} THEN x ELSE phase[c]]
           /\ held' = IF x = "admitted" THEN held \cup {p} ELSE held
BY DEF Governor!Decide, Governor!Enqueue, Governor!Move

\* A launch that has not got a slot is not past its call of acquire().
LEMMA AcquireKeepsSlots ==
  ASSUME ManagerInv, ~ClientsOverlap, NEW l \in Launches,
         ManagerTurn(LaunchMidway(l) \/ SlotMidway(l)), AcquireSlot(l)
  PROVE  SlotParts' /\ Gov!GovernorInv' /\ Gov!NoLeakInv'
<1> USE GovernorTyped, LifecycleAssumption DEF ManagerInv
<1>1. /\ at[l] = "new" /\ phase[l] = "none"
      /\ UNCHANGED <<vars, reaping>>
      /\ Governor!Acquire(l, ProfileOf[l])
      /\ \A d \in Calls \ Reaps : ProfileOf[d] = ProfileOf[l] => ~Busy(d)
  BY DEF AcquireSlot, MayCall, Busy
<1>2. ManagerTurn(FALSE)
  BY <1>1 DEF ManagerTurn, LaunchMidway, SlotMidway
<1>3. ProfileOf[l] \in Profiles
  OBVIOUS
<1>4. want' = want
  BY <1>1 DEF Governor!Acquire, SlotParts, WantsOwn
<1>5. \E x \in {"disk", "queued", "admitted", "rejected"} :
        /\ phase' = [c \in Launches |-> IF c \in {l} THEN x ELSE phase[c]]
        /\ held' = IF x = "admitted" THEN held \cup {ProfileOf[l]} ELSE held
  <2>1. CASE Governor!Decide(l, ProfileOf[l])
    BY <1>3, <2>1, DecideFacts
  <2>2. CASE ~Governor!Decide(l, ProfileOf[l])
    <3>1. held' = held
      BY <1>1, <2>2 DEF Governor!Acquire
    <3>2. \/ Governor!Move({l}, "rejected")
          \/ ProfileOf[l] \in held /\ Governor!Move({l}, "admitted")
          \/ Governor!Move({l}, "disk")
      BY <1>1, <2>2 DEF Governor!Acquire
    <3> QED BY <3>1, <3>2 DEF Governor!Move
  <2> QED BY <2>1, <2>2
<1>6. SlotParts'
  BY <1>1, <1>2, <1>4, <1>5, AdmissionKeepsSlots
<1>7. Gov!Acquire(l, ProfileOf[l])
  BY <1>1, <1>3, SameGovernor
<1>8. Gov!GovernorInv'
  BY <1>3, <1>7, GovernorAssumed, Gov!AcquireKeepsInv
<1>9. \A d \in Launches : Gov!Unfinished(d) => want[d] # ProfileOf[l]
  <2> SUFFICES ASSUME NEW d \in Launches, phase[d] \in {"disk", "queued", "granted"}
               PROVE  ProfileOf[d] # ProfileOf[l]
    BY DEF Gov!Unfinished, SlotParts, WantsOwn
  <2>1. at[d] = "new"
    BY DEF SlotParts, Entered
  <2>2. Busy(d)
    BY <2>1 DEF Busy, Acquiring
  <2>3. d \in Calls \ Reaps
    BY ManagerAssumption DEF Calls
  <2> QED BY <1>1, <2>2, <2>3
<1>10. Gov!NoLeakInv'
  BY <1>3, <1>7, <1>9, GovernorAssumed, Gov!AcquireKeepsNoLeak
<1> QED BY <1>6, <1>8, <1>10

\* The disk check answers a launch.
LEMMA DiskCheckedKeepsSlots ==
  ASSUME ManagerInv, NEW l \in Launches, ManagerTurn(FALSE),
         Governor!DiskChecked(l), UNCHANGED <<vars, reaping>>
  PROVE  SlotParts' /\ Gov!GovernorInv' /\ Gov!NoLeakInv'
<1> USE GovernorTyped, LifecycleAssumption DEF ManagerInv
<1>1. phase[l] = "disk" /\ want' = want
  BY DEF Governor!DiskChecked
<1>2. at[l] = "new" /\ Busy(l) /\ l \in Calls \ Reaps
  BY <1>1, ManagerAssumption DEF SlotParts, Entered, Busy, Acquiring, Calls
<1>3. \A d \in Calls \ Reaps : d # l /\ ProfileOf[d] = ProfileOf[l] => ~Busy(d)
  BY <1>2 DEF SlotParts, ClientsSerial
<1>4. want[l] = ProfileOf[l] /\ ProfileOf[l] \in Profiles
  BY DEF SlotParts, WantsOwn
<1>5. \E x \in {"disk", "queued", "admitted", "rejected"} :
        /\ phase' = [c \in Launches |-> IF c \in {l} THEN x ELSE phase[c]]
        /\ held' = IF x = "admitted" THEN held \cup {ProfileOf[l]} ELSE held
  <2>1. CASE Governor!Decide(l, want[l])
    BY <1>4, <2>1, DecideFacts
  <2>2. CASE Governor!Move({l}, "rejected") /\ UNCHANGED held
    BY <2>2 DEF Governor!Move
  <2> QED BY <2>1, <2>2 DEF Governor!DiskChecked
<1>6. SlotParts'
  BY <1>1, <1>2, <1>3, <1>5, AdmissionKeepsSlots
<1>7. Gov!DiskChecked(l)
  BY SameGovernor
<1>8. Gov!GovernorInv'
  BY <1>7, GovernorAssumed, Gov!DiskCheckedKeepsInv
<1>9. Gov!NoLeakInv'
  BY <1>7, GovernorAssumed, Gov!DiskCheckedKeepsNoLeak
<1> QED BY <1>6, <1>8, <1>9

\* A launch whose slot came resumes.
LEMMA ResumeKeepsSlots ==
  ASSUME ManagerInv, NEW r \in Launches, ManagerTurn(SlotMidway(r)),
         Governor!Resume(r), UNCHANGED <<vars, reaping>>
  PROVE  SlotParts' /\ Gov!GovernorInv' /\ Gov!NoLeakInv'
<1> USE GovernorTyped, LifecycleAssumption DEF vars, memory, ManagerInv
<1>1. phase[r] = "granted" /\ want' = want
  BY DEF Governor!Resume, Governor!Granted
<1>2. at[r] = "new" /\ SlotMidway(r)
  BY <1>1 DEF SlotParts, Entered, SlotMidway
<1>3. /\ NobodyMidway
      /\ \A k \in Launches : SlotMidway(k) => k = r
      /\ \A s \in Stops : ~ReapMidway(s)
  BY <1>2 DEF SlotParts, TurnsAlone
<1>4. phase' = [c \in Launches |-> IF c = r THEN "admitted" ELSE phase[c]]
  <2>1. \A c \in Launches : phase[c] = "granted" /\ ticket[c] = r <=> c = r
    <3>1. ticket[r] = r
      BY DEF Governor!Resume, Governor!Granted
    <3>2. \A c \in Launches : phase[c] = "granted" => SlotMidway(c)
      BY DEF SlotParts, Entered, SlotMidway
    <3> QED BY <1>1, <1>3, <3>1, <3>2
  <2> QED BY <2>1 DEF Governor!Resume, Governor!Move
<1>5. held' = held \cup {ProfileOf[r]}
  BY DEF Governor!Resume, SlotParts, WantsOwn
<1>6. TurnsAlone'
  <2>1. \A k \in Launches : SlotMidway(k)' => k = r
    BY <1>3, <1>4 DEF SlotMidway
  <2>2. \A s \in Stops : ~ReapMidway(s)'
    BY <1>3 DEF ReapMidway
  <2>3. NobodyMidway'
    BY <1>3 DEF NobodyMidway, LaunchMidway, CrashMidway, StopMidway, MonitorMidway
  <2> QED BY <2>1, <2>2, <2>3 DEF TurnsAlone
<1>7. ClientsSerial'
  <2>1. \A c \in Calls : Busy(c)' => Busy(c)
    BY <1>1, <1>4 DEF Busy, Acquiring, Working
  <2> QED BY <2>1 DEF ClientsSerial, SlotParts
<1>8. \A k \in Launches : Using(k)' <=> Using(k) \/ k = r
  <2>1. \A k \in Launches : Holding(k)' <=> Holding(k)
    BY DEF Holding, Owns, Releasing
  <2>2. \A k \in Launches : Asking(k)' <=> Asking(k) \/ k = r
    BY <1>2, <1>4 DEF Asking
  <2> QED BY <2>1, <2>2 DEF Using
<1>9. SlotInUse'
  BY <1>5, <1>8 DEF SlotParts, SlotInUse
<1>10. SlotParts'
  <2>1. /\ reaping' \in SUBSET Reaps
        /\ \A k \in Launches : phase'[k] # phase[k] => at[k] = "new"
    BY <1>2, <1>4 DEF SlotParts
  <2> QED BY <1>1, <1>6, <1>7, <1>9, <2>1, QueueKeepsSlots
<1>11. Gov!Resume(r)
  BY SameGovernor
<1>12. Gov!GovernorInv'
  BY <1>11, GovernorAssumed, Gov!ResumeKeepsInv
<1>13. Gov!NoLeakInv'
  BY <1>11, GovernorAssumed, Gov!ResumeKeepsNoLeak
<1> QED BY <1>10, <1>12, <1>13

\* Timers, the idle clock and close() touch no launch that has its slot.
LEMMA TimersKeepSlots ==
  ASSUME ManagerInv, UNCHANGED <<vars, reaping, held, want>>,
         \A l \in Launches : \/ phase'[l] = phase[l]
                             \/ phase[l] = "queued" /\ phase'[l] = "rejected"
  PROVE  SlotParts'
<1> USE LifecycleAssumption DEF ManagerInv, vars, memory, SlotParts
<1>1. /\ reaping' \in SUBSET Reaps
      /\ \A l \in Launches : phase'[l] # phase[l] => at[l] = "new"
  BY DEF Entered
<1>2. TurnsAlone'
  <2>1. \A l \in Launches : SlotMidway(l)' => SlotMidway(l)
    BY DEF SlotMidway
  <2>2. \A s \in Stops : ReapMidway(s)' => ReapMidway(s)
    BY DEF ReapMidway
  <2>3. NobodyMidway => NobodyMidway'
    BY DEF NobodyMidway, LaunchMidway, CrashMidway, StopMidway, MonitorMidway
  <2> QED BY <2>1, <2>2, <2>3 DEF TurnsAlone
<1>3. ClientsSerial'
  <2>1. \A c \in Calls : Busy(c)' => Busy(c)
    BY DEF Busy, Acquiring, Working
  <2> QED BY <2>1 DEF ClientsSerial
<1>4. SlotInUse'
  <2>1. \A l \in Launches : Using(l)' <=> Using(l)
    BY DEF Using, Holding, Owns, Releasing, Asking
  <2> QED BY <2>1 DEF SlotInUse
<1> QED BY <1>1, <1>2, <1>3, <1>4, QueueKeepsSlots

\* Timeouts, the idle clock and close() as steps of the manager.
LEMMA OtherQueueStepsKeep ==
  ASSUME ManagerInv, UNCHANGED <<vars, reaping>>,
         \/ \E i \in DOMAIN waiting : Governor!QueueTimeout(i)
         \/ \E p \in Profiles : Governor!IdleElapses(p)
         \/ Governor!Close
  PROVE  SlotParts' /\ Gov!GovernorInv' /\ Gov!NoLeakInv'
<1> USE GovernorTyped DEF ManagerInv
<1>1. ASSUME NEW i \in DOMAIN waiting, Governor!QueueTimeout(i)
      PROVE  SlotParts' /\ Gov!GovernorInv' /\ Gov!NoLeakInv'
  <2>1. UNCHANGED <<held, want>> /\ \A l \in Launches :
          phase'[l] = phase[l] \/ (phase[l] = "queued" /\ phase'[l] = "rejected")
    BY <1>1 DEF Governor!QueueTimeout, Governor!Move, Governor!Awaiting
  <2>2. Gov!QueueTimeout(i)
    BY <1>1, SameGovernor
  <2> QED BY <2>1, <2>2, TimersKeepSlots, GovernorAssumed, Gov!QueueTimeoutKeepsInv,
             Gov!OthersKeepNoLeak
<1>2. ASSUME NEW p \in Profiles, Governor!IdleElapses(p)
      PROVE  SlotParts' /\ Gov!GovernorInv' /\ Gov!NoLeakInv'
  <2>1. UNCHANGED <<held, want, phase>>
    BY <1>2 DEF Governor!IdleElapses
  <2>2. Gov!IdleElapses(p)
    BY <1>2, SameGovernor
  <2> QED BY <2>1, <2>2, TimersKeepSlots, GovernorAssumed, Gov!IdleClockKeepsInv,
             Gov!OthersKeepNoLeak
<1>3. CASE Governor!Close
  <2>1. UNCHANGED <<held, want>> /\ \A l \in Launches :
          phase'[l] = phase[l] \/ (phase[l] = "queued" /\ phase'[l] = "rejected")
    BY <1>3 DEF Governor!Close, Governor!Move
  <2>2. Gov!Close
    BY <1>3, SameGovernor
  <2> QED BY <2>1, <2>2, TimersKeepSlots, GovernorAssumed, Gov!CloseKeepsInv,
             Gov!OthersKeepNoLeak
<1> QED BY <1>1, <1>2, <1>3

\* launchProfileInner begins with the slot its launch has got.
LEMMA EnterKeepsSlots ==
  ASSUME ManagerInv, NEW l \in Launches,
         ManagerTurn(LaunchMidway(l) \/ SlotMidway(l)), EnterWithSlot(l)
  PROVE  SlotParts'
<1> USE LifecycleAssumption
    DEF ManagerInv, SlotParts, LifecycleInv, TypeOK, OrNone, Calls, governor
<1>1. /\ at[l] = "new" /\ phase[l] = "admitted"
      /\ \E x \in {"lock", "throw"} : at' = [at EXCEPT ![l] = x]
      /\ UNCHANGED <<held, phase, want, reaping, live, crashAt, stopAt, target, server, restarts>>
  BY DEF EnterWithSlot, Enter, Goto, entries, notLaunch
<1>2. crashAt[l] = "none"
  BY <1>1 DEF CrashParts, EntryParts
<1>3. SlotMidway(l)
  BY <1>1 DEF SlotMidway
<1>4. Up' /\ WantsOwn' /\ Entered'
  BY <1>1 DEF Up, WantsOwn, Entered
<1>5. TurnsAlone'
  <2>1. \A k \in Launches : ~SlotMidway(k)'
    BY <1>1, <1>3 DEF TurnsAlone, SlotMidway
  <2>2. \A s \in Stops : ~ReapMidway(s)'
    BY <1>1, <1>3 DEF TurnsAlone, ReapMidway
  <2> QED BY <2>1, <2>2 DEF TurnsAlone
<1>6. ClientsSerial'
  <2>1. Busy(l)
    BY <1>1 DEF Busy, Acquiring
  <2>2. \A c \in Calls : Busy(c)' => Busy(c)
    BY <1>1, <2>1 DEF Busy, Acquiring, Working
  <2> QED BY <2>2 DEF ClientsSerial
<1>7. \A k \in Launches : (Holding(k)' <=> Holding(k)) /\ (Asking(k)' <=> Asking(k))
  BY <1>1, <1>2 DEF Holding, Owns, Releasing, Asking, LaunchHolds
<1>8. HolderAlone' /\ ReleaseParts'
  <2>1. settled' = settled
    BY DEF EnterWithSlot, Enter, entries
  <2> QED BY <1>1, <1>7, <2>1 DEF HolderAlone, ReleaseParts
<1>9. SlotInUse'
  BY <1>1, <1>7 DEF SlotInUse, Using
<1> QED BY <1>1, <1>4, <1>5, <1>6, <1>8, <1>9

\* A stop begins: a client's, or the idle reaper's.
LEMMA BeginStopKeepsSlots ==
  ASSUME ManagerInv, ~ClientsOverlap, NEW s \in Stops,
         ManagerTurn(StopMidway(s) \/ ReapMidway(s)), BeginStopNoted(s)
  PROVE  SlotParts' /\ Gov!GovernorInv' /\ Gov!NoLeakInv'
<1> USE LifecycleAssumption
    DEF ManagerInv, SlotParts, LifecycleInv, TypeOK, OrNone, Calls
<1>1. /\ stopAt[s] = "new"
      /\ \E x \in {"read", "unmanaged"} : stopAt' = [stopAt EXCEPT ![s] = x]
      /\ \E y \in OrNone(Launches) : target' = [target EXCEPT ![s] = y]
      /\ UNCHANGED <<held, phase, want, reaping, live, settled, crashAt, at, server, restarts>>
  BY DEF BeginStopNoted, BeginStop, StopGoto, notStop, Governor!NoteActivity
<1>2. Up' /\ WantsOwn' /\ Entered'
  BY <1>1 DEF Up, WantsOwn, Entered
<1>3. \A k \in Launches : ~SlotMidway(k)
  <2>1. CASE ReapMidway(s)
    BY <2>1 DEF TurnsAlone
  <2>2. CASE ~ReapMidway(s)
    BY <1>1, <2>2 DEF ManagerTurn, StopMidway
  <2> QED BY <2>1, <2>2
<1>4. \A t \in Stops \ {s} : ~ReapMidway(t)
  <2>1. CASE ReapMidway(s)
    BY <2>1 DEF TurnsAlone
  <2>2. CASE ~ReapMidway(s)
    BY <1>1, <2>2 DEF ManagerTurn, StopMidway
  <2> QED BY <2>1, <2>2
<1>5. TurnsAlone'
  <2>1. \A k \in Launches : ~SlotMidway(k)'
    BY <1>1, <1>3 DEF SlotMidway
  <2>2. \A t \in Stops : ~ReapMidway(t)'
    BY <1>1, <1>4 DEF ReapMidway
  <2> QED BY <2>1, <2>2 DEF TurnsAlone
<1>6. ClientsSerial'
  <2>1. \A c \in Calls : c # s => (Busy(c)' => Busy(c))
    BY <1>1 DEF Busy, Acquiring, Working
  <2>2. s \in Calls \ Reaps =>
          \A d \in Calls \ Reaps : ProfileOf[d] = ProfileOf[s] => ~Busy(d)
    <3>1. CASE s \in Reaps
      BY <3>1
    <3>2. CASE s \notin Reaps
      <4>1. MayCall(s)
        BY <3>2 DEF BeginStopNoted
      <4> QED BY <4>1 DEF MayCall, Busy
    <3> QED BY <3>1, <3>2
  <2> QED BY <2>1, <2>2 DEF ClientsSerial
<1>7. \A k \in Launches : (Holding(k)' <=> Holding(k)) /\ (Asking(k)' <=> Asking(k))
  BY <1>1 DEF Holding, Owns, Releasing, Asking, StopHolds, AckHolds
<1>8. HolderAlone'
  BY <1>7 DEF HolderAlone
<1>9. ReleaseParts'
  BY <1>1 DEF ReleaseParts
<1>10. SlotInUse'
  BY <1>1, <1>7 DEF SlotInUse, Using
<1>11. SlotParts'
  BY <1>1, <1>2, <1>5, <1>6, <1>8, <1>9, <1>10
<1>12. ProfileOf[s] \in Profiles /\ Gov!NoteActivity(ProfileOf[s])
  BY SameGovernor DEF BeginStopNoted
<1>13. Gov!GovernorInv' /\ Gov!NoLeakInv'
  BY <1>12, GovernorAssumed, Gov!IdleClockKeepsInv, Gov!OthersKeepNoLeak
<1> QED BY <1>11, <1>13

\* The idle callback has read the state of its profile.
LEMMA IdleFiresKeepsSlots ==
  ASSUME ManagerInv, NEW s \in Stops, ManagerTurn(FALSE), IdleFires(s)
  PROVE  SlotParts'
<1> USE DEF ManagerInv, SlotParts, governor, vars, memory
<1>1. /\ s \in Reaps /\ reaping' = reaping \cup {s}
      /\ UNCHANGED <<vars, governor>>
  BY DEF IdleFires
<1>2. TurnsAlone'
  <2>1. /\ NobodyMidway'
        /\ \A k \in Launches : ~SlotMidway(k)'
        /\ \A t \in Stops : ReapMidway(t)' => t = s
    BY <1>1 DEF ManagerTurn, NobodyMidway, LaunchMidway, CrashMidway, StopMidway,
       MonitorMidway, SlotMidway, ReapMidway
  <2> QED BY <2>1 DEF TurnsAlone
<1>3. ClientsSerial' /\ SlotInUse'
  BY <1>1 DEF ClientsSerial, Busy, Acquiring, Working, SlotInUse, Using, Holding, Owns,
     Releasing, Asking
<1>4. UNCHANGED <<vars, want>> /\ reaping' \in SUBSET Reaps
      /\ \A l \in Launches : phase'[l] # phase[l] => at[l] = "new"
  BY <1>1
<1> QED BY <1>2, <1>3, <1>4, QueueKeepsSlots

\* finalizeStop gives the slot back: by then nobody uses it.
LEMMA StopReleaseKeepsSlots ==
  ASSUME ManagerInv, NEW s \in Stops, ManagerTurn(StopMidway(s)), StopReleaseSlot(s)
  PROVE  SlotParts' /\ Gov!GovernorInv' /\ Gov!NoLeakInv'
<1> USE GovernorTyped, LifecycleAssumption
    DEF ManagerInv, LifecycleInv, TypeOK, OrNone, Calls
<1> DEFINE p == ProfileOf[s]
           l == target[s]
<1>1. /\ stopAt[s] = "release" /\ stopAt' = [stopAt EXCEPT ![s] = "done"]
      /\ UNCHANGED <<reaping, live, settled, target, crashAt, at, monitor, server, restarts>>
      /\ Governor!Release(p)
  BY DEF StopReleaseSlot, StopRelease, StopGoto, notStop, entries
<1>2. StopMidway(s) /\ p \in Profiles
  BY <1>1 DEF StopMidway
<1>3. /\ \A k \in Launches : ~SlotMidway(k)
      /\ \A t \in Stops : ~ReapMidway(t)
  BY <1>2 DEF SlotParts, TurnsAlone, NobodyMidway
<1>4. /\ \A k \in Launches : ~LaunchMidway(k) /\ ~CrashMidway(k)
      /\ \A t \in Stops \ {s} : ~StopMidway(t)
      /\ ~MonitorMidway
  BY <1>2 DEF OneMidway
<1>5. NobodyMidway'
  BY <1>1, <1>4 DEF NobodyMidway, LaunchMidway, CrashMidway, StopMidway, MonitorMidway
<1>6. /\ l \in Launches /\ ProfileOf[l] = p /\ at[l] = "done"
      /\ live[p] # l
      /\ Holding(l)
  BY <1>1 DEF SlotParts, ReleaseParts, StopParts, LiveParts, Holding, Releasing
<1>7. \A k \in Launches : phase'[k] = "admitted" => phase[k] = "admitted"
  BY <1>1, <1>2, ReleaseFacts
<1>8. \A k \in Launches : Holding(k)' => Holding(k)
  BY <1>1 DEF Holding, Owns, Releasing, StopHolds
<1>9. ~Holding(l)'
  BY <1>1, <1>4, <1>6 DEF Holding, Owns, Releasing, LaunchHolds, CrashHolds, StopHolds,
     StopMidway, CrashMidway
<1>10. ASSUME NEW k \in Launches, ProfileOf[k] = p PROVE ~Using(k)'
  <2>1. ~Holding(k)'
    <3>1. CASE k = l
      BY <1>1, <1>9, <3>1
    <3>2. CASE k # l
      <4>1. ~Holding(k)
        BY <1>6, <1>10, <3>2 DEF SlotParts, HolderAlone
      <4> QED BY <1>8, <4>1
    <3> QED BY <3>1, <3>2
  <2>2. ~Asking(k)'
    BY <1>1, <1>3, <1>4, <1>7 DEF Asking, LaunchMidway, SlotMidway
  <2> QED BY <2>1, <2>2 DEF Using
<1>11. ASSUME NEW k \in Launches, ProfileOf[k] # p PROVE Using(k)' <=> Using(k)
  <2>1. Holding(k)' <=> Holding(k)
    BY <1>1, <1>6, <1>11 DEF Holding, Owns, Releasing, StopHolds
  <2>2. phase'[k] = "admitted" <=> phase[k] = "admitted"
    BY <1>1, <1>2, ReleaseFacts
  <2>3. Asking(k)' <=> Asking(k)
    BY <1>1, <2>2 DEF Asking
  <2> QED BY <2>1, <2>3 DEF Using
<1>12. HolderAlone' /\ ReleaseParts'
  BY <1>1, <1>8 DEF SlotParts, HolderAlone, ReleaseParts
<1>13. \A c \in Calls : Working(c)' => Working(c)
  BY <1>1 DEF Working
<1>14. \A t \in Stops : stopAt'[t] = "new" <=> stopAt[t] = "new"
  BY <1>1
<1>15. SlotParts'
  BY <1>1, <1>2, <1>3, <1>5, <1>10, <1>11, <1>12, <1>13, <1>14, ReleaseKeepsSlots
<1>16. Gov!Release(p)
  BY <1>1, <1>2, SameGovernor
<1>17. Gov!GovernorInv' /\ Gov!NoLeakInv'
  BY <1>2, <1>16, GovernorAssumed, Gov!ReleaseKeepsInv, Gov!ReleaseKeepsNoLeak
<1> QED BY <1>15, <1>17

\* ... and so does handleCrash.
LEMMA CrashReleaseKeepsSlots ==
  ASSUME ManagerInv, NEW l \in Launches, ManagerTurn(CrashMidway(l)), CrashReleaseSlot(l)
  PROVE  SlotParts' /\ Gov!GovernorInv' /\ Gov!NoLeakInv'
<1> USE GovernorTyped, LifecycleAssumption
    DEF ManagerInv, LifecycleInv, TypeOK, OrNone, Calls
<1> DEFINE p == ProfileOf[l]
<1>1. /\ crashAt[l] = "release" /\ crashAt' = [crashAt EXCEPT ![l] = "done"]
      /\ UNCHANGED <<reaping, live, settled, target, stopAt, at, monitor, server, restarts>>
      /\ Governor!Release(p)
  BY DEF CrashReleaseSlot, CrashRelease, CrashGoto, notCrash, entries
<1>2. CrashMidway(l) /\ p \in Profiles
  BY <1>1 DEF CrashMidway
<1>3. /\ \A k \in Launches : ~SlotMidway(k)
      /\ \A t \in Stops : ~ReapMidway(t)
  BY <1>2 DEF SlotParts, TurnsAlone, NobodyMidway
<1>4. /\ \A k \in Launches : ~LaunchMidway(k)
      /\ \A k \in Launches \ {l} : ~CrashMidway(k)
      /\ \A t \in Stops : ~StopMidway(t)
      /\ ~MonitorMidway
  BY <1>2 DEF OneMidway
<1>5. NobodyMidway'
  BY <1>1, <1>4 DEF NobodyMidway, LaunchMidway, CrashMidway, StopMidway, MonitorMidway
<1>6. live[p] # l /\ Holding(l)
  <2>1. l \in settled
    BY <1>1 DEF CrashParts
  <2>2. live[p] # l
    BY <1>2, <2>1 DEF LiveParts
  <2> QED BY <1>1, <2>2 DEF Holding, Releasing
<1>7. \A k \in Launches : phase'[k] = "admitted" => phase[k] = "admitted"
  BY <1>1, <1>2, ReleaseFacts
<1>8. \A k \in Launches : Holding(k)' => Holding(k)
  BY <1>1 DEF Holding, Owns, Releasing, CrashHolds
<1>9. ~Holding(l)'
  BY <1>1, <1>4, <1>6 DEF Holding, Owns, Releasing, CrashHolds, StopHolds, StopMidway
<1>10. ASSUME NEW k \in Launches, ProfileOf[k] = p PROVE ~Using(k)'
  <2>1. ~Holding(k)'
    <3>1. CASE k = l
      BY <1>9, <3>1
    <3>2. CASE k # l
      <4>1. ~Holding(k)
        BY <1>6, <1>10, <3>2 DEF SlotParts, HolderAlone
      <4> QED BY <1>8, <4>1
    <3> QED BY <3>1, <3>2
  <2>2. ~Asking(k)'
    BY <1>1, <1>3, <1>4, <1>7 DEF Asking, LaunchMidway, SlotMidway
  <2> QED BY <2>1, <2>2 DEF Using
<1>11. ASSUME NEW k \in Launches, ProfileOf[k] # p PROVE Using(k)' <=> Using(k)
  <2>1. Holding(k)' <=> Holding(k)
    BY <1>1, <1>11 DEF Holding, Owns, Releasing, CrashHolds
  <2>2. phase'[k] = "admitted" <=> phase[k] = "admitted"
    BY <1>1, <1>2, ReleaseFacts
  <2>3. Asking(k)' <=> Asking(k)
    BY <1>1, <1>11, <2>2 DEF Asking
  <2> QED BY <2>1, <2>3 DEF Using
<1>12. HolderAlone' /\ ReleaseParts'
  BY <1>1, <1>8 DEF SlotParts, HolderAlone, ReleaseParts
<1>13. \A c \in Calls : Working(c)' => Working(c)
  BY <1>1 DEF Working
<1>14. SlotParts'
  BY <1>1, <1>2, <1>3, <1>5, <1>10, <1>11, <1>12, <1>13, ReleaseKeepsSlots
<1>15. Gov!Release(p)
  BY <1>1, <1>2, SameGovernor
<1>16. Gov!GovernorInv' /\ Gov!NoLeakInv'
  BY <1>2, <1>15, GovernorAssumed, Gov!ReleaseKeepsInv, Gov!ReleaseKeepsNoLeak
<1> QED BY <1>14, <1>16

\* The catch of launchProfile gives the slot back when the profile is not live:
\* the client has no other call on it, so nobody else uses it.
LEMMA ThrowKeepsSlots ==
  ASSUME ManagerInv, NEW l \in Launches,
         ManagerTurn(LaunchMidway(l) \/ SlotMidway(l)), ThrowSlot(l)
  PROVE  SlotParts' /\ Gov!GovernorInv' /\ Gov!NoLeakInv'
<1> USE GovernorTyped, LifecycleAssumption
    DEF ManagerInv, LifecycleInv, TypeOK, OrNone, Calls
<1> DEFINE p == ProfileOf[l]
<1>1. /\ at[l] = "throw" /\ at' = [at EXCEPT ![l] = "failed"]
      /\ UNCHANGED <<reaping, live, settled, target, stopAt, crashAt, monitor, server, restarts>>
  BY DEF ThrowSlot, Throw, Goto, notLaunch, entries
<1>2. LaunchMidway(l) /\ p \in Profiles
  BY <1>1 DEF LaunchMidway
<1>3. /\ \A k \in Launches : ~SlotMidway(k)
      /\ \A t \in Stops : ~ReapMidway(t)
  BY <1>2 DEF SlotParts, TurnsAlone, NobodyMidway
<1>4. /\ \A k \in Launches : ~CrashMidway(k)
      /\ \A k \in Launches \ {l} : ~LaunchMidway(k)
      /\ \A t \in Stops : ~StopMidway(t)
      /\ ~MonitorMidway
  BY <1>2 DEF OneMidway
<1>5. NobodyMidway'
  BY <1>1, <1>4 DEF NobodyMidway, LaunchMidway, CrashMidway, StopMidway, MonitorMidway
<1>6. \A k \in Launches : Holding(k)' <=> Holding(k)
  BY <1>1 DEF Holding, Owns, Releasing, LaunchHolds
<1>7. HolderAlone' /\ ReleaseParts'
  BY <1>1, <1>6 DEF SlotParts, HolderAlone, ReleaseParts
<1>8. \A c \in Calls : Working(c)' => Working(c)
  BY <1>1 DEF Working
<1>9. CASE live[p] = NoOne
  <2>1. Governor!Release(p)
    BY <1>9 DEF ThrowSlot
  <2>2. \A k \in Launches : phase'[k] = "admitted" <=> phase[k] = "admitted"
    BY <1>2, <2>1, ReleaseFacts
  <2>3. ASSUME NEW k \in Launches, ProfileOf[k] = p PROVE ~Using(k)'
    <3>1. ~Asking(k)'
      BY <1>1, <1>3, <1>4, <2>2 DEF Asking, LaunchMidway, SlotMidway
    <3>2. ASSUME at[k] \in LaunchHolds PROVE FALSE
      <4>1. Working(k) /\ Working(l) /\ k # l
        BY <1>1, <3>2 DEF Working, LaunchHolds
      <4>2. k \in Calls \ Reaps /\ l \in Calls \ Reaps
        BY ManagerAssumption
      <4> QED BY <2>3, <4>1, <4>2 DEF SlotParts, ClientsSerial, Busy
    <3>3. ~Owns(k)
      BY <1>4, <1>9, <2>3, <3>2 DEF Owns, CrashHolds, StopHolds, CrashMidway, StopMidway
    <3>4. ~Releasing(k)
      BY <1>4 DEF Releasing, CrashMidway, StopMidway
    <3> QED BY <1>6, <3>1, <3>3, <3>4 DEF Using, Holding
  <2>4. ASSUME NEW k \in Launches, ProfileOf[k] # p PROVE Using(k)' <=> Using(k)
    <3>1. Asking(k)' <=> Asking(k)
      BY <1>1, <2>2, <2>4 DEF Asking
    <3> QED BY <1>6, <3>1 DEF Using
  <2>5. \A k \in Launches : at'[k] = "new" <=> at[k] = "new"
    BY <1>1
  <2>6. SlotParts'
    BY <1>1, <1>2, <1>3, <1>5, <1>7, <1>8, <2>1, <2>3, <2>4, <2>5, ReleaseKeepsSlots
  <2>7. Gov!Release(p)
    BY <1>2, <2>1, SameGovernor
  <2>8. Gov!GovernorInv' /\ Gov!NoLeakInv'
    BY <1>2, <2>7, GovernorAssumed, Gov!ReleaseKeepsInv, Gov!ReleaseKeepsNoLeak
  <2> QED BY <2>6, <2>8
<1>10. CASE live[p] # NoOne
  <2>1. UNCHANGED governor
    BY <1>10 DEF ThrowSlot
  <2>2. UNCHANGED <<held, phase, want>>
    BY <2>1 DEF governor
  <2>3. PICK k \in Launches : ProfileOf[k] = p /\ Holding(k) /\ Holding(k)'
    <3>1. live[p] \in Launches /\ ProfileOf[live[p]] = p
      BY <1>2, <1>10 DEF LiveParts
    <3>2. Holding(live[p])
      BY <3>1 DEF Holding, Owns
    <3> QED BY <1>6, <3>1, <3>2
  <2>4. \A j \in Launches : j # l => (Using(j)' <=> Using(j))
    BY <1>1, <1>6, <2>2 DEF Using, Asking
  <2>5. SlotInUse'
    <3>1. ASSUME NEW q \in Profiles
          PROVE  (\E j \in Launches : ProfileOf[j] = q /\ Using(j)')
                 <=> (\E j \in Launches : ProfileOf[j] = q /\ Using(j))
      <4>1. CASE q = p
        BY <2>3, <4>1 DEF Using
      <4>2. CASE q # p
        BY <2>4, <4>2
      <4> QED BY <4>1, <4>2
    <3> QED BY <2>2, <3>1 DEF SlotParts, SlotInUse
  <2>6. Up' /\ restarts' = 0 /\ reaping' \in SUBSET Reaps /\ WantsOwn' /\ Entered'
    BY <1>1, <2>2 DEF SlotParts, Up, WantsOwn, Entered
  <2>7. TurnsAlone'
    <3>1. /\ \A j \in Launches : ~SlotMidway(j)'
          /\ \A t \in Stops : ~ReapMidway(t)'
      BY <1>1, <1>3, <2>2 DEF SlotMidway, ReapMidway
    <3> QED BY <3>1 DEF TurnsAlone
  <2>8. ClientsSerial'
    <3>1. \A c \in Calls : Busy(c)' => Busy(c)
      BY <1>1, <1>8, <2>2 DEF Busy, Acquiring
    <3> QED BY <3>1 DEF SlotParts, ClientsSerial
  <2>9. SlotParts'
    BY <1>7, <2>5, <2>6, <2>7, <2>8 DEF SlotParts
  <2>10. UNCHANGED Gov!governor
    BY <2>1 DEF governor, Gov!governor
  <2>11. Gov!GovernorInv' /\ Gov!NoLeakInv'
    BY <2>10, GovernorAssumed, Gov!GovernorStep, Gov!OthersKeepNoLeak
  <2> QED BY <2>9, <2>11
<1> QED BY <1>9, <1>10

-----------------------------------------------------------------------------
(* Every step of the manager.                                               *)

\* Nobody overtakes a launch or an idle callback that is about to go on.
LEMMA TurnIsFree ==
  ASSUME SlotParts, NEW midway, ManagerTurn(midway), midway => ~NobodyMidway
  PROVE  /\ Turn(midway)
         /\ \A l \in Launches : ~SlotMidway(l)
         /\ \A s \in Stops : ~ReapMidway(s)
BY DEF SlotParts, TurnsAlone, ManagerTurn, Turn

\* For the lifecycle, a step of the manager is one of its own or none.
LEMMA StepIsLifecycleStep ==
  ASSUME SlotParts, [ManagerNext]_managerVars
  PROVE  [Next]_vars
<1>1. ASSUME NEW l \in Launches, ManagerTurn(LaunchMidway(l) \/ SlotMidway(l)),
             AcquireSlot(l) \/ EnterWithSlot(l) \/ ThrowSlot(l)
      PROVE  [Next]_vars
  <2>1. Turn(LaunchMidway(l))
    BY <1>1 DEF SlotParts, TurnsAlone, ManagerTurn, Turn
  <2> QED BY <1>1, <2>1 DEF AcquireSlot, EnterWithSlot, ThrowSlot, Next
<1>2. ASSUME NEW l \in Launches, ManagerTurn(CrashMidway(l)), CrashReleaseSlot(l)
      PROVE  [Next]_vars
  <2>1. Turn(CrashMidway(l)) /\ CrashRelease(l)
    BY <1>2 DEF SlotParts, ManagerTurn, Turn, CrashReleaseSlot
  <2> QED BY <2>1 DEF Next
<1>3. ASSUME NEW s \in Stops, ManagerTurn(StopMidway(s) \/ ReapMidway(s)), BeginStopNoted(s)
      PROVE  [Next]_vars
  <2>1. Turn(StopMidway(s)) /\ BeginStop(s)
    BY <1>3 DEF SlotParts, TurnsAlone, ManagerTurn, Turn, BeginStopNoted
  <2> QED BY <2>1 DEF Next
<1>4. ASSUME NEW s \in Stops, ManagerTurn(StopMidway(s)), StopReleaseSlot(s)
      PROVE  [Next]_vars
  <2>1. Turn(StopMidway(s)) /\ StopRelease(s)
    BY <1>4 DEF SlotParts, ManagerTurn, Turn, StopReleaseSlot
  <2> QED BY <2>1 DEF Next
<1>5. CASE Queue \/ CloseGovernor \/ \E s \in Stops : IdleFires(s)
  BY <1>5 DEF Queue, CloseGovernor, IdleFires
<1>6. ASSUME NEW l \in Launches,
             \/ ManagerTurn(LaunchMidway(l)) /\ Launch(l)
             \/ ManagerTurn(CrashMidway(l)) /\ Crash(l)
             \/ ManagerTurn(FALSE) /\ ExitEvent(l)
             \/ BrowserDies(l)
      PROVE  [Next]_vars
  <2>1. \/ Turn(LaunchMidway(l)) /\ Launch(l)
        \/ Turn(CrashMidway(l)) /\ Crash(l)
        \/ Turn(FALSE) /\ ExitEvent(l)
        \/ BrowserDies(l)
    BY <1>6 DEF SlotParts, ManagerTurn, Turn
  <2> QED BY <2>1 DEF Next
<1>7. ASSUME NEW s \in Stops, ManagerTurn(StopMidway(s)), Stop(s)
      PROVE  [Next]_vars
  <2>1. Turn(StopMidway(s))
    BY <1>7 DEF SlotParts, ManagerTurn, Turn
  <2> QED BY <1>7, <2>1 DEF Next
<1>8. ASSUME NEW p \in Profiles, (ManagerTurn(FALSE) /\ Heartbeat(p)) \/ LockAges(p)
      PROVE  [Next]_vars
  <2>1. (Turn(FALSE) /\ Heartbeat(p)) \/ LockAges(p)
    BY <1>8 DEF SlotParts, ManagerTurn, Turn
  <2> QED BY <2>1 DEF Next
<1>9. CASE \/ ManagerTurn(FALSE) /\ MonitorStarts
           \/ ManagerTurn(MonitorMidway) /\ Monitor
  <2>1. (Turn(FALSE) /\ MonitorStarts) \/ (Turn(MonitorMidway) /\ Monitor)
    BY <1>9 DEF SlotParts, ManagerTurn, Turn
  <2> QED BY <2>1 DEF Next
<1>10. CASE UNCHANGED managerVars
  BY <1>10 DEF managerVars
<1> QED BY <1>1, <1>2, <1>3, <1>4, <1>5, <1>6, <1>7, <1>8, <1>9, <1>10 DEF ManagerNext

\* Hence the lifecycle keeps its invariant.
LEMMA LifecycleKept ==
  ASSUME Orderly, ManagerInv, [ManagerNext]_managerVars
  PROVE  LifecycleInv'
<1>1. [Next]_vars
  BY StepIsLifecycleStep DEF ManagerInv
<1>2. TypeOK /\ StopsHaveTarget /\ LifecycleInv
  BY DEF ManagerInv, LifecycleInv, StopParts, StopsHaveTarget
<1>3. TypeOK'
  BY <1>1, <1>2, TypesStep
<1> QED BY <1>1, <1>2, <1>3, StepKeeps

\* A step of the lifecycle that leaves the governor alone.
LEMMA LifecycleStepKeepsSlots ==
  ASSUME Orderly, ManagerInv, LifecycleInv', UNCHANGED <<governor, reaping>>,
         \/ \E l \in Launches : \/ ManagerTurn(LaunchMidway(l)) /\ Launch(l)
                                \/ ManagerTurn(CrashMidway(l)) /\ Crash(l)
                                \/ ManagerTurn(FALSE) /\ ExitEvent(l)
                                \/ BrowserDies(l)
         \/ \E s \in Stops : ManagerTurn(StopMidway(s)) /\ Stop(s)
         \/ \E p \in Profiles : (ManagerTurn(FALSE) /\ Heartbeat(p)) \/ LockAges(p)
         \/ ManagerTurn(FALSE) /\ MonitorStarts
         \/ ManagerTurn(MonitorMidway) /\ Monitor
  PROVE  SlotParts'
<1> USE DEF governor
<1>1. LifecycleInv /\ SlotParts /\ HolderAlone /\ ReleaseParts
  BY DEF ManagerInv, SlotParts
<1>2. ASSUME PlainStep,
             \A l \in Launches : ~SlotMidway(l),
             \A s \in Stops : ~ReapMidway(s)
      PROVE  SlotParts'
  <2>1. TurnsAlone'
    BY <1>2 DEF PlainStep, TurnsAlone, SlotMidway, ReapMidway
  <2> QED BY <1>2, <2>1, PlainStepKeeps
<1>3. ASSUME NEW l \in Launches, ManagerTurn(LaunchMidway(l)), Launch(l)
      PROVE  SlotParts'
  <2>1. LaunchMidway(l) => ~NobodyMidway
    BY DEF NobodyMidway
  <2> QED BY <1>1, <1>2, <1>3, <2>1, TurnIsFree, LaunchIsPlain
<1>4. ASSUME NEW l \in Launches, ManagerTurn(CrashMidway(l)), Crash(l)
      PROVE  SlotParts'
  <2>1. CrashMidway(l) => ~NobodyMidway
    BY DEF NobodyMidway
  <2> QED BY <1>1, <1>2, <1>4, <2>1, TurnIsFree, CrashIsPlain
<1>5. ASSUME NEW s \in Stops, ManagerTurn(StopMidway(s)), Stop(s)
      PROVE  SlotParts'
  <2>1. StopMidway(s) => ~NobodyMidway
    BY DEF NobodyMidway
  <2> QED BY <1>1, <1>2, <1>5, <2>1, TurnIsFree, StopIsPlain
<1>6. ASSUME ManagerTurn(FALSE),
             \/ \E l \in Launches : ExitEvent(l)
             \/ \E p \in Profiles : Heartbeat(p)
             \/ MonitorStarts
      PROVE  SlotParts'
  <2>1. NobodyMidway
    BY <1>6 DEF ManagerTurn
  <2>2. PlainStep
    BY <1>1, <1>6, <2>1, WorldIsPlain
  <2> QED BY <1>2, <1>6, <2>2 DEF ManagerTurn
<1>7. ASSUME ManagerTurn(MonitorMidway), Monitor
      PROVE  SlotParts'
  <2>1. MonitorMidway \/ NobodyMidway
    BY <1>7 DEF ManagerTurn
  <2>2. PlainStep
    BY <1>1, <1>7, <2>1, WorldIsPlain
  <2>3. MonitorMidway => ~NobodyMidway
    BY DEF NobodyMidway
  <2> QED BY <1>1, <1>2, <1>7, <2>2, <2>3, TurnIsFree
<1>8. ASSUME (\E l \in Launches : BrowserDies(l)) \/ (\E p \in Profiles : LockAges(p))
      PROVE  SlotParts'
  <2>1. PlainStep
    BY <1>1, <1>8, WorldIsPlain
  <2>2. UNCHANGED <<at, crashAt, stopAt, monitor>>
    BY <1>8 DEF BrowserDies, LockAges, notLaunch, memory
  <2>3. TurnsAlone'
    BY <1>1, <2>2 DEF SlotParts, TurnsAlone, SlotMidway, ReapMidway, NobodyMidway,
       LaunchMidway, CrashMidway, StopMidway, MonitorMidway
  <2> QED BY <2>1, <2>3, PlainStepKeeps
<1> QED BY <1>3, <1>4, <1>5, <1>6, <1>7, <1>8

\* While the governor does nothing, its invariants stay.
LEMMA GovernorRests ==
  ASSUME ManagerInv, UNCHANGED governor
  PROVE  Gov!GovernorInv' /\ Gov!NoLeakInv'
<1>1. UNCHANGED Gov!governor
  BY DEF governor, Gov!governor
<1> QED BY <1>1, GovernorAssumed, Gov!GovernorStep, Gov!OthersKeepNoLeak DEF ManagerInv

\* No step of the manager breaks its invariant.
LEMMA ManagerStepKeeps ==
  ASSUME Orderly, ~ClientsOverlap, ManagerInv, [ManagerNext]_managerVars
  PROVE  ManagerInv'
<1>1. LifecycleInv'
  BY LifecycleKept
<1> SUFFICES SlotParts' /\ Gov!GovernorInv' /\ Gov!NoLeakInv'
  BY <1>1 DEF ManagerInv
<1>2. ASSUME NEW l \in Launches, ManagerTurn(LaunchMidway(l) \/ SlotMidway(l)),
             AcquireSlot(l) \/ EnterWithSlot(l) \/ ThrowSlot(l)
      PROVE  SlotParts' /\ Gov!GovernorInv' /\ Gov!NoLeakInv'
  <2>1. CASE AcquireSlot(l)
    BY <1>2, <2>1, AcquireKeepsSlots
  <2>2. CASE EnterWithSlot(l)
    <3>1. UNCHANGED governor
      BY <2>2 DEF EnterWithSlot
    <3> QED BY <1>2, <2>2, <3>1, EnterKeepsSlots, GovernorRests
  <2>3. CASE ThrowSlot(l)
    BY <1>2, <2>3, ThrowKeepsSlots
  <2> QED BY <1>2, <2>1, <2>2, <2>3
<1>3. ASSUME NEW l \in Launches, ManagerTurn(CrashMidway(l)), CrashReleaseSlot(l)
      PROVE  SlotParts' /\ Gov!GovernorInv' /\ Gov!NoLeakInv'
  BY <1>3, CrashReleaseKeepsSlots
<1>4. ASSUME NEW s \in Stops, ManagerTurn(StopMidway(s) \/ ReapMidway(s)), BeginStopNoted(s)
      PROVE  SlotParts' /\ Gov!GovernorInv' /\ Gov!NoLeakInv'
  BY <1>4, BeginStopKeepsSlots
<1>5. ASSUME NEW s \in Stops, ManagerTurn(StopMidway(s)), StopReleaseSlot(s)
      PROVE  SlotParts' /\ Gov!GovernorInv' /\ Gov!NoLeakInv'
  BY <1>5, StopReleaseKeepsSlots
<1>6. ASSUME NEW s \in Stops, ManagerTurn(FALSE), IdleFires(s)
      PROVE  SlotParts' /\ Gov!GovernorInv' /\ Gov!NoLeakInv'
  <2>1. UNCHANGED governor
    BY <1>6 DEF IdleFires
  <2> QED BY <1>6, <2>1, IdleFiresKeepsSlots, GovernorRests
<1>7. CASE Queue
  <2>1. UNCHANGED <<vars, reaping>>
    BY <1>7 DEF Queue
  <2>2. ASSUME NEW l \in Launches, ManagerTurn(FALSE), Governor!DiskChecked(l)
        PROVE  SlotParts' /\ Gov!GovernorInv' /\ Gov!NoLeakInv'
    BY <2>1, <2>2, DiskCheckedKeepsSlots
  <2>3. ASSUME NEW l \in Launches, ManagerTurn(SlotMidway(l)), Governor!Resume(l)
        PROVE  SlotParts' /\ Gov!GovernorInv' /\ Gov!NoLeakInv'
    BY <2>1, <2>3, ResumeKeepsSlots
  <2>4. CASE \/ \E i \in DOMAIN waiting : Governor!QueueTimeout(i)
             \/ \E p \in Profiles : Governor!IdleElapses(p)
    BY <2>1, <2>4, OtherQueueStepsKeep
  <2> QED BY <1>7, <2>2, <2>3, <2>4 DEF Queue
<1>8. CASE CloseGovernor
  BY <1>8, OtherQueueStepsKeep DEF CloseGovernor
<1>9. ASSUME UNCHANGED <<governor, reaping>>,
         \/ \E l \in Launches : \/ ManagerTurn(LaunchMidway(l)) /\ Launch(l)
                                \/ ManagerTurn(CrashMidway(l)) /\ Crash(l)
                                \/ ManagerTurn(FALSE) /\ ExitEvent(l)
                                \/ BrowserDies(l)
         \/ \E s \in Stops : ManagerTurn(StopMidway(s)) /\ Stop(s)
         \/ \E p \in Profiles : (ManagerTurn(FALSE) /\ Heartbeat(p)) \/ LockAges(p)
         \/ ManagerTurn(FALSE) /\ MonitorStarts
         \/ ManagerTurn(MonitorMidway) /\ Monitor
      PROVE  SlotParts' /\ Gov!GovernorInv' /\ Gov!NoLeakInv'
  <2>1. SlotParts'
    BY <1>1, <1>9, LifecycleStepKeepsSlots
  <2> QED BY <1>9, <2>1, GovernorRests
<1>10. CASE UNCHANGED managerVars
  <2>1. /\ UNCHANGED <<vars, reaping, held, want>>
        /\ \A l \in Launches : phase'[l] = phase[l]
        /\ UNCHANGED governor
    BY <1>10 DEF managerVars, governor
  <2> QED BY <2>1, TimersKeepSlots, GovernorRests
<1> QED BY <1>2, <1>3, <1>4, <1>5, <1>6, <1>7, <1>8, <1>9, <1>10 DEF ManagerNext

\* The manager starts with nothing under way and no slot given out.
LEMMA ManagerInitEstablishes == ManagerInit => ManagerInv
<1> SUFFICES ASSUME ManagerInit PROVE ManagerInv
  OBVIOUS
<1> USE LifecycleAssumption, ManagerAssumption
<1>1. LifecycleInv
  BY InitEstablishes DEF ManagerInit
<1>2. Gov!Init
  BY DEF ManagerInit, Governor!Init, Gov!Init
<1>3. Gov!GovernorInv /\ Gov!NoLeakInv
  BY <1>2, GovernorAssumed, Gov!GovernorInit, Gov!NoLeakInit
<1>4. /\ at = [l \in Launches |-> "new"] /\ stopAt = [s \in Stops |-> "new"]
      /\ crashAt = [l \in Launches |-> "none"]
      /\ live = [p \in Profiles |-> NoOne]
      /\ phase = [l \in Launches |-> "none"] /\ held = {} /\ reaping = {}
      /\ restarts = 0 /\ Up
  BY DEF ManagerInit, Init, Governor!Init, Up
<1>5. \A c \in Calls : ~Busy(c)
  BY <1>4 DEF Busy, Working, Acquiring, Calls
<1>6. \A l \in Launches : ~Holding(l) /\ ~Using(l)
  BY <1>4 DEF Using, Asking, Holding, Owns, Releasing, LaunchHolds, CrashHolds,
     StopHolds
<1>7. TurnsAlone /\ Entered /\ ReleaseParts
  BY <1>4 DEF TurnsAlone, SlotMidway, ReapMidway, Entered, ReleaseParts
<1>8. WantsOwn
  BY DEF ManagerInit, WantsOwn
<1>9. ClientsSerial /\ HolderAlone /\ SlotInUse
  BY <1>4, <1>5, <1>6 DEF ClientsSerial, HolderAlone, SlotInUse
<1> QED BY <1>1, <1>3, <1>4, <1>7, <1>8, <1>9 DEF ManagerInv, SlotParts

\* The invariant of the composition holds throughout, as long as no client has
\* two calls on one profile under way; the idle reaper may still stop what a
\* client is launching or stopping.
THEOREM ManagerInvariant ==
  ASSUME Orderly, ~ClientsOverlap
  PROVE  ManagerSpec => []ManagerInv
<1>1. ManagerInv /\ [ManagerNext]_managerVars => ManagerInv'
  BY ManagerStepKeeps
<1> QED BY <1>1, ManagerInitEstablishes, PTL DEF ManagerSpec

\* The manager with its governor still is the lifecycle: acquire(), release()
\* and the idle reaper put no step before one that is midway, so whatever is
\* proved of ProfileLifecycle holds in the server as it is wired up.
THEOREM ManagerIsLifecycle ==
  ASSUME Orderly, ~ClientsOverlap
  PROVE  ManagerSpec => Spec
<1>1. ManagerInit => Init
  BY DEF ManagerInit
<1>2. ManagerInv /\ [ManagerNext]_managerVars => [Next]_vars
  BY StepIsLifecycleStep DEF ManagerInv
<1> QED BY <1>1, <1>2, ManagerInvariant, PTL DEF ManagerSpec, Spec

\* A browser that runs has the slot of its profile.
LEMMA AliveHasSlot == ManagerInv => BrowserHoldsSlot
<1> SUFFICES ASSUME ManagerInv, NEW l \in Alive PROVE ProfileOf[l] \in held
  BY DEF BrowserHoldsSlot
<1> USE LifecycleAssumption DEF ManagerInv, LifecycleInv, SlotParts
<1>1. l \in Launches /\ browser[l] = "alive"
  BY DEF Alive
<1>2. at[l] \in {"cdp", "session"} \/ live[ProfileOf[l]] = l
  BY <1>1 DEF AliveOwned
<1>3. at[l] \in {"cdp", "session"} => crashAt[l] = "none"
  BY <1>1 DEF CrashParts, EntryParts, TypeOK
<1>4. Using(l)
  BY <1>1, <1>2, <1>3 DEF Using, Holding, Owns, LaunchHolds
<1> QED BY <1>1, <1>4 DEF SlotInUse

\* A browser never runs without a slot: the slot is given back only once the
\* browser is gone, whoever ends the session.
THEOREM BrowsersHoldSlots ==
  ASSUME Orderly, ~ClientsOverlap
  PROVE  ManagerSpec => []BrowserHoldsSlot
BY AliveHasSlot, ManagerInvariant, PTL

\* The cap counts browsers: with one browser to a profile, and a slot held for
\* each, the governor's bookkeeping bounds the Chromium processes themselves.
THEOREM CapBoundsBrowsers ==
  ASSUME Orderly, ~ClientsOverlap
  PROVE  ManagerSpec => []BrowsersWithinCap
<1>1. ManagerInv => BrowsersWithinCap
  <2> SUFFICES ASSUME ManagerInv PROVE Cardinality(Alive) <= MaxConcurrent
    BY DEF BrowsersWithinCap
  <2> USE LifecycleAssumption, ManagerAssumption DEF ManagerInv
  <2> DEFINE f == [l \in Alive |-> ProfileOf[l]]
  <2>1. f \in Injection(Alive, held)
    <3>1. \A l \in Alive : ProfileOf[l] \in held
      BY AliveHasSlot DEF BrowserHoldsSlot
    <3>2. \A k, l \in Alive : ProfileOf[k] = ProfileOf[l] => k = l
      BY DEF Alive, LifecycleInv, OneBrowser
    <3> QED BY <3>1, <3>2 DEF Injection, IsInjective
  <2>2. IsFiniteSet(held)
    BY GovernorTyped, FS_Subset
  <2>3. Cardinality(Alive) <= Cardinality(held)
    BY <2>1, <2>2, FS_Injection
  <2>4. Alive \in SUBSET Launches
    BY DEF Alive
  <2>5. Cardinality(Alive) \in Nat /\ Cardinality(held) \in Nat
    BY <2>2, <2>4, FS_Subset, FS_CardinalityType
  <2>6. Gov!TypeOK
    BY DEF Gov!GovernorInv
  <2>7. Gov!Cardinality(Gov!Granted) \in Nat
    BY <2>6, GovernorAssumed, Gov!FiniteOwners
  <2>8. /\ Gov!Cardinality(held) + Gov!Cardinality(Gov!Granted) <= runningCount
        /\ runningCount \in 0 .. MaxConcurrent
    BY DEF Gov!GovernorInv, Gov!SlotsCoverHolders, Gov!TypeOK
  <2>9. Gov!Cardinality(held) = Cardinality(held)
    BY DEF Gov!Cardinality, Cardinality
  <2> QED BY <2>3, <2>5, <2>7, <2>8, <2>9
<1> QED BY <1>1, ManagerInvariant, PTL

\* Every slot comes back: one that is given out has its profile live, or a call
\* or a crash handler at work on it that will give it back.
THEOREM SlotsComeBack ==
  ASSUME Orderly, ~ClientsOverlap
  PROVE  ManagerSpec => []EverySlotComesBack
<1>1. ManagerInv => EverySlotComesBack
  <2> SUFFICES ASSUME ManagerInv PROVE EverySlotComesBack
    OBVIOUS
  <2> USE LifecycleAssumption DEF ManagerInv, LifecycleInv, Calls
  <2>1. Governor!NoLeakedSlot
    BY DEF Gov!NoLeakInv, Gov!NoLeakedSlot, Governor!NoLeakedSlot, Gov!Granted,
       Governor!Granted, Gov!Cardinality, Governor!Cardinality
  <2>2. ASSUME NEW p \in held
        PROVE  \/ live[p] # NoOne
               \/ \E c \in Calls : ProfileOf[c] = p /\ (Working(c) \/ Acquiring(c))
               \/ \E l \in Launches : ProfileOf[l] = p /\ crashAt[l] \notin {"none", "done"}
    <3>1. PICK l \in Launches : ProfileOf[l] = p /\ Using(l)
      BY GovernorTyped DEF SlotParts, SlotInUse
    <3>2. CASE live[p] = l
      BY <3>1, <3>2
    <3>3. CASE at[l] \in LaunchHolds \cup {"lock", "throw"}
      BY <3>1, <3>3 DEF Working, LaunchHolds
    <3>4. CASE crashAt[l] \in CrashHolds \cup {"release"}
      BY <3>1, <3>4 DEF CrashHolds
    <3>5. ASSUME NEW s \in Stops, target[s] = l, stopAt[s] \in StopHolds \cup {"release"}
          PROVE  \E c \in Calls : ProfileOf[c] = p /\ Working(c)
      <4>1. ProfileOf[s] = p
        BY <3>1, <3>5 DEF StopParts
      <4>2. s \notin Launches /\ Working(s)
        BY <3>5 DEF Working, StopHolds
      <4> QED BY <4>1, <4>2
    <3>6. CASE at[l] = "new" /\ phase[l] = "admitted"
      BY <3>1, <3>6 DEF Acquiring
    <3>7. l \notin Stops
      OBVIOUS
    <3> QED BY <3>1, <3>2, <3>3, <3>4, <3>5, <3>6, <3>7
          DEF Using, Holding, Owns, Releasing, Asking
  <2> QED BY <2>1, <2>2 DEF EverySlotComesBack
<1> QED BY <1>1, ManagerInvariant, PTL

\* With its governor, too, the manager never runs two browsers on a profile.
COROLLARY ManagedBrowsersExclusive ==
  ASSUME Orderly, ~ClientsOverlap
  PROVE  ManagerSpec => []OneBrowser
BY ManagerIsLifecycle, BrowsersExclusive, PTL

\* For the governor, a step of the manager is one of its own or none.
LEMMA StepIsGovernorStep ==
  ASSUME [ManagerNext]_managerVars
  PROVE  [Gov!Next]_Gov!governor
<1>1. UNCHANGED governor => UNCHANGED Gov!governor
  BY DEF governor, Gov!governor
<1>2. ASSUME NEW p \in Profiles, Gov!Release(p) \/ Gov!NoteActivity(p) \/ Gov!IdleElapses(p)
      PROVE  Gov!Next
  BY <1>2 DEF Gov!Next
<1>3. \A c \in Launches \cup Stops : ProfileOf[c] \in Profiles
  BY LifecycleAssumption
<1>4. ASSUME NEW l \in Launches, AcquireSlot(l) PROVE Gov!Next
  <2>1. ProfileOf[l] \in Profiles /\ Governor!Acquire(l, ProfileOf[l])
    BY <1>3, <1>4 DEF AcquireSlot
  <2>2. Gov!Acquire(l, ProfileOf[l])
    BY <2>1, SameGovernor
  <2> QED BY <2>1, <2>2 DEF Gov!Next
<1>5. ASSUME NEW l \in Launches, EnterWithSlot(l) PROVE UNCHANGED governor
  BY <1>5 DEF EnterWithSlot
<1>6. ASSUME NEW p \in Profiles, Governor!Release(p) PROVE Gov!Next
  <2>1. Gov!Release(p)
    BY <1>6, SameGovernor
  <2> QED BY <1>2, <2>1
<1>7. ASSUME NEW l \in Launches, ThrowSlot(l) PROVE Gov!Next \/ UNCHANGED governor
  <2>1. ProfileOf[l] \in Profiles
    BY <1>3
  <2>2. Governor!Release(ProfileOf[l]) \/ UNCHANGED governor
    BY <1>7 DEF ThrowSlot
  <2> QED BY <1>6, <2>1, <2>2
<1>8. ASSUME NEW l \in Launches, CrashReleaseSlot(l) PROVE Gov!Next
  <2>1. ProfileOf[l] \in Profiles /\ Governor!Release(ProfileOf[l])
    BY <1>3, <1>8 DEF CrashReleaseSlot
  <2> QED BY <1>6, <2>1
<1>9. ASSUME NEW s \in Stops, BeginStopNoted(s) PROVE Gov!Next
  <2>1. ProfileOf[s] \in Profiles /\ Governor!NoteActivity(ProfileOf[s])
    BY <1>3, <1>9 DEF BeginStopNoted
  <2>2. Gov!NoteActivity(ProfileOf[s])
    BY <2>1, SameGovernor
  <2> QED BY <1>2, <2>1, <2>2
<1>10. ASSUME NEW s \in Stops, StopReleaseSlot(s) PROVE Gov!Next
  <2>1. ProfileOf[s] \in Profiles /\ Governor!Release(ProfileOf[s])
    BY <1>3, <1>10 DEF StopReleaseSlot
  <2> QED BY <1>6, <2>1
<1>11. ASSUME NEW s \in Stops, IdleFires(s) PROVE UNCHANGED governor
  BY <1>11 DEF IdleFires
<1>12. ASSUME Queue PROVE Gov!Next
  <2>1. ASSUME NEW l \in Launches, Governor!DiskChecked(l) \/ Governor!Resume(l)
        PROVE  Gov!Next
    <3>1. Gov!DiskChecked(l) \/ Gov!Resume(l)
      BY <2>1, SameGovernor
    <3> QED BY <3>1 DEF Gov!Next
  <2>2. ASSUME NEW i \in DOMAIN waiting, Governor!QueueTimeout(i) PROVE Gov!Next
    <3>1. Gov!QueueTimeout(i)
      BY <2>2, SameGovernor
    <3> QED BY <3>1 DEF Gov!Next
  <2>3. ASSUME NEW p \in Profiles, Governor!IdleElapses(p) PROVE Gov!Next
    <3>1. Gov!IdleElapses(p)
      BY <2>3, SameGovernor
    <3> QED BY <1>2, <3>1
  <2> QED BY <1>12, <2>1, <2>2, <2>3 DEF Queue
<1>13. ASSUME CloseGovernor PROVE Gov!Next
  <2>1. Gov!Close
    BY <1>13, SameGovernor DEF CloseGovernor
  <2> QED BY <2>1 DEF Gov!Next
<1>14. ASSUME UNCHANGED managerVars PROVE UNCHANGED governor
  BY <1>14 DEF managerVars
<1> QED BY <1>1, <1>4, <1>5, <1>7, <1>8, <1>9, <1>10, <1>11, <1>12, <1>13, <1>14
      DEF ManagerNext

\* The manager uses the governor as it is meant to be used, whatever clients do:
\* acquire() is called for the profile of the launch, and what the manager does
\* between acquire() and release() touches none of the governor's memory.  So
\* what is proved of LaunchGovernor, the slot pool included, holds in the server
\* even when calls overlap; a browser too many then comes of a slot given back
\* too early and not of the queue.
THEOREM ManagerIsGovernor ==
  ManagerSpec => Gov!Spec /\ []Gov!GovernorInv /\ Gov!ImplementsSlotPool
<1>1. ManagerInit => Gov!Init
  BY DEF ManagerInit, Governor!Init, Gov!Init
<1>2. ManagerSpec => Gov!Spec
  BY <1>1, StepIsGovernorStep, PTL DEF ManagerSpec, Gov!Spec
<1>3. Gov!Spec => []Gov!GovernorInv
  BY GovernorAssumed, Gov!GovernorInvariant
<1>4. Gov!Spec => Gov!ImplementsSlotPool
  BY GovernorAssumed, Gov!GovernorImplementsSlotPool
<1> QED BY <1>2, <1>3, <1>4
=============================================================================
