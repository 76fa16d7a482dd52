--------------------------- MODULE ProfileManager ---------------------------
(***************************************************************************)
(* The profile manager with the launch governor it is wired to in          *)
(* server/index.ts: every launch first acquires a slot, and the failure    *)
(* path of launchProfile, finalizeStop and handleCrash release it; the     *)
(* governor's idle reaper stops profiles of its own accord.                *)
(*                                                                         *)
(* A launch is a caller of the governor under the same name.  A step is a  *)
(* step of ProfileLifecycle, of the governor, or of both where the code    *)
(* calls one from the other without an await in between.                   *)
(***************************************************************************)
EXTENDS ProfileLifecycle, Sequences

CONSTANTS
  MaxConcurrent,   \* options.maxConcurrent
  CheckDisk,       \* options.checkDiskBeforeLaunch
  Reaps,           \* the stops that onIdleProfile asks for
  ClientsOverlap   \* may clients have two calls on one profile under way?

ASSUME ManagerAssumption ==
  /\ MaxConcurrent \in Nat \ {0}
  /\ CheckDisk \in BOOLEAN
  /\ Reaps \subseteq Stops
  /\ ClientsOverlap \in BOOLEAN
  /\ IsFiniteSet(Profiles)

VARIABLES held, runningCount, waiting, idle, closed, phase, want, ticket,
          reaping  \* idle callbacks that have read state 'running'

Governor == INSTANCE LaunchGovernor WITH Callers <- Launches

governor == <<held, runningCount, waiting, idle, closed, phase, want, ticket>>
managerVars == <<vars, governor, reaping>>

ManagerInit ==
  /\ Init
  /\ Governor!Init
  /\ want = [l \in Launches |-> ProfileOf[l]]
  /\ reaping = {}

-----------------------------------------------------------------------------
\* Without any I/O acquire() resumes and launchProfileInner begins, and the
\* idle callback goes from getState to stopProfile.
SlotMidway(l) == at[l] = "new" /\ phase[l] \in {"granted", "admitted"}

ReapMidway(s) == s \in reaping /\ stopAt[s] = "new"

ManagerTurn(midway) ==
  \/ midway
  \/ /\ NobodyMidway
     /\ \A l \in Launches : ~SlotMidway(l)
     /\ \A s \in Stops : ~ReapMidway(s)

-----------------------------------------------------------------------------
\* A launch is also under way while it waits in acquire().
Acquiring(c) ==
  c \in Launches /\ at[c] = "new" /\ phase[c] \in {"disk", "queued", "granted", "admitted"}

MayCall(c) ==
  ClientsOverlap \/ \A d \in Calls \ Reaps :
                      ProfileOf[d] = ProfileOf[c] => ~Working(d) /\ ~Acquiring(d)

\* launchProfile: acquire() comes first and outside the try block.
AcquireSlot(l) ==
  /\ at[l] = "new"
  /\ phase[l] = "none"
  /\ MayCall(l)
  /\ Governor!Acquire(l, ProfileOf[l])
  /\ UNCHANGED <<vars, reaping>>

\* The slot has come; launchProfileInner begins.
EnterWithSlot(l) ==
  /\ phase[l] = "admitted"
  /\ Enter(l)
  /\ UNCHANGED <<governor, reaping>>

\* Mutant: the catch of launchProfile releases the slot even of a live profile.
ThrowAlwaysReleases(l) ==
  /\ Throw(l)
  /\ Governor!Release(ProfileOf[l])
  /\ UNCHANGED reaping

\* The catch of launchProfile releases the slot unless the profile is live.
ThrowSlot(l) ==
  /\ Throw(l)
  /\ IF live[ProfileOf[l]] = NoOne
     THEN Governor!Release(ProfileOf[l])
     ELSE UNCHANGED governor
  /\ UNCHANGED reaping

\* The callback of an idle profile: getState first ...
IdleFires(s) ==
  /\ s \in Reaps \ reaping
  /\ stopAt[s] = "new"
  /\ ProfileOf[s] \in idle
  /\ state[ProfileOf[s]] = "running"
  /\ reaping' = reaping \cup {s}
  /\ UNCHANGED <<vars, governor>>

\* ... then stopProfile, which notes activity before anything else.
BeginStopNoted(s) ==
  /\ IF s \in Reaps THEN s \in reaping ELSE MayCall(s)
  /\ BeginStop(s)
  /\ Governor!NoteActivity(ProfileOf[s])
  /\ UNCHANGED reaping

\* finalizeStop and handleCrash end by releasing the slot.
StopReleaseSlot(s) ==
  /\ StopRelease(s)
  /\ Governor!Release(ProfileOf[s])
  /\ UNCHANGED reaping

\* Mutant: handleCrash keeps the slot.
CrashKeepsSlot(l) ==
  /\ CrashRelease(l)
  /\ UNCHANGED <<governor, reaping>>

CrashReleaseSlot(l) ==
  /\ CrashRelease(l)
  /\ Governor!Release(ProfileOf[l])
  /\ UNCHANGED reaping

\* The governor's own events: the disk answers, a granted call resumes, the
\* timers fire.
Queue ==
  /\ UNCHANGED <<vars, reaping>>
  /\ \/ \E l \in Launches : \/ ManagerTurn(FALSE) /\ Governor!DiskChecked(l)
                            \/ ManagerTurn(SlotMidway(l)) /\ Governor!Resume(l)
     \/ \E i \in DOMAIN waiting : ManagerTurn(FALSE) /\ Governor!QueueTimeout(i)
     \/ \E p \in Profiles : Governor!IdleElapses(p)

\* The server closes the governor, then stops what is live.
CloseGovernor ==
  /\ Governor!Close
  /\ UNCHANGED <<vars, reaping>>

ManagerNext ==
  \/ \E l \in Launches :
       \/ /\ ManagerTurn(LaunchMidway(l) \/ SlotMidway(l))
          /\ AcquireSlot(l) \/ EnterWithSlot(l) \/ ThrowSlot(l)
       \/ ManagerTurn(CrashMidway(l)) /\ CrashReleaseSlot(l)
  \/ \E s \in Stops :
       \/ ManagerTurn(StopMidway(s) \/ ReapMidway(s)) /\ BeginStopNoted(s)
       \/ ManagerTurn(StopMidway(s)) /\ StopReleaseSlot(s)
       \/ ManagerTurn(FALSE) /\ IdleFires(s)
  \/ Queue
  \/ ManagerTurn(FALSE) /\ CloseGovernor
  \/ /\ \/ \E l \in Launches : \/ ManagerTurn(LaunchMidway(l)) /\ Launch(l)
                               \/ ManagerTurn(CrashMidway(l)) /\ Crash(l)
                               \/ ManagerTurn(FALSE) /\ ExitEvent(l)
                               \/ BrowserDies(l)
        \/ \E s \in Stops : ManagerTurn(StopMidway(s)) /\ Stop(s)
        \/ \E p \in Profiles : (ManagerTurn(FALSE) /\ Heartbeat(p)) \/ LockAges(p)
        \/ ManagerTurn(FALSE) /\ MonitorStarts
        \/ ManagerTurn(MonitorMidway) /\ Monitor
     /\ UNCHANGED <<governor, reaping>>

ManagerSpec == ManagerInit /\ [][ManagerNext]_managerVars

-----------------------------------------------------------------------------
ManagerTypeOK == TypeOK /\ Governor!TypeOK /\ reaping \in SUBSET Reaps

Alive == {l \in Launches : browser[l] = "alive"}

\* The cap counts browsers, not promises: never more Chromium instances run
\* than the cap allows, in whatever order launches, queue hand-overs, stops
\* and crashes come (resources/manager.ts 33).
BrowsersWithinCap == Cardinality(Alive) <= MaxConcurrent

\* A browser that runs does so on a slot of its profile: the slot is held
\* until the profile stops or crashes (profiles/manager.ts 232-237).
BrowserHoldsSlot == \A l \in Alive : ProfileOf[l] \in held

\* Every slot is held by a profile or promised to a request, because nobody has
\* two launches of one profile in acquire() at once; and when nothing is under
\* way for a profile that is not live, it holds no slot: every way a launch can
\* end gives its slot back exactly once (resources/manager.ts 105-156,
\* profiles/manager.ts 232-250, 525, 565).
EverySlotComesBack ==
  /\ Governor!NoLeakedSlot
  /\ \A p \in held :
       \/ live[p] # NoOne
       \/ \E c \in Calls : ProfileOf[c] = p /\ (Working(c) \/ Acquiring(c))
       \/ \E l \in Launches : ProfileOf[l] = p /\ crashAt[l] \notin {"none", "done"}
=============================================================================
