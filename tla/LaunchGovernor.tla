--------------------------- MODULE LaunchGovernor ---------------------------
(***************************************************************************)
(* The ResourceManager of packages/api/src/resources: the cap on running   *)
(* Chromium instances, the FIFO launch queue with its per-request timeout  *)
(* and the idle clock.  Node runs one callback at a time, so an action is  *)
(* the code between two awaits; what interleaves are the callers of        *)
(* acquire(), suspended at the disk check and in the queue, and release(), *)
(* which anybody may call at any moment.                                   *)
(*                                                                         *)
(* A queued request is named by the caller that created it (its ticket);   *)
(* a second caller for the same profile joins the request and awaits the   *)
(* same promise, as LaunchQueue.enqueue does.                              *)
(***************************************************************************)
EXTENDS Integers, Sequences, FiniteSets, SequencesExt

CONSTANTS
  Profiles,        \* profile ids
  Callers,         \* concurrent calls of acquire()
  MaxConcurrent,   \* options.maxConcurrent
  CheckDisk,       \* options.checkDiskBeforeLaunch
  Overlap          \* may two unfinished calls name the same profile?

ASSUME GovernorAssumption ==
  /\ MaxConcurrent \in Nat \ {0}
  /\ CheckDisk \in BOOLEAN
  /\ Overlap \in BOOLEAN
  /\ IsFiniteSet(Profiles)
  /\ IsFiniteSet(Callers)

VARIABLES
  held,            \* ResourceManager.held
  runningCount,    \* ResourceManager.runningCount
  waiting,         \* LaunchQueue.waiting, as the tickets in FIFO order
  idle,            \* held profiles whose lastActivity is idleShutdownMs old
  closed,          \* ResourceManager.closed
  phase,           \* where each call of acquire() is suspended or how it ended
  want,            \* the profile each call asks for
  ticket           \* the request each queued call waits on

governor == <<held, runningCount, waiting, idle, closed, phase, want, ticket>>
slots == <<held, runningCount, waiting, idle, closed>>

Phases == {"none", "disk", "queued", "granted", "admitted", "rejected"}

TypeOK ==
  /\ held \in SUBSET Profiles
  /\ runningCount \in 0 .. MaxConcurrent
  /\ waiting \in Seq(Callers)
  /\ idle \in SUBSET held
  /\ closed \in BOOLEAN
  /\ phase \in [Callers -> Phases]
  /\ want \in [Callers -> Profiles]
  /\ ticket \in [Callers -> Callers]

Init ==
  /\ held = {}
  /\ runningCount = 0
  /\ waiting = << >>
  /\ idle = {}
  /\ closed = FALSE
  /\ phase = [c \in Callers |-> "none"]
  /\ want \in [Callers -> Profiles]
  /\ ticket = [c \in Callers |-> c]

-----------------------------------------------------------------------------
\* Requests whose promise is resolved but whose awaiting call has not resumed:
\* the slot is theirs, held does not say so yet.
Granted == {c \in Callers : phase[c] = "granted" /\ ticket[c] = c}

Unfinished(c) == phase[c] \in {"disk", "queued", "granted"}

\* The calls that await request r.
Awaiting(r) == {c \in Callers : phase[c] = "queued" /\ ticket[c] = r}

Move(C, to) == phase' = [c \in Callers |-> IF c \in C THEN to ELSE phase[c]]

\* LaunchQueue.enqueue: a profile stands in the queue once; a second call for
\* it gets the first one's promise.
Enqueue(c, p) ==
  LET mine == {r \in Callers : r \in ToSet(waiting) /\ want[r] = p} IN
  /\ Move({c}, "queued")
  /\ IF mine = {}
     THEN /\ waiting' = Append(waiting, c)
          /\ ticket' = [ticket EXCEPT ![c] = c]
     ELSE /\ \E r \in mine : ticket' = [ticket EXCEPT ![c] = r]
          /\ UNCHANGED waiting
  /\ UNCHANGED <<held, runningCount, idle>>

\* acquire() once the disk is known to be fine: admission under the cap, or
\* the queue.
Decide(c, p) ==
  IF runningCount < MaxConcurrent
  THEN /\ runningCount' = runningCount + 1
       /\ held' = held \cup {p}
       /\ idle' = idle \ {p}
       /\ Move({c}, "admitted")
       /\ UNCHANGED <<waiting, ticket>>
  ELSE Enqueue(c, p)

\* acquire() up to its first await.
Acquire(c, p) ==
  /\ ~Unfinished(c)
  /\ Overlap \/ \A d \in Callers : Unfinished(d) => want[d] # p
  /\ want' = [want EXCEPT ![c] = p]
  /\ UNCHANGED closed
  /\ IF closed
     THEN /\ Move({c}, "rejected")
          /\ UNCHANGED <<held, runningCount, waiting, idle, ticket>>
     ELSE IF p \in held
          THEN /\ Move({c}, "admitted")
               /\ UNCHANGED <<held, runningCount, waiting, idle, ticket>>
          ELSE IF CheckDisk
               THEN /\ Move({c}, "disk")
                    /\ UNCHANGED <<held, runningCount, waiting, idle, ticket>>
               ELSE Decide(c, p)

\* assertDiskWatermark answers: enough space (or fail-open), or too little.
DiskChecked(c) ==
  /\ phase[c] = "disk"
  /\ \/ Decide(c, want[c])
     \/ /\ Move({c}, "rejected")
        /\ UNCHANGED <<held, runningCount, waiting, idle, ticket>>
  /\ UNCHANGED <<closed, want>>

\* The calls awaiting a granted request resume after acquire()'s await.
Resume(r) ==
  /\ r \in Granted
  /\ held' = held \cup {want[r]}
  /\ idle' = idle \ {want[r]}
  /\ Move({c \in Callers : phase[c] = "granted" /\ ticket[c] = r}, "admitted")
  /\ UNCHANGED <<runningCount, waiting, closed, want, ticket>>

\* Mutant: release() drops the head of the queue without resolving its promise.
ReleaseDropsWaiter(p) ==
  /\ held' = held \ {p}
  /\ idle' = idle \ {p}
  /\ IF p \notin held
     THEN UNCHANGED <<runningCount, waiting>>
     ELSE /\ waiting' = IF waiting = << >> THEN waiting ELSE Tail(waiting)
          /\ runningCount' = IF runningCount > 0 THEN runningCount - 1 ELSE 0
  /\ UNCHANGED <<closed, phase, want, ticket>>

\* Mutant: release() frees the slot although it hands it to the queue head.
ReleaseFreesTwice(p) ==
  /\ held' = held \ {p}
  /\ idle' = idle \ {p}
  /\ IF p \notin held
     THEN UNCHANGED <<runningCount, waiting, phase>>
     ELSE /\ runningCount' = IF runningCount > 0 THEN runningCount - 1 ELSE 0
          /\ IF waiting = << >>
             THEN UNCHANGED <<waiting, phase>>
             ELSE /\ Move(Awaiting(Head(waiting)), "granted")
                  /\ waiting' = Tail(waiting)
  /\ UNCHANGED <<closed, want, ticket>>

\* release() of a profile that holds a slot; for any other it is a no-op.
Release(p) ==
  /\ held' = held \ {p}
  /\ idle' = idle \ {p}
  /\ IF p \notin held
     THEN UNCHANGED <<runningCount, waiting, phase>>
     ELSE IF waiting = << >>
          THEN /\ runningCount' = IF runningCount > 0 THEN runningCount - 1 ELSE 0
               /\ UNCHANGED <<waiting, phase>>
          ELSE /\ Move(Awaiting(Head(waiting)), "granted")
               /\ waiting' = Tail(waiting)
               /\ UNCHANGED runningCount
  /\ UNCHANGED <<closed, want, ticket>>

\* Mutant: the timer rejects the request but leaves it in the queue.
QueueTimeoutStaysInLine(i) ==
  /\ i \in DOMAIN waiting
  /\ Move(Awaiting(waiting[i]), "rejected")
  /\ UNCHANGED <<held, runningCount, waiting, idle, closed, want, ticket>>

\* The timer of a queued request fires before a slot came.
QueueTimeout(i) ==
  /\ i \in DOMAIN waiting
  /\ waiting' = RemoveAt(waiting, i)
  /\ Move(Awaiting(waiting[i]), "rejected")
  /\ UNCHANGED <<held, runningCount, idle, closed, want, ticket>>

\* noteActivity(): the idle clock of a held profile starts again.
NoteActivity(p) ==
  /\ idle' = idle \ {p}
  /\ UNCHANGED <<held, runningCount, waiting, closed, phase, want, ticket>>

\* idleShutdownMs pass without activity on a held profile.
IdleElapses(p) ==
  /\ p \in held \ idle
  /\ idle' = idle \cup {p}
  /\ UNCHANGED <<held, runningCount, waiting, closed, phase, want, ticket>>

\* close(): reject everyone still queued.
Close ==
  /\ ~closed
  /\ closed' = TRUE
  /\ Move({c \in Callers : phase[c] = "queued"}, "rejected")
  /\ waiting' = << >>
  /\ UNCHANGED <<held, runningCount, idle, want, ticket>>

Next ==
  \/ \E c \in Callers : \/ \E p \in Profiles : Acquire(c, p)
                        \/ DiskChecked(c)
                        \/ Resume(c)
  \/ \E p \in Profiles : Release(p) \/ NoteActivity(p) \/ IdleElapses(p)
  \/ \E i \in DOMAIN waiting : QueueTimeout(i)
  \/ Close

Spec == Init /\ [][Next]_governor

\* statfs answers, timers fire and resolved promises resume: all three are
\* Node's to deliver.  Nothing promises that a slot is ever released.
TimeoutOf(r) == \E i \in DOMAIN waiting : waiting[i] = r /\ QueueTimeout(i)

Fairness == \A c \in Callers : /\ WF_governor(DiskChecked(c))
                              /\ WF_governor(Resume(c))
                              /\ WF_governor(TimeoutOf(c))

FairSpec == Spec /\ Fairness

-----------------------------------------------------------------------------
\* The cap is never overcommitted: each held profile and each granted request
\* has a slot of its own among the runningCount slots given out, whatever the
\* order of acquire(), release() and promise resumption (manager.ts 110-174).
SlotsCoverHolders == Cardinality(held) + Cardinality(Granted) <= runningCount

\* While somebody waits no slot is free, so no fresh acquire() can steal the
\* slot a release() hands to the head of the queue (manager.ts 158-161).
NobodyOvertakes == waiting # << >> => runningCount = MaxConcurrent

\* A profile stands in the launch queue at most once, so a double click on
\* Launch does not double-queue (queue.ts 48-51).
OneRequestPerProfile ==
  \A i, j \in DOMAIN waiting : want[waiting[i]] = want[waiting[j]] => i = j

\* No call waits on a request that has left the queue: the promise it awaits
\* would never settle (queue.ts 81-108).
NoLostWaiter ==
  \A c \in Callers : phase[c] = "queued" => ticket[c] \in ToSet(waiting)

\* Each request in the queue is still awaited by the call that made it, so the
\* slot that release() hands to the head never goes to nobody (queue.ts 81-100).
EveryRequestIsAwaited ==
  \A i \in DOMAIN waiting :
    phase[waiting[i]] = "queued" /\ ticket[waiting[i]] = waiting[i]

\* The queue and the calls that wait agree, whatever races with whatever: a slot
\* never goes to a request nobody awaits, and nobody awaits a request that no
\* slot will ever come to (queue.ts 52-108).
QueueServesWaiters == NoLostWaiter /\ EveryRequestIsAwaited

\* A slot given out belongs to somebody: it is released again when that
\* profile is.  Acquire is documented as idempotent for held ids
\* (manager.ts 105-109).
NoLeakedSlot == runningCount <= Cardinality(held) + Cardinality(Granted)

\* Every acquire() that started returns, by admission, rejection or timeout.
EveryCallReturns == \A c \in Callers : Unfinished(c) ~> ~Unfinished(c)

\* The governor is a slot pool: runningCount is the number of slots given out
\* and the launch queue is the line in front of them.
Pool == INSTANCE SlotPool WITH Slots <- MaxConcurrent, Tickets <- Callers,
                               used <- runningCount, line <- waiting

\* Every acquire, release, timeout and close is a step of that pool or leaves
\* it alone, so the queue head always inherits the freed slot.
ImplementsSlotPool == Pool!Spec
=============================================================================
