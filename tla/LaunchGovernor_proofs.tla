----------------------- MODULE LaunchGovernor_proofs -----------------------
(***************************************************************************)
(* The safety invariants of the launch governor, for every number of       *)
(* profiles, callers and slots, and the proof that the governor implements *)
(* the slot pool.                                                          *)
(*                                                                         *)
(* No invariant of the governor is inductive alone: that a release covers  *)
(* the call it wakes (SlotsCoverHolders) needs that the head of the queue  *)
(* is an open request with exactly one owner (EveryRequestIsAwaited), and  *)
(* that a timeout leaves no other request without its caller needs that no *)
(* ticket is in the queue twice (OneRequestPerProfile).  GovernorInv is    *)
(* their conjunction, and it is inductive.                                 *)
(***************************************************************************)
EXTENDS LaunchGovernor, FiniteSetTheorems, SequenceTheorems, TLAPS

GovernorInv ==
  /\ TypeOK
  /\ SlotsCoverHolders
  /\ NobodyOvertakes
  /\ OneRequestPerProfile
  /\ NoLostWaiter
  /\ EveryRequestIsAwaited

-----------------------------------------------------------------------------
(* Facts about the queue.                                                   *)

\* The elements of a sequence are the values at its positions.
LEMMA ToSetFacts ==
  ASSUME NEW S, NEW s \in Seq(S), NEW x
  PROVE x \in ToSet(s) <=> \E i \in DOMAIN s : s[i] = x
BY DEF ToSet

\* Removing the i-th request shifts the later ones by one place.
LEMMA RemoveAtFacts ==
  ASSUME NEW S, NEW s \in Seq(S), NEW i \in DOMAIN s
  PROVE  /\ RemoveAt(s, i) \in Seq(S)
         /\ Len(RemoveAt(s, i)) = Len(s) - 1
         /\ \A j \in 1 .. Len(s) - 1 :
              RemoveAt(s, i)[j] = IF j < i THEN s[j] ELSE s[j + 1]
<1> DEFINE front == SubSeq(s, 1, i - 1)
           back == SubSeq(s, i + 1, Len(s))
<1>1. Len(s) \in Nat /\ i \in 1 .. Len(s) /\ \A j \in 1 .. Len(s) : s[j] \in S
  BY LenProperties, ElementOfSeq
<1>2. /\ front \in Seq(S)
      /\ Len(front) = i - 1
      /\ \A j \in 1 .. i - 1 : front[j] = s[j]
  <2>1. \A j \in 1 .. i - 1 : s[j] \in S
    BY <1>1
  <2>2. /\ front \in Seq(S)
        /\ Len(front) = IF 1 <= i - 1 THEN (i - 1) - 1 + 1 ELSE 0
        /\ \A j \in 1 .. (i - 1) - 1 + 1 : front[j] = s[1 + j - 1]
    BY <1>1, <2>1, SubSeqProperties
  <2> QED BY <1>1, <2>2
<1>3. /\ back \in Seq(S)
      /\ Len(back) = Len(s) - i
      /\ \A j \in 1 .. Len(s) - i : back[j] = s[i + j]
  <2>1. \A j \in i + 1 .. Len(s) : s[j] \in S
    BY <1>1
  <2>2. /\ back \in Seq(S)
        /\ Len(back) = IF i + 1 <= Len(s) THEN Len(s) - (i + 1) + 1 ELSE 0
        /\ \A j \in 1 .. Len(s) - (i + 1) + 1 : back[j] = s[(i + 1) + j - 1]
    BY <1>1, <2>1, SubSeqProperties
  <2> QED BY <1>1, <2>2
<1>4. /\ front \o back \in Seq(S)
      /\ Len(front \o back) = Len(front) + Len(back)
      /\ \A j \in 1 .. Len(front) + Len(back) :
           (front \o back)[j] = IF j <= Len(front) THEN front[j] ELSE back[j - Len(front)]
  BY <1>2, <1>3, ConcatProperties
<1>5. RemoveAt(s, i) = front \o back
  BY DEF RemoveAt
<1> HIDE DEF front, back
<1>6. ASSUME NEW j \in 1 .. Len(s) - 1
      PROVE (front \o back)[j] = IF j < i THEN s[j] ELSE s[j + 1]
  <2>1. /\ Len(front) = i - 1
        /\ j \in 1 .. Len(front) + Len(back)
        /\ i \in Int /\ j \in Int
    BY <1>1, <1>2, <1>3
  <2>2. (front \o back)[j] = IF j <= i - 1 THEN front[j] ELSE back[j - (i - 1)]
    BY <1>4, <2>1
  <2>3. CASE j < i
    <3>1. j \in 1 .. i - 1
      BY <2>1, <2>3
    <3>2. front[j] = s[j]
      BY <1>2, <3>1
    <3>3. j <= i - 1
      BY <3>1
    <3> QED BY <2>2, <2>3, <3>2, <3>3
  <2>4. CASE ~(j < i)
    <3>1. j - (i - 1) \in 1 .. Len(s) - i /\ ~(j <= i - 1) /\ i + (j - (i - 1)) = j + 1
      BY <1>1, <2>1, <2>4
    <3>2. back[j - (i - 1)] = s[i + (j - (i - 1))]
      BY <1>3, <3>1
    <3> QED BY <2>2, <2>4, <3>1, <3>2
  <2> QED BY <2>3, <2>4
<1>7. Len(front) + Len(back) = Len(s) - 1
  BY <1>1, <1>2, <1>3
<1>8. Len(front \o back) = Len(s) - 1
  BY <1>4, <1>7
<1> QED BY <1>4, <1>5, <1>6, <1>8

-----------------------------------------------------------------------------
(* Facts about slots and their owners.                                      *)

\* Holders and grants can be counted.
LEMMA FiniteOwners ==
  ASSUME TypeOK
  PROVE  /\ IsFiniteSet(held) /\ Cardinality(held) \in Nat
         /\ IsFiniteSet(Granted) /\ Cardinality(Granted) \in Nat
<1>1. IsFiniteSet(held) /\ IsFiniteSet(Granted)
  BY GovernorAssumption, FS_Subset DEF TypeOK, Granted
<1> QED BY <1>1, FS_CardinalityType

\* GovernorInv is the invariant the governor starts with.
LEMMA GovernorInit == Init => GovernorInv
<1> SUFFICES ASSUME Init PROVE GovernorInv
  OBVIOUS
<1>1. TypeOK
  <2>1. 0 \in 0 .. MaxConcurrent /\ waiting \in Seq(Callers)
    BY GovernorAssumption, EmptySeq DEF Init
  <2> QED BY <2>1 DEF Init, TypeOK, Phases
<1>2. Granted = {} /\ held = {}
  BY DEF Init, Granted
<1>3. SlotsCoverHolders
  BY <1>2, FS_EmptySet DEF Init, SlotsCoverHolders
<1>4. NobodyOvertakes /\ OneRequestPerProfile /\ EveryRequestIsAwaited
  BY DEF Init, NobodyOvertakes, OneRequestPerProfile, EveryRequestIsAwaited
<1>5. NoLostWaiter
  BY DEF Init, NoLostWaiter
<1> QED BY <1>1, <1>3, <1>4, <1>5 DEF GovernorInv

\* A call that is not waiting and joins the queue keeps the invariant.
LEMMA EnqueueKeepsInv ==
  ASSUME GovernorInv, NEW c \in Callers, NEW p \in Profiles,
         phase[c] \notin {"queued", "granted"},
         runningCount = MaxConcurrent,
         closed' \in BOOLEAN, want' = [want EXCEPT ![c] = p],
         Enqueue(c, p)
  PROVE  GovernorInv'
<1> DEFINE mine == {r \in Callers : r \in ToSet(waiting) /\ want[r] = p}
<1>a. TypeOK
  BY DEF GovernorInv
<1>b. waiting \in Seq(Callers) /\ DOMAIN waiting = 1 .. Len(waiting) /\ Len(waiting) \in Nat
  BY <1>a, LenProperties DEF TypeOK
<1>c. \A i \in DOMAIN waiting : waiting[i] \in Callers /\ waiting[i] # c
  BY <1>b DEF GovernorInv, EveryRequestIsAwaited
<1>d. /\ phase' = [phase EXCEPT ![c] = "queued"]
      /\ UNCHANGED <<held, runningCount, idle>>
  BY <1>a DEF Enqueue, Move, TypeOK
<1>1. CASE mine = {}
  <2>1. waiting' = Append(waiting, c) /\ ticket' = [ticket EXCEPT ![c] = c]
    BY <1>1 DEF Enqueue
  <2>2. /\ waiting' \in Seq(Callers)
        /\ DOMAIN waiting' = 1 .. Len(waiting) + 1
        /\ \A i \in 1 .. Len(waiting) : waiting'[i] = waiting[i]
        /\ waiting'[Len(waiting) + 1] = c
    BY <1>b, <2>1
  <2>3. TypeOK'
    BY <1>a, <1>d, <2>1, <2>2 DEF TypeOK, Phases
  <2>4. EveryRequestIsAwaited'
    BY <1>a, <1>b, <1>c, <1>d, <2>1, <2>2 DEF TypeOK, GovernorInv, EveryRequestIsAwaited
  <2>5. OneRequestPerProfile'
    <3>1. \A i \in DOMAIN waiting : want[waiting[i]] # p
      BY <1>1, <1>b, <1>c, ToSetFacts
    <3>2. \A i \in 1 .. Len(waiting) : want'[waiting'[i]] = want[waiting[i]]
      BY <1>a, <1>b, <1>c, <2>2 DEF TypeOK
    <3>3. want'[waiting'[Len(waiting) + 1]] = p
      BY <1>a, <2>2 DEF TypeOK
    <3> QED BY <1>b, <2>2, <3>1, <3>2, <3>3 DEF GovernorInv, OneRequestPerProfile
  <2>6. NoLostWaiter'
    <3> SUFFICES ASSUME NEW d \in Callers, phase'[d] = "queued"
                 PROVE  \E i \in DOMAIN waiting' : waiting'[i] = ticket'[d]
      BY <2>2, ToSetFacts DEF NoLostWaiter
    <3>1. CASE d = c
      BY <1>a, <1>b, <2>1, <2>2, <3>1 DEF TypeOK
    <3>2. CASE d # c
      <4>1. phase[d] = "queued" /\ ticket'[d] = ticket[d]
        BY <1>a, <1>d, <2>1, <3>2 DEF TypeOK
      <4>2. PICK i \in DOMAIN waiting : waiting[i] = ticket[d]
        BY <4>1, <1>b, ToSetFacts DEF GovernorInv, NoLostWaiter
      <4> QED BY <4>1, <4>2, <1>b, <2>2
    <3> QED BY <3>1, <3>2
  <2>7. Granted' = Granted
    BY <1>a, <1>d, <2>1 DEF Granted, TypeOK
  <2>8. SlotsCoverHolders' /\ NobodyOvertakes'
    BY <1>d, <2>7 DEF GovernorInv, SlotsCoverHolders, NobodyOvertakes
  <2> QED BY <2>3, <2>4, <2>5, <2>6, <2>8 DEF GovernorInv
<1>2. CASE mine # {}
  <2>1. PICK r \in mine : ticket' = [ticket EXCEPT ![c] = r]
    BY <1>2 DEF Enqueue
  <2>2. waiting' = waiting /\ r \in Callers /\ r \in ToSet(waiting)
    BY <1>2 DEF Enqueue
  <2>3. TypeOK'
    BY <1>a, <1>d, <2>1, <2>2 DEF TypeOK, Phases
  <2>4. EveryRequestIsAwaited'
    BY <1>a, <1>b, <1>c, <1>d, <2>1, <2>2 DEF TypeOK, GovernorInv, EveryRequestIsAwaited
  <2>5. OneRequestPerProfile'
    BY <1>a, <1>b, <1>c, <2>2 DEF TypeOK, GovernorInv, OneRequestPerProfile
  <2>6. NoLostWaiter'
    BY <1>a, <1>d, <2>1, <2>2 DEF TypeOK, GovernorInv, NoLostWaiter
  <2>7. Granted' = Granted
    BY <1>a, <1>d, <2>1 DEF Granted, TypeOK
  <2>8. SlotsCoverHolders' /\ NobodyOvertakes'
    BY <1>d, <2>2, <2>7 DEF GovernorInv, SlotsCoverHolders, NobodyOvertakes
  <2> QED BY <2>3, <2>4, <2>5, <2>6, <2>8 DEF GovernorInv
<1> QED BY <1>1, <1>2

\* Moving calls that neither wait nor hold a grant to an end leaves the queue
\* and the slots alone.
LEMMA MoveKeepsInv ==
  ASSUME GovernorInv, NEW c \in Callers, NEW p \in Profiles,
         phase[c] \notin {"queued", "granted"},
         NEW to \in {"disk", "admitted", "rejected"}, Move({c}, to),
         closed' \in BOOLEAN, want' = [want EXCEPT ![c] = p],
         UNCHANGED <<held, runningCount, waiting, idle, ticket>>
  PROVE  GovernorInv'
<1>a. TypeOK
  BY DEF GovernorInv
<1>b. waiting \in Seq(Callers) /\ DOMAIN waiting = 1 .. Len(waiting) /\ Len(waiting) \in Nat
  BY <1>a, LenProperties DEF TypeOK
<1>c. \A i \in DOMAIN waiting : waiting[i] \in Callers /\ waiting[i] # c
  BY <1>b DEF GovernorInv, EveryRequestIsAwaited
<1>d. phase' = [phase EXCEPT ![c] = to]
  BY <1>a DEF Move, TypeOK
<1>1. TypeOK'
  BY <1>a, <1>d DEF TypeOK, Phases
<1>2. EveryRequestIsAwaited' /\ OneRequestPerProfile'
  BY <1>a, <1>b, <1>c, <1>d
  DEF TypeOK, GovernorInv, EveryRequestIsAwaited, OneRequestPerProfile
<1>3. NoLostWaiter'
  BY <1>a, <1>d DEF TypeOK, GovernorInv, NoLostWaiter
<1>4. Granted' = Granted
  BY <1>a, <1>d DEF Granted, TypeOK
<1>5. SlotsCoverHolders' /\ NobodyOvertakes'
  BY <1>d, <1>4 DEF GovernorInv, SlotsCoverHolders, NobodyOvertakes
<1> QED BY <1>1, <1>2, <1>3, <1>5 DEF GovernorInv

\* Admission under the cap: one more holder on one more slot.
LEMMA DecideKeepsInv ==
  ASSUME GovernorInv, NEW c \in Callers, NEW p \in Profiles,
         phase[c] \notin {"queued", "granted"},
         closed' \in BOOLEAN, want' = [want EXCEPT ![c] = p],
         Decide(c, p)
  PROVE  GovernorInv'
<1>a. TypeOK
  BY DEF GovernorInv
<1>b. waiting \in Seq(Callers) /\ DOMAIN waiting = 1 .. Len(waiting) /\ Len(waiting) \in Nat
  BY <1>a, LenProperties DEF TypeOK
<1>c. \A i \in DOMAIN waiting : waiting[i] \in Callers /\ waiting[i] # c
  BY <1>b DEF GovernorInv, EveryRequestIsAwaited
<1>d. runningCount \in Nat /\ MaxConcurrent \in Nat /\ runningCount <= MaxConcurrent
  BY <1>a, GovernorAssumption DEF TypeOK
<1>1. CASE runningCount < MaxConcurrent
  <2>1. /\ runningCount' = runningCount + 1
        /\ held' = held \cup {p}
        /\ idle' = idle \ {p}
        /\ phase' = [phase EXCEPT ![c] = "admitted"]
        /\ UNCHANGED <<waiting, ticket>>
    BY <1>1, <1>a DEF Decide, Move, TypeOK
  <2>2. TypeOK'
    BY <1>a, <1>d, <1>1, <2>1 DEF TypeOK, Phases
  <2>3. EveryRequestIsAwaited' /\ OneRequestPerProfile'
    BY <1>a, <1>b, <1>c, <2>1
    DEF TypeOK, GovernorInv, EveryRequestIsAwaited, OneRequestPerProfile
  <2>4. NoLostWaiter'
    BY <1>a, <2>1 DEF TypeOK, GovernorInv, NoLostWaiter
  <2>5. NobodyOvertakes'
    BY <1>1, <1>d, <2>1 DEF GovernorInv, NobodyOvertakes
  <2>6. Granted' = Granted
    BY <1>a, <2>1 DEF Granted, TypeOK
  <2>7. Cardinality(held') <= Cardinality(held) + 1 /\ Cardinality(held') \in Nat
    <3>1. IsFiniteSet(held) /\ Cardinality(held) \in Nat
      BY <1>a, FiniteOwners
    <3>2. Cardinality(held \cup {p}) = IF p \in held THEN Cardinality(held) ELSE Cardinality(held) + 1
      BY <3>1, FS_AddElement
    <3> QED BY <2>1, <3>1, <3>2
  <2>8. SlotsCoverHolders'
    BY <1>a, <1>d, <2>1, <2>6, <2>7, FiniteOwners DEF GovernorInv, SlotsCoverHolders
  <2> QED BY <2>2, <2>3, <2>4, <2>5, <2>8 DEF GovernorInv
<1>2. CASE ~(runningCount < MaxConcurrent)
  <2>1. runningCount = MaxConcurrent
    BY <1>2, <1>d
  <2>2. Enqueue(c, p)
    BY <1>2 DEF Decide
  <2> QED BY <2>1, <2>2, EnqueueKeepsInv
<1> QED BY <1>1, <1>2

LEMMA AcquireKeepsInv ==
  ASSUME GovernorInv, NEW c \in Callers, NEW p \in Profiles, Acquire(c, p)
  PROVE  GovernorInv'
<1>1. /\ phase[c] \notin {"queued", "granted"}
      /\ want' = [want EXCEPT ![c] = p]
      /\ closed' \in BOOLEAN
  BY DEF Acquire, Unfinished, GovernorInv, TypeOK
<1>2. CASE Decide(c, p)
  BY <1>1, <1>2, DecideKeepsInv
<1>3. CASE \E to \in {"disk", "admitted", "rejected"} :
             Move({c}, to) /\ UNCHANGED <<held, runningCount, waiting, idle, ticket>>
  BY <1>1, <1>3, MoveKeepsInv
<1> QED BY <1>2, <1>3 DEF Acquire

LEMMA DiskCheckedKeepsInv ==
  ASSUME GovernorInv, NEW c \in Callers, DiskChecked(c)
  PROVE  GovernorInv'
<1>1. /\ phase[c] \notin {"queued", "granted"}
      /\ want[c] \in Profiles
      /\ want' = [want EXCEPT ![c] = want[c]]
      /\ closed' \in BOOLEAN
  BY DEF DiskChecked, GovernorInv, TypeOK
<1>2. CASE Decide(c, want[c])
  BY <1>1, <1>2, DecideKeepsInv
<1>3. CASE Move({c}, "rejected") /\ UNCHANGED <<held, runningCount, waiting, idle, ticket>>
  BY <1>1, <1>3, MoveKeepsInv
<1> QED BY <1>2, <1>3 DEF DiskChecked

\* A granted call resumes: its grant becomes a holding.
LEMMA ResumeKeepsInv ==
  ASSUME GovernorInv, NEW r \in Callers, Resume(r)
  PROVE  GovernorInv'
<1> DEFINE woken == {c \in Callers : phase[c] = "granted" /\ ticket[c] = r}
<1>a. TypeOK /\ r \in Granted
  BY DEF GovernorInv, Resume
<1>b. waiting \in Seq(Callers) /\ DOMAIN waiting = 1 .. Len(waiting) /\ Len(waiting) \in Nat
  BY <1>a, LenProperties DEF TypeOK
<1>c. \A i \in DOMAIN waiting : waiting[i] \in Callers
  BY <1>b
<1>d. /\ held' = held \cup {want[r]}
      /\ idle' = idle \ {want[r]}
      /\ phase' = [c \in Callers |-> IF c \in woken THEN "admitted" ELSE phase[c]]
      /\ UNCHANGED <<runningCount, waiting, closed, want, ticket>>
  BY DEF Resume, Move
<1>1. TypeOK'
  BY <1>a, <1>d DEF TypeOK, Phases
<1>2. EveryRequestIsAwaited' /\ OneRequestPerProfile'
  BY <1>a, <1>b, <1>c, <1>d
  DEF TypeOK, GovernorInv, EveryRequestIsAwaited, OneRequestPerProfile
<1>3. NoLostWaiter'
  BY <1>a, <1>d DEF TypeOK, GovernorInv, NoLostWaiter
<1>4. NobodyOvertakes'
  BY <1>d DEF GovernorInv, NobodyOvertakes
<1>5. Granted' = Granted \ {r}
  BY <1>a, <1>d DEF Granted, TypeOK
<1>6. Cardinality(Granted') = Cardinality(Granted) - 1
  BY <1>a, <1>5, FiniteOwners, FS_RemoveElement
<1>7. Cardinality(held') <= Cardinality(held) + 1 /\ Cardinality(held') \in Nat
  <2>1. IsFiniteSet(held) /\ Cardinality(held) \in Nat
    BY <1>a, FiniteOwners
  <2>2. Cardinality(held \cup {want[r]})
          = IF want[r] \in held THEN Cardinality(held) ELSE Cardinality(held) + 1
    BY <2>1, FS_AddElement
  <2> QED BY <1>d, <2>1, <2>2
<1>8. SlotsCoverHolders'
  <2>1. runningCount \in Nat /\ Cardinality(held) \in Nat /\ Cardinality(Granted) \in Nat
    BY <1>a, FiniteOwners, GovernorAssumption DEF TypeOK
  <2> QED BY <1>d, <1>6, <1>7, <2>1 DEF GovernorInv, SlotsCoverHolders
<1> QED BY <1>1, <1>2, <1>3, <1>4, <1>8 DEF GovernorInv

\* A release hands the slot to the head of the queue or frees it.
LEMMA ReleaseKeepsInv ==
  ASSUME GovernorInv, NEW p \in Profiles, Release(p)
  PROVE  GovernorInv'
<1>a. TypeOK
  BY DEF GovernorInv
<1>b. waiting \in Seq(Callers) /\ DOMAIN waiting = 1 .. Len(waiting) /\ Len(waiting) \in Nat
  BY <1>a, LenProperties DEF TypeOK
<1>c. \A i \in DOMAIN waiting : waiting[i] \in Callers
  BY <1>b
<1>d. held' = held \ {p} /\ idle' = idle \ {p} /\ UNCHANGED <<closed, want, ticket>>
  BY DEF Release
<1>e. /\ runningCount \in Nat /\ MaxConcurrent \in Nat /\ runningCount <= MaxConcurrent
      /\ Cardinality(held) \in Nat /\ Cardinality(Granted) \in Nat /\ IsFiniteSet(held)
      /\ IsFiniteSet(Granted)
  BY <1>a, GovernorAssumption, FiniteOwners DEF TypeOK
<1>1. CASE p \notin held
  <2>1. held' = held /\ idle' = idle /\ UNCHANGED <<runningCount, waiting, phase>>
    BY <1>1, <1>a, <1>d DEF Release, TypeOK
  <2> QED BY <2>1, <1>d
          DEF GovernorInv, TypeOK, SlotsCoverHolders, Granted, NobodyOvertakes,
              OneRequestPerProfile, NoLostWaiter, EveryRequestIsAwaited
<1>2. CASE p \in held
  <2>0. Cardinality(held') = Cardinality(held) - 1 /\ Cardinality(held') \in Nat
    <3>1. Cardinality(held \ {p}) = Cardinality(held) - 1
      BY <1>2, <1>e, FS_RemoveElement
    <3>2. IsFiniteSet(held')
      BY <1>d, <1>e, FS_RemoveElement
    <3> QED BY <1>d, <3>1, <3>2, FS_CardinalityType
  <2>1. CASE waiting = << >>
    <3>1. /\ runningCount' = IF runningCount > 0 THEN runningCount - 1 ELSE 0
          /\ UNCHANGED <<waiting, phase>>
      BY <1>2, <2>1 DEF Release
    <3>2. TypeOK'
      BY <1>a, <1>d, <1>e, <3>1 DEF TypeOK
    <3>3. /\ NobodyOvertakes' /\ OneRequestPerProfile' /\ NoLostWaiter'
          /\ EveryRequestIsAwaited' /\ Granted' = Granted
      BY <1>d, <2>1, <3>1
      DEF GovernorInv, NobodyOvertakes, OneRequestPerProfile, NoLostWaiter,
          EveryRequestIsAwaited, Granted
    <3>4. SlotsCoverHolders'
      BY <1>e, <2>0, <3>1, <3>3 DEF GovernorInv, SlotsCoverHolders
    <3> QED BY <3>2, <3>3, <3>4 DEF GovernorInv
  <2>2. CASE waiting # << >>
    <3> DEFINE head == Head(waiting)
    <3>1. /\ phase' = [c \in Callers |-> IF phase[c] = "queued" /\ ticket[c] = head
                                          THEN "granted" ELSE phase[c]]
          /\ waiting' = Tail(waiting)
          /\ UNCHANGED runningCount
      BY <1>2, <2>2 DEF Release, Move, Awaiting
    <3>2. /\ waiting' \in Seq(Callers)
          /\ Len(waiting) > 0
          /\ DOMAIN waiting' = 1 .. Len(waiting) - 1
          /\ \A i \in 1 .. Len(waiting) - 1 : waiting'[i] = waiting[i + 1]
          /\ head = waiting[1]
      BY <1>b, <2>2, <3>1, HeadTailProperties, EmptySeq
    <3>3. /\ head \in Callers /\ phase[head] = "queued" /\ ticket[head] = head
          /\ \A i \in 1 .. Len(waiting) - 1 : waiting[i + 1] # head
      BY <1>b, <1>c, <3>2 DEF GovernorInv, EveryRequestIsAwaited, OneRequestPerProfile
    <3> HIDE DEF head
    <3>4. TypeOK'
      BY <1>a, <1>d, <3>1, <3>2 DEF TypeOK, Phases
    <3>5. OneRequestPerProfile'
      BY <1>b, <1>d, <3>2 DEF GovernorInv, OneRequestPerProfile
    <3>6. EveryRequestIsAwaited'
      BY <1>b, <1>c, <1>d, <3>1, <3>2, <3>3 DEF GovernorInv, EveryRequestIsAwaited
    <3>7. NobodyOvertakes'
      BY <2>2, <3>1 DEF GovernorInv, NobodyOvertakes
    <3>8. NoLostWaiter'
      <4> SUFFICES ASSUME NEW c \in Callers, phase'[c] = "queued"
                   PROVE  \E i \in DOMAIN waiting' : waiting'[i] = ticket'[c]
        BY <3>2, ToSetFacts DEF NoLostWaiter
      <4>1. phase[c] = "queued" /\ ticket[c] # head
        BY <3>1
      <4>2. PICK i \in DOMAIN waiting : waiting[i] = ticket[c]
        BY <4>1, <1>b, ToSetFacts DEF GovernorInv, NoLostWaiter
      <4>3. i \in 1 .. Len(waiting) /\ i # 1
        BY <1>b, <3>2, <4>1, <4>2
      <4>4. i - 1 \in 1 .. Len(waiting) - 1 /\ (i - 1) + 1 = i
        BY <1>b, <4>3
      <4>5. waiting'[i - 1] = waiting[i]
        BY <3>2, <4>4
      <4> QED BY <1>d, <3>2, <4>2, <4>4, <4>5
    <3>9. Granted' = Granted \cup {head} /\ head \notin Granted
      BY <1>a, <1>d, <3>1, <3>3 DEF Granted, TypeOK
    <3>10. Cardinality(Granted') = Cardinality(Granted) + 1
      BY <1>e, <3>9, FS_AddElement
    <3>11. SlotsCoverHolders'
      BY <1>e, <2>0, <3>1, <3>10 DEF GovernorInv, SlotsCoverHolders
    <3> QED BY <3>4, <3>5, <3>6, <3>7, <3>8, <3>11 DEF GovernorInv
  <2> QED BY <2>1, <2>2
<1> QED BY <1>1, <1>2

\* A timeout takes one request and all its callers out of the queue.
LEMMA QueueTimeoutKeepsInv ==
  ASSUME GovernorInv, NEW i \in DOMAIN waiting, QueueTimeout(i)
  PROVE  GovernorInv'
<1> DEFINE gone == waiting[i]
<1>a. TypeOK
  BY DEF GovernorInv
<1>b. waiting \in Seq(Callers) /\ DOMAIN waiting = 1 .. Len(waiting) /\ Len(waiting) \in Nat
  BY <1>a, LenProperties DEF TypeOK
<1>c. \A j \in DOMAIN waiting : waiting[j] \in Callers
  BY <1>b
<1>d. /\ phase' = [c \in Callers |-> IF phase[c] = "queued" /\ ticket[c] = gone
                                      THEN "rejected" ELSE phase[c]]
      /\ waiting' = RemoveAt(waiting, i)
      /\ UNCHANGED <<held, runningCount, idle, closed, want, ticket>>
  BY DEF QueueTimeout, Move, Awaiting
<1>1. /\ waiting' \in Seq(Callers)
      /\ DOMAIN waiting' = 1 .. Len(waiting) - 1
      /\ \A j \in 1 .. Len(waiting) - 1 :
           waiting'[j] = IF j < i THEN waiting[j] ELSE waiting[j + 1]
  <2>1. waiting' \in Seq(Callers) /\ Len(waiting') = Len(waiting) - 1
    BY <1>b, <1>d, RemoveAtFacts
  <2>2. DOMAIN waiting' = 1 .. Len(waiting')
    BY <2>1, LenProperties
  <2> QED BY <1>b, <1>d, <2>1, <2>2, RemoveAtFacts
<1>2. /\ i \in 1 .. Len(waiting)
      /\ \A j \in DOMAIN waiting : waiting[j] = gone => j = i
  BY <1>b DEF GovernorInv, OneRequestPerProfile
<1> HIDE DEF gone
<1>3. \A j \in DOMAIN waiting' :
        \E k \in DOMAIN waiting : /\ k = IF j < i THEN j ELSE j + 1
                                  /\ k # i /\ waiting'[j] = waiting[k]
  BY <1>b, <1>1, <1>2
<1>4. TypeOK'
  BY <1>a, <1>d, <1>1 DEF TypeOK, Phases
<1>5. OneRequestPerProfile'
  <2> SUFFICES ASSUME NEW j \in DOMAIN waiting', NEW k \in DOMAIN waiting',
                      want[waiting'[j]] = want[waiting'[k]]
               PROVE  j = k
    BY <1>d DEF OneRequestPerProfile
  <2>1. PICK m \in DOMAIN waiting : m = (IF j < i THEN j ELSE j + 1) /\ waiting'[j] = waiting[m]
    BY <1>3
  <2>2. PICK n \in DOMAIN waiting : n = (IF k < i THEN k ELSE k + 1) /\ waiting'[k] = waiting[n]
    BY <1>3
  <2>3. m = n
    BY <2>1, <2>2 DEF GovernorInv, OneRequestPerProfile
  <2> QED BY <1>b, <1>1, <1>2, <2>1, <2>2, <2>3
<1>6. EveryRequestIsAwaited'
  <2> SUFFICES ASSUME NEW j \in DOMAIN waiting'
               PROVE  phase'[waiting'[j]] = "queued" /\ ticket[waiting'[j]] = waiting'[j]
    BY <1>d DEF EveryRequestIsAwaited
  <2>1. PICK k \in DOMAIN waiting : k # i /\ waiting'[j] = waiting[k]
    BY <1>3
  <2>2. waiting[k] # gone /\ waiting[k] \in Callers
    BY <1>2, <1>c, <2>1
  <2> QED BY <1>d, <2>1, <2>2 DEF GovernorInv, EveryRequestIsAwaited
<1>7. NobodyOvertakes'
  <2>1. waiting # << >>
    BY <1>b, <1>2, EmptySeq
  <2> QED BY <1>d, <2>1 DEF GovernorInv, NobodyOvertakes
<1>8. NoLostWaiter'
  <2> SUFFICES ASSUME NEW c \in Callers, phase'[c] = "queued"
               PROVE  \E j \in DOMAIN waiting' : waiting'[j] = ticket'[c]
    BY <1>1, ToSetFacts DEF NoLostWaiter
  <2>1. phase[c] = "queued" /\ ticket[c] # gone
    BY <1>d
  <2>2. PICK k \in DOMAIN waiting : waiting[k] = ticket[c]
    BY <2>1, <1>b, ToSetFacts DEF GovernorInv, NoLostWaiter
  <2>3. k # i
    BY <2>1, <2>2 DEF gone
  <2>4. CASE k < i
    BY <1>b, <1>d, <1>1, <1>2, <2>2, <2>4
  <2>5. CASE ~(k < i)
    <3>1. /\ k - 1 \in 1 .. Len(waiting) - 1
          /\ ~(k - 1 < i)
          /\ (k - 1) + 1 = k
      BY <1>b, <1>2, <2>3, <2>5
    <3>2. waiting'[k - 1] = waiting[k]
      BY <1>1, <3>1
    <3> QED BY <1>d, <1>1, <2>2, <3>1, <3>2
  <2> QED BY <2>4, <2>5
<1>9. Granted' = Granted
  BY <1>a, <1>d DEF Granted, TypeOK
<1>10. SlotsCoverHolders'
  BY <1>d, <1>9 DEF GovernorInv, SlotsCoverHolders
<1> QED BY <1>4, <1>5, <1>6, <1>7, <1>8, <1>10 DEF GovernorInv

LEMMA CloseKeepsInv ==
  ASSUME GovernorInv, Close
  PROVE  GovernorInv'
<1>a. TypeOK
  BY DEF GovernorInv
<1>b. /\ waiting' = << >>
      /\ closed' = TRUE
      /\ phase' = [c \in Callers |-> IF phase[c] = "queued" THEN "rejected" ELSE phase[c]]
      /\ UNCHANGED <<held, runningCount, idle, want, ticket>>
  BY <1>a DEF Close, Move, TypeOK
<1>1. TypeOK'
  <2>1. waiting' \in Seq(Callers)
    BY <1>b, EmptySeq
  <2> QED BY <1>a, <1>b, <2>1 DEF TypeOK, Phases
<1>2. NobodyOvertakes' /\ OneRequestPerProfile' /\ EveryRequestIsAwaited'
  BY <1>b DEF NobodyOvertakes, OneRequestPerProfile, EveryRequestIsAwaited
<1>3. NoLostWaiter'
  BY <1>b DEF NoLostWaiter
<1>4. Granted' = Granted
  BY <1>a, <1>b DEF Granted, TypeOK
<1>5. SlotsCoverHolders'
  BY <1>b, <1>4 DEF GovernorInv, SlotsCoverHolders
<1> QED BY <1>1, <1>2, <1>3, <1>5 DEF GovernorInv

\* The idle clock touches neither slots nor queue.
LEMMA IdleClockKeepsInv ==
  ASSUME GovernorInv, NEW p \in Profiles, NoteActivity(p) \/ IdleElapses(p)
  PROVE  GovernorInv'
<1>1. /\ UNCHANGED <<held, runningCount, waiting, closed, phase, want, ticket>>
      /\ idle' \in SUBSET held
  BY DEF NoteActivity, IdleElapses, GovernorInv, TypeOK
<1> QED BY <1>1 DEF GovernorInv, TypeOK, SlotsCoverHolders, Granted, NobodyOvertakes,
            OneRequestPerProfile, NoLostWaiter, EveryRequestIsAwaited

-----------------------------------------------------------------------------
\* No step of the governor breaks GovernorInv.
LEMMA GovernorStep ==
  ASSUME GovernorInv, [Next]_governor
  PROVE  GovernorInv'
<1>1. CASE \E c \in Callers : \E p \in Profiles : Acquire(c, p)
  BY <1>1, AcquireKeepsInv
<1>2. CASE \E c \in Callers : DiskChecked(c)
  BY <1>2, DiskCheckedKeepsInv
<1>3. CASE \E c \in Callers : Resume(c)
  BY <1>3, ResumeKeepsInv
<1>4. CASE \E p \in Profiles : Release(p)
  BY <1>4, ReleaseKeepsInv
<1>5. CASE \E p \in Profiles : NoteActivity(p) \/ IdleElapses(p)
  BY <1>5, IdleClockKeepsInv
<1>6. CASE \E i \in DOMAIN waiting : QueueTimeout(i)
  BY <1>6, QueueTimeoutKeepsInv
<1>7. CASE Close
  BY <1>7, CloseKeepsInv
<1>8. CASE UNCHANGED governor
  BY <1>8 DEF governor, GovernorInv, TypeOK, SlotsCoverHolders, Granted, NobodyOvertakes,
             OneRequestPerProfile, NoLostWaiter, EveryRequestIsAwaited
<1> QED BY <1>1, <1>2, <1>3, <1>4, <1>5, <1>6, <1>7, <1>8 DEF Next

\* GovernorInv holds in every reachable state of the launch governor, for any
\* number of profiles, concurrent acquire() calls and slots: acquire, release,
\* timeout, promise resumption and close (manager.ts 110-204, queue.ts 48-108)
\* all preserve it in whatever order they come.
THEOREM GovernorInvariant == Spec => []GovernorInv
<1>1. GovernorInv /\ [Next]_governor => GovernorInv'
  BY GovernorStep
<1> QED BY GovernorInit, <1>1, PTL DEF Spec

\* The cap is never overcommitted, however many launches race for its slots:
\* every held profile and every granted request has a slot of its own.
THEOREM CapNeverOvercommitted == Spec => [](TypeOK /\ SlotsCoverHolders)
BY GovernorInvariant, PTL DEF GovernorInv

\* No fresh acquire() overtakes the queue: whoever is granted a slot while
\* others wait is the one at its head.
THEOREM QueueIsNotOvertaken == Spec => []NobodyOvertakes
BY GovernorInvariant, PTL DEF GovernorInv

\* No call waits on a promise that nobody will settle, no profile is queued
\* twice, and no slot is handed to a request nobody awaits any more.
THEOREM QueueIsSound ==
  Spec => [](OneRequestPerProfile /\ QueueServesWaiters)
BY GovernorInvariant, PTL DEF GovernorInv, QueueServesWaiters

-----------------------------------------------------------------------------
(* One call per profile.                                                    *)

\* What holds as long as no call asks for a profile that another one still
\* asks for: a request has one call, and who waits holds nothing.
OneCallPerProfile ==
  /\ \A c, d \in Callers : Unfinished(c) /\ Unfinished(d) /\ want[c] = want[d] => c = d
  /\ \A c \in Callers : Unfinished(c) => want[c] \notin held
  /\ \A c \in Callers : ticket[c] = c

\* Then no slot given out is lost.
NoLeakInv == OneCallPerProfile /\ NoLeakedSlot

\* The governor starts with no call and no slot given out.
LEMMA NoLeakInit == Init => NoLeakInv
<1> SUFFICES ASSUME Init PROVE NoLeakInv
  OBVIOUS
<1>1. Cardinality(held) \in Nat /\ Cardinality(Granted) \in Nat /\ runningCount = 0
  BY GovernorInit, FiniteOwners DEF GovernorInv, Init
<1>2. NoLeakedSlot
  BY <1>1 DEF NoLeakedSlot
<1> QED BY <1>2 DEF NoLeakInv, OneCallPerProfile, Init, Unfinished

\* Deciding about a call that is alone with its profile: it gets a slot that
\* was free, or stands in the queue with a request of its own.
LEMMA DecideKeepsNoLeak ==
  ASSUME GovernorInv, NoLeakInv, NEW c \in Callers, NEW p \in Profiles,
         phase[c] \notin {"queued", "granted"}, p \notin held,
         \A d \in Callers \ {c} : Unfinished(d) => want[d] # p,
         want' = [want EXCEPT ![c] = p], Decide(c, p)
  PROVE  NoLeakInv'
<1> USE DEF GovernorInv, NoLeakInv
<1>1. /\ runningCount \in Nat /\ Cardinality(held) \in Nat /\ Cardinality(Granted) \in Nat
      /\ IsFiniteSet(held)
  BY FiniteOwners, GovernorAssumption DEF TypeOK
<1>2. CASE runningCount < MaxConcurrent
  <2>1. /\ runningCount' = runningCount + 1 /\ held' = held \cup {p} /\ UNCHANGED ticket
        /\ phase' = [d \in Callers |-> IF d \in {c} THEN "admitted" ELSE phase[d]]
    BY <1>2 DEF Decide, Move
  <2>2. OneCallPerProfile'
    BY <2>1 DEF OneCallPerProfile, Unfinished, TypeOK
  <2>3. Granted' = Granted
    BY <2>1 DEF Granted, TypeOK
  <2>4. Cardinality(held') = Cardinality(held) + 1
    BY <1>1, <2>1, FS_AddElement
  <2> QED BY <1>1, <2>1, <2>2, <2>3, <2>4 DEF NoLeakedSlot
<1>3. CASE ~(runningCount < MaxConcurrent)
  <2>1. Enqueue(c, p)
    BY <1>3 DEF Decide
  <2>2. /\ phase' = [d \in Callers |-> IF d \in {c} THEN "queued" ELSE phase[d]]
        /\ UNCHANGED <<held, runningCount>>
    BY <2>1 DEF Enqueue, Move
  <2>3. ASSUME NEW r \in Callers, r \in ToSet(waiting) PROVE r # c /\ Unfinished(r)
    <3>1. PICK i \in DOMAIN waiting : waiting[i] = r
      BY <2>3, ToSetFacts DEF TypeOK
    <3> QED BY <3>1 DEF EveryRequestIsAwaited, Unfinished
  <2>4. {r \in Callers : r \in ToSet(waiting) /\ want[r] = p} = {}
    BY <2>3
  <2>5. ticket' = [ticket EXCEPT ![c] = c]
    BY <2>1, <2>4 DEF Enqueue
  <2>6. OneCallPerProfile'
    BY <2>2, <2>5 DEF OneCallPerProfile, Unfinished, TypeOK
  <2>7. Granted' = Granted
    BY <2>2, <2>5 DEF Granted, TypeOK, OneCallPerProfile
  <2> QED BY <2>2, <2>6, <2>7 DEF NoLeakedSlot
<1> QED BY <1>2, <1>3

\* A call that is rejected, that asks the disk, or whose profile has a slot
\* already, gets none.
LEMMA MoveKeepsNoLeak ==
  ASSUME GovernorInv, NoLeakInv, NEW c \in Callers, NEW p \in Profiles,
         phase[c] \notin {"queued", "granted"},
         NEW to \in {"disk", "admitted", "rejected"}, Move({c}, to),
         to = "disk" => p \notin held /\ \A d \in Callers \ {c} : Unfinished(d) => want[d] # p,
         want' = [want EXCEPT ![c] = p],
         UNCHANGED <<held, runningCount, ticket>>
  PROVE  NoLeakInv'
<1> USE DEF GovernorInv, NoLeakInv
<1>1. phase' = [d \in Callers |-> IF d \in {c} THEN to ELSE phase[d]]
  BY DEF Move
<1>2. OneCallPerProfile'
  BY <1>1 DEF OneCallPerProfile, Unfinished, TypeOK
<1>3. Granted' = Granted
  BY <1>1 DEF Granted, TypeOK
<1> QED BY <1>2, <1>3 DEF NoLeakedSlot

\* acquire() for a profile nobody else asks for.
LEMMA AcquireKeepsNoLeak ==
  ASSUME GovernorInv, NoLeakInv, NEW c \in Callers, NEW p \in Profiles, Acquire(c, p),
         \A d \in Callers : Unfinished(d) => want[d] # p
  PROVE  NoLeakInv'
<1>1. phase[c] \notin {"queued", "granted"} /\ want' = [want EXCEPT ![c] = p]
  BY DEF Acquire, Unfinished
<1>2. CASE p \notin held /\ Decide(c, p)
  BY <1>1, <1>2, DecideKeepsNoLeak
<1>3. CASE \E to \in {"disk", "admitted", "rejected"} :
             /\ to = "disk" => p \notin held
             /\ Move({c}, to) /\ UNCHANGED <<held, runningCount, waiting, idle, ticket>>
  BY <1>1, <1>3, MoveKeepsNoLeak
<1> QED BY <1>2, <1>3 DEF Acquire

\* The disk answers.
LEMMA DiskCheckedKeepsNoLeak ==
  ASSUME GovernorInv, NoLeakInv, NEW c \in Callers, DiskChecked(c)
  PROVE  NoLeakInv'
<1>1. /\ phase[c] \notin {"queued", "granted"}
      /\ want[c] \in Profiles /\ want[c] \notin held
      /\ want' = [want EXCEPT ![c] = want[c]]
      /\ \A d \in Callers \ {c} : Unfinished(d) => want[d] # want[c]
  BY DEF DiskChecked, GovernorInv, TypeOK, NoLeakInv, OneCallPerProfile, Unfinished
<1>2. CASE Decide(c, want[c])
  BY <1>1, <1>2, DecideKeepsNoLeak
<1>3. CASE Move({c}, "rejected") /\ UNCHANGED <<held, runningCount, waiting, idle, ticket>>
  BY <1>1, <1>3, MoveKeepsNoLeak
<1> QED BY <1>2, <1>3 DEF DiskChecked

\* The one call of a granted request resumes: its slot was not held before, so
\* the grant becomes a holding of its own.
LEMMA ResumeKeepsNoLeak ==
  ASSUME GovernorInv, NoLeakInv, NEW r \in Callers, Resume(r)
  PROVE  NoLeakInv'
<1> USE DEF GovernorInv, NoLeakInv
<1>1. /\ r \in Granted /\ want[r] \notin held
      /\ held' = held \cup {want[r]} /\ UNCHANGED <<runningCount, want, ticket>>
      /\ phase' = [c \in Callers |-> IF c = r THEN "admitted" ELSE phase[c]]
  BY DEF Resume, Move, Granted, OneCallPerProfile, Unfinished
<1>2. OneCallPerProfile'
  BY <1>1 DEF OneCallPerProfile, Unfinished, TypeOK, Granted
<1>3. Granted' = Granted \ {r}
  BY <1>1 DEF Granted, TypeOK
<1>4. /\ Cardinality(held') = Cardinality(held) + 1
      /\ Cardinality(Granted') = Cardinality(Granted) - 1
      /\ Cardinality(held) \in Nat /\ Cardinality(Granted) \in Nat
  BY <1>1, <1>3, FiniteOwners, FS_AddElement, FS_RemoveElement
<1> QED BY <1>1, <1>2, <1>4 DEF NoLeakedSlot, TypeOK

\* A release of a held profile frees its slot or hands it to the head.
LEMMA ReleaseKeepsNoLeak ==
  ASSUME GovernorInv, NoLeakInv, NEW p \in Profiles, Release(p)
  PROVE  NoLeakInv'
<1> USE DEF GovernorInv, NoLeakInv
<1>1. /\ runningCount \in Nat /\ Cardinality(held) \in Nat /\ Cardinality(Granted) \in Nat
      /\ IsFiniteSet(held) /\ IsFiniteSet(Granted)
  BY FiniteOwners, GovernorAssumption DEF TypeOK
<1>2. held' = held \ {p} /\ UNCHANGED <<want, ticket>>
  BY DEF Release
<1>3. CASE p \notin held
  <2>1. held' = held /\ UNCHANGED <<runningCount, phase>>
    BY <1>2, <1>3 DEF Release
  <2> QED BY <1>2, <2>1 DEF OneCallPerProfile, Unfinished, NoLeakedSlot, Granted
<1>4. CASE p \in held
  <2>0. Cardinality(held') = Cardinality(held) - 1
    BY <1>1, <1>2, <1>4, FS_RemoveElement
  <2>1. CASE waiting = << >>
    <3>1. /\ runningCount' = IF runningCount > 0 THEN runningCount - 1 ELSE 0
          /\ UNCHANGED phase
      BY <1>4, <2>1 DEF Release
    <3>2. OneCallPerProfile' /\ Granted' = Granted
      BY <1>2, <3>1 DEF OneCallPerProfile, Unfinished, Granted
    <3>3. Cardinality(held) + Cardinality(Granted) <= runningCount
      BY DEF SlotsCoverHolders
    <3>4. Cardinality(held) > 0
      BY <1>1, <1>2, <2>0, FS_CardinalityType, FS_RemoveElement
    <3> QED BY <1>1, <2>0, <3>1, <3>2, <3>3, <3>4 DEF NoLeakedSlot
  <2>2. CASE waiting # << >>
    <3> DEFINE head == Head(waiting)
    <3>1. /\ phase' = [c \in Callers |-> IF phase[c] = "queued" /\ ticket[c] = head
                                          THEN "granted" ELSE phase[c]]
          /\ UNCHANGED runningCount
      BY <1>4, <2>2 DEF Release, Move, Awaiting
    <3>2. head \in Callers /\ phase[head] = "queued" /\ ticket[head] = head
      <4>1. 1 \in DOMAIN waiting /\ head = waiting[1]
        BY <2>2, LenProperties, EmptySeq, HeadTailProperties DEF TypeOK
      <4> QED BY <4>1 DEF EveryRequestIsAwaited, TypeOK
    <3> HIDE DEF head
    <3>3. OneCallPerProfile'
      BY <1>2, <3>1 DEF OneCallPerProfile, Unfinished, TypeOK
    <3>4. Granted' = Granted \cup {head} /\ head \notin Granted
      BY <1>2, <3>1, <3>2 DEF Granted, TypeOK, OneCallPerProfile
    <3>5. Cardinality(Granted') = Cardinality(Granted) + 1
      BY <1>1, <3>4, FS_AddElement
    <3> QED BY <1>1, <2>0, <3>1, <3>3, <3>5 DEF NoLeakedSlot
  <2> QED BY <2>1, <2>2
<1> QED BY <1>3, <1>4

\* Whoever leaves the queue had no slot, and the idle clock knows of none.
LEMMA OthersKeepNoLeak ==
  ASSUME GovernorInv, NoLeakInv,
         \/ \E i \in DOMAIN waiting : QueueTimeout(i)
         \/ Close
         \/ \E p \in Profiles : NoteActivity(p) \/ IdleElapses(p)
         \/ UNCHANGED governor
  PROVE  NoLeakInv'
<1>1. /\ UNCHANGED <<held, runningCount, want, ticket>>
      /\ \A c \in Callers : phase'[c] = phase[c] \/ (phase[c] = "queued" /\ phase'[c] = "rejected")
  BY DEF QueueTimeout, Close, NoteActivity, IdleElapses, Move, Awaiting, governor
<1>2. Granted' = Granted
  BY <1>1 DEF Granted
<1> QED BY <1>1, <1>2 DEF NoLeakInv, OneCallPerProfile, Unfinished, NoLeakedSlot

\* While no two calls ask for one profile at once, no slot leaks: each one
\* given out belongs to a profile that holds it or to a call about to resume.
\* Two calls for one profile that both pass the disk check count twice and
\* hold once, and a slot is gone for good.
THEOREM NoSlotLeaks ==
  ASSUME ~Overlap
  PROVE  Spec => []NoLeakedSlot
<1>1. GovernorInv /\ NoLeakInv /\ [Next]_governor => NoLeakInv'
  <2> SUFFICES ASSUME GovernorInv, NoLeakInv, [Next]_governor PROVE NoLeakInv'
    OBVIOUS
  <2>1. ASSUME NEW c \in Callers, NEW p \in Profiles, Acquire(c, p) PROVE NoLeakInv'
    BY <2>1, AcquireKeepsNoLeak DEF Acquire
  <2>2. CASE \E c \in Callers : DiskChecked(c)
    BY <2>2, DiskCheckedKeepsNoLeak
  <2>3. CASE \E c \in Callers : Resume(c)
    BY <2>3, ResumeKeepsNoLeak
  <2>4. CASE \E p \in Profiles : Release(p)
    BY <2>4, ReleaseKeepsNoLeak
  <2> QED BY <2>1, <2>2, <2>3, <2>4, OthersKeepNoLeak DEF Next
<1>2. NoLeakInv => NoLeakedSlot
  BY DEF NoLeakInv
<1> QED BY <1>1, <1>2, NoLeakInit, GovernorInvariant, PTL DEF Spec

-----------------------------------------------------------------------------
(* The governor implements the slot pool.                                   *)

\* A decision takes a free slot while nobody waits, or joins the line of a
\* full pool, or joins a request that already stands in it.
LEMMA DecideIsPoolStep ==
  ASSUME GovernorInv, NEW c \in Callers, NEW p \in Profiles, Decide(c, p)
  PROVE  [Pool!Next]_(Pool!pool)
<1>a. runningCount \in Nat /\ MaxConcurrent \in Nat /\ runningCount <= MaxConcurrent
  BY GovernorAssumption DEF GovernorInv, TypeOK
<1>1. CASE runningCount < MaxConcurrent
  <2>1. waiting = << >>
    BY <1>1, <1>a DEF GovernorInv, NobodyOvertakes
  <2>2. Pool!Take
    BY <1>1, <2>1 DEF Decide, Pool!Take
  <2> QED BY <2>2 DEF Pool!Next
<1>2. CASE ~(runningCount < MaxConcurrent)
  <2>1. runningCount = MaxConcurrent /\ Enqueue(c, p)
    BY <1>2, <1>a DEF Decide
  <2>2. CASE waiting' = Append(waiting, c)
    <3>1. Pool!Join(c)
      BY <2>1, <2>2 DEF Enqueue, Pool!Join
    <3> QED BY <3>1 DEF Pool!Next
  <2>3. CASE waiting' = waiting
    BY <2>1, <2>3 DEF Enqueue, Pool!pool
  <2> QED BY <2>1, <2>2, <2>3 DEF Enqueue
<1> QED BY <1>1, <1>2

\* A release gives the slot back while nobody waits or hands it to the head.
LEMMA ReleaseIsPoolStep ==
  ASSUME GovernorInv, NEW p \in Profiles, Release(p)
  PROVE  [Pool!Next]_(Pool!pool)
<1>1. CASE p \notin held
  BY <1>1 DEF Release, Pool!pool
<1>2. CASE p \in held /\ waiting = << >>
  <2>1. runningCount > 0
    <3>1. /\ IsFiniteSet(held) /\ Cardinality(held) \in Nat /\ Cardinality(Granted) \in Nat
          /\ runningCount \in Nat
      BY GovernorAssumption, FiniteOwners DEF GovernorInv, TypeOK
    <3>2. Cardinality(held) # 0
      BY <1>2, <3>1, FS_EmptySet
    <3> QED BY <3>1, <3>2 DEF GovernorInv, SlotsCoverHolders
  <2>2. Pool!GiveBack
    BY <1>2, <2>1 DEF Release, Pool!GiveBack
  <2> QED BY <2>2 DEF Pool!Next
<1>3. CASE p \in held /\ waiting # << >>
  <2>1. Pool!HandOver
    BY <1>3 DEF Release, Pool!HandOver
  <2> QED BY <2>1 DEF Pool!Next
<1> QED BY <1>1, <1>2, <1>3

\* Every behaviour of the launch governor is one of the abstract slot pool, for
\* every cap: the slot release() frees while somebody waits goes to the head of
\* the queue, and acquire() takes a free one only while nobody waits.
THEOREM GovernorImplementsSlotPool == Spec => ImplementsSlotPool
<1>1. Init => Pool!Init
  BY DEF Init, Pool!Init
<1>2. GovernorInv /\ [Next]_governor => [Pool!Next]_(Pool!pool)
  <2> SUFFICES ASSUME GovernorInv, [Next]_governor PROVE [Pool!Next]_(Pool!pool)
    OBVIOUS
  <2>1. ASSUME NEW c \in Callers, NEW p \in Profiles, Acquire(c, p)
        PROVE  [Pool!Next]_(Pool!pool)
    <3>1. CASE Decide(c, p)
      BY <3>1, DecideIsPoolStep
    <3>2. CASE UNCHANGED <<runningCount, waiting>>
      BY <3>2 DEF Pool!pool
    <3> QED BY <2>1, <3>1, <3>2 DEF Acquire
  <2>2. ASSUME NEW c \in Callers, DiskChecked(c)
        PROVE  [Pool!Next]_(Pool!pool)
    <3>1. CASE Decide(c, want[c])
      <4>1. want[c] \in Profiles
        BY DEF GovernorInv, TypeOK
      <4> QED BY <3>1, <4>1, DecideIsPoolStep
    <3>2. CASE UNCHANGED <<runningCount, waiting>>
      BY <3>2 DEF Pool!pool
    <3> QED BY <2>2, <3>1, <3>2 DEF DiskChecked
  <2>3. ASSUME NEW c \in Callers, Resume(c)
        PROVE  [Pool!Next]_(Pool!pool)
    BY <2>3 DEF Resume, Pool!pool
  <2>4. ASSUME NEW p \in Profiles, Release(p)
        PROVE  [Pool!Next]_(Pool!pool)
    BY <2>4, ReleaseIsPoolStep
  <2>5. ASSUME NEW p \in Profiles, NoteActivity(p) \/ IdleElapses(p)
        PROVE  [Pool!Next]_(Pool!pool)
    BY <2>5 DEF NoteActivity, IdleElapses, Pool!pool
  <2>6. ASSUME NEW i \in DOMAIN waiting, QueueTimeout(i)
        PROVE  [Pool!Next]_(Pool!pool)
    <3>1. Pool!GiveUp(i)
      BY <2>6 DEF QueueTimeout, Pool!GiveUp, RemoveAt, Pool!RemoveAt
    <3> QED BY <3>1 DEF Pool!Next
  <2>7. CASE Close
    <3>1. Pool!Dismiss
      BY <2>7 DEF Close, Pool!Dismiss
    <3> QED BY <3>1 DEF Pool!Next
  <2>8. CASE UNCHANGED governor
    BY <2>8 DEF governor, Pool!pool
  <2> QED BY <2>1, <2>2, <2>3, <2>4, <2>5, <2>6, <2>7, <2>8 DEF Next
<1> QED BY <1>1, <1>2, GovernorInvariant, PTL DEF Spec, ImplementsSlotPool, Pool!Spec
=============================================================================
