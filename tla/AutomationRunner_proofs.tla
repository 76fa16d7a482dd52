----------------------- MODULE AutomationRunner_proofs -----------------------
(***************************************************************************)
(* The safety properties of the automation runner, for every number of     *)
(* jobs, every cap and every number of crashes.                            *)
(*                                                                         *)
(* RunnerInv relates, run by run, the four places where its status is      *)
(* decided: the queue, the execution, the steps and the cancellation.  It  *)
(* is inductive only because a call that is between two database awaits    *)
(* goes first (Turn): the steps of a run that timed out must not reach     *)
(* their end while fail() still writes.                                    *)
(***************************************************************************)
EXTENDS AutomationRunner, FiniteSetTheorems, SequenceTheorems, TLAPS

\* A run is in one place at a time.
InOnePlace(r) ==
  /\ r \in making \cup ToSet(queue)
       => runStatus[r] = "queued" /\ exec[r] = "none" /\ cancelling[r] = "no"
  /\ r \in making => r \notin ToSet(queue)
  /\ exec[r] # "none" <=> r \in claimed

\* What the steps of the execution say of the row and of the work.
ExecAgrees(r) ==
  /\ exec[r] # "none" => runStatus[r] # "none"
  /\ exec[r] \in {"claim", "start"} => runStatus[r] = "queued" /\ work[r] = "none"
  /\ exec[r] = "startJob" => runStatus[r] = "running" /\ work[r] = "none"
  /\ exec[r] = "race" => /\ work[r] # "none"
                         /\ runStatus[r] = IF work[r] \in {"completeJob", "done"}
                                           THEN "completed" ELSE "running"
  /\ exec[r] = "fail" => runStatus[r] = "running" /\ work[r] \in {"open", "steps", "threw"}
  /\ exec[r] = "failJob" => runStatus[r] = outcome[r] /\ work[r] \in {"open", "steps", "threw"}
  /\ exec[r] = "cancel" => work[r] = "threw"
  /\ closing = "no" /\ exec[r] \notin {"none", "claim", "start"} => runStatus[r] # "queued"

\* What the steps of the script say: they outlive the race only after a timeout.
WorkAgrees(r) ==
  /\ work[r] # "none" => runStatus[r] \notin {"none", "queued"}
  /\ work[r] \in {"open", "steps", "complete", "completeJob"}
       => exec[r] = "race" \/ outcome[r] = "timed_out"
  /\ work[r] \in {"open", "steps", "complete"} /\ exec[r] \notin {"race", "fail"}
       => runStatus[r] = "timed_out"
  /\ work[r] = "completeJob" => runStatus[r] = "completed"

\* A cancellation under way is the only one to write to the rows of its run.
CancelAgrees(r) ==
  /\ cancelling[r] # "no" => \/ exec[r] = "cancel"
                             \/ exec[r] = "none" /\ work[r] = "none"
  /\ cancelling[r] # "no" => runStatus[r] # "none"
  /\ cancelling[r] = "run" => runStatus[r] \in {"queued", "running"}
  /\ cancelling[r] = "job" => runStatus[r] = "cancelled"

\* The job's row is behind the run's only where somebody is about to write it.
JobAgrees(r) ==
  restarts = 0 /\ exec[r] \notin {"startJob", "failJob"}
  /\ cancelling[r] # "job" /\ work[r] # "completeJob"
    => jobStatus[r] = JobStatusOf(runStatus[r])

TabAgrees(r) ==
  r \in tab => \/ outcome[r] = "timed_out"
               \/ exec[r] \in {"race", "fail", "failJob", "cancel", "closeTab"}

RunAgrees(r) ==
  /\ InOnePlace(r)
  /\ ExecAgrees(r)
  /\ WorkAgrees(r)
  /\ CancelAgrees(r)
  /\ JobAgrees(r)
  /\ TabAgrees(r)

\* While the server boots its memory is that of a new process.
BootIsFresh ==
  /\ server.step \in {"fail", "failJob"} => \A r \in server.todo : runStatus[r] = "running"
  /\ server.step = "failJob" => server.on \in Runs
  /\ ~Up => /\ restarts # 0
            /\ making = {} /\ queue = << >> /\ claimed = {} /\ tab = {} /\ closing = "no"
            /\ \A r \in Runs : exec[r] = "none" /\ work[r] = "none" /\ cancelling[r] = "no"

RunnerInv ==
  /\ TypeOK
  /\ IsInjective(queue)
  /\ closing # "no" => queue = << >>
  /\ \A r \in Runs : RunAgrees(r)
  /\ BootIsFresh
  /\ NoIdleSlot
  /\ NoRunLost

-----------------------------------------------------------------------------
(* Facts about the queue.                                                   *)

\* Removing the i-th request shifts the later ones by one place.
LEMMA RemoveAtFacts ==
  ASSUME NEW S, NEW s \in Seq(S), NEW i \in DOMAIN s
  PROVE  /\ RemoveAt(s, i) \in Seq(S)
         /\ Len(RemoveAt(s, i)) = Len(s) - 1
         /\ \A j \in 1 .. Len(s) - 1 :
              RemoveAt(s, i)[j] = IF j < i THEN s[j] ELSE s[j + 1]
<1> DEFINE front == SubSeq(s, 1, i - 1)
           back == SubSeq(s, i + 1, Len(s))
<1>1. Len(s) \in Nat /\ i \in 1 .. Len(s) /\ \A j \in 1 .. Len(s) : s[j] \in S
  BY LenProperties, ElementOfSeq
<1>2. /\ front \in Seq(S)
      /\ Len(front) = i - 1
      /\ \A j \in 1 .. i - 1 : front[j] = s[j]
  <2>1. \A j \in 1 .. i - 1 : s[j] \in S
    BY <1>1
  <2>2. /\ front \in Seq(S)
        /\ Len(front) = IF 1 <= i - 1 THEN (i - 1) - 1 + 1 ELSE 0
        /\ \A j \in 1 .. (i - 1) - 1 + 1 : front[j] = s[1 + j - 1]
    BY <1>1, <2>1, SubSeqProperties
  <2> QED BY <1>1, <2>2
<1>3. /\ back \in Seq(S)
      /\ Len(back) = Len(s) - i
      /\ \A j \in 1 .. Len(s) - i : back[j] = s[i + j]
  <2>1. \A j \in i + 1 .. Len(s) : s[j] \in S
    BY <1>1
  <2>2. /\ back \in Seq(S)
        /\ Len(back) = IF i + 1 <= Len(s) THEN Len(s) - (i + 1) + 1 ELSE 0
        /\ \A j \in 1 .. Len(s) - (i + 1) + 1 : back[j] = s[(i + 1) + j - 1]
    BY <1>1, <2>1, SubSeqProperties
  <2> QED BY <1>1, <2>2
<1>4. /\ front \o back \in Seq(S)
      /\ Len(front \o back) = Len(front) + Len(back)
      /\ \A j \in 1 .. Len(front) + Len(back) :
           (front \o back)[j] = IF j <= Len(front) THEN front[j] ELSE back[j - Len(front)]
  BY <1>2, <1>3, ConcatProperties
<1>5. RemoveAt(s, i) = front \o back
  BY DEF RemoveAt
<1> HIDE DEF front, back
<1>6. ASSUME NEW j \in 1 .. Len(s) - 1
      PROVE (front \o back)[j] = IF j < i THEN s[j] ELSE s[j + 1]
  <2>1. /\ Len(front) = i - 1
        /\ j \in 1 .. Len(front) + Len(back)
        /\ i \in Int /\ j \in Int
    BY <1>1, <1>2, <1>3
  <2>2. (front \o back)[j] = IF j <= i - 1 THEN front[j] ELSE back[j - (i - 1)]
    BY <1>4, <2>1
  <2>3. CASE j < i
    <3>1. j \in 1 .. i - 1
      BY <2>1, <2>3
    <3>2. front[j] = s[j]
      BY <1>2, <3>1
    <3>3. j <= i - 1
      BY <3>1
    <3> QED BY <2>2, <2>3, <3>2, <3>3
  <2>4. CASE ~(j < i)
    <3>1. j - (i - 1) \in 1 .. Len(s) - i /\ ~(j <= i - 1) /\ i + (j - (i - 1)) = j + 1
      BY <1>1, <2>1, <2>4
    <3>2. back[j - (i - 1)] = s[i + (j - (i - 1))]
      BY <1>3, <3>1
    <3> QED BY <2>2, <2>4, <3>1, <3>2
  <2> QED BY <2>3, <2>4
<1>7. Len(front) + Len(back) = Len(s) - 1
  BY <1>1, <1>2, <1>3
<1>8. Len(front \o back) = Len(s) - 1
  BY <1>4, <1>7
<1> QED BY <1>4, <1>5, <1>6, <1>8

\* Removing an element of a queue without duplicates removes nothing else.
LEMMA RemoveAtRemoves ==
  ASSUME NEW S, NEW s \in Seq(S), IsInjective(s), NEW i \in DOMAIN s
  PROVE  /\ RemoveAt(s, i) \in Seq(S)
         /\ IsInjective(RemoveAt(s, i))
         /\ ToSet(RemoveAt(s, i)) = ToSet(s) \ {s[i]}
<1> DEFINE t == RemoveAt(s, i)
<1>1. Len(s) \in Nat /\ DOMAIN s = 1 .. Len(s) /\ i \in 1 .. Len(s)
  BY LenProperties
<1>2. /\ t \in Seq(S) /\ Len(t) = Len(s) - 1
      /\ \A j \in 1 .. Len(s) - 1 : t[j] = IF j < i THEN s[j] ELSE s[j + 1]
  BY RemoveAtFacts
<1>3. DOMAIN t = 1 .. Len(s) - 1
  BY <1>2, LenProperties
<1> HIDE DEF t
<1> DEFINE at(j) == IF j < i THEN j ELSE j + 1
<1>4. ASSUME NEW j \in 1 .. Len(s) - 1
      PROVE at(j) \in 1 .. Len(s) /\ at(j) # i /\ t[j] = s[at(j)]
  BY <1>1, <1>2
<1>5. IsInjective(t)
  <2> SUFFICES ASSUME NEW j \in 1 .. Len(s) - 1, NEW k \in 1 .. Len(s) - 1, t[j] = t[k]
               PROVE j = k
    BY <1>3 DEF IsInjective
  <2>1. at(j) = at(k)
    BY <1>1, <1>4 DEF IsInjective
  <2> QED BY <1>1, <2>1
<1>6. ASSUME NEW x \in ToSet(t) PROVE x \in ToSet(s) \ {s[i]}
  <2>1. PICK j \in 1 .. Len(s) - 1 : x = t[j]
    BY <1>3 DEF ToSet
  <2>2. at(j) \in 1 .. Len(s) /\ at(j) # i /\ x = s[at(j)]
    BY <1>4, <2>1
  <2> HIDE DEF at
  <2> QED BY <1>1, <2>2 DEF ToSet, IsInjective
<1>7. ASSUME NEW x \in ToSet(s) \ {s[i]} PROVE x \in ToSet(t)
  <2>1. PICK k \in 1 .. Len(s) : x = s[k]
    BY <1>1 DEF ToSet
  <2>2. k # i
    BY <1>7, <2>1
  <2>3. CASE k < i
    <3>1. k \in 1 .. Len(s) - 1 /\ t[k] = x
      BY <1>1, <1>2, <2>1, <2>3
    <3> QED BY <1>3, <3>1 DEF ToSet
  <2>4. CASE i < k
    <3>1. k - 1 \in 1 .. Len(s) - 1 /\ ~(k - 1 < i) /\ (k - 1) + 1 = k
      BY <1>1, <2>4
    <3>2. t[k - 1] = x
      BY <1>2, <2>1, <3>1
    <3> QED BY <1>3, <3>1, <3>2 DEF ToSet
  <2> QED BY <1>1, <2>2, <2>3, <2>4
<1> QED BY <1>2, <1>5, <1>6, <1>7 DEF t

\* Adding somebody who does not wait yet.
LEMMA AppendAdds ==
  ASSUME NEW S, NEW s \in Seq(S), IsInjective(s), NEW x \in S, x \notin ToSet(s)
  PROVE  /\ Append(s, x) \in Seq(S)
         /\ IsInjective(Append(s, x))
         /\ ToSet(Append(s, x)) = ToSet(s) \cup {x}
<1>1. Len(s) \in Nat /\ DOMAIN s = 1 .. Len(s)
  BY LenProperties
<1>2. /\ Append(s, x) \in Seq(S)
      /\ Len(Append(s, x)) = Len(s) + 1
      /\ \A i \in 1 .. Len(s) : Append(s, x)[i] = s[i]
      /\ Append(s, x)[Len(s) + 1] = x
  BY AppendProperties
<1> DEFINE t == Append(s, x)
<1>3. DOMAIN t = 1 .. Len(s) + 1
  BY <1>2, LenProperties
<1> HIDE DEF t
<1>4. /\ \A i \in 1 .. Len(s) : t[i] = s[i] /\ t[i] # x
      /\ t[Len(s) + 1] = x
  BY <1>1, <1>2 DEF t, ToSet
<1>5. \A i \in 1 .. Len(s) + 1 : i \in 1 .. Len(s) \/ i = Len(s) + 1
  BY <1>1
<1>6. IsInjective(t)
  BY <1>1, <1>3, <1>4, <1>5 DEF IsInjective
<1>7. ToSet(t) = ToSet(s) \cup {x}
  BY <1>1, <1>3, <1>4, <1>5 DEF ToSet
<1> QED BY <1>2, <1>6, <1>7 DEF t

\* The first n of a queue leave it, in order, and the others stay.
LEMMA FrontLeaves ==
  ASSUME NEW S, NEW q \in Seq(S), IsInjective(q), NEW n \in 0 .. Len(q)
  PROVE  LET front == ToSet(SubSeq(q, 1, n))
             back == SubSeq(q, n + 1, Len(q))
         IN /\ front \subseteq ToSet(q)
            /\ IsFiniteSet(front) /\ Cardinality(front) = n
            /\ back \in Seq(S) /\ IsInjective(back) /\ Len(back) = Len(q) - n
            /\ ToSet(back) = ToSet(q) \ front
<1> DEFINE front == SubSeq(q, 1, n)
           back == SubSeq(q, n + 1, Len(q))
<1>1. Len(q) \in Nat /\ DOMAIN q = 1 .. Len(q) /\ \A j \in 1 .. Len(q) : q[j] \in S
  BY LenProperties, ElementOfSeq
<1>2. /\ front \in Seq(S) /\ Len(front) = n
      /\ \A j \in 1 .. n : front[j] = q[j]
  <2>1. /\ front \in Seq(S)
        /\ Len(front) = IF 1 <= n THEN n - 1 + 1 ELSE 0
        /\ \A j \in 1 .. n - 1 + 1 : front[j] = q[1 + j - 1]
    <3>1. 1 \in Int /\ n \in Int /\ \A j \in 1 .. n : q[j] \in S
      BY <1>1
    <3> QED BY <3>1, SubSeqProperties
  <2> QED BY <1>1, <2>1
<1>3. /\ back \in Seq(S) /\ Len(back) = Len(q) - n
      /\ \A j \in 1 .. Len(q) - n : back[j] = q[n + j]
  <2>1. /\ back \in Seq(S)
        /\ Len(back) = IF n + 1 <= Len(q) THEN Len(q) - (n + 1) + 1 ELSE 0
        /\ \A j \in 1 .. Len(q) - (n + 1) + 1 : back[j] = q[(n + 1) + j - 1]
    <3>1. n + 1 \in Int /\ Len(q) \in Int /\ \A j \in n + 1 .. Len(q) : q[j] \in S
      BY <1>1
    <3> QED BY <3>1, SubSeqProperties
  <2>2. ASSUME NEW j \in 1 .. Len(q) - n PROVE (n + 1) + j - 1 = n + j
    <3>1. n \in Int /\ j \in Int
      BY <1>1
    <3> HIDE DEF back
    <3> QED BY <3>1
  <2>3. Len(q) - (n + 1) + 1 = Len(q) - n /\ (n + 1 <= Len(q) \/ Len(q) - n = 0)
    <3>1. Len(q) \in Int /\ n \in Int /\ n <= Len(q)
      BY <1>1
    <3> QED BY <3>1
  <2>4. Len(back) = Len(q) - n
    <3> HIDE DEF back
    <3> QED BY <1>1, <2>1, <2>3
  <2> HIDE DEF back
  <2> QED BY <2>1, <2>2, <2>3, <2>4
<1>4. DOMAIN front = 1 .. n /\ DOMAIN back = 1 .. Len(q) - n
  BY <1>2, <1>3, LenProperties
<1> HIDE DEF front, back
<1>5. ToSet(front) \subseteq ToSet(q)
  BY <1>1, <1>2, <1>4 DEF ToSet
<1>6. IsFiniteSet(ToSet(front)) /\ Cardinality(ToSet(front)) = n
  <2>1. IsFiniteSet(1 .. n) /\ Cardinality(1 .. n) = n
    BY FS_Interval
  <2>2. front \in Bijection(1 .. n, ToSet(front))
    <3>1. front \in [1 .. n -> ToSet(front)]
      BY <1>2, <1>4 DEF ToSet
    <3>2. \A i, j \in 1 .. n : front[i] = front[j] => i = j
      BY <1>1, <1>2 DEF IsInjective
    <3>4. DOMAIN front = 1 .. n
      BY <1>4
    <3>3. \A x \in ToSet(front) : \E i \in 1 .. n : front[i] = x
      BY <1>4 DEF ToSet
    <3> QED BY <3>1, <3>2, <3>3, <3>4 DEF Bijection, Injection, Surjection, IsInjective
  <2>3. ExistsBijection(1 .. n, ToSet(front))
    BY <2>2 DEF ExistsBijection
  <2> QED BY <2>1, <2>3, FS_Bijection
<1>7. IsInjective(back)
  <2> SUFFICES ASSUME NEW i \in 1 .. Len(q) - n, NEW j \in 1 .. Len(q) - n, back[i] = back[j]
               PROVE i = j
    BY <1>4 DEF IsInjective
  <2>1. n + i \in 1 .. Len(q) /\ n + j \in 1 .. Len(q) /\ q[n + i] = q[n + j]
    BY <1>1, <1>3
  <2>2. n + i = n + j
    BY <1>1, <2>1 DEF IsInjective
  <2> QED BY <1>1, <2>2
<1>8. ToSet(back) = ToSet(q) \ ToSet(front)
  <2>1. ASSUME NEW x \in ToSet(back) PROVE x \in ToSet(q) \ ToSet(front)
    <3>1. PICK j \in 1 .. Len(q) - n : x = back[j]
      BY <1>4 DEF ToSet
    <3>2. n + j \in 1 .. Len(q) /\ x = q[n + j]
      BY <1>1, <1>3, <3>1
    <3>3. ASSUME x \in ToSet(front) PROVE FALSE
      <4>1. PICK i \in 1 .. n : x = front[i]
        BY <1>4, <3>3 DEF ToSet
      <4>2. i \in 1 .. Len(q) /\ q[i] = q[n + j]
        BY <1>1, <1>2, <3>2, <4>1
      <4>3. i = n + j
        BY <1>1, <3>2, <4>2 DEF IsInjective
      <4> QED BY <4>3
    <3> QED BY <1>1, <3>2, <3>3 DEF ToSet
  <2>2. ASSUME NEW x \in ToSet(q) \ ToSet(front) PROVE x \in ToSet(back)
    <3>1. PICK i \in 1 .. Len(q) : x = q[i]
      BY <1>1 DEF ToSet
    <3>2. CASE i <= n
      <4>1. i \in 1 .. n
        BY <3>1, <3>2
      <4> QED BY <1>2, <1>4, <2>2, <3>1, <4>1 DEF ToSet
    <3>3. CASE ~(i <= n)
      <4>1. i - n \in 1 .. Len(q) - n /\ n + (i - n) = i
        BY <1>1, <3>3
      <4>2. back[i - n] = x
        BY <1>3, <3>1, <4>1
      <4> QED BY <1>4, <4>1, <4>2 DEF ToSet
    <3> QED BY <3>2, <3>3
  <2> QED BY <2>1, <2>2
<1> QED BY <1>3, <1>5, <1>6, <1>7, <1>8 DEF front, back

-----------------------------------------------------------------------------
(* The pump.                                                                *)

\* pump() claims runs from the front of the queue, and leaves some behind only
\* when the cap is reached.
LEMMA PumpFacts ==
  ASSUME NEW q \in Seq(Runs), IsInjective(q), NEW c \in SUBSET Runs,
         Cardinality(c) <= MaxConcurrentRuns, c \cap ToSet(q) = {}, Pump(q, c)
  PROVE  \E next \in SUBSET ToSet(q) :
           /\ queue' \in Seq(Runs) /\ IsInjective(queue') /\ ToSet(queue') = ToSet(q) \ next
           /\ claimed' = c \cup next
           /\ Cardinality(claimed') <= MaxConcurrentRuns
           /\ exec' = [r \in Runs |-> IF r \in next THEN "claim"
                                      ELSE IF r \in c THEN exec[r] ELSE "none"]
           /\ closing = "no" /\ queue' # << >> => Cardinality(claimed') = MaxConcurrentRuns
           /\ closing # "no" => next = {} /\ queue' = q
<1> DEFINE free == IF closing # "no" THEN 0 ELSE MaxConcurrentRuns - Cardinality(c)
           n == IF free < Len(q) THEN free ELSE Len(q)
           next == ToSet(SubSeq(q, 1, n))
           back == SubSeq(q, n + 1, Len(q))
<1>1. IsFiniteSet(c) /\ Cardinality(c) \in Nat /\ MaxConcurrentRuns \in Nat
  BY AutomationAssumption, FS_Subset, FS_CardinalityType
<1>2. Len(q) \in Nat
  BY LenProperties
<1>3. free \in Nat /\ n \in 0 .. Len(q) /\ n <= free
  BY <1>1, <1>2
<1> HIDE DEF n
<1>4. /\ next \subseteq ToSet(q)
      /\ IsFiniteSet(next) /\ Cardinality(next) = n
      /\ back \in Seq(Runs) /\ IsInjective(back) /\ Len(back) = Len(q) - n
      /\ ToSet(back) = ToSet(q) \ next
  BY <1>3, FrontLeaves
<1>5. /\ queue' = back
      /\ claimed' = c \cup next
      /\ exec' = [r \in Runs |-> IF r \in next THEN "claim"
                                 ELSE IF r \in c THEN exec[r] ELSE "none"]
  BY DEF Pump, n
<1> HIDE DEF next, back
<1>6. Cardinality(c \cup next) = Cardinality(c) + n
  <2>1. c \cap next = {}
    BY <1>4
  <2>2. Cardinality(c \cup next) = Cardinality(c) + Cardinality(next) - Cardinality(c \cap next)
    BY <1>1, <1>4, FS_Union
  <2>3. Cardinality(c \cap next) = 0
    BY <2>1, FS_EmptySet
  <2> QED BY <1>1, <1>3, <1>4, <2>2, <2>3
<1>7. Cardinality(claimed') <= MaxConcurrentRuns
  BY <1>1, <1>2, <1>3, <1>5, <1>6
<1>8. ASSUME closing = "no", queue' # << >> PROVE Cardinality(claimed') = MaxConcurrentRuns
  <2>1. Len(back) # 0
    BY <1>4, <1>5, <1>8, EmptySeq
  <2>2. n = free
    BY <1>2, <1>3, <1>4, <2>1 DEF n
  <2> QED BY <1>1, <1>5, <1>6, <1>8, <2>2
<1>9. ASSUME closing # "no" PROVE next = {} /\ queue' = q
  <2>1. n = 0
    BY <1>2, <1>9 DEF n
  <2>2. next = {}
    BY <1>4, <2>1, FS_EmptySet
  <2>3. back = q
    BY <2>1, <1>2 DEF back
  <2> QED BY <1>5, <2>2, <2>3
<1> QED BY <1>4, <1>5, <1>7, <1>8, <1>9

-----------------------------------------------------------------------------
(* The invariant is inductive.                                              *)

LEMMA RunnerInit == Init => RunnerInv
<1> SUFFICES ASSUME Init PROVE RunnerInv
  OBVIOUS
<1>1. ToSet(queue) = {} /\ IsInjective(queue) /\ queue = << >> /\ queue \in Seq(Runs)
  BY EmptySeq DEF Init, ToSet, IsInjective
<1>2. TypeOK
  <2>1. Cardinality({}) = 0
    BY FS_EmptySet
  <2> QED BY <1>1, <2>1, AutomationAssumption
       DEF Init, TypeOK, RunStatuses, JobStatuses, ExecSteps, WorkSteps
<1>3. \A r \in Runs : RunAgrees(r)
  BY <1>1 DEF Init, RunAgrees, InOnePlace, ExecAgrees, WorkAgrees, CancelAgrees, JobAgrees,
              TabAgrees, JobStatusOf
<1>4. BootIsFresh /\ NoIdleSlot /\ NoRunLost
  BY <1>1 DEF Init, BootIsFresh, NoIdleSlot, NoRunLost, Up
<1> QED BY <1>1, <1>2, <1>3, <1>4 DEF RunnerInv

Queues == <<making, queue, claimed, closing, server, restarts>>

\* A step of run r that leaves the queue, the claims and the other runs alone
\* keeps the invariant if what is said of r itself stays true.
LEMMA StepOfOneRun ==
  ASSUME RunnerInv, Up, TypeOK', UNCHANGED Queues, NEW r \in Runs, RunAgrees(r)',
         \A q \in Runs \ {r} :
           /\ runStatus'[q] = runStatus[q] /\ jobStatus'[q] = jobStatus[q]
           /\ exec'[q] = exec[q] /\ work'[q] = work[q] /\ outcome'[q] = outcome[q]
           /\ cancelling'[q] = cancelling[q]
           /\ q \in tab' <=> q \in tab,
         runStatus'[r] = "queued" /\ closing = "no" =>
           \/ r \in making \cup ToSet(queue)
           \/ exec'[r] \in {"claim", "start"}
           \/ cancelling'[r] # "no"
  PROVE  RunnerInv'
<1>1. \A q \in Runs : RunAgrees(q)'
  <2> SUFFICES ASSUME NEW q \in Runs \ {r} PROVE RunAgrees(q)'
    OBVIOUS
  <2>1. RunAgrees(q)
    BY DEF RunnerInv
  <2> QED BY <2>1 DEF Queues, RunAgrees, InOnePlace, ExecAgrees, WorkAgrees, CancelAgrees,
                      JobAgrees, TabAgrees
<1>2. IsInjective(queue)' /\ (closing # "no" => queue = << >>)' /\ NoIdleSlot'
  BY DEF RunnerInv, Queues, NoIdleSlot
<1>3. BootIsFresh'
  BY DEF Queues, BootIsFresh, Up
<1>4. NoRunLost'
  BY DEF RunnerInv, Queues, NoRunLost, Up
<1> QED BY <1>1, <1>2, <1>3, <1>4 DEF RunnerInv

\* finishCancelled keeps the invariant.
LEMMA FinishKeepsInv ==
  ASSUME RunnerInv, Up, NEW r \in Runs, FinishReads(r) \/ FinishRun(r) \/ FinishJob(r)
  PROVE  RunnerInv'
<1>1. RunAgrees(r) /\ TypeOK
  BY DEF RunnerInv
<1>2. UNCHANGED Queues
  BY DEF FinishReads, FinishRun, FinishJob, outside, Queues
<1>3. CASE FinishReads(r)
  <2>1. TypeOK'
    BY <1>1, <1>3 DEF FinishReads, TypeOK, outside, rows
  <2>2. RunAgrees(r)'
    BY <1>1, <1>3 DEF FinishReads, TypeOK, outside, rows, RunAgrees, InOnePlace, ExecAgrees,
                      WorkAgrees, CancelAgrees, JobAgrees, TabAgrees
  <2>3. runStatus'[r] = "queued" => cancelling'[r] # "no"
    BY <1>1, <1>3 DEF FinishReads, TypeOK, rows
  <2> QED BY <1>1, <1>2, <1>3, <2>1, <2>2, <2>3, StepOfOneRun
       DEF FinishReads, TypeOK, outside, rows
<1>4. CASE FinishRun(r)
  <2>1. TypeOK'
    BY <1>1, <1>4 DEF FinishRun, SetRun, TypeOK, outside, RunStatuses
  <2>2. RunAgrees(r)'
    BY <1>1, <1>4 DEF FinishRun, SetRun, TypeOK, outside, RunAgrees, InOnePlace, ExecAgrees,
                      WorkAgrees, CancelAgrees, JobAgrees, TabAgrees
  <2>3. runStatus'[r] # "queued"
    BY <1>1, <1>4 DEF FinishRun, SetRun, TypeOK
  <2> QED BY <1>1, <1>2, <1>4, <2>1, <2>2, <2>3, StepOfOneRun
       DEF FinishRun, SetRun, TypeOK, outside
<1>5. CASE FinishJob(r)
  <2>1. TypeOK'
    BY <1>1, <1>5 DEF FinishJob, SetJob, TypeOK, outside, JobStatuses, RunStatuses
  <2>2. RunAgrees(r)'
    BY <1>1, <1>5 DEF FinishJob, SetJob, TypeOK, outside, RunAgrees, InOnePlace, ExecAgrees,
                      WorkAgrees, CancelAgrees, JobAgrees, TabAgrees, JobStatusOf
  <2>3. runStatus'[r] # "queued"
    BY <1>1, <1>5 DEF FinishJob, SetJob, RunAgrees, CancelAgrees
  <2> QED BY <1>1, <1>2, <1>5, <2>1, <2>2, <2>3, StepOfOneRun
       DEF FinishJob, SetJob, TypeOK, outside
<1> QED BY <1>3, <1>4, <1>5

\* From the claim of a run to the start of its race.
LEMMA ExecBeginsKeepsInv ==
  ASSUME RunnerInv, Up, NEW r \in Runs,
         Claim(r) \/ StartRun(r) \/ StartJob(r) \/ (Turn /\ TimesOut(r))
  PROVE  RunnerInv'
<1>1. RunAgrees(r) /\ TypeOK
  BY DEF RunnerInv
<1>2. UNCHANGED Queues
  BY DEF Claim, StartRun, StartJob, TimesOut, outside, Queues
<1>3. CASE Claim(r)
  <2>1. TypeOK'
    BY <1>1, <1>3 DEF Claim, ExecGoto, outside, rows, TypeOK, RunStatuses, JobStatuses,
       ExecSteps, WorkSteps
  <2>2. RunAgrees(r)'
    BY <1>1, <1>3 DEF Claim, ExecGoto, outside, rows, TypeOK, RunAgrees, InOnePlace,
       ExecAgrees, WorkAgrees, CancelAgrees, JobAgrees, TabAgrees
  <2>3. runStatus'[r] = "queued" /\ closing = "no" => exec'[r] = "start"
    BY <1>1, <1>3 DEF Claim, ExecGoto, outside, rows, TypeOK, RunAgrees, ExecAgrees, WorkAgrees
  <2> QED BY <1>1, <1>2, <1>3, <2>1, <2>2, <2>3, StepOfOneRun
       DEF Claim, ExecGoto, outside, rows, TypeOK
<1>4. CASE StartRun(r)
  <2>1. TypeOK'
    BY <1>1, <1>4 DEF StartRun, SetRun, ExecGoto, outside, TypeOK, RunStatuses, JobStatuses,
       ExecSteps, WorkSteps
  <2>2. RunAgrees(r)'
    BY <1>1, <1>4 DEF StartRun, SetRun, ExecGoto, outside, TypeOK, RunAgrees, InOnePlace,
       ExecAgrees, WorkAgrees, CancelAgrees, JobAgrees, TabAgrees
  <2>3. runStatus'[r] # "queued"
    BY <1>1, <1>4 DEF StartRun, SetRun, ExecGoto, outside, TypeOK, RunAgrees, ExecAgrees,
       WorkAgrees
  <2> QED BY <1>1, <1>2, <1>4, <2>1, <2>2, <2>3, StepOfOneRun
       DEF StartRun, SetRun, ExecGoto, outside, TypeOK
<1>5. CASE StartJob(r)
  <2>1. TypeOK'
    BY <1>1, <1>5 DEF StartJob, SetJob, ExecGoto, WorkGoto, outside, TypeOK, RunStatuses,
       JobStatuses, ExecSteps, WorkSteps
  <2>2. RunAgrees(r)'
    BY <1>1, <1>5 DEF StartJob, SetJob, ExecGoto, WorkGoto, outside, TypeOK, RunAgrees,
       InOnePlace, ExecAgrees, WorkAgrees, CancelAgrees, JobAgrees, TabAgrees, JobStatusOf
  <2>3. runStatus'[r] # "queued"
    BY <1>1, <1>5 DEF StartJob, SetJob, ExecGoto, WorkGoto, outside, TypeOK, RunAgrees,
       ExecAgrees, WorkAgrees
  <2> QED BY <1>1, <1>2, <1>5, <2>1, <2>2, <2>3, StepOfOneRun
       DEF StartJob, SetJob, ExecGoto, WorkGoto, outside, TypeOK
<1>6. CASE Turn /\ TimesOut(r)
  <2>0. ~Midway(r)
    BY <1>6 DEF Turn, NobodyMidway
  <2>1. TypeOK'
    BY <1>1, <1>6 DEF TimesOut, ExecGoto, outside, rows, TypeOK, RunStatuses, JobStatuses,
       ExecSteps, WorkSteps
  <2>2. RunAgrees(r)'
    BY <1>1, <2>0, <1>6 DEF TimesOut, ExecGoto, outside, rows, TypeOK, RunAgrees, InOnePlace,
       ExecAgrees, WorkAgrees, CancelAgrees, JobAgrees, TabAgrees, Midway
  <2>3. runStatus'[r] # "queued"
    BY <1>1, <2>0, <1>6 DEF TimesOut, ExecGoto, outside, rows, TypeOK, RunAgrees, ExecAgrees,
       WorkAgrees
  <2> QED BY <1>1, <1>2, <1>6, <2>1, <2>2, <2>3, StepOfOneRun
       DEF TimesOut, ExecGoto, outside, rows, TypeOK
<1> QED BY <1>3, <1>4, <1>5, <1>6

\* From the end of the race to the closing of the tab.
LEMMA ExecEndsKeepsInv ==
  ASSUME RunnerInv, Up, NEW r \in Runs,
         WorkWins(r) \/ Fail(r) \/ FailJob(r) \/ Cancelled(r) \/ CloseTab(r)
  PROVE  RunnerInv'
<1>1. RunAgrees(r) /\ TypeOK
  BY DEF RunnerInv
<1>2. UNCHANGED Queues
  BY DEF WorkWins, Fail, FailJob, Cancelled, CloseTab, outside, Queues
<1>3. CASE WorkWins(r)
  <2>1. TypeOK'
    BY <1>1, <1>3 DEF WorkWins, ExecGoto, outside, rows, TypeOK, RunStatuses, JobStatuses,
       ExecSteps, WorkSteps
  <2>2. RunAgrees(r)'
    BY <1>1, <1>3 DEF WorkWins, ExecGoto, outside, rows, TypeOK, RunAgrees, InOnePlace,
       ExecAgrees, WorkAgrees, CancelAgrees, JobAgrees, TabAgrees
  <2>3. runStatus'[r] # "queued"
    BY <1>1, <1>3 DEF WorkWins, ExecGoto, outside, rows, TypeOK, RunAgrees, ExecAgrees,
       WorkAgrees
  <2> QED BY <1>1, <1>2, <1>3, <2>1, <2>2, <2>3, StepOfOneRun
       DEF WorkWins, ExecGoto, outside, rows, TypeOK
<1>4. CASE Fail(r)
  <2>1. TypeOK'
    BY <1>1, <1>4 DEF Fail, SetRun, ExecGoto, outside, TypeOK, RunStatuses, JobStatuses,
       ExecSteps, WorkSteps
  <2>2. RunAgrees(r)'
    BY <1>1, <1>4 DEF Fail, SetRun, ExecGoto, outside, TypeOK, RunAgrees, InOnePlace,
       ExecAgrees, WorkAgrees, CancelAgrees, JobAgrees, TabAgrees
  <2>3. runStatus'[r] # "queued"
    BY <1>1, <1>4 DEF Fail, SetRun, ExecGoto, outside, TypeOK, RunAgrees, ExecAgrees, WorkAgrees
  <2> QED BY <1>1, <1>2, <1>4, <2>1, <2>2, <2>3, StepOfOneRun
       DEF Fail, SetRun, ExecGoto, outside, TypeOK
<1>5. CASE FailJob(r)
  <2>1. TypeOK'
    BY <1>1, <1>5 DEF FailJob, SetJob, ExecGoto, outside, TypeOK, RunStatuses, JobStatuses,
       ExecSteps, WorkSteps
  <2>2. RunAgrees(r)'
    BY <1>1, <1>5 DEF FailJob, SetJob, ExecGoto, outside, TypeOK, RunAgrees, InOnePlace,
       ExecAgrees, WorkAgrees, CancelAgrees, JobAgrees, TabAgrees, JobStatusOf
  <2>3. runStatus'[r] # "queued"
    BY <1>1, <1>5 DEF FailJob, SetJob, ExecGoto, outside, TypeOK, RunAgrees, ExecAgrees,
       WorkAgrees
  <2> QED BY <1>1, <1>2, <1>5, <2>1, <2>2, <2>3, StepOfOneRun
       DEF FailJob, SetJob, ExecGoto, outside, TypeOK
<1>6. CASE Cancelled(r)
  <2>1. TypeOK'
    BY <1>1, <1>6 DEF Cancelled, ExecGoto, outside, rows, TypeOK, RunStatuses, JobStatuses,
       ExecSteps, WorkSteps
  <2>2. RunAgrees(r)'
    BY <1>1, <1>6 DEF Cancelled, ExecGoto, outside, rows, TypeOK, RunAgrees, InOnePlace,
       ExecAgrees, WorkAgrees, CancelAgrees, JobAgrees, TabAgrees
  <2>3. runStatus'[r] = "queued" /\ closing = "no" => FALSE
    BY <1>1, <1>6 DEF Cancelled, ExecGoto, outside, rows, TypeOK, RunAgrees, ExecAgrees,
       WorkAgrees
  <2> QED BY <1>1, <1>2, <1>6, <2>1, <2>2, <2>3, StepOfOneRun
       DEF Cancelled, ExecGoto, outside, rows, TypeOK
<1>7. CASE CloseTab(r)
  <2>1. TypeOK'
    BY <1>1, <1>7 DEF CloseTab, ExecGoto, outside, rows, TypeOK, RunStatuses, JobStatuses,
       ExecSteps, WorkSteps
  <2>2. RunAgrees(r)'
    BY <1>1, <1>7 DEF CloseTab, ExecGoto, outside, rows, TypeOK, RunAgrees, InOnePlace,
       ExecAgrees, WorkAgrees, CancelAgrees, JobAgrees, TabAgrees
  <2>3. runStatus'[r] = "queued" /\ closing = "no" => FALSE
    BY <1>1, <1>7 DEF CloseTab, ExecGoto, outside, rows, TypeOK, RunAgrees, ExecAgrees,
       WorkAgrees
  <2> QED BY <1>1, <1>2, <1>7, <2>1, <2>2, <2>3, StepOfOneRun
       DEF CloseTab, ExecGoto, outside, rows, TypeOK
<1> QED BY <1>3, <1>4, <1>5, <1>6, <1>7

\* The steps of the script.
LEMMA WorkKeepsInv ==
  ASSUME RunnerInv, Up, NEW r \in Runs,
         (Turn /\ OpenTab(r)) \/ (Turn /\ StepThrows(r)) \/ (Turn /\
         LastStep(r)) \/ Complete(r) \/ CompleteJob(r)
  PROVE  RunnerInv'
<1>1. RunAgrees(r) /\ TypeOK
  BY DEF RunnerInv
<1>2. UNCHANGED Queues
  BY DEF OpenTab, StepThrows, LastStep, Complete, CompleteJob, outside, Queues
<1>3. CASE Turn /\ OpenTab(r)
  <2>0. ~Midway(r)
    BY <1>3 DEF Turn, NobodyMidway
  <2>1. TypeOK'
    BY <1>1, <1>3 DEF OpenTab, WorkGoto, outside, rows, TypeOK, RunStatuses, JobStatuses,
       ExecSteps, WorkSteps
  <2>2. RunAgrees(r)'
    BY <1>1, <2>0, <1>3 DEF OpenTab, WorkGoto, outside, rows, TypeOK, RunAgrees, InOnePlace,
       ExecAgrees, WorkAgrees, CancelAgrees, JobAgrees, TabAgrees, Midway
  <2>3. runStatus'[r] # "queued"
    BY <1>1, <2>0, <1>3 DEF OpenTab, WorkGoto, outside, rows, TypeOK, RunAgrees, ExecAgrees,
       WorkAgrees
  <2> QED BY <1>1, <1>2, <1>3, <2>1, <2>2, <2>3, StepOfOneRun
       DEF OpenTab, WorkGoto, outside, rows, TypeOK
<1>4. CASE Turn /\ StepThrows(r)
  <2>0. ~Midway(r)
    BY <1>4 DEF Turn, NobodyMidway
  <2>1. TypeOK'
    BY <1>1, <1>4 DEF StepThrows, WorkGoto, outside, rows, TypeOK, RunStatuses, JobStatuses,
       ExecSteps, WorkSteps
  <2>2. RunAgrees(r)'
    BY <1>1, <2>0, <1>4 DEF StepThrows, WorkGoto, outside, rows, TypeOK, RunAgrees,
       InOnePlace, ExecAgrees, WorkAgrees, CancelAgrees, JobAgrees, TabAgrees, Midway
  <2>3. runStatus'[r] # "queued"
    BY <1>1, <2>0, <1>4 DEF StepThrows, WorkGoto, outside, rows, TypeOK, RunAgrees,
       ExecAgrees, WorkAgrees
  <2> QED BY <1>1, <1>2, <1>4, <2>1, <2>2, <2>3, StepOfOneRun
       DEF StepThrows, WorkGoto, outside, rows, TypeOK
<1>5. CASE Turn /\ LastStep(r)
  <2>0. ~Midway(r)
    BY <1>5 DEF Turn, NobodyMidway
  <2>1. TypeOK'
    BY <1>1, <1>5 DEF LastStep, WorkGoto, outside, rows, TypeOK, RunStatuses, JobStatuses,
       ExecSteps, WorkSteps
  <2>2. RunAgrees(r)'
    BY <1>1, <2>0, <1>5 DEF LastStep, WorkGoto, outside, rows, TypeOK, RunAgrees, InOnePlace,
       ExecAgrees, WorkAgrees, CancelAgrees, JobAgrees, TabAgrees, Midway
  <2>3. runStatus'[r] # "queued"
    BY <1>1, <2>0, <1>5 DEF LastStep, WorkGoto, outside, rows, TypeOK, RunAgrees, ExecAgrees,
       WorkAgrees
  <2> QED BY <1>1, <1>2, <1>5, <2>1, <2>2, <2>3, StepOfOneRun
       DEF LastStep, WorkGoto, outside, rows, TypeOK
<1>6. CASE Complete(r)
  <2>1. TypeOK'
    BY <1>1, <1>6 DEF Complete, SetRun, WorkGoto, outside, TypeOK, RunStatuses, JobStatuses,
       ExecSteps, WorkSteps
  <2>2. RunAgrees(r)'
    BY <1>1, <1>6 DEF Complete, SetRun, WorkGoto, outside, TypeOK, RunAgrees, InOnePlace,
       ExecAgrees, WorkAgrees, CancelAgrees, JobAgrees, TabAgrees
  <2>3. runStatus'[r] # "queued"
    BY <1>1, <1>6 DEF Complete, SetRun, WorkGoto, outside, TypeOK, RunAgrees, ExecAgrees,
       WorkAgrees
  <2> QED BY <1>1, <1>2, <1>6, <2>1, <2>2, <2>3, StepOfOneRun
       DEF Complete, SetRun, WorkGoto, outside, TypeOK
<1>7. CASE CompleteJob(r)
  <2>1. TypeOK'
    BY <1>1, <1>7 DEF CompleteJob, SetJob, WorkGoto, outside, TypeOK, RunStatuses,
       JobStatuses, ExecSteps, WorkSteps
  <2>2. RunAgrees(r)'
    BY <1>1, <1>7 DEF CompleteJob, SetJob, WorkGoto, outside, TypeOK, RunAgrees, InOnePlace,
       ExecAgrees, WorkAgrees, CancelAgrees, JobAgrees, TabAgrees, JobStatusOf
  <2>3. runStatus'[r] # "queued"
    BY <1>1, <1>7 DEF CompleteJob, SetJob, WorkGoto, outside, TypeOK, RunAgrees, ExecAgrees,
       WorkAgrees
  <2> QED BY <1>1, <1>2, <1>7, <2>1, <2>2, <2>3, StepOfOneRun
       DEF CompleteJob, SetJob, WorkGoto, outside, TypeOK
<1> QED BY <1>3, <1>4, <1>5, <1>6, <1>7

\* A new job is on its way into the queue.
LEMMA CreateJobKeepsInv ==
  ASSUME RunnerInv, Turn, NEW r \in Runs, CreateJob(r)
  PROVE  RunnerInv'
<1>1. RunAgrees(r) /\ TypeOK /\ Up /\ ~Midway(r)
  BY DEF RunnerInv, Turn, NobodyMidway
<1>2. TypeOK'
  <2>1. Cardinality(Existing) + 1 \in Nat
    <3>1. IsFiniteSet(Existing)
      BY AutomationAssumption, FS_Subset DEF Existing
    <3> QED BY <3>1, FS_CardinalityType
  <2> QED BY <1>1, <2>1 DEF CreateJob, TypeOK, RunStatuses, JobStatuses
<1>3. RunAgrees(r)'
  <2>1. exec[r] = "none" /\ work[r] = "none" /\ cancelling[r] = "no" /\ r \notin ToSet(queue)
    BY <1>1 DEF CreateJob, RunAgrees, InOnePlace, ExecAgrees, WorkAgrees, CancelAgrees, Midway,
                TypeOK, ExecSteps
  <2> QED BY <1>1, <2>1 DEF CreateJob, TypeOK, RunAgrees, InOnePlace, ExecAgrees, WorkAgrees, CancelAgrees, JobAgrees, TabAgrees, JobStatusOf
<1>4. ASSUME NEW q \in Runs \ {r} PROVE RunAgrees(q)'
  <2>1. RunAgrees(q)
    BY DEF RunnerInv
  <2> QED BY <1>1, <2>1 DEF CreateJob, TypeOK, RunAgrees, InOnePlace, ExecAgrees, WorkAgrees, CancelAgrees, JobAgrees, TabAgrees
<1>5. IsInjective(queue)' /\ (closing # "no" => queue = << >>)' /\ NoIdleSlot'
  BY DEF RunnerInv, CreateJob, NoIdleSlot
<1>6. BootIsFresh'
  BY <1>1 DEF CreateJob, BootIsFresh, Up
<1>7. NoRunLost'
  BY <1>1 DEF RunnerInv, CreateJob, NoRunLost, Up, TypeOK
<1> QED BY <1>2, <1>3, <1>4, <1>5, <1>6, <1>7 DEF RunnerInv

\* A step of the pump: q is what waits, c what stays claimed.  Whoever gives up
\* its claim is not queued any more.
LEMMA PumpKeepsInv ==
  ASSUME RunnerInv, TypeOK, Up', NEW q \in Seq(Runs), IsInjective(q), NEW c \in SUBSET Runs,
         Cardinality(c) <= MaxConcurrentRuns, c \cap ToSet(q) = {}, Pump(q, c),
         making' \in SUBSET making, c \subseteq claimed,
         making' \cap ToSet(q) = {},
         \A r \in ToSet(q) : runStatus[r] = "queued" /\ exec[r] = "none" /\ cancelling[r] = "no",
         \A r \in claimed \ c : exec[r] = "release" /\ (closing = "no" => runStatus[r] # "queued"),
         closing # "no" => q = << >>,
         \A r \in Runs : runStatus[r] = "queued" /\ closing = "no" =>
            r \in making' \cup ToSet(q) \/ exec[r] \in {"claim", "start"} \/ cancelling[r] # "no",
         UNCHANGED <<rows, createdAt, outcome, work, aborted, cancelling, closing, tab, restarts>>,
         server'.todo = server.todo, server' \in [step : {"up"}, todo : SUBSET Runs, on : Runs \cup {NoRun}]
  PROVE  RunnerInv'
<1>1. PICK next \in SUBSET ToSet(q) :
         /\ queue' \in Seq(Runs) /\ IsInjective(queue') /\ ToSet(queue') = ToSet(q) \ next
         /\ claimed' = c \cup next
         /\ Cardinality(claimed') <= MaxConcurrentRuns
         /\ exec' = [r \in Runs |-> IF r \in next THEN "claim"
                                    ELSE IF r \in c THEN exec[r] ELSE "none"]
         /\ closing = "no" /\ queue' # << >> => Cardinality(claimed') = MaxConcurrentRuns
         /\ closing # "no" => next = {} /\ queue' = q
  BY PumpFacts
<1>2. ToSet(q) \subseteq Runs
  BY ElementOfSeq, LenProperties DEF ToSet
<1>3. TypeOK'
  BY <1>1, <1>2 DEF TypeOK, ExecSteps, rows
<1>4. ASSUME NEW r \in Runs PROVE RunAgrees(r)'
  <2>1. RunAgrees(r) /\ (r \in claimed \ c => exec[r] = "release")
    BY DEF RunnerInv
  <2>2. ToSet(queue)' = ToSet(q) \ next
    BY <1>1 DEF ToSet
  <2>3. exec'[r] = IF r \in next THEN "claim" ELSE IF r \in c THEN exec[r] ELSE "none"
    BY <1>1
  <2>4. CASE r \in next
    <3>1. /\ exec'[r] = "claim" /\ r \in claimed' /\ r \notin ToSet(queue)' /\ r \notin making'
          /\ runStatus[r] = "queued" /\ exec[r] = "none" /\ cancelling[r] = "no"
      BY <1>1, <2>2, <2>3, <2>4
    <3> QED BY <2>1, <3>1 DEF rows, RunAgrees, InOnePlace, ExecAgrees, WorkAgrees, CancelAgrees, JobAgrees, TabAgrees
  <2>5. CASE r \notin next /\ r \notin claimed \ c
    <3>1. exec'[r] = exec[r] /\ (r \in claimed' <=> r \in claimed)
      BY <1>1, <2>1, <2>3, <2>5 DEF RunAgrees, InOnePlace
    <3>2. r \in making' \cup ToSet(queue)' =>
            runStatus[r] = "queued" /\ exec[r] = "none" /\ cancelling[r] = "no"
      BY <2>1, <2>2 DEF RunAgrees, InOnePlace
    <3>3. r \in making' => r \notin ToSet(queue)'
      BY <2>2
    <3> QED BY <2>1, <3>1, <3>2, <3>3 DEF rows, RunAgrees, InOnePlace, ExecAgrees, WorkAgrees, CancelAgrees, JobAgrees, TabAgrees
  <2>6. CASE r \in claimed \ c
    <3>1. r \notin next /\ r \notin making \cup ToSet(queue)'
      BY <2>1, <2>2, <2>6 DEF RunAgrees, InOnePlace
    <3>2. exec[r] = "release" /\ exec'[r] = "none" /\ r \notin claimed'
      BY <1>1, <2>1, <2>3, <2>6, <3>1
    <3> QED BY <2>1, <3>1, <3>2 DEF rows, RunAgrees, InOnePlace, ExecAgrees, WorkAgrees, CancelAgrees, JobAgrees, TabAgrees
  <2> QED BY <2>4, <2>5, <2>6
<1>5. (closing # "no" => queue = << >>)' /\ NoIdleSlot'
  BY <1>1 DEF NoIdleSlot
<1>6. BootIsFresh'
  BY DEF BootIsFresh, Up
<1>7. NoRunLost'
  BY <1>1, <1>2 DEF NoRunLost, rows, RunnerInv, RunAgrees, InOnePlace, ToSet
<1> QED BY <1>1, <1>3, <1>4, <1>5, <1>6, <1>7 DEF RunnerInv

\* enqueueRun keeps the invariant.
LEMMA EnqueueRunKeepsInv ==
  ASSUME RunnerInv, Up, NEW r \in Runs, EnqueueRun(r)
  PROVE  RunnerInv'
<1>1. /\ RunAgrees(r) /\ TypeOK /\ IsInjective(queue) /\ r \in making
      /\ r \notin ToSet(queue) /\ r \notin claimed
  BY DEF RunnerInv, EnqueueRun, RunAgrees, InOnePlace
<1>2. /\ making' = making \ {r}
      /\ UNCHANGED <<rows, createdAt, outcome, work, aborted, cancelling, closing, tab, server, restarts>>
  BY DEF EnqueueRun, outside
<1>3. CASE closing # "no"
  <2>1. UNCHANGED <<queue, claimed, exec>>
    BY <1>3 DEF EnqueueRun
  <2>2. ASSUME NEW q \in Runs PROVE RunAgrees(q)'
    <3>1. RunAgrees(q)
      BY DEF RunnerInv
    <3> QED BY <1>2, <2>1, <3>1 DEF rows, RunAgrees, InOnePlace, ExecAgrees, WorkAgrees, CancelAgrees, JobAgrees, TabAgrees
  <2> QED BY <1>1, <1>2, <1>3, <2>1, <2>2
       DEF RunnerInv, TypeOK, rows, BootIsFresh, Up, NoIdleSlot, NoRunLost
<1>4. CASE closing = "no"
  <2>1. PICK q \in Seq(Runs) : q = Append(queue, r)
    BY <1>1, AppendAdds DEF TypeOK
  <2>2. IsInjective(q) /\ ToSet(q) = ToSet(queue) \cup {r}
    BY <1>1, <2>1, AppendAdds DEF TypeOK
  <2>3. Pump(q, claimed)
    BY <1>1, <1>4, <2>1 DEF EnqueueRun
  <2>4. claimed \in SUBSET Runs /\ Cardinality(claimed) <= MaxConcurrentRuns
    BY <1>1 DEF TypeOK
  <2>5. ToSet(queue) \subseteq Runs
    BY <1>1, ElementOfSeq, LenProperties DEF TypeOK, ToSet
  <2>6. \A x \in ToSet(q) : /\ runStatus[x] = "queued" /\ exec[x] = "none" /\ cancelling[x] = "no"
                             /\ x \notin claimed /\ x \notin making \ {r}
    BY <1>1, <2>2, <2>5 DEF RunnerInv, RunAgrees, InOnePlace
  <2>7. \A x \in Runs : runStatus[x] = "queued" =>
          x \in (making \ {r}) \cup ToSet(q) \/ exec[x] \in {"claim", "start"} \/ cancelling[x] # "no"
    BY <1>4, <2>2 DEF RunnerInv, NoRunLost
  <2>8. server' = server /\ server' \in [step : {"up"}, todo : SUBSET Runs, on : Runs \cup {NoRun}]
    BY <1>1, <1>2 DEF TypeOK, Up
  <2>9. Up'
    BY <1>2 DEF Up
  <2> HIDE DEF Up
  <2> QED BY <1>1, <1>2, <1>4, <2>2, <2>3, <2>4, <2>6, <2>7, <2>8, <2>9, PumpKeepsInv
<1> QED BY <1>3, <1>4

\* The end of a claim keeps the invariant.
LEMMA ReleaseKeepsInv ==
  ASSUME RunnerInv, Up, NEW r \in Runs, Release(r)
  PROVE  RunnerInv'
<1>1. RunAgrees(r) /\ TypeOK /\ IsInjective(queue) /\ exec[r] = "release" /\ r \in claimed
  BY DEF RunnerInv, Release, RunAgrees, InOnePlace
<1>2. /\ UNCHANGED <<making, rows, createdAt, outcome, work, aborted, cancelling, closing, tab,
                     server, restarts>>
      /\ Pump(queue, claimed \ {r})
  BY DEF Release, outside
<1>3. PICK c \in SUBSET Runs : c = claimed \ {r}
  BY <1>1 DEF TypeOK
<1>4. Cardinality(c) <= MaxConcurrentRuns
  <2>1. IsFiniteSet(claimed) /\ Cardinality(claimed) \in Nat
    BY <1>1, AutomationAssumption, FS_Subset, FS_CardinalityType DEF TypeOK
  <2>2. Cardinality(c) = Cardinality(claimed) - 1
    BY <1>1, <1>3, <2>1, FS_RemoveElement
  <2> QED BY <1>1, <2>1, <2>2, AutomationAssumption DEF TypeOK
<1>5. PICK q \in Seq(Runs) : q = queue
  BY <1>1 DEF TypeOK
<1>6. ToSet(q) \subseteq Runs
  BY ElementOfSeq, LenProperties DEF ToSet
<1>7. \A x \in ToSet(q) : /\ runStatus[x] = "queued" /\ exec[x] = "none" /\ cancelling[x] = "no"
                           /\ x \notin claimed /\ x \notin making
  BY <1>5, <1>6 DEF RunnerInv, RunAgrees, InOnePlace
<1>8. closing = "no" => runStatus[r] # "queued"
  BY <1>1 DEF RunAgrees, ExecAgrees
<1>9. \A x \in Runs : runStatus[x] = "queued" /\ closing = "no" =>
        x \in making \cup ToSet(q) \/ exec[x] \in {"claim", "start"} \/ cancelling[x] # "no"
  BY <1>5 DEF RunnerInv, NoRunLost
<1>10. /\ server' = server /\ server' \in [step : {"up"}, todo : SUBSET Runs, on : Runs \cup {NoRun}]
       /\ Up' /\ (closing # "no" => q = << >>) /\ IsInjective(q) /\ Pump(q, c)
  BY <1>1, <1>2, <1>3, <1>5 DEF TypeOK, Up, RunnerInv
<1>11. /\ making' \in SUBSET making /\ c \subseteq claimed /\ making' \cap ToSet(q) = {}
       /\ c \cap ToSet(q) = {} /\ claimed \ c = {r} /\ making' = making
  BY <1>1, <1>2, <1>3, <1>7
<1> HIDE DEF Up
<1> QED BY <1>1, <1>2, <1>4, <1>7, <1>8, <1>9, <1>10, <1>11, PumpKeepsInv

\* cancelRun keeps the invariant.
LEMMA CancelRunKeepsInv ==
  ASSUME RunnerInv, Turn, NEW r \in Runs, CancelRun(r)
  PROVE  RunnerInv'
<1>1. RunAgrees(r) /\ TypeOK /\ Up
  BY DEF RunnerInv, Turn
<1>2. UNCHANGED <<rows, createdAt, making, claimed, exec, outcome, work, closing, tab, server, restarts>>
  BY DEF CancelRun, outside
<1>3. CASE aborted' = aborted \cup {r} /\ UNCHANGED <<queue, cancelling>>
  <2>1. TypeOK'
    BY <1>1, <1>2, <1>3 DEF TypeOK, rows
  <2>2. ASSUME NEW q \in Runs PROVE RunAgrees(q)'
    <3>1. RunAgrees(q)
      BY DEF RunnerInv
    <3> QED BY <1>2, <1>3, <3>1 DEF rows, RunAgrees, InOnePlace, ExecAgrees, WorkAgrees, CancelAgrees, JobAgrees, TabAgrees
  <2> QED BY <1>1, <1>2, <1>3, <2>1, <2>2
       DEF RunnerInv, rows, BootIsFresh, Up, NoIdleSlot, NoRunLost
<1>4. ASSUME NEW i \in DOMAIN queue, queue[i] = r, queue' = RemoveAt(queue, i),
             cancelling' = [cancelling EXCEPT ![r] = "read"]
      PROVE  RunnerInv'
  <2>1. /\ queue' \in Seq(Runs) /\ IsInjective(queue') /\ r \in ToSet(queue)
        /\ ToSet(queue') = ToSet(queue) \ {r}
    <3>1. queue \in Seq(Runs) /\ IsInjective(queue)
      BY <1>1 DEF TypeOK, RunnerInv
    <3>2. r \in ToSet(queue)
      BY <1>4 DEF ToSet
    <3> QED BY <1>4, <3>1, <3>2, RemoveAtRemoves
  <2>2. ToSet(queue)' = ToSet(queue) \ {r}
    BY <2>1 DEF ToSet
  <2>3. TypeOK'
    BY <1>1, <1>2, <1>4, <2>1 DEF TypeOK, rows, CancelRun
  <2>4. ASSUME NEW q \in Runs PROVE RunAgrees(q)'
    <3>1. RunAgrees(q)
      BY DEF RunnerInv
    <3>2. CASE q = r
      <4>1. /\ cancelling'[r] = "read" /\ runStatus[r] = "queued" /\ exec[r] = "none"
            /\ work[r] = "none" /\ r \notin making /\ r \notin ToSet(queue)'
        BY <1>1, <1>4, <2>1, <2>2 DEF RunAgrees, InOnePlace, WorkAgrees, TypeOK
      <4>2. cancelling[r] = "no"
        BY <1>1, <2>1 DEF RunAgrees, InOnePlace
      <4> QED BY <1>2, <3>1, <3>2, <4>1, <4>2 DEF rows, RunAgrees, InOnePlace, ExecAgrees,
                 WorkAgrees, CancelAgrees, JobAgrees, TabAgrees
    <3>3. CASE q # r
      <4>1. cancelling'[q] = cancelling[q] /\ (q \in ToSet(queue)' <=> q \in ToSet(queue))
        BY <1>1, <1>4, <2>2, <3>3 DEF TypeOK
      <4> QED BY <1>2, <3>1, <4>1 DEF rows, RunAgrees, InOnePlace, ExecAgrees, WorkAgrees, CancelAgrees, JobAgrees, TabAgrees
    <3> QED BY <3>2, <3>3
  <2>5. queue # << >> /\ closing = "no"
    BY <1>1, <1>4, EmptySeq DEF RunnerInv, TypeOK
  <2>6. BootIsFresh' /\ NoIdleSlot'
    BY <1>1, <1>2, <2>5 DEF RunnerInv, BootIsFresh, Up, NoIdleSlot, rows
  <2>7. NoRunLost'
    BY <1>1, <1>2, <1>4, <2>2 DEF RunnerInv, NoRunLost, Up, rows, TypeOK
  <2>8. (closing # "no" => queue = << >>)'
    BY <1>2, <2>5
  <2> QED BY <2>1, <2>3, <2>4, <2>6, <2>7, <2>8 DEF RunnerInv
<1> QED BY <1>3, <1>4 DEF CancelRun

\* close() keeps the invariant.
LEMMA CloseKeepsInv ==
  ASSUME RunnerInv, Up, Close \/ CloseAborts
  PROVE  RunnerInv'
<1>1. TypeOK
  BY DEF RunnerInv
<1>2. CASE Close
  <2>1. /\ UNCHANGED <<rows, createdAt, making, claimed, exec, outcome, work, aborted, tab, server, restarts>>
        /\ closing' = "drain" /\ queue' = << >>
        /\ cancelling' = [r \in Runs |-> IF r \in ToSet(queue) THEN "read" ELSE cancelling[r]]
    BY <1>2 DEF Close, outside
  <2>2. queue' \in Seq(Runs) /\ IsInjective(queue)' /\ ToSet(queue)' = {}
    BY <2>1, EmptySeq DEF ToSet, IsInjective
  <2>3. TypeOK'
    BY <1>1, <2>1, <2>2 DEF TypeOK, rows
  <2>4. ASSUME NEW r \in Runs PROVE RunAgrees(r)'
    <3>1. RunAgrees(r) /\ cancelling'[r] = IF r \in ToSet(queue) THEN "read" ELSE cancelling[r]
      BY <2>1 DEF RunnerInv
    <3> QED BY <2>1, <2>2, <3>1 DEF rows, RunAgrees, InOnePlace, ExecAgrees, WorkAgrees, CancelAgrees, JobAgrees, TabAgrees
  <2> QED BY <2>1, <2>2, <2>3, <2>4 DEF RunnerInv, BootIsFresh, Up, NoIdleSlot, NoRunLost
<1>3. CASE CloseAborts
  <2>1. /\ UNCHANGED <<rows, createdAt, making, queue, claimed, exec, outcome, work, cancelling,
                       tab, server, restarts>>
        /\ closing = "drain" /\ closing' = "done" /\ aborted' \subseteq Runs
    BY <1>1, <1>3 DEF CloseAborts, outside, TypeOK
  <2>2. TypeOK'
    BY <1>1, <2>1 DEF TypeOK, rows
  <2>3. ASSUME NEW r \in Runs PROVE RunAgrees(r)'
    <3>1. RunAgrees(r)
      BY DEF RunnerInv
    <3> QED BY <2>1, <3>1 DEF rows, RunAgrees, InOnePlace, ExecAgrees, WorkAgrees, CancelAgrees, JobAgrees, TabAgrees
  <2> QED BY <2>1, <2>2, <2>3 DEF RunnerInv, BootIsFresh, Up, NoIdleSlot, NoRunLost
<1> QED BY <1>2, <1>3

\* A crash leaves the rows as they are and a process with nothing in memory.
LEMMA ServerDiesKeepsInv ==
  ASSUME RunnerInv, ServerDies
  PROVE  RunnerInv'
<1>1. TypeOK
  BY DEF RunnerInv
<1>2. queue' = << >> /\ queue' \in Seq(Runs) /\ IsInjective(queue)' /\ ToSet(queue)' = {}
  BY EmptySeq DEF ServerDies, ToSet, IsInjective
<1>3. TypeOK'
  <2>1. Cardinality({}) = 0
    BY FS_EmptySet
  <2> QED BY <1>1, <1>2, <2>1, AutomationAssumption
       DEF ServerDies, TypeOK, rows, ExecSteps, WorkSteps
<1>4. restarts' # 0
  BY <1>1, AutomationAssumption DEF ServerDies, TypeOK
<1>5. \A r \in Runs : RunAgrees(r)'
  BY <1>2, <1>4 DEF ServerDies, rows, RunAgrees, InOnePlace, ExecAgrees, WorkAgrees, CancelAgrees, JobAgrees, TabAgrees
<1>6. BootIsFresh' /\ NoIdleSlot' /\ NoRunLost'
  BY <1>2, <1>4 DEF ServerDies, BootIsFresh, NoIdleSlot, NoRunLost, Up
<1> QED BY <1>2, <1>3, <1>5, <1>6 DEF RunnerInv, ServerDies

\* The steps of start() keep the invariant.
LEMMA BootKeepsInv ==
  ASSUME RunnerInv, Boot
  PROVE  RunnerInv'
<1>1. TypeOK /\ BootIsFresh
  BY DEF RunnerInv
<1>2. CASE BootSelects
  <2>1. /\ UNCHANGED <<rows, runner, createdAt, tab, restarts>> /\ ~Up /\ ~Up'
        /\ server' = [step |-> "fail", todo |-> {r \in Runs : runStatus[r] = "running"},
                     on |-> server.on]
    BY <1>1, <1>2 DEF BootSelects, Booting, TypeOK, Up
  <2>2. TypeOK'
    BY <1>1, <2>1 DEF TypeOK, rows, runner
  <2>3. \A r \in Runs : RunAgrees(r)'
    BY <2>1 DEF RunnerInv, rows, runner, RunAgrees, InOnePlace, ExecAgrees, WorkAgrees,
       CancelAgrees,
       JobAgrees, TabAgrees
  <2>4. BootIsFresh'
    BY <1>1, <2>1 DEF BootIsFresh, rows, runner
  <2> QED BY <2>1, <2>2, <2>3, <2>4 DEF RunnerInv, runner, NoIdleSlot, NoRunLost
<1>3. ASSUME NEW r \in Runs, BootFails(r) PROVE RunnerInv'
  <2>1. /\ UNCHANGED <<runner, createdAt, tab, restarts, jobStatus>> /\ ~Up /\ ~Up'
        /\ runStatus' = [runStatus EXCEPT ![r] = "failed"] /\ server.step = "fail"
        /\ server' = [step |-> "failJob", todo |-> server.todo \ {r}, on |-> r]
    BY <1>1, <1>3 DEF BootFails, Booting, SetRun, Up
  <2>2. TypeOK'
    BY <1>1, <2>1 DEF TypeOK, runner, RunStatuses
  <2>3. ASSUME NEW q \in Runs PROVE RunAgrees(q)'
    <3>1. /\ q \notin making' \cup ToSet(queue)' /\ exec'[q] = "none" /\ work'[q] = "none"
          /\ cancelling'[q] = "no" /\ q \notin claimed' /\ restarts' # 0 /\ q \notin tab'
      BY <1>1, <2>1 DEF BootIsFresh, runner, ToSet
    <3> QED BY <3>1 DEF RunAgrees, InOnePlace, ExecAgrees, WorkAgrees, CancelAgrees,
       JobAgrees, TabAgrees
  <2>4. BootIsFresh'
    BY <1>1, <2>1 DEF BootIsFresh, runner, TypeOK
  <2> QED BY <2>1, <2>2, <2>3, <2>4 DEF RunnerInv, runner, NoIdleSlot, NoRunLost
<1>4. CASE BootFailsJob
  <2>1. /\ UNCHANGED <<runner, createdAt, tab, restarts, runStatus>> /\ ~Up /\ ~Up'
        /\ jobStatus' = [jobStatus EXCEPT ![server.on] = "failed"] /\ server.step = "failJob"
        /\ server' = [step |-> "fail", todo |-> server.todo, on |-> NoRun]
    BY <1>1, <1>4 DEF BootFailsJob, Booting, SetJob, Up, TypeOK
  <2>2. TypeOK'
    BY <1>1, <2>1 DEF TypeOK, runner, JobStatuses, RunStatuses
  <2>3. ASSUME NEW q \in Runs PROVE RunAgrees(q)'
    <3>1. /\ q \notin making' \cup ToSet(queue)' /\ exec'[q] = "none" /\ work'[q] = "none"
          /\ cancelling'[q] = "no" /\ q \notin claimed' /\ restarts' # 0 /\ q \notin tab'
      BY <1>1, <2>1 DEF BootIsFresh, runner, ToSet
    <3> QED BY <3>1 DEF RunAgrees, InOnePlace, ExecAgrees, WorkAgrees, CancelAgrees,
       JobAgrees, TabAgrees
  <2>4. BootIsFresh'
    BY <1>1, <2>1 DEF BootIsFresh, runner
  <2> QED BY <2>1, <2>2, <2>3, <2>4 DEF RunnerInv, runner, NoIdleSlot, NoRunLost
<1>5. CASE BootRequeues
  <2> DEFINE Q == {r \in Runs : runStatus[r] = "queued"}
  <2>1. PICK q \in OldestFirst(Q) : Pump(q, {})
    BY <1>5 DEF BootRequeues
  <2>2. IsFiniteSet(Q) /\ Cardinality(Q) \in Nat
    BY AutomationAssumption, FS_Subset, FS_CardinalityType
  <2>3. /\ q \in [1 .. Cardinality(Q) -> Q] /\ q \in Seq(Runs)
        /\ \A i, j \in 1 .. Cardinality(Q) : i < j => createdAt[q[i]] < createdAt[q[j]]
    <3>1. /\ q \in [1 .. Cardinality(Q) -> Q]
          /\ \A i, j \in 1 .. Cardinality(Q) : i < j => createdAt[q[i]] < createdAt[q[j]]
      BY <2>1 DEF OldestFirst
    <3>2. q \in [1 .. Cardinality(Q) -> Runs]
      BY <3>1
    <3>3. q \in UNION {[1 .. n -> Runs] : n \in Nat}
      BY <2>2, <3>2
    <3> QED BY <3>1, <3>3, SeqDef
  <2>4. IsInjective(q)
    <3> HIDE DEF Q
    <3> SUFFICES ASSUME NEW i \in 1 .. Cardinality(Q), NEW j \in 1 .. Cardinality(Q), q[i] = q[j]
                 PROVE i = j
      BY <2>3 DEF IsInjective
    <3>1. q[i] \in Runs /\ createdAt[q[i]] \in Nat
      BY <1>1, <2>3 DEF Q, TypeOK
    <3>2. ~(i < j) /\ ~(j < i)
      BY <2>3, <3>1
    <3> QED BY <2>2, <3>2
  <2>5. ToSet(q) = Q
    <3>1. q \in Injection(1 .. Cardinality(Q), Q)
      BY <2>3, <2>4 DEF Injection
    <3>2. Cardinality(1 .. Cardinality(Q)) = Cardinality(Q)
      BY <2>2, FS_Interval
    <3>3. q \in Surjection(1 .. Cardinality(Q), Q)
      BY <2>2, <3>1, <3>2, FS_Injection
    <3> QED BY <2>3, <3>3 DEF Surjection, ToSet
  <2>6. /\ ~Up /\ Up' /\ server'.todo = server.todo
        /\ server' \in [step : {"up"}, todo : SUBSET Runs, on : Runs \cup {NoRun}]
        /\ UNCHANGED <<rows, making, createdAt, outcome, work, aborted, cancelling, closing, tab, restarts>>
    BY <1>1, <1>5 DEF BootRequeues, Booting, Up, TypeOK
  <2>7. /\ making = {} /\ claimed = {} /\ closing = "no"
        /\ \A r \in Runs : exec[r] = "none" /\ cancelling[r] = "no"
    BY <1>1, <2>6 DEF BootIsFresh
  <2>8. Cardinality({}) <= MaxConcurrentRuns
    BY FS_EmptySet, AutomationAssumption
  <2>9. /\ \A r \in ToSet(q) : runStatus[r] = "queued" /\ exec[r] = "none" /\ cancelling[r] = "no"
        /\ \A r \in Runs : runStatus[r] = "queued" => r \in ToSet(q)
    BY <2>5, <2>7
  <2> HIDE DEF Q, Up
  <2> QED BY <1>1, <2>1, <2>3, <2>4, <2>6, <2>7, <2>8, <2>9, PumpKeepsInv
<1> QED BY <1>2, <1>3, <1>4, <1>5 DEF Boot

-----------------------------------------------------------------------------
\* RunnerInv is an invariant of the runner: the queue, the claims and what
\* executes, works and cancels agree on each run, in every state.
THEOREM RunnerInvariant == Spec => []RunnerInv
<1>1. Init => RunnerInv
  BY RunnerInit
<1>2. RunnerInv /\ [Next]_vars => RunnerInv'
  <2> SUFFICES ASSUME RunnerInv, [Next]_vars PROVE RunnerInv'
    OBVIOUS
  <2>1. CASE UNCHANGED vars
    <3>1. TypeOK' /\ IsInjective(queue)' /\ (closing # "no" => queue = << >>)'
      BY <2>1 DEF RunnerInv, TypeOK, vars, rows, runner
    <3>2. \A r \in Runs : RunAgrees(r)'
      BY <2>1 DEF RunnerInv, vars, rows, runner, RunAgrees, InOnePlace, ExecAgrees, WorkAgrees, CancelAgrees, JobAgrees, TabAgrees
    <3>3. BootIsFresh' /\ NoIdleSlot' /\ NoRunLost'
      BY <2>1 DEF RunnerInv, vars, rows, runner, BootIsFresh, NoIdleSlot, NoRunLost, Up
    <3> QED BY <3>1, <3>2, <3>3 DEF RunnerInv
  <2>2. ASSUME NEW r \in Runs, Continue(r) PROVE RunnerInv'
    BY <2>2, EnqueueRunKeepsInv, FinishKeepsInv, ExecBeginsKeepsInv, ExecEndsKeepsInv,
       ReleaseKeepsInv, WorkKeepsInv DEF Continue
  <2>3. ASSUME NEW r \in Runs, CloseTabTurn(r) PROVE RunnerInv'
    BY <2>3, ExecEndsKeepsInv DEF CloseTabTurn
  <2>4. ASSUME NEW r \in Runs, Turn,
               CreateJob(r) \/ CancelRun(r) \/ TimesOut(r) \/ OpenTab(r) \/ StepThrows(r) \/ LastStep(r)
        PROVE RunnerInv'
    <3>1. Up
      BY <2>4 DEF Turn
    <3> QED BY <2>4, <3>1, CreateJobKeepsInv, CancelRunKeepsInv, ExecBeginsKeepsInv,
       WorkKeepsInv
  <2>5. CASE (Turn /\ Close) \/ (Up /\ CloseAborts)
    BY <2>5, CloseKeepsInv DEF Turn
  <2>6. CASE ServerDies \/ Boot
    BY <2>6, ServerDiesKeepsInv, BootKeepsInv
  <2> QED BY <2>1, <2>2, <2>3, <2>4, <2>5, <2>6 DEF Next
<1> QED BY <1>1, <1>2, PTL DEF Spec

\* Never more runs are claimed than the cap allows, and none waits for a claim
\* that could be had (runner.ts 340-383).
THEOREM CapIsUsedExactly == Spec => [](TypeOK /\ NoIdleSlot)
<1>1. RunnerInv => TypeOK /\ NoIdleSlot
  BY DEF RunnerInv
<1> QED BY <1>1, RunnerInvariant, PTL

\* A queued run is always in somebody's hands (runner.ts 249-270).
THEOREM QueuedRunsAreKept == Spec => []NoRunLost
<1>1. RunnerInv => NoRunLost
  BY DEF RunnerInv
<1> QED BY <1>1, RunnerInvariant, PTL

\* Until the first crash, a job whose run is at rest has the run's status
\* (runner.ts 385-405, 459-473).
THEOREM JobsFollowTheirRuns == Spec => []JobFollowsRun
<1>1. RunnerInv => JobFollowsRun
  <2> SUFFICES ASSUME RunnerInv, NEW r \in Runs, Unattended(r), restarts = 0
               PROVE jobStatus[r] = JobStatusOf(runStatus[r])
    BY DEF JobFollowsRun
  <2>1. JobAgrees(r)
    BY DEF RunnerInv, RunAgrees
  <2>2. exec[r] = "none" /\ cancelling[r] = "no" /\ work[r] # "completeJob"
    BY DEF Unattended, Midway
  <2> QED BY <2>1, <2>2 DEF JobAgrees
<1> QED BY <1>1, RunnerInvariant, PTL

\* A tab outlives its run only where the timer beat its opening (runner.ts 583-587).
THEOREM TabsCloseWithTheirRuns == Spec => []TabsAreClosed
<1>1. RunnerInv => TabsAreClosed
  <2> SUFFICES ASSUME RunnerInv, NEW r \in tab PROVE r \in claimed \/ outcome[r] = "timed_out"
    BY DEF TabsAreClosed
  <2>1. TabAgrees(r) /\ InOnePlace(r)
    BY DEF RunnerInv, RunAgrees, TypeOK
  <2> QED BY <2>1 DEF TabAgrees, InOnePlace
<1> QED BY <1>1, RunnerInvariant, PTL

\* Whoever writes the row of a run that completed, failed or was cancelled, in
\* whatever order, leaves its status alone (runner.ts 286-405, 575-582).
THEOREM OutcomesAreFinal == Spec => FinishedIsFinal
<1>1. ASSUME RunnerInv, [Next]_vars, NEW r \in Runs, runStatus[r] \in Finished
      PROVE  runStatus'[r] = runStatus[r]
  <2>1. TypeOK /\ BootIsFresh /\ RunAgrees(r)
    BY <1>1 DEF RunnerInv
  <2>3. ASSUME NEW q \in Runs, FinishRun(q) PROVE runStatus'[r] = runStatus[r]
    BY <1>1, <2>1, <2>3 DEF FinishRun, SetRun, TypeOK, RunAgrees, CancelAgrees, Finished
  <2>4. ASSUME NEW q \in Runs, StartRun(q) PROVE runStatus'[r] = runStatus[r]
    BY <1>1, <2>1, <2>4 DEF StartRun, SetRun, TypeOK, RunAgrees, ExecAgrees, Finished
  <2>5. ASSUME NEW q \in Runs, Fail(q) PROVE runStatus'[r] = runStatus[r]
    BY <1>1, <2>1, <2>5 DEF Fail, SetRun, TypeOK, RunAgrees, ExecAgrees, Finished
  <2>6. ASSUME NEW q \in Runs, Complete(q) PROVE runStatus'[r] = runStatus[r]
    <3>1. q = r => runStatus[r] \in {"running", "timed_out"}
      BY <2>1, <2>6 DEF Complete, RunAgrees, ExecAgrees, WorkAgrees
    <3> QED BY <1>1, <2>1, <2>6, <3>1 DEF Complete, SetRun, TypeOK, Finished
  <2>7. ASSUME NEW q \in Runs, CreateJob(q) PROVE runStatus'[r] = runStatus[r]
    BY <1>1, <2>1, <2>7 DEF CreateJob, TypeOK, Finished
  <2>8. ASSUME NEW q \in Runs, BootFails(q) PROVE runStatus'[r] = runStatus[r]
    BY <1>1, <2>1, <2>8 DEF BootFails, Booting, SetRun, TypeOK, BootIsFresh, Finished
  <2>9. \/ UNCHANGED runStatus
        \/ \E q \in Runs : FinishRun(q) \/ StartRun(q) \/ Fail(q) \/ Complete(q)
                          \/ CreateJob(q) \/ BootFails(q)
    <3>1. UNCHANGED vars => UNCHANGED runStatus
      BY DEF vars, rows
    <3>2. ASSUME NEW q \in Runs, Continue(q) \/ CloseTabTurn(q)
          PROVE UNCHANGED runStatus \/ FinishRun(q) \/ StartRun(q) \/ Fail(q) \/ Complete(q)
      BY <3>2 DEF Continue, EnqueueRun, FinishReads, FinishJob, Claim, StartJob, WorkWins,
         FailJob,
         Cancelled, Release, CompleteJob, CloseTabTurn, CloseTab, SetJob, rows
    <3>3. ASSUME NEW q \in Runs,
                 CancelRun(q) \/ TimesOut(q) \/ OpenTab(q) \/ StepThrows(q) \/ LastStep(q)
          PROVE UNCHANGED runStatus
      BY <3>3 DEF CancelRun, TimesOut, OpenTab, StepThrows, LastStep, rows
    <3>4. Close \/ CloseAborts \/ ServerDies => UNCHANGED runStatus
      BY DEF Close, CloseAborts, ServerDies, rows
    <3>5. Boot => UNCHANGED runStatus \/ \E q \in Runs : BootFails(q)
      BY DEF Boot, BootSelects, BootFailsJob, BootRequeues, SetJob, rows
    <3> QED BY <1>1, <3>1, <3>2, <3>3, <3>4, <3>5 DEF Next
  <2> QED BY <2>3, <2>4, <2>5, <2>6, <2>7, <2>8, <2>9
<1>2. RunnerInv /\ [Next]_vars =>
        [\A r \in Runs : runStatus[r] \in Finished => runStatus'[r] = runStatus[r]]_vars
  BY <1>1
<1> QED BY <1>2, RunnerInvariant, PTL DEF Spec, FinishedIsFinal
=============================================================================
