------------------------ MODULE WorkflowEditor_proofs ------------------------
(***************************************************************************)
(* What TLAPS proves about WorkflowEditor.tla, for a user who waits while  *)
(* the page is busy, and for any number of scripts, versions, blocks and   *)
(* calls, any texts and numbers typed, and whatever fails.                 *)
(*                                                                         *)
(* There are two halves.  One is about the data: what the editor lets      *)
(* through the server accepts and keeps as it was sent (ValidIsStored,     *)
(* StoredAsSent), and what the server keeps is shown as blocks that mean   *)
(* it (ScriptRoundTrip).  The other is about the calls: one at a time is   *)
(* waited for, it is for the script that is selected (FitsPage), and what  *)
(* its answer says is still so when it arrives, because the server only    *)
(* ever adds versions (Grown, CallGrows).                                  *)
(***************************************************************************)
EXTENDS WorkflowEditor, SequenceTheorems, TLAPS

(* A step as the server keeps it: accepted, and without a field its type has *)
(* no use for.                                                               *)
StepSet ==
  [type: BlockTypes, text: Texts \cup {None}, num: Int \cup {None}, flag: BOOLEAN \cup {None}]

Stored(st) ==
  /\ AcceptsStep(st)
  /\ st = Step(st.type, TextFor(st.type, st.text), NumFor(st.type, st.num), FlagFor(st.type, st.flag))

StoredSteps == {st \in StepSet : Stored(st)}

(* A block as the editor holds it: of a type it knows, with a text where its *)
(* type has one.                                                             *)
BlockSet ==
  [type: BlockTypes, text: Texts \cup {None}, num: Int \cup {None}, flag: BOOLEAN \cup {None},
   raw: {None}]

EditedBlocks == {b \in BlockSet : b.type \in TextTypes => b.text \in Texts}

PublishedSet == [Scripts -> Seq(Seq(StoredSteps))]

IsVersion(pub, s, steps) == \E v \in 1..Len(pub[s]) : pub[s][v] = steps

(* The calls that a disabled button waits for.                               *)
Waited == {"open", "version", "publish", "versions", "create", "relist", "job"}

CallShape(k) ==
  /\ k = [kind |-> k.kind, script |-> k.script, version |-> k.version, steps |-> k.steps,
          job |-> k.job, state |-> k.state, answer |-> k.answer]
  /\ k.kind \in Waited \cup {"list", "poll", "idle"}
  /\ k.state \in {"idle", "sent", "answered", "failed"}
  /\ k.kind = "idle" => k = Idle
  /\ k.kind \in {"open", "version", "publish", "versions"} => k.script \in Scripts
  /\ k.kind \in {"publish", "create"} => k.steps \in Seq(StoredSteps) /\ AcceptsSteps(k.steps)

(* What a call outstanding knows of the page: a save and a version asked for *)
(* are the selected script's.                                                *)
FitsPage(k, id) ==
  /\ k.kind \in {"version", "publish", "versions"} => k.script = id
  /\ k.kind = "create" => id = None

(* What it knows of the server, and what its answer says is so when it       *)
(* arrives.                                                                  *)
FitsServer(k, pub) ==
  /\ k.kind = "open" => pub[k.script] # << >>
  /\ k.kind = "version" => k.version \in 1..Len(pub[k.script])
  /\ k.kind = "versions" => IsVersion(pub, k.script, k.steps)

AnswerFits(k, pub) ==
  k.state = "answered" =>
    /\ k.kind \in {"open", "version", "publish"} => IsVersion(pub, k.script, k.answer.steps)
    /\ k.kind \in {"open", "versions"} => k.answer.versions \in 0..Len(pub[k.script])
    /\ k.kind = "create" => k.answer \in Scripts /\ IsVersion(pub, k.answer, k.steps)
    /\ k.kind \in {"list", "relist"} => \A s \in Scripts : k.answer[s] \in 0..Len(pub[s])

CallOK(k, id, pub) ==
  CallShape(k) /\ FitsPage(k, id) /\ FitsServer(k, pub) /\ AnswerFits(k, pub)

(* One call at a time is waited for, and the page is busy with it.           *)
CallsOK ==
  /\ calls = [c \in Slots |-> calls[c]]
  /\ \A c, d \in Slots : calls[c].kind \in Waited /\ calls[d].kind \in Waited => c = d
  /\ \A c \in Slots : calls[c].kind \in Waited => busy
  /\ \A c \in Slots : CallOK(calls[c], selectedId, published)

PageOK ==
  /\ origin = selectedId
  /\ selectedId \in Scripts \cup {None}
  /\ blocks \in Seq(EditedBlocks)
  /\ versions \in Nat
  /\ IF selectedId = None THEN versions = 0 ELSE versions <= Len(published[selectedId])
  /\ busy \in BOOLEAN
  /\ \A s \in Scripts : scripts[s] \in 0..Len(published[s])

EditorInv ==
  /\ published \in PublishedSet
  /\ PageOK
  /\ CallsOK
  /\ UntouchedIsStored

(* -------------------------------------------------- blocks and their steps *)

LEMMA TextsAreNotNone == \A l \in Nat, u \in {"allowed", "refused"} :
                            Text(l, u) \in Texts /\ Text(l, u) # None
<1> SUFFICES ASSUME NEW l \in Nat, NEW u \in {"allowed", "refused"}
             PROVE  Text(l, u) \in Texts /\ Text(l, u) # None
  OBVIOUS
<1>1. Text(l, u) \in Texts
  BY DEF Text, Texts
<1> QED
  BY <1>1, EditorAssumption

LEMMA LimitsAgree == EditorMax = ServerMax
BY DEF EditorMax, ServerMax

(* The server's validator, a type at a time.                                 *)
UrlFits(text) == text # None /\ text.length \in 1..ServerMax.url /\ text.url = "allowed"
WaitFits(num) == num # None /\ num \in 1..ServerMax.wait
SelectorFits(text, num) ==
  /\ text # None /\ text.length \in 1..ServerMax.selector
  /\ OptionalPositiveInt(num, ServerMax.timeout)
ExpressionFits(text, num) ==
  /\ text # None /\ text.length \in 1..ServerMax.expression
  /\ OptionalPositiveInt(num, ServerMax.timeout)
FlagFits(flag) == flag = None \/ flag \in BOOLEAN

Fits(x) ==
  \/ x.type = "navigate" /\ UrlFits(x.text)
  \/ x.type = "wait" /\ WaitFits(x.num)
  \/ x.type \in {"waitForSelector", "getText"} /\ SelectorFits(x.text, x.num)
  \/ x.type = "evaluate" /\ ExpressionFits(x.text, x.num)
  \/ x.type = "screenshot" /\ FlagFits(x.flag)

LEMMA AcceptedFits ==
  ASSUME NEW st, st.type \in BlockTypes
  PROVE  AcceptsStep(st) <=> Fits(st)
<1>1. CASE st.type = "navigate"
  <2>1. AcceptsStep(st) <=> UrlFits(st.text)
    BY <1>1 DEF AcceptsStep, UrlFits
  <2> QED
    BY <1>1, <2>1 DEF Fits
<1>2. CASE st.type = "wait"
  <2>1. AcceptsStep(st) <=> WaitFits(st.num)
    BY <1>2 DEF AcceptsStep, WaitFits
  <2> QED
    BY <1>2, <2>1 DEF Fits
<1>3. CASE st.type = "waitForSelector"
  <2>1. AcceptsStep(st) <=> SelectorFits(st.text, st.num)
    BY <1>3 DEF AcceptsStep, SelectorFits
  <2> QED
    BY <1>3, <2>1 DEF Fits
<1>4. CASE st.type = "getText"
  <2>1. AcceptsStep(st) <=> SelectorFits(st.text, st.num)
    BY <1>4 DEF AcceptsStep, SelectorFits
  <2> QED
    BY <1>4, <2>1 DEF Fits
<1>5. CASE st.type = "evaluate"
  <2>1. AcceptsStep(st) <=> ExpressionFits(st.text, st.num)
    BY <1>5 DEF AcceptsStep, ExpressionFits
  <2> QED
    BY <1>5, <2>1 DEF Fits
<1>6. CASE st.type = "screenshot"
  <2>1. AcceptsStep(st) <=> FlagFits(st.flag)
    BY <1>6 DEF AcceptsStep, FlagFits
  <2> QED
    BY <1>6, <2>1 DEF Fits
<1> QED
  BY <1>1, <1>2, <1>3, <1>4, <1>5, <1>6 DEF BlockTypes

(* The editor's validator, a type at a time.                                 *)
UrlValid(text) == text.length \in 1..EditorMax.url /\ text.url = "allowed"
SelectorValid(text, num) == text.length \in 1..EditorMax.selector /\ ValidTimeout(num)
ExpressionValid(text, num) == text.length \in 1..EditorMax.expression /\ ValidTimeout(num)

LEMMA ValidByType ==
  ASSUME NEW b, ValidBlock(b), b.raw = None
  PROVE  /\ b.type = "navigate" => UrlValid(b.text)
         /\ b.type = "wait" => WaitFits(b.num)
         /\ b.type \in {"waitForSelector", "getText"} => SelectorValid(b.text, b.num)
         /\ b.type = "evaluate" => ExpressionValid(b.text, b.num)
<1>1. CASE b.type = "navigate"
  BY <1>1 DEF ValidBlock, UrlValid
<1>2. CASE b.type = "wait"
  BY <1>2, LimitsAgree DEF ValidBlock, WaitFits
<1>3. CASE b.type = "waitForSelector"
  BY <1>3 DEF ValidBlock, SelectorValid
<1>4. CASE b.type = "getText"
  BY <1>4 DEF ValidBlock, SelectorValid
<1>5. CASE b.type = "evaluate"
  BY <1>5 DEF ValidBlock, ExpressionValid
<1> QED
  BY <1>1, <1>2, <1>3, <1>4, <1>5

LEMMA TextsFit ==
  ASSUME NEW text, NEW num, text # None
  PROVE  /\ UrlValid(text) => UrlFits(text)
         /\ SelectorValid(text, num) => SelectorFits(text, num)
         /\ ExpressionValid(text, num) => ExpressionFits(text, num)
<1>1. ValidTimeout(num) => OptionalPositiveInt(num, ServerMax.timeout)
  BY LimitsAgree DEF ValidTimeout, OptionalPositiveInt
<1>2. UrlValid(text) => UrlFits(text)
  BY LimitsAgree DEF UrlValid, UrlFits
<1>3. SelectorValid(text, num) => SelectorFits(text, num)
  BY <1>1, LimitsAgree DEF SelectorValid, SelectorFits
<1>4. ExpressionValid(text, num) => ExpressionFits(text, num)
  BY <1>1, LimitsAgree DEF ExpressionValid, ExpressionFits
<1> QED
  BY <1>2, <1>3, <1>4

LEMMA ValidFits ==
  ASSUME NEW b \in EditedBlocks, ValidBlock(b)
  PROVE  Fits(b)
<1>1. /\ b.raw = None /\ b.type \in BlockTypes
      /\ b.type \in TextTypes => b.text # None
      /\ b.flag = None \/ b.flag \in BOOLEAN
  BY EditorAssumption DEF EditedBlocks, BlockSet
<1>2. FlagFits(b.flag)
  BY <1>1 DEF FlagFits
<1> QED
  BY <1>1, <1>2, ValidByType, TextsFit DEF Fits, TextTypes, BlockTypes

LEMMA WaitIsSet == \A num : WaitFits(num) => num # None
BY DEF WaitFits
LEMMA TextIsSet == \A text, num :
  /\ UrlFits(text) => text # None
  /\ SelectorFits(text, num) => text # None
  /\ ExpressionFits(text, num) => text # None
BY DEF UrlFits, SelectorFits, ExpressionFits

LEMMA FieldsFit ==
  ASSUME NEW b, NEW st, Fits(b), st.type = b.type, 
         b.type \in TextTypes => st.text = b.text,
         b.type \in TimeoutTypes => st.num = b.num,
         b.type = "wait" /\ b.num # None => st.num = b.num,
         b.type = "screenshot" => st.flag = b.flag
  PROVE  Fits(st)
BY WaitIsSet DEF Fits, TextTypes, TimeoutTypes

(* What the editor lets through the server accepts, and keeps as it was sent *)
(* (workflow-blocks.ts, automation/script.ts).                               *)
LEMMA ValidIsStored ==
  ASSUME NEW b \in EditedBlocks, ValidBlock(b)
  PROVE  ToStep(b) \in StoredSteps
<1>1. b \in BlockSet /\ b.raw = None /\ b.type \in BlockTypes
  BY DEF EditedBlocks, BlockSet
<1> DEFINE text == TextFor(b.type, IF b.text = None THEN NoText ELSE b.text)
           num == NumFor(b.type, IF b.type = "wait" /\ b.num = None THEN 0 ELSE b.num)
           flag == FlagFor(b.type, b.flag)
<1>2. ToStep(b) = Step(b.type, text, num, flag)
  BY <1>1 DEF ToStep
<1>3. text \in Texts \cup {None} /\ (b.type \in TextTypes => text = b.text /\ text # None)
  <2>1. NoText \in Texts
    BY TextsAreNotNone DEF NoText
  <2>2. b.text \in Texts \cup {None} /\ (b.type \in TextTypes => b.text \in Texts /\ b.text # None)
    BY EditorAssumption DEF EditedBlocks, BlockSet
  <2> QED
    BY <2>1, <2>2 DEF TextFor
<1>4. num \in Int \cup {None}
  BY <1>1 DEF NumFor, BlockSet
<1>5. flag \in BOOLEAN \cup {None}
  BY <1>1 DEF FlagFor, BlockSet
<1>6. /\ b.type \in TimeoutTypes => num = b.num
      /\ b.type = "wait" /\ b.num # None => num = b.num
      /\ b.type = "screenshot" => flag = b.flag
  BY DEF NumFor, FlagFor, TimeoutTypes
<1>7. /\ text = TextFor(b.type, text)
      /\ num = NumFor(b.type, num)
      /\ flag = FlagFor(b.type, flag)
  BY DEF TextFor, NumFor, FlagFor
<1> HIDE DEF text, num, flag
<1> DEFINE st == Step(b.type, text, num, flag)
<1>8. /\ st.type = b.type /\ st.text = text /\ st.num = num /\ st.flag = flag
      /\ st \in StepSet
  BY <1>1, <1>3, <1>4, <1>5 DEF Step, StepSet
<1>9. st = Step(st.type, TextFor(st.type, st.text), NumFor(st.type, st.num), FlagFor(st.type, st.flag))
  BY <1>7, <1>8
<1>10. AcceptsStep(st)
  <2>1. Fits(b)
    BY ValidFits
  <2>2. Fits(st)
    BY <1>3, <1>6, <1>8, <2>1, FieldsFit
  <2> QED
    BY <1>1, <1>8, <2>2, AcceptedFits
<1> QED
  BY <1>2, <1>8, <1>9, <1>10 DEF StoredSteps, Stored

(* A stored step is read back into a block of the editor that means it.      *)
LEMMA StepRoundTrip ==
  ASSUME NEW st \in StoredSteps
  PROVE  ToBlock(st) \in EditedBlocks /\ ToStep(ToBlock(st)) = st
<1>1. st \in StepSet /\ Stored(st) /\ st.type \in BlockTypes
  BY DEF StoredSteps, StepSet
<1> DEFINE b == ToBlock(st)
           text == TextFor(st.type, st.text)
           num == NumFor(st.type, st.num)
           flag == FlagFor(st.type, st.flag)
<1>2. b = Block(st.type, text, num, flag, None)
  BY <1>1 DEF ToBlock
<1>3. text \in Texts \cup {None} /\ num \in Int \cup {None} /\ flag \in BOOLEAN \cup {None}
  BY <1>1 DEF StepSet, TextFor, NumFor, FlagFor
<1>4. st.text # None \/ st.type \notin TextTypes
  <2>1. Fits(st)
    BY <1>1, AcceptedFits DEF Stored
  <2> QED
    BY <2>1, TextIsSet DEF Fits, TextTypes
<1>5. st.type \in TextTypes => text \in Texts
  BY <1>3, <1>4 DEF TextFor
<1>6. st.type = "wait" => num # None
  <2>1. Fits(st)
    BY <1>1, AcceptedFits DEF Stored
  <2> QED
    BY <2>1, WaitIsSet DEF Fits, NumFor
<1>7. st = Step(st.type, text, num, flag)
  BY <1>1 DEF Stored
<1> HIDE DEF text, num, flag
<1>8. /\ b.type = st.type /\ b.text = text /\ b.num = num /\ b.flag = flag /\ b.raw = None
      /\ b \in BlockSet
  BY <1>1, <1>2, <1>3 DEF Block, BlockSet
<1>9. b \in EditedBlocks
  BY <1>5, <1>8 DEF EditedBlocks
<1>10. /\ TextFor(st.type, IF text = None THEN NoText ELSE text) = text
       /\ NumFor(st.type, IF st.type = "wait" /\ num = None THEN 0 ELSE num) = num
       /\ FlagFor(st.type, flag) = flag
  <2>1. TextFor(st.type, IF text = None THEN NoText ELSE text) = text
    BY <1>5, EditorAssumption DEF TextFor, text
  <2>2. NumFor(st.type, IF st.type = "wait" /\ num = None THEN 0 ELSE num) = num
    BY <1>6 DEF NumFor, num
  <2>3. FlagFor(st.type, flag) = flag
    BY DEF FlagFor, flag
  <2> QED
    BY <2>1, <2>2, <2>3
<1>11. ToStep(b) = Step(st.type, text, num, flag)
  <2> HIDE DEF b
  <2> QED
    BY <1>8, <1>10 DEF ToStep
<1> QED
  BY <1>7, <1>9, <1>11

LEMMA ScriptRoundTrip ==
  ASSUME NEW steps \in Seq(StoredSteps)
  PROVE  StepsToBlocks(steps) \in Seq(EditedBlocks) /\ BlocksToSteps(StepsToBlocks(steps)) = steps
<1> DEFINE bs == StepsToBlocks(steps)
<1>1. Len(steps) \in Nat /\ \A i \in 1..Len(steps) : steps[i] \in StoredSteps
  OBVIOUS
<1>2. bs = [i \in 1..Len(steps) |-> ToBlock(steps[i])]
  BY DEF StepsToBlocks
<1>3. bs \in Seq(EditedBlocks) /\ Len(bs) = Len(steps)
  <2>1. \A i \in 1..Len(steps) : ToBlock(steps[i]) \in EditedBlocks
    BY <1>1, StepRoundTrip
  <2> HIDE DEF bs
  <2> QED
    BY <1>1, <1>2, <2>1
<1>4. BlocksToSteps(bs) = [i \in 1..Len(steps) |-> ToStep(bs[i])]
  BY <1>3 DEF BlocksToSteps
<1>5. \A i \in 1..Len(steps) : ToStep(bs[i]) = steps[i]
  <2> SUFFICES ASSUME NEW i \in 1..Len(steps) PROVE ToStep(bs[i]) = steps[i]
    OBVIOUS
  <2>1. bs[i] = ToBlock(steps[i])
    BY <1>2
  <2> QED
    BY <1>1, <2>1, StepRoundTrip
<1>6. steps = [i \in 1..Len(steps) |-> steps[i]]
  OBVIOUS
<1> QED
  BY <1>3, <1>4, <1>5, <1>6

LEMMA ValidScript ==
  ASSUME NEW bs \in Seq(EditedBlocks), ValidBlocks(bs)
  PROVE  BlocksToSteps(bs) \in Seq(StoredSteps) /\ AcceptsSteps(BlocksToSteps(bs))
<1> DEFINE q == BlocksToSteps(bs)
<1>1. Len(bs) \in Nat /\ \A i \in 1..Len(bs) : bs[i] \in EditedBlocks /\ ValidBlock(bs[i])
  BY DEF ValidBlocks
<1>2. q = [i \in 1..Len(bs) |-> ToStep(bs[i])]
  BY DEF BlocksToSteps
<1>3. \A i \in 1..Len(bs) : ToStep(bs[i]) \in StoredSteps
  BY <1>1, ValidIsStored
<1> HIDE DEF q
<1>4. q \in Seq(StoredSteps) /\ Len(q) = Len(bs)
  BY <1>1, <1>2, <1>3
<1>5. \A i \in 1..Len(q) : AcceptsStep(q[i])
  BY <1>4 DEF StoredSteps, Stored
<1>6. AcceptsSteps(q)
  BY <1>4, <1>5, LimitsAgree DEF AcceptsSteps, ValidBlocks
<1> QED
  BY <1>4, <1>6 DEF q

(* The server stores what it accepts as it was sent.                         *)
LEMMA StoredAsSent ==
  ASSUME NEW steps \in Seq(StoredSteps)
  PROVE  Normal(steps) = steps
<1>1. \A i \in 1..Len(steps) :
        steps[i] = Step(steps[i].type, TextFor(steps[i].type, steps[i].text),
                        NumFor(steps[i].type, steps[i].num), FlagFor(steps[i].type, steps[i].flag))
  <2> SUFFICES ASSUME NEW i \in 1..Len(steps)
               PROVE  steps[i] = Step(steps[i].type, TextFor(steps[i].type, steps[i].text),
                        NumFor(steps[i].type, steps[i].num), FlagFor(steps[i].type, steps[i].flag))
    OBVIOUS
  <2> DEFINE st == steps[i]
  <2>1. st \in StoredSteps
    OBVIOUS
  <2> HIDE DEF st
  <2>2. st = Step(st.type, TextFor(st.type, st.text), NumFor(st.type, st.num), FlagFor(st.type, st.flag))
    BY <2>1 DEF StoredSteps, Stored
  <2> QED
    BY <2>2 DEF st
<1>2. steps = [i \in 1..Len(steps) |-> steps[i]]
  OBVIOUS
<1> QED
  BY <1>1, <1>2 DEF Normal

(* ------------------------------------------- what others do to the calls *)

(* Versions are only added.                                                  *)
Grown(pub, new) ==
  \A s \in Scripts : /\ Len(pub[s]) <= Len(new[s])
                     /\ \A v \in 1..Len(pub[s]) : new[s][v] = pub[s][v]

LEMMA VersionsKept ==
  ASSUME NEW pub \in PublishedSet, NEW new \in PublishedSet, Grown(pub, new),
         NEW s \in Scripts, NEW steps, IsVersion(pub, s, steps)
  PROVE  IsVersion(new, s, steps)
<1>1. PICK v \in 1..Len(pub[s]) : pub[s][v] = steps
  BY DEF IsVersion
<1>2. Len(pub[s]) \in Nat /\ Len(new[s]) \in Nat
  BY DEF PublishedSet
<1>3. v \in 1..Len(new[s]) /\ new[s][v] = steps
  BY <1>1, <1>2 DEF Grown
<1> QED
  BY <1>3 DEF IsVersion

LEMMA Lengths ==
  ASSUME NEW pub \in PublishedSet, NEW s \in Scripts
  PROVE  Len(pub[s]) \in Nat /\ (pub[s] # << >> <=> Len(pub[s]) > 0)
BY DEF PublishedSet

LEMMA CallGrows ==
  ASSUME NEW pub \in PublishedSet, NEW new \in PublishedSet, Grown(pub, new),
         NEW k, NEW id, CallOK(k, id, pub)
  PROVE  CallOK(k, id, new)
<1>1. CallShape(k) /\ FitsPage(k, id) /\ FitsServer(k, pub) /\ AnswerFits(k, pub)
  BY DEF CallOK
<1>2. \A s \in Scripts : /\ Len(pub[s]) \in Nat /\ Len(new[s]) \in Nat
                         /\ Len(pub[s]) <= Len(new[s])
                         /\ pub[s] # << >> => new[s] # << >>
  BY Lengths DEF Grown
<1>3. k.kind \in {"open", "version", "publish", "versions"} => k.script \in Scripts
  BY <1>1 DEF CallShape
<1>4. FitsServer(k, new)
  <2>1. k.kind = "open" => new[k.script] # << >>
    BY <1>1, <1>2, <1>3 DEF FitsServer
  <2>2. k.kind = "version" => k.version \in 1..Len(new[k.script])
    BY <1>1, <1>2, <1>3 DEF FitsServer
  <2>3. k.kind = "versions" => IsVersion(new, k.script, k.steps)
    BY <1>1, <1>3, VersionsKept DEF FitsServer
  <2> QED
    BY <2>1, <2>2, <2>3 DEF FitsServer
<1>5. ASSUME k.state = "answered"
      PROVE  /\ k.kind \in {"open", "version", "publish"} => IsVersion(new, k.script, k.answer.steps)
             /\ k.kind \in {"open", "versions"} => k.answer.versions \in 0..Len(new[k.script])
             /\ k.kind = "create" => k.answer \in Scripts /\ IsVersion(new, k.answer, k.steps)
             /\ k.kind \in {"list", "relist"} => \A s \in Scripts : k.answer[s] \in 0..Len(new[s])
  <2>1. k.kind \in {"open", "version", "publish"} => IsVersion(new, k.script, k.answer.steps)
    BY <1>1, <1>3, <1>5, VersionsKept DEF AnswerFits
  <2>2. k.kind \in {"open", "versions"} => k.answer.versions \in 0..Len(new[k.script])
    BY <1>1, <1>2, <1>3, <1>5 DEF AnswerFits
  <2>3. k.kind = "create" => k.answer \in Scripts /\ IsVersion(new, k.answer, k.steps)
    BY <1>1, <1>5, VersionsKept DEF AnswerFits
  <2>4. k.kind \in {"list", "relist"} => \A s \in Scripts : k.answer[s] \in 0..Len(new[s])
    BY <1>1, <1>2, <1>5 DEF AnswerFits
  <2> QED
    BY <2>1, <2>2, <2>3, <2>4
<1>6. AnswerFits(k, new)
  BY <1>5 DEF AnswerFits
<1> QED
  BY <1>1, <1>4, <1>6 DEF CallOK

(* What nobody waits for does not say which script is selected.              *)
LEMMA PageMayMove ==
  ASSUME NEW pub, NEW k, NEW id, NEW to, CallOK(k, id, pub), k.kind \notin Waited
  PROVE  CallOK(k, to, pub)
BY DEF CallOK, FitsPage, Waited

(* What becomes of the calls when one of them does: the others stay as they  *)
(* were.                                                                     *)
Becomes(c, k) == calls' = [d \in Slots |-> IF d = c THEN k ELSE calls[d]]

OthersUnwaited(c) == \A d \in Slots \ {c} : calls[d].kind \notin Waited

LEMMA CallsStep ==
  ASSUME EditorInv, published' \in PublishedSet, Grown(published, published'),
         NEW c \in Slots, NEW k, Becomes(c, k),
         CallOK(k, selectedId', published'),
         k.kind \in Waited => busy' /\ OthersUnwaited(c),
         OthersUnwaited(c) \/ (selectedId' = selectedId /\ busy' = busy)
  PROVE  CallsOK'
<1>1. /\ published \in PublishedSet
      /\ calls = [d \in Slots |-> calls[d]]
      /\ \A d, e \in Slots : calls[d].kind \in Waited /\ calls[e].kind \in Waited => d = e
      /\ \A d \in Slots : calls[d].kind \in Waited => busy
      /\ \A d \in Slots : CallOK(calls[d], selectedId, published)
  BY DEF EditorInv, CallsOK
<1>2. calls'[c] = k /\ \A d \in Slots \ {c} : calls'[d] = calls[d]
  BY DEF Becomes
<1>3. calls' = [d \in Slots |-> calls'[d]]
  BY DEF Becomes
<1>4. \A d, e \in Slots : calls'[d].kind \in Waited /\ calls'[e].kind \in Waited => d = e
  BY <1>1, <1>2 DEF OthersUnwaited
<1>5. \A d \in Slots : calls'[d].kind \in Waited => busy'
  BY <1>1, <1>2 DEF OthersUnwaited
<1>6. \A d \in Slots : CallOK(calls'[d], selectedId', published')
  <2> SUFFICES ASSUME NEW d \in Slots \ {c} PROVE CallOK(calls'[d], selectedId', published')
    BY <1>2
  <2>1. CallOK(calls[d], selectedId', published)
    BY <1>1, PageMayMove DEF OthersUnwaited
  <2> QED
    BY <1>1, <1>2, <2>1, CallGrows
<1> QED
  BY <1>3, <1>4, <1>5, <1>6 DEF CallsOK

LEMMA CallsSame ==
  ASSUME EditorInv, published' \in PublishedSet, Grown(published, published'),
         UNCHANGED calls, \/ UNCHANGED <<selectedId, busy>>
                          \/ ~busy /\ UNCHANGED busy
  PROVE  CallsOK'
<1>1. /\ published \in PublishedSet
      /\ calls = [d \in Slots |-> calls[d]]
      /\ \A d, e \in Slots : calls[d].kind \in Waited /\ calls[e].kind \in Waited => d = e
      /\ \A d \in Slots : calls[d].kind \in Waited => busy
      /\ \A d \in Slots : CallOK(calls[d], selectedId, published)
  BY DEF EditorInv, CallsOK
<1>2. \A d \in Slots : CallOK(calls[d], selectedId', published')
  <2> SUFFICES ASSUME NEW d \in Slots PROVE CallOK(calls[d], selectedId', published')
    OBVIOUS
  <2>1. CallOK(calls[d], selectedId', published)
    BY <1>1, PageMayMove
  <2> QED
    BY <1>1, <2>1, CallGrows
<1> QED
  BY <1>1, <1>2 DEF CallsOK

LEMMA SamePublished ==
  ASSUME EditorInv, UNCHANGED published
  PROVE  published' \in PublishedSet /\ Grown(published, published')
<1>1. published \in PublishedSet
  BY DEF EditorInv
<1> QED
  BY <1>1, Lengths DEF Grown

(* A new call takes a free slot.                                             *)
LEMMA Starting ==
  ASSUME EditorInv, NEW c \in Slots, NEW k, Start(c, k)
  PROVE  Becomes(c, k)
BY DEF Start, Becomes, EditorInv, CallsOK

LEMMA Ending ==
  ASSUME EditorInv, NEW c \in Slots, Done(c)
  PROVE  Becomes(c, Idle)
BY DEF Done, Becomes, EditorInv, CallsOK

WithAnswer(k, answer) ==
  [kind |-> k.kind, script |-> k.script, version |-> k.version, steps |-> k.steps,
   job |-> k.job, state |-> "answered", answer |-> answer]

LEMMA Answering ==
  ASSUME EditorInv, NEW c \in Slots, NEW answer, Answered(c, answer)
  PROVE  Becomes(c, WithAnswer(calls[c], answer))
<1> DEFINE k == calls[c]
<1>1. /\ calls = [d \in Slots |-> calls[d]]
      /\ k = [kind |-> k.kind, script |-> k.script, version |-> k.version, steps |-> k.steps,
              job |-> k.job, state |-> k.state, answer |-> k.answer]
  BY DEF EditorInv, CallsOK, CallOK, CallShape
<1>2. [[k EXCEPT !.state = "answered"] EXCEPT !.answer = answer] = WithAnswer(k, answer)
  <2> HIDE DEF k
  <2> DEFINE m == [k EXCEPT !.state = "answered"]
  <2>1. m = [kind |-> k.kind, script |-> k.script, version |-> k.version, steps |-> k.steps,
             job |-> k.job, state |-> "answered", answer |-> k.answer]
    BY <1>1
  <2> HIDE DEF m
  <2>2. /\ m.kind = k.kind /\ m.script = k.script /\ m.version = k.version
        /\ m.steps = k.steps /\ m.job = k.job /\ m.state = "answered"
    BY <2>1
  <2>3. [m EXCEPT !.answer = answer]
        = [kind |-> m.kind, script |-> m.script, version |-> m.version, steps |-> m.steps,
           job |-> m.job, state |-> m.state, answer |-> answer]
    BY <2>1
  <2> QED
    BY <2>2, <2>3 DEF WithAnswer, m
<1>3. calls' = [d \in Slots |-> IF d = c
                  THEN [[k EXCEPT !.state = "answered"] EXCEPT !.answer = answer] ELSE calls[d]]
  BY <1>1 DEF Answered
<1> QED
  BY <1>2, <1>3 DEF Becomes

LEMMA IdleIsNoCall ==
  Idle = [kind |-> "idle", script |-> None, version |-> 0, steps |-> << >>, job |-> None,
          state |-> "idle", answer |-> None]
BY DEF Idle, Call

LEMMA IdleOK == \A id, pub : CallOK(Idle, id, pub)
BY IdleIsNoCall DEF CallOK, CallShape, FitsPage, FitsServer, AnswerFits, Waited

LEMMA NobodyWaits ==
  ASSUME EditorInv, ~busy, NEW c
  PROVE  OthersUnwaited(c)
BY DEF EditorInv, CallsOK, OthersUnwaited

LEMMA AloneWaited ==
  ASSUME EditorInv, NEW c \in Slots, calls[c].kind \in Waited
  PROVE  OthersUnwaited(c)
BY DEF EditorInv, CallsOK, OthersUnwaited

(* ------------------------------------------------- what leaves the page be *)

LEMMA PageKept ==
  ASSUME EditorInv, published' \in PublishedSet, Grown(published, published'),
         UNCHANGED <<scripts, selectedId, blocks, versions, origin, clean>>, busy' \in BOOLEAN
  PROVE  PageOK' /\ UntouchedIsStored'
<1>1. PageOK /\ published \in PublishedSet /\ UntouchedIsStored
  BY DEF EditorInv
<1>2. \A s \in Scripts : /\ Len(published[s]) \in Nat /\ Len(published'[s]) \in Nat
                         /\ Len(published[s]) <= Len(published'[s])
  BY <1>1, Lengths DEF Grown
<1>3. selectedId # None => selectedId \in Scripts
  BY <1>1 DEF PageOK
<1>4. PageOK'
  <2>1. selectedId' # None => versions' <= Len(published'[selectedId'])
    BY <1>1, <1>2, <1>3 DEF PageOK
  <2>2. \A s \in Scripts : scripts'[s] \in 0..Len(published'[s])
    BY <1>1, <1>2 DEF PageOK
  <2> QED
    BY <1>1, <2>1, <2>2 DEF PageOK
<1>5. UntouchedIsStored'
  <2> SUFFICES ASSUME clean, selectedId # None
               PROVE  IsVersion(published', selectedId, BlocksToSteps(blocks))
    BY DEF UntouchedIsStored, IsVersion
  <2>1. IsVersion(published, selectedId, BlocksToSteps(blocks))
    BY <1>1 DEF UntouchedIsStored, IsVersion
  <2> QED
    BY <1>1, <1>3, <2>1, VersionsKept
<1> QED
  BY <1>4, <1>5

(* A call that starts while the page is not busy.                            *)
LEMMA ClickStarts ==
  ASSUME EditorInv, ~busy, NEW c \in Slots, NEW k, Start(c, k),
         CallOK(k, selectedId, published), busy' = TRUE,
         UNCHANGED <<published, scripts, selectedId, blocks, versions, origin, clean>>
  PROVE  EditorInv'
<1>1. published' \in PublishedSet /\ Grown(published, published')
  BY SamePublished
<1>2. PageOK' /\ UntouchedIsStored'
  BY <1>1, PageKept
<1>3. CallsOK'
  BY <1>1, Starting, NobodyWaits, CallsStep
<1> QED
  BY <1>1, <1>2, <1>3 DEF EditorInv

(* The server's answer, and whatever else changes nothing but a call.        *)
LEMMA CallMoves ==
  ASSUME EditorInv, published' \in PublishedSet, Grown(published, published'),
         UNCHANGED <<scripts, selectedId, blocks, versions, busy, origin, clean>>,
         NEW c \in Slots, NEW k, Becomes(c, k), CallOK(k, selectedId, published'),
         k.kind \in Waited => calls[c].kind \in Waited
  PROVE  EditorInv'
<1>1. busy' \in BOOLEAN
  BY DEF EditorInv, PageOK
<1>2. PageOK' /\ UntouchedIsStored'
  BY <1>1, PageKept
<1>3. k.kind \in Waited => busy' /\ OthersUnwaited(c)
  <2> SUFFICES ASSUME calls[c].kind \in Waited PROVE busy' /\ OthersUnwaited(c)
    OBVIOUS
  <2>1. busy
    BY DEF EditorInv, CallsOK
  <2> QED
    BY <2>1, AloneWaited
<1>4. CallsOK'
  BY <1>3, CallsStep
<1> QED
  BY <1>2, <1>4 DEF EditorInv

LEMMA CallsAre ==
  ASSUME EditorInv, NEW c \in Slots
  PROVE  CallOK(calls[c], selectedId, published) /\ CallShape(calls[c])
BY DEF EditorInv, CallsOK, CallOK

(* An answer is all that changes of a call.                                  *)
LEMMA AnswerOK ==
  ASSUME NEW k, NEW id, NEW pub, CallOK(k, id, pub), NEW answer, k.kind # "idle",
         AnswerFits(WithAnswer(k, answer), pub)
  PROVE  CallOK(WithAnswer(k, answer), id, pub) /\ WithAnswer(k, answer).kind = k.kind
<1> DEFINE w == WithAnswer(k, answer)
<1>1. /\ w.kind = k.kind /\ w.script = k.script /\ w.version = k.version /\ w.steps = k.steps
      /\ w.job = k.job /\ w.state = "answered" /\ w.answer = answer
  BY DEF WithAnswer
<1>2. w = [kind |-> w.kind, script |-> w.script, version |-> w.version, steps |-> w.steps,
           job |-> w.job, state |-> w.state, answer |-> w.answer]
  BY DEF WithAnswer
<1> HIDE DEF w
<1>3. CallShape(w)
  BY <1>1, <1>2 DEF CallOK, CallShape
<1>4. FitsPage(w, id) /\ FitsServer(w, pub)
  BY <1>1 DEF CallOK, FitsPage, FitsServer
<1> QED
  BY <1>1, <1>3, <1>4 DEF CallOK, w

(* A call just sent.                                                         *)
LEMMA SentOK ==
  ASSUME NEW kind \in Waited \cup {"list", "poll"}, NEW script, NEW version, NEW steps, NEW j,
         kind \in {"open", "version", "publish", "versions"} => script \in Scripts,
         kind \in {"publish", "create"} => steps \in Seq(StoredSteps) /\ AcceptsSteps(steps),
         NEW id, NEW pub,
         kind \in {"version", "publish", "versions"} => script = id,
         kind = "create" => id = None,
         kind = "open" => pub[script] # << >>,
         kind = "version" => version \in 1..Len(pub[script]),
         kind = "versions" => IsVersion(pub, script, steps)
  PROVE  /\ CallOK(Call(kind, script, version, steps, j), id, pub)
         /\ Call(kind, script, version, steps, j).kind = kind
<1> DEFINE k == Call(kind, script, version, steps, j)
<1>1. /\ k = [kind |-> kind, script |-> script, version |-> version, steps |-> steps,
              job |-> j, state |-> "sent", answer |-> None]
      /\ k.kind = kind /\ k.script = script /\ k.version = version /\ k.steps = steps
      /\ k.job = j /\ k.state = "sent" /\ k.answer = None
  BY DEF Call
<1> HIDE DEF k
<1>2. CallShape(k)
  BY <1>1 DEF CallShape, Waited
<1>3. FitsPage(k, id) /\ FitsServer(k, pub) /\ AnswerFits(k, pub)
  BY <1>1 DEF FitsPage, FitsServer, AnswerFits
<1> QED
  BY <1>1, <1>2, <1>3 DEF CallOK, k

(* The end of a call that was waited for: the page is free again.            *)
LEMMA WaitEnds ==
  ASSUME EditorInv, UNCHANGED published, NEW c \in Slots, calls[c].kind \in Waited, Done(c),
         PageOK', UntouchedIsStored'
  PROVE  EditorInv'
<1>1. published' \in PublishedSet /\ Grown(published, published')
  BY SamePublished
<1>2. Idle.kind \notin Waited
  BY IdleIsNoCall DEF Waited
<1>3. CallsOK'
  BY <1>1, <1>2, Ending, IdleOK, AloneWaited, CallsStep
<1> QED
  BY <1>1, <1>3 DEF EditorInv

(* ------------------------------------------------------------- the editor *)

LEMMA NewBlocks ==
  ASSUME NEW type \in BlockTypes
  PROVE  CreateBlock(type) \in EditedBlocks
<1> DEFINE text == DefaultText[type]
           num == IF type = "wait" THEN 1000 ELSE None
           flag == IF type = "screenshot" THEN FALSE ELSE None
<1>1. /\ Text(20, "allowed") \in Texts /\ Text(14, "refused") \in Texts /\ NoText \in Texts
  BY TextsAreNotNone DEF NoText
<1>2. text \in Texts \cup {None} /\ (type \in TextTypes => text \in Texts)
  BY <1>1 DEF DefaultText, BlockTypes, TextTypes
<1>3. num \in Int \cup {None} /\ flag \in BOOLEAN \cup {None}
  OBVIOUS
<1> HIDE DEF text, num, flag
<1>4. CreateBlock(type) = Block(type, text, num, flag, None)
  BY DEF CreateBlock, text, num, flag
<1> QED
  BY <1>2, <1>3, <1>4 DEF Block, EditedBlocks, BlockSet

(* A field of a block changes.                                               *)
LEMMA FieldEdits ==
  ASSUME NEW b \in EditedBlocks
  PROVE  /\ \A t \in Texts : [b EXCEPT !.text = t] \in EditedBlocks
         /\ \A n \in Int \cup {None} : [b EXCEPT !.num = n] \in EditedBlocks
         /\ \A f \in BOOLEAN : [b EXCEPT !.flag = f] \in EditedBlocks
BY DEF EditedBlocks, BlockSet

LEMMA EditKeeps ==
  ASSUME EditorInv, NEW new \in Seq(EditedBlocks), Edit(new)
  PROVE  EditorInv'
<1>1. published' \in PublishedSet /\ Grown(published, published')
  BY SamePublished DEF Edit, server
<1>2. CallsOK'
  BY <1>1, CallsSame DEF Edit
<1>3. PageOK'
  BY DEF EditorInv, PageOK, Edit, server
<1>4. UntouchedIsStored'
  BY DEF UntouchedIsStored, Edit
<1> QED
  BY <1>1, <1>2, <1>3, <1>4 DEF EditorInv

LEMMA EditsKeep ==
  ASSUME EditorInv
  PROVE  /\ \A t \in BlockTypes : AddBlock(t) => EditorInv'
         /\ \A i \in 1..Len(blocks) :
              /\ RemoveBlock(i) => EditorInv'
              /\ Toggle(i) => EditorInv'
              /\ \A d \in {-1, 1} : Move(i, d) => EditorInv'
              /\ \A t \in TypedTexts : TypeText(i, t) => EditorInv'
              /\ \A n \in TypedNumbers : TypeNumber(i, n) => EditorInv'
<1>1. /\ blocks \in Seq(EditedBlocks) /\ Len(blocks) \in Nat
      /\ \A i \in 1..Len(blocks) : blocks[i] \in EditedBlocks
  BY DEF EditorInv, PageOK
<1>2. ASSUME NEW t \in BlockTypes, AddBlock(t)
      PROVE  EditorInv'
  <2>1. Append(blocks, CreateBlock(t)) \in Seq(EditedBlocks)
    BY <1>1, NewBlocks
  <2> QED
    BY <1>2, <2>1, EditKeeps DEF AddBlock
<1>3. ASSUME NEW i \in 1..Len(blocks), NEW b \in EditedBlocks
      PROVE  [blocks EXCEPT ![i] = b] \in Seq(EditedBlocks)
  BY <1>1
<1>4. ASSUME NEW i \in 1..Len(blocks), RemoveBlock(i)
      PROVE  EditorInv'
  <2> DEFINE new == [j \in 1..(Len(blocks) - 1) |-> IF j < i THEN blocks[j] ELSE blocks[j + 1]]
  <2>1. \A j \in 1..(Len(blocks) - 1) : new[j] \in EditedBlocks
    BY <1>1
  <2>2. Len(blocks) - 1 \in Nat
    BY <1>1
  <2>3. new \in Seq(EditedBlocks)
    BY <2>1, <2>2
  <2>4. Edit(new)
    BY <1>4 DEF RemoveBlock
  <2> HIDE DEF new
  <2> QED
    BY <2>3, <2>4, EditKeeps
<1>5. ASSUME NEW i \in 1..Len(blocks), Toggle(i)
      PROVE  EditorInv'
  <2> DEFINE flag == IF blocks[i].flag = TRUE THEN FALSE ELSE TRUE
             new == [blocks EXCEPT ![i] = [blocks[i] EXCEPT !.flag = flag]]
  <2>1. new \in Seq(EditedBlocks)
    BY <1>1, <1>3, FieldEdits
  <2>2. Edit(new)
    BY <1>5 DEF Toggle
  <2> HIDE DEF new
  <2> QED
    BY <2>1, <2>2, EditKeeps
<1>6. ASSUME NEW i \in 1..Len(blocks), NEW d \in {-1, 1}, Move(i, d)
      PROVE  EditorInv'
  <2>1. MoveBlock(blocks, i, d) \in Seq(EditedBlocks)
    BY <1>1 DEF MoveBlock
  <2> QED
    BY <1>6, <2>1, EditKeeps DEF Move
<1>7. ASSUME NEW i \in 1..Len(blocks), NEW t \in TypedTexts, TypeText(i, t)
      PROVE  EditorInv'
  <2> DEFINE new == [blocks EXCEPT ![i] = [blocks[i] EXCEPT !.text = t]]
  <2>1. new \in Seq(EditedBlocks)
    BY <1>1, <1>3, FieldEdits, EditorAssumption
  <2>2. Edit(new)
    BY <1>7 DEF TypeText
  <2> HIDE DEF new
  <2> QED
    BY <2>1, <2>2, EditKeeps
<1>8. ASSUME NEW i \in 1..Len(blocks), NEW n \in TypedNumbers, TypeNumber(i, n)
      PROVE  EditorInv'
  <2> DEFINE new == [blocks EXCEPT ![i] = [blocks[i] EXCEPT !.num = n]]
  <2>1. new \in Seq(EditedBlocks)
    BY <1>1, <1>3, FieldEdits, EditorAssumption
  <2>2. Edit(new)
    BY <1>8 DEF TypeNumber
  <2> HIDE DEF new
  <2> QED
    BY <2>1, <2>2, EditKeeps
<1> QED
  BY <1>2, <1>4, <1>5, <1>6, <1>7, <1>8

LEMMA NewWorkflowKeeps ==
  ASSUME EditorInv, Patient, NewWorkflow
  PROVE  EditorInv'
<1>1. published' \in PublishedSet /\ Grown(published, published')
  BY SamePublished DEF NewWorkflow, server
<1>2. ~busy /\ UNCHANGED <<busy, calls>>
  BY DEF NewWorkflow, MayLeave
<1>3. CallsOK'
  BY <1>1, <1>2, CallsSame
<1>4. PageOK'
  <2>1. CreateBlock("navigate") \in EditedBlocks
    BY NewBlocks DEF BlockTypes
  <2>2. blocks' \in Seq(EditedBlocks)
    BY <2>1 DEF NewWorkflow
  <2> QED
    BY <2>2 DEF EditorInv, PageOK, NewWorkflow, server
<1>5. UntouchedIsStored'
  BY DEF UntouchedIsStored, NewWorkflow
<1> QED
  BY <1>1, <1>3, <1>4, <1>5 DEF EditorInv

(* -------------------------------------------------------- calls that start *)

LEMMA StartsKeep ==
  ASSUME EditorInv, Patient, NEW c \in Slots
  PROVE  /\ \A s \in Scripts : OpenScript(s, c) => EditorInv'
         /\ \A v \in 1..MaxVersions : OpenVersion(v, c) => EditorInv'
         /\ Save(c) => EditorInv'
         /\ RunAsJob(c) => EditorInv'
         /\ Poll(c) => EditorInv'
<1>1. /\ published \in PublishedSet
      /\ selectedId \in Scripts \cup {None}
      /\ blocks \in Seq(EditedBlocks)
      /\ versions \in Nat
      /\ selectedId # None => versions <= Len(published[selectedId])
      /\ \A s \in Scripts : scripts[s] \in 0..Len(published[s])
  BY DEF EditorInv, PageOK
<1>2. ASSUME NEW s \in Scripts, OpenScript(s, c)
      PROVE  EditorInv'
  <2>1. ~busy
    BY <1>2 DEF OpenScript, MayLeave
  <2>2. published[s] # << >>
    BY <1>1, <1>2, Lengths DEF OpenScript
  <2>3. CallOK(Call("open", s, 0, << >>, None), selectedId, published)
    BY <2>2, SentOK DEF Waited
  <2> QED
    BY <1>2, <2>1, <2>3, ClickStarts DEF OpenScript, server
<1>3. ASSUME NEW v \in 1..MaxVersions, OpenVersion(v, c)
      PROVE  EditorInv'
  <2>1. selectedId \in Scripts /\ v \in 1..versions
    BY <1>1, <1>3 DEF OpenVersion
  <2>2. v \in 1..Len(published[selectedId])
    BY <1>1, <2>1, Lengths, EditorAssumption
  <2>3. CallOK(Call("version", selectedId, v, << >>, None), selectedId, published)
    BY <2>1, <2>2, SentOK DEF Waited
  <2> QED
    BY <1>3, <2>3, ClickStarts DEF OpenVersion, server
<1>4. ASSUME Save(c)
      PROVE  EditorInv'
  <2> DEFINE steps == BlocksToSteps(blocks)
             kind == IF selectedId = None THEN "create" ELSE "publish"
  <2>1. steps \in Seq(StoredSteps) /\ AcceptsSteps(steps)
    BY <1>1, <1>4, ValidScript DEF Save
  <2>2. CallOK(Call(kind, selectedId, 0, steps, None), selectedId, published)
    <3> HIDE DEF steps
    <3>1. CASE selectedId = None
      <4>1. CallOK(Call("create", selectedId, 0, steps, None), selectedId, published)
        BY <2>1, <3>1, SentOK DEF Waited
      <4> QED
        BY <3>1, <4>1
    <3>2. CASE selectedId # None
      <4>1. CallOK(Call("publish", selectedId, 0, steps, None), selectedId, published)
        BY <1>1, <2>1, <3>2, SentOK DEF Waited
      <4> QED
        BY <3>2, <4>1
    <3> QED
      BY <3>1, <3>2
  <2>3. Start(c, Call(kind, selectedId, 0, steps, None))
    BY <1>4 DEF Save
  <2> HIDE DEF kind, steps
  <2> QED
    BY <1>4, <2>2, <2>3, ClickStarts DEF Save, server
<1>5. ASSUME RunAsJob(c)
      PROVE  EditorInv'
  <2>1. CallOK(Call("job", selectedId, 0, << >>, None), selectedId, published)
    BY SentOK DEF Waited
  <2> QED
    BY <1>5, <2>1, ClickStarts DEF RunAsJob, server
<1>6. ASSUME Poll(c)
      PROVE  EditorInv'
  <2> DEFINE k == Call("poll", None, 0, << >>, lastRun.job)
  <2>1. published' \in PublishedSet /\ Grown(published, published')
    BY <1>6, SamePublished DEF Poll, server
  <2>2. CallOK(k, selectedId, published') /\ k.kind = "poll"
    BY SentOK DEF Waited
  <2>3. Becomes(c, k)
    BY <1>6, Starting DEF Poll
  <2> HIDE DEF k
  <2> QED
    BY <1>6, <2>1, <2>2, <2>3, CallMoves DEF Poll, page, Waited
<1> QED
  BY <1>2, <1>3, <1>4, <1>5, <1>6

(* -------------------------------------------------------------- the server *)

(* An answer that is so keeps the invariant.                                 *)
LEMMA AnswerKeeps ==
  ASSUME EditorInv, published' \in PublishedSet, Grown(published, published'), UNCHANGED page,
         NEW c \in Slots, calls[c].kind # "idle", NEW answer, Answered(c, answer),
         AnswerFits(WithAnswer(calls[c], answer), published')
  PROVE  EditorInv'
<1> DEFINE k == WithAnswer(calls[c], answer)
<1>1. CallOK(calls[c], selectedId, published')
  BY CallsAre, CallGrows DEF EditorInv
<1>2. CallOK(k, selectedId, published') /\ k.kind = calls[c].kind
  BY <1>1, AnswerOK
<1>3. Becomes(c, k)
  BY Answering
<1> HIDE DEF k
<1> QED
  BY <1>2, <1>3, CallMoves DEF page

LEMMA WithAnswerIs ==
  ASSUME NEW k, NEW answer
  PROVE  LET w == WithAnswer(k, answer) IN
         /\ w.kind = k.kind /\ w.script = k.script /\ w.steps = k.steps
         /\ w.state = "answered" /\ w.answer = answer
BY DEF WithAnswer

LEMMA QueriesKeep ==
  ASSUME EditorInv, NEW c \in Slots
  PROVE  /\ ListScripts(c) => EditorInv'
         /\ GetScript(c) => EditorInv'
         /\ CreateJob(c) => EditorInv'
         /\ ListRuns(c) => EditorInv'
<1>1. /\ published \in PublishedSet
      /\ CallShape(calls[c]) /\ FitsServer(calls[c], published)
  BY CallsAre DEF EditorInv, CallOK
<1>2. ASSUME ListScripts(c)
      PROVE  EditorInv'
  <2> DEFINE answer == [s \in Scripts |-> Len(published[s])]
  <2>1. UNCHANGED published /\ calls[c].kind \in {"list", "relist"}
    BY <1>2 DEF ListScripts, Handles, server
  <2>2. \A s \in Scripts : answer[s] \in 0..Len(published[s])
    BY <1>1, Lengths
  <2>3. Answered(c, answer) /\ UNCHANGED page
    BY <1>2 DEF ListScripts
  <2> HIDE DEF answer
  <2>4. AnswerFits(WithAnswer(calls[c], answer), published')
    BY <2>1, <2>2, WithAnswerIs DEF AnswerFits
  <2> QED
    BY <2>1, <2>3, <2>4, SamePublished, AnswerKeeps
<1>3. ASSUME GetScript(c)
      PROVE  EditorInv'
  <2> DEFINE s == calls[c].script
             all == published[s]
             wanted == IF calls[c].kind = "version" THEN calls[c].version ELSE Len(all)
             answer == [steps |-> all[wanted], versions |-> Len(all)]
  <2>1. UNCHANGED published /\ calls[c].kind \in {"open", "version", "versions"}
    BY <1>3 DEF GetScript, Handles, server
  <2>2. s \in Scripts /\ Len(all) \in Nat
    BY <1>1, <2>1, Lengths DEF CallShape
  <2>3. wanted \in 1..Len(all)
    <3>1. calls[c].kind = "versions" => Len(all) > 0
      BY <1>1, <2>2 DEF FitsServer, IsVersion
    <3>2. calls[c].kind = "open" => Len(all) > 0
      BY <1>1, <2>2, Lengths DEF FitsServer
    <3> QED
      BY <1>1, <2>1, <2>2, <3>1, <3>2 DEF FitsServer
  <2>4. IsVersion(published, s, answer.steps) /\ answer.versions \in 0..Len(published[s])
    BY <2>2, <2>3 DEF IsVersion
  <2>5. Answered(c, answer) /\ UNCHANGED page
    BY <1>3 DEF GetScript
  <2> HIDE DEF answer
  <2>6. AnswerFits(WithAnswer(calls[c], answer), published')
    BY <2>1, <2>4, WithAnswerIs DEF AnswerFits
  <2> QED
    BY <2>1, <2>5, <2>6, SamePublished, AnswerKeeps
<1>4. ASSUME CreateJob(c)
      PROVE  EditorInv'
  <2>1. PICK j \in Jobs : Answered(c, j)
    BY <1>4 DEF CreateJob
  <2>2. UNCHANGED published /\ UNCHANGED page /\ calls[c].kind = "job"
    BY <1>4 DEF CreateJob, Handles
  <2>3. AnswerFits(WithAnswer(calls[c], j), published')
    BY <2>2, WithAnswerIs DEF AnswerFits
  <2> QED
    BY <2>1, <2>2, <2>3, SamePublished, AnswerKeeps
<1>5. ASSUME ListRuns(c)
      PROVE  EditorInv'
  <2> DEFINE answer == jobs[calls[c].job].status
  <2>1. Answered(c, answer) /\ UNCHANGED published /\ UNCHANGED page /\ calls[c].kind = "poll"
    BY <1>5 DEF ListRuns, Handles, server
  <2> HIDE DEF answer
  <2>2. AnswerFits(WithAnswer(calls[c], answer), published')
    BY <2>1, WithAnswerIs DEF AnswerFits
  <2> QED
    BY <2>1, <2>2, SamePublished, AnswerKeeps
<1> QED
  BY <1>2, <1>3, <1>4, <1>5

(* A version is added at the end.                                            *)
LEMMA Adding ==
  ASSUME NEW pub \in PublishedSet, NEW s \in Scripts, NEW steps \in Seq(StoredSteps)
  PROVE  LET new == [pub EXCEPT ![s] = Append(@, steps)] IN
         new \in PublishedSet /\ Grown(pub, new) /\ IsVersion(new, s, steps)
<1> DEFINE new == [pub EXCEPT ![s] = Append(@, steps)]
<1>1. /\ new \in [Scripts -> Seq(Seq(StoredSteps))]
      /\ new[s] = Append(pub[s], steps)
      /\ \A r \in Scripts \ {s} : new[r] = pub[r]
  BY DEF PublishedSet
<1>2. pub[s] \in Seq(Seq(StoredSteps)) /\ Len(pub[s]) \in Nat
  BY DEF PublishedSet
<1>3. /\ Len(new[s]) = Len(pub[s]) + 1
      /\ \A v \in 1..Len(pub[s]) : new[s][v] = pub[s][v]
      /\ new[s][Len(pub[s]) + 1] = steps
  BY <1>1, <1>2
<1> HIDE DEF new
<1>4. Grown(pub, new)
  <2> SUFFICES ASSUME NEW q \in Scripts
               PROVE  /\ Len(pub[q]) <= Len(new[q])
                      /\ \A v \in 1..Len(pub[q]) : new[q][v] = pub[q][v]
    BY DEF Grown
  <2>1. CASE q = s
    BY <1>2, <1>3, <2>1
  <2>2. CASE q # s
    BY <1>1, <2>2, Lengths
  <2> QED
    BY <2>1, <2>2
<1>5. IsVersion(new, s, steps)
  BY <1>2, <1>3 DEF IsVersion
<1> QED
  BY <1>1, <1>4, <1>5 DEF PublishedSet, new

LEMMA SavesKeep ==
  ASSUME EditorInv, NEW c \in Slots
  PROVE  /\ CreateScriptVersion(c) => EditorInv'
         /\ CreateScript(c) => EditorInv'
<1> DEFINE k == calls[c]
<1>1. /\ published \in PublishedSet
      /\ CallShape(k)
  BY CallsAre DEF EditorInv, CallOK
<1>2. k.kind \in {"publish", "create"} =>
        k.steps \in Seq(StoredSteps) /\ AcceptsSteps(k.steps) /\ Normal(k.steps) = k.steps
  BY <1>1, StoredAsSent DEF CallShape
<1>3. ASSUME CreateScriptVersion(c)
      PROVE  EditorInv'
  <2> DEFINE answer == [steps |-> k.steps, versions |-> 0]
  <2>1. k.kind = "publish" /\ k.script \in Scripts
    BY <1>1, <1>3 DEF CreateScriptVersion, Handles, CallShape
  <2>2. /\ published' = [published EXCEPT ![k.script] = Append(@, k.steps)]
        /\ Answered(c, answer) /\ UNCHANGED page
    BY <1>2, <1>3, <2>1 DEF CreateScriptVersion
  <2>3. published' \in PublishedSet /\ Grown(published, published')
        /\ IsVersion(published', k.script, answer.steps)
    BY <1>1, <1>2, <2>1, <2>2, Adding
  <2> HIDE DEF answer
  <2>4. AnswerFits(WithAnswer(k, answer), published')
    BY <2>1, <2>3, WithAnswerIs DEF AnswerFits
  <2> QED
    BY <2>1, <2>2, <2>3, <2>4, AnswerKeeps
<1>4. ASSUME CreateScript(c)
      PROVE  EditorInv'
  <2>1. k.kind = "create"
    BY <1>4 DEF CreateScript, Handles
  <2>2. PICK s \in Scripts :
          /\ published[s] = << >>
          /\ published' = [published EXCEPT ![s] = <<k.steps>>]
          /\ Answered(c, s)
    BY <1>2, <1>4, <2>1 DEF CreateScript
  <2>3. published' \in PublishedSet /\ Grown(published, published')
        /\ IsVersion(published', s, k.steps)
    <3>1. Append(published[s], k.steps) = <<k.steps>>
      BY <2>2
    <3>2. published' = [published EXCEPT ![s] = Append(@, k.steps)]
      BY <2>2, <3>1
    <3> QED
      BY <1>1, <1>2, <2>1, <3>2, Adding
  <2>4. AnswerFits(WithAnswer(k, s), published')
    BY <2>1, <2>3, WithAnswerIs DEF AnswerFits
  <2>5. UNCHANGED page
    BY <1>4 DEF CreateScript
  <2> QED
    BY <2>1, <2>2, <2>3, <2>4, <2>5, AnswerKeeps
<1> QED
  BY <1>3, <1>4

LEMMA SampleIsStored == Sample \in Seq(StoredSteps)
<1> DEFINE text == Text(20, "allowed")
           st == Step("navigate", text, None, None)
<1>1. text \in Texts /\ text # None /\ text.length \in 1..ServerMax.url /\ text.url = "allowed"
  <2>1. text \in Texts /\ text # None
    BY TextsAreNotNone
  <2>2. text.length = 20 /\ text.url = "allowed"
    BY DEF Text
  <2>3. ServerMax.url = 2048
    BY DEF ServerMax
  <2> QED
    BY <2>1, <2>2, <2>3
<1> HIDE DEF text
<1>2. st.type = "navigate" /\ st.text = text /\ st.num = None /\ st.flag = None
  BY DEF Step
<1>3. st \in StepSet
  BY <1>1 DEF Step, StepSet, BlockTypes
<1>4. AcceptsStep(st)
  <2>1. Fits(st) /\ st.type \in BlockTypes
    BY <1>1, <1>2 DEF Fits, UrlFits, BlockTypes
  <2> HIDE DEF st
  <2> QED
    BY <2>1, AcceptedFits
<1>5. st = Step(st.type, TextFor(st.type, st.text), NumFor(st.type, st.num), FlagFor(st.type, st.flag))
  BY <1>2 DEF TextFor, NumFor, FlagFor, TextTypes, TimeoutTypes
<1>6. st \in StoredSteps
  BY <1>3, <1>4, <1>5 DEF StoredSteps, Stored
<1>7. Sample = <<st>>
  BY DEF Sample, text
<1> HIDE DEF st
<1> QED
  BY <1>6, <1>7

LEMMA OthersKeep ==
  ASSUME EditorInv
  PROVE  /\ \A s \in Shared : OthersPublish(s) => EditorInv'
         /\ \A j \in Jobs : RunEnds(j) => EditorInv'
         /\ \A c \in Slots : CallFails(c) => EditorInv'
<1>1. published \in PublishedSet /\ busy \in BOOLEAN
  BY DEF EditorInv, PageOK
<1>2. ASSUME NEW s \in Shared, OthersPublish(s)
      PROVE  EditorInv'
  <2>1. published' \in PublishedSet /\ Grown(published, published')
    BY <1>1, <1>2, SampleIsStored, Adding, EditorAssumption DEF OthersPublish
  <2>2. UNCHANGED <<scripts, selectedId, blocks, versions, busy, origin, clean, calls>>
    BY <1>2 DEF OthersPublish, page
  <2> QED
    BY <1>1, <2>1, <2>2, PageKept, CallsSame DEF EditorInv
<1>3. ASSUME NEW j \in Jobs, RunEnds(j)
      PROVE  EditorInv'
  <2>1. UNCHANGED <<published, scripts, selectedId, blocks, versions, busy, origin, clean, calls>>
    BY <1>3 DEF RunEnds, page
  <2> QED
    BY <1>1, <2>1, SamePublished, PageKept, CallsSame DEF EditorInv
<1>4. ASSUME NEW c \in Slots, CallFails(c)
      PROVE  EditorInv'
  <2> DEFINE k == calls[c]
             w == [k EXCEPT !.state = "failed"]
  <2>1. CallOK(k, selectedId, published) /\ CallShape(k)
    BY CallsAre
  <2>2. /\ w = [kind |-> k.kind, script |-> k.script, version |-> k.version, steps |-> k.steps,
               job |-> k.job, state |-> "failed", answer |-> k.answer]
        /\ k.state \in {"sent", "answered"}
    BY <1>4, <2>1 DEF CallShape, CallFails
  <2>3. Becomes(c, w)
    <3>1. calls = [d \in Slots |-> calls[d]]
      BY DEF EditorInv, CallsOK
    <3> QED
      BY <1>4, <3>1 DEF CallFails, Becomes
  <2> HIDE DEF w
  <2>4. /\ w.kind = k.kind /\ w.script = k.script /\ w.version = k.version /\ w.steps = k.steps
        /\ w.job = k.job /\ w.state = "failed" /\ w.answer = k.answer
    BY <2>2
  <2>5. k.kind # "idle"
    BY <2>1, <2>2, IdleIsNoCall DEF CallShape
  <2>6. CallShape(w)
    BY <2>1, <2>2, <2>4, <2>5 DEF CallShape
  <2>7. FitsPage(w, selectedId) /\ FitsServer(w, published) /\ AnswerFits(w, published)
    BY <2>1, <2>4 DEF CallOK, FitsPage, FitsServer, AnswerFits
  <2>8. UNCHANGED <<published, scripts, selectedId, blocks, versions, busy, origin, clean>>
    BY <1>4 DEF CallFails, page, server
  <2> QED
    BY <2>3, <2>4, <2>6, <2>7, <2>8, SamePublished, CallMoves DEF CallOK
<1> QED
  BY <1>2, <1>3, <1>4

(* -------------------------------------------------------- answers come back *)

(* The steps of a version are shown as blocks that mean them.                *)
LEMMA Shown ==
  ASSUME NEW pub \in PublishedSet, NEW s \in Scripts, NEW steps, IsVersion(pub, s, steps)
  PROVE  StepsToBlocks(steps) \in Seq(EditedBlocks) /\ BlocksToSteps(StepsToBlocks(steps)) = steps
<1>1. steps \in Seq(StoredSteps)
  <2>1. PICK v \in 1..Len(pub[s]) : pub[s][v] = steps
    BY DEF IsVersion
  <2>2. pub[s] \in Seq(Seq(StoredSteps))
    BY DEF PublishedSet
  <2> QED
    BY <2>1, <2>2
<1> QED
  BY <1>1, ScriptRoundTrip

LEMMA Answers ==
  ASSUME EditorInv, NEW c \in Slots, NEW kind, Returns(c, kind)
  PROVE  LET k == calls[c] IN
         /\ kind \in {"open", "version", "publish"} =>
              k.script \in Scripts /\ IsVersion(published, k.script, k.answer.steps)
         /\ kind \in {"open", "versions"} =>
              k.script \in Scripts /\ k.answer.versions \in 0..Len(published[k.script])
         /\ kind = "versions" => IsVersion(published, k.script, k.steps)
         /\ kind \in {"version", "versions", "publish"} => k.script = selectedId
         /\ kind = "create" =>
              k.answer \in Scripts /\ IsVersion(published, k.answer, k.steps) /\ selectedId = None
         /\ kind \in {"list", "relist"} => \A s \in Scripts : k.answer[s] \in 0..Len(published[s])
<1>1. /\ calls[c].state = "answered" /\ calls[c].kind = kind
      /\ CallShape(calls[c]) /\ FitsPage(calls[c], selectedId)
      /\ FitsServer(calls[c], published) /\ AnswerFits(calls[c], published)
  BY CallsAre DEF Returns, CallOK
<1> DEFINE k == calls[c]
<1> HIDE DEF k
<1>2. /\ kind \in {"open", "version", "publish", "versions"} => k.script \in Scripts
      /\ kind \in {"version", "versions", "publish"} => k.script = selectedId
      /\ kind = "create" => selectedId = None
  BY <1>1 DEF CallShape, FitsPage, k
<1>3. kind = "versions" => IsVersion(published, k.script, k.steps)
  BY <1>1 DEF FitsServer, k
<1>4. /\ kind \in {"open", "version", "publish"} => IsVersion(published, k.script, k.answer.steps)
      /\ kind \in {"open", "versions"} => k.answer.versions \in 0..Len(published[k.script])
      /\ kind = "create" => k.answer \in Scripts /\ IsVersion(published, k.answer, k.steps)
      /\ kind \in {"list", "relist"} => \A s \in Scripts : k.answer[s] \in 0..Len(published[s])
  BY <1>1 DEF AnswerFits, k
<1> QED
  BY <1>2, <1>3, <1>4 DEF k

(* What was loaded is shown as it is stored.                                 *)
LEMMA LoadKeeps ==
  ASSUME EditorInv, UNCHANGED <<published, scripts>>,
         NEW c \in Slots, calls[c].kind \in Waited, Done(c),
         NEW s \in Scripts, NEW steps, IsVersion(published, s, steps),
         blocks' = StepsToBlocks(steps), selectedId' = s, origin' = s, busy' = FALSE, clean' = TRUE,
         versions' \in 0..Len(published[s])
  PROVE  EditorInv'
<1>1. published \in PublishedSet /\ PageOK
  BY DEF EditorInv
<1>2. StepsToBlocks(steps) \in Seq(EditedBlocks) /\ BlocksToSteps(StepsToBlocks(steps)) = steps
  BY <1>1, Shown
<1>3. PageOK'
  <2>1. /\ blocks' \in Seq(EditedBlocks) /\ origin' = selectedId' /\ busy' \in BOOLEAN
        /\ selectedId' \in Scripts \cup {None} /\ selectedId' # None
        /\ \A r \in Scripts : scripts'[r] \in 0..Len(published'[r])
    BY <1>1, <1>2, EditorAssumption DEF PageOK
  <2>2. versions' \in Nat /\ versions' <= Len(published'[selectedId'])
    BY <1>1, Lengths
  <2> QED
    BY <2>1, <2>2 DEF PageOK
<1>4. UntouchedIsStored'
  BY <1>2 DEF UntouchedIsStored, IsVersion
<1> QED
  BY <1>3, <1>4, WaitEnds

LEMMA LoadsKeep ==
  ASSUME EditorInv, NEW c \in Slots
  PROVE  /\ Opened(c) => EditorInv'
         /\ VersionOpened(c) => EditorInv'
         /\ VersionsListed(c) => EditorInv'
<1>1. PageOK
  BY DEF EditorInv
<1>2. ASSUME Opened(c)
      PROVE  EditorInv'
  <2>1. Returns(c, "open") /\ calls[c].kind \in Waited
    BY <1>2 DEF Opened, Returns, Waited
  <2> QED
    BY <1>2, <2>1, Answers, LoadKeeps DEF Opened, server
<1>3. ASSUME VersionOpened(c)
      PROVE  EditorInv'
  <2>1. Returns(c, "version") /\ calls[c].kind \in Waited
    BY <1>3 DEF VersionOpened, Returns, Waited
  <2>2. calls[c].script \in Scripts /\ calls[c].script = selectedId
    BY <2>1, Answers
  <2>3. calls[c].script # None
    BY <2>2, EditorAssumption
  <2>4. versions \in 0..Len(published[calls[c].script])
    <3>1. Len(published[calls[c].script]) \in Nat
      BY <2>2, Lengths DEF EditorInv
    <3> QED
      BY <1>1, <2>2, <2>3, <3>1 DEF PageOK
  <2> QED
    BY <1>3, <2>1, <2>2, <2>4, Answers, LoadKeeps DEF VersionOpened, server
<1>4. ASSUME VersionsListed(c)
      PROVE  EditorInv'
  <2>1. Returns(c, "versions") /\ calls[c].kind \in Waited
    BY <1>4 DEF VersionsListed, Returns, Waited
  <2> QED
    BY <1>4, <2>1, Answers, LoadKeeps DEF VersionsListed, server
<1> QED
  BY <1>2, <1>3, <1>4

(* The page is as it was but for its list, and for the call that ends.       *)
LEMMA EndKeeps ==
  ASSUME EditorInv, NEW c \in Slots, Done(c),
         UNCHANGED <<published, selectedId, blocks, versions, origin, clean>>,
         \A s \in Scripts : scripts'[s] \in 0..Len(published[s]),
         \/ calls[c].kind \in Waited /\ busy' = FALSE
         \/ UNCHANGED busy
  PROVE  EditorInv'
<1>1. published' \in PublishedSet /\ Grown(published, published')
  BY SamePublished
<1>2. PageOK' /\ UntouchedIsStored'
  BY DEF EditorInv, PageOK, UntouchedIsStored
<1>3. Becomes(c, Idle) /\ CallOK(Idle, selectedId', published') /\ Idle.kind \notin Waited
  BY Ending, IdleOK, IdleIsNoCall DEF Waited
<1>4. OthersUnwaited(c) \/ UNCHANGED <<selectedId, busy>>
  BY AloneWaited
<1>5. CallsOK'
  BY <1>1, <1>3, <1>4, CallsStep
<1> QED
  BY <1>1, <1>2, <1>5 DEF EditorInv

LEMMA EndsKeep ==
  ASSUME EditorInv, NEW c \in Slots
  PROVE  /\ Listed(c) => EditorInv'
         /\ Relisted(c) => EditorInv'
         /\ JobCreated(c) => EditorInv'
         /\ Polled(c) => EditorInv'
         /\ Errored(c) => EditorInv'
<1>1. \A s \in Scripts : scripts[s] \in 0..Len(published[s])
  BY DEF EditorInv, PageOK
<1>2. busy \in BOOLEAN
  BY DEF EditorInv, PageOK
<1>3. ASSUME Listed(c)
      PROVE  EditorInv'
  <2>1. Returns(c, "list")
    BY <1>3 DEF Listed
  <2>2. \A s \in Scripts : scripts'[s] \in 0..Len(published[s])
    BY <1>3, <2>1, Answers DEF Listed
  <2> QED
    BY <1>3, <2>2, EndKeeps DEF Listed, server
<1>4. ASSUME Relisted(c)
      PROVE  EditorInv'
  <2>1. Returns(c, "relist") /\ calls[c].kind \in Waited
    BY <1>4 DEF Relisted, Returns, Waited
  <2>2. \A s \in Scripts : scripts'[s] \in 0..Len(published[s])
    BY <1>4, <2>1, Answers DEF Relisted
  <2> QED
    BY <1>4, <2>1, <2>2, EndKeeps DEF Relisted, server
<1>5. ASSUME JobCreated(c)
      PROVE  EditorInv'
  <2>1. calls[c].kind \in Waited
    BY <1>5 DEF JobCreated, Returns, Waited
  <2> QED
    BY <1>1, <1>5, <2>1, EndKeeps DEF JobCreated, server
<1>6. ASSUME Polled(c)
      PROVE  EditorInv'
  BY <1>1, <1>6, EndKeeps DEF Polled, server, page
<1>7. ASSUME Errored(c)
      PROVE  EditorInv'
  <2>1. calls[c].kind \in Waited \/ calls[c].kind \in {"list", "poll"}
    <3>1. CallShape(calls[c]) /\ calls[c].state # "idle"
      BY <1>7, CallsAre DEF Errored
    <3>2. calls[c].kind # "idle"
      BY <3>1, IdleIsNoCall DEF CallShape
    <3> QED
      BY <3>1, <3>2 DEF CallShape
  <2>2. CASE calls[c].kind \in {"list", "poll"}
    <3>1. busy' = busy
      BY <1>2, <1>7, <2>2 DEF Errored
    <3> QED
      BY <1>1, <1>7, <3>1, EndKeeps DEF Errored, server
  <2>3. CASE calls[c].kind \in Waited
    <3>1. busy' = FALSE
      BY <1>7, <2>3 DEF Errored, Waited
    <3> QED
      BY <1>1, <1>7, <2>3, <3>1, EndKeeps DEF Errored, server
  <2> QED
    BY <2>1, <2>2, <2>3
<1> QED
  BY <1>3, <1>4, <1>5, <1>6, <1>7

LEMMA PublishedKeeps ==
  ASSUME EditorInv, NEW c \in Slots, Published(c)
  PROVE  EditorInv'
<1> DEFINE s == calls[c].script
           steps == calls[c].answer.steps
           k == Call("versions", s, 0, steps, None)
<1>1. /\ Returns(c, "publish") /\ calls[c].kind \in Waited
      /\ UNCHANGED <<published, scripts, selectedId, blocks, versions, busy, origin, clean>>
  BY DEF Published, Returns, Waited, server, page
<1>2. s \in Scripts /\ s = selectedId /\ IsVersion(published, s, steps)
  BY <1>1, Answers
<1>3. Becomes(c, k)
  BY DEF Published, Becomes, EditorInv, CallsOK
<1>4. CallOK(k, selectedId, published')
  <2> HIDE DEF steps, s
  <2> QED
    BY <1>1, <1>2, SentOK DEF Waited
<1> HIDE DEF k
<1> QED
  BY <1>1, <1>3, <1>4, SamePublished, CallMoves

LEMMA CreatedKeeps ==
  ASSUME EditorInv, NEW c \in Slots, Created(c)
  PROVE  EditorInv'
<1> DEFINE s == calls[c].answer
           k == Call("relist", None, 0, << >>, None)
<1>1. /\ Returns(c, "create") /\ calls[c].kind \in Waited
      /\ UNCHANGED <<published, scripts, blocks, versions, busy>>
      /\ selectedId' = s /\ origin' = (IF origin = None THEN s ELSE origin)
      /\ clean' = (BlocksToSteps(blocks) = calls[c].steps)
  BY DEF Created, Returns, Waited, server
<1>2. s \in Scripts /\ IsVersion(published, s, calls[c].steps) /\ selectedId = None
  BY <1>1, Answers
<1>3. published' \in PublishedSet /\ Grown(published, published') /\ PageOK
  BY <1>1, SamePublished DEF EditorInv
<1>4. Becomes(c, k)
  BY DEF Created, Becomes, EditorInv, CallsOK
<1>5. CallOK(k, selectedId', published') /\ k.kind = "relist"
  BY SentOK DEF Waited
<1>6. busy' /\ OthersUnwaited(c)
  <2>1. busy
    BY <1>1 DEF EditorInv, CallsOK
  <2> QED
    BY <1>1, <2>1, AloneWaited
<1> HIDE DEF k
<1>7. CallsOK'
  BY <1>3, <1>4, <1>5, <1>6, CallsStep
<1>8. PageOK'
  <2>1. s # None /\ Len(published[s]) \in Nat
    BY <1>2, Lengths, EditorAssumption DEF EditorInv
  <2>2. versions' = 0 /\ origin' = selectedId'
    BY <1>1, <1>2, <1>3 DEF PageOK
  <2>3. /\ blocks' \in Seq(EditedBlocks) /\ busy' \in BOOLEAN
        /\ \A q \in Scripts : scripts'[q] \in 0..Len(published'[q])
    BY <1>1, <1>3 DEF PageOK
  <2> QED
    BY <1>1, <1>2, <2>1, <2>2, <2>3 DEF PageOK
<1>9. UntouchedIsStored'
  <2> SUFFICES ASSUME clean', selectedId' # None
               PROVE  IsVersion(published', selectedId', BlocksToSteps(blocks'))
    BY DEF UntouchedIsStored, IsVersion
  <2>1. BlocksToSteps(blocks) = calls[c].steps
    BY <1>1
  <2> QED
    BY <1>1, <1>2, <2>1
<1> QED
  BY <1>3, <1>7, <1>8, <1>9 DEF EditorInv

(* ------------------------------------------------------ the whole of a step *)

LEMMA InitHolds == Init => EditorInv
<1> SUFFICES ASSUME Init PROVE EditorInv
  OBVIOUS
<1>1. PICK c \in Slots :
        calls = [d \in Slots |-> IF d = c THEN Call("list", None, 0, << >>, None) ELSE Idle]
  BY DEF Init
<1>2. published \in PublishedSet
  <2>1. <<Sample>> \in Seq(Seq(StoredSteps)) /\ << >> \in Seq(Seq(StoredSteps))
    BY SampleIsStored
  <2> QED
    BY <2>1 DEF Init, PublishedSet
<1>3. PageOK
  <2>1. \A s \in Scripts : scripts[s] \in 0..Len(published[s])
    BY <1>2, Lengths DEF Init
  <2>2. blocks \in Seq(EditedBlocks)
    BY DEF Init
  <2> QED
    BY <2>1, <2>2 DEF Init, PageOK
<1>4. CallsOK
  <2>1. /\ CallOK(Call("list", None, 0, << >>, None), selectedId, published)
        /\ Call("list", None, 0, << >>, None).kind = "list"
    BY SentOK
  <2>2. CallOK(Idle, selectedId, published) /\ Idle.kind = "idle"
    BY IdleOK, IdleIsNoCall
  <2>3. \A d \in Slots : CallOK(calls[d], selectedId, published) /\ calls[d].kind \notin Waited
    BY <1>1, <2>1, <2>2 DEF Waited
  <2> QED
    BY <1>1, <2>3 DEF CallsOK
<1>5. UntouchedIsStored
  BY DEF Init, UntouchedIsStored
<1> QED
  BY <1>2, <1>3, <1>4, <1>5 DEF EditorInv

LEMMA StepKeeps ==
  ASSUME Patient, EditorInv, [Next]_vars
  PROVE  EditorInv'
<1>1. CASE EditorStep
  BY <1>1, NewWorkflowKeeps, StartsKeep, EditsKeep DEF EditorStep
<1>2. ASSUME NEW c \in Slots, Poll(c) \/ ServerStep(c) \/ PageStep(c) \/ CallFails(c)
      PROVE  EditorInv'
  <2>1. CASE Poll(c) \/ CallFails(c)
    BY <2>1, StartsKeep, OthersKeep
  <2>2. CASE ServerStep(c)
    BY <2>2, QueriesKeep, SavesKeep DEF ServerStep
  <2>3. CASE PageStep(c)
    BY <2>3, LoadsKeep, EndsKeep, PublishedKeeps, CreatedKeeps DEF PageStep
  <2> QED
    BY <1>2, <2>1, <2>2, <2>3
<1>3. CASE (\E j \in Jobs : RunEnds(j)) \/ (\E s \in Shared : OthersPublish(s))
  BY <1>3, OthersKeep
<1>4. CASE UNCHANGED vars
  <2>1. UNCHANGED <<published, scripts, selectedId, blocks, versions, busy, origin, clean, calls>>
    BY <1>4 DEF vars, server, page
  <2>2. busy' \in BOOLEAN
    BY <2>1 DEF EditorInv, PageOK
  <2> QED
    BY <2>1, <2>2, SamePublished, PageKept, CallsSame DEF EditorInv
<1> QED
  BY <1>1, <1>2, <1>3, <1>4 DEF Next

(* The page of a user who waits fits what the server has, at every moment    *)
(* and in whatever order the answers come (Workflows.tsx 170-330).           *)
THEOREM EditorInvariant ==
  ASSUME Patient
  PROVE  Spec => []EditorInv
<1>1. EditorInv /\ [Next]_vars => EditorInv'
  BY StepKeeps
<1> QED
  BY <1>1, InitHolds, PTL DEF Spec

(* What the editor lets a user save, the server accepts: no save is refused, *)
(* however the blocks came about (workflow-blocks.ts 8).                     *)
THEOREM SavesAreAccepted ==
  ASSUME Patient
  PROVE  Spec => []EditorAgreesWithServer
<1>1. EditorInv => EditorAgreesWithServer
  BY CallsAre DEF CallShape, EditorAgreesWithServer
<1> QED
  BY <1>1, EditorInvariant, PTL

(* Blocks that nobody has touched are a version of the selected script       *)
(* (Workflows.tsx 313, script.ts 238).                                       *)
THEOREM UntouchedStaysStored ==
  ASSUME Patient
  PROVE  Spec => []UntouchedIsStored
<1>1. EditorInv => UntouchedIsStored
  BY DEF EditorInv
<1> QED
  BY <1>1, EditorInvariant, PTL

(* A save starts for the script whose blocks are in the editor               *)
(* (Workflows.tsx 301).                                                      *)
THEOREM SavesReachTheirScript ==
  ASSUME Patient
  PROVE  Spec => SavesGoHome
<1> DEFINE Home == \A c \in Slots :
                     calls[c].kind = "idle" /\ calls'[c].kind = "publish" => calls'[c].script = origin
<1>1. ASSUME EditorInv, [Next]_vars
      PROVE  Home
  <2> USE <1>1
  <2>1. ASSUME NEW c \in Slots, NEW k, Becomes(c, k), \/ k.kind # "publish"
                                                      \/ k.kind = calls[c].kind
                                                      \/ k.script = origin
        PROVE  Home
    BY <2>1 DEF Becomes
  <2>2. ASSUME UNCHANGED calls
        PROVE  Home
    BY <2>2
  <2>3. ASSUME NEW c \in Slots, NEW kind, NEW script, NEW version, NEW steps, NEW j,
               Start(c, Call(kind, script, version, steps, j)), kind # "publish" \/ script = origin
        PROVE  Home
    <3>1. /\ Call(kind, script, version, steps, j).kind = kind
          /\ Call(kind, script, version, steps, j).script = script
      BY DEF Call
    <3> QED
      BY <2>1, <2>3, <3>1, Starting
  <2>4. ASSUME NEW c \in Slots, NEW answer, Answered(c, answer)
        PROVE  Home
    BY <2>1, <2>4, Answering, WithAnswerIs
  <2>5. ASSUME NEW c \in Slots, Done(c)
        PROVE  Home
    <3>1. Idle.kind # "publish"
      BY IdleIsNoCall
    <3> QED
      BY <2>1, <2>5, <3>1, Ending
  <2> HIDE DEF Home
  <2>6. CASE EditorStep
    <3>1. ASSUME NEW c \in Slots, Save(c)
          PROVE  Home
      <4>1. origin = selectedId
        BY DEF EditorInv, PageOK
      <4> QED
        BY <2>3, <3>1, <4>1 DEF Save
    <3>2. ASSUME NEW c \in Slots, RunAsJob(c)
          PROVE  Home
      BY <2>3, <3>2 DEF RunAsJob
    <3>3. ASSUME NEW c \in Slots, NEW s \in Scripts, OpenScript(s, c)
          PROVE  Home
      BY <2>3, <3>3 DEF OpenScript
    <3>4. ASSUME NEW c \in Slots, NEW v, OpenVersion(v, c)
          PROVE  Home
      BY <2>3, <3>4 DEF OpenVersion
    <3>5. NewWorkflow \/ (\E t \in BlockTypes : AddBlock(t)) => UNCHANGED calls
      BY DEF NewWorkflow, AddBlock, Edit
    <3>6. ASSUME NEW i \in 1..Len(blocks),
                 \/ RemoveBlock(i)
                 \/ Toggle(i)
                 \/ \E d \in {-1, 1} : Move(i, d)
                 \/ \E t \in TypedTexts : TypeText(i, t)
                 \/ \E n \in TypedNumbers : TypeNumber(i, n)
          PROVE  UNCHANGED calls
      BY <3>6 DEF RemoveBlock, Toggle, Move, TypeText, TypeNumber, Edit
    <3> QED
      BY <2>2, <2>6, <3>1, <3>2, <3>3, <3>4, <3>5, <3>6 DEF EditorStep
  <2>7. ASSUME NEW c \in Slots, Poll(c) \/ CallFails(c)
        PROVE  Home
    <3>1. CASE Poll(c)
      BY <2>3, <3>1 DEF Poll
    <3>2. CASE CallFails(c)
      <4>1. calls = [d \in Slots |-> calls[d]] /\ CallShape(calls[c])
        BY CallsAre DEF EditorInv, CallsOK
      <4>2. [calls[c] EXCEPT !.state = "failed"].kind = calls[c].kind
        BY <4>1 DEF CallShape
      <4>3. Becomes(c, [calls[c] EXCEPT !.state = "failed"])
        BY <3>2, <4>1 DEF CallFails, Becomes
      <4> QED
        BY <2>1, <4>2, <4>3
    <3> QED
      BY <2>7, <3>1, <3>2
  <2>8. ASSUME NEW c \in Slots, ServerStep(c)
        PROVE  Home
    <3>1. calls[c].kind \in {"publish", "create"} => AcceptsSteps(calls[c].steps)
      BY CallsAre DEF CallShape
    <3>2. \E answer : Answered(c, answer)
      BY <2>8, <3>1 DEF ServerStep, ListScripts, GetScript, CreateScriptVersion, CreateScript,
                        CreateJob, ListRuns, Handles
    <3> QED
      BY <2>4, <3>2
  <2>9. ASSUME NEW c \in Slots, PageStep(c)
        PROVE  Home
    <3>1. CASE Published(c)
      <4> DEFINE k == Call("versions", calls[c].script, 0, calls[c].answer.steps, None)
      <4>1. Becomes(c, k) /\ k.kind = "versions"
        BY <3>1 DEF Published, Becomes, EditorInv, CallsOK, Call
      <4> QED
        BY <2>1, <4>1
    <3>2. CASE Created(c)
      <4> DEFINE k == Call("relist", None, 0, << >>, None)
      <4>1. Becomes(c, k) /\ k.kind = "relist"
        BY <3>2 DEF Created, Becomes, EditorInv, CallsOK, Call
      <4> QED
        BY <2>1, <4>1
    <3>3. Published(c) \/ Created(c) \/ Done(c)
      BY <2>9 DEF PageStep, Listed, Opened, VersionOpened, VersionsListed, Relisted, JobCreated,
                  Polled, Errored
    <3> QED
      BY <2>5, <3>1, <3>2, <3>3
  <2>10. CASE (\E j \in Jobs : RunEnds(j)) \/ (\E s \in Shared : OthersPublish(s)) \/ UNCHANGED vars
    BY <2>2, <2>10 DEF RunEnds, OthersPublish, vars
  <2> QED
    BY <2>6, <2>7, <2>8, <2>9, <2>10 DEF Next
<1>2. Home <=> \A c \in Slots :
                 calls[c].kind = "idle" /\ calls'[c].kind = "publish" => calls'[c].script = origin
  OBVIOUS
<1> QED
  BY <1>1, EditorInvariant, PTL DEF Spec, SavesGoHome
=============================================================================
