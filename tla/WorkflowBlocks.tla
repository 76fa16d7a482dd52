--------------------------- MODULE WorkflowBlocks ---------------------------
(* The blocks of the workflow builder (packages/web/src/workflow-blocks.ts): *)
(* how they are checked before a save, turned into the steps of a script,    *)
(* and read back; and, next to it, the validator of the server that decides  *)
(* (packages/api/src/automation/script.ts).  Blocks and steps have the same  *)
(* four fields here: text (a URL, a selector or an expression), num (a wait  *)
(* or a timeout), flag (fullPage); None is an absent field.                  *)
EXTENDS Integers, Sequences

CONSTANT None    \* an absent field, and every other "nothing"

(* What the two validators look at in a text: its length, and whether it is  *)
(* an http, https or data URL without credentials.                           *)
Texts == [length: Nat, url: {"allowed", "refused"}]
Text(length, url) == [length |-> length, url |-> url]
NoText == Text(0, "refused")

BlockTypes == {"navigate", "wait", "waitForSelector", "evaluate", "getText", "screenshot"}
Step(type, text, num, flag) == [type |-> type, text |-> text, num |-> num, flag |-> flag]
Block(type, text, num, flag, raw) ==
  [type |-> type, text |-> text, num |-> num, flag |-> flag, raw |-> raw]

TextTypes == {"navigate", "waitForSelector", "evaluate", "getText"}
TimeoutTypes == {"waitForSelector", "evaluate", "getText"}

(* The fields a type knows: of any other, a step or block says nothing.      *)
TextFor(type, text) == IF type \in TextTypes THEN text ELSE None
NumFor(type, num) == IF type \in TimeoutTypes \cup {"wait"} THEN num ELSE None
FlagFor(type, flag) == IF type = "screenshot" THEN flag ELSE None

(* ---------------------------------------------------------- the editor's *)

(* The longest texts, wait, timeout and script.                              *)
EditorMax ==
  [url |-> 2048, selector |-> 500, expression |-> 10000, wait |-> 60000, timeout |-> 120000,
   steps |-> 50]

DefaultText ==
  [navigate |-> Text(20, "allowed"), evaluate |-> Text(14, "refused"),
   waitForSelector |-> NoText, getText |-> NoText, wait |-> None, screenshot |-> None]

CreateBlock(type) ==
  Block(type, DefaultText[type], IF type = "wait" THEN 1000 ELSE None,
        IF type = "screenshot" THEN FALSE ELSE None, None)

(* A mutant: a timeout the field shows is not checked.                       *)
ValidTimeoutUnchecked(num) == num = None \/ num \in Int

ValidTimeout(num) == num = None \/ num \in 1..EditorMax.timeout

ValidBlock(b) ==
  \/ b.raw # None
  \/ b.type = "navigate" /\ b.text.length \in 1..EditorMax.url /\ b.text.url = "allowed"
  \/ b.type = "wait" /\ b.num # None /\ b.num \in 1..EditorMax.wait
  \/ /\ b.type \in {"waitForSelector", "getText"}
     /\ b.text.length \in 1..EditorMax.selector
     /\ ValidTimeout(b.num)
  \/ b.type = "evaluate" /\ b.text.length \in 1..EditorMax.expression /\ ValidTimeout(b.num)
  \/ b.type = "screenshot" /\ b.flag \in {None, TRUE, FALSE}

ValidBlocks(blocks) ==
  /\ Len(blocks) \in 1..EditorMax.steps
  /\ \A i \in 1..Len(blocks) : ValidBlock(blocks[i])

ToStep(b) ==
  IF b.raw # None THEN b.raw
  ELSE Step(b.type,
            TextFor(b.type, IF b.text = None THEN NoText ELSE b.text),
            NumFor(b.type, IF b.type = "wait" /\ b.num = None THEN 0 ELSE b.num),
            FlagFor(b.type, b.flag))

BlocksToSteps(blocks) == [i \in 1..Len(blocks) |-> ToStep(blocks[i])]

(* A mutant: a step is read back without its timeout.                        *)
ToBlockWithoutTimeout(s) ==
  IF s.type \notin BlockTypes THEN Block("navigate", None, None, None, s)
  ELSE Block(s.type, TextFor(s.type, s.text), IF s.type = "wait" THEN s.num ELSE None,
             FlagFor(s.type, s.flag), None)

(* A step of a type the editor does not know is kept as it is.               *)
ToBlock(s) ==
  IF s.type \notin BlockTypes THEN Block("navigate", None, None, None, s)
  ELSE Block(s.type, TextFor(s.type, s.text), NumFor(s.type, s.num), FlagFor(s.type, s.flag), None)

StepsToBlocks(steps) == [i \in 1..Len(steps) |-> ToBlock(steps[i])]

(* Up for -1, down for 1; nothing at the edges.                              *)
MoveBlock(blocks, i, direction) ==
  LET target == i + direction IN
  IF i \notin 1..Len(blocks) \/ target \notin 1..Len(blocks) THEN blocks
  ELSE [blocks EXCEPT ![i] = blocks[target], ![target] = blocks[i]]

(* ---------------------------------------------------------- the server's *)

ServerMax ==
  [url |-> 2048, selector |-> 500, expression |-> 10000, wait |-> 60000, timeout |-> 120000,
   steps |-> 50]

OptionalPositiveInt(num, max) == num = None \/ num \in 1..max

AcceptsStep(s) ==
  CASE s.type = "navigate" -> s.text # None /\ s.text.length \in 1..ServerMax.url /\ s.text.url = "allowed"
    [] s.type = "wait" -> s.num # None /\ s.num \in 1..ServerMax.wait
    [] s.type \in {"waitForSelector", "getText"} ->
         /\ s.text # None /\ s.text.length \in 1..ServerMax.selector
         /\ OptionalPositiveInt(s.num, ServerMax.timeout)
    [] s.type = "evaluate" ->
         /\ s.text # None /\ s.text.length \in 1..ServerMax.expression
         /\ OptionalPositiveInt(s.num, ServerMax.timeout)
    [] s.type = "screenshot" -> s.flag = None \/ s.flag \in BOOLEAN
    [] OTHER -> FALSE

AcceptsSteps(steps) ==
  /\ Len(steps) \in 1..ServerMax.steps
  /\ \A i \in 1..Len(steps) : AcceptsStep(steps[i])

(* What is stored is rebuilt field by field from what was sent.              *)
Normal(steps) ==
  [i \in 1..Len(steps) |->
     LET s == steps[i] IN
     Step(s.type, TextFor(s.type, s.text), NumFor(s.type, s.num), FlagFor(s.type, s.flag))]
=============================================================================
