--------------------------- MODULE MCWorkflowEditor ---------------------------
(* A text that only a selector refuses and one only a URL refuses; numbers   *)
(* that only a timeout, or nothing, accepts.                                 *)
EXTENDS WorkflowEditor, TLC

SomeTexts == {Text(501, "allowed"), Text(3, "refused")}
SomeNumbers == {60001, 120001}
Sym == Permutations(Slots) \cup Permutations(Jobs)
=============================================================================
