------------------------------ MODULE SlotPool ------------------------------
(***************************************************************************)
(* What the launch governor promises, without saying how it keeps the      *)
(* promise: a pool of Slots interchangeable slots behind a waiting line.   *)
(* A free slot is only ever taken while nobody waits, and a slot that is   *)
(* given back while somebody waits passes straight to the head of the      *)
(* line, so a newcomer can never overtake the line.                        *)
(***************************************************************************)
EXTENDS Naturals, Sequences, SequencesExt

CONSTANTS
  Slots,    \* how many slots the pool has
  Tickets   \* the requests that may stand in the line

VARIABLES
  used,     \* how many slots are given out
  line      \* the tickets waiting for a slot, first come first

pool == <<used, line>>

TypeOK ==
  /\ used \in 0 .. Slots
  /\ line \in Seq(Tickets)

Init ==
  /\ used = 0
  /\ line = << >>

Take ==
  /\ line = << >>
  /\ used < Slots
  /\ used' = used + 1
  /\ UNCHANGED line

Join(t) ==
  /\ used = Slots
  /\ line' = Append(line, t)
  /\ UNCHANGED used

\* A slot comes back while somebody waits: the head of the line inherits it.
HandOver ==
  /\ line # << >>
  /\ line' = Tail(line)
  /\ UNCHANGED used

GiveBack ==
  /\ line = << >>
  /\ used > 0
  /\ used' = used - 1
  /\ UNCHANGED line

GiveUp(i) ==
  /\ line' = RemoveAt(line, i)
  /\ UNCHANGED used

\* The pool closes its line: everybody in it is sent away.
Dismiss ==
  /\ line' = << >>
  /\ UNCHANGED used

Next ==
  \/ Take
  \/ HandOver
  \/ GiveBack
  \/ Dismiss
  \/ \E t \in Tickets : Join(t)
  \/ \E i \in DOMAIN line : GiveUp(i)

Spec == Init /\ [][Next]_pool
=============================================================================
