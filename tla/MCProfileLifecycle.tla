------------------------- MODULE MCProfileLifecycle -------------------------
(* Small instances of the profile lifecycle for TLC.                        *)
EXTENDS ProfileLifecycle, TLC

CONSTANTS p1, p2, l1, l2, l3, s1, s2

\* One profile, and one to three launches against up to two stops.
OneProfile == {p1}
TwoLaunches == {l1, l2}
ThreeLaunches == {l1, l2, l3}
OneStop == {s1}
TwoStops == {s1, s2}
AllOnOne == [c \in {l1, l2, l3, s1, s2} \cap Calls |-> p1]

SymLS == Permutations(Launches) \cup Permutations(Stops)
=============================================================================
