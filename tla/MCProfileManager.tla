-------------------------- MODULE MCProfileManager --------------------------
(* Small instances of the profile manager with its governor for TLC.        *)
EXTENDS ProfileManager, TLC

CONSTANTS p1, p2, l1, l2, l3, s1, s2

TwoProfiles == {p1, p2}
TwoLaunches == {l1, l2}
ThreeLaunches == {l1, l2, l3}
OneStop == {s1}
TwoStops == {s1, s2}
NoReaps == {}
OneReap == {s2}

\* Two launches of p1 and one of p2; every stop is about p1.
Mostly1 == [c \in Calls |-> IF c = l3 THEN p2 ELSE p1]
=============================================================================
