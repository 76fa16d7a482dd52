-------------------------- MODULE MCLaunchGovernor --------------------------
(* A small instance of the launch governor for TLC.                         *)
EXTENDS LaunchGovernor

CONSTANTS a, b, c, c1, c2, c3

ThreeProfiles == {a, b, c}
ThreeCallers == {c1, c2, c3}
=============================================================================
