------------------------- MODULE MCAutomationRunner -------------------------
(* A small instance of the automation runner for TLC.                       *)
EXTENDS AutomationRunner

CONSTANTS r1, r2

TwoRuns == {r1, r2}
=============================================================================
