--------------------------- MODULE ProfileStates ---------------------------
(***************************************************************************)
(* The profile states and the transition table of profiles/states.ts, the  *)
(* single source of truth transitionState() checks every write against.    *)
(***************************************************************************)

States == {"created", "launching", "running", "stopping", "stopped",
           "error", "crashed"}

\* States in which a browser should be under the manager's control; the boot
\* reaper settles exactly these.
ActiveStates == {"launching", "running", "stopping"}

Successors ==
  [created   |-> {"launching"},
   launching |-> {"running", "stopping", "error", "crashed"},
   running   |-> {"stopping", "error", "crashed"},
   stopping  |-> {"stopped", "error", "crashed"},
   stopped   |-> {"launching"},
   error     |-> {"launching", "stopped"},
   crashed   |-> {"launching", "stopped"}]

CanTransition(from, to) == to \in Successors[from]
=============================================================================
