----------------------------- MODULE Dashboard -----------------------------
(* The monitoring page of the dashboard (packages/web/src/events.ts,         *)
(* auth.tsx, App.tsx and pages/Monitoring.tsx) connected to the websocket    *)
(* hub of the server (packages/api/src/server/websocket.ts), which passes on *)
(* what the monitoring service announces.                                    *)
(*                                                                           *)
(* An event carries no data the page uses: it makes the page fetch the       *)
(* summary again.  Events, requests and answers travel on their own, and     *)
(* each end of a socket learns in its own time that the other is gone.       *)
(* The other pages, the sidebar, the color of the connection's dot and the   *)
(* reconnect delays are left out.                                            *)
EXTENDS Monitoring, FiniteSets

CONSTANTS
  Sockets,      \* bound: sockets either end still knows of
  Slots,        \* bound: requests under way at a time
  MaxClicks,    \* bound: signing in and out
  MaxTroubles   \* bound: cut connections, failed requests, server stops

ASSUME DashboardAssumption ==
  /\ None \notin Sockets
  /\ MaxClicks \in Nat
  /\ MaxTroubles \in Nat

VARIABLES
  sockets,     \* both ends of each socket
  signedIn,    \* page: a token is stored, the dashboard and its hooks are mounted
  reconnect,   \* page: the connection is about to be made, now or by a timer
  shown,       \* page: the alerts of the last summary; None before the first
  due,         \* page: an effect or the interval is about to fetch
  calls,       \* each request's state; its answer once it is answered
  clicks,      \* what the user has done so far
  troubles     \* troubles so far

page == <<signedIn, reconnect, shown, due, calls>>
vars == <<monitoring, sockets, page, clicks, troubles>>

Idle == [state |-> "idle", alerts |-> {}]
Free == [browser |-> "none", member |-> FALSE, cut |-> FALSE, inbox |-> 0]

(* The token of an earlier visit is in the browser's storage, or is not.     *)
DashboardInit ==
  /\ MonitoringInit
  /\ sockets = [w \in Sockets |-> Free]
  /\ signedIn \in BOOLEAN
  /\ reconnect = signedIn
  /\ shown = None
  /\ due = signedIn
  /\ calls = [c \in Slots |-> Idle]
  /\ clicks = 0
  /\ troubles = 0

Trouble ==
  /\ troubles < MaxTroubles
  /\ troubles' = troubles + 1

Click ==
  /\ clicks < MaxClicks
  /\ clicks' = clicks + 1

(* ------------------------------------------------- the hub and its events *)

Members == {w \in Sockets : sockets[w].member}

(* Every client is written to; what is written to a cut line is lost.        *)
Broadcast(n) ==
  [w \in Sockets |-> IF w \in Members /\ ~sockets[w].cut /\ sockets[w].browser # "closing"
                     THEN [sockets[w] EXCEPT !.inbox = @ + n] ELSE sockets[w]]

EvaluationBegins(e) ==
  /\ Begin(e)
  /\ UNCHANGED <<sockets, page, clicks, troubles>>

EvaluationFinishes(e) ==
  /\ Finish(e)
  /\ sockets' = Broadcast(Cardinality(Raised(e)) + Cardinality(Cleared(e)))
  /\ UNCHANGED <<page, clicks, troubles>>

(* The token is checked, the client joins and 101 and the hello are sent.    *)
(* That the connection is lost while the token is checked is left out.       *)
HandleUpgrade(w) ==
  /\ up
  /\ sockets[w].browser \in {"connecting", "closing"}
  /\ ~sockets[w].cut
  /\ ~sockets[w].member
  /\ sockets' = [sockets EXCEPT ![w].member = TRUE]
  /\ UNCHANGED <<monitoring, page, clicks, troubles>>

(* The ping to a client whose line is cut makes its socket fail: onGone.     *)
Heartbeat(w) ==
  /\ sockets[w].member
  /\ sockets[w].cut
  /\ sockets' = [sockets EXCEPT ![w].member = FALSE,
                                ![w].cut = sockets[w].browser # "none"]
  /\ UNCHANGED <<monitoring, page, clicks, troubles>>

(* The close frame of the page is answered and the socket destroyed: onGone. *)
ClientLeaves(w) ==
  /\ sockets[w].member
  /\ ~sockets[w].cut
  /\ sockets[w].browser \in {"closing", "none"}
  /\ sockets' = [sockets EXCEPT ![w].member = FALSE]
  /\ UNCHANGED <<monitoring, page, clicks, troubles>>

(* The alerts are gone with the process, and every socket is destroyed.      *)
ServerStops ==
  /\ Trouble
  /\ ServiceStops
  /\ sockets' = [w \in Sockets |->
                   IF sockets[w].browser = "none" THEN Free
                   ELSE [sockets[w] EXCEPT !.member = FALSE, !.cut = TRUE]]
  /\ UNCHANGED <<page, clicks>>

ServerStarts ==
  /\ ServiceStarts
  /\ UNCHANGED <<sockets, page, clicks, troubles>>

LineIsCut(w) ==
  /\ Trouble
  /\ sockets[w].browser \in {"connecting", "open"}
  /\ ~sockets[w].cut
  /\ sockets' = [sockets EXCEPT ![w].cut = TRUE]
  /\ UNCHANGED <<monitoring, page, clicks>>

(* ------------------------------------------------------ the events hook  *)

Connect(w) ==
  /\ reconnect
  /\ reconnect' = FALSE
  /\ sockets[w] = Free
  /\ sockets' = [sockets EXCEPT ![w].browser = "connecting"]
  /\ UNCHANGED <<monitoring, signedIn, shown, due, calls, clicks, troubles>>

Opens(w) ==
  /\ sockets[w].browser = "connecting"
  /\ sockets[w].member
  /\ ~sockets[w].cut
  /\ sockets' = [sockets EXCEPT ![w].browser = "open"]
  /\ UNCHANGED <<monitoring, page, clicks, troubles>>

Gone(w) ==
  [sockets EXCEPT ![w] = IF @.member THEN [@ EXCEPT !.browser = "none", !.inbox = 0] ELSE Free]

(* onclose of a connection that failed, was refused or was lost.             *)
Drops(w) ==
  /\ \/ sockets[w].browser \in {"connecting", "open"} /\ sockets[w].cut
     \/ sockets[w].browser = "connecting" /\ ~up
  /\ sockets' = Gone(w)
  /\ reconnect' = TRUE
  /\ UNCHANGED <<monitoring, signedIn, shown, due, calls, clicks, troubles>>

(* A mutant: onclose does not look at `stopped`.                             *)
ClosesAndReconnects(w) ==
  /\ sockets[w].browser = "closing"
  /\ sockets' = Gone(w)
  /\ reconnect' = TRUE
  /\ UNCHANGED <<monitoring, signedIn, shown, due, calls, clicks, troubles>>

(* onclose of a connection the cleanup has closed.                           *)
Closes(w) ==
  /\ sockets[w].browser = "closing"
  /\ sockets' = Gone(w)
  /\ UNCHANGED <<monitoring, page, clicks, troubles>>

(* onmessage: the event count is what the page's effect depends on.          *)
Receive(w) ==
  /\ sockets[w].browser = "open"
  /\ sockets[w].inbox > 0
  /\ sockets' = [sockets EXCEPT ![w].inbox = @ - 1]
  /\ due' = TRUE
  /\ UNCHANGED <<monitoring, signedIn, reconnect, shown, calls, clicks, troubles>>

(* ------------------------------------------------------------ signing in *)

(* A token that the server has just accepted is stored.                      *)
Login ==
  /\ ~signedIn
  /\ up
  /\ Click
  /\ signedIn' = TRUE
  /\ reconnect' = TRUE
  /\ due' = TRUE
  /\ UNCHANGED <<monitoring, sockets, shown, calls, troubles>>

(* Everything is unmounted; the hook clears its timer and closes its socket, *)
(* and nobody listens for the answers that are under way.                    *)
Logout ==
  /\ signedIn
  /\ Click
  /\ signedIn' = FALSE
  /\ reconnect' = FALSE
  /\ sockets' = [w \in Sockets |-> IF sockets[w].browser \in {"connecting", "open"}
                                   THEN [sockets[w] EXCEPT !.browser = "closing", !.inbox = 0]
                                   ELSE sockets[w]]
  /\ due' = FALSE
  /\ calls' = [c \in Slots |-> Idle]
  /\ shown' = None
  /\ UNCHANGED <<monitoring, troubles>>

(* ------------------------------------------------- requests and answers   *)

Fetch(c) ==
  /\ due
  /\ due' = FALSE
  /\ calls[c] = Idle
  /\ calls' = [calls EXCEPT ![c].state = "asked"]
  /\ UNCHANGED <<monitoring, sockets, signedIn, reconnect, shown, clicks, troubles>>

(* A mutant: the monitoring page fetches on events only.                     *)
NoInterval == FALSE /\ UNCHANGED vars

(* The page's interval of 30 s; it does not wait for an earlier request.     *)
Interval ==
  /\ signedIn
  /\ ~due
  /\ due' = TRUE
  /\ UNCHANGED <<monitoring, sockets, signedIn, reconnect, shown, calls, clicks, troubles>>

(* The server answers a request for the summary.                             *)
MonitoringSummary(c) ==
  /\ up
  /\ calls[c].state = "asked"
  /\ calls' = [calls EXCEPT ![c] = [state |-> "answered", alerts |-> Summary]]
  /\ UNCHANGED <<monitoring, sockets, signedIn, reconnect, shown, due, clicks, troubles>>

SummaryArrives(c) ==
  /\ calls[c].state = "answered"
  /\ calls' = [calls EXCEPT ![c] = Idle]
  /\ shown' = calls[c].alerts
  /\ UNCHANGED <<monitoring, sockets, signedIn, reconnect, due, clicks, troubles>>

(* Unreachable or broken off: the page shows the error and keeps the alerts. *)
SummaryFails(c) ==
  /\ calls[c].state # "idle"
  /\ calls' = [calls EXCEPT ![c] = Idle]
  /\ \/ ~up /\ UNCHANGED troubles
     \/ up /\ Trouble
  /\ UNCHANGED <<monitoring, sockets, signedIn, reconnect, shown, due, clicks>>

SystemMoves ==
  /\ SystemChanges
  /\ UNCHANGED <<sockets, page, clicks, troubles>>

Ends(c) == MonitoringSummary(c) \/ SummaryArrives(c) \/ SummaryFails(c)
HubStep(w) == HandleUpgrade(w) \/ Heartbeat(w) \/ ClientLeaves(w)
HookStep(w) == Opens(w) \/ Drops(w) \/ Closes(w) \/ Receive(w)

DashboardNext ==
  \/ SystemMoves \/ ServerStops \/ ServerStarts \/ Login \/ Logout \/ Interval
  \/ \E e \in Evals : EvaluationBegins(e) \/ EvaluationFinishes(e)
  \/ \E w \in Sockets : HubStep(w) \/ HookStep(w) \/ Connect(w) \/ LineIsCut(w)
  \/ \E c \in Slots : Fetch(c) \/ Ends(c)

DashboardSpec == DashboardInit /\ [][DashboardNext]_vars

(* A server that is started again, the intervals of both sides, a browser    *)
(* that runs its effects and timers, a network that delivers or fails.       *)
DashboardFairness ==
  /\ WF_vars(ServerStarts)
  /\ \A e \in Evals : WF_vars(EvaluationBegins(e) \/ EvaluationFinishes(e))
  /\ \A w \in Sockets : WF_vars(HubStep(w) \/ HookStep(w))
  /\ WF_vars(\E w \in Sockets : Connect(w))
  /\ WF_vars(Interval \/ \E c \in Slots : Fetch(c))
  /\ \A c \in Slots : WF_vars(Ends(c))

FairDashboard == DashboardSpec /\ DashboardFairness

(* ------------------------------------------------------------- properties *)

Alive == {w \in Sockets : sockets[w].browser \in {"connecting", "open"}}

(* However often the user signs out and in and the connection is lost, the   *)
(* page has one connection or one timer for it, and after the sign-out       *)
(* neither (events.ts:51-110).                                               *)
OneConnection ==
  Cardinality(Alive) + (IF reconnect THEN 1 ELSE 0) = (IF signedIn THEN 1 ELSE 0)

(* Events that are missed while the connection is down, summaries that come  *)
(* out of order, failures and restarts: in the end the page shows the active *)
(* alerts ("Refreshes on every dashboard event and every 30s",               *)
(* Monitoring.tsx:3).                                                        *)
MonitoringPageSettles == <>[](signedIn => up /\ shown = activeAlerts)
=============================================================================
