-------------------------- MODULE Dashboard_proofs --------------------------
(* However many evaluations overlap, and whatever the pages, the sockets and *)
(* the restarts do meanwhile, the events tell the active alerts; and however *)
(* often its user comes and goes, the page has one connection at a time.     *)
EXTENDS Dashboard, FiniteSetTheorems, TLAPS

IInv == /\ ToldIsActive
        /\ activeAlerts \subseteq AlertIds

LEMMA AlertsAreKnown ==
  ASSUME NEW m
  PROVE  EvaluateAlerts(m) \subseteq AlertIds
BY DEF EvaluateAlerts, DiskAlerts, AlertIds

LEMMA InitTold == DashboardInit => IInv
BY DEF DashboardInit, MonitoringInit, ServiceInit, IInv, ToldIsActive

(* The one step that changes what is active tells it, however long ago the   *)
(* evaluation that ends has read its rows.                                   *)
LEMMA FinishTold ==
  ASSUME IInv, NEW e \in Evals, Finish(e)
  PROVE  IInv'
<1> DEFINE found == Found(e)
<1>1. found \subseteq AlertIds
  BY AlertsAreKnown DEF Found
<1>2. activeAlerts' = found
  BY DEF Finish
<1>3. ASSUME NEW a \in AlertIds
      PROVE  told'[a] = IF a \in found THEN 1 ELSE 0
  <2>1. told[a] = IF a \in activeAlerts THEN 1 ELSE 0
    BY DEF IInv, ToldIsActive
  <2>2. told'[a] = IF a \in found \ activeAlerts THEN told[a] + 1
                   ELSE IF a \in activeAlerts \ found THEN told[a] - 1 ELSE told[a]
    BY DEF Finish, Raised, Cleared
  <2> HIDE DEF found
  <2> QED
    BY <2>1, <2>2
<1> HIDE DEF found
<1> QED
  BY <1>1, <1>2, <1>3 DEF IInv, ToldIsActive

(* A server that stops forgets the alerts and is forgotten by its listeners. *)
LEMMA StopTold ==
  ASSUME IInv, ServiceStops
  PROVE  IInv'
BY DEF IInv, ToldIsActive, ServiceStops

LEMMA NextTold == IInv /\ [DashboardNext]_vars => IInv'
<1> SUFFICES ASSUME IInv, [DashboardNext]_vars
             PROVE  IInv'
  OBVIOUS
<1>1. CASE UNCHANGED <<activeAlerts, told>>
  BY <1>1 DEF IInv, ToldIsActive
<1>2. CASE \E e \in Evals : EvaluationFinishes(e)
  BY <1>2, FinishTold DEF EvaluationFinishes
<1>3. CASE ServerStops
  BY <1>3, StopTold DEF ServerStops
<1>4. ASSUME ~UNCHANGED <<activeAlerts, told>>
      PROVE  (\E e \in Evals : EvaluationFinishes(e)) \/ ServerStops
  <2>1. ASSUME UNCHANGED monitoring PROVE FALSE
    BY <1>4, <2>1 DEF monitoring
  <2>2. ~UNCHANGED vars
    BY <2>1 DEF vars
  <2>3. ~(SystemMoves \/ ServerStarts \/ \E e \in Evals : EvaluationBegins(e))
    BY <1>4 DEF SystemMoves, SystemChanges, ServerStarts, ServiceStarts,
       EvaluationBegins, Begin
  <2>4. ~(Login \/ Logout \/ Interval)
    BY <2>1 DEF Login, Logout, Interval
  <2>5. ASSUME NEW w \in Sockets PROVE ~(HubStep(w) \/ Connect(w) \/ LineIsCut(w))
    BY <2>1 DEF HubStep, HandleUpgrade, Heartbeat, ClientLeaves, Connect, LineIsCut
  <2>6. ASSUME NEW w \in Sockets PROVE ~HookStep(w)
    BY <2>1 DEF HookStep, Opens, Drops, Closes, Receive
  <2>7. ASSUME NEW c \in Slots PROVE ~(Fetch(c) \/ Ends(c))
    BY <2>1 DEF Fetch, Ends, MonitoringSummary, SummaryArrives, SummaryFails
  <2> QED
    BY <2>2, <2>3, <2>4, <2>5, <2>6, <2>7 DEF DashboardNext
<1> QED
  BY <1>1, <1>2, <1>3, <1>4

(* An alert is raised once before it is cleared and cleared once before it   *)
(* is raised again, for any number of overlapping evaluations.               *)
THEOREM EventsTellTheAlerts == DashboardSpec => []ToldIsActive
<1>1. IInv => ToldIsActive
  BY DEF IInv
<1> QED
  BY InitTold, NextTold, <1>1, PTL DEF DashboardSpec

(* ------------------------------------------------------- one connection   *)

SocketStates ==
  [browser : {"none", "connecting", "open", "closing"}, member : BOOLEAN,
   cut : BOOLEAN, inbox : Nat]

(* Whoever is signed in has a connection or a timer for one, and nobody has  *)
(* both; the sockets' ends keep their types on the way.                      *)
ConnectionInv ==
  /\ sockets \in [Sockets -> SocketStates]
  /\ signedIn \in BOOLEAN
  /\ reconnect \in BOOLEAN
  /\ ~signedIn => ~reconnect
  /\ ~signedIn \/ reconnect => Alive = {}
  /\ signedIn /\ ~reconnect => \E w \in Sockets : Alive = {w}

LEMMA InitConnected == DashboardInit => ConnectionInv
BY DEF DashboardInit, Free, ConnectionInv, SocketStates, Alive

(* What the page and the hub do to one socket besides opening and losing it  *)
(* leaves the connection what it was.                                        *)
LEMMA SameConnection ==
  ASSUME ConnectionInv, UNCHANGED <<signedIn, reconnect>>,
         sockets' \in [Sockets -> SocketStates],
         \A w \in Sockets : w \in Alive' <=> w \in Alive
  PROVE  ConnectionInv'
<1>1. Alive' = Alive
  BY DEF Alive
<1> QED
  BY <1>1 DEF ConnectionInv

(* An evaluation announces finitely many events.                             *)
LEMMA EventsAreCounted ==
  ASSUME NEW e, activeAlerts \subseteq AlertIds
  PROVE  Cardinality(Raised(e)) + Cardinality(Cleared(e)) \in Nat
<1>1. IsFiniteSet(AlertIds)
  <2> DEFINE S2 == {"disk-critical"} \cup {"disk-warning"}
             S3 == S2 \cup {"queue-backlog"}
             S4 == S3 \cup {"launch-failures"}
             S5 == S4 \cup {"run-failures"}
  <2>1. IsFiniteSet(S2)
    BY FS_Singleton, FS_AddElement
  <2>2. IsFiniteSet(S3)
    BY <2>1, FS_AddElement
  <2>3. IsFiniteSet(S4)
    BY <2>2, FS_AddElement
  <2>4. IsFiniteSet(S5)
    BY <2>3, FS_AddElement
  <2>5. AlertIds = S5
    BY DEF AlertIds
  <2> QED
    BY <2>4, <2>5
<1>2. Raised(e) \in SUBSET AlertIds /\ Cleared(e) \in SUBSET AlertIds
  BY AlertsAreKnown DEF Raised, Cleared, Found
<1>3. /\ Cardinality(Raised(e)) \in Nat
      /\ Cardinality(Cleared(e)) \in Nat
  BY <1>1, <1>2, FS_Subset, FS_CardinalityType
<1> QED
  BY <1>3

LEMMA HubKeepsConnection ==
  ASSUME ConnectionInv, IInv,
         \/ \E e \in Evals : EvaluationFinishes(e)
         \/ \E w \in Sockets : HubStep(w) \/ LineIsCut(w)
         \/ ServerStops
  PROVE  ConnectionInv'
<1> USE DEF ConnectionInv, SocketStates
<1>1. ASSUME NEW e \in Evals, EvaluationFinishes(e) PROVE ConnectionInv'
  <2>1. PICK n \in Nat : sockets' = Broadcast(n)
    BY <1>1, EventsAreCounted DEF EvaluationFinishes, IInv
  <2>2. sockets' \in [Sockets -> SocketStates]
    BY <2>1 DEF Broadcast
  <2>3. \A w \in Sockets : sockets'[w].browser = sockets[w].browser
    BY <2>1 DEF Broadcast
  <2> QED
    BY <1>1, <2>2, <2>3, SameConnection DEF EvaluationFinishes, page, Alive
<1>2. ASSUME NEW w \in Sockets, HubStep(w) \/ LineIsCut(w) PROVE ConnectionInv'
  <2>1. UNCHANGED <<signedIn, reconnect>>
    BY <1>2 DEF HubStep, HandleUpgrade, Heartbeat, ClientLeaves, LineIsCut, page
  <2>2. sockets' \in [Sockets -> SocketStates]
    <3>1. \E m, c \in BOOLEAN :
            sockets' = [sockets EXCEPT ![w].member = m, ![w].cut = c]
      <4>1. HandleUpgrade(w) =>
           sockets' = [sockets EXCEPT ![w].member = TRUE, ![w].cut = sockets[w].cut]
        BY DEF HandleUpgrade
      <4>2. ClientLeaves(w) =>
           sockets' = [sockets EXCEPT ![w].member = FALSE, ![w].cut = sockets[w].cut]
        BY DEF ClientLeaves
      <4>3. LineIsCut(w) =>
           sockets' = [sockets EXCEPT ![w].member = sockets[w].member, ![w].cut = TRUE]
        BY DEF LineIsCut
      <4>4. Heartbeat(w) => \E c \in BOOLEAN :
            sockets' = [sockets EXCEPT ![w].member = FALSE, ![w].cut = c]
        BY DEF Heartbeat
      <4> QED
        BY <1>2, <4>1, <4>2, <4>3, <4>4 DEF HubStep
    <3>2. PICK m, c \in BOOLEAN :
              sockets' = [sockets EXCEPT ![w].member = m, ![w].cut = c]
      BY <3>1
    <3>3. sockets'[w] \in SocketStates
      BY <3>2
    <3>4. \A v \in Sockets \ {w} : sockets'[v] = sockets[v]
      BY <3>2
    <3>5. sockets' = [v \in Sockets |-> sockets'[v]]
      BY <3>2
    <3> HIDE DEF SocketStates
    <3> QED
      BY <3>3, <3>4, <3>5
  <2>3. \A v \in Sockets : sockets'[v].browser = sockets[v].browser
    BY <1>2 DEF HubStep, HandleUpgrade, Heartbeat, ClientLeaves, LineIsCut
  <2> QED
    BY <2>1, <2>2, <2>3, SameConnection DEF Alive
<1>3. CASE ServerStops
  <2>1. sockets' \in [Sockets -> SocketStates]
    BY <1>3 DEF ServerStops, Free
  <2>2. \A v \in Sockets : sockets'[v].browser = sockets[v].browser
    BY <1>3 DEF ServerStops, Free
  <2> QED
    BY <1>3, <2>1, <2>2, SameConnection DEF ServerStops, page, Alive
<1> QED
  BY <1>1, <1>2, <1>3

(* The hook connects once its timer has fired, and sets the timer when the   *)
(* connection is gone; a connection that the sign-out closed sets none.      *)
LEMMA HookKeepsConnection ==
  ASSUME ConnectionInv, NEW w \in Sockets, Connect(w) \/ HookStep(w)
  PROVE  ConnectionInv'
<1> USE DEF ConnectionInv, SocketStates
<1>1. CASE Connect(w)
  <2>1. /\ reconnect /\ reconnect' = FALSE /\ signedIn' = signedIn
        /\ sockets' \in [Sockets -> SocketStates]
        /\ sockets'[w].browser = "connecting"
        /\ \A v \in Sockets \ {w} : sockets'[v] = sockets[v]
    BY <1>1 DEF Connect
  <2>2. Alive' = {w}
    BY <2>1 DEF Alive
  <2>3. signedIn
    BY <2>1
  <2> HIDE DEF Alive
  <2> QED
    BY <2>1, <2>2, <2>3
<1>2. CASE Opens(w)
  <2>1. /\ sockets' = [sockets EXCEPT ![w].browser = "open"]
        /\ sockets[w].browser = "connecting"
        /\ UNCHANGED <<signedIn, reconnect>>
    BY <1>2 DEF Opens, page
  <2>2. sockets' \in [Sockets -> SocketStates]
    BY <2>1
  <2>3. \A v \in Sockets : v \in Alive' <=> v \in Alive
    BY <2>1 DEF Alive
  <2> QED
    BY <2>1, <2>2, <2>3, SameConnection
<1>3. CASE Receive(w)
  <2>1. /\ sockets' = [sockets EXCEPT ![w].inbox = sockets[w].inbox - 1]
        /\ sockets[w].inbox > 0
        /\ UNCHANGED <<signedIn, reconnect>>
    BY <1>3 DEF Receive
  <2>2. sockets' \in [Sockets -> SocketStates]
    BY <2>1
  <2>3. \A v \in Sockets : v \in Alive' <=> v \in Alive
    BY <2>1 DEF Alive
  <2> QED
    BY <2>1, <2>2, <2>3, SameConnection
<1>4. ASSUME sockets' = Gone(w)
      PROVE  /\ sockets' \in [Sockets -> SocketStates]
             /\ sockets'[w].browser = "none"
             /\ \A v \in Sockets \ {w} : sockets'[v] = sockets[v]
  <2>1. CASE sockets[w].member
    BY <1>4, <2>1 DEF Gone
  <2>2. CASE ~sockets[w].member
    BY <1>4, <2>2 DEF Gone, Free
  <2> QED
    BY <2>1, <2>2
<1>5. CASE Closes(w)
  <2>1. sockets[w].browser = "closing" /\ UNCHANGED <<signedIn, reconnect>>
    BY <1>5 DEF Closes, page
  <2>2. \A v \in Sockets : v \in Alive' <=> v \in Alive
    BY <1>4, <1>5, <2>1 DEF Closes, Alive
  <2> QED
    BY <1>4, <1>5, <2>1, <2>2, SameConnection DEF Closes
<1>6. CASE Drops(w)
  <2>1. /\ reconnect' = TRUE /\ signedIn' = signedIn
        /\ sockets' \in [Sockets -> SocketStates]
        /\ sockets'[w].browser = "none"
        /\ \A v \in Sockets \ {w} : sockets'[v] = sockets[v]
    BY <1>4, <1>6 DEF Drops
  <2>2. w \in Alive
    BY <1>6 DEF Drops, Alive
  <2>3. signedIn /\ Alive = {w}
    BY <2>2
  <2>4. Alive' = {}
    BY <2>1, <2>3 DEF Alive
  <2> QED
    BY <2>1, <2>3, <2>4
<1> QED
  BY <1>1, <1>2, <1>3, <1>5, <1>6 DEF HookStep

(* Signing in asks for a connection; signing out closes it.                  *)
LEMMA UserKeepsConnection ==
  ASSUME ConnectionInv, Login \/ Logout
  PROVE  ConnectionInv'
<1> USE DEF ConnectionInv, SocketStates
<1>1. CASE Login
  BY <1>1 DEF Login, Alive
<1>2. CASE Logout
  <2>1. sockets' \in [Sockets -> SocketStates]
    BY <1>2 DEF Logout
  <2>2. Alive' = {}
    BY <1>2 DEF Logout, Alive
  <2> QED
    BY <1>2, <2>1, <2>2 DEF Logout
<1> QED
  BY <1>1, <1>2

LEMMA NextConnected == IInv /\ ConnectionInv /\ [DashboardNext]_vars => ConnectionInv'
<1> SUFFICES ASSUME IInv, ConnectionInv, [DashboardNext]_vars
             PROVE  ConnectionInv'
  OBVIOUS
<1>1. ASSUME UNCHANGED <<signedIn, reconnect, sockets>> PROVE ConnectionInv'
  BY <1>1 DEF ConnectionInv, Alive
<1>2. CASE Login \/ Logout
  BY <1>2, UserKeepsConnection
<1>3. CASE \/ SystemMoves \/ ServerStarts \/ Interval
           \/ \E e \in Evals : EvaluationBegins(e)
           \/ \E c \in Slots : Fetch(c) \/ Ends(c)
           \/ UNCHANGED vars
  BY <1>1, <1>3 DEF SystemMoves, ServerStarts, Interval, EvaluationBegins, Fetch, Ends,
     MonitoringSummary, SummaryArrives, SummaryFails, page, vars
<1>4. CASE \/ \E e \in Evals : EvaluationFinishes(e)
           \/ \E w \in Sockets : HubStep(w) \/ LineIsCut(w)
           \/ ServerStops
  BY <1>4, HubKeepsConnection
<1>5. CASE \E w \in Sockets : HookStep(w) \/ Connect(w)
  BY <1>5, HookKeepsConnection
<1> QED
  BY <1>2, <1>3, <1>4, <1>5 DEF DashboardNext

(* However often the user signs in and out, the line is cut and the server   *)
(* stops, and whatever the sockets' ends know of each other, the page has    *)
(* one connection or one timer for it while signed in, and neither after.    *)
THEOREM ConnectedOnce == DashboardSpec => []OneConnection
<1>1. ConnectionInv => OneConnection
  <2> SUFFICES ASSUME ConnectionInv PROVE OneConnection
    OBVIOUS
  <2>1. CASE ~signedIn \/ reconnect
    BY <2>1, FS_EmptySet DEF ConnectionInv, OneConnection
  <2>2. CASE signedIn /\ ~reconnect
    <3>1. PICK w \in Sockets : Alive = {w}
      BY <2>2 DEF ConnectionInv
    <3>2. Cardinality(Alive) = 1
      BY <3>1, FS_Singleton
    <3> QED
      BY <2>2, <3>2 DEF OneConnection
  <2> QED
    BY <2>1, <2>2
<1> QED
  BY InitTold, InitConnected, NextTold, NextConnected, <1>1, PTL DEF DashboardSpec
=============================================================================
