----------------------------- MODULE CdpSession -----------------------------
(* The raw DevTools connections of the server to one browser                 *)
(* (packages/api/src/browser/cdp.ts) with their three users: the proxy       *)
(* authentication handler that stays attached while the profile runs         *)
(* (proxies/auth-handler.ts), window sync, which opens one connection per    *)
(* command (windowsync/service.ts), and the graceful close of a stop.        *)
(*                                                                           *)
(* A connection is named for what it is opened for.  Bytes travel in order;  *)
(* what the socket hands over in one 'data' event is a chunk of one or more  *)
(* frames, and the frame loop dispatches the whole chunk before any promise  *)
(* continuation of the client runs.  That is the atomicity of this module.   *)
EXTENDS Naturals, Sequences, FiniteSets

CONSTANTS
  Requests,       \* the requests the browser's pages make
  MaxChallenges,  \* bound: authentication challenges per request
  MaxChunk        \* bound: frames in one 'data' event

ASSUME CdpAssumption ==
  /\ IsFiniteSet(Requests)
  /\ MaxChallenges \in Nat
  /\ MaxChunk \in Nat \ {0}

VARIABLES
  phase,         \* where each connection is
  outcome,       \* how the command a connection was opened for settled
  inbox,         \* frames on their way from the browser
  outbox,        \* commands on their way to the browser
  listening,     \* the handlers of Fetch.requestPaused and Fetch.authRequired are registered
  secret,        \* the credentials can be read from the vault
  browser,       \* "up", or "gone" once it exited
  intercepting,  \* the browser pauses requests for the auth connection
  req,           \* what became of each request
  asker,         \* who challenged each request last
  challenges,    \* the challenges each request met
  page,          \* what window sync did to the page: "navigate", "front"
  missed         \* requests one of whose events no handler took (history)

cdpVars == <<phase, outcome, inbox, outbox, listening, secret, browser,
          intercepting, req, asker, challenges, page, missed>>

Sessions == {"auth", "navigate", "front", "close"}

Phases == {"idle", "lookup", "connecting", "handshake", "open", "closed"}
Outcomes == {"none", "acked", "failed", "dropped"}
RequestStates == {"idle", "paused", "continued", "challenged", "done"}

Response(ok) == [kind |-> "response", ok |-> ok]
Paused(r) == [kind |-> "paused", request |-> r]
Challenge(r, from) == [kind |-> "challenge", request |-> r, source |-> from]

Messages ==
  [kind: {"response"}, ok: BOOLEAN]
    \cup [kind: {"paused"}, request: Requests]
    \cup [kind: {"challenge"}, request: Requests, source: {"proxy", "origin"}]

Command(s) == [kind |-> s]
Continue(r) == [kind |-> "continue", request |-> r]
Answer(r, with) == [kind |-> "answer", request |-> r, response |-> with]

Commands ==
  [kind: Sessions] \cup [kind: {"continue"}, request: Requests]
    \cup [kind: {"answer"}, request: Requests, response: {"credentials", "default"}]

CdpInit ==
  /\ phase = [s \in Sessions |-> "idle"]
  /\ outcome = [s \in Sessions |-> "none"]
  /\ inbox = [s \in Sessions |-> << >>]
  /\ outbox = [s \in Sessions |-> << >>]
  /\ listening = FALSE
  /\ secret = TRUE
  /\ browser = "up"
  /\ intercepting = FALSE
  /\ req = [r \in Requests |-> "idle"]
  /\ asker = [r \in Requests |-> "none"]
  /\ challenges = [r \in Requests |-> 0]
  /\ page = {}
  /\ missed = {}

(* ------------------------------------------------------------ connecting *)

(* The handler is attached with the URL the launch printed; window sync and  *)
(* the close ask the debugger's HTTP endpoint for theirs first.  The page is *)
(* brought to the front only once it has navigated.                          *)
Open(s) ==
  /\ phase[s] = "idle"
  /\ s = "front" => outcome["navigate"] = "acked"
  /\ phase' = [phase EXCEPT ![s] = IF s \in {"navigate", "close"} THEN "lookup" ELSE "connecting"]
  /\ UNCHANGED <<outcome, inbox, outbox, listening, secret, browser, intercepting, req, asker, challenges, page, missed>>

LookupAnswers(s) ==
  /\ phase[s] = "lookup"
  /\ browser = "up"
  /\ phase' = [phase EXCEPT ![s] = "connecting"]
  /\ UNCHANGED <<outcome, inbox, outbox, listening, secret, browser, intercepting, req, asker, challenges, page, missed>>

TcpConnects(s) ==
  /\ phase[s] = "connecting"
  /\ browser = "up"
  /\ phase' = [phase EXCEPT ![s] = "handshake"]
  /\ UNCHANGED <<outcome, inbox, outbox, listening, secret, browser, intercepting, req, asker, challenges, page, missed>>

(* The upgrade is answered with a 101; the caller continues with its command.*)
HandshakeAnswered(s) ==
  /\ phase[s] = "handshake"
  /\ browser = "up"
  /\ phase' = [phase EXCEPT ![s] = "open"]
  /\ outbox' = [outbox EXCEPT ![s] = Append(@, Command(s))]
  /\ UNCHANGED <<outcome, inbox, listening, secret, browser, intercepting, req, asker, challenges, page, missed>>

(* A lookup, a connect or a handshake fails: refused, reset, not a 101, or   *)
(* its timer fires.                                                          *)
ConnectFails(s) ==
  /\ phase[s] \in {"lookup", "connecting", "handshake"}
  /\ phase' = [phase EXCEPT ![s] = "closed"]
  /\ outcome' = [outcome EXCEPT ![s] = "failed"]
  /\ UNCHANGED <<inbox, outbox, listening, secret, browser, intercepting, req, asker, challenges, page, missed>>

(* ------------------------------------------------- the client's event loop *)

(* A mutant: the source of the challenge is not compared.                    *)
AnswerToAnyone(m) ==
  IF m.kind = "paused" THEN Continue(m.request)
  ELSE Answer(m.request, IF secret THEN "credentials" ELSE "default")

(* The challenge of a proxy gets the credentials, if they can be read; any   *)
(* other challenger, and a lookup that fails, gets Default.                  *)
AnswerTo(m) ==
  IF m.kind = "paused" THEN Continue(m.request)
  ELSE Answer(m.request, IF m.source = "proxy" /\ secret THEN "credentials" ELSE "default")

IsEvent(m) == m.kind # "response"

Min2(a, b) == IF a <= b THEN a ELSE b

(* The numbers of a finite set from the least to the greatest.               *)
InOrder(S) ==
  CHOOSE f \in [1..Cardinality(S) -> S] : \A m, n \in DOMAIN f : m < n => f[m] < f[n]

EventsAt(chunk) == {i \in 1..Len(chunk) : IsEvent(chunk[i])}

(* A mutant: one frame per data event.                                       *)
FirstEvent(chunk) ==
  LET at == InOrder(EventsAt(chunk))
  IN [k \in 1..Min2(1, Cardinality(EventsAt(chunk))) |-> chunk[at[k]]]

(* The events of a chunk, in the order in which the frame loop finds them.   *)
Events(chunk) ==
  LET at == InOrder(EventsAt(chunk))
  IN [k \in 1..Cardinality(EventsAt(chunk)) |-> chunk[at[k]]]

(* What the settling of its command does to a connection: the one-shot users *)
(* close theirs either way, the handler keeps an acknowledged one.           *)
PhaseAfter(s, how) == IF s = "auth" /\ how = "acked" THEN "open" ELSE "closed"

(* One 'data' event: every frame is dispatched, the events to the handlers   *)
(* registered so far, the response to the waiter of its id if its timer has  *)
(* not fired; then the continuation of the waiter runs, which is where       *)
(* attachProxyAuth registers its handlers.                                   *)
Receive(s) ==
  \E n \in 1..Min2(MaxChunk, Len(inbox[s])) :
    LET chunk == SubSeq(inbox[s], 1, n)
        responses == {i \in 1..n : chunk[i].kind = "response"}
        settles == responses # {} /\ outcome[s] = "none"
        how == IF \E i \in responses : chunk[i].ok THEN "acked" ELSE "failed"
        events == Events(chunk)
        replies == IF listening THEN [i \in 1..Len(events) |-> AnswerTo(events[i])] ELSE << >>
    IN /\ phase[s] = "open"
       /\ inbox' = [inbox EXCEPT ![s] = SubSeq(@, n + 1, Len(@))]
       /\ outbox' = [outbox EXCEPT ![s] = @ \o replies]
       /\ missed' = IF listening THEN missed
                    ELSE missed \cup {events[i].request : i \in 1..Len(events)}
       /\ outcome' = IF settles THEN [outcome EXCEPT ![s] = how] ELSE outcome
       /\ phase' = IF settles THEN [phase EXCEPT ![s] = PhaseAfter(s, how)] ELSE phase
       /\ listening' = (listening \/ (s = "auth" /\ settles /\ how = "acked"))
       /\ UNCHANGED <<secret, browser, intercepting, req, asker, challenges, page>>

(* A mutant: the command is sent without a timer.                            *)
CommandHasNoTimer(s) == FALSE

(* The timer of the command fires: the waiter is dropped and rejected, and   *)
(* the user closes the connection.                                           *)
CommandTimesOut(s) ==
  /\ phase[s] = "open"
  /\ outcome[s] = "none"
  /\ browser = "up"
  /\ outcome' = [outcome EXCEPT ![s] = "failed"]
  /\ phase' = [phase EXCEPT ![s] = PhaseAfter(s, "failed")]
  /\ UNCHANGED <<inbox, outbox, listening, secret, browser, intercepting, req, asker, challenges, page, missed>>

(* A mutant: the commands are rejected before `closed` resolves.             *)
DropRejectsFirst == <<"failed", "dropped">>

(* The order in which a dropped socket settles what waits for it: `closed`   *)
(* first, then every pending command.  The close races the two, so the first *)
(* one decides; the other users only await their command.                    *)
DropOrder == <<"dropped", "failed">>

SocketDrops(s) ==
  /\ browser = "gone"
  /\ phase[s] = "open"
  /\ phase' = [phase EXCEPT ![s] = "closed"]
  /\ outcome' = [outcome EXCEPT ![s] =
       IF @ # "none" THEN @ ELSE IF s = "close" THEN Head(DropOrder) ELSE "failed"]
  /\ inbox' = [inbox EXCEPT ![s] = << >>]
  /\ UNCHANGED <<outbox, listening, secret, browser, intercepting, req, asker, challenges, page, missed>>

(* The operator removes the secret from the vault while the profile runs.    *)
SecretRemoved ==
  /\ secret
  /\ secret' = FALSE
  /\ UNCHANGED <<phase, outcome, inbox, outbox, listening, browser, intercepting, req, asker, challenges, page, missed>>

(* ------------------------------------------------------- the browser's side *)

(* The browser takes the next command of a connection, also of one the       *)
(* client has closed since: the bytes were sent.                             *)
Handle(s) ==
  /\ browser = "up"
  /\ outbox[s] # << >>
  /\ outbox' = [outbox EXCEPT ![s] = Tail(@)]
  /\ UNCHANGED <<phase, outcome, listening, secret, asker, challenges, missed>>

Reply(s, ok) == inbox' = [inbox EXCEPT ![s] =
  IF phase[s] = "open" THEN Append(@, Response(ok)) ELSE @]

BrowserEnables ==
  /\ Handle("auth")
  /\ Head(outbox["auth"]).kind = "auth"
  /\ \/ Reply("auth", TRUE) /\ intercepting' = TRUE
     \/ Reply("auth", FALSE) /\ UNCHANGED intercepting
  /\ UNCHANGED <<browser, req, page>>

BrowserContinues ==
  /\ Handle("auth")
  /\ Head(outbox["auth"]).kind = "continue"
  /\ req' = [req EXCEPT ![Head(outbox["auth"]).request] = IF @ = "paused" THEN "continued" ELSE @]
  /\ UNCHANGED <<inbox, browser, intercepting, page>>

(* Credentials send the request again; Default lets it fail.                 *)
BrowserTakesAnswer ==
  LET answer == Head(outbox["auth"]) IN
  /\ Handle("auth")
  /\ answer.kind = "answer"
  /\ req' = [req EXCEPT ![answer.request] =
       IF @ # "challenged" THEN @
       ELSE IF answer.response = "credentials" THEN "continued" ELSE "done"]
  /\ UNCHANGED <<inbox, browser, intercepting, page>>

BrowserMovesPage(s) ==
  /\ s \in {"navigate", "front"}
  /\ Handle(s)
  /\ \/ Reply(s, TRUE) /\ page' = page \cup {s}
     \/ Reply(s, FALSE) /\ UNCHANGED page
  /\ UNCHANGED <<browser, intercepting, req>>

(* Browser.close: the browser exits, with or without acknowledging.          *)
BrowserCloses ==
  /\ Handle("close")
  /\ browser' = "gone"
  /\ \/ Reply("close", TRUE)
     \/ UNCHANGED inbox
  /\ UNCHANGED <<intercepting, req, page>>

BrowserCrashes ==
  /\ browser = "up"
  /\ browser' = "gone"
  /\ UNCHANGED <<phase, outcome, inbox, outbox, listening, secret, intercepting, req, asker, challenges, page, missed>>

(* A page asks for something: paused while the auth connection intercepts.   *)
PageRequests(r) ==
  /\ browser = "up"
  /\ req[r] = "idle"
  /\ IF intercepting
     THEN /\ req' = [req EXCEPT ![r] = "paused"]
          /\ inbox' = [inbox EXCEPT !["auth"] =
               IF phase["auth"] = "open" THEN Append(@, Paused(r)) ELSE @]
     ELSE /\ req' = [req EXCEPT ![r] = "done"]
          /\ UNCHANGED inbox
  /\ UNCHANGED <<phase, outcome, outbox, listening, secret, browser, intercepting, asker, challenges, page, missed>>

(* The proxy, or the server behind it, asks for credentials.                 *)
Challenged(r) ==
  /\ browser = "up"
  /\ req[r] = "continued"
  /\ challenges[r] < MaxChallenges
  /\ req' = [req EXCEPT ![r] = "challenged"]
  /\ challenges' = [challenges EXCEPT ![r] = @ + 1]
  /\ \E from \in {"proxy", "origin"} :
       /\ asker' = [asker EXCEPT ![r] = from]
       /\ inbox' = [inbox EXCEPT !["auth"] =
            IF phase["auth"] = "open" THEN Append(@, Challenge(r, from)) ELSE @]
  /\ UNCHANGED <<phase, outcome, outbox, listening, secret, browser, intercepting, page, missed>>

Served(r) ==
  /\ browser = "up"
  /\ req[r] = "continued"
  /\ req' = [req EXCEPT ![r] = "done"]
  /\ UNCHANGED <<phase, outcome, inbox, outbox, listening, secret, browser, intercepting, asker, challenges, page, missed>>

(* The browser notices that the connection that intercepts is closed, stops  *)
(* intercepting and lets go of what it holds.                                *)
BrowserDetaches ==
  /\ browser = "up"
  /\ intercepting
  /\ phase["auth"] = "closed"
  /\ outbox["auth"] = << >>
  /\ intercepting' = FALSE
  /\ req' = [r \in Requests |-> IF req[r] \in {"paused", "challenged"} THEN "done" ELSE req[r]]
  /\ UNCHANGED <<phase, outcome, inbox, outbox, listening, secret, browser, asker, challenges, page, missed>>

CdpNext ==
  \/ \E s \in Sessions :
       \/ Open(s) \/ LookupAnswers(s) \/ TcpConnects(s) \/ HandshakeAnswered(s) \/ ConnectFails(s)
       \/ Receive(s) \/ CommandTimesOut(s) \/ SocketDrops(s) \/ BrowserMovesPage(s)
  \/ \E r \in Requests : PageRequests(r) \/ Challenged(r) \/ Served(r)
  \/ BrowserEnables \/ BrowserContinues \/ BrowserTakesAnswer \/ BrowserCloses
  \/ BrowserCrashes \/ BrowserDetaches \/ SecretRemoved

CdpSpec == CdpInit /\ [][CdpNext]_cdpVars

(* The client's timers fire and its event loop takes what has arrived; the   *)
(* kernel closes the sockets of a process that exited.  Nothing is assumed of*)
(* the browser but that it reads its commands, and that only for the one     *)
(* property about it.                                                        *)
Fairness ==
  /\ \A s \in Sessions :
       /\ WF_cdpVars(ConnectFails(s))
       /\ WF_cdpVars(CommandTimesOut(s))
       /\ WF_cdpVars(Receive(s))
       /\ WF_cdpVars(SocketDrops(s))
  /\ WF_cdpVars(BrowserContinues)
  /\ WF_cdpVars(BrowserTakesAnswer)
  /\ WF_cdpVars(BrowserEnables)

FairSpec == CdpSpec /\ Fairness

(* -------------------------------------------------------------- properties *)

(* Every variable has its type (browser/cdp.ts).                             *)
CdpTypeOK ==
  /\ phase \in [Sessions -> Phases]
  /\ outcome \in [Sessions -> Outcomes]
  /\ inbox \in [Sessions -> Seq(Messages)]
  /\ outbox \in [Sessions -> Seq(Commands)]
  /\ listening \in BOOLEAN
  /\ secret \in BOOLEAN
  /\ browser \in {"up", "gone"}
  /\ intercepting \in BOOLEAN
  /\ req \in [Requests -> RequestStates]
  /\ asker \in [Requests -> {"none", "proxy", "origin"}]
  /\ challenges \in [Requests -> 0..MaxChallenges]
  /\ page \subseteq {"navigate", "front"}
  /\ missed \subseteq Requests

(* Credentials are only ever on their way for a request that the proxy, and  *)
(* not the server behind it, is asking about ("proxy credentials are never   *)
(* offered to a non-proxy party", proxies/auth-handler.ts).                  *)
CredentialsOnlyToTheProxy ==
  \A i \in 1..Len(outbox["auth"]) :
    LET c == outbox["auth"][i] IN
    (c.kind = "answer" /\ c.response = "credentials") => asker[c.request] = "proxy"

EventsOf(r, kind) ==
  {i \in 1..Len(inbox["auth"]) : inbox["auth"][i].kind = kind /\ inbox["auth"][i].request = r}
AnswersOf(r, kind) ==
  {i \in 1..Len(outbox["auth"]) : outbox["auth"][i].kind = kind /\ outbox["auth"][i].request = r}

(* While the handler stays attached, a request that the browser holds has    *)
(* exactly one thing on its way that will move it: the event the handler has *)
(* not seen yet or the answer the browser has not; or its event was missed.  *)
(* ("Every such pause MUST be answered or the page hangs",                   *)
(* proxies/auth-handler.ts.)                                                 *)
HeldRequestsAreOnTheirWay ==
  phase["auth"] = "open" =>
    \A r \in Requests \ missed :
      /\ req[r] = "paused" => Cardinality(EventsOf(r, "paused")) + Cardinality(AnswersOf(r, "continue")) = 1
      /\ req[r] = "challenged" => Cardinality(EventsOf(r, "challenge")) + Cardinality(AnswersOf(r, "answer")) = 1

(* A browser that exits while the close waits for it is never taken for one  *)
(* that refused: closeBrowserViaCdp reports success, so the stop does not go *)
(* on to kill a process group that may be another's by then.                 *)
ExitIsTakenForSuccess ==
  [][(phase["close"] = "open" /\ browser = "gone" /\ outcome["close"] = "none"
      /\ \A i \in 1..Len(inbox["close"]) : inbox["close"][i].ok)
      => outcome'["close"] # "failed"]_cdpVars

(* Every call over a connection returns, whatever the browser does.          *)
EveryCallSettles == \A s \in Sessions : phase[s] # "idle" ~> outcome[s] # "none"
=============================================================================
