---------------------------- MODULE ProxyLaunch -----------------------------
(* Proxies, their assignment to profiles, and the gate a launch passes: the  *)
(* repository and the two resolvers of packages/api/src/proxies, the parts of*)
(* ProfileManager.launchProfileInner that call them, and the vault file the  *)
(* credentials come from (vault/vault.ts).                                   *)
(*                                                                           *)
(* The database answers within the microtasks of a request, so a handler is  *)
(* one step between real waits.  A launch waits three times, for the health  *)
(* check, for the browser and for the authentication handler, and the rows it*)
(* read may be others afterwards.  The vault is written by the operator's    *)
(* own process while the server reads it.                                    *)
EXTENDS FiniteSets

CONSTANTS
  Profiles,
  Proxies,      \* names of proxies; the vault secret of a proxy has its name
  Endpoints,    \* host and port
  NoProxy,
  EnvVaultPath  \* MULTILOGER_VAULT_PATH is set, so that every caller finds the vault

ASSUME ProxyAssumption ==
  /\ NoProxy \notin Proxies
  /\ NoProxy \notin Endpoints
  /\ EnvVaultPath \in BOOLEAN

VARIABLES
  proxies,    \* the row of each proxy, or Absent
  assigned,   \* the proxy of each profile, or NoProxy
  required,   \* proxy_required of each profile
  vaultFile,  \* "missing", "ok", "loose" (group or others may read it), "corrupt"
  secrets,    \* the names stored in the vault
  writer,     \* the operator's process: "none", "read", "truncated"
  draft,      \* the names it is about to write
  pc,         \* where the launch of each profile is
  gate,       \* the record its gate resolved, or Absent
  handler,    \* the proxy whose credentials its handler answers with, or NoProxy
  policy,     \* the WebRTC policy in its Preferences file
  verdict,    \* what the readiness check of each profile says
  checked,    \* the endpoint whose health check the launch passed (history)
  held,       \* the profile has required a proxy since the launch began (history)
  edited      \* its assignment or that proxy changed since the gate (history)

store == <<proxies, assigned, required>>
vault == <<vaultFile, secrets, writer, draft>>
launch == <<pc, gate, handler, policy, checked>>
vars == <<store, vault, launch, verdict, held, edited>>

(* What a password_secret_ref and a username make of a proxy: no credentials,*)
(* a `vault:` reference, or anything else (`env:`, or a bare username).      *)
Credentials == {"none", "vault", "plain"}
Records == [endpoint: Endpoints, cred: Credentials]
Absent == [endpoint |-> NoProxy, cred |-> "none"]

Launching == {"checking", "spawning", "attaching"}
PCs == Launching \cup {"idle", "running"}

Init ==
  /\ proxies = [x \in Proxies |-> Absent]
  /\ assigned = [p \in Profiles |-> NoProxy]
  /\ required = [p \in Profiles |-> FALSE]
  /\ vaultFile = "missing"
  /\ secrets = {}
  /\ writer = "none"
  /\ draft = {}
  /\ pc = [p \in Profiles |-> "idle"]
  /\ gate = [p \in Profiles |-> Absent]
  /\ handler = [p \in Profiles |-> NoProxy]
  /\ policy = [p \in Profiles |-> "default"]
  /\ verdict = [p \in Profiles |-> "none"]
  /\ checked = [p \in Profiles |-> NoProxy]
  /\ held = [p \in Profiles |-> FALSE]
  /\ edited = [p \in Profiles |-> FALSE]

(* ------------------------------------------------------------ the repository *)

Exists(x) == proxies[x] # Absent

(* The record of the proxy assigned to a profile, Absent if none is.         *)
AssignedProxy(p) == IF assigned[p] = NoProxy THEN Absent ELSE proxies[assigned[p]]

(* History: who was in the middle of a launch when its rows changed.         *)
Edit(ps) == edited' = [p \in Profiles |-> edited[p] \/ (p \in ps /\ pc[p] \in Launching)]
UsersOf(x) == {p \in Profiles : assigned[p] = x}

CreateProxy(x, record) ==
  /\ ~Exists(x)
  /\ proxies' = [proxies EXCEPT ![x] = record]
  /\ UNCHANGED <<assigned, required, vault, launch, verdict, held, edited>>

UpdateProxy(x, record) ==
  /\ Exists(x)
  /\ record # proxies[x]
  /\ proxies' = [proxies EXCEPT ![x] = record]
  /\ Edit(UsersOf(x))
  /\ UNCHANGED <<assigned, required, vault, launch, verdict, held>>

(* ON DELETE RESTRICT: an assigned proxy stays.                              *)
DeleteProxy(x) ==
  /\ Exists(x)
  /\ UsersOf(x) = {}
  /\ proxies' = [proxies EXCEPT ![x] = Absent]
  /\ UNCHANGED <<assigned, required, vault, launch, verdict, held, edited>>

AssignProxy(p, x) ==
  /\ Exists(x)
  /\ assigned[p] # x
  /\ assigned' = [assigned EXCEPT ![p] = x]
  /\ Edit({p})
  /\ UNCHANGED <<proxies, required, vault, launch, verdict, held>>

UnassignProxy(p) ==
  /\ assigned[p] # NoProxy
  /\ assigned' = [assigned EXCEPT ![p] = NoProxy]
  /\ Edit({p})
  /\ UNCHANGED <<proxies, required, vault, launch, verdict, held>>

SetProxyRequired(p, value) ==
  /\ required[p] # value
  /\ required' = [required EXCEPT ![p] = value]
  /\ held' = [held EXCEPT ![p] = @ /\ value]
  /\ UNCHANGED <<proxies, assigned, vault, launch, verdict, edited>>

(* --------------------------------------------------------------- the vault *)

(* getSecret finds a value: the file is there, owner-only and whole.         *)
Readable(x) == vaultFile = "ok" /\ x \in secrets

(* storeSecret and deleteSecret read the whole file first ...                *)
WriterReads ==
  /\ writer = "none"
  /\ vaultFile \in {"missing", "ok"}
  /\ \E x \in Proxies :
       \/ draft' = secrets \cup {x}
       \/ x \in secrets /\ draft' = secrets \ {x}
  /\ writer' = "read"
  /\ UNCHANGED <<store, vaultFile, secrets, launch, verdict, held, edited>>

(* ... and write it whole, if its permissions are still tight: it is         *)
(* truncated, then filled.                                                   *)
WriterTruncates ==
  /\ writer = "read"
  /\ IF vaultFile = "loose"
     THEN writer' = "none" /\ draft' = {} /\ UNCHANGED vaultFile
     ELSE writer' = "truncated" /\ vaultFile' = "corrupt" /\ UNCHANGED draft
  /\ UNCHANGED <<store, secrets, launch, verdict, held, edited>>

WriterFills ==
  /\ writer = "truncated"
  /\ vaultFile' = "ok"
  /\ secrets' = draft
  /\ writer' = "none"
  /\ draft' = {}
  /\ UNCHANGED <<store, launch, verdict, held, edited>>

WriterDies ==
  /\ writer # "none"
  /\ writer' = "none"
  /\ draft' = {}
  /\ UNCHANGED <<store, vaultFile, secrets, launch, verdict, held, edited>>

(* Somebody changes the mode of the file.                                    *)
Chmod ==
  /\ \/ vaultFile = "ok" /\ vaultFile' = "loose"
     \/ vaultFile = "loose" /\ vaultFile' = "ok"
  /\ UNCHANGED <<store, secrets, writer, draft, launch, verdict, held, edited>>

(* --------------------------------------------------------------- the launch *)

(* A mutant: proxy_required is not looked at.                                *)
GateIgnoringRequired(p) ==
  IF assigned[p] = NoProxy THEN "direct"
  ELSE CASE AssignedProxy(p).cred = "none" -> "check"
         [] AssignedProxy(p).cred = "vault" -> IF Readable(assigned[p]) THEN "check" ELSE "refuse"
         [] OTHER -> "refuse"

(* What resolveProxyForLaunch makes of the rows, before its health check.    *)
Gate(p) ==
  IF assigned[p] = NoProxy THEN IF required[p] THEN "refuse" ELSE "direct"
  ELSE CASE AssignedProxy(p).cred = "none" -> "check"
         [] AssignedProxy(p).cred = "vault" -> IF Readable(assigned[p]) THEN "check" ELSE "refuse"
         [] OTHER -> "refuse"

(* The same from the readiness route, which hands over no vault path.        *)
ReadinessGate(p) ==
  IF AssignedProxy(p).cred = "vault" /\ ~EnvVaultPath THEN "refuse" ELSE Gate(p)

(* A mutant: the row is read again after the check.                          *)
FlagsReadAgain(p) == AssignedProxy(p).endpoint

(* The --proxy-server flag the browser is started with: that of the record   *)
(* the gate read.                                                            *)
Flags(p) == gate[p].endpoint

(* The launch reads its rows; a refusal lands it in 'error' with the lock    *)
(* released (ProfileLifecycle), which is "idle" here.                        *)
BeginLaunch(p) ==
  /\ pc[p] = "idle"
  /\ Gate(p) # "refuse"
  /\ gate' = [gate EXCEPT ![p] = AssignedProxy(p)]
  /\ IF Gate(p) = "direct"
     THEN /\ pc' = [pc EXCEPT ![p] = "spawning"]
          /\ policy' = [policy EXCEPT ![p] = "default"]
     ELSE /\ pc' = [pc EXCEPT ![p] = "checking"]
          /\ UNCHANGED policy
  /\ held' = [held EXCEPT ![p] = required[p]]
  /\ edited' = [edited EXCEPT ![p] = FALSE]
  /\ UNCHANGED <<store, vault, handler, verdict, checked>>

(* The endpoint answers the TCP connect; the flags are made of the record the*)
(* gate read, and the browser is started with them.                          *)
HealthCheckPasses(p) ==
  /\ pc[p] = "checking"
  /\ pc' = [pc EXCEPT ![p] = "spawning"]
  /\ checked' = [checked EXCEPT ![p] = gate[p].endpoint]
  /\ gate' = [gate EXCEPT ![p].endpoint = Flags(p)]
  /\ policy' = [policy EXCEPT ![p] = "proxied_only"]
  /\ UNCHANGED <<store, vault, handler, verdict, held, edited>>

Dropped(p) ==
  /\ pc' = [pc EXCEPT ![p] = "idle"]
  /\ gate' = [gate EXCEPT ![p] = Absent]
  /\ handler' = [handler EXCEPT ![p] = NoProxy]
  /\ checked' = [checked EXCEPT ![p] = NoProxy]
  /\ held' = [held EXCEPT ![p] = FALSE]
  /\ edited' = [edited EXCEPT ![p] = FALSE]
  /\ UNCHANGED <<store, vault, policy, verdict>>

(* The check is refused or times out, the browser does not start, or the     *)
(* handler cannot attach: no browser is left.                                *)
LaunchFails(p) == pc[p] \in Launching /\ Dropped(p)

(* A mutant: the handler is attached after the profile is marked running.    *)
RunsBeforeTheHandler(p) ==
  /\ pc[p] = "spawning"
  /\ pc' = [pc EXCEPT ![p] = "running"]
  /\ UNCHANGED <<store, vault, gate, handler, policy, checked, verdict, held, edited>>

(* The browser is up.  resolveProxyAuthForLaunch reads the assignment again. *)
BrowserStarts(p) ==
  LET now == AssignedProxy(p) IN
  /\ pc[p] = "spawning"
  /\ now.cred # "plain"
  /\ IF now.cred = "vault"
     THEN /\ pc' = [pc EXCEPT ![p] = "attaching"]
          /\ handler' = [handler EXCEPT ![p] = assigned[p]]
     ELSE /\ pc' = [pc EXCEPT ![p] = "running"]
          /\ UNCHANGED handler
  /\ UNCHANGED <<store, vault, gate, policy, checked, verdict, held, edited>>

(* The credentials that are there by now cannot be applied: it is killed.    *)
BrowserIsAborted(p) == pc[p] = "spawning" /\ AssignedProxy(p).cred = "plain" /\ Dropped(p)

HandlerAttaches(p) ==
  /\ pc[p] = "attaching"
  /\ pc' = [pc EXCEPT ![p] = "running"]
  /\ UNCHANGED <<store, vault, gate, handler, policy, checked, verdict, held, edited>>

BrowserEnds(p) == pc[p] = "running" /\ Dropped(p)

(* ----------------------------------------------------------- the readiness *)

(* GET launch-readiness: the gate without the launch, health check included. *)
AskReadiness(p) ==
  /\ verdict[p] # "checking"
  /\ verdict' = [verdict EXCEPT ![p] =
       CASE ReadinessGate(p) = "refuse" -> "no"
         [] ReadinessGate(p) = "direct" -> "yes"
         [] OTHER -> "checking"]
  /\ UNCHANGED <<store, vault, launch, held, edited>>

ReadinessChecked(p) ==
  /\ verdict[p] = "checking"
  /\ \E answer \in {"yes", "no"} : verdict' = [verdict EXCEPT ![p] = answer]
  /\ UNCHANGED <<store, vault, launch, held, edited>>

Next ==
  \/ \E x \in Proxies, record \in Records : CreateProxy(x, record) \/ UpdateProxy(x, record)
  \/ \E x \in Proxies : DeleteProxy(x)
  \/ \E p \in Profiles :
       \/ \E x \in Proxies : AssignProxy(p, x)
       \/ \E value \in BOOLEAN : SetProxyRequired(p, value)
       \/ UnassignProxy(p) \/ BeginLaunch(p) \/ HealthCheckPasses(p) \/ LaunchFails(p)
       \/ BrowserStarts(p) \/ BrowserIsAborted(p) \/ HandlerAttaches(p) \/ BrowserEnds(p)
       \/ AskReadiness(p) \/ ReadinessChecked(p)
  \/ WriterReads \/ WriterTruncates \/ WriterFills \/ WriterDies \/ Chmod

Spec == Init /\ [][Next]_vars

(* -------------------------------------------------------------- properties *)

(* Every variable has its type (proxies/repository.ts, proxies/service.ts).  *)
TypeOK ==
  /\ proxies \in [Proxies -> Records \cup {Absent}]
  /\ assigned \in [Profiles -> Proxies \cup {NoProxy}]
  /\ required \in [Profiles -> BOOLEAN]
  /\ vaultFile \in {"missing", "ok", "loose", "corrupt"}
  /\ secrets \subseteq Proxies
  /\ writer \in {"none", "read", "truncated"}
  /\ draft \subseteq Proxies
  /\ pc \in [Profiles -> PCs]
  /\ gate \in [Profiles -> Records \cup {Absent}]
  /\ handler \in [Profiles -> Proxies \cup {NoProxy}]
  /\ policy \in [Profiles -> {"default", "proxied_only"}]
  /\ verdict \in [Profiles -> {"none", "checking", "yes", "no"}]
  /\ checked \in [Profiles -> Endpoints \cup {NoProxy}]
  /\ held \in [Profiles -> BOOLEAN]
  /\ edited \in [Profiles -> BOOLEAN]

Browser(p) == pc[p] \in {"spawning", "attaching", "running"}

(* A profile that has required a proxy since its launch began has no browser *)
(* on a direct connection, whatever was assigned, updated or deleted         *)
(* meanwhile (the fail-closed gate of proxies/service.ts).                   *)
RequiredIsNeverDirect ==
  \A p \in Profiles : Browser(p) /\ held[p] => gate[p].endpoint # NoProxy

(* A browser talks to the endpoint whose health its own launch checked, and  *)
(* under the WebRTC policy that goes with it, even if the proxy is moved or  *)
(* another one is assigned while the check waits.                            *)
ProxiedAsChecked ==
  \A p \in Profiles : Browser(p) =>
    /\ gate[p].endpoint = checked[p]
    /\ policy[p] = IF gate[p].endpoint = NoProxy THEN "default" ELSE "proxied_only"

(* Every assignment names a proxy that exists, so that getAssignedProxy never*)
(* takes an assigned profile for one without a proxy.                        *)
AssignedExist == \A p \in Profiles : assigned[p] # NoProxy => Exists(assigned[p])

(* Unless the proxy was edited during its launch, a running browser whose    *)
(* proxy wants credentials has the handler that supplies that proxy's ("must *)
(* not leave a browser running that would send traffic unauthenticated",     *)
(* profiles/manager.ts).                                                     *)
UneditedIsAuthenticated ==
  \A p \in Profiles :
    pc[p] = "running" /\ ~edited[p] => (handler[p] # NoProxy <=> gate[p].cred = "vault")

(* While the vault file is readable by others nobody uses it: no launch      *)
(* passes the gate on one of its secrets, and nothing is written to it.      *)
LooseVaultIsNotUsed ==
  [][vaultFile = "loose" =>
       /\ vaultFile' \in {"loose", "ok"} /\ secrets' = secrets
       /\ \A p \in Profiles :
            pc[p] = "idle" /\ pc'[p] = "checking" => gate'[p].cred # "vault"]_vars
=============================================================================
