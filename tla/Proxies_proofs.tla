--------------------------- MODULE Proxies_proofs ---------------------------
(* Proxies, from the launch that puts them on the command line to the        *)
(* connection that answers for them.                                         *)
(*                                                                           *)
(* Of ProxyLaunch: what holds of every launch, whatever the number of        *)
(* profiles and proxies, and whatever changes while it waits.                *)
(*                                                                           *)
(* Of CdpSession: what holds of the connections to a browser, whatever the   *)
(* number of requests, challenges and frames in one 'data' event.  The two   *)
(* properties of the handler's requests rest on FlightInv: a request the     *)
(* browser holds has one event in the inbox or one answer in the outbox and  *)
(* never both, an event or an answer on its way is for a request still in    *)
(* the state that raised it, and a challenge on its way names whoever asked  *)
(* last.  That a chunk's events are answered each once, in whatever chunks   *)
(* the inbox is cut, is EventsAreFrames.                                     *)
EXTENDS ProxyLaunch, CdpSession,
        FiniteSetTheorems, SequenceTheorems, WellFoundedInduction, TLAPS

(* ---------------------------------------------------------------- launches *)

\* A launch that waits for its health check has a proxy's record, and no
\* handler is there before the browser is.
GateOK ==
  \A p \in Profiles :
    /\ pc[p] = "checking" => gate[p].endpoint \in Endpoints
    /\ pc[p] \in {"idle", "checking", "spawning"} => handler[p] = NoProxy

\* As long as nobody edits them, the rows are those the gate read: it let no
\* plain credentials pass, and the handler is that of the same proxy.
UneditedOK ==
  \A p \in Profiles : ~edited[p] =>
    /\ pc[p] \in {"checking", "spawning"} => gate[p] = AssignedProxy(p)
    /\ pc[p] = "attaching" => gate[p].cred = "vault" /\ handler[p] # NoProxy
    /\ pc[p] = "running" => (handler[p] # NoProxy <=> gate[p].cred = "vault")

\* `checked` and the flags agree, for a direct launch because both are NoProxy.
CheckedOK == \A p \in Profiles : pc[p] \in {"idle", "checking"} => checked[p] = NoProxy

\* Between the truncation and the write the file is neither whole nor loose.
WriterOK == writer = "truncated" => vaultFile = "corrupt"

LaunchInv ==
  /\ TypeOK
  /\ WriterOK
  /\ AssignedExist
  /\ GateOK
  /\ CheckedOK
  /\ RequiredIsNeverDirect
  /\ ProxiedAsChecked
  /\ UneditedOK

\* Every step keeps the types.
LEMMA TypeStep ==
  ASSUME TypeOK, [Next]_vars
  PROVE  TypeOK'
<1>0. CASE UNCHANGED vars
  BY <1>0 DEF TypeOK, PCs, Launching, Records, Absent, vars, store, vault, launch
<1>1. ASSUME NEW x \in Proxies, NEW record \in Records, CreateProxy(x, record)
      PROVE  TypeOK'
  BY <1>1 DEF CreateProxy, Exists, TypeOK, PCs, Launching, Records, Absent, store, vault, launch
<1>2. ASSUME NEW x \in Proxies, NEW record \in Records, UpdateProxy(x, record)
      PROVE  TypeOK'
  BY <1>2 DEF UpdateProxy, Exists, Edit, UsersOf, TypeOK, PCs, Launching, Records, Absent, store, vault, launch
<1>3. ASSUME NEW x \in Proxies, DeleteProxy(x)
      PROVE  TypeOK'
  BY <1>3 DEF DeleteProxy, Exists, UsersOf, TypeOK, PCs, Launching, Records, Absent, store, vault, launch
<1>4. ASSUME NEW p \in Profiles, NEW x \in Proxies, AssignProxy(p, x)
      PROVE  TypeOK'
  BY <1>4 DEF AssignProxy, Exists, Edit, TypeOK, PCs, Launching, Records, Absent, store, vault, launch
<1>5. ASSUME NEW p \in Profiles, NEW value \in BOOLEAN, SetProxyRequired(p, value)
      PROVE  TypeOK'
  BY <1>5 DEF SetProxyRequired, TypeOK, PCs, Launching, Records, Absent, store, vault, launch
<1>6. ASSUME NEW p \in Profiles, UnassignProxy(p)
      PROVE  TypeOK'
  BY <1>6 DEF UnassignProxy, Edit, TypeOK, PCs, Launching, Records, Absent, store, vault, launch
<1>7. ASSUME NEW p \in Profiles, BeginLaunch(p)
      PROVE  TypeOK'
  BY <1>7 DEF BeginLaunch, Gate, AssignedProxy, TypeOK, PCs, Launching, Records, Absent, store, vault, launch
<1>8. ASSUME NEW p \in Profiles, HealthCheckPasses(p)
      PROVE  TypeOK'
  BY <1>8 DEF HealthCheckPasses, Flags, TypeOK, PCs, Launching, Records, Absent, store, vault, launch
<1>9. ASSUME NEW p \in Profiles, LaunchFails(p)
      PROVE  TypeOK'
  BY <1>9 DEF LaunchFails, Dropped, TypeOK, PCs, Launching, Records, Absent, store, vault, launch
<1>10. ASSUME NEW p \in Profiles, BrowserStarts(p)
      PROVE  TypeOK'
  BY <1>10 DEF BrowserStarts, AssignedProxy, TypeOK, PCs, Launching, Records, Absent, store, vault, launch
<1>11. ASSUME NEW p \in Profiles, BrowserIsAborted(p)
      PROVE  TypeOK'
  BY <1>11 DEF BrowserIsAborted, Dropped, TypeOK, PCs, Launching, Records, Absent, store, vault, launch
<1>12. ASSUME NEW p \in Profiles, HandlerAttaches(p)
      PROVE  TypeOK'
  BY <1>12 DEF HandlerAttaches, TypeOK, PCs, Launching, Records, Absent, store, vault, launch
<1>13. ASSUME NEW p \in Profiles, BrowserEnds(p)
      PROVE  TypeOK'
  BY <1>13 DEF BrowserEnds, Dropped, TypeOK, PCs, Launching, Records, Absent, store, vault, launch
<1>14. ASSUME NEW p \in Profiles, AskReadiness(p)
      PROVE  TypeOK'
  BY <1>14 DEF AskReadiness, TypeOK, PCs, Launching, Records, Absent, store, vault, launch
<1>15. ASSUME NEW p \in Profiles, ReadinessChecked(p)
      PROVE  TypeOK'
  BY <1>15 DEF ReadinessChecked, TypeOK, PCs, Launching, Records, Absent, store, vault, launch
<1>16. CASE WriterReads
  BY <1>16 DEF WriterReads, TypeOK, PCs, Launching, Records, Absent, store, vault, launch
<1>17. CASE WriterTruncates
  BY <1>17 DEF WriterTruncates, TypeOK, PCs, Launching, Records, Absent, store, vault, launch
<1>18. CASE WriterFills
  BY <1>18 DEF WriterFills, TypeOK, PCs, Launching, Records, Absent, store, vault, launch
<1>19. CASE WriterDies
  BY <1>19 DEF WriterDies, TypeOK, PCs, Launching, Records, Absent, store, vault, launch
<1>20. CASE Chmod
  BY <1>20 DEF Chmod, TypeOK, PCs, Launching, Records, Absent, store, vault, launch
<1> QED
  BY <1>0, <1>1, <1>2, <1>3, <1>4, <1>5, <1>6, <1>7, <1>8, <1>9, <1>10, <1>11, <1>12, <1>13, <1>14, <1>15, <1>16, <1>17, <1>18, <1>19, <1>20 DEF Next

\* A proxy that is assigned is not deleted.
LEMMA AssignedStep ==
  ASSUME TypeOK, AssignedExist, [Next]_vars
  PROVE  AssignedExist'
<1>0. CASE UNCHANGED vars
  BY <1>0 DEF TypeOK, AssignedExist, Exists, Records, Absent, vars, store, vault, launch
<1>1. ASSUME NEW x \in Proxies, NEW record \in Records, CreateProxy(x, record)
      PROVE  AssignedExist'
  BY <1>1, ProxyAssumption DEF CreateProxy, Exists, TypeOK, AssignedExist, Exists, Records, Absent, store, vault, launch
<1>2. ASSUME NEW x \in Proxies, NEW record \in Records, UpdateProxy(x, record)
      PROVE  AssignedExist'
  BY <1>2, ProxyAssumption DEF UpdateProxy, Exists, Edit, UsersOf, TypeOK, AssignedExist, Exists, Records, Absent, store, vault, launch
<1>3. ASSUME NEW x \in Proxies, DeleteProxy(x)
      PROVE  AssignedExist'
  BY <1>3, ProxyAssumption DEF DeleteProxy, Exists, UsersOf, TypeOK, AssignedExist, Exists, Records, Absent, store, vault, launch
<1>4. ASSUME NEW p \in Profiles, NEW x \in Proxies, AssignProxy(p, x)
      PROVE  AssignedExist'
  BY <1>4, ProxyAssumption DEF AssignProxy, Exists, Edit, TypeOK, AssignedExist, Exists, Records, Absent, store, vault, launch
<1>5. ASSUME NEW p \in Profiles, NEW value \in BOOLEAN, SetProxyRequired(p, value)
      PROVE  AssignedExist'
  BY <1>5, ProxyAssumption DEF SetProxyRequired, TypeOK, AssignedExist, Exists, Records, Absent, store, vault, launch
<1>6. ASSUME NEW p \in Profiles, UnassignProxy(p)
      PROVE  AssignedExist'
  BY <1>6, ProxyAssumption DEF UnassignProxy, Edit, TypeOK, AssignedExist, Exists, Records, Absent, store, vault, launch
<1>7. ASSUME NEW p \in Profiles, BeginLaunch(p)
      PROVE  AssignedExist'
  BY <1>7, ProxyAssumption DEF BeginLaunch, Gate, AssignedProxy, TypeOK, AssignedExist, Exists, Records, Absent, store, vault, launch
<1>8. ASSUME NEW p \in Profiles, HealthCheckPasses(p)
      PROVE  AssignedExist'
  BY <1>8, ProxyAssumption DEF HealthCheckPasses, Flags, TypeOK, AssignedExist, Exists, Records, Absent, store, vault, launch
<1>9. ASSUME NEW p \in Profiles, LaunchFails(p)
      PROVE  AssignedExist'
  BY <1>9, ProxyAssumption DEF LaunchFails, Dropped, TypeOK, AssignedExist, Exists, Records, Absent, store, vault, launch
<1>10. ASSUME NEW p \in Profiles, BrowserStarts(p)
      PROVE  AssignedExist'
  BY <1>10, ProxyAssumption DEF BrowserStarts, AssignedProxy, TypeOK, AssignedExist, Exists, Records, Absent, store, vault, launch
<1>11. ASSUME NEW p \in Profiles, BrowserIsAborted(p)
      PROVE  AssignedExist'
  BY <1>11, ProxyAssumption DEF BrowserIsAborted, Dropped, TypeOK, AssignedExist, Exists, Records, Absent, store, vault, launch
<1>12. ASSUME NEW p \in Profiles, HandlerAttaches(p)
      PROVE  AssignedExist'
  BY <1>12, ProxyAssumption DEF HandlerAttaches, TypeOK, AssignedExist, Exists, Records, Absent, store, vault, launch
<1>13. ASSUME NEW p \in Profiles, BrowserEnds(p)
      PROVE  AssignedExist'
  BY <1>13, ProxyAssumption DEF BrowserEnds, Dropped, TypeOK, AssignedExist, Exists, Records, Absent, store, vault, launch
<1>14. ASSUME NEW p \in Profiles, AskReadiness(p)
      PROVE  AssignedExist'
  BY <1>14, ProxyAssumption DEF AskReadiness, TypeOK, AssignedExist, Exists, Records, Absent, store, vault, launch
<1>15. ASSUME NEW p \in Profiles, ReadinessChecked(p)
      PROVE  AssignedExist'
  BY <1>15, ProxyAssumption DEF ReadinessChecked, TypeOK, AssignedExist, Exists, Records, Absent, store, vault, launch
<1>16. CASE WriterReads
  BY <1>16, ProxyAssumption DEF WriterReads, TypeOK, AssignedExist, Exists, Records, Absent, store, vault, launch
<1>17. CASE WriterTruncates
  BY <1>17, ProxyAssumption DEF WriterTruncates, TypeOK, AssignedExist, Exists, Records, Absent, store, vault, launch
<1>18. CASE WriterFills
  BY <1>18, ProxyAssumption DEF WriterFills, TypeOK, AssignedExist, Exists, Records, Absent, store, vault, launch
<1>19. CASE WriterDies
  BY <1>19, ProxyAssumption DEF WriterDies, TypeOK, AssignedExist, Exists, Records, Absent, store, vault, launch
<1>20. CASE Chmod
  BY <1>20, ProxyAssumption DEF Chmod, TypeOK, AssignedExist, Exists, Records, Absent, store, vault, launch
<1> QED
  BY <1>0, <1>1, <1>2, <1>3, <1>4, <1>5, <1>6, <1>7, <1>8, <1>9, <1>10, <1>11, <1>12, <1>13, <1>14, <1>15, <1>16, <1>17, <1>18, <1>19, <1>20 DEF Next

\* The gate lets a record through only if there is one.
LEMMA GateStep ==
  ASSUME TypeOK, AssignedExist, GateOK, [Next]_vars
  PROVE  GateOK'
<1>0. CASE UNCHANGED vars
  BY <1>0 DEF TypeOK, PCs, Launching, Records, Absent, AssignedExist, Exists, GateOK, vars, store, vault, launch
<1>1. ASSUME NEW x \in Proxies, NEW record \in Records, CreateProxy(x, record)
      PROVE  GateOK'
  BY <1>1, ProxyAssumption DEF CreateProxy, Exists, TypeOK, PCs, Launching, Records, Absent, AssignedExist, Exists, GateOK, store, vault, launch
<1>2. ASSUME NEW x \in Proxies, NEW record \in Records, UpdateProxy(x, record)
      PROVE  GateOK'
  BY <1>2, ProxyAssumption DEF UpdateProxy, Exists, Edit, UsersOf, TypeOK, PCs, Launching, Records, Absent, AssignedExist, Exists, GateOK, store, vault, launch
<1>3. ASSUME NEW x \in Proxies, DeleteProxy(x)
      PROVE  GateOK'
  BY <1>3, ProxyAssumption DEF DeleteProxy, Exists, UsersOf, TypeOK, PCs, Launching, Records, Absent, AssignedExist, Exists, GateOK, store, vault, launch
<1>4. ASSUME NEW p \in Profiles, NEW x \in Proxies, AssignProxy(p, x)
      PROVE  GateOK'
  BY <1>4, ProxyAssumption DEF AssignProxy, Exists, Edit, TypeOK, PCs, Launching, Records, Absent, AssignedExist, Exists, GateOK, store, vault, launch
<1>5. ASSUME NEW p \in Profiles, NEW value \in BOOLEAN, SetProxyRequired(p, value)
      PROVE  GateOK'
  BY <1>5, ProxyAssumption DEF SetProxyRequired, TypeOK, PCs, Launching, Records, Absent, AssignedExist, Exists, GateOK, store, vault, launch
<1>6. ASSUME NEW p \in Profiles, UnassignProxy(p)
      PROVE  GateOK'
  BY <1>6, ProxyAssumption DEF UnassignProxy, Edit, TypeOK, PCs, Launching, Records, Absent, AssignedExist, Exists, GateOK, store, vault, launch
<1>7. ASSUME NEW p \in Profiles, BeginLaunch(p)
      PROVE  GateOK'
  BY <1>7, ProxyAssumption DEF BeginLaunch, Gate, AssignedProxy, TypeOK, PCs, Launching, Records, Absent, AssignedExist, Exists, GateOK, store, vault, launch
<1>8. ASSUME NEW p \in Profiles, HealthCheckPasses(p)
      PROVE  GateOK'
  BY <1>8, ProxyAssumption DEF HealthCheckPasses, Flags, TypeOK, PCs, Launching, Records, Absent, AssignedExist, Exists, GateOK, store, vault, launch
<1>9. ASSUME NEW p \in Profiles, LaunchFails(p)
      PROVE  GateOK'
  BY <1>9, ProxyAssumption DEF LaunchFails, Dropped, TypeOK, PCs, Launching, Records, Absent, AssignedExist, Exists, GateOK, store, vault, launch
<1>10. ASSUME NEW p \in Profiles, BrowserStarts(p)
      PROVE  GateOK'
  BY <1>10, ProxyAssumption DEF BrowserStarts, AssignedProxy, TypeOK, PCs, Launching, Records, Absent, AssignedExist, Exists, GateOK, store, vault, launch
<1>11. ASSUME NEW p \in Profiles, BrowserIsAborted(p)
      PROVE  GateOK'
  BY <1>11, ProxyAssumption DEF BrowserIsAborted, Dropped, TypeOK, PCs, Launching, Records, Absent, AssignedExist, Exists, GateOK, store, vault, launch
<1>12. ASSUME NEW p \in Profiles, HandlerAttaches(p)
      PROVE  GateOK'
  BY <1>12, ProxyAssumption DEF HandlerAttaches, TypeOK, PCs, Launching, Records, Absent, AssignedExist, Exists, GateOK, store, vault, launch
<1>13. ASSUME NEW p \in Profiles, BrowserEnds(p)
      PROVE  GateOK'
  BY <1>13, ProxyAssumption DEF BrowserEnds, Dropped, TypeOK, PCs, Launching, Records, Absent, AssignedExist, Exists, GateOK, store, vault, launch
<1>14. ASSUME NEW p \in Profiles, AskReadiness(p)
      PROVE  GateOK'
  BY <1>14, ProxyAssumption DEF AskReadiness, TypeOK, PCs, Launching, Records, Absent, AssignedExist, Exists, GateOK, store, vault, launch
<1>15. ASSUME NEW p \in Profiles, ReadinessChecked(p)
      PROVE  GateOK'
  BY <1>15, ProxyAssumption DEF ReadinessChecked, TypeOK, PCs, Launching, Records, Absent, AssignedExist, Exists, GateOK, store, vault, launch
<1>16. CASE WriterReads
  BY <1>16, ProxyAssumption DEF WriterReads, TypeOK, PCs, Launching, Records, Absent, AssignedExist, Exists, GateOK, store, vault, launch
<1>17. CASE WriterTruncates
  BY <1>17, ProxyAssumption DEF WriterTruncates, TypeOK, PCs, Launching, Records, Absent, AssignedExist, Exists, GateOK, store, vault, launch
<1>18. CASE WriterFills
  BY <1>18, ProxyAssumption DEF WriterFills, TypeOK, PCs, Launching, Records, Absent, AssignedExist, Exists, GateOK, store, vault, launch
<1>19. CASE WriterDies
  BY <1>19, ProxyAssumption DEF WriterDies, TypeOK, PCs, Launching, Records, Absent, AssignedExist, Exists, GateOK, store, vault, launch
<1>20. CASE Chmod
  BY <1>20, ProxyAssumption DEF Chmod, TypeOK, PCs, Launching, Records, Absent, AssignedExist, Exists, GateOK, store, vault, launch
<1> QED
  BY <1>0, <1>1, <1>2, <1>3, <1>4, <1>5, <1>6, <1>7, <1>8, <1>9, <1>10, <1>11, <1>12, <1>13, <1>14, <1>15, <1>16, <1>17, <1>18, <1>19, <1>20 DEF Next

\* Only the writer touches a file it has truncated.
LEMMA WriterStep ==
  ASSUME TypeOK, WriterOK, [Next]_vars
  PROVE  WriterOK'
<1>0. CASE UNCHANGED vars
  BY <1>0 DEF WriterOK, vars, store, vault, launch
<1>1. ASSUME NEW x \in Proxies, NEW record \in Records, CreateProxy(x, record)
      PROVE  WriterOK'
  BY <1>1 DEF CreateProxy, Exists, WriterOK, store, vault, launch
<1>2. ASSUME NEW x \in Proxies, NEW record \in Records, UpdateProxy(x, record)
      PROVE  WriterOK'
  BY <1>2 DEF UpdateProxy, Exists, Edit, UsersOf, WriterOK, store, vault, launch
<1>3. ASSUME NEW x \in Proxies, DeleteProxy(x)
      PROVE  WriterOK'
  BY <1>3 DEF DeleteProxy, Exists, UsersOf, WriterOK, store, vault, launch
<1>4. ASSUME NEW p \in Profiles, NEW x \in Proxies, AssignProxy(p, x)
      PROVE  WriterOK'
  BY <1>4 DEF AssignProxy, Exists, Edit, WriterOK, store, vault, launch
<1>5. ASSUME NEW p \in Profiles, NEW value \in BOOLEAN, SetProxyRequired(p, value)
      PROVE  WriterOK'
  BY <1>5 DEF SetProxyRequired, WriterOK, store, vault, launch
<1>6. ASSUME NEW p \in Profiles, UnassignProxy(p)
      PROVE  WriterOK'
  BY <1>6 DEF UnassignProxy, Edit, WriterOK, store, vault, launch
<1>7. ASSUME NEW p \in Profiles, BeginLaunch(p)
      PROVE  WriterOK'
  BY <1>7 DEF BeginLaunch, Gate, AssignedProxy, WriterOK, store, vault, launch
<1>8. ASSUME NEW p \in Profiles, HealthCheckPasses(p)
      PROVE  WriterOK'
  BY <1>8 DEF HealthCheckPasses, Flags, WriterOK, store, vault, launch
<1>9. ASSUME NEW p \in Profiles, LaunchFails(p)
      PROVE  WriterOK'
  BY <1>9 DEF LaunchFails, Dropped, WriterOK, store, vault, launch
<1>10. ASSUME NEW p \in Profiles, BrowserStarts(p)
      PROVE  WriterOK'
  BY <1>10 DEF BrowserStarts, AssignedProxy, WriterOK, store, vault, launch
<1>11. ASSUME NEW p \in Profiles, BrowserIsAborted(p)
      PROVE  WriterOK'
  BY <1>11 DEF BrowserIsAborted, Dropped, WriterOK, store, vault, launch
<1>12. ASSUME NEW p \in Profiles, HandlerAttaches(p)
      PROVE  WriterOK'
  BY <1>12 DEF HandlerAttaches, WriterOK, store, vault, launch
<1>13. ASSUME NEW p \in Profiles, BrowserEnds(p)
      PROVE  WriterOK'
  BY <1>13 DEF BrowserEnds, Dropped, WriterOK, store, vault, launch
<1>14. ASSUME NEW p \in Profiles, AskReadiness(p)
      PROVE  WriterOK'
  BY <1>14 DEF AskReadiness, WriterOK, store, vault, launch
<1>15. ASSUME NEW p \in Profiles, ReadinessChecked(p)
      PROVE  WriterOK'
  BY <1>15 DEF ReadinessChecked, WriterOK, store, vault, launch
<1>16. CASE WriterReads
  BY <1>16 DEF WriterReads, WriterOK, store, vault, launch
<1>17. CASE WriterTruncates
  BY <1>17 DEF WriterTruncates, WriterOK, store, vault, launch
<1>18. CASE WriterFills
  BY <1>18 DEF WriterFills, WriterOK, store, vault, launch
<1>19. CASE WriterDies
  BY <1>19 DEF WriterDies, WriterOK, store, vault, launch
<1>20. CASE Chmod
  BY <1>20 DEF Chmod, WriterOK, store, vault, launch
<1> QED
  BY <1>0, <1>1, <1>2, <1>3, <1>4, <1>5, <1>6, <1>7, <1>8, <1>9, <1>10, <1>11, <1>12, <1>13, <1>14, <1>15, <1>16, <1>17, <1>18, <1>19, <1>20 DEF Next

\* The check is forgotten with the launch.
LEMMA CheckedStep ==
  ASSUME TypeOK, CheckedOK, [Next]_vars
  PROVE  CheckedOK'
<1>0. CASE UNCHANGED vars
  BY <1>0 DEF TypeOK, PCs, Launching, Records, Absent, CheckedOK, vars, store, vault, launch
<1>1. ASSUME NEW x \in Proxies, NEW record \in Records, CreateProxy(x, record)
      PROVE  CheckedOK'
  BY <1>1 DEF CreateProxy, Exists, TypeOK, PCs, Launching, Records, Absent, CheckedOK, store, vault, launch
<1>2. ASSUME NEW x \in Proxies, NEW record \in Records, UpdateProxy(x, record)
      PROVE  CheckedOK'
  BY <1>2 DEF UpdateProxy, Exists, Edit, UsersOf, TypeOK, PCs, Launching, Records, Absent, CheckedOK, store, vault, launch
<1>3. ASSUME NEW x \in Proxies, DeleteProxy(x)
      PROVE  CheckedOK'
  BY <1>3 DEF DeleteProxy, Exists, UsersOf, TypeOK, PCs, Launching, Records, Absent, CheckedOK, store, vault, launch
<1>4. ASSUME NEW p \in Profiles, NEW x \in Proxies, AssignProxy(p, x)
      PROVE  CheckedOK'
  BY <1>4 DEF AssignProxy, Exists, Edit, TypeOK, PCs, Launching, Records, Absent, CheckedOK, store, vault, launch
<1>5. ASSUME NEW p \in Profiles, NEW value \in BOOLEAN, SetProxyRequired(p, value)
      PROVE  CheckedOK'
  BY <1>5 DEF SetProxyRequired, TypeOK, PCs, Launching, Records, Absent, CheckedOK, store, vault, launch
<1>6. ASSUME NEW p \in Profiles, UnassignProxy(p)
      PROVE  CheckedOK'
  BY <1>6 DEF UnassignProxy, Edit, TypeOK, PCs, Launching, Records, Absent, CheckedOK, store, vault, launch
<1>7. ASSUME NEW p \in Profiles, BeginLaunch(p)
      PROVE  CheckedOK'
  BY <1>7 DEF BeginLaunch, Gate, AssignedProxy, TypeOK, PCs, Launching, Records, Absent, CheckedOK, store, vault, launch
<1>8. ASSUME NEW p \in Profiles, HealthCheckPasses(p)
      PROVE  CheckedOK'
  BY <1>8 DEF HealthCheckPasses, Flags, TypeOK, PCs, Launching, Records, Absent, CheckedOK, store, vault, launch
<1>9. ASSUME NEW p \in Profiles, LaunchFails(p)
      PROVE  CheckedOK'
  BY <1>9 DEF LaunchFails, Dropped, TypeOK, PCs, Launching, Records, Absent, CheckedOK, store, vault, launch
<1>10. ASSUME NEW p \in Profiles, BrowserStarts(p)
      PROVE  CheckedOK'
  BY <1>10 DEF BrowserStarts, AssignedProxy, TypeOK, PCs, Launching, Records, Absent, CheckedOK, store, vault, launch
<1>11. ASSUME NEW p \in Profiles, BrowserIsAborted(p)
      PROVE  CheckedOK'
  BY <1>11 DEF BrowserIsAborted, Dropped, TypeOK, PCs, Launching, Records, Absent, CheckedOK, store, vault, launch
<1>12. ASSUME NEW p \in Profiles, HandlerAttaches(p)
      PROVE  CheckedOK'
  BY <1>12 DEF HandlerAttaches, TypeOK, PCs, Launching, Records, Absent, CheckedOK, store, vault, launch
<1>13. ASSUME NEW p \in Profiles, BrowserEnds(p)
      PROVE  CheckedOK'
  BY <1>13 DEF BrowserEnds, Dropped, TypeOK, PCs, Launching, Records, Absent, CheckedOK, store, vault, launch
<1>14. ASSUME NEW p \in Profiles, AskReadiness(p)
      PROVE  CheckedOK'
  BY <1>14 DEF AskReadiness, TypeOK, PCs, Launching, Records, Absent, CheckedOK, store, vault, launch
<1>15. ASSUME NEW p \in Profiles, ReadinessChecked(p)
      PROVE  CheckedOK'
  BY <1>15 DEF ReadinessChecked, TypeOK, PCs, Launching, Records, Absent, CheckedOK, store, vault, launch
<1>16. CASE WriterReads
  BY <1>16 DEF WriterReads, TypeOK, PCs, Launching, Records, Absent, CheckedOK, store, vault, launch
<1>17. CASE WriterTruncates
  BY <1>17 DEF WriterTruncates, TypeOK, PCs, Launching, Records, Absent, CheckedOK, store, vault, launch
<1>18. CASE WriterFills
  BY <1>18 DEF WriterFills, TypeOK, PCs, Launching, Records, Absent, CheckedOK, store, vault, launch
<1>19. CASE WriterDies
  BY <1>19 DEF WriterDies, TypeOK, PCs, Launching, Records, Absent, CheckedOK, store, vault, launch
<1>20. CASE Chmod
  BY <1>20 DEF Chmod, TypeOK, PCs, Launching, Records, Absent, CheckedOK, store, vault, launch
<1> QED
  BY <1>0, <1>1, <1>2, <1>3, <1>4, <1>5, <1>6, <1>7, <1>8, <1>9, <1>10, <1>11, <1>12, <1>13, <1>14, <1>15, <1>16, <1>17, <1>18, <1>19, <1>20 DEF Next

\* The gate refuses a required profile, and the check a direct connection.
LEMMA RequiredStep ==
  ASSUME TypeOK, GateOK, RequiredIsNeverDirect, [Next]_vars
  PROVE  RequiredIsNeverDirect'
<1>0. CASE UNCHANGED vars
  BY <1>0 DEF TypeOK, PCs, Launching, Records, Absent, GateOK, RequiredIsNeverDirect, Browser, vars, store, vault, launch
<1>1. ASSUME NEW x \in Proxies, NEW record \in Records, CreateProxy(x, record)
      PROVE  RequiredIsNeverDirect'
  BY <1>1, ProxyAssumption DEF CreateProxy, Exists, TypeOK, PCs, Launching, Records, Absent, GateOK, RequiredIsNeverDirect, Browser, store, vault, launch
<1>2. ASSUME NEW x \in Proxies, NEW record \in Records, UpdateProxy(x, record)
      PROVE  RequiredIsNeverDirect'
  BY <1>2, ProxyAssumption DEF UpdateProxy, Exists, Edit, UsersOf, TypeOK, PCs, Launching, Records, Absent, GateOK, RequiredIsNeverDirect, Browser, store, vault, launch
<1>3. ASSUME NEW x \in Proxies, DeleteProxy(x)
      PROVE  RequiredIsNeverDirect'
  BY <1>3, ProxyAssumption DEF DeleteProxy, Exists, UsersOf, TypeOK, PCs, Launching, Records, Absent, GateOK, RequiredIsNeverDirect, Browser, store, vault, launch
<1>4. ASSUME NEW p \in Profiles, NEW x \in Proxies, AssignProxy(p, x)
      PROVE  RequiredIsNeverDirect'
  BY <1>4, ProxyAssumption DEF AssignProxy, Exists, Edit, TypeOK, PCs, Launching, Records, Absent, GateOK, RequiredIsNeverDirect, Browser, store, vault, launch
<1>5. ASSUME NEW p \in Profiles, NEW value \in BOOLEAN, SetProxyRequired(p, value)
      PROVE  RequiredIsNeverDirect'
  BY <1>5, ProxyAssumption DEF SetProxyRequired, TypeOK, PCs, Launching, Records, Absent, GateOK, RequiredIsNeverDirect, Browser, store, vault, launch
<1>6. ASSUME NEW p \in Profiles, UnassignProxy(p)
      PROVE  RequiredIsNeverDirect'
  BY <1>6, ProxyAssumption DEF UnassignProxy, Edit, TypeOK, PCs, Launching, Records, Absent, GateOK, RequiredIsNeverDirect, Browser, store, vault, launch
<1>7. ASSUME NEW p \in Profiles, BeginLaunch(p)
      PROVE  RequiredIsNeverDirect'
  BY <1>7, ProxyAssumption DEF BeginLaunch, Gate, AssignedProxy, TypeOK, PCs, Launching, Records, Absent, GateOK, RequiredIsNeverDirect, Browser, store, vault, launch
<1>8. ASSUME NEW p \in Profiles, HealthCheckPasses(p)
      PROVE  RequiredIsNeverDirect'
  BY <1>8, ProxyAssumption DEF HealthCheckPasses, Flags, TypeOK, PCs, Launching, Records, Absent, GateOK, RequiredIsNeverDirect, Browser, store, vault, launch
<1>9. ASSUME NEW p \in Profiles, LaunchFails(p)
      PROVE  RequiredIsNeverDirect'
  BY <1>9, ProxyAssumption DEF LaunchFails, Dropped, TypeOK, PCs, Launching, Records, Absent, GateOK, RequiredIsNeverDirect, Browser, store, vault, launch
<1>10. ASSUME NEW p \in Profiles, BrowserStarts(p)
      PROVE  RequiredIsNeverDirect'
  BY <1>10, ProxyAssumption DEF BrowserStarts, AssignedProxy, TypeOK, PCs, Launching, Records, Absent, GateOK, RequiredIsNeverDirect, Browser, store, vault, launch
<1>11. ASSUME NEW p \in Profiles, BrowserIsAborted(p)
      PROVE  RequiredIsNeverDirect'
  BY <1>11, ProxyAssumption DEF BrowserIsAborted, Dropped, TypeOK, PCs, Launching, Records, Absent, GateOK, RequiredIsNeverDirect, Browser, store, vault, launch
<1>12. ASSUME NEW p \in Profiles, HandlerAttaches(p)
      PROVE  RequiredIsNeverDirect'
  BY <1>12, ProxyAssumption DEF HandlerAttaches, TypeOK, PCs, Launching, Records, Absent, GateOK, RequiredIsNeverDirect, Browser, store, vault, launch
<1>13. ASSUME NEW p \in Profiles, BrowserEnds(p)
      PROVE  RequiredIsNeverDirect'
  BY <1>13, ProxyAssumption DEF BrowserEnds, Dropped, TypeOK, PCs, Launching, Records, Absent, GateOK, RequiredIsNeverDirect, Browser, store, vault, launch
<1>14. ASSUME NEW p \in Profiles, AskReadiness(p)
      PROVE  RequiredIsNeverDirect'
  BY <1>14, ProxyAssumption DEF AskReadiness, TypeOK, PCs, Launching, Records, Absent, GateOK, RequiredIsNeverDirect, Browser, store, vault, launch
<1>15. ASSUME NEW p \in Profiles, ReadinessChecked(p)
      PROVE  RequiredIsNeverDirect'
  BY <1>15, ProxyAssumption DEF ReadinessChecked, TypeOK, PCs, Launching, Records, Absent, GateOK, RequiredIsNeverDirect, Browser, store, vault, launch
<1>16. CASE WriterReads
  BY <1>16, ProxyAssumption DEF WriterReads, TypeOK, PCs, Launching, Records, Absent, GateOK, RequiredIsNeverDirect, Browser, store, vault, launch
<1>17. CASE WriterTruncates
  BY <1>17, ProxyAssumption DEF WriterTruncates, TypeOK, PCs, Launching, Records, Absent, GateOK, RequiredIsNeverDirect, Browser, store, vault, launch
<1>18. CASE WriterFills
  BY <1>18, ProxyAssumption DEF WriterFills, TypeOK, PCs, Launching, Records, Absent, GateOK, RequiredIsNeverDirect, Browser, store, vault, launch
<1>19. CASE WriterDies
  BY <1>19, ProxyAssumption DEF WriterDies, TypeOK, PCs, Launching, Records, Absent, GateOK, RequiredIsNeverDirect, Browser, store, vault, launch
<1>20. CASE Chmod
  BY <1>20, ProxyAssumption DEF Chmod, TypeOK, PCs, Launching, Records, Absent, GateOK, RequiredIsNeverDirect, Browser, store, vault, launch
<1> QED
  BY <1>0, <1>1, <1>2, <1>3, <1>4, <1>5, <1>6, <1>7, <1>8, <1>9, <1>10, <1>11, <1>12, <1>13, <1>14, <1>15, <1>16, <1>17, <1>18, <1>19, <1>20 DEF Next

\* Flags, check and policy come from one record.
LEMMA ProxiedStep ==
  ASSUME TypeOK, GateOK, CheckedOK, ProxiedAsChecked, [Next]_vars
  PROVE  ProxiedAsChecked'
<1>0. CASE UNCHANGED vars
  BY <1>0 DEF TypeOK, PCs, Launching, Records, Absent, GateOK, CheckedOK, ProxiedAsChecked, Browser, vars, store, vault, launch
<1>1. ASSUME NEW x \in Proxies, NEW record \in Records, CreateProxy(x, record)
      PROVE  ProxiedAsChecked'
  BY <1>1, ProxyAssumption DEF CreateProxy, Exists, TypeOK, PCs, Launching, Records, Absent, GateOK, CheckedOK, ProxiedAsChecked, Browser, store, vault, launch
<1>2. ASSUME NEW x \in Proxies, NEW record \in Records, UpdateProxy(x, record)
      PROVE  ProxiedAsChecked'
  BY <1>2, ProxyAssumption DEF UpdateProxy, Exists, Edit, UsersOf, TypeOK, PCs, Launching, Records, Absent, GateOK, CheckedOK, ProxiedAsChecked, Browser, store, vault, launch
<1>3. ASSUME NEW x \in Proxies, DeleteProxy(x)
      PROVE  ProxiedAsChecked'
  BY <1>3, ProxyAssumption DEF DeleteProxy, Exists, UsersOf, TypeOK, PCs, Launching, Records, Absent, GateOK, CheckedOK, ProxiedAsChecked, Browser, store, vault, launch
<1>4. ASSUME NEW p \in Profiles, NEW x \in Proxies, AssignProxy(p, x)
      PROVE  ProxiedAsChecked'
  BY <1>4, ProxyAssumption DEF AssignProxy, Exists, Edit, TypeOK, PCs, Launching, Records, Absent, GateOK, CheckedOK, ProxiedAsChecked, Browser, store, vault, launch
<1>5. ASSUME NEW p \in Profiles, NEW value \in BOOLEAN, SetProxyRequired(p, value)
      PROVE  ProxiedAsChecked'
  BY <1>5, ProxyAssumption DEF SetProxyRequired, TypeOK, PCs, Launching, Records, Absent, GateOK, CheckedOK, ProxiedAsChecked, Browser, store, vault, launch
<1>6. ASSUME NEW p \in Profiles, UnassignProxy(p)
      PROVE  ProxiedAsChecked'
  BY <1>6, ProxyAssumption DEF UnassignProxy, Edit, TypeOK, PCs, Launching, Records, Absent, GateOK, CheckedOK, ProxiedAsChecked, Browser, store, vault, launch
<1>7. ASSUME NEW p \in Profiles, BeginLaunch(p)
      PROVE  ProxiedAsChecked'
  BY <1>7, ProxyAssumption DEF BeginLaunch, Gate, AssignedProxy, TypeOK, PCs, Launching, Records, Absent, GateOK, CheckedOK, ProxiedAsChecked, Browser, store, vault, launch
<1>8. ASSUME NEW p \in Profiles, HealthCheckPasses(p)
      PROVE  ProxiedAsChecked'
  BY <1>8, ProxyAssumption DEF HealthCheckPasses, Flags, TypeOK, PCs, Launching, Records, Absent, GateOK, CheckedOK, ProxiedAsChecked, Browser, store, vault, launch
<1>9. ASSUME NEW p \in Profiles, LaunchFails(p)
      PROVE  ProxiedAsChecked'
  BY <1>9, ProxyAssumption DEF LaunchFails, Dropped, TypeOK, PCs, Launching, Records, Absent, GateOK, CheckedOK, ProxiedAsChecked, Browser, store, vault, launch
<1>10. ASSUME NEW p \in Profiles, BrowserStarts(p)
      PROVE  ProxiedAsChecked'
  BY <1>10, ProxyAssumption DEF BrowserStarts, AssignedProxy, TypeOK, PCs, Launching, Records, Absent, GateOK, CheckedOK, ProxiedAsChecked, Browser, store, vault, launch
<1>11. ASSUME NEW p \in Profiles, BrowserIsAborted(p)
      PROVE  ProxiedAsChecked'
  BY <1>11, ProxyAssumption DEF BrowserIsAborted, Dropped, TypeOK, PCs, Launching, Records, Absent, GateOK, CheckedOK, ProxiedAsChecked, Browser, store, vault, launch
<1>12. ASSUME NEW p \in Profiles, HandlerAttaches(p)
      PROVE  ProxiedAsChecked'
  BY <1>12, ProxyAssumption DEF HandlerAttaches, TypeOK, PCs, Launching, Records, Absent, GateOK, CheckedOK, ProxiedAsChecked, Browser, store, vault, launch
<1>13. ASSUME NEW p \in Profiles, BrowserEnds(p)
      PROVE  ProxiedAsChecked'
  BY <1>13, ProxyAssumption DEF BrowserEnds, Dropped, TypeOK, PCs, Launching, Records, Absent, GateOK, CheckedOK, ProxiedAsChecked, Browser, store, vault, launch
<1>14. ASSUME NEW p \in Profiles, AskReadiness(p)
      PROVE  ProxiedAsChecked'
  BY <1>14, ProxyAssumption DEF AskReadiness, TypeOK, PCs, Launching, Records, Absent, GateOK, CheckedOK, ProxiedAsChecked, Browser, store, vault, launch
<1>15. ASSUME NEW p \in Profiles, ReadinessChecked(p)
      PROVE  ProxiedAsChecked'
  BY <1>15, ProxyAssumption DEF ReadinessChecked, TypeOK, PCs, Launching, Records, Absent, GateOK, CheckedOK, ProxiedAsChecked, Browser, store, vault, launch
<1>16. CASE WriterReads
  BY <1>16, ProxyAssumption DEF WriterReads, TypeOK, PCs, Launching, Records, Absent, GateOK, CheckedOK, ProxiedAsChecked, Browser, store, vault, launch
<1>17. CASE WriterTruncates
  BY <1>17, ProxyAssumption DEF WriterTruncates, TypeOK, PCs, Launching, Records, Absent, GateOK, CheckedOK, ProxiedAsChecked, Browser, store, vault, launch
<1>18. CASE WriterFills
  BY <1>18, ProxyAssumption DEF WriterFills, TypeOK, PCs, Launching, Records, Absent, GateOK, CheckedOK, ProxiedAsChecked, Browser, store, vault, launch
<1>19. CASE WriterDies
  BY <1>19, ProxyAssumption DEF WriterDies, TypeOK, PCs, Launching, Records, Absent, GateOK, CheckedOK, ProxiedAsChecked, Browser, store, vault, launch
<1>20. CASE Chmod
  BY <1>20, ProxyAssumption DEF Chmod, TypeOK, PCs, Launching, Records, Absent, GateOK, CheckedOK, ProxiedAsChecked, Browser, store, vault, launch
<1> QED
  BY <1>0, <1>1, <1>2, <1>3, <1>4, <1>5, <1>6, <1>7, <1>8, <1>9, <1>10, <1>11, <1>12, <1>13, <1>14, <1>15, <1>16, <1>17, <1>18, <1>19, <1>20 DEF Next

\* What the gate read stays until somebody edits it.
LEMMA UneditedStep ==
  ASSUME TypeOK, AssignedExist, GateOK, UneditedOK, [Next]_vars
  PROVE  UneditedOK'
<1>0. CASE UNCHANGED vars
  BY <1>0 DEF TypeOK, PCs, Launching, Records, Absent, AssignedExist, Exists, GateOK, UneditedOK, AssignedProxy, vars, store, vault, launch
<1>1. ASSUME NEW x \in Proxies, NEW record \in Records, CreateProxy(x, record)
      PROVE  UneditedOK'
  BY <1>1, ProxyAssumption DEF CreateProxy, Exists, TypeOK, PCs, Launching, Records, Absent, AssignedExist, Exists, GateOK, UneditedOK, AssignedProxy, store, vault, launch
<1>2. ASSUME NEW x \in Proxies, NEW record \in Records, UpdateProxy(x, record)
      PROVE  UneditedOK'
  BY <1>2, ProxyAssumption DEF UpdateProxy, Exists, Edit, UsersOf, TypeOK, PCs, Launching, Records, Absent, AssignedExist, Exists, GateOK, UneditedOK, AssignedProxy, store, vault, launch
<1>3. ASSUME NEW x \in Proxies, DeleteProxy(x)
      PROVE  UneditedOK'
  BY <1>3, ProxyAssumption DEF DeleteProxy, Exists, UsersOf, TypeOK, PCs, Launching, Records, Absent, AssignedExist, Exists, GateOK, UneditedOK, AssignedProxy, store, vault, launch
<1>4. ASSUME NEW p \in Profiles, NEW x \in Proxies, AssignProxy(p, x)
      PROVE  UneditedOK'
  BY <1>4, ProxyAssumption DEF AssignProxy, Exists, Edit, TypeOK, PCs, Launching, Records, Absent, AssignedExist, Exists, GateOK, UneditedOK, AssignedProxy, store, vault, launch
<1>5. ASSUME NEW p \in Profiles, NEW value \in BOOLEAN, SetProxyRequired(p, value)
      PROVE  UneditedOK'
  BY <1>5, ProxyAssumption DEF SetProxyRequired, TypeOK, PCs, Launching, Records, Absent, AssignedExist, Exists, GateOK, UneditedOK, AssignedProxy, store, vault, launch
<1>6. ASSUME NEW p \in Profiles, UnassignProxy(p)
      PROVE  UneditedOK'
  BY <1>6, ProxyAssumption DEF UnassignProxy, Edit, TypeOK, PCs, Launching, Records, Absent, AssignedExist, Exists, GateOK, UneditedOK, AssignedProxy, store, vault, launch
<1>7. ASSUME NEW p \in Profiles, BeginLaunch(p)
      PROVE  UneditedOK'
  BY <1>7, ProxyAssumption DEF BeginLaunch, Gate, AssignedProxy, TypeOK, PCs, Launching, Records, Absent, AssignedExist, Exists, GateOK, UneditedOK, AssignedProxy, store, vault, launch
<1>8. ASSUME NEW p \in Profiles, HealthCheckPasses(p)
      PROVE  UneditedOK'
  BY <1>8, ProxyAssumption DEF HealthCheckPasses, Flags, TypeOK, PCs, Launching, Records, Absent, AssignedExist, Exists, GateOK, UneditedOK, AssignedProxy, store, vault, launch
<1>9. ASSUME NEW p \in Profiles, LaunchFails(p)
      PROVE  UneditedOK'
  BY <1>9, ProxyAssumption DEF LaunchFails, Dropped, TypeOK, PCs, Launching, Records, Absent, AssignedExist, Exists, GateOK, UneditedOK, AssignedProxy, store, vault, launch
<1>10. ASSUME NEW p \in Profiles, BrowserStarts(p)
      PROVE  UneditedOK'
  BY <1>10, ProxyAssumption DEF BrowserStarts, AssignedProxy, TypeOK, PCs, Launching, Records, Absent, AssignedExist, Exists, GateOK, UneditedOK, AssignedProxy, store, vault, launch
<1>11. ASSUME NEW p \in Profiles, BrowserIsAborted(p)
      PROVE  UneditedOK'
  BY <1>11, ProxyAssumption DEF BrowserIsAborted, Dropped, TypeOK, PCs, Launching, Records, Absent, AssignedExist, Exists, GateOK, UneditedOK, AssignedProxy, store, vault, launch
<1>12. ASSUME NEW p \in Profiles, HandlerAttaches(p)
      PROVE  UneditedOK'
  BY <1>12, ProxyAssumption DEF HandlerAttaches, TypeOK, PCs, Launching, Records, Absent, AssignedExist, Exists, GateOK, UneditedOK, AssignedProxy, store, vault, launch
<1>13. ASSUME NEW p \in Profiles, BrowserEnds(p)
      PROVE  UneditedOK'
  BY <1>13, ProxyAssumption DEF BrowserEnds, Dropped, TypeOK, PCs, Launching, Records, Absent, AssignedExist, Exists, GateOK, UneditedOK, AssignedProxy, store, vault, launch
<1>14. ASSUME NEW p \in Profiles, AskReadiness(p)
      PROVE  UneditedOK'
  BY <1>14, ProxyAssumption DEF AskReadiness, TypeOK, PCs, Launching, Records, Absent, AssignedExist, Exists, GateOK, UneditedOK, AssignedProxy, store, vault, launch
<1>15. ASSUME NEW p \in Profiles, ReadinessChecked(p)
      PROVE  UneditedOK'
  BY <1>15, ProxyAssumption DEF ReadinessChecked, TypeOK, PCs, Launching, Records, Absent, AssignedExist, Exists, GateOK, UneditedOK, AssignedProxy, store, vault, launch
<1>16. CASE WriterReads
  BY <1>16, ProxyAssumption DEF WriterReads, TypeOK, PCs, Launching, Records, Absent, AssignedExist, Exists, GateOK, UneditedOK, AssignedProxy, store, vault, launch
<1>17. CASE WriterTruncates
  BY <1>17, ProxyAssumption DEF WriterTruncates, TypeOK, PCs, Launching, Records, Absent, AssignedExist, Exists, GateOK, UneditedOK, AssignedProxy, store, vault, launch
<1>18. CASE WriterFills
  BY <1>18, ProxyAssumption DEF WriterFills, TypeOK, PCs, Launching, Records, Absent, AssignedExist, Exists, GateOK, UneditedOK, AssignedProxy, store, vault, launch
<1>19. CASE WriterDies
  BY <1>19, ProxyAssumption DEF WriterDies, TypeOK, PCs, Launching, Records, Absent, AssignedExist, Exists, GateOK, UneditedOK, AssignedProxy, store, vault, launch
<1>20. CASE Chmod
  BY <1>20, ProxyAssumption DEF Chmod, TypeOK, PCs, Launching, Records, Absent, AssignedExist, Exists, GateOK, UneditedOK, AssignedProxy, store, vault, launch
<1> QED
  BY <1>0, <1>1, <1>2, <1>3, <1>4, <1>5, <1>6, <1>7, <1>8, <1>9, <1>10, <1>11, <1>12, <1>13, <1>14, <1>15, <1>16, <1>17, <1>18, <1>19, <1>20 DEF Next

LEMMA Initially == Init => LaunchInv
  BY DEF Init, LaunchInv, WriterOK, TypeOK, AssignedExist, GateOK, CheckedOK, RequiredIsNeverDirect,
         ProxiedAsChecked, UneditedOK, Browser, PCs, Launching, Records, Absent

LEMMA Inductive == LaunchInv /\ [Next]_vars => LaunchInv'
  BY TypeStep, WriterStep, AssignedStep, GateStep, CheckedStep, RequiredStep, ProxiedStep, UneditedStep DEF LaunchInv

\* The inductive invariant of the gate.
THEOREM LaunchInvariant == Spec => []LaunchInv
  BY Initially, Inductive, PTL DEF Spec

\* Every variable keeps its type.
THEOREM LaunchTypes == Spec => []TypeOK
<1>1. LaunchInv => TypeOK
  BY DEF LaunchInv
<1> QED
  BY <1>1, LaunchInvariant, PTL

\* No assignment is left without its proxy.
THEOREM AssignmentsHaveProxies == Spec => []AssignedExist
<1>1. LaunchInv => AssignedExist
  BY DEF LaunchInv
<1> QED
  BY <1>1, LaunchInvariant, PTL

\* A profile that has required a proxy since its launch began is never on a
\* direct connection.
THEOREM RequiredNeverGoesDirect == Spec => []RequiredIsNeverDirect
<1>1. LaunchInv => RequiredIsNeverDirect
  BY DEF LaunchInv
<1> QED
  BY <1>1, LaunchInvariant, PTL

\* The browser talks to the endpoint whose health its launch checked.
THEOREM FlagsAreThoseChecked == Spec => []ProxiedAsChecked
<1>1. LaunchInv => ProxiedAsChecked
  BY DEF LaunchInv
<1> QED
  BY <1>1, LaunchInvariant, PTL

\* A launch nobody interferes with has the handler its proxy needs.
THEOREM UneditedLaunchesAuthenticate == Spec => []UneditedIsAuthenticated
<1>1. LaunchInv => UneditedIsAuthenticated
  BY DEF LaunchInv, UneditedOK, UneditedIsAuthenticated
<1> QED
  BY <1>1, LaunchInvariant, PTL

\* What a step may do while the vault file is loose.
LooseUnused ==
  vaultFile = "loose" =>
    /\ vaultFile' \in {"loose", "ok"} /\ secrets' = secrets
    /\ \A p \in Profiles :
         pc[p] = "idle" /\ pc'[p] = "checking" => gate'[p].cred # "vault"

\* No step reads or writes a loose vault.
LEMMA LooseStep ==
  ASSUME TypeOK, WriterOK, [Next]_vars
  PROVE  LooseUnused
<1>0. CASE UNCHANGED vars
  BY <1>0 DEF LooseUnused, WriterOK, TypeOK, PCs, Launching, vars, store, vault, launch
<1>1. ASSUME NEW x \in Proxies, NEW record \in Records, CreateProxy(x, record)
      PROVE  LooseUnused
  BY <1>1 DEF CreateProxy, Exists, LooseUnused, WriterOK, TypeOK, PCs, Launching, store, vault, launch
<1>2. ASSUME NEW x \in Proxies, NEW record \in Records, UpdateProxy(x, record)
      PROVE  LooseUnused
  BY <1>2 DEF UpdateProxy, Exists, Edit, UsersOf, LooseUnused, WriterOK, TypeOK, PCs, Launching, store, vault, launch
<1>3. ASSUME NEW x \in Proxies, DeleteProxy(x)
      PROVE  LooseUnused
  BY <1>3 DEF DeleteProxy, Exists, UsersOf, LooseUnused, WriterOK, TypeOK, PCs, Launching, store, vault, launch
<1>4. ASSUME NEW p \in Profiles, NEW x \in Proxies, AssignProxy(p, x)
      PROVE  LooseUnused
  BY <1>4 DEF AssignProxy, Exists, Edit, LooseUnused, WriterOK, TypeOK, PCs, Launching, store, vault, launch
<1>5. ASSUME NEW p \in Profiles, NEW value \in BOOLEAN, SetProxyRequired(p, value)
      PROVE  LooseUnused
  BY <1>5 DEF SetProxyRequired, LooseUnused, WriterOK, TypeOK, PCs, Launching, store, vault, launch
<1>6. ASSUME NEW p \in Profiles, UnassignProxy(p)
      PROVE  LooseUnused
  BY <1>6 DEF UnassignProxy, Edit, LooseUnused, WriterOK, TypeOK, PCs, Launching, store, vault, launch
<1>7. ASSUME NEW p \in Profiles, BeginLaunch(p)
      PROVE  LooseUnused
  BY <1>7 DEF BeginLaunch, Gate, AssignedProxy, Readable, LooseUnused, TypeOK, PCs, Launching, store, vault, launch
<1>8. ASSUME NEW p \in Profiles, HealthCheckPasses(p)
      PROVE  LooseUnused
  BY <1>8 DEF HealthCheckPasses, Flags, LooseUnused, WriterOK, TypeOK, PCs, Launching, store, vault, launch
<1>9. ASSUME NEW p \in Profiles, LaunchFails(p)
      PROVE  LooseUnused
  BY <1>9 DEF LaunchFails, Dropped, LooseUnused, WriterOK, TypeOK, PCs, Launching, store, vault, launch
<1>10. ASSUME NEW p \in Profiles, BrowserStarts(p)
      PROVE  LooseUnused
  BY <1>10 DEF BrowserStarts, AssignedProxy, LooseUnused, WriterOK, TypeOK, PCs, Launching, store, vault, launch
<1>11. ASSUME NEW p \in Profiles, BrowserIsAborted(p)
      PROVE  LooseUnused
  BY <1>11 DEF BrowserIsAborted, Dropped, LooseUnused, WriterOK, TypeOK, PCs, Launching, store, vault, launch
<1>12. ASSUME NEW p \in Profiles, HandlerAttaches(p)
      PROVE  LooseUnused
  BY <1>12 DEF HandlerAttaches, LooseUnused, WriterOK, TypeOK, PCs, Launching, store, vault, launch
<1>13. ASSUME NEW p \in Profiles, BrowserEnds(p)
      PROVE  LooseUnused
  BY <1>13 DEF BrowserEnds, Dropped, LooseUnused, WriterOK, TypeOK, PCs, Launching, store, vault, launch
<1>14. ASSUME NEW p \in Profiles, AskReadiness(p)
      PROVE  LooseUnused
  BY <1>14 DEF AskReadiness, LooseUnused, WriterOK, TypeOK, PCs, Launching, store, vault, launch
<1>15. ASSUME NEW p \in Profiles, ReadinessChecked(p)
      PROVE  LooseUnused
  BY <1>15 DEF ReadinessChecked, LooseUnused, WriterOK, TypeOK, PCs, Launching, store, vault, launch
<1>16. CASE WriterReads
  BY <1>16 DEF WriterReads, LooseUnused, WriterOK, TypeOK, PCs, Launching, store, vault, launch
<1>17. CASE WriterTruncates
  BY <1>17 DEF WriterTruncates, LooseUnused, WriterOK, TypeOK, PCs, Launching, store, vault, launch
<1>18. CASE WriterFills
  BY <1>18 DEF WriterFills, LooseUnused, WriterOK, TypeOK, PCs, Launching, store, vault, launch
<1>19. CASE WriterDies
  BY <1>19 DEF WriterDies, LooseUnused, WriterOK, TypeOK, PCs, Launching, store, vault, launch
<1>20. CASE Chmod
  BY <1>20 DEF Chmod, LooseUnused, WriterOK, TypeOK, PCs, Launching, store, vault, launch
<1> QED
  BY <1>0, <1>1, <1>2, <1>3, <1>4, <1>5, <1>6, <1>7, <1>8, <1>9, <1>10, <1>11, <1>12, <1>13, <1>14, <1>15, <1>16, <1>17, <1>18, <1>19, <1>20 DEF Next

\* Nobody uses a vault that others may read.
THEOREM LooseVaultStaysUnused == Spec => LooseVaultIsNotUsed
<1>1. LaunchInv /\ [Next]_vars =>
        [vaultFile = "loose" =>
           /\ vaultFile' \in {"loose", "ok"} /\ secrets' = secrets
           /\ \A p \in Profiles :
                pc[p] = "idle" /\ pc'[p] = "checking" => gate'[p].cred # "vault"]_vars
  BY LooseStep DEF LaunchInv, LooseUnused
<1> QED
  BY <1>1, LaunchInvariant, PTL DEF Spec, LooseVaultIsNotUsed

(* ------------------------------------------------------------- connections *)

(* ------------------------------------------------- frames and their events *)

(* A set of positions can be gone through from the first to the last.        *)
LEMMA Enumeration ==
  ASSUME NEW N \in Nat, NEW S \in SUBSET (1..N)
  PROVE  \E f \in [1..Cardinality(S) -> S] : \A m, n \in DOMAIN f : m < n => f[m] < f[n]
<1> DEFINE Listed(T) == \E f \in [1..Cardinality(T) -> T] :
             \A m, n \in DOMAIN f : m < n => f[m] < f[n]
           bad == {k \in Nat : \E T \in SUBSET (1..k) : ~ Listed(T)}
<1>1. SUFFICES ASSUME bad # {} PROVE FALSE
  OBVIOUS
<1>2. PICK k \in bad : \A m \in bad : ~ (<<m, k>> \in OpToRel(<, Nat))
  <2>1. bad \subseteq Nat
    OBVIOUS
  <2> HIDE DEF bad
  <2> QED
    BY <1>1, <2>1, WFMin, NatLessThanWellFounded, Zenon
<1>3. PICK T \in SUBSET (1..k) : ~ Listed(T)
  OBVIOUS
<1>4. k \in Nat /\ k # 0
  <2>1. ASSUME k = 0 PROVE Listed(T)
    <3>1. T = {}
      BY <2>1
    <3>2. Cardinality(T) = 0
      BY <3>1, FS_EmptySet
    <3>3. PICK f \in [1..0 -> T] : TRUE
      <4>1. [m \in 1..0 |-> 0] \in [1..0 -> T]
        OBVIOUS
      <4> QED
        BY <4>1
    <3>4. DOMAIN f = {}
      BY <3>3
    <3>5. \A m, n \in DOMAIN f : m < n => f[m] < f[n]
      BY <3>4
    <3> QED
      BY <3>2, <3>5
  <2> QED
    BY <2>1, <1>3
<1>5. k - 1 \notin bad
  <2>1. k - 1 \in Nat /\ k - 1 < k
    BY <1>4
  <2>2. <<k - 1, k>> \in OpToRel(<, Nat)
    BY <1>4, <2>1 DEF OpToRel
  <2> HIDE DEF bad
  <2> QED
    BY <1>2, <2>2
<1>6. \A U \in SUBSET (1..(k - 1)) : Listed(U)
  BY <1>4, <1>5
<1> DEFINE rest == T \ {k}
<1>7. rest \in SUBSET (1..(k - 1)) /\ IsFiniteSet(T) /\ k \in T
  <2>1. rest \in SUBSET (1..(k - 1))
    BY <1>4
  <2>2. IsFiniteSet(1..k)
    BY <1>4, FS_Interval
  <2>3. IsFiniteSet(T)
    BY <2>2, FS_Subset
  <2>4. ASSUME k \notin T PROVE FALSE
    <3>1. T \in SUBSET (1..(k - 1))
      BY <2>1, <2>4
    <3> QED
      BY <1>3, <1>6, <3>1
  <2> QED
    BY <2>1, <2>3, <2>4
<1> DEFINE C == Cardinality(T)
<1>8. C \in Nat /\ Cardinality(rest) = C - 1 /\ C - 1 \in Nat
  <2>1. IsFiniteSet(rest) /\ Cardinality(rest) \in Nat
    BY <1>7, FS_Subset, FS_CardinalityType
  <2> QED
    BY <1>7, <2>1, FS_RemoveElement, FS_CardinalityType
<1>9. PICK q \in [1..(C - 1) -> rest] : \A m, n \in DOMAIN q : m < n => q[m] < q[n]
  <2>1. Listed(rest)
    BY <1>6, <1>7
  <2> QED
    BY <2>1, <1>8
<1> DEFINE p == [n \in 1..C |-> IF n = C THEN k ELSE q[n]]
<1>10. p \in [1..C -> T]
  <2> SUFFICES ASSUME NEW n \in 1..C, n # C PROVE q[n] \in T
    BY <1>7
  <2>1. n \in 1..(C - 1)
    BY <1>8
  <2> QED
    BY <2>1, <1>9
<1>11. ASSUME NEW m \in 1..C, NEW n \in 1..C, m < n
       PROVE  p[m] < p[n]
  <2>1. m \in 1..(C - 1) /\ m # C
    BY <1>8, <1>11
  <2>2. p[m] = q[m] /\ q[m] \in 1..(k - 1)
    BY <2>1, <1>7, <1>9
  <2>3. CASE n = C
    BY <2>2, <2>3, <1>4
  <2>4. CASE n # C
    <3>1. n \in 1..(C - 1) /\ p[n] = q[n]
      BY <2>4, <1>8
    <3> QED
      BY <2>1, <2>2, <3>1, <1>9, <1>11
  <2> QED
    BY <2>3, <2>4
<1>12. Listed(T)
  <2> HIDE DEF p
  <2>1. DOMAIN p = 1..C
    BY <1>10
  <2> QED
    BY <1>10, <1>11, <2>1
<1> QED
  BY <1>3, <1>12

(* The events of a chunk are its event frames, each of them once.            *)
LEMMA EventsAreFrames ==
  ASSUME NEW chunk \in Seq(Messages)
  PROVE  /\ Events(chunk) \in Seq(Messages)
         /\ \E at \in [1..Len(Events(chunk)) -> EventsAt(chunk)] :
              /\ \A k \in 1..Len(Events(chunk)) : Events(chunk)[k] = chunk[at[k]]
              /\ \A j, k \in 1..Len(Events(chunk)) : at[j] = at[k] => j = k
              /\ \A i \in EventsAt(chunk) : \E k \in 1..Len(Events(chunk)) : at[k] = i
<1> DEFINE S == EventsAt(chunk)
           C == Cardinality(S)
           at == InOrder(S)
<1>1. Len(chunk) \in Nat /\ S \in SUBSET (1..Len(chunk))
  BY DEF EventsAt
<1>2. IsFiniteSet(S) /\ C \in Nat
  <2>1. IsFiniteSet(1..Len(chunk))
    BY <1>1, FS_Interval
  <2> QED
    BY <1>1, <2>1, FS_Subset, FS_CardinalityType
<1>3. \E f \in [1..C -> S] : \A m, n \in DOMAIN f : m < n => f[m] < f[n]
  BY <1>1, Enumeration
<1>4. at \in [1..C -> S] /\ \A m, n \in DOMAIN at : m < n => at[m] < at[n]
  <2> HIDE DEF S
  <2> QED
    BY <1>3 DEF InOrder
<1> HIDE DEF at
<1>5. \A m, n \in 1..C : at[m] = at[n] => m = n
  <2> SUFFICES ASSUME NEW m \in 1..C, NEW n \in 1..C, at[m] = at[n], m # n
               PROVE  FALSE
    OBVIOUS
  <2>1. at[m] \in Nat /\ at[n] \in Nat /\ DOMAIN at = 1..C
    BY <1>1, <1>4
  <2>2. m < n \/ n < m
    OBVIOUS
  <2>3. at[m] < at[n] \/ at[n] < at[m]
    BY <1>4, <2>1, <2>2
  <2> QED
    BY <2>1, <2>3
<1>6. \A i \in S : \E k \in 1..C : at[k] = i
  <2>1. at \in Injection(1..C, S)
    BY <1>4, <1>5 DEF Injection, IsInjective
  <2>2. IsFiniteSet(1..C) /\ Cardinality(1..C) = C
    BY <1>2, FS_Interval
  <2>3. at \in Surjection(1..C, S)
    <3> HIDE DEF S
    <3> QED
      BY <1>2, <2>1, <2>2, FS_Injection
  <2> QED
    BY <2>3 DEF Surjection
<1>7. Events(chunk) = [k \in 1..C |-> chunk[at[k]]]
  BY DEF Events, at
<1>8. Events(chunk) \in [1..C -> Messages]
  <2> SUFFICES ASSUME NEW k \in 1..C PROVE chunk[at[k]] \in Messages
    BY <1>7
  <2>1. at[k] \in 1..Len(chunk)
    BY <1>1, <1>4
  <2> QED
    BY <2>1
<1>9. Events(chunk) \in Seq(Messages) /\ Len(Events(chunk)) = C
  BY <1>2, <1>8
<1> QED
  BY <1>4, <1>5, <1>6, <1>7, <1>9

(* ------------------------------------------------------------------ types *)

LEMMA RepliesAreCommands ==
  ASSUME NEW m \in Messages, IsEvent(m)
  PROVE  AnswerTo(m) \in Commands
<1>1. CASE m \in [kind: {"paused"}, request: Requests]
  BY <1>1 DEF AnswerTo, Continue, Commands
<1>2. CASE m \in [kind: {"challenge"}, request: Requests, source: {"proxy", "origin"}]
  <2>1. m.kind = "challenge" /\ m.request \in Requests
    BY <1>2
  <2>2. \A w \in {"credentials", "default"} :
          Answer(m.request, w) \in
            [kind: {"answer"}, request: Requests, response: {"credentials", "default"}]
    BY <2>1 DEF Answer
  <2> QED
    BY <2>1, <2>2 DEF AnswerTo, Commands
<1> QED
  BY <1>1, <1>2 DEF Messages, IsEvent

(* The frames of a chunk of n, and those that stay in the inbox.             *)
Taken(in, n) == SubSeq(in, 1, n)
Left(in, n) == SubSeq(in, n + 1, Len(in))

LEMMA ChunkTypes ==
  ASSUME NEW in \in Seq(Messages), NEW n \in 1..Len(in)
  PROVE  /\ Taken(in, n) \in Seq(Messages)
         /\ Len(Taken(in, n)) = n
         /\ \A i \in 1..n : Taken(in, n)[i] = in[i]
         /\ Left(in, n) \in Seq(Messages)
         /\ Len(Left(in, n)) = Len(in) - n
         /\ \A i \in 1..(Len(in) - n) : Left(in, n)[i] = in[n + i]
<1>1. Len(in) \in Nat /\ \A i \in 1..Len(in) : in[i] \in Messages
  OBVIOUS
<1>2. /\ SubSeq(in, 1, n) \in Seq(Messages)
      /\ Len(SubSeq(in, 1, n)) = IF 1 <= n THEN n - 1 + 1 ELSE 0
      /\ \A i \in 1..(n - 1 + 1) : SubSeq(in, 1, n)[i] = in[1 + i - 1]
  <2>1. 1 \in Int /\ n \in Int /\ \A i \in 1..n : in[i] \in Messages
    BY <1>1
  <2> QED
    BY <2>1, SubSeqProperties
<1>3. /\ SubSeq(in, n + 1, Len(in)) \in Seq(Messages)
      /\ Len(SubSeq(in, n + 1, Len(in))) =
           IF n + 1 <= Len(in) THEN Len(in) - (n + 1) + 1 ELSE 0
      /\ \A i \in 1..(Len(in) - (n + 1) + 1) :
           SubSeq(in, n + 1, Len(in))[i] = in[(n + 1) + i - 1]
  <2>1. n + 1 \in Int /\ Len(in) \in Int /\ \A i \in (n + 1)..Len(in) : in[i] \in Messages
    BY <1>1
  <2> QED
    BY <2>1, SubSeqProperties
<1> QED
  BY <1>1, <1>2, <1>3 DEF Taken, Left

Replies(chunk) == [i \in 1..Len(Events(chunk)) |-> AnswerTo(Events(chunk)[i])]

RequestsIn(chunk) == {Events(chunk)[i].request : i \in 1..Len(Events(chunk))}

LEMMA EventsHaveRequests ==
  ASSUME NEW chunk \in Seq(Messages)
  PROVE  {Events(chunk)[i].request : i \in 1..Len(Events(chunk))} \subseteq Requests
<1>1. PICK at \in [1..Len(Events(chunk)) -> EventsAt(chunk)] :
        \A k \in 1..Len(Events(chunk)) : Events(chunk)[k] = chunk[at[k]]
  BY EventsAreFrames
<1>2. ASSUME NEW k \in 1..Len(Events(chunk))
      PROVE  Events(chunk)[k].request \in Requests
  <2>1. at[k] \in 1..Len(chunk) /\ IsEvent(chunk[at[k]])
    BY <1>1 DEF EventsAt
  <2>2. chunk[at[k]] \in Messages
    BY <2>1
  <2> QED
    BY <1>1, <2>1, <2>2 DEF Messages, IsEvent
<1> QED
  BY <1>2

LEMMA RepliesTypes ==
  ASSUME NEW chunk \in Seq(Messages)
  PROVE  Replies(chunk) \in Seq(Commands) /\ Len(Replies(chunk)) = Len(Events(chunk))
<1>1. PICK at \in [1..Len(Events(chunk)) -> EventsAt(chunk)] :
        \A k \in 1..Len(Events(chunk)) : Events(chunk)[k] = chunk[at[k]]
  BY EventsAreFrames
<1>2. \A k \in 1..Len(Events(chunk)) : AnswerTo(Events(chunk)[k]) \in Commands
  <2> SUFFICES ASSUME NEW k \in 1..Len(Events(chunk))
               PROVE  AnswerTo(Events(chunk)[k]) \in Commands
    OBVIOUS
  <2>1. at[k] \in 1..Len(chunk) /\ IsEvent(chunk[at[k]])
    BY <1>1 DEF EventsAt
  <2> QED
    BY <1>1, <2>1, RepliesAreCommands
<1>3. Len(Events(chunk)) \in Nat
  BY EventsAreFrames
<1> QED
  BY <1>2, <1>3 DEF Replies

(* What a data event does, with its parts named: it takes n frames, which may*)
(* settle the command, one way or the other.                                 *)
Received(s, n, how, settles) ==
  LET chunk == Taken(inbox[s], n) IN
  /\ phase[s] = "open"
  /\ inbox' = [inbox EXCEPT ![s] = Left(inbox[s], n)]
  /\ outbox' = [outbox EXCEPT ![s] =
       outbox[s] \o (IF listening THEN Replies(chunk) ELSE << >>)]
  /\ missed' = IF listening THEN missed
               ELSE missed \cup {Events(chunk)[i].request : i \in 1..Len(Events(chunk))}
  /\ settles =>
       /\ outcome[s] = "none"
       /\ \E i \in 1..n : chunk[i].kind = "response"
       /\ how = IF \E i \in {j \in 1..n : chunk[j].kind = "response"} : chunk[i].ok
                THEN "acked" ELSE "failed"
  /\ outcome' = IF settles THEN [outcome EXCEPT ![s] = how] ELSE outcome
  /\ phase' = IF settles THEN [phase EXCEPT ![s] = PhaseAfter(s, how)] ELSE phase
  /\ listening' = (listening \/ (s = "auth" /\ settles /\ how = "acked"))
  /\ UNCHANGED <<secret, browser, intercepting, req, asker, challenges, page>>

LEMMA ReceiveDoes ==
  ASSUME CdpTypeOK, NEW s \in Sessions, Receive(s)
  PROVE  \E n \in 1..Len(inbox[s]), how \in {"acked", "failed"}, settles \in BOOLEAN :
           Received(s, n, how, settles)
<1>1. PICK n \in 1..Min2(MaxChunk, Len(inbox[s])) :
        LET chunk == SubSeq(inbox[s], 1, n)
            responses == {i \in 1..n : chunk[i].kind = "response"}
            settles == responses # {} /\ outcome[s] = "none"
            how == IF \E i \in responses : chunk[i].ok THEN "acked" ELSE "failed"
            events == Events(chunk)
            replies == IF listening THEN [i \in 1..Len(events) |-> AnswerTo(events[i])] ELSE << >>
        IN /\ phase[s] = "open"
           /\ inbox' = [inbox EXCEPT ![s] = SubSeq(@, n + 1, Len(@))]
           /\ outbox' = [outbox EXCEPT ![s] = @ \o replies]
           /\ missed' = IF listening THEN missed
                        ELSE missed \cup {events[i].request : i \in 1..Len(events)}
           /\ outcome' = IF settles THEN [outcome EXCEPT ![s] = how] ELSE outcome
           /\ phase' = IF settles THEN [phase EXCEPT ![s] = PhaseAfter(s, how)] ELSE phase
           /\ listening' = (listening \/ (s = "auth" /\ settles /\ how = "acked"))
           /\ UNCHANGED <<secret, browser, intercepting, req, asker, challenges, page>>
  BY DEF Receive
<1> USE DEF Taken, Left
<1> DEFINE chunk == Taken(inbox[s], n)
           responses == {i \in 1..n : chunk[i].kind = "response"}
           settles == responses # {} /\ outcome[s] = "none"
           how == IF \E i \in responses : chunk[i].ok THEN "acked" ELSE "failed"
<1>2. n \in 1..Len(inbox[s])
  <2>1. Len(inbox[s]) \in Nat /\ MaxChunk \in Nat
    BY CdpAssumption DEF CdpTypeOK
  <2> QED
    BY <2>1 DEF Min2
<1>3. inbox' = [inbox EXCEPT ![s] = Left(inbox[s], n)]
  BY <1>1
<1>4. outbox' = [outbox EXCEPT ![s] =
        outbox[s] \o (IF listening THEN Replies(chunk) ELSE << >>)]
  BY <1>1 DEF Replies
<1>5. how \in {"acked", "failed"} /\ settles \in BOOLEAN
  OBVIOUS
<1>6. /\ settles => \E i \in 1..n : chunk[i].kind = "response"
      /\ settles => outcome[s] = "none"
  OBVIOUS
<1>7. /\ phase[s] = "open"
      /\ missed' = IF listening THEN missed
                   ELSE missed \cup {Events(chunk)[i].request : i \in 1..Len(Events(chunk))}
      /\ outcome' = IF settles THEN [outcome EXCEPT ![s] = how] ELSE outcome
      /\ phase' = IF settles THEN [phase EXCEPT ![s] = PhaseAfter(s, how)] ELSE phase
      /\ listening' = (listening \/ (s = "auth" /\ settles /\ how = "acked"))
      /\ UNCHANGED <<secret, browser, intercepting, req, asker, challenges, page>>
  BY <1>1
<1>8. Received(s, n, how, settles)
  BY <1>3, <1>4, <1>6, <1>7 DEF Received
<1> HIDE DEF how, settles
<1> QED
  BY <1>2, <1>5, <1>8

LEMMA FrameTypes ==
  /\ \A ok \in BOOLEAN : Response(ok) \in Messages
  /\ \A r \in Requests : Paused(r) \in Messages
  /\ \A r \in Requests, from \in {"proxy", "origin"} : Challenge(r, from) \in Messages
  /\ \A s \in Sessions : Command(s) \in Commands
BY DEF Response, Paused, Challenge, Command, Messages, Commands

(* The client's steps keep the types.                                        *)
LEMMA ClientTypes ==
  ASSUME CdpTypeOK, NEW s \in Sessions,
         \/ Open(s) \/ LookupAnswers(s) \/ TcpConnects(s) \/ HandshakeAnswered(s)
         \/ ConnectFails(s) \/ Receive(s) \/ CommandTimesOut(s) \/ SocketDrops(s)
  PROVE  CdpTypeOK'
<1> USE DEF CdpTypeOK
<1>1. CASE Open(s) \/ LookupAnswers(s) \/ TcpConnects(s) \/ ConnectFails(s)
  BY <1>1 DEF Open, LookupAnswers, TcpConnects, ConnectFails, Phases, Outcomes
<1>2. CASE HandshakeAnswered(s)
  <2>1. Append(outbox[s], Command(s)) \in Seq(Commands)
    BY FrameTypes
  <2> QED
    BY <1>2, <2>1 DEF HandshakeAnswered, Phases
<1>3. CASE CommandTimesOut(s) \/ SocketDrops(s)
  <2>1. Head(DropOrder) = "dropped" /\ << >> \in Seq(Messages)
    BY DEF DropOrder
  <2>2. PhaseAfter(s, "failed") = "closed"
    BY DEF PhaseAfter
  <2>3. CASE CommandTimesOut(s)
    BY <2>2, <2>3 DEF CommandTimesOut, Phases, Outcomes
  <2>4. CASE SocketDrops(s)
    <3>1. inbox' = [inbox EXCEPT ![s] = << >>] /\ phase' = [phase EXCEPT ![s] = "closed"]
      BY <2>4 DEF SocketDrops
    <3>2. \E o \in Outcomes : outcome' = [outcome EXCEPT ![s] = o]
      <4>1. outcome[s] \in Outcomes /\ "dropped" \in Outcomes /\ "failed" \in Outcomes
        BY DEF Outcomes
      <4>2. outcome' = [outcome EXCEPT ![s] =
              IF outcome[s] # "none" THEN outcome[s]
              ELSE IF s = "close" THEN "dropped" ELSE "failed"]
        BY <2>1, <2>4 DEF SocketDrops
      <4> QED
        BY <4>1, <4>2
    <3>3. /\ inbox' \in [Sessions -> Seq(Messages)]
          /\ phase' \in [Sessions -> Phases]
          /\ outcome' \in [Sessions -> Outcomes]
      BY <2>1, <3>1, <3>2 DEF Phases
    <3> QED
      BY <2>4, <3>3 DEF SocketDrops
  <2> QED
    BY <1>3, <2>3, <2>4
<1>4. CASE Receive(s)
  <2>1. PICK n \in 1..Len(inbox[s]), how \in {"acked", "failed"}, settles \in BOOLEAN :
          Received(s, n, how, settles)
    BY <1>4, ReceiveDoes
  <2> DEFINE chunk == Taken(inbox[s], n)
             rest == Left(inbox[s], n)
             replies == IF listening THEN Replies(chunk) ELSE << >>
  <2>2. chunk \in Seq(Messages) /\ rest \in Seq(Messages)
    BY ChunkTypes
  <2>3. replies \in Seq(Commands)
    <3>1. << >> \in Seq(Commands)
      OBVIOUS
    <3> HIDE DEF chunk
    <3> QED
      BY <2>2, <3>1, RepliesTypes
  <2>4. outbox[s] \o replies \in Seq(Commands)
    BY <2>3
  <2>5. inbox' \in [Sessions -> Seq(Messages)] /\ outbox' \in [Sessions -> Seq(Commands)]
    <3>1. inbox' = [inbox EXCEPT ![s] = rest] /\ outbox' = [outbox EXCEPT ![s] = outbox[s] \o replies]
      BY <2>1 DEF Received
    <3> HIDE DEF rest, replies
    <3> QED
      BY <2>2, <2>4, <3>1
  <2>6. missed' \subseteq Requests
    <3>1. chunk \in Seq(Messages)
      BY <2>2
    <3>2. {Events(chunk)[i].request : i \in 1..Len(Events(chunk))} \subseteq Requests
      BY <3>1, EventsHaveRequests
    <3>3. \/ missed' = missed
          \/ missed' = missed \cup {Events(chunk)[i].request : i \in 1..Len(Events(chunk))}
      BY <2>1 DEF Received
    <3> HIDE DEF chunk
    <3> QED
      BY <3>2, <3>3
  <2>7. outcome' \in [Sessions -> Outcomes] /\ phase' \in [Sessions -> Phases]
    <3>1. PhaseAfter(s, how) \in Phases /\ how \in Outcomes
      BY DEF PhaseAfter, Phases, Outcomes
    <3> QED
      BY <2>1, <3>1 DEF Received
  <2>8. listening' \in BOOLEAN
    BY <2>1 DEF Received
  <2>9. UNCHANGED <<secret, browser, intercepting, req, asker, challenges, page>>
    BY <2>1 DEF Received
  <2> QED
    BY <2>5, <2>6, <2>7, <2>8, <2>9
<1> QED
  BY <1>1, <1>2, <1>3, <1>4

(* So do the browser's and the operator's.                                   *)
LEMMA BrowserTypes ==
  ASSUME CdpTypeOK,
         \/ \E s \in Sessions : BrowserMovesPage(s)
         \/ \E r \in Requests : PageRequests(r) \/ Challenged(r) \/ Served(r)
         \/ BrowserEnables \/ BrowserContinues \/ BrowserTakesAnswer \/ BrowserCloses
         \/ BrowserCrashes \/ BrowserDetaches \/ SecretRemoved
  PROVE  CdpTypeOK'
<1> USE DEF CdpTypeOK
<1>1. ASSUME NEW s \in Sessions, Handle(s)
      PROVE  /\ outbox' \in [Sessions -> Seq(Commands)]
             /\ Head(outbox[s]) \in Commands
             /\ UNCHANGED <<phase, outcome, listening, secret, asker, challenges, missed>>
  <2>1. outbox[s] \in Seq(Commands) /\ outbox[s] # << >>
    BY <1>1 DEF Handle
  <2>2. Tail(outbox[s]) \in Seq(Commands) /\ Head(outbox[s]) \in Commands
    BY <2>1
  <2> QED
    BY <1>1, <2>2 DEF Handle
<1>2. ASSUME NEW s \in Sessions, NEW ok \in BOOLEAN, Reply(s, ok)
      PROVE  inbox' \in [Sessions -> Seq(Messages)]
  <2>1. Append(inbox[s], Response(ok)) \in Seq(Messages)
    BY FrameTypes
  <2> QED
    BY <1>2, <2>1 DEF Reply
<1>3. \A s \in {"auth", "close"} : s \in Sessions
  BY DEF Sessions
<1>4. ASSUME NEW s \in Sessions, BrowserMovesPage(s) PROVE CdpTypeOK'
  <2>1. inbox' \in [Sessions -> Seq(Messages)] /\ page' \subseteq {"navigate", "front"}
    BY <1>2, <1>4 DEF BrowserMovesPage
  <2>2. Handle(s) /\ UNCHANGED <<browser, intercepting, req>>
    BY <1>4 DEF BrowserMovesPage
  <2> QED
    BY <1>1, <2>1, <2>2
<1>5. CASE BrowserEnables
  <2>1. inbox' \in [Sessions -> Seq(Messages)] /\ intercepting' \in BOOLEAN
    BY <1>2, <1>3, <1>5 DEF BrowserEnables
  <2>2. Handle("auth") /\ UNCHANGED <<browser, req, page>>
    BY <1>5 DEF BrowserEnables
  <2> QED
    BY <1>1, <1>3, <2>1, <2>2
<1>6. CASE BrowserContinues \/ BrowserTakesAnswer
  <2>1. Handle("auth") /\ UNCHANGED <<inbox, browser, intercepting, page>>
    BY <1>6 DEF BrowserContinues, BrowserTakesAnswer
  <2>2. req' \in [Requests -> RequestStates]
    BY <1>6 DEF BrowserContinues, BrowserTakesAnswer, RequestStates
  <2> QED
    BY <1>1, <1>3, <2>1, <2>2
<1>7. CASE BrowserCloses
  <2>1. inbox' \in [Sessions -> Seq(Messages)]
    BY <1>2, <1>3, <1>7 DEF BrowserCloses
  <2>2. Handle("close") /\ browser' = "gone" /\ UNCHANGED <<intercepting, req, page>>
    BY <1>7 DEF BrowserCloses
  <2> QED
    BY <1>1, <1>3, <2>1, <2>2
<1>8. ASSUME NEW r \in Requests, PageRequests(r) PROVE CdpTypeOK'
  <2>1. Append(inbox["auth"], Paused(r)) \in Seq(Messages)
    BY <1>3, FrameTypes
  <2>2. inbox' \in [Sessions -> Seq(Messages)]
    BY <1>8, <2>1 DEF PageRequests
  <2> QED
    BY <1>8, <2>2 DEF PageRequests, RequestStates
<1>9. ASSUME NEW r \in Requests, Challenged(r) PROVE CdpTypeOK'
  <2>1. PICK from \in {"proxy", "origin"} :
          /\ asker' = [asker EXCEPT ![r] = from]
          /\ inbox' = [inbox EXCEPT !["auth"] =
               IF phase["auth"] = "open" THEN Append(@, Challenge(r, from)) ELSE @]
    BY <1>9 DEF Challenged
  <2>2. Append(inbox["auth"], Challenge(r, from)) \in Seq(Messages)
    BY <1>3, FrameTypes
  <2>3. inbox' \in [Sessions -> Seq(Messages)]
    BY <2>1, <2>2
  <2>4. challenges' \in [Requests -> 0..MaxChallenges]
    BY <1>9, CdpAssumption DEF Challenged
  <2>5. asker' \in [Requests -> {"none", "proxy", "origin"}]
    BY <2>1
  <2> QED
    BY <1>9, <2>3, <2>4, <2>5 DEF Challenged, RequestStates
<1>10. ASSUME NEW r \in Requests, Served(r) PROVE CdpTypeOK'
  BY <1>10 DEF Served, RequestStates
<1>11. CASE BrowserCrashes \/ SecretRemoved
  BY <1>11 DEF BrowserCrashes, SecretRemoved
<1>12. CASE BrowserDetaches
  BY <1>12 DEF BrowserDetaches, RequestStates
<1> QED
  BY <1>4, <1>5, <1>6, <1>7, <1>8, <1>9, <1>10, <1>11, <1>12

LEMMA TypesKept == CdpTypeOK /\ [CdpNext]_cdpVars => CdpTypeOK'
<1> SUFFICES ASSUME CdpTypeOK, [CdpNext]_cdpVars PROVE CdpTypeOK'
  OBVIOUS
<1>1. CASE UNCHANGED cdpVars
  BY <1>1 DEF cdpVars, CdpTypeOK
<1>2. CASE CdpNext
  BY <1>2, ClientTypes, BrowserTypes DEF CdpNext
<1> QED
  BY <1>1, <1>2

(* ---------------------------------------------- what holds a request moves it *)

AtMostOne(S) == \A i, j \in S : i = j

(* At most one event or answer is on its way for a request in a state that   *)
(* only an answer ends, and while the handler is attached and has missed     *)
(* nothing of the request, there is one.                                     *)
OnItsWay(events, answers, now, conn, miss, state) ==
  /\ AtMostOne(events)
  /\ AtMostOne(answers)
  /\ events = {} \/ answers = {}
  /\ events # {} => now = state \/ (conn = "closed" /\ now = "done")
  /\ answers # {} => now = state
  /\ conn = "open" /\ ~ miss /\ now = state => events # {} \/ answers # {}

(* A request is held twice over: until it may go on, and until a challenge   *)
(* is answered.                                                              *)
Legs ==
  {[event |-> "paused", answer |-> "continue", state |-> "paused"],
   [event |-> "challenge", answer |-> "answer", state |-> "challenged"]}

At(q, r, kind) == {i \in 1..Len(q) : q[i].kind = kind /\ q[i].request = r}

Flies(r, leg) ==
  OnItsWay(At(inbox["auth"], r, leg.event), At(outbox["auth"], r, leg.answer),
           req[r], phase["auth"], r \in missed, leg.state)

(* A challenge on its way is the last one of its request, and credentials    *)
(* answer one of the proxy.                                                  *)
AskerIsKnown(r) ==
  /\ \A i \in At(inbox["auth"], r, "challenge") : inbox["auth"][i].source = asker[r]
  /\ \A i \in At(outbox["auth"], r, "answer") :
       outbox["auth"][i].response = "credentials" => asker[r] = "proxy"

(* Before the handler's connection is open, the browser intercepts nothing.  *)
NothingBeforeOpen ==
  phase["auth"] \notin {"open", "closed"} =>
    /\ ~ intercepting
    /\ outbox["auth"] = << >>
    /\ \A r \in Requests : req[r] \in {"idle", "done"}

FlightInv ==
  /\ NothingBeforeOpen
  /\ \A r \in Requests : AskerIsKnown(r) /\ \A leg \in Legs : Flies(r, leg)

CdpInv == CdpTypeOK /\ FlightInv

LEMMA AtAppend ==
  ASSUME NEW M, NEW q \in Seq(M), NEW m, NEW r, NEW kind
  PROVE  At(Append(q, m), r, kind) =
           IF m.kind = kind /\ m.request = r THEN At(q, r, kind) \cup {Len(q) + 1}
           ELSE At(q, r, kind)
<1> DEFINE p == Append(q, m)
<1>1. /\ Len(q) \in Nat /\ Len(p) = Len(q) + 1
      /\ p[Len(q) + 1] = m
      /\ \A i \in 1..Len(q) : p[i] = q[i]
  <2>1. q \in Seq(M \cup {m}) /\ m \in M \cup {m}
    BY SeqMonotonic
  <2> QED
    BY <2>1, AppendProperties
<1> HIDE DEF p
<1>2. \A i : i \in 1..Len(p) <=> i \in 1..Len(q) \/ i = Len(q) + 1
  BY <1>1
<1>3. \A i \in 1..Len(q) : i # Len(q) + 1
  BY <1>1
<1>4. \A i : i \in At(p, r, kind) <=>
               i \in At(q, r, kind) \/ (i = Len(q) + 1 /\ m.kind = kind /\ m.request = r)
  BY <1>1, <1>2, <1>3 DEF At
<1> QED
  BY <1>4 DEF p

TailOf(q, r, kind) ==
  /\ Len(q) \in Nat
  /\ \A i \in At(Tail(q), r, kind) : i \in Nat /\ i + 1 \in At(q, r, kind)
  /\ \A i \in At(q, r, kind) : i \in Nat /\ i # 1 => i - 1 \in At(Tail(q), r, kind)
  /\ \A i \in At(Tail(q), r, kind) : Tail(q)[i] = q[i + 1]
  /\ 1 \in At(q, r, kind) <=> Head(q).kind = kind /\ Head(q).request = r

LEMMA AtTail ==
  ASSUME NEW M, NEW q \in Seq(M), q # << >>, NEW r, NEW kind
  PROVE  TailOf(q, r, kind)
<1>1. /\ Len(q) \in Nat /\ Len(q) >= 1 /\ Tail(q) \in Seq(M)
      /\ Len(Tail(q)) = Len(q) - 1
      /\ \A i \in 1..(Len(q) - 1) : Tail(q)[i] = q[i + 1]
      /\ Head(q) = q[1]
  OBVIOUS
<1> QED
  BY <1>1 DEF At, TailOf

(* An event and the kind of its answer.                                      *)
Answers(e, a) == (e = "paused" /\ a = "continue") \/ (e = "challenge" /\ a = "answer")

LEMMA ReplyOf ==
  ASSUME NEW m \in Messages, IsEvent(m), NEW e, NEW a, Answers(e, a)
  PROVE  /\ AnswerTo(m).kind = a <=> m.kind = e
         /\ AnswerTo(m).request = m.request
BY DEF Messages, IsEvent, Answers, AnswerTo, Continue, Answer

(* A position past the n taken ones is that position before, less n.         *)
RestOf(in, n, r, kind) ==
  /\ \A i \in At(Left(in, n), r, kind) :
       i \in Nat /\ i >= 1 /\ n + i \in At(in, r, kind) /\ Left(in, n)[i] = in[n + i]
  /\ \A i \in At(in, r, kind) : i > n => i - n \in At(Left(in, n), r, kind)

LEMMA AtRest ==
  ASSUME NEW in \in Seq(Messages), NEW n \in 1..Len(in), NEW r, NEW kind
  PROVE  RestOf(in, n, r, kind)
<1> DEFINE rest == Left(in, n)
<1>1. /\ Len(rest) = Len(in) - n /\ Len(in) \in Nat
      /\ \A i \in 1..(Len(in) - n) : rest[i] = in[n + i]
  BY ChunkTypes
<1> HIDE DEF rest
<1>2. ASSUME NEW i \in At(rest, r, kind)
      PROVE  i \in Nat /\ i >= 1 /\ n + i \in At(in, r, kind) /\ rest[i] = in[n + i]
  BY <1>1 DEF At
<1>3. ASSUME NEW i \in At(in, r, kind), i > n
      PROVE  i - n \in At(rest, r, kind)
  <2>1. i - n \in 1..(Len(in) - n) /\ in[n + (i - n)] = in[i]
    BY <1>1, <1>3 DEF At
  <2> QED
    BY <1>1, <2>1 DEF At
<1> QED
  BY <1>2, <1>3 DEF RestOf, rest

Answering(out, in, n) == out \o Replies(Taken(in, n))

(* With the first n frames of in taken, the answers a to r in new are those  *)
(* in out and one for each event e of r in these frames.                     *)
Answered(in, n, out, new, r, e, a) ==
  /\ \A i \in At(out, r, a) : i \in At(new, r, a) /\ new[i] = out[i]
  /\ \E from \in [At(new, r, a) \ At(out, r, a) -> At(in, r, e)] :
       /\ \A i \in DOMAIN from : from[i] <= n /\ new[i] = AnswerTo(in[from[i]])
       /\ \A i, j \in DOMAIN from : from[i] = from[j] => i = j
       /\ \A j \in At(in, r, e) : j <= n => \E i \in DOMAIN from : from[i] = j

(* The replies to a chunk are those to its events.                           *)
LEMMA AtReplies ==
  ASSUME NEW in \in Seq(Messages), NEW n \in 1..Len(in), NEW out \in Seq(Commands),
         NEW r, NEW e, NEW a, Answers(e, a)
  PROVE  Answered(in, n, out, Answering(out, in, n), r, e, a)
<1> DEFINE new == Answering(out, in, n)
           chunk == Taken(in, n)
           replies == Replies(chunk)
           L == Len(out)
           K == Len(Events(chunk))
<1>1. /\ chunk \in Seq(Messages)
      /\ Len(chunk) = n
      /\ \A i \in 1..n : chunk[i] = in[i]
  BY ChunkTypes
<1>2. PICK at \in [1..K -> EventsAt(chunk)] :
        /\ \A k \in 1..K : Events(chunk)[k] = chunk[at[k]]
        /\ \A j, k \in 1..K : at[j] = at[k] => j = k
        /\ \A i \in EventsAt(chunk) : \E k \in 1..K : at[k] = i
  BY <1>1, EventsAreFrames
<1>3. replies \in Seq(Commands) /\ Len(replies) = K /\ K \in Nat /\ L \in Nat
  <2>1. replies \in Seq(Commands) /\ Len(replies) = K
    BY <1>1, RepliesTypes
  <2>2. Events(chunk) \in Seq(Messages)
    BY <1>1, EventsAreFrames
  <2> HIDE DEF replies, chunk
  <2> QED
    BY <2>1, <2>2
<1>4. \A k \in 1..K :
        /\ at[k] \in 1..n /\ IsEvent(in[at[k]]) /\ in[at[k]] \in Messages
        /\ replies[k] = AnswerTo(in[at[k]])
  <2> SUFFICES ASSUME NEW k \in 1..K
               PROVE  /\ at[k] \in 1..n /\ IsEvent(in[at[k]]) /\ in[at[k]] \in Messages
                      /\ replies[k] = AnswerTo(in[at[k]])
    OBVIOUS
  <2>1. at[k] \in 1..n /\ IsEvent(chunk[at[k]])
    BY <1>1, <1>2 DEF EventsAt
  <2>2. in[at[k]] \in Messages /\ chunk[at[k]] = in[at[k]]
    BY <1>1, <2>1
  <2>3. replies[k] = AnswerTo(Events(chunk)[k])
    BY DEF Replies
  <2> QED
    BY <1>2, <2>1, <2>2, <2>3
<1>n. new = out \o replies
  BY DEF Answering
<1> HIDE DEF new, chunk, replies, K
<1>5. /\ Len(new) = L + K
      /\ \A i \in 1..L : new[i] = out[i]
      /\ \A k \in 1..K : new[L + k] = replies[k]
  <2>1. /\ Len(out \o replies) = L + K
        /\ \A i \in 1..(L + K) :
             (out \o replies)[i] = IF i <= L THEN out[i] ELSE replies[i - L]
    BY <1>3, ConcatProperties
  <2>2. \A k \in 1..K : L + k \in 1..(L + K) /\ ~ (L + k <= L) /\ (L + k) - L = k
    BY <1>3
  <2>3. \A i \in 1..L : i \in 1..(L + K) /\ i <= L
    BY <1>3
  <2> QED
    BY <2>1, <2>2, <2>3, <1>n
<1>6. ASSUME NEW i \in At(out, r, a)
      PROVE  i \in At(new, r, a) /\ new[i] = out[i]
  <2>1. i \in 1..L /\ out[i].kind = a /\ out[i].request = r
    BY DEF At, L
  <2>2. new[i] = out[i] /\ i \in 1..Len(new)
    BY <1>3, <1>5, <2>1
  <2> QED
    BY <2>1, <2>2 DEF At
<1>7. ASSUME NEW i \in At(new, r, a) \ At(out, r, a)
      PROVE  /\ i - L \in 1..K
             /\ new[i] = AnswerTo(in[at[i - L]])
             /\ at[i - L] \in At(in, r, e)
  <2>1. i \in 1..(L + K) /\ new[i].kind = a /\ new[i].request = r
    BY <1>5 DEF At
  <2>2. i \notin 1..L
    BY <1>5, <2>1 DEF At
  <2>3. i - L \in 1..K /\ L + (i - L) = i
    BY <1>3, <2>1, <2>2
  <2>4. new[i] = AnswerTo(in[at[i - L]])
    BY <1>4, <1>5, <2>3
  <2>5. in[at[i - L]].kind = e /\ in[at[i - L]].request = r
    BY <1>4, <2>1, <2>3, <2>4, ReplyOf
  <2>6. at[i - L] \in 1..Len(in)
    BY <1>4, <2>3
  <2> QED
    BY <2>3, <2>4, <2>5, <2>6 DEF At
<1>8. ASSUME NEW j \in At(in, r, e), j <= n
      PROVE  \E i \in At(new, r, a) \ At(out, r, a) : at[i - L] = j
  <2>1. j \in 1..n /\ in[j].kind = e /\ in[j].request = r
    BY <1>8 DEF At
  <2>2. IsEvent(in[j])
    BY <2>1 DEF IsEvent, Answers
  <2>3. j \in EventsAt(chunk)
    BY <1>1, <2>1, <2>2 DEF EventsAt
  <2>4. PICK k \in 1..K : at[k] = j
    BY <1>2, <2>3
  <2>5. new[L + k] = AnswerTo(in[j]) /\ in[j] \in Messages
    BY <1>4, <1>5, <2>4
  <2>6. new[L + k].kind = a /\ new[L + k].request = r
    BY <2>1, <2>2, <2>5, ReplyOf
  <2>7. L + k \in At(new, r, a) \ At(out, r, a) /\ (L + k) - L = k
    BY <1>3, <1>5, <2>6 DEF At
  <2> QED
    BY <2>4, <2>7
<1> DEFINE S == At(new, r, a) \ At(out, r, a)
           from == [i \in S |-> at[i - L]]
<1>9. from \in [S -> At(in, r, e)] /\ DOMAIN from = S
  BY <1>7
<1>10. \A i \in S : from[i] <= n /\ new[i] = AnswerTo(in[from[i]])
  <2> SUFFICES ASSUME NEW i \in S PROVE from[i] <= n /\ new[i] = AnswerTo(in[from[i]])
    OBVIOUS
  <2>1. i - L \in 1..K /\ new[i] = AnswerTo(in[at[i - L]]) /\ from[i] = at[i - L]
    BY <1>7
  <2>2. at[i - L] <= n
    BY <1>4, <2>1
  <2> QED
    BY <2>1, <2>2
<1>11. ASSUME NEW i \in S, NEW j \in S, from[i] = from[j] PROVE i = j
  <2>1. i - L = j - L
    BY <1>2, <1>7, <1>11
  <2>2. i \in Nat /\ j \in Nat
    BY DEF At
  <2> QED
    BY <1>3, <2>1, <2>2
<1>12. \A j \in At(in, r, e) : j <= n => \E i \in S : from[i] = j
  BY <1>8
<1>13. \E f \in [S -> At(in, r, e)] :
         /\ \A i \in DOMAIN f : f[i] <= n /\ new[i] = AnswerTo(in[f[i]])
         /\ \A i, j \in DOMAIN f : f[i] = f[j] => i = j
         /\ \A j \in At(in, r, e) : j <= n => \E i \in DOMAIN f : f[i] = j
  <2> HIDE DEF from, S
  <2> QED
    BY <1>9, <1>10, <1>11, <1>12
<1> QED
  BY <1>6, <1>13 DEF Answered, new

(* What the handlers take moves on, what they do not see is missed.          *)
LEMMA ChunkMoves ==
  ASSUME NEW in \in Seq(Messages), NEW n \in 1..Len(in), NEW out \in Seq(Commands),
         NEW r, NEW e, NEW a, Answers(e, a), NEW now, NEW miss \in BOOLEAN,
         NEW state, state # "done",
         OnItsWay(At(in, r, e), At(out, r, a), now, "open", miss, state),
         NEW conn \in {"open", "closed"}
  PROVE  OnItsWay(At(Left(in, n), r, e), At(Answering(out, in, n), r, a), now, conn, miss, state)
<1> DEFINE rest == Left(in, n)
           new == Answering(out, in, n)
           E == At(in, r, e)
           A == At(out, r, a)
           F == At(rest, r, e)
           B == At(new, r, a)
<1>0. Answered(in, n, out, new, r, e, a)
  BY AtReplies
<1>1. /\ \A i \in F : i \in Nat /\ i >= 1 /\ n + i \in E
      /\ \A i \in E : i > n => i - n \in F
  BY AtRest DEF RestOf
<1>2. PICK from \in [B \ A -> E] :
        /\ \A i \in B \ A : from[i] <= n
        /\ \A i, j \in B \ A : from[i] = from[j] => i = j
        /\ \A j \in E : j <= n => \E i \in B \ A : from[i] = j
  <2>1. PICK f \in [B \ A -> E] :
          /\ \A i \in DOMAIN f : f[i] <= n /\ new[i] = AnswerTo(in[f[i]])
          /\ \A i, j \in DOMAIN f : f[i] = f[j] => i = j
          /\ \A j \in E : j <= n => \E i \in DOMAIN f : f[i] = j
    BY <1>0 DEF Answered
  <2>2. DOMAIN f = B \ A
    BY <2>1
  <2> HIDE DEF A, B, E
  <2> QED
    BY <2>1, <2>2
<1>3. A \subseteq B
  BY <1>0 DEF Answered
<1>4. \A i \in E : i \in Nat
  BY DEF At
<1>5. OnItsWay(E, A, now, "open", miss, state)
  OBVIOUS
<1> HIDE DEF A, B, E, F
<1>6. AtMostOne(F)
  <2> SUFFICES ASSUME NEW i \in F, NEW j \in F PROVE i = j
    BY DEF AtMostOne
  <2>1. n + i = n + j
    BY <1>1, <1>5 DEF OnItsWay, AtMostOne
  <2> QED
    BY <1>1, <2>1
<1>7. AtMostOne(B)
  <2> SUFFICES ASSUME NEW i \in B, NEW j \in B PROVE i = j
    BY DEF AtMostOne
  <2>1. CASE A # {}
    <3>1. E = {}
      BY <1>5, <2>1 DEF OnItsWay
    <3>2. B \ A = {}
      BY <1>2, <3>1
    <3> QED
      BY <1>5, <3>2 DEF OnItsWay, AtMostOne
  <2>2. CASE A = {}
    <3>1. from[i] = from[j]
      BY <1>2, <1>5, <2>2 DEF OnItsWay, AtMostOne
    <3> QED
      BY <1>2, <2>2, <3>1
  <2> QED
    BY <2>1, <2>2
<1>8. F = {} \/ B = {}
  <2> SUFFICES ASSUME NEW i \in F, NEW j \in B PROVE FALSE
    OBVIOUS
  <2>1. n + i \in E /\ n + i > n
    BY <1>1
  <2>2. A = {}
    BY <1>5, <2>1 DEF OnItsWay
  <2>3. from[j] \in E /\ from[j] <= n
    BY <1>2, <2>2
  <2>4. from[j] = n + i
    BY <1>5, <2>1, <2>3 DEF OnItsWay, AtMostOne
  <2> QED
    BY <1>1, <1>4, <2>3, <2>4
<1>9. /\ F # {} \/ B # {} => E # {} \/ A # {}
      /\ E # {} \/ A # {} => F # {} \/ B # {}
  <2>1. ASSUME NEW i \in E PROVE F # {} \/ B # {}
    <3>1. i > n \/ i <= n
      BY <1>4
    <3> QED
      BY <1>1, <1>2, <3>1
  <2> QED
    BY <1>1, <1>2, <1>3, <2>1
<1>10. E # {} \/ A # {} => now = state
  BY <1>5 DEF OnItsWay
<1>11. miss \/ now # state \/ E # {} \/ A # {}
  BY <1>5 DEF OnItsWay
<1>12. OnItsWay(F, B, now, conn, miss, state)
  BY <1>6, <1>7, <1>8, <1>9, <1>10, <1>11, Zenon DEF OnItsWay
<1> QED
  BY <1>12 DEF F, B

MissedAfter(r, in, n, miss) == IF r \in RequestsIn(Taken(in, n)) THEN TRUE ELSE miss

LEMMA ChunkMissed ==
  ASSUME NEW in \in Seq(Messages), NEW n \in 1..Len(in), NEW out,
         NEW r, NEW e, NEW a, Answers(e, a), NEW now, NEW miss \in BOOLEAN,
         NEW state, state # "done",
         OnItsWay(At(in, r, e), At(out, r, a), now, "open", miss, state),
         NEW conn \in {"open", "closed"}
  PROVE  OnItsWay(At(Left(in, n), r, e), At(out, r, a), now, conn,
                  MissedAfter(r, in, n, miss), state)
<1> DEFINE miss2 == MissedAfter(r, in, n, miss)
           rest == Left(in, n)
           chunk == Taken(in, n)
           E == At(in, r, e)
           A == At(out, r, a)
           F == At(rest, r, e)
<1>1. /\ \A i \in F : i \in Nat /\ i >= 1 /\ n + i \in E
      /\ \A i \in E : i > n => i - n \in F
  BY AtRest DEF RestOf
<1>2. ASSUME NEW i \in E, i <= n PROVE miss2
  <2>1. chunk \in Seq(Messages) /\ Len(chunk) = n /\ \A j \in 1..n : chunk[j] = in[j]
    BY ChunkTypes
  <2>2. i \in 1..n /\ in[i].kind = e /\ in[i].request = r
    BY <1>2 DEF At
  <2>3. i \in EventsAt(chunk) /\ chunk[i].request = r
    BY <2>1, <2>2 DEF EventsAt, IsEvent, Answers
  <2>4. \E k \in 1..Len(Events(chunk)) : Events(chunk)[k] = chunk[i]
    <3> HIDE DEF chunk
    <3>1. PICK at \in [1..Len(Events(chunk)) -> EventsAt(chunk)] :
            /\ \A k \in 1..Len(Events(chunk)) : Events(chunk)[k] = chunk[at[k]]
            /\ \A j, k \in 1..Len(Events(chunk)) : at[j] = at[k] => j = k
            /\ \A j \in EventsAt(chunk) : \E k \in 1..Len(Events(chunk)) : at[k] = j
      BY <2>1, EventsAreFrames
    <3>2. PICK k \in 1..Len(Events(chunk)) : at[k] = i
      BY <2>3, <3>1
    <3> QED
      BY <3>1, <3>2
  <2>5. r \in RequestsIn(chunk)
    BY <2>3, <2>4 DEF RequestsIn
  <2> QED
    BY <2>5 DEF MissedAfter
<1>0. miss2 \in BOOLEAN /\ (miss => miss2)
  BY DEF MissedAfter
<1>3. \A i \in E : i \in Nat
  BY DEF At
<1>4. OnItsWay(E, A, now, "open", miss, state)
  OBVIOUS
<1> HIDE DEF A, E, F, miss2
<1>5. AtMostOne(F)
  <2> SUFFICES ASSUME NEW i \in F, NEW j \in F PROVE i = j
    BY DEF AtMostOne
  <2>1. n + i = n + j
    BY <1>1, <1>4 DEF OnItsWay, AtMostOne
  <2> QED
    BY <1>1, <2>1
<1>6. F # {} => E # {}
  BY <1>1
<1>7. E # {} => F # {} \/ miss2
  BY <1>1, <1>2, <1>3
<1>8. OnItsWay(F, A, now, conn, miss2, state)
  BY <1>0, <1>4, <1>5, <1>6, <1>7, Zenon DEF OnItsWay
<1> QED
  BY <1>8 DEF F, A, miss2

(* The head of the outbox is taken.                                          *)
LEMMA TailMoves ==
  ASSUME NEW in, NEW out \in Seq(Commands), out # << >>, NEW r, NEW e, NEW a,
         NEW now, NEW conn, NEW miss \in BOOLEAN, NEW state, NEW after,
         OnItsWay(At(in, r, e), At(out, r, a), now, conn, miss, state),
         IF Head(out).kind = a /\ Head(out).request = r THEN after # state
         ELSE after = now \/ (now \notin {state, "done"} /\ after # state)
  PROVE  OnItsWay(At(in, r, e), At(Tail(out), r, a), after, conn, miss, state)
<1> DEFINE E == At(in, r, e)
           A == At(out, r, a)
           B == At(Tail(out), r, a)
           taken == Head(out).kind = a /\ Head(out).request = r
<1>1. /\ \A i \in B : i \in Nat /\ i + 1 \in A
      /\ \A i \in A : i # 1 => i - 1 \in B
      /\ 1 \in A <=> taken
  <2>1. \A i \in A : i \in Nat
    BY DEF At
  <2> QED
    BY <2>1, AtTail DEF TailOf
<1>2. OnItsWay(E, A, now, conn, miss, state)
  OBVIOUS
<1>3. IF taken THEN after # state
      ELSE after = now \/ (now \notin {state, "done"} /\ after # state)
  OBVIOUS
<1>4. \A i \in B : i # 0
  BY DEF At
<1>s. SUFFICES OnItsWay(E, B, after, conn, miss, state)
  OBVIOUS
<1> HIDE DEF E, A, B, taken
<1>5. AtMostOne(B)
  <2> SUFFICES ASSUME NEW i \in B, NEW j \in B PROVE i = j
    BY DEF AtMostOne
  <2>1. i + 1 = j + 1
    BY <1>1, <1>2 DEF OnItsWay, AtMostOne
  <2> QED
    BY <1>1, <2>1
<1>6. CASE taken
  <2>1. B = {}
    <3> SUFFICES ASSUME NEW i \in B PROVE FALSE
      OBVIOUS
    <3>1. i + 1 = 1
      BY <1>1, <1>2, <1>6 DEF OnItsWay, AtMostOne
    <3> QED
      BY <1>1, <1>4, <3>1
  <2>2. E = {}
    BY <1>1, <1>2, <1>6 DEF OnItsWay
  <2> QED
    BY <1>2, <1>3, <1>5, <1>6, <2>1, <2>2, Zenon DEF OnItsWay
<1>7. CASE ~ taken
  <2>1. B # {} <=> A # {}
    BY <1>1, <1>7
  <2>2. AtMostOne(E) /\ (E = {} \/ B = {})
    BY <1>2, <2>1 DEF OnItsWay
  <2>3. CASE after = now
    BY <1>2, <1>5, <2>1, <2>3, Zenon DEF OnItsWay
  <2>4. CASE now \notin {state, "done"} /\ after # state
    <3>1. E = {} /\ A = {}
      BY <1>2, <2>4 DEF OnItsWay
    <3> QED
      BY <1>5, <2>1, <2>2, <2>4, <3>1, Zenon DEF OnItsWay
  <2> QED
    BY <1>3, <1>7, <2>3, <2>4
<1> QED
  BY <1>6, <1>7

(* The browser raises an event, for a connection that is still open.         *)
Raised(in, m, conn) == IF conn = "open" THEN Append(in, m) ELSE in

LEMMA EventRaised ==
  ASSUME NEW in \in Seq(Messages), NEW m, NEW out, NEW r, NEW e, NEW a,
         NEW now, NEW conn, NEW miss \in BOOLEAN, NEW state, NEW after,
         OnItsWay(At(in, r, e), At(out, r, a), now, conn, miss, state),
         IF m.kind = e /\ m.request = r
         THEN now \notin {state, "done"} /\ after = state
         ELSE after = now \/ (now \notin {state, "done"} /\ after # state)
  PROVE  OnItsWay(At(Raised(in, m, conn), r, e),
                  At(out, r, a), after, conn, miss, state)
<1> DEFINE E == At(in, r, e)
           A == At(out, r, a)
           F == At(Raised(in, m, conn), r, e)
           mine == m.kind = e /\ m.request = r
<1>1. F = IF conn = "open" /\ mine THEN E \cup {Len(in) + 1} ELSE E
  <2>1. At(Append(in, m), r, e) =
          IF m.kind = e /\ m.request = r THEN At(in, r, e) \cup {Len(in) + 1} ELSE At(in, r, e)
    BY AtAppend
  <2> QED
    BY <2>1 DEF Raised
<1>2. OnItsWay(E, A, now, conn, miss, state)
  OBVIOUS
<1>3. IF mine THEN now \notin {state, "done"} /\ after = state
      ELSE after = now \/ (now \notin {state, "done"} /\ after # state)
  OBVIOUS
<1>s. SUFFICES OnItsWay(F, A, after, conn, miss, state)
  OBVIOUS
<1> HIDE DEF E, A, F, mine
<1>4. now \notin {state, "done"} => E = {} /\ A = {}
  BY <1>2 DEF OnItsWay
<1>5. CASE now \notin {state, "done"} /\ mine
  <2>1. F = IF conn = "open" THEN {Len(in) + 1} ELSE {}
    BY <1>1, <1>4, <1>5
  <2> QED
    BY <1>3, <1>4, <1>5, <2>1 DEF OnItsWay, AtMostOne
<1>6. CASE now \notin {state, "done"} /\ ~ mine
  BY <1>1, <1>3, <1>4, <1>6 DEF OnItsWay, AtMostOne
<1>7. CASE now \in {state, "done"}
  BY <1>1, <1>2, <1>3, <1>7
<1> QED
  BY <1>5, <1>6, <1>7

LEMMA LegsAre ==
  /\ \A leg \in Legs :
       /\ Answers(leg.event, leg.answer)
       /\ leg.state \notin {"idle", "continued", "done"}
       /\ leg.event # "response" /\ leg.answer # "auth"
  /\ "auth" \in Sessions
BY DEF Legs, Answers, Sessions

(* A step that the handler's connection and its requests have no part in.    *)
LEMMA Unmoved ==
  ASSUME CdpTypeOK, FlightInv,
         inbox'["auth"] = inbox["auth"], outbox'["auth"] = outbox["auth"],
         UNCHANGED <<req, asker>>, missed \subseteq missed',
         intercepting' => intercepting,
         phase'["auth"] = "open" => phase["auth"] = "open",
         phase["auth"] = "closed" => phase'["auth"] = "closed",
         phase["auth"] = "open" => phase'["auth"] \in {"open", "closed"}
  PROVE  FlightInv'
<1>1. NothingBeforeOpen'
  BY DEF FlightInv, NothingBeforeOpen
<1>2. ASSUME NEW r \in Requests PROVE AskerIsKnown(r)'
  BY DEF FlightInv, AskerIsKnown
<1>3. ASSUME NEW r \in Requests, NEW leg \in Legs PROVE Flies(r, leg)'
  <2>1. Flies(r, leg)
    BY DEF FlightInv
  <2> DEFINE E == At(inbox["auth"], r, leg.event)
             A == At(outbox["auth"], r, leg.answer)
  <2>2. Flies(r, leg)' <=> OnItsWay(E, A, req[r], phase'["auth"], r \in missed', leg.state)
    BY DEF Flies
  <2>3. OnItsWay(E, A, req[r], phase["auth"], r \in missed, leg.state)
    BY <2>1 DEF Flies
  <2> HIDE DEF E, A
  <2> QED
    BY <2>2, <2>3 DEF OnItsWay
<1> QED
  BY <1>1, <1>2, <1>3 DEF FlightInv

(* The handler's connection opens while nothing is held.                     *)
LEMMA OpensIdle ==
  ASSUME CdpTypeOK, FlightInv, HandshakeAnswered("auth")
  PROVE  FlightInv'
<1>1. /\ phase["auth"] = "handshake" /\ phase'["auth"] = "open"
      /\ outbox'["auth"] = Append(outbox["auth"], Command("auth"))
      /\ UNCHANGED <<inbox, req, asker, missed>>
  BY LegsAre DEF HandshakeAnswered, CdpTypeOK
<1>2. outbox["auth"] = << >> /\ \A r \in Requests : req[r] \in {"idle", "done"}
  BY <1>1 DEF FlightInv, NothingBeforeOpen
<1>3. ASSUME NEW r, NEW kind, kind # "auth"
      PROVE  At(outbox["auth"], r, kind) = {} /\ At(outbox'["auth"], r, kind) = {}
  <2>1. outbox["auth"] \in Seq(Commands) /\ Command("auth").kind = "auth"
    BY LegsAre DEF CdpTypeOK, Command
  <2>2. At(outbox["auth"], r, kind) = {}
    BY <1>2 DEF At
  <2>3. At(Append(outbox["auth"], Command("auth")), r, kind) = At(outbox["auth"], r, kind)
    <3> DEFINE q == outbox["auth"]
               m == Command("auth")
    <3>1. q \in Seq(Commands) /\ m.kind # kind
      BY <1>3, <2>1
    <3> HIDE DEF q, m
    <3>2. At(Append(q, m), r, kind) =
            IF m.kind = kind /\ m.request = r THEN At(q, r, kind) \cup {Len(q) + 1}
            ELSE At(q, r, kind)
      BY <3>1, AtAppend
    <3> QED
      BY <3>1, <3>2 DEF q, m
  <2> QED
    BY <1>1, <1>3, <2>1, <2>2, <2>3
<1>4. ASSUME NEW r \in Requests, NEW leg \in Legs
      PROVE  Flies(r, leg)' /\ At(inbox["auth"], r, leg.event) = {}
  <2>1. Flies(r, leg) /\ req[r] # leg.state
    BY <1>2, LegsAre DEF FlightInv
  <2>2. At(inbox["auth"], r, leg.event) = {}
    BY <1>1, <2>1 DEF Flies, OnItsWay
  <2>3. At(outbox'["auth"], r, leg.answer) = {}
    BY <1>3, LegsAre
  <2>4. Flies(r, leg)' <=>
          OnItsWay(At(inbox["auth"], r, leg.event), At(outbox'["auth"], r, leg.answer),
                   req[r], phase'["auth"], r \in missed, leg.state)
    BY <1>1 DEF Flies
  <2>5. OnItsWay({}, {}, req[r], phase'["auth"], r \in missed, leg.state)
    BY <2>1 DEF OnItsWay, AtMostOne
  <2> QED
    BY <2>2, <2>3, <2>4, <2>5
<1>5. ASSUME NEW r \in Requests PROVE AskerIsKnown(r)'
  <2>1. At(inbox["auth"], r, "challenge") = {}
    BY <1>4 DEF Legs
  <2>2. At(outbox'["auth"], r, "answer") = {}
    BY <1>3
  <2> QED
    BY <1>1, <2>1, <2>2 DEF AskerIsKnown
<1>6. NothingBeforeOpen'
  BY <1>1 DEF NothingBeforeOpen
<1> QED
  BY <1>4, <1>5, <1>6 DEF FlightInv

(* A data event of the handler's connection.                                 *)
LEMMA HandlerReceives ==
  ASSUME CdpTypeOK, FlightInv, Receive("auth")
  PROVE  FlightInv'
<1>1. PICK n \in 1..Len(inbox["auth"]), how \in {"acked", "failed"}, settles \in BOOLEAN :
        Received("auth", n, how, settles)
  BY ReceiveDoes, LegsAre
<1> DEFINE in == inbox["auth"]
           out == outbox["auth"]
           rest == Left(in, n)
           chunk == Taken(in, n)
           replies == IF listening THEN Replies(chunk) ELSE << >>
           new == out \o replies
<1>2. /\ phase["auth"] = "open" /\ phase'["auth"] \in {"open", "closed"}
      /\ inbox'["auth"] = rest /\ outbox'["auth"] = new
      /\ UNCHANGED <<req, asker, intercepting>>
  <2>1. inbox' = [inbox EXCEPT !["auth"] = rest] /\ outbox' = [outbox EXCEPT !["auth"] = new]
    BY <1>1 DEF Received
  <2>2. inbox'["auth"] = rest /\ outbox'["auth"] = new
    <3> HIDE DEF rest, new
    <3> QED
      BY <2>1, LegsAre DEF CdpTypeOK
  <2>3. phase["auth"] = "open" /\ UNCHANGED <<req, asker, intercepting>>
    BY <1>1 DEF Received
  <2>4. phase'["auth"] \in {"open", "closed"}
    <3>1. phase' = IF settles THEN [phase EXCEPT !["auth"] = PhaseAfter("auth", how)] ELSE phase
      BY <1>1 DEF Received
    <3> QED
      BY <2>3, <3>1, LegsAre DEF CdpTypeOK, PhaseAfter
  <2> QED
    BY <2>2, <2>3, <2>4
<1>4. in \in Seq(Messages) /\ out \in Seq(Commands)
  BY LegsAre DEF CdpTypeOK
<1>5. ~ listening => new = out
  <2>1. out \o << >> = out
    BY <1>4
  <2> QED
    BY <2>1
<1>6. listening => new = Answering(out, in, n)
  BY DEF Answering
<1>0. /\ rest = Left(in, n) /\ chunk = Taken(in, n)
      /\ n \in 1..Len(in) /\ in = inbox["auth"] /\ out = outbox["auth"]
  OBVIOUS
<1> HIDE DEF in, out, new, replies, rest, chunk
<1>7. ASSUME NEW r \in Requests, NEW leg \in Legs PROVE Flies(r, leg)'
  <2> DEFINE miss == r \in missed
             after == r \in missed'
  <2>0. /\ Answers(leg.event, leg.answer) /\ leg.state # "done"
        /\ miss \in BOOLEAN /\ after \in BOOLEAN
    BY LegsAre
  <2>1. OnItsWay(At(in, r, leg.event), At(out, r, leg.answer), req[r], "open", miss, leg.state)
    BY <1>0, <1>2 DEF FlightInv, Flies
  <2>2. OnItsWay(At(rest, r, leg.event), At(new, r, leg.answer), req[r], phase'["auth"],
                 after, leg.state)
    <3>1. CASE listening
      <4>1. after = miss
        BY <1>1, <3>1 DEF Received
      <4> HIDE DEF miss, after
      <4>2. OnItsWay(At(Left(in, n), r, leg.event), At(Answering(out, in, n), r, leg.answer),
                     req[r], phase'["auth"], miss, leg.state)
        BY <1>0, <1>2, <1>4, <2>0, <2>1, ChunkMoves
      <4> QED
        BY <1>0, <1>6, <3>1, <4>1, <4>2
    <3>2. CASE ~ listening
      <4>1. after = MissedAfter(r, in, n, miss)
        <5>1. missed' = missed \cup RequestsIn(Taken(in, n))
          BY <1>1, <1>0, <3>2 DEF Received, RequestsIn
        <5>2. after <=> miss \/ r \in RequestsIn(Taken(in, n))
          BY <5>1
        <5>3. after \in BOOLEAN /\ miss \in BOOLEAN
          BY <2>0
        <5> HIDE DEF miss, after
        <5>4. CASE r \in RequestsIn(Taken(in, n))
          BY <5>2, <5>3, <5>4, Zenon DEF MissedAfter
        <5>5. CASE r \notin RequestsIn(Taken(in, n))
          <6>1. MissedAfter(r, in, n, miss) = miss
            BY <5>5, Zenon DEF MissedAfter
          <6>2. after <=> miss
            BY <5>2, <5>5
          <6> QED
            BY <5>3, <6>1, <6>2
        <5> QED
          BY <5>4, <5>5
      <4> HIDE DEF miss, after
      <4>2. OnItsWay(At(Left(in, n), r, leg.event), At(out, r, leg.answer),
                     req[r], phase'["auth"], MissedAfter(r, in, n, miss), leg.state)
        BY <1>0, <1>2, <1>4, <2>0, <2>1, ChunkMissed
      <4> QED
        BY <1>0, <1>5, <3>2, <4>1, <4>2
    <3> QED
      BY <3>1, <3>2
  <2> QED
    BY <1>0, <1>2, <2>2 DEF Flies
<1>8. ASSUME NEW r \in Requests PROVE AskerIsKnown(r)'
  <2>1. /\ \A i \in At(in, r, "challenge") : in[i].source = asker[r]
        /\ \A i \in At(out, r, "answer") :
             out[i].response = "credentials" => asker[r] = "proxy"
    BY <1>0 DEF FlightInv, AskerIsKnown
  <2>2. ASSUME NEW i \in At(rest, r, "challenge") PROVE rest[i].source = asker[r]
    <3>1. n + i \in At(in, r, "challenge") /\ rest[i] = in[n + i]
      BY <1>0, <1>4, <2>2, AtRest DEF RestOf
    <3> QED
      BY <2>1, <3>1
  <2>3. ASSUME NEW i \in At(new, r, "answer"), new[i].response = "credentials"
        PROVE  asker[r] = "proxy"
    <3>1. CASE ~ listening
      BY <1>5, <2>1, <2>3, <3>1
    <3>2. CASE listening
      <4>1. Answered(in, n, out, new, r, "challenge", "answer")
        <5>1. Answers("challenge", "answer")
          BY DEF Answers
        <5> QED
          <6>1. Answered(in, n, out, Answering(out, in, n), r, "challenge", "answer")
            BY <1>0, <1>4, <5>1, AtReplies
          <6> QED
            BY <1>6, <3>2, <6>1
      <4>2. CASE i \in At(out, r, "answer")
        <5>1. new[i] = out[i]
          BY <4>1, <4>2 DEF Answered
        <5> QED
          BY <2>1, <2>3, <4>2, <5>1
      <4>3. CASE i \notin At(out, r, "answer")
        <5>1. PICK j \in At(in, r, "challenge") : new[i] = AnswerTo(in[j])
          BY <2>3, <4>1, <4>3 DEF Answered
        <5>2. in[j].kind = "challenge"
          BY <5>1 DEF At
        <5>3. in[j].source = "proxy"
          BY <2>3, <5>1, <5>2 DEF AnswerTo, Answer
        <5> QED
          BY <2>1, <5>1, <5>3
      <4> QED
        BY <4>2, <4>3
    <3> QED
      BY <3>1, <3>2
  <2> QED
    BY <1>2, <2>2, <2>3 DEF AskerIsKnown
<1>9. NothingBeforeOpen'
  BY <1>2 DEF NothingBeforeOpen
<1> QED
  BY <1>7, <1>8, <1>9 DEF FlightInv

(* The socket of the handler drops with what was in it.                      *)
LEMMA HandlerDrops ==
  ASSUME CdpTypeOK, FlightInv, SocketDrops("auth")
  PROVE  FlightInv'
<1>1. /\ phase["auth"] = "open" /\ phase'["auth"] = "closed" /\ inbox'["auth"] = << >>
      /\ UNCHANGED <<outbox, req, asker, missed>>
  BY LegsAre DEF SocketDrops, CdpTypeOK
<1>2. \A r, kind : At(inbox'["auth"], r, kind) = {}
  BY <1>1 DEF At
<1>3. ASSUME NEW r \in Requests, NEW leg \in Legs PROVE Flies(r, leg)'
  <2>1. Flies(r, leg)
    BY DEF FlightInv
  <2> DEFINE A == At(outbox["auth"], r, leg.answer)
  <2>2. Flies(r, leg)' <=> OnItsWay({}, A, req[r], phase'["auth"], r \in missed, leg.state)
    BY <1>1, <1>2 DEF Flies
  <2>3. AtMostOne(A) /\ (A # {} => req[r] = leg.state)
    BY <2>1 DEF Flies, OnItsWay
  <2> HIDE DEF A
  <2>4. OnItsWay({}, A, req[r], phase'["auth"], r \in missed, leg.state)
    BY <1>1, <2>3 DEF OnItsWay, AtMostOne
  <2> QED
    BY <2>2, <2>4
<1>4. ASSUME NEW r \in Requests PROVE AskerIsKnown(r)'
  BY <1>1, <1>2 DEF FlightInv, AskerIsKnown
<1>5. NothingBeforeOpen'
  BY <1>1 DEF NothingBeforeOpen
<1> QED
  BY <1>3, <1>4, <1>5 DEF FlightInv

(* The browser takes a command of the handler, and may answer it; none of    *)
(* its requests but the one the command names moves.                         *)
LEMMA HandlerServed ==
  ASSUME CdpTypeOK, FlightInv, Handle("auth"), asker' = asker,
         \/ inbox'["auth"] = inbox["auth"]
         \/ \E ok \in BOOLEAN : inbox'["auth"] = Append(inbox["auth"], Response(ok)),
         \A r \in Requests, leg \in Legs :
           IF Head(outbox["auth"]).kind = leg.answer /\ Head(outbox["auth"]).request = r
           THEN req'[r] # leg.state
           ELSE \/ req'[r] = req[r]
                \/ req[r] \notin {leg.state, "done"} /\ req'[r] # leg.state
  PROVE  FlightInv'
<1> DEFINE in == inbox["auth"]
           out == outbox["auth"]
<1>1. /\ out # << >> /\ outbox'["auth"] = Tail(out) /\ UNCHANGED <<phase, missed>>
      /\ in \in Seq(Messages) /\ out \in Seq(Commands)
  BY LegsAre DEF Handle, CdpTypeOK
<1>2. ASSUME NEW r, NEW kind, kind # "response"
      PROVE  At(inbox'["auth"], r, kind) = At(in, r, kind)
  <2>1. ASSUME NEW ok \in BOOLEAN, inbox'["auth"] = Append(in, Response(ok))
        PROVE  At(inbox'["auth"], r, kind) = At(in, r, kind)
    <3> DEFINE m == Response(ok)
    <3>1. m.kind # kind
      BY <1>2 DEF Response
    <3> HIDE DEF m, in
    <3>2. At(Append(in, m), r, kind) =
            IF m.kind = kind /\ m.request = r THEN At(in, r, kind) \cup {Len(in) + 1}
            ELSE At(in, r, kind)
      BY <1>1, AtAppend
    <3> QED
      BY <2>1, <3>1, <3>2 DEF m
  <2> QED
    BY <2>1
<1>3. \A i \in 1..Len(in) : inbox'["auth"][i] = in[i]
  <2>1. ASSUME NEW m, NEW i \in 1..Len(in), m \in Messages PROVE Append(in, m)[i] = in[i]
    <3> HIDE DEF in
    <3> QED
      BY <1>1, <2>1
  <2> QED
    BY <2>1, FrameTypes
<1>4. ASSUME NEW r \in Requests, NEW leg \in Legs PROVE Flies(r, leg)'
  <2> DEFINE miss == r \in missed
             now == req[r]
             after == req'[r]
             e == leg.event
             a == leg.answer
             state == leg.state
             conn == phase["auth"]
  <2>1. OnItsWay(At(in, r, e), At(out, r, a), now, conn, miss, state)
    BY DEF FlightInv, Flies
  <2>2. IF Head(out).kind = a /\ Head(out).request = r THEN after # state
        ELSE after = now \/ (now \notin {state, "done"} /\ after # state)
    OBVIOUS
  <2>3. miss \in BOOLEAN
    OBVIOUS
  <2>4. Flies(r, leg)' <=>
          OnItsWay(At(inbox'["auth"], r, e), At(Tail(out), r, a), after, conn, miss, state)
    BY <1>1 DEF Flies
  <2>5. At(inbox'["auth"], r, e) = At(in, r, e)
    BY <1>2, LegsAre
  <2> HIDE DEF miss, now, after, e, a, state, conn, in, out
  <2>6. OnItsWay(At(in, r, e), At(Tail(out), r, a), after, conn, miss, state)
    BY <1>1, <2>1, <2>2, <2>3, TailMoves
  <2> QED
    BY <2>4, <2>5, <2>6
<1>5. ASSUME NEW r \in Requests PROVE AskerIsKnown(r)'
  <2>1. /\ \A i \in At(in, r, "challenge") : in[i].source = asker[r]
        /\ \A i \in At(out, r, "answer") :
             out[i].response = "credentials" => asker[r] = "proxy"
    BY DEF FlightInv, AskerIsKnown
  <2>2. ASSUME NEW i \in At(inbox'["auth"], r, "challenge")
        PROVE  inbox'["auth"][i].source = asker[r]
    <3>1. i \in At(in, r, "challenge")
      BY <1>2, <2>2
    <3>2. i \in 1..Len(in)
      BY <3>1 DEF At
    <3> QED
      BY <1>3, <2>1, <3>1, <3>2
  <2>3. ASSUME NEW i \in At(Tail(out), r, "answer"), Tail(out)[i].response = "credentials"
        PROVE  asker[r] = "proxy"
    <3>1. i + 1 \in At(out, r, "answer") /\ Tail(out)[i] = out[i + 1]
      <4> HIDE DEF out
      <4>1. TailOf(out, r, "answer")
        BY <1>1, AtTail
      <4> QED
        BY <2>3, <4>1 DEF TailOf
    <3> QED
      BY <2>1, <2>3, <3>1
  <2> QED
    BY <1>1, <2>2, <2>3 DEF AskerIsKnown
<1>6. NothingBeforeOpen'
  BY <1>1 DEF FlightInv, NothingBeforeOpen
<1> QED
  BY <1>4, <1>5, <1>6 DEF FlightInv

(* The commands of the handler, and their requests.                          *)
LEMMA CommandsName ==
  ASSUME CdpTypeOK, outbox["auth"] # << >>
  PROVE  LET c == Head(outbox["auth"]) IN
         /\ c \in Commands
         /\ c.kind \in {"continue", "answer"} => c.request \in Requests
<1>1. outbox["auth"] \in Seq(Commands)
  BY LegsAre DEF CdpTypeOK
<1>2. Head(outbox["auth"]) \in Commands
  BY <1>1
<1> QED
  BY <1>2 DEF Commands, Sessions

LEMMA BrowserTakes ==
  ASSUME CdpTypeOK, FlightInv, BrowserEnables \/ BrowserContinues \/ BrowserTakesAnswer
  PROVE  FlightInv'
<1> DEFINE c == Head(outbox["auth"])
           r0 == c.request
<1>1. Handle("auth") /\ outbox["auth"] # << >> /\ asker' = asker
  BY DEF BrowserEnables, BrowserContinues, BrowserTakesAnswer, Handle
<1>2. \/ inbox'["auth"] = inbox["auth"]
      \/ \E ok \in BOOLEAN : inbox'["auth"] = Append(inbox["auth"], Response(ok))
  BY LegsAre DEF BrowserEnables, BrowserContinues, BrowserTakesAnswer, Reply, CdpTypeOK
<1>3. ASSUME NEW r \in Requests, NEW leg \in Legs
      PROVE  IF c.kind = leg.answer /\ c.request = r THEN req'[r] # leg.state
             ELSE \/ req'[r] = req[r]
                  \/ req[r] \notin {leg.state, "done"} /\ req'[r] # leg.state
  <2>1. CASE BrowserEnables
    BY <2>1, LegsAre DEF BrowserEnables
  <2>2. CASE BrowserContinues
    <3>1. c.kind = "continue" /\ c.request \in Requests
      BY <1>1, <2>2, CommandsName DEF BrowserContinues
    <3>2. req' = [req EXCEPT ![c.request] = IF @ = "paused" THEN "continued" ELSE @]
      BY <2>2 DEF BrowserContinues
    <3>3. /\ r # c.request => req'[r] = req[r]
          /\ r = c.request => req'[r] = IF req[r] = "paused" THEN "continued" ELSE req[r]
      BY <3>1, <3>2 DEF CdpTypeOK
    <3> QED
      BY <3>1, <3>3 DEF Legs
  <2>3. CASE BrowserTakesAnswer
    <3>1. c.kind = "answer" /\ c.request \in Requests
      BY <1>1, <2>3, CommandsName DEF BrowserTakesAnswer
    <3>2. req' = [req EXCEPT ![c.request] =
            IF @ # "challenged" THEN @
            ELSE IF c.response = "credentials" THEN "continued" ELSE "done"]
      BY <2>3 DEF BrowserTakesAnswer
    <3>3. /\ r # c.request => req'[r] = req[r]
          /\ r = c.request =>
               \/ req[r] # "challenged" /\ req'[r] = req[r]
               \/ req[r] = "challenged" /\ req'[r] \in {"continued", "done"}
      BY <3>1, <3>2 DEF CdpTypeOK
    <3> QED
      BY <3>1, <3>3 DEF Legs
  <2> QED
    BY <2>1, <2>2, <2>3
<1> QED
  BY <1>1, <1>2, <1>3, HandlerServed

(* A page's request is paused, challenged or served: what held it before is  *)
(* over, and the event of what holds it now, if anything does, is on its way.*)
LEMMA RequestMoves ==
  ASSUME CdpTypeOK, FlightInv, NEW m, UNCHANGED <<phase, outbox, missed>>,
         inbox'["auth"] = IF phase["auth"] = "open" THEN Append(inbox["auth"], m)
                          ELSE inbox["auth"],
         \A r \in Requests, leg \in Legs :
           IF m.kind = leg.event /\ m.request = r
           THEN req[r] \notin {leg.state, "done"} /\ req'[r] = leg.state
           ELSE \/ req'[r] = req[r]
                \/ req[r] \notin {leg.state, "done"} /\ req'[r] # leg.state
  PROVE  \A r \in Requests, leg \in Legs : Flies(r, leg)'
<1> SUFFICES ASSUME NEW r \in Requests, NEW leg \in Legs PROVE Flies(r, leg)'
  OBVIOUS
<1> DEFINE in == inbox["auth"]
           out == outbox["auth"]
           miss == r \in missed
           now == req[r]
           after == req'[r]
           e == leg.event
           a == leg.answer
           state == leg.state
           conn == phase["auth"]
           next == Raised(in, m, conn)
<1>1. OnItsWay(At(in, r, e), At(out, r, a), now, conn, miss, state)
  BY DEF FlightInv, Flies
<1>2. IF m.kind = e /\ m.request = r THEN now \notin {state, "done"} /\ after = state
      ELSE after = now \/ (now \notin {state, "done"} /\ after # state)
  OBVIOUS
<1>3. miss \in BOOLEAN /\ in \in Seq(Messages)
  BY LegsAre DEF CdpTypeOK
<1>4. Flies(r, leg)' <=> OnItsWay(At(next, r, e), At(out, r, a), after, conn, miss, state)
  BY DEF Flies, Raised
<1> HIDE DEF in, out, miss, now, after, e, a, state, conn
<1>5. OnItsWay(At(next, r, e), At(out, r, a), after, conn, miss, state)
  BY <1>1, <1>2, <1>3, EventRaised
<1> QED
  BY <1>4, <1>5

(* A request that nothing holds, and that nothing is on its way for, ends.   *)
LEMMA RequestEnds ==
  ASSUME CdpTypeOK, FlightInv, NEW r0 \in Requests, req[r0] \in {"idle", "continued"},
         req'[r0] = "done", \A r \in Requests \ {r0} : req'[r] = req[r],
         UNCHANGED <<phase, inbox, outbox, missed>>
  PROVE  \A r \in Requests, leg \in Legs : Flies(r, leg)'
<1> SUFFICES ASSUME NEW r \in Requests, NEW leg \in Legs PROVE Flies(r, leg)'
  OBVIOUS
<1> DEFINE E == At(inbox["auth"], r, leg.event)
           A == At(outbox["auth"], r, leg.answer)
<1>1. OnItsWay(E, A, req[r], phase["auth"], r \in missed, leg.state)
  BY DEF FlightInv, Flies
<1>2. Flies(r, leg)' <=> OnItsWay(E, A, req'[r], phase["auth"], r \in missed, leg.state)
  BY DEF Flies
<1> HIDE DEF E, A
<1>3. CASE r = r0
  <2>1. leg.state \notin {"idle", "continued", "done"}
    BY LegsAre
  <2>2. E = {} /\ A = {}
    BY <1>1, <1>3, <2>1 DEF OnItsWay
  <2>3. OnItsWay({}, {}, "done", phase["auth"], r \in missed, leg.state)
    BY <2>1 DEF OnItsWay, AtMostOne
  <2> QED
    BY <1>2, <1>3, <2>2, <2>3
<1>4. CASE r # r0
  BY <1>1, <1>2, <1>4
<1> QED
  BY <1>3, <1>4

(* A pause on its way is no challenge.                                       *)
LEMMA NoNewChallenge ==
  ASSUME CdpTypeOK, FlightInv, NEW r \in Requests, NEW m, m.kind # "challenge",
         UNCHANGED <<outbox, asker>>,
         inbox'["auth"] = IF phase["auth"] = "open" THEN Append(inbox["auth"], m)
                          ELSE inbox["auth"]
  PROVE  AskerIsKnown(r)'
<1> DEFINE in == inbox["auth"]
           kind == "challenge"
<1>1. in \in Seq(Messages)
  BY LegsAre DEF CdpTypeOK
<1>2. /\ At(Append(in, m), r, kind) = At(in, r, kind)
      /\ \A i \in 1..Len(in) : Append(in, m)[i] = in[i]
  <2>1. m.kind # kind
    OBVIOUS
  <2> HIDE DEF in, kind
  <2>2. At(Append(in, m), r, kind) =
          IF m.kind = kind /\ m.request = r THEN At(in, r, kind) \cup {Len(in) + 1}
          ELSE At(in, r, kind)
    BY <1>1, AtAppend
  <2>3. \A i \in 1..Len(in) : Append(in, m)[i] = in[i]
    <3>1. in \in Seq(Messages \cup {m}) /\ m \in Messages \cup {m}
      BY <1>1, SeqMonotonic
    <3> QED
      BY <3>1, AppendProperties
  <2> QED
    BY <2>1, <2>2, <2>3
<1>3. \A i \in At(in, r, kind) : i \in 1..Len(in) /\ in[i].source = asker[r]
  BY DEF FlightInv, AskerIsKnown, At
<1>4. \A i \in At(inbox'["auth"], r, kind) : inbox'["auth"][i].source = asker[r]
  BY <1>2, <1>3
<1> QED
  BY <1>4 DEF FlightInv, AskerIsKnown

(* A page's request that the browser takes up, pausing it if it intercepts.  *)
LEMMA PageIsHeld ==
  ASSUME CdpTypeOK, FlightInv, NEW r0 \in Requests, PageRequests(r0)
  PROVE  FlightInv'
<1>1. req[r0] = "idle" /\ UNCHANGED <<phase, outbox, intercepting, asker, missed>>
  BY DEF PageRequests
<1>2. CASE intercepting
  <2> DEFINE m == Paused(r0)
  <2>1. /\ inbox'["auth"] = IF phase["auth"] = "open" THEN Append(inbox["auth"], m)
                            ELSE inbox["auth"]
        /\ req'[r0] = "paused" /\ \A r \in Requests \ {r0} : req'[r] = req[r]
    BY <1>2, LegsAre DEF PageRequests, CdpTypeOK
  <2>2. m.kind = "paused" /\ m.request = r0
    BY DEF Paused
  <2>3. ASSUME NEW r \in Requests, NEW leg \in Legs
        PROVE  IF m.kind = leg.event /\ m.request = r
               THEN req[r] \notin {leg.state, "done"} /\ req'[r] = leg.state
               ELSE \/ req'[r] = req[r]
                    \/ req[r] \notin {leg.state, "done"} /\ req'[r] # leg.state
    BY <1>1, <2>1, <2>2 DEF Legs
  <2> HIDE DEF m
  <2>4. \A r \in Requests, leg \in Legs : Flies(r, leg)'
    BY <1>1, <2>1, <2>3, RequestMoves
  <2>5. ASSUME NEW r \in Requests PROVE AskerIsKnown(r)'
    BY <1>1, <2>1, <2>2, NoNewChallenge
  <2>6. NothingBeforeOpen'
    BY <1>1, <1>2 DEF FlightInv, NothingBeforeOpen
  <2> QED
    BY <2>4, <2>5, <2>6 DEF FlightInv
<1>3. CASE ~ intercepting
  <2>1. /\ inbox' = inbox /\ req'[r0] = "done"
        /\ \A r \in Requests \ {r0} : req'[r] = req[r]
    BY <1>3, LegsAre DEF PageRequests, CdpTypeOK
  <2>2. \A r \in Requests, leg \in Legs : Flies(r, leg)'
    BY <1>1, <2>1, RequestEnds
  <2>3. \A r \in Requests : AskerIsKnown(r)'
    BY <1>1, <2>1 DEF FlightInv, AskerIsKnown
  <2>4. NothingBeforeOpen'
    BY <1>1, <2>1 DEF FlightInv, NothingBeforeOpen
  <2> QED
    BY <2>2, <2>3, <2>4 DEF FlightInv
<1> QED
  BY <1>2, <1>3

(* A request that went on is challenged.                                     *)
LEMMA RequestIsChallenged ==
  ASSUME CdpTypeOK, FlightInv, NEW r0 \in Requests, Challenged(r0)
  PROVE  FlightInv'
<1>1. req[r0] = "continued" /\ UNCHANGED <<phase, outbox, intercepting, missed>>
  BY DEF Challenged
<1>2. PICK from \in {"proxy", "origin"} :
        /\ asker' = [asker EXCEPT ![r0] = from]
        /\ inbox'["auth"] = IF phase["auth"] = "open"
                            THEN Append(inbox["auth"], Challenge(r0, from)) ELSE inbox["auth"]
  BY LegsAre DEF Challenged, CdpTypeOK
<1> DEFINE m == Challenge(r0, from)
<1>3. /\ req'[r0] = "challenged" /\ \A r \in Requests \ {r0} : req'[r] = req[r]
      /\ asker'[r0] = from /\ \A r \in Requests \ {r0} : asker'[r] = asker[r]
  BY <1>2 DEF Challenged, CdpTypeOK
<1>4. m.kind = "challenge" /\ m.request = r0 /\ m.source = from
  BY DEF Challenge
<1>5. inbox'["auth"] = IF phase["auth"] = "open" THEN Append(inbox["auth"], m) ELSE inbox["auth"]
  BY <1>2
<1> HIDE DEF m
<1>6. ASSUME NEW r \in Requests, NEW leg \in Legs
      PROVE  IF m.kind = leg.event /\ m.request = r
             THEN req[r] \notin {leg.state, "done"} /\ req'[r] = leg.state
             ELSE \/ req'[r] = req[r]
                  \/ req[r] \notin {leg.state, "done"} /\ req'[r] # leg.state
  BY <1>1, <1>3, <1>4 DEF Legs
<1>7. \A r \in Requests, leg \in Legs : Flies(r, leg)'
  BY <1>1, <1>5, <1>6, RequestMoves
<1>8. ASSUME NEW r \in Requests PROVE AskerIsKnown(r)'
  <2> DEFINE in == inbox["auth"]
             kind == "challenge"
             leg == [event |-> "challenge", answer |-> "answer", state |-> "challenged"]
  <2>1. in \in Seq(Messages)
    BY LegsAre DEF CdpTypeOK
  <2>2. AskerIsKnown(r) /\ Flies(r, leg)
    BY DEF FlightInv, Legs
  <2>3. r = r0 => At(in, r, kind) = {} /\ At(outbox["auth"], r, "answer") = {}
    <3>1. r = r0 => req[r] \notin {"challenged", "done"}
      BY <1>1
    <3> QED
      BY <2>2, <3>1 DEF Flies, OnItsWay
  <2>4. /\ At(Append(in, m), r, kind) = IF r = r0 THEN At(in, r, kind) \cup {Len(in) + 1}
                                        ELSE At(in, r, kind)
        /\ \A i \in 1..Len(in) : Append(in, m)[i] = in[i]
        /\ Append(in, m)[Len(in) + 1] = m
    <3>1. m.kind = kind /\ m.request = r0
      BY <1>4
    <3> HIDE DEF in, kind
    <3>2. At(Append(in, m), r, kind) =
            IF m.kind = kind /\ m.request = r THEN At(in, r, kind) \cup {Len(in) + 1}
            ELSE At(in, r, kind)
      BY <2>1, AtAppend
    <3>3. /\ \A i \in 1..Len(in) : Append(in, m)[i] = in[i]
          /\ Append(in, m)[Len(in) + 1] = m
      <4>1. in \in Seq(Messages \cup {m}) /\ m \in Messages \cup {m}
        BY <2>1, SeqMonotonic
      <4> QED
        BY <4>1, AppendProperties
    <3> QED
      BY <3>1, <3>2, <3>3
  <2>5. CASE r = r0
    <3>1. \A i \in At(inbox'["auth"], r, kind) : inbox'["auth"][i].source = from
      BY <1>4, <1>5, <2>3, <2>4, <2>5
    <3> QED
      BY <1>1, <1>3, <2>3, <2>5, <3>1 DEF AskerIsKnown
  <2>6. CASE r # r0
    <3>1. \A i \in At(in, r, kind) : i \in 1..Len(in) /\ in[i].source = asker[r]
      BY <2>2 DEF AskerIsKnown, At
    <3>2. \A i \in At(inbox'["auth"], r, kind) : inbox'["auth"][i].source = asker[r]
      BY <1>5, <2>4, <2>6, <3>1
    <3> QED
      BY <1>1, <1>3, <2>2, <2>6, <3>2 DEF AskerIsKnown
  <2> QED
    BY <2>5, <2>6
<1>9. NothingBeforeOpen'
  BY <1>1 DEF FlightInv, NothingBeforeOpen
<1> QED
  BY <1>7, <1>8, <1>9 DEF FlightInv

LEMMA RequestIsServed ==
  ASSUME CdpTypeOK, FlightInv, NEW r0 \in Requests, Served(r0)
  PROVE  FlightInv'
<1>1. /\ req[r0] = "continued" /\ req'[r0] = "done"
      /\ \A r \in Requests \ {r0} : req'[r] = req[r]
      /\ UNCHANGED <<phase, inbox, outbox, intercepting, asker, missed>>
  BY DEF Served, CdpTypeOK
<1>2. \A r \in Requests, leg \in Legs : Flies(r, leg)'
  BY <1>1, RequestEnds
<1>3. \A r \in Requests : AskerIsKnown(r)'
  BY <1>1 DEF FlightInv, AskerIsKnown
<1>4. NothingBeforeOpen'
  BY <1>1 DEF FlightInv, NothingBeforeOpen
<1> QED
  BY <1>2, <1>3, <1>4 DEF FlightInv

(* The browser lets go of what it held for a connection that is closed.      *)
LEMMA BrowserLetsGo ==
  ASSUME CdpTypeOK, FlightInv, BrowserDetaches
  PROVE  FlightInv'
<1>1. /\ phase["auth"] = "closed" /\ outbox["auth"] = << >>
      /\ UNCHANGED <<phase, inbox, outbox, asker, missed>>
      /\ \A r \in Requests :
           req'[r] = IF req[r] \in {"paused", "challenged"} THEN "done" ELSE req[r]
  BY DEF BrowserDetaches
<1>2. ASSUME NEW r \in Requests, NEW leg \in Legs PROVE Flies(r, leg)'
  <2> DEFINE E == At(inbox["auth"], r, leg.event)
             A == At(outbox["auth"], r, leg.answer)
  <2>1. OnItsWay(E, A, req[r], phase["auth"], r \in missed, leg.state)
    BY DEF FlightInv, Flies
  <2>2. Flies(r, leg)' <=> OnItsWay(E, A, req'[r], phase["auth"], r \in missed, leg.state)
    BY <1>1 DEF Flies
  <2>3. A = {} /\ leg.state \in {"paused", "challenged"}
    BY <1>1 DEF At, Legs
  <2> HIDE DEF E, A
  <2>4. AtMostOne(E) /\ (E # {} => req'[r] = "done")
    BY <1>1, <2>1, <2>3 DEF OnItsWay
  <2>5. OnItsWay(E, {}, req'[r], phase["auth"], r \in missed, leg.state)
    BY <1>1, <2>4 DEF OnItsWay, AtMostOne
  <2> QED
    BY <2>2, <2>3, <2>5
<1>3. \A r \in Requests : AskerIsKnown(r)'
  BY <1>1 DEF FlightInv, AskerIsKnown
<1>4. NothingBeforeOpen'
  BY <1>1 DEF NothingBeforeOpen
<1> QED
  BY <1>2, <1>3, <1>4 DEF FlightInv

(* The steps that do not concern the handler's connection.                   *)
LEMMA OthersKeep ==
  ASSUME CdpTypeOK, FlightInv,
         \/ \E s \in Sessions :
              \/ Open(s) \/ LookupAnswers(s) \/ TcpConnects(s) \/ ConnectFails(s)
              \/ CommandTimesOut(s) \/ BrowserMovesPage(s)
              \/ s # "auth" /\ (HandshakeAnswered(s) \/ Receive(s) \/ SocketDrops(s))
         \/ BrowserCloses \/ BrowserCrashes \/ SecretRemoved
  PROVE  FlightInv'
<1> DEFINE Still == /\ inbox'["auth"] = inbox["auth"] /\ outbox'["auth"] = outbox["auth"]
                    /\ UNCHANGED <<req, asker>> /\ missed \subseteq missed'
                    /\ intercepting' = intercepting
<1>1. Still /\ phase' = phase => FlightInv'
  BY Unmoved
<1>2. ASSUME NEW s \in Sessions, Open(s) \/ LookupAnswers(s) \/ TcpConnects(s) \/ ConnectFails(s)
      PROVE  FlightInv'
  <2>1. Still
    BY <1>2 DEF Open, LookupAnswers, TcpConnects, ConnectFails
  <2>2. /\ phase'["auth"] = "open" => phase["auth"] = "open"
        /\ phase["auth"] \in {"open", "closed"} => phase'["auth"] = phase["auth"]
    BY <1>2, LegsAre DEF Open, LookupAnswers, TcpConnects, ConnectFails, CdpTypeOK
  <2> QED
    BY <2>1, <2>2, Unmoved
<1>3. ASSUME NEW s \in Sessions, CommandTimesOut(s) PROVE FlightInv'
  <2>1. Still
    BY <1>3 DEF CommandTimesOut
  <2>2. \/ phase'["auth"] = phase["auth"]
        \/ phase["auth"] = "open" /\ phase'["auth"] = "closed"
    BY <1>3, LegsAre DEF CommandTimesOut, PhaseAfter, CdpTypeOK
  <2> QED
    BY <2>1, <2>2, Unmoved
<1>4. ASSUME NEW s \in Sessions, s # "auth", Handle(s), UNCHANGED <<intercepting, req>>,
             inbox' = inbox \/ \E ok \in BOOLEAN : Reply(s, ok)
      PROVE  FlightInv'
  <2>1. Still /\ phase' = phase
    BY <1>4, LegsAre DEF Handle, Reply, CdpTypeOK
  <2> QED
    BY <1>1, <2>1
<1>5. ASSUME NEW s \in Sessions, BrowserMovesPage(s) PROVE FlightInv'
  <2>1. s # "auth" /\ Handle(s) /\ UNCHANGED <<intercepting, req>> /\ \E ok \in BOOLEAN : Reply(s, ok)
    BY <1>5 DEF BrowserMovesPage
  <2> QED
    BY <1>4, <2>1
<1>6. CASE BrowserCloses
  <2>1. /\ "close" \in Sessions /\ Handle("close") /\ UNCHANGED <<intercepting, req>>
        /\ inbox' = inbox \/ \E ok \in BOOLEAN : Reply("close", ok)
    BY <1>6 DEF BrowserCloses, Sessions
  <2> QED
    BY <1>4, <2>1
<1>7. CASE BrowserCrashes \/ SecretRemoved
  BY <1>1, <1>7 DEF BrowserCrashes, SecretRemoved
<1>8. ASSUME NEW s \in Sessions, s # "auth", HandshakeAnswered(s) \/ SocketDrops(s)
      PROVE  FlightInv'
  <2>1. Still
    BY <1>8, LegsAre DEF HandshakeAnswered, SocketDrops, CdpTypeOK
  <2>2. phase'["auth"] = phase["auth"]
    BY <1>8, LegsAre DEF HandshakeAnswered, SocketDrops, CdpTypeOK
  <2> QED
    BY <2>1, <2>2, Unmoved
<1>9. ASSUME NEW s \in Sessions, s # "auth", Receive(s) PROVE FlightInv'
  <2>1. PICK n \in 1..Len(inbox[s]), how \in {"acked", "failed"}, settles \in BOOLEAN :
          Received(s, n, how, settles)
    BY <1>9, ReceiveDoes
  <2>2. Still /\ phase'["auth"] = phase["auth"]
    BY <1>9, <2>1, LegsAre DEF Received, CdpTypeOK
  <2> QED
    BY <2>2, Unmoved
<1> QED
  BY <1>2, <1>3, <1>5, <1>6, <1>7, <1>8, <1>9

LEMMA FlightKept == CdpInv /\ [CdpNext]_cdpVars => CdpInv'
<1> SUFFICES ASSUME CdpInv, [CdpNext]_cdpVars PROVE CdpInv'
  OBVIOUS
<1>1. CdpTypeOK /\ FlightInv
  BY DEF CdpInv
<1>2. CdpTypeOK'
  BY <1>1, TypesKept
<1>3. CASE UNCHANGED cdpVars
  <2>1. FlightInv'
    BY <1>1, <1>3, Unmoved DEF cdpVars
  <2> QED
    BY <1>2, <2>1 DEF CdpInv
<1>4. CASE CdpNext
  <2>1. FlightInv'
    BY <1>1, <1>4, OpensIdle, HandlerReceives, HandlerDrops, BrowserTakes, PageIsHeld,
       RequestIsChallenged, RequestIsServed, BrowserLetsGo, OthersKeep
       DEF CdpNext
  <2> QED
    BY <1>2, <2>1 DEF CdpInv
<1> QED
  BY <1>3, <1>4

LEMMA FlightStarts == CdpInit => CdpInv
<1> SUFFICES ASSUME CdpInit PROVE CdpInv
  OBVIOUS
<1>1. << >> \in Seq(Messages) /\ << >> \in Seq(Commands)
  OBVIOUS
<1>2. CdpTypeOK
  <2>1. inbox \in [Sessions -> Seq(Messages)] /\ outbox \in [Sessions -> Seq(Commands)]
    BY <1>1 DEF CdpInit
  <2>2. challenges \in [Requests -> 0..MaxChallenges]
    BY CdpAssumption DEF CdpInit
  <2>3. /\ phase \in [Sessions -> Phases] /\ outcome \in [Sessions -> Outcomes]
        /\ req \in [Requests -> RequestStates]
        /\ asker \in [Requests -> {"none", "proxy", "origin"}]
    BY DEF CdpInit, Phases, Outcomes, RequestStates
  <2>4. /\ listening \in BOOLEAN /\ secret \in BOOLEAN /\ browser \in {"up", "gone"}
        /\ intercepting \in BOOLEAN /\ page \subseteq {"navigate", "front"}
        /\ missed \subseteq Requests
    BY DEF CdpInit
  <2> QED
    BY <2>1, <2>2, <2>3, <2>4 DEF CdpTypeOK
<1>3. /\ \A r, kind : At(inbox["auth"], r, kind) = {} /\ At(outbox["auth"], r, kind) = {}
      /\ phase["auth"] = "idle" /\ outbox["auth"] = << >> /\ ~ intercepting
      /\ \A r \in Requests : req[r] = "idle"
  BY LegsAre DEF CdpInit, At
<1>4. NothingBeforeOpen
  BY <1>3 DEF NothingBeforeOpen
<1>5. ASSUME NEW r \in Requests PROVE AskerIsKnown(r) /\ \A leg \in Legs : Flies(r, leg)
  BY <1>3 DEF AskerIsKnown, Flies, OnItsWay, AtMostOne
<1> QED
  BY <1>2, <1>4, <1>5 DEF CdpInv, FlightInv

(* ---------------------------------------------------------------- theorems *)

(* Every variable of the connections keeps its type (browser/cdp.ts).        *)
THEOREM CdpTypesCorrect == CdpSpec => []CdpTypeOK
<1>1. CdpInit => CdpTypeOK
  BY FlightStarts DEF CdpInv
<1> QED
  BY <1>1, TypesKept, PTL DEF CdpSpec

(* What holds a request is on its way, once, in a state that an answer ends  *)
(* (proxies/auth-handler.ts, browser/cdp.ts).                                *)
THEOREM CdpInvariant == CdpSpec => []CdpInv
BY FlightStarts, FlightKept, PTL DEF CdpSpec

(* Credentials are only ever on their way for a request that the proxy, and  *)
(* not the server behind it, is asking about (proxies/auth-handler.ts).      *)
THEOREM ProxyAloneIsAnswered == CdpSpec => []CredentialsOnlyToTheProxy
<1>1. CdpInv => CredentialsOnlyToTheProxy
  <2> SUFFICES ASSUME CdpInv, NEW i \in 1..Len(outbox["auth"]),
                      outbox["auth"][i].kind = "answer",
                      outbox["auth"][i].response = "credentials"
               PROVE  asker[outbox["auth"][i].request] = "proxy"
    BY DEF CredentialsOnlyToTheProxy
  <2> DEFINE c == outbox["auth"][i]
  <2>1. outbox["auth"] \in Seq(Commands)
    BY LegsAre DEF CdpInv, CdpTypeOK
  <2>2. c \in Commands
    BY <2>1
  <2>3. c.request \in Requests
    BY <2>2 DEF Commands, Sessions
  <2>4. i \in At(outbox["auth"], c.request, "answer")
    BY DEF At
  <2> QED
    BY <2>3, <2>4 DEF CdpInv, FlightInv, AskerIsKnown
<1> QED
  BY <1>1, CdpInvariant, PTL

(* While the handler stays attached, a request that the browser holds has    *)
(* exactly one thing on its way that will move it, or its event was missed   *)
(* (proxies/auth-handler.ts).                                                *)
THEOREM PausesAreAnswered == CdpSpec => []HeldRequestsAreOnTheirWay
<1>1. ASSUME NEW S, NEW T, AtMostOne(S), AtMostOne(T), S = {} \/ T = {}, S # {} \/ T # {}
      PROVE  Cardinality(S) + Cardinality(T) = 1
  <2>1. ASSUME NEW U, U # {}, AtMostOne(U) PROVE Cardinality(U) = 1
    <3>1. \E u : U = {u}
      BY <2>1 DEF AtMostOne
    <3> QED
      BY <3>1, FS_Singleton
  <2>2. Cardinality({}) = 0
    BY FS_EmptySet
  <2>3. CASE S = {}
    <3>1. Cardinality(T) = 1 /\ Cardinality(S) = 0
      BY <1>1, <2>1, <2>2, <2>3
    <3> QED
      BY <3>1
  <2>4. CASE T = {}
    <3>1. Cardinality(S) = 1 /\ Cardinality(T) = 0
      BY <1>1, <2>1, <2>2, <2>4
    <3> QED
      BY <3>1
  <2> QED
    BY <1>1, <2>3, <2>4
<1>2. CdpInv => HeldRequestsAreOnTheirWay
  <2> SUFFICES ASSUME CdpInv, phase["auth"] = "open", NEW r \in Requests, r \notin missed
               PROVE  /\ req[r] = "paused" =>
                           Cardinality(EventsOf(r, "paused")) + Cardinality(AnswersOf(r, "continue")) = 1
                      /\ req[r] = "challenged" =>
                           Cardinality(EventsOf(r, "challenge")) + Cardinality(AnswersOf(r, "answer")) = 1
    BY DEF HeldRequestsAreOnTheirWay
  <2>1. ASSUME NEW leg \in Legs, req[r] = leg.state
        PROVE  Cardinality(At(inbox["auth"], r, leg.event))
                 + Cardinality(At(outbox["auth"], r, leg.answer)) = 1
    <3> DEFINE E == At(inbox["auth"], r, leg.event)
               A == At(outbox["auth"], r, leg.answer)
    <3>1. OnItsWay(E, A, req[r], phase["auth"], r \in missed, leg.state)
      BY DEF CdpInv, FlightInv, Flies
    <3> HIDE DEF E, A
    <3>2. AtMostOne(E) /\ AtMostOne(A) /\ (E = {} \/ A = {}) /\ (E # {} \/ A # {})
      BY <2>1, <3>1 DEF OnItsWay
    <3>3. Cardinality(E) + Cardinality(A) = 1
      BY <1>1, <3>2
    <3> QED
      BY <3>3 DEF E, A
  <2>2. \A kind : /\ EventsOf(r, kind) = At(inbox["auth"], r, kind)
                  /\ AnswersOf(r, kind) = At(outbox["auth"], r, kind)
    BY DEF EventsOf, AnswersOf, At
  <2>3. ASSUME req[r] = "paused"
        PROVE  Cardinality(EventsOf(r, "paused")) + Cardinality(AnswersOf(r, "continue")) = 1
    <3> DEFINE leg == [event |-> "paused", answer |-> "continue", state |-> "paused"]
    <3>1. leg \in Legs /\ leg.event = "paused" /\ leg.answer = "continue" /\ leg.state = "paused"
      BY DEF Legs
    <3> HIDE DEF leg
    <3> QED
      BY <2>1, <2>2, <2>3, <3>1
  <2>4. ASSUME req[r] = "challenged"
        PROVE  Cardinality(EventsOf(r, "challenge")) + Cardinality(AnswersOf(r, "answer")) = 1
    <3> DEFINE leg == [event |-> "challenge", answer |-> "answer", state |-> "challenged"]
    <3>1. leg \in Legs /\ leg.event = "challenge" /\ leg.answer = "answer"
          /\ leg.state = "challenged"
      BY DEF Legs
    <3> HIDE DEF leg
    <3> QED
      BY <2>1, <2>2, <2>4, <3>1
  <2> QED
    BY <2>3, <2>4
<1> QED
  BY <1>2, CdpInvariant, PTL

(* A browser that exits while the close waits for it is never taken for one  *)
(* that refused, unless it said so (browser/cdp.ts).                         *)
THEOREM ExitIsNoRefusal == CdpSpec => ExitIsTakenForSuccess
<1> DEFINE Waiting == phase["close"] = "open" /\ browser = "gone" /\ outcome["close"] = "none"
                        /\ \A i \in 1..Len(inbox["close"]) : inbox["close"][i].ok
<1>1. ASSUME CdpTypeOK, [CdpNext]_cdpVars, Waiting PROVE outcome'["close"] # "failed"
  <2>1. "close" \in Sessions
    BY DEF Sessions
  <2>2. ASSUME UNCHANGED outcome PROVE outcome'["close"] # "failed"
    BY <1>1, <2>2
  <2>3. CASE UNCHANGED cdpVars
    BY <2>2, <2>3 DEF cdpVars
  <2>4. ASSUME NEW s \in Sessions, Open(s) \/ LookupAnswers(s) \/ TcpConnects(s) \/ HandshakeAnswered(s)
        PROVE  outcome'["close"] # "failed"
    BY <2>2, <2>4 DEF Open, LookupAnswers, TcpConnects, HandshakeAnswered
  <2>5. ASSUME NEW s \in Sessions, ConnectFails(s) \/ CommandTimesOut(s)
        PROVE  outcome'["close"] # "failed"
    BY <1>1, <2>1, <2>5 DEF ConnectFails, CommandTimesOut, CdpTypeOK
  <2>6. ASSUME NEW s \in Sessions, SocketDrops(s) PROVE outcome'["close"] # "failed"
    <3>1. Head(DropOrder) = "dropped"
      BY DEF DropOrder
    <3>2. outcome' = [outcome EXCEPT ![s] =
            IF outcome[s] # "none" THEN outcome[s] ELSE IF s = "close" THEN "dropped" ELSE "failed"]
      BY <2>6, <3>1 DEF SocketDrops
    <3> QED
      BY <1>1, <2>1, <3>2 DEF CdpTypeOK
  <2>7. ASSUME NEW s \in Sessions, Receive(s) PROVE outcome'["close"] # "failed"
    <3>1. PICK n \in 1..Len(inbox[s]), how \in {"acked", "failed"}, settles \in BOOLEAN :
            Received(s, n, how, settles)
      BY <1>1, <2>7, ReceiveDoes
    <3>2. outcome' = IF settles THEN [outcome EXCEPT ![s] = how] ELSE outcome
      BY <3>1 DEF Received
    <3>3. CASE s # "close" \/ ~ settles
      BY <1>1, <2>1, <3>2, <3>3 DEF CdpTypeOK
    <3>4. CASE s = "close" /\ settles
      <4> DEFINE chunk == Taken(inbox[s], n)
      <4>1. inbox[s] \in Seq(Messages)
        BY <1>1 DEF CdpTypeOK
      <4>2. \A i \in 1..n : i \in 1..Len(inbox[s]) /\ chunk[i] = inbox[s][i]
        BY <4>1, ChunkTypes
      <4>3. /\ \E i \in 1..n : chunk[i].kind = "response"
            /\ how = IF \E i \in {j \in 1..n : chunk[j].kind = "response"} : chunk[i].ok
                     THEN "acked" ELSE "failed"
        BY <3>1, <3>4 DEF Received
      <4>4. PICK i \in 1..n : chunk[i].kind = "response"
        BY <4>3
      <4>5. chunk[i].ok
        BY <1>1, <3>4, <4>2
      <4>6. how = "acked"
        BY <4>3, <4>4, <4>5
      <4> QED
        BY <2>1, <3>2, <3>4, <4>6, <1>1 DEF CdpTypeOK
    <3> QED
      BY <3>3, <3>4
  <2>8. ASSUME NEW s \in Sessions, Handle(s) PROVE outcome'["close"] # "failed"
    BY <2>2, <2>8 DEF Handle
  <2>9. ASSUME NEW r \in Requests, PageRequests(r) \/ Challenged(r) \/ Served(r)
        PROVE  outcome'["close"] # "failed"
    BY <2>2, <2>9 DEF PageRequests, Challenged, Served
  <2>10. ASSUME BrowserCrashes \/ BrowserDetaches \/ SecretRemoved PROVE outcome'["close"] # "failed"
    BY <2>2, <2>10 DEF BrowserCrashes, BrowserDetaches, SecretRemoved
  <2>11. ASSUME BrowserEnables \/ BrowserContinues \/ BrowserTakesAnswer \/ BrowserCloses
         PROVE  outcome'["close"] # "failed"
    BY <2>1, <2>8, <2>11, LegsAre
       DEF BrowserEnables, BrowserContinues, BrowserTakesAnswer, BrowserCloses
  <2>12. ASSUME NEW s \in Sessions, BrowserMovesPage(s) PROVE outcome'["close"] # "failed"
    BY <2>8, <2>12 DEF BrowserMovesPage
  <2> QED
    BY <1>1, <2>3, <2>4, <2>5, <2>6, <2>7, <2>9, <2>10, <2>11, <2>12 DEF CdpNext
<1>2. CdpTypeOK /\ [CdpNext]_cdpVars => [Waiting => outcome'["close"] # "failed"]_cdpVars
  BY <1>1
<1>3. CdpSpec => [][Waiting => outcome'["close"] # "failed"]_cdpVars
  <2> HIDE DEF Waiting
  <2> QED
    BY <1>2, CdpTypesCorrect, PTL DEF CdpSpec
<1> QED
  BY <1>3 DEF ExitIsTakenForSuccess
=============================================================================
