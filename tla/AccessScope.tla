----------------------------- MODULE AccessScope -----------------------------
(***************************************************************************)
(* Who sees which client and which profile: the second half of access.ts   *)
(* and the handlers of routes.ts, automation-routes.ts and                 *)
(* windowsync-routes.ts (packages/api/src/server) that ask it.  A list, a  *)
(* filter over other tables and the route of a single profile each have    *)
(* code of their own for the same question.                                *)
(*                                                                         *)
(* The database a request reads is a record: db.clients, db.clientOf (the  *)
(* client of each profile), db.userClients and db.userProfiles.  A Set or  *)
(* null is a record, too: null stands for "all".                           *)
(***************************************************************************)

All == [all |-> TRUE, ids |-> {}]
Only(ids) == [all |-> FALSE, ids |-> ids]

\* Set.has, where null?.has() is undefined, hence false.
Has(access, id) == ~ access.all /\ id \in access.ids

\* Legacy tokens and admins are not restricted.
Unrestricted(identity) == identity.legacy \/ identity.isAdmin

AccessibleClientIds(db, identity) ==
  IF Unrestricted(identity) THEN All
  ELSE Only({row[2] : row \in {r \in db.userClients : r[1] = identity.userId}})

AccessibleProfileIds(db, identity) ==
  IF Unrestricted(identity) THEN All
  ELSE Only({row[2] : row \in {r \in db.userProfiles : r[1] = identity.userId}})

Profiles(db) == DOMAIN db.clientOf

----------------------------------------------------------------------------
(* One of them.                                                             *)

AssertClientAccess(db, identity, c) ==
  \/ Unrestricted(identity)
  \/ Has(AccessibleClientIds(db, identity), c)

\* getProfile comes first: a profile that is not there is a 404 to everybody.
AssertProfileAccess(db, identity, p) ==
  /\ p \in Profiles(db)
  /\ \/ Unrestricted(identity)
     \/ Has(AccessibleProfileIds(db, identity), p)
     \/ Has(AccessibleClientIds(db, identity), db.clientOf[p])

\* syncWindows asks for each of the profiles before it touches a browser.
SyncWindows(db, identity, ps) == \A p \in ps : AssertProfileAccess(db, identity, p)

----------------------------------------------------------------------------
(* All of them.                                                             *)

GetClients(db, identity) ==
  LET allowed == AccessibleClientIds(db, identity)
  IN {c \in db.clients : allowed.all \/ Has(allowed, c)}

GetProfiles(db, identity) ==
  LET direct == AccessibleProfileIds(db, identity)
      clients == AccessibleClientIds(db, identity)
  IN {p \in Profiles(db) : \/ direct.all /\ clients.all
                           \/ Has(direct, p)
                           \/ Has(clients, db.clientOf[p])}

\* Rows of other tables; pidOf[row] may be of a profile that has gone.
FilterByProfileScope(db, identity, pidOf) ==
  LET direct == AccessibleProfileIds(db, identity)
      clients == AccessibleClientIds(db, identity)
      Kept(p) == \/ Has(direct, p)
                 \/ p \in Profiles(db) /\ Has(clients, db.clientOf[p])
  IN {row \in DOMAIN pidOf : (direct.all /\ clients.all) \/ Kept(pidOf[row])}

----------------------------------------------------------------------------
(* A profile that is made.                                                  *)

WithProfile(db, p, c) ==
  [db EXCEPT !.clientOf = [q \in Profiles(db) \cup {p} |->
                             IF q = p THEN c ELSE db.clientOf[q]]]

\* createProfileRoute and restoreBackup with a clientId.
MayCreateIn(db, identity, c) ==
  c \in db.clients /\ AssertClientAccess(db, identity, c)

----------------------------------------------------------------------------
(* Properties.                                                              *)

\* The three ways to ask agree: a profile is listed, and the jobs and runs of
\* an existing profile are, exactly if its own routes can be used; likewise
\* for clients.
ListsAgreeWithRoutes(db, identity, pidOf) ==
  /\ GetClients(db, identity) =
       {c \in db.clients : AssertClientAccess(db, identity, c)}
  /\ GetProfiles(db, identity) =
       {p \in Profiles(db) : AssertProfileAccess(db, identity, p)}
  /\ \A row \in DOMAIN pidOf : pidOf[row] \in Profiles(db) =>
       ( row \in FilterByProfileScope(db, identity, pidOf)
           <=> AssertProfileAccess(db, identity, pidOf[row]) )

\* Whoever makes a profile in a client he names can open it, and nothing he
\* could open before is lost to him.
CreatedCanBeOpened(db, identity, p, c) ==
  MayCreateIn(db, identity, c) /\ p \notin Profiles(db) =>
    /\ AssertProfileAccess(WithProfile(db, p, c), identity, p)
    /\ SyncWindows(WithProfile(db, p, c), identity, GetProfiles(db, identity))
=============================================================================
