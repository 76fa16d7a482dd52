------------------------------ MODULE TeamStore ------------------------------
(***************************************************************************)
(* Users, roles, scopes, invitations and API tokens: users.ts,             *)
(* invitations.ts, tokens.ts, access.ts and the handlers of team-routes.ts *)
(* in packages/api/src/server, with the part of handleRequest (index.ts)   *)
(* that lets a request reach its handler.                                  *)
(*                                                                         *)
(* node:sqlite answers synchronously, so a request holds the event loop    *)
(* from one real wait to the next: the scrypt of a token or a password,    *)
(* which runs on a worker thread, and the reading of the body.  A DELETE   *)
(* has no body, hence it is authenticated and handled in one step.         *)
(* Passwords are abstracted to right or wrong and the permissions          *)
(* users:manage, roles:manage and tokens:manage to one; the scopes of a    *)
(* token, which can only narrow it, are left out.                          *)
(***************************************************************************)
EXTENDS Naturals, FiniteSets

CONSTANTS
  Users,        \* ids that randomUUID may give to users
  Emails,
  Admin,        \* the seeded role "admin"
  CustomRoles,  \* ids for roles of createRole
  Scopes,       \* clients and profiles a user can be given access to
  Invites,      \* ids for invitations
  Tokens,       \* ids for API tokens
  Bootstrap,    \* the token printed at the first start
  Requests,     \* bound: HTTP requests under way at a time
  RoleSets,     \* bound: the roles a createUser may ask for
  Offers,       \* bound: what an invitation may be for
  Nobody        \* null: the user of a legacy token

Roles == CustomRoles \cup {Admin}
Actors == Users \cup {Nobody}
Offer == [email : Emails, role : Roles, scopes : SUBSET Scopes]
NoOffer == [email |-> Nobody, role |-> Nobody, scopes |-> {}]

ASSUME TeamAssumption ==
  /\ IsFiniteSet(Users)
  /\ Nobody \notin Users
  /\ Admin \notin CustomRoles
  /\ Bootstrap \in Tokens
  /\ RoleSets \subseteq SUBSET Roles
  /\ Offers \subseteq Offer

VARIABLES
  status,      \* users: whether the row exists, and its column disabled
  email,       \* users.email
  userRoles,   \* rows of user_roles
  userScopes,  \* rows of user_clients and user_profiles
  role,        \* whether a custom role exists
  managers,    \* role_permissions: the custom roles with the manage permission
  invite,      \* invitations: open, expired, used, or deleted
  offer,       \* what the invitation is for
  token,       \* api_tokens: none, live or revoked
  tokenOwner,  \* api_tokens.user_id
  req          \* where each request is, and the local variables of its handler

grants == <<userRoles, userScopes>>
catalog == <<role, managers>>
invitations == <<invite, offer>>
tokenRows == <<token, tokenOwner>>
people == <<status, email>>
vars == <<people, grants, catalog, invitations, tokenRows, req>>

\* Waiting for a scrypt, except "body".
Stages == {"idle", "auth", "body", "createHash", "inviteHash", "tokenHash",
           "loginVerify", "redeemVerify", "redeemHash"}
Idle == [at |-> "idle", of |-> Nobody, manages |-> FALSE]

TeamTypeOK ==
  /\ status \in [Users -> {"none", "enabled", "disabled", "deleted"}]
  /\ email \in [Users -> Emails \cup {Nobody}]
  /\ userRoles \subseteq Users \X Roles
  /\ userScopes \subseteq Users \X Scopes
  /\ role \in [CustomRoles -> {"none", "live", "deleted"}]
  /\ managers \subseteq CustomRoles
  /\ invite \in [Invites -> {"none", "open", "expired", "used", "revoked"}]
  /\ offer \in [Invites -> Offer \cup {NoOffer}]
  /\ token \in [Tokens -> {"none", "live", "revoked"}]
  /\ tokenOwner \in [Tokens -> Actors]
  /\ \A q \in Requests : req[q].at \in Stages

\* A first start: roles are seeded, no user exists, one legacy token does.
Init ==
  /\ status = [u \in Users |-> "none"]
  /\ email = [u \in Users |-> Nobody]
  /\ userRoles = {}
  /\ userScopes = {}
  /\ role = [r \in CustomRoles |-> "none"]
  /\ managers = {}
  /\ invite = [i \in Invites |-> "none"]
  /\ offer = [i \in Invites |-> NoOffer]
  /\ token = [t \in Tokens |-> IF t = Bootstrap THEN "live" ELSE "none"]
  /\ tokenOwner = [t \in Tokens |-> Nobody]
  /\ req = [q \in Requests |-> Idle]

Exists(u) == status[u] \in {"enabled", "disabled"}
RoleExists(r) == r = Admin \/ (r \in CustomRoles /\ role[r] = "live")
EmailFree(e) == \A u \in Users : ~ (Exists(u) /\ email[u] = e)

Admins == {u \in Users : <<u, Admin>> \in userRoles}
\* Mutant: the last admin may go.
NotLastAdminOffByOne == Cardinality(Admins) >= 1

\* assertNotLastAdminRemoval: countAdmins is over user_roles alone.
NotLastAdmin == Cardinality(Admins) > 1

Goto(q, record) == req' = [req EXCEPT ![q] = record]
Answer(q) == Goto(q, Idle)

----------------------------------------------------------------------------
(* Reaching a handler.                                                      *)

\* resolveIdentity: legacy tokens may do everything.
Manages(a) == \/ a = Nobody
              \/ \E r \in managers \cup {Admin} : <<a, r>> \in userRoles

\* authenticateRequest finds the row and starts to verify its secret.
Present(q, t) ==
  /\ req[q].at = "idle"
  /\ token[t] = "live"
  /\ Goto(q, [at |-> "auth", of |-> tokenOwner[t], manages |-> FALSE])
  /\ UNCHANGED <<people, grants, catalog, invitations, tokenRows>>

\* The secret is right: the user must exist and be enabled by now.  That the
\* token was revoked meanwhile goes unnoticed.
Admitted(q) ==
  /\ req[q].at = "auth"
  /\ req[q].of # Nobody => status[req[q].of] = "enabled"

\* POST and PATCH: the identity is kept while the body is read.
ReadBody(q) ==
  /\ Admitted(q)
  /\ Goto(q, [at |-> "body", of |-> req[q].of, manages |-> Manages(req[q].of)])
  /\ UNCHANGED <<people, grants, catalog, invitations, tokenRows>>

\* A refusal anywhere: a wrong secret, a missing row, a malformed body, a
\* violated constraint; or the server dies.
Refuse(q) ==
  /\ req[q].at # "idle"
  /\ Answer(q)
  /\ UNCHANGED <<people, grants, catalog, invitations, tokenRows>>

MayManage(q) == req[q].at = "body" /\ req[q].manages
MayDelete(q) == Admitted(q) /\ Manages(req[q].of)

----------------------------------------------------------------------------
(* Users.                                                                   *)

\* createUser checks roles and email and then hashes the password.
CreateUserBegins(q, e, rs) ==
  /\ MayManage(q)
  /\ \A r \in rs : RoleExists(r)
  /\ EmailFree(e)
  /\ Goto(q, [at |-> "createHash", of |-> req[q].of, email |-> e, roles |-> rs])
  /\ UNCHANGED <<people, grants, catalog, invitations, tokenRows>>

\* Mutant: users.email is not UNIQUE.
InsertUserAnyEmail(u, e, rs, ss) ==
  /\ status[u] = "none"
  /\ status' = [status EXCEPT ![u] = "enabled"]
  /\ email' = [email EXCEPT ![u] = e]
  /\ userRoles' = userRoles \cup {<<u, r>> : r \in rs}
  /\ userScopes' = userScopes \cup {<<u, s>> : s \in ss}

\* The transactions of createUser and redeemInvitation; users.email is UNIQUE.
InsertUser(u, e, rs, ss) ==
  /\ status[u] = "none"
  /\ EmailFree(e)
  /\ status' = [status EXCEPT ![u] = "enabled"]
  /\ email' = [email EXCEPT ![u] = e]
  /\ userRoles' = userRoles \cup {<<u, r>> : r \in rs}
  /\ userScopes' = userScopes \cup {<<u, s>> : s \in ss}

CreateUserCommits(q, u) ==
  /\ req[q].at = "createHash"
  /\ InsertUser(u, req[q].email, req[q].roles, {})
  /\ Answer(q)
  /\ UNCHANGED <<catalog, invitations, tokenRows>>

\* PATCH: nobody disables himself, and not the last holder of "admin".
DisableUser(q, u) ==
  /\ MayManage(q)
  /\ Exists(u)
  /\ u # req[q].of
  /\ u \in Admins => NotLastAdmin
  /\ status' = [status EXCEPT ![u] = "disabled"]
  /\ Answer(q)
  /\ UNCHANGED <<email, grants, catalog, invitations, tokenRows>>

EnableUser(q, u) ==
  /\ MayManage(q)
  /\ Exists(u)
  /\ u # req[q].of
  /\ status' = [status EXCEPT ![u] = "enabled"]
  /\ Answer(q)
  /\ UNCHANGED <<email, grants, catalog, invitations, tokenRows>>

\* The transaction of deleteUser: tokens are revoked, everything else goes.
RemoveUser(u) ==
  /\ status' = [status EXCEPT ![u] = "deleted"]
  /\ userRoles' = {g \in userRoles : g[1] # u}
  /\ userScopes' = {g \in userScopes : g[1] # u}
  /\ token' = [t \in Tokens |->
       IF token[t] = "live" /\ tokenOwner[t] = u THEN "revoked" ELSE token[t]]

DeleteUser(q, u) ==
  /\ MayDelete(q)
  /\ Exists(u)
  /\ u # req[q].of
  /\ u \in Admins => NotLastAdmin
  /\ RemoveUser(u)
  /\ Answer(q)
  /\ UNCHANGED <<email, catalog, invitations, tokenOwner>>

----------------------------------------------------------------------------
(* Roles and scopes.                                                        *)

AddUserRole(q, u, r) ==
  /\ MayManage(q)
  /\ Exists(u)
  /\ RoleExists(r)
  /\ userRoles' = userRoles \cup {<<u, r>>}
  /\ Answer(q)
  /\ UNCHANGED <<people, userScopes, catalog, invitations, tokenRows>>

RemoveUserRole(q, u, r) ==
  /\ MayDelete(q)
  /\ Exists(u)
  /\ r = Admin => u # req[q].of /\ NotLastAdmin
  /\ userRoles' = userRoles \ {<<u, r>>}
  /\ Answer(q)
  /\ UNCHANGED <<people, userScopes, catalog, invitations, tokenRows>>

GrantAccess(q, u, s) ==
  /\ MayManage(q)
  /\ Exists(u)
  /\ userScopes' = userScopes \cup {<<u, s>>}
  /\ Answer(q)
  /\ UNCHANGED <<people, userRoles, catalog, invitations, tokenRows>>

RevokeAccess(q, u, s) ==
  /\ MayDelete(q)
  /\ Exists(u)
  /\ userScopes' = userScopes \ {<<u, s>>}
  /\ Answer(q)
  /\ UNCHANGED <<people, userRoles, catalog, invitations, tokenRows>>

CreateRole(q, r, manage) ==
  /\ MayManage(q)
  /\ role[r] = "none"
  /\ role' = [role EXCEPT ![r] = "live"]
  /\ managers' = IF manage THEN managers \cup {r} ELSE managers
  /\ Answer(q)
  /\ UNCHANGED <<people, grants, invitations, tokenRows>>

\* Mutant: the rows of role_permissions stay.
DeleteRoleKeepsPermissions(q, r) ==
  /\ MayDelete(q)
  /\ role[r] = "live"
  /\ \A u \in Users : <<u, r>> \notin userRoles
  /\ role' = [role EXCEPT ![r] = "deleted"]
  /\ Answer(q)
  /\ UNCHANGED <<people, grants, managers, invitations, tokenRows>>

\* Seeded roles and roles some user has are refused.
DeleteRole(q, r) ==
  /\ MayDelete(q)
  /\ role[r] = "live"
  /\ \A u \in Users : <<u, r>> \notin userRoles
  /\ role' = [role EXCEPT ![r] = "deleted"]
  /\ managers' = managers \ {r}
  /\ Answer(q)
  /\ UNCHANGED <<people, grants, invitations, tokenRows>>

----------------------------------------------------------------------------
(* Invitations.                                                             *)

CreateInvitationBegins(q, o) ==
  /\ MayManage(q)
  /\ RoleExists(o.role)
  /\ Goto(q, [at |-> "inviteHash", of |-> req[q].of, offer |-> o])
  /\ UNCHANGED <<people, grants, catalog, invitations, tokenRows>>

CreateInvitationCommits(q, i) ==
  /\ req[q].at = "inviteHash"
  /\ invite[i] = "none"
  /\ invite' = [invite EXCEPT ![i] = "open"]
  /\ offer' = [offer EXCEPT ![i] = req[q].offer]
  /\ Answer(q)
  /\ UNCHANGED <<people, grants, catalog, tokenRows>>

RevokeInvitation(q, i) ==
  /\ MayManage(q)
  /\ invite[i] \in {"open", "expired", "used"}
  /\ invite' = [invite EXCEPT ![i] = "revoked"]
  /\ Answer(q)
  /\ UNCHANGED <<people, grants, catalog, offer, tokenRows>>

InviteExpires(i) ==
  /\ invite[i] = "open"
  /\ invite' = [invite EXCEPT ![i] = "expired"]
  /\ UNCHANGED <<people, grants, catalog, offer, tokenRows, req>>

\* The row must be unused when it is read, ...
RedeemBegins(q, i) ==
  /\ req[q].at = "idle"
  /\ invite[i] \in {"open", "expired"}
  /\ Goto(q, [at |-> "redeemVerify", of |-> Nobody, invite |-> i])
  /\ UNCHANGED <<people, grants, catalog, invitations, tokenRows>>

\* ... unexpired and for an unknown email once its secret is verified, ...
RedeemChecks(q) ==
  /\ req[q].at = "redeemVerify"
  /\ invite[req[q].invite] # "expired"
  /\ EmailFree(offer[req[q].invite].email)
  /\ Goto(q, [req[q] EXCEPT !.at = "redeemHash"])
  /\ UNCHANGED <<people, grants, catalog, invitations, tokenRows>>

\* ... and is not read again: a row deleted meanwhile is not updated.
RedeemCommits(q, u) ==
  /\ req[q].at = "redeemHash"
  /\ LET i == req[q].invite IN
     /\ InsertUser(u, offer[i].email, {offer[i].role}, offer[i].scopes)
     /\ invite' = [invite EXCEPT ![i] = IF @ = "revoked" THEN @ ELSE "used"]
  /\ Answer(q)
  /\ UNCHANGED <<catalog, offer, tokenRows>>

----------------------------------------------------------------------------
(* Tokens.                                                                  *)

LoginBegins(q, u) ==
  /\ req[q].at = "idle"
  /\ status[u] = "enabled"
  /\ Goto(q, [at |-> "loginVerify", of |-> u])
  /\ UNCHANGED <<people, grants, catalog, invitations, tokenRows>>

\* createApiToken: the user must exist, and the secret is hashed.
IssueToken(q, u) ==
  /\ u # Nobody => Exists(u)
  /\ Goto(q, [at |-> "tokenHash", of |-> u])
  /\ UNCHANGED <<people, grants, catalog, invitations, tokenRows>>

LoginVerified(q) ==
  /\ req[q].at = "loginVerify"
  /\ IssueToken(q, req[q].of)

\* POST /v1/tokens: for oneself, or for anybody with tokens:manage; only a
\* legacy token makes another legacy token.
CreateToken(q, u) ==
  /\ req[q].at = "body"
  /\ u # req[q].of => req[q].manages /\ u # Nobody
  /\ IssueToken(q, u)

TokenCommits(q, t) ==
  /\ req[q].at = "tokenHash"
  /\ token[t] = "none"
  /\ token' = [token EXCEPT ![t] = "live"]
  /\ tokenOwner' = [tokenOwner EXCEPT ![t] = req[q].of]
  /\ Answer(q)
  /\ UNCHANGED <<people, grants, catalog, invitations>>

RevokeToken(q, t) ==
  /\ req[q].at = "body"
  /\ token[t] # "none"
  /\ req[q].manages \/ tokenOwner[t] = req[q].of
  /\ token' = [token EXCEPT ![t] = "revoked"]
  /\ Answer(q)
  /\ UNCHANGED <<people, grants, catalog, invitations, tokenOwner>>

----------------------------------------------------------------------------

Next ==
  \/ \E q \in Requests :
       \/ ReadBody(q) \/ Refuse(q) \/ RedeemChecks(q) \/ LoginVerified(q)
       \/ \E t \in Tokens : Present(q, t) \/ TokenCommits(q, t) \/ RevokeToken(q, t)
       \/ \E e \in Emails, rs \in RoleSets : CreateUserBegins(q, e, rs)
       \/ \E u \in Users :
            \/ CreateUserCommits(q, u) \/ DisableUser(q, u) \/ EnableUser(q, u)
            \/ DeleteUser(q, u) \/ RedeemCommits(q, u) \/ LoginBegins(q, u)
            \/ \E r \in Roles : AddUserRole(q, u, r) \/ RemoveUserRole(q, u, r)
            \/ \E s \in Scopes : GrantAccess(q, u, s) \/ RevokeAccess(q, u, s)
       \/ \E u \in Actors : CreateToken(q, u)
       \/ \E r \in CustomRoles :
            DeleteRole(q, r) \/ \E manage \in BOOLEAN : CreateRole(q, r, manage)
       \/ \E o \in Offers : CreateInvitationBegins(q, o)
       \/ \E i \in Invites :
            CreateInvitationCommits(q, i) \/ RevokeInvitation(q, i) \/ RedeemBegins(q, i)
  \/ \E i \in Invites : InviteExpires(i)

Spec == Init /\ [][Next]_vars

----------------------------------------------------------------------------
(* Properties.                                                              *)

\* assertNotLastAdminRemoval (team-routes.ts:170): once somebody holds "admin",
\* no sequence of deletions, disablings and role changes, by whoever and
\* however overlapping, leaves the role without an existing user.
AdminsNeverRunOut == [][Admins # {} => \E u \in Admins' : Exists(u)']_vars

\* deleteUser takes a user's rows in user_roles, user_clients and user_profiles
\* with it, and none arrives afterwards from a call that was under way: a row
\* left behind would be counted by countAdmins for ever.
GrantsHaveUsers == \A g \in userRoles \cup userScopes : Exists(g[1])

\* Two registrations for one address, each of which has found it free before
\* the slow password hash, do not both succeed; so users who exist at a time
\* never come from the same invitation either.
EmailsAreUnique ==
  \A u, v \in Users : Exists(u) /\ Exists(v) /\ email[u] = email[v] => u = v

\* A custom role can be deleted while a createUser that names it hashes, or
\* while an invitation to it is open; whoever gets the deleted role then gets
\* no permission with it.
NoGhostPermissions ==
  \A g \in userRoles : g[2] \in managers => RoleExists(g[2])
=============================================================================
