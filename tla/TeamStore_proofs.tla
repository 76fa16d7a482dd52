-------------------------- MODULE TeamStore_proofs --------------------------
(* What holds of the team whatever the number of users, requests under way, *)
(* roles and invitations.                                                   *)
EXTENDS TeamStore, FiniteSetTheorems, TLAPS

Access == INSTANCE AccessScope

\* The local variables of the handlers keep their types.
HandlersOK ==
  /\ req = [q \in Requests |-> req[q]]
  /\ \A q \in Requests :
       /\ req[q].at \in Stages
       /\ req[q].of \in Actors
       /\ req[q].at = "createHash" => req[q].email \in Emails /\ req[q].roles \subseteq Roles
       /\ req[q].at = "inviteHash" => req[q].offer \in Offers
       /\ req[q].at \in {"redeemVerify", "redeemHash"} =>
            /\ req[q].invite \in Invites
            /\ invite[req[q].invite] # "none"
            /\ offer[req[q].invite] \in Offer

TypeInv ==
  /\ TeamTypeOK
  /\ \A i \in Invites : invite[i] # "none" => offer[i] \in Offer
  /\ HandlersOK

\* A deleted role has no row left in role_permissions.
ManagersExist == \A r \in managers : RoleExists(r)

TeamInv == TypeInv /\ GrantsHaveUsers /\ EmailsAreUnique /\ ManagersExist

\* Every step keeps the types.
LEMMA TypeStep ==
  ASSUME TypeInv, [Next]_vars
  PROVE  TypeInv'
<1>0. CASE UNCHANGED vars
  BY <1>0 DEF TypeInv, TeamTypeOK, HandlersOK, Stages, Actors, vars, people, grants, catalog, invitations, tokenRows
<1>1. ASSUME NEW q \in Requests, ReadBody(q)
      PROVE  TypeInv'
  BY <1>1 DEF ReadBody, Admitted, Goto, Answer, Idle, TypeInv, TeamTypeOK, HandlersOK, Stages, Actors, people, grants, catalog, invitations, tokenRows
<1>2. ASSUME NEW q \in Requests, Refuse(q)
      PROVE  TypeInv'
  BY <1>2 DEF Refuse, Goto, Answer, Idle, TypeInv, TeamTypeOK, HandlersOK, Stages, Actors, people, grants, catalog, invitations, tokenRows
<1>3. ASSUME NEW q \in Requests, RedeemChecks(q)
      PROVE  TypeInv'
  BY <1>3 DEF RedeemChecks, Goto, Answer, Idle, TypeInv, TeamTypeOK, HandlersOK, Stages, Actors, people, grants, catalog, invitations, tokenRows
<1>4. ASSUME NEW q \in Requests, LoginVerified(q)
      PROVE  TypeInv'
  BY <1>4 DEF LoginVerified, IssueToken, Goto, Answer, Idle, TypeInv, TeamTypeOK, HandlersOK, Stages, Actors, people, grants, catalog, invitations, tokenRows
<1>5. ASSUME NEW q \in Requests, NEW t \in Tokens, Present(q, t)
      PROVE  TypeInv'
  BY <1>5 DEF Present, Goto, Answer, Idle, TypeInv, TeamTypeOK, HandlersOK, Stages, Actors, people, grants, catalog, invitations, tokenRows
<1>6. ASSUME NEW q \in Requests, NEW t \in Tokens, TokenCommits(q, t)
      PROVE  TypeInv'
  BY <1>6 DEF TokenCommits, Goto, Answer, Idle, TypeInv, TeamTypeOK, HandlersOK, Stages, Actors, people, grants, catalog, invitations, tokenRows
<1>7. ASSUME NEW q \in Requests, NEW t \in Tokens, RevokeToken(q, t)
      PROVE  TypeInv'
  BY <1>7 DEF RevokeToken, Goto, Answer, Idle, TypeInv, TeamTypeOK, HandlersOK, Stages, Actors, people, grants, catalog, invitations, tokenRows
<1>8. ASSUME NEW q \in Requests, NEW e \in Emails, NEW rs \in RoleSets, CreateUserBegins(q, e, rs)
      PROVE  TypeInv'
  BY <1>8, TeamAssumption DEF CreateUserBegins, MayManage, Goto, TypeInv, TeamTypeOK, HandlersOK, Stages, Actors, people, grants, catalog, invitations, tokenRows
<1>9. ASSUME NEW q \in Requests, NEW u \in Users, CreateUserCommits(q, u)
      PROVE  TypeInv'
  <2>1. userRoles' \subseteq Users \X Roles
    BY <1>9 DEF CreateUserCommits, InsertUser, TypeInv, TeamTypeOK, HandlersOK
  <2>2. userScopes' \subseteq Users \X Scopes
    BY <1>9 DEF CreateUserCommits, InsertUser, TypeInv, TeamTypeOK, HandlersOK
  <2> QED
    BY <1>9, <2>1, <2>2 DEF CreateUserCommits, InsertUser, Goto, Answer, Idle, TypeInv, TeamTypeOK, HandlersOK, Stages, Actors, people, grants, catalog, invitations, tokenRows
<1>10. ASSUME NEW q \in Requests, NEW u \in Users, DisableUser(q, u)
      PROVE  TypeInv'
  BY <1>10 DEF DisableUser, MayManage, Goto, Answer, Idle, TypeInv, TeamTypeOK, HandlersOK, Stages, Actors, people, grants, catalog, invitations, tokenRows
<1>11. ASSUME NEW q \in Requests, NEW u \in Users, EnableUser(q, u)
      PROVE  TypeInv'
  BY <1>11 DEF EnableUser, MayManage, Goto, Answer, Idle, TypeInv, TeamTypeOK, HandlersOK, Stages, Actors, people, grants, catalog, invitations, tokenRows
<1>12. ASSUME NEW q \in Requests, NEW u \in Users, DeleteUser(q, u)
      PROVE  TypeInv'
  BY <1>12 DEF DeleteUser, RemoveUser, MayDelete, Admitted, Goto, Answer, Idle, TypeInv, TeamTypeOK, HandlersOK, Stages, Actors, people, grants, catalog, invitations, tokenRows
<1>13. ASSUME NEW q \in Requests, NEW u \in Users, RedeemCommits(q, u)
      PROVE  TypeInv'
  <2> DEFINE o == offer[req[q].invite]
  <2>1. o \in Offer /\ req[q].invite \in Invites
    BY <1>13 DEF RedeemCommits, TypeInv, HandlersOK
  <2>2. o.role \in Roles /\ o.scopes \subseteq Scopes /\ o.email \in Emails
    BY <2>1 DEF Offer
  <2>3. userRoles' \subseteq Users \X Roles /\ userScopes' \subseteq Users \X Scopes
    BY <1>13, <2>2 DEF RedeemCommits, InsertUser, TypeInv, TeamTypeOK
  <2>4. /\ status' \in [Users -> {"none", "enabled", "disabled", "deleted"}]
        /\ email' \in [Users -> Emails \cup {Nobody}]
    BY <1>13, <2>2 DEF RedeemCommits, InsertUser, TypeInv, TeamTypeOK
  <2>5. /\ invite' \in [Invites -> {"none", "open", "expired", "used", "revoked"}]
        /\ \A i \in Invites : invite[i] # "none" <=> invite'[i] # "none"
    BY <1>13, <2>1 DEF RedeemCommits, TypeInv, TeamTypeOK, HandlersOK
  <2> QED
    BY <1>13, <2>3, <2>4, <2>5 DEF RedeemCommits, Answer, Goto, Idle, TypeInv, TeamTypeOK, HandlersOK, Stages, Actors, people, grants, catalog, invitations, tokenRows
<1>14. ASSUME NEW q \in Requests, NEW u \in Users, LoginBegins(q, u)
      PROVE  TypeInv'
  BY <1>14 DEF LoginBegins, Goto, Answer, Idle, TypeInv, TeamTypeOK, HandlersOK, Stages, Actors, people, grants, catalog, invitations, tokenRows
<1>15. ASSUME NEW q \in Requests, NEW u \in Users, NEW r \in Roles, AddUserRole(q, u, r)
      PROVE  TypeInv'
  <2>1. userRoles' \subseteq Users \X Roles
    BY <1>15 DEF AddUserRole, TypeInv, TeamTypeOK, HandlersOK, people, grants, catalog, invitations, tokenRows
  <2>2. userScopes' \subseteq Users \X Scopes
    BY <1>15 DEF AddUserRole, TypeInv, TeamTypeOK, HandlersOK, people, grants, catalog, invitations, tokenRows
  <2> QED
    BY <1>15, <2>1, <2>2 DEF AddUserRole, Goto, Answer, Idle, TypeInv, TeamTypeOK, HandlersOK, Stages, Actors, people, grants, catalog, invitations, tokenRows
<1>16. ASSUME NEW q \in Requests, NEW u \in Users, NEW r \in Roles, RemoveUserRole(q, u, r)
      PROVE  TypeInv'
  BY <1>16 DEF RemoveUserRole, MayDelete, Admitted, Goto, Answer, Idle, TypeInv, TeamTypeOK, HandlersOK, Stages, Actors, people, grants, catalog, invitations, tokenRows
<1>17. ASSUME NEW q \in Requests, NEW u \in Users, NEW s \in Scopes, GrantAccess(q, u, s)
      PROVE  TypeInv'
  <2>1. userRoles' \subseteq Users \X Roles
    BY <1>17 DEF GrantAccess, TypeInv, TeamTypeOK, HandlersOK, people, grants, catalog, invitations, tokenRows
  <2>2. userScopes' \subseteq Users \X Scopes
    BY <1>17 DEF GrantAccess, TypeInv, TeamTypeOK, HandlersOK, people, grants, catalog, invitations, tokenRows
  <2> QED
    BY <1>17, <2>1, <2>2 DEF GrantAccess, Goto, Answer, Idle, TypeInv, TeamTypeOK, HandlersOK, Stages, Actors, people, grants, catalog, invitations, tokenRows
<1>18. ASSUME NEW q \in Requests, NEW u \in Users, NEW s \in Scopes, RevokeAccess(q, u, s)
      PROVE  TypeInv'
  BY <1>18 DEF RevokeAccess, MayDelete, Admitted, Goto, Answer, Idle, TypeInv, TeamTypeOK, HandlersOK, Stages, Actors, people, grants, catalog, invitations, tokenRows
<1>19. ASSUME NEW q \in Requests, NEW u \in Actors, CreateToken(q, u)
      PROVE  TypeInv'
  BY <1>19 DEF CreateToken, IssueToken, Goto, Answer, Idle, TypeInv, TeamTypeOK, HandlersOK, Stages, Actors, people, grants, catalog, invitations, tokenRows
<1>20. ASSUME NEW q \in Requests, NEW r \in CustomRoles, DeleteRole(q, r)
      PROVE  TypeInv'
  BY <1>20 DEF DeleteRole, MayDelete, Admitted, Goto, Answer, Idle, TypeInv, TeamTypeOK, HandlersOK, Stages, Actors, people, grants, catalog, invitations, tokenRows
<1>21. ASSUME NEW q \in Requests, NEW r \in CustomRoles, NEW manage \in BOOLEAN, CreateRole(q, r, manage)
      PROVE  TypeInv'
  BY <1>21 DEF CreateRole, MayManage, Goto, Answer, Idle, TypeInv, TeamTypeOK, HandlersOK, Stages, Actors, people, grants, catalog, invitations, tokenRows
<1>22. ASSUME NEW q \in Requests, NEW o \in Offers, CreateInvitationBegins(q, o)
      PROVE  TypeInv'
  BY <1>22 DEF CreateInvitationBegins, MayManage, Goto, Answer, Idle, TypeInv, TeamTypeOK, HandlersOK, Stages, Actors, people, grants, catalog, invitations, tokenRows
<1>23. ASSUME NEW q \in Requests, NEW i \in Invites, CreateInvitationCommits(q, i)
      PROVE  TypeInv'
  BY <1>23, TeamAssumption DEF CreateInvitationCommits, Goto, Answer, Idle, TypeInv, TeamTypeOK, HandlersOK, Stages, Actors, people, grants, catalog, invitations, tokenRows
<1>24. ASSUME NEW q \in Requests, NEW i \in Invites, RevokeInvitation(q, i)
      PROVE  TypeInv'
  BY <1>24 DEF RevokeInvitation, MayManage, Goto, Answer, Idle, TypeInv, TeamTypeOK, HandlersOK, Stages, Actors, people, grants, catalog, invitations, tokenRows
<1>25. ASSUME NEW q \in Requests, NEW i \in Invites, RedeemBegins(q, i)
      PROVE  TypeInv'
  BY <1>25 DEF RedeemBegins, Goto, Answer, Idle, TypeInv, TeamTypeOK, HandlersOK, Stages, Actors, people, grants, catalog, invitations, tokenRows
<1>26. ASSUME NEW i \in Invites, InviteExpires(i)
      PROVE  TypeInv'
  BY <1>26 DEF InviteExpires, TypeInv, TeamTypeOK, HandlersOK, Stages, Actors, people, grants, catalog, invitations, tokenRows
<1> QED
  BY <1>0, <1>1, <1>2, <1>3, <1>4, <1>5, <1>6, <1>7, <1>8, <1>9, <1>10, <1>11, <1>12, <1>13, <1>14, <1>15, <1>16, <1>17, <1>18, <1>19, <1>20, <1>21, <1>22, <1>23, <1>24, <1>25, <1>26 DEF Next

\* Rows of grants come with their user and go with him.
LEMMA GrantsStep ==
  ASSUME TypeInv, GrantsHaveUsers, [Next]_vars
  PROVE  GrantsHaveUsers'
<1>0. CASE UNCHANGED vars
  BY <1>0 DEF TypeInv, TeamTypeOK, GrantsHaveUsers, Exists, vars, people, grants, catalog, invitations, tokenRows
<1>1. ASSUME NEW q \in Requests, ReadBody(q)
      PROVE  GrantsHaveUsers'
  BY <1>1 DEF ReadBody, Admitted, Goto, Answer, Idle, TypeInv, TeamTypeOK, GrantsHaveUsers, Exists, people, grants, catalog, invitations, tokenRows
<1>2. ASSUME NEW q \in Requests, Refuse(q)
      PROVE  GrantsHaveUsers'
  BY <1>2 DEF Refuse, Goto, Answer, Idle, TypeInv, TeamTypeOK, GrantsHaveUsers, Exists, people, grants, catalog, invitations, tokenRows
<1>3. ASSUME NEW q \in Requests, RedeemChecks(q)
      PROVE  GrantsHaveUsers'
  BY <1>3 DEF RedeemChecks, Goto, Answer, Idle, TypeInv, TeamTypeOK, GrantsHaveUsers, Exists, people, grants, catalog, invitations, tokenRows
<1>4. ASSUME NEW q \in Requests, LoginVerified(q)
      PROVE  GrantsHaveUsers'
  BY <1>4 DEF LoginVerified, IssueToken, Goto, Answer, Idle, TypeInv, TeamTypeOK, GrantsHaveUsers, Exists, people, grants, catalog, invitations, tokenRows
<1>5. ASSUME NEW q \in Requests, NEW t \in Tokens, Present(q, t)
      PROVE  GrantsHaveUsers'
  BY <1>5 DEF Present, Goto, Answer, Idle, TypeInv, TeamTypeOK, GrantsHaveUsers, Exists, people, grants, catalog, invitations, tokenRows
<1>6. ASSUME NEW q \in Requests, NEW t \in Tokens, TokenCommits(q, t)
      PROVE  GrantsHaveUsers'
  BY <1>6 DEF TokenCommits, Goto, Answer, Idle, TypeInv, TeamTypeOK, GrantsHaveUsers, Exists, people, grants, catalog, invitations, tokenRows
<1>7. ASSUME NEW q \in Requests, NEW t \in Tokens, RevokeToken(q, t)
      PROVE  GrantsHaveUsers'
  BY <1>7 DEF RevokeToken, Goto, Answer, Idle, TypeInv, TeamTypeOK, GrantsHaveUsers, Exists, people, grants, catalog, invitations, tokenRows
<1>8. ASSUME NEW q \in Requests, NEW e \in Emails, NEW rs \in RoleSets, CreateUserBegins(q, e, rs)
      PROVE  GrantsHaveUsers'
  BY <1>8 DEF CreateUserBegins, MayManage, Goto, Answer, Idle, TypeInv, TeamTypeOK, GrantsHaveUsers, Exists, people, grants, catalog, invitations, tokenRows
<1>9. ASSUME NEW q \in Requests, NEW u \in Users, CreateUserCommits(q, u)
      PROVE  GrantsHaveUsers'
  BY <1>9 DEF CreateUserCommits, InsertUser, Goto, Answer, Idle, TypeInv, TeamTypeOK, GrantsHaveUsers, Exists, people, grants, catalog, invitations, tokenRows
<1>10. ASSUME NEW q \in Requests, NEW u \in Users, DisableUser(q, u)
      PROVE  GrantsHaveUsers'
  BY <1>10 DEF DisableUser, MayManage, Goto, Answer, Idle, TypeInv, TeamTypeOK, GrantsHaveUsers, Exists, people, grants, catalog, invitations, tokenRows
<1>11. ASSUME NEW q \in Requests, NEW u \in Users, EnableUser(q, u)
      PROVE  GrantsHaveUsers'
  BY <1>11 DEF EnableUser, MayManage, Goto, Answer, Idle, TypeInv, TeamTypeOK, GrantsHaveUsers, Exists, people, grants, catalog, invitations, tokenRows
<1>12. ASSUME NEW q \in Requests, NEW u \in Users, DeleteUser(q, u)
      PROVE  GrantsHaveUsers'
  BY <1>12 DEF DeleteUser, RemoveUser, MayDelete, Admitted, Goto, Answer, Idle, TypeInv, TeamTypeOK, GrantsHaveUsers, Exists, people, grants, catalog, invitations, tokenRows
<1>13. ASSUME NEW q \in Requests, NEW u \in Users, RedeemCommits(q, u)
      PROVE  GrantsHaveUsers'
  BY <1>13 DEF RedeemCommits, InsertUser, Goto, Answer, Idle, TypeInv, TeamTypeOK, GrantsHaveUsers, Exists, people, grants, catalog, invitations, tokenRows
<1>14. ASSUME NEW q \in Requests, NEW u \in Users, LoginBegins(q, u)
      PROVE  GrantsHaveUsers'
  BY <1>14 DEF LoginBegins, Goto, Answer, Idle, TypeInv, TeamTypeOK, GrantsHaveUsers, Exists, people, grants, catalog, invitations, tokenRows
<1>15. ASSUME NEW q \in Requests, NEW u \in Users, NEW r \in Roles, AddUserRole(q, u, r)
      PROVE  GrantsHaveUsers'
  BY <1>15 DEF AddUserRole, MayManage, Goto, Answer, Idle, TypeInv, TeamTypeOK, GrantsHaveUsers, Exists, people, grants, catalog, invitations, tokenRows
<1>16. ASSUME NEW q \in Requests, NEW u \in Users, NEW r \in Roles, RemoveUserRole(q, u, r)
      PROVE  GrantsHaveUsers'
  BY <1>16 DEF RemoveUserRole, MayDelete, Admitted, Goto, Answer, Idle, TypeInv, TeamTypeOK, GrantsHaveUsers, Exists, people, grants, catalog, invitations, tokenRows
<1>17. ASSUME NEW q \in Requests, NEW u \in Users, NEW s \in Scopes, GrantAccess(q, u, s)
      PROVE  GrantsHaveUsers'
  BY <1>17 DEF GrantAccess, MayManage, Goto, Answer, Idle, TypeInv, TeamTypeOK, GrantsHaveUsers, Exists, people, grants, catalog, invitations, tokenRows
<1>18. ASSUME NEW q \in Requests, NEW u \in Users, NEW s \in Scopes, RevokeAccess(q, u, s)
      PROVE  GrantsHaveUsers'
  BY <1>18 DEF RevokeAccess, MayDelete, Admitted, Goto, Answer, Idle, TypeInv, TeamTypeOK, GrantsHaveUsers, Exists, people, grants, catalog, invitations, tokenRows
<1>19. ASSUME NEW q \in Requests, NEW u \in Actors, CreateToken(q, u)
      PROVE  GrantsHaveUsers'
  BY <1>19 DEF CreateToken, IssueToken, Goto, Answer, Idle, TypeInv, TeamTypeOK, GrantsHaveUsers, Exists, people, grants, catalog, invitations, tokenRows
<1>20. ASSUME NEW q \in Requests, NEW r \in CustomRoles, DeleteRole(q, r)
      PROVE  GrantsHaveUsers'
  BY <1>20 DEF DeleteRole, MayDelete, Admitted, Goto, Answer, Idle, TypeInv, TeamTypeOK, GrantsHaveUsers, Exists, people, grants, catalog, invitations, tokenRows
<1>21. ASSUME NEW q \in Requests, NEW r \in CustomRoles, NEW manage \in BOOLEAN, CreateRole(q, r, manage)
      PROVE  GrantsHaveUsers'
  BY <1>21 DEF CreateRole, MayManage, Goto, Answer, Idle, TypeInv, TeamTypeOK, GrantsHaveUsers, Exists, people, grants, catalog, invitations, tokenRows
<1>22. ASSUME NEW q \in Requests, NEW o \in Offers, CreateInvitationBegins(q, o)
      PROVE  GrantsHaveUsers'
  BY <1>22 DEF CreateInvitationBegins, MayManage, Goto, Answer, Idle, TypeInv, TeamTypeOK, GrantsHaveUsers, Exists, people, grants, catalog, invitations, tokenRows
<1>23. ASSUME NEW q \in Requests, NEW i \in Invites, CreateInvitationCommits(q, i)
      PROVE  GrantsHaveUsers'
  BY <1>23 DEF CreateInvitationCommits, Goto, Answer, Idle, TypeInv, TeamTypeOK, GrantsHaveUsers, Exists, people, grants, catalog, invitations, tokenRows
<1>24. ASSUME NEW q \in Requests, NEW i \in Invites, RevokeInvitation(q, i)
      PROVE  GrantsHaveUsers'
  BY <1>24 DEF RevokeInvitation, MayManage, Goto, Answer, Idle, TypeInv, TeamTypeOK, GrantsHaveUsers, Exists, people, grants, catalog, invitations, tokenRows
<1>25. ASSUME NEW q \in Requests, NEW i \in Invites, RedeemBegins(q, i)
      PROVE  GrantsHaveUsers'
  BY <1>25 DEF RedeemBegins, Goto, Answer, Idle, TypeInv, TeamTypeOK, GrantsHaveUsers, Exists, people, grants, catalog, invitations, tokenRows
<1>26. ASSUME NEW i \in Invites, InviteExpires(i)
      PROVE  GrantsHaveUsers'
  BY <1>26 DEF InviteExpires, TypeInv, TeamTypeOK, GrantsHaveUsers, Exists, people, grants, catalog, invitations, tokenRows
<1> QED
  BY <1>0, <1>1, <1>2, <1>3, <1>4, <1>5, <1>6, <1>7, <1>8, <1>9, <1>10, <1>11, <1>12, <1>13, <1>14, <1>15, <1>16, <1>17, <1>18, <1>19, <1>20, <1>21, <1>22, <1>23, <1>24, <1>25, <1>26 DEF Next

\* Only InsertUser brings an address, and the constraint holds there.
LEMMA EmailsStep ==
  ASSUME TypeInv, EmailsAreUnique, [Next]_vars
  PROVE  EmailsAreUnique'
<1>0. CASE UNCHANGED vars
  BY <1>0 DEF TypeInv, TeamTypeOK, EmailsAreUnique, EmailFree, Exists, vars, people, grants, catalog, invitations, tokenRows
<1>1. ASSUME NEW q \in Requests, ReadBody(q)
      PROVE  EmailsAreUnique'
  BY <1>1 DEF ReadBody, Admitted, Goto, Answer, Idle, TypeInv, TeamTypeOK, EmailsAreUnique, EmailFree, Exists, people, grants, catalog, invitations, tokenRows
<1>2. ASSUME NEW q \in Requests, Refuse(q)
      PROVE  EmailsAreUnique'
  BY <1>2 DEF Refuse, Goto, Answer, Idle, TypeInv, TeamTypeOK, EmailsAreUnique, EmailFree, Exists, people, grants, catalog, invitations, tokenRows
<1>3. ASSUME NEW q \in Requests, RedeemChecks(q)
      PROVE  EmailsAreUnique'
  BY <1>3 DEF RedeemChecks, Goto, Answer, Idle, TypeInv, TeamTypeOK, EmailsAreUnique, EmailFree, Exists, people, grants, catalog, invitations, tokenRows
<1>4. ASSUME NEW q \in Requests, LoginVerified(q)
      PROVE  EmailsAreUnique'
  BY <1>4 DEF LoginVerified, IssueToken, Goto, Answer, Idle, TypeInv, TeamTypeOK, EmailsAreUnique, EmailFree, Exists, people, grants, catalog, invitations, tokenRows
<1>5. ASSUME NEW q \in Requests, NEW t \in Tokens, Present(q, t)
      PROVE  EmailsAreUnique'
  BY <1>5 DEF Present, Goto, Answer, Idle, TypeInv, TeamTypeOK, EmailsAreUnique, EmailFree, Exists, people, grants, catalog, invitations, tokenRows
<1>6. ASSUME NEW q \in Requests, NEW t \in Tokens, TokenCommits(q, t)
      PROVE  EmailsAreUnique'
  BY <1>6 DEF TokenCommits, Goto, Answer, Idle, TypeInv, TeamTypeOK, EmailsAreUnique, EmailFree, Exists, people, grants, catalog, invitations, tokenRows
<1>7. ASSUME NEW q \in Requests, NEW t \in Tokens, RevokeToken(q, t)
      PROVE  EmailsAreUnique'
  BY <1>7 DEF RevokeToken, Goto, Answer, Idle, TypeInv, TeamTypeOK, EmailsAreUnique, EmailFree, Exists, people, grants, catalog, invitations, tokenRows
<1>8. ASSUME NEW q \in Requests, NEW e \in Emails, NEW rs \in RoleSets, CreateUserBegins(q, e, rs)
      PROVE  EmailsAreUnique'
  BY <1>8 DEF CreateUserBegins, MayManage, Goto, Answer, Idle, TypeInv, TeamTypeOK, EmailsAreUnique, EmailFree, Exists, people, grants, catalog, invitations, tokenRows
<1>9. ASSUME NEW q \in Requests, NEW u \in Users, CreateUserCommits(q, u)
      PROVE  EmailsAreUnique'
  BY <1>9 DEF CreateUserCommits, InsertUser, Goto, Answer, Idle, TypeInv, TeamTypeOK, EmailsAreUnique, EmailFree, Exists, people, grants, catalog, invitations, tokenRows
<1>10. ASSUME NEW q \in Requests, NEW u \in Users, DisableUser(q, u)
      PROVE  EmailsAreUnique'
  BY <1>10 DEF DisableUser, MayManage, Goto, Answer, Idle, TypeInv, TeamTypeOK, EmailsAreUnique, EmailFree, Exists, people, grants, catalog, invitations, tokenRows
<1>11. ASSUME NEW q \in Requests, NEW u \in Users, EnableUser(q, u)
      PROVE  EmailsAreUnique'
  BY <1>11 DEF EnableUser, MayManage, Goto, Answer, Idle, TypeInv, TeamTypeOK, EmailsAreUnique, EmailFree, Exists, people, grants, catalog, invitations, tokenRows
<1>12. ASSUME NEW q \in Requests, NEW u \in Users, DeleteUser(q, u)
      PROVE  EmailsAreUnique'
  BY <1>12 DEF DeleteUser, RemoveUser, MayDelete, Admitted, Goto, Answer, Idle, TypeInv, TeamTypeOK, EmailsAreUnique, EmailFree, Exists, people, grants, catalog, invitations, tokenRows
<1>13. ASSUME NEW q \in Requests, NEW u \in Users, RedeemCommits(q, u)
      PROVE  EmailsAreUnique'
  BY <1>13 DEF RedeemCommits, InsertUser, Goto, Answer, Idle, TypeInv, TeamTypeOK, EmailsAreUnique, EmailFree, Exists, people, grants, catalog, invitations, tokenRows
<1>14. ASSUME NEW q \in Requests, NEW u \in Users, LoginBegins(q, u)
      PROVE  EmailsAreUnique'
  BY <1>14 DEF LoginBegins, Goto, Answer, Idle, TypeInv, TeamTypeOK, EmailsAreUnique, EmailFree, Exists, people, grants, catalog, invitations, tokenRows
<1>15. ASSUME NEW q \in Requests, NEW u \in Users, NEW r \in Roles, AddUserRole(q, u, r)
      PROVE  EmailsAreUnique'
  BY <1>15 DEF AddUserRole, MayManage, Goto, Answer, Idle, TypeInv, TeamTypeOK, EmailsAreUnique, EmailFree, Exists, people, grants, catalog, invitations, tokenRows
<1>16. ASSUME NEW q \in Requests, NEW u \in Users, NEW r \in Roles, RemoveUserRole(q, u, r)
      PROVE  EmailsAreUnique'
  BY <1>16 DEF RemoveUserRole, MayDelete, Admitted, Goto, Answer, Idle, TypeInv, TeamTypeOK, EmailsAreUnique, EmailFree, Exists, people, grants, catalog, invitations, tokenRows
<1>17. ASSUME NEW q \in Requests, NEW u \in Users, NEW s \in Scopes, GrantAccess(q, u, s)
      PROVE  EmailsAreUnique'
  BY <1>17 DEF GrantAccess, MayManage, Goto, Answer, Idle, TypeInv, TeamTypeOK, EmailsAreUnique, EmailFree, Exists, people, grants, catalog, invitations, tokenRows
<1>18. ASSUME NEW q \in Requests, NEW u \in Users, NEW s \in Scopes, RevokeAccess(q, u, s)
      PROVE  EmailsAreUnique'
  BY <1>18 DEF RevokeAccess, MayDelete, Admitted, Goto, Answer, Idle, TypeInv, TeamTypeOK, EmailsAreUnique, EmailFree, Exists, people, grants, catalog, invitations, tokenRows
<1>19. ASSUME NEW q \in Requests, NEW u \in Actors, CreateToken(q, u)
      PROVE  EmailsAreUnique'
  BY <1>19 DEF CreateToken, IssueToken, Goto, Answer, Idle, TypeInv, TeamTypeOK, EmailsAreUnique, EmailFree, Exists, people, grants, catalog, invitations, tokenRows
<1>20. ASSUME NEW q \in Requests, NEW r \in CustomRoles, DeleteRole(q, r)
      PROVE  EmailsAreUnique'
  BY <1>20 DEF DeleteRole, MayDelete, Admitted, Goto, Answer, Idle, TypeInv, TeamTypeOK, EmailsAreUnique, EmailFree, Exists, people, grants, catalog, invitations, tokenRows
<1>21. ASSUME NEW q \in Requests, NEW r \in CustomRoles, NEW manage \in BOOLEAN, CreateRole(q, r, manage)
      PROVE  EmailsAreUnique'
  BY <1>21 DEF CreateRole, MayManage, Goto, Answer, Idle, TypeInv, TeamTypeOK, EmailsAreUnique, EmailFree, Exists, people, grants, catalog, invitations, tokenRows
<1>22. ASSUME NEW q \in Requests, NEW o \in Offers, CreateInvitationBegins(q, o)
      PROVE  EmailsAreUnique'
  BY <1>22 DEF CreateInvitationBegins, MayManage, Goto, Answer, Idle, TypeInv, TeamTypeOK, EmailsAreUnique, EmailFree, Exists, people, grants, catalog, invitations, tokenRows
<1>23. ASSUME NEW q \in Requests, NEW i \in Invites, CreateInvitationCommits(q, i)
      PROVE  EmailsAreUnique'
  BY <1>23 DEF CreateInvitationCommits, Goto, Answer, Idle, TypeInv, TeamTypeOK, EmailsAreUnique, EmailFree, Exists, people, grants, catalog, invitations, tokenRows
<1>24. ASSUME NEW q \in Requests, NEW i \in Invites, RevokeInvitation(q, i)
      PROVE  EmailsAreUnique'
  BY <1>24 DEF RevokeInvitation, MayManage, Goto, Answer, Idle, TypeInv, TeamTypeOK, EmailsAreUnique, EmailFree, Exists, people, grants, catalog, invitations, tokenRows
<1>25. ASSUME NEW q \in Requests, NEW i \in Invites, RedeemBegins(q, i)
      PROVE  EmailsAreUnique'
  BY <1>25 DEF RedeemBegins, Goto, Answer, Idle, TypeInv, TeamTypeOK, EmailsAreUnique, EmailFree, Exists, people, grants, catalog, invitations, tokenRows
<1>26. ASSUME NEW i \in Invites, InviteExpires(i)
      PROVE  EmailsAreUnique'
  BY <1>26 DEF InviteExpires, TypeInv, TeamTypeOK, EmailsAreUnique, EmailFree, Exists, people, grants, catalog, invitations, tokenRows
<1> QED
  BY <1>0, <1>1, <1>2, <1>3, <1>4, <1>5, <1>6, <1>7, <1>8, <1>9, <1>10, <1>11, <1>12, <1>13, <1>14, <1>15, <1>16, <1>17, <1>18, <1>19, <1>20, <1>21, <1>22, <1>23, <1>24, <1>25, <1>26 DEF Next

\* Permissions of a role go with it.
LEMMA ManagersStep ==
  ASSUME TypeInv, ManagersExist, [Next]_vars
  PROVE  ManagersExist'
<1>0. CASE UNCHANGED vars
  BY <1>0 DEF TypeInv, TeamTypeOK, ManagersExist, RoleExists, vars, people, grants, catalog, invitations, tokenRows
<1>1. ASSUME NEW q \in Requests, ReadBody(q)
      PROVE  ManagersExist'
  BY <1>1 DEF ReadBody, Admitted, Goto, Answer, Idle, TypeInv, TeamTypeOK, ManagersExist, RoleExists, people, grants, catalog, invitations, tokenRows
<1>2. ASSUME NEW q \in Requests, Refuse(q)
      PROVE  ManagersExist'
  BY <1>2 DEF Refuse, Goto, Answer, Idle, TypeInv, TeamTypeOK, ManagersExist, RoleExists, people, grants, catalog, invitations, tokenRows
<1>3. ASSUME NEW q \in Requests, RedeemChecks(q)
      PROVE  ManagersExist'
  BY <1>3 DEF RedeemChecks, Goto, Answer, Idle, TypeInv, TeamTypeOK, ManagersExist, RoleExists, people, grants, catalog, invitations, tokenRows
<1>4. ASSUME NEW q \in Requests, LoginVerified(q)
      PROVE  ManagersExist'
  BY <1>4 DEF LoginVerified, IssueToken, Goto, Answer, Idle, TypeInv, TeamTypeOK, ManagersExist, RoleExists, people, grants, catalog, invitations, tokenRows
<1>5. ASSUME NEW q \in Requests, NEW t \in Tokens, Present(q, t)
      PROVE  ManagersExist'
  BY <1>5 DEF Present, Goto, Answer, Idle, TypeInv, TeamTypeOK, ManagersExist, RoleExists, people, grants, catalog, invitations, tokenRows
<1>6. ASSUME NEW q \in Requests, NEW t \in Tokens, TokenCommits(q, t)
      PROVE  ManagersExist'
  BY <1>6 DEF TokenCommits, Goto, Answer, Idle, TypeInv, TeamTypeOK, ManagersExist, RoleExists, people, grants, catalog, invitations, tokenRows
<1>7. ASSUME NEW q \in Requests, NEW t \in Tokens, RevokeToken(q, t)
      PROVE  ManagersExist'
  BY <1>7 DEF RevokeToken, Goto, Answer, Idle, TypeInv, TeamTypeOK, ManagersExist, RoleExists, people, grants, catalog, invitations, tokenRows
<1>8. ASSUME NEW q \in Requests, NEW e \in Emails, NEW rs \in RoleSets, CreateUserBegins(q, e, rs)
      PROVE  ManagersExist'
  BY <1>8 DEF CreateUserBegins, MayManage, Goto, Answer, Idle, TypeInv, TeamTypeOK, ManagersExist, RoleExists, people, grants, catalog, invitations, tokenRows
<1>9. ASSUME NEW q \in Requests, NEW u \in Users, CreateUserCommits(q, u)
      PROVE  ManagersExist'
  BY <1>9 DEF CreateUserCommits, InsertUser, Goto, Answer, Idle, TypeInv, TeamTypeOK, ManagersExist, RoleExists, people, grants, catalog, invitations, tokenRows
<1>10. ASSUME NEW q \in Requests, NEW u \in Users, DisableUser(q, u)
      PROVE  ManagersExist'
  BY <1>10 DEF DisableUser, MayManage, Goto, Answer, Idle, TypeInv, TeamTypeOK, ManagersExist, RoleExists, people, grants, catalog, invitations, tokenRows
<1>11. ASSUME NEW q \in Requests, NEW u \in Users, EnableUser(q, u)
      PROVE  ManagersExist'
  BY <1>11 DEF EnableUser, MayManage, Goto, Answer, Idle, TypeInv, TeamTypeOK, ManagersExist, RoleExists, people, grants, catalog, invitations, tokenRows
<1>12. ASSUME NEW q \in Requests, NEW u \in Users, DeleteUser(q, u)
      PROVE  ManagersExist'
  BY <1>12 DEF DeleteUser, RemoveUser, MayDelete, Admitted, Goto, Answer, Idle, TypeInv, TeamTypeOK, ManagersExist, RoleExists, people, grants, catalog, invitations, tokenRows
<1>13. ASSUME NEW q \in Requests, NEW u \in Users, RedeemCommits(q, u)
      PROVE  ManagersExist'
  BY <1>13 DEF RedeemCommits, InsertUser, Goto, Answer, Idle, TypeInv, TeamTypeOK, ManagersExist, RoleExists, people, grants, catalog, invitations, tokenRows
<1>14. ASSUME NEW q \in Requests, NEW u \in Users, LoginBegins(q, u)
      PROVE  ManagersExist'
  BY <1>14 DEF LoginBegins, Goto, Answer, Idle, TypeInv, TeamTypeOK, ManagersExist, RoleExists, people, grants, catalog, invitations, tokenRows
<1>15. ASSUME NEW q \in Requests, NEW u \in Users, NEW r \in Roles, AddUserRole(q, u, r)
      PROVE  ManagersExist'
  BY <1>15 DEF AddUserRole, MayManage, Goto, Answer, Idle, TypeInv, TeamTypeOK, ManagersExist, RoleExists, people, grants, catalog, invitations, tokenRows
<1>16. ASSUME NEW q \in Requests, NEW u \in Users, NEW r \in Roles, RemoveUserRole(q, u, r)
      PROVE  ManagersExist'
  BY <1>16 DEF RemoveUserRole, MayDelete, Admitted, Goto, Answer, Idle, TypeInv, TeamTypeOK, ManagersExist, RoleExists, people, grants, catalog, invitations, tokenRows
<1>17. ASSUME NEW q \in Requests, NEW u \in Users, NEW s \in Scopes, GrantAccess(q, u, s)
      PROVE  ManagersExist'
  BY <1>17 DEF GrantAccess, MayManage, Goto, Answer, Idle, TypeInv, TeamTypeOK, ManagersExist, RoleExists, people, grants, catalog, invitations, tokenRows
<1>18. ASSUME NEW q \in Requests, NEW u \in Users, NEW s \in Scopes, RevokeAccess(q, u, s)
      PROVE  ManagersExist'
  BY <1>18 DEF RevokeAccess, MayDelete, Admitted, Goto, Answer, Idle, TypeInv, TeamTypeOK, ManagersExist, RoleExists, people, grants, catalog, invitations, tokenRows
<1>19. ASSUME NEW q \in Requests, NEW u \in Actors, CreateToken(q, u)
      PROVE  ManagersExist'
  BY <1>19 DEF CreateToken, IssueToken, Goto, Answer, Idle, TypeInv, TeamTypeOK, ManagersExist, RoleExists, people, grants, catalog, invitations, tokenRows
<1>20. ASSUME NEW q \in Requests, NEW r \in CustomRoles, DeleteRole(q, r)
      PROVE  ManagersExist'
  BY <1>20 DEF DeleteRole, MayDelete, Admitted, Goto, Answer, Idle, TypeInv, TeamTypeOK, ManagersExist, RoleExists, people, grants, catalog, invitations, tokenRows
<1>21. ASSUME NEW q \in Requests, NEW r \in CustomRoles, NEW manage \in BOOLEAN, CreateRole(q, r, manage)
      PROVE  ManagersExist'
  BY <1>21 DEF CreateRole, MayManage, Goto, Answer, Idle, TypeInv, TeamTypeOK, ManagersExist, RoleExists, people, grants, catalog, invitations, tokenRows
<1>22. ASSUME NEW q \in Requests, NEW o \in Offers, CreateInvitationBegins(q, o)
      PROVE  ManagersExist'
  BY <1>22 DEF CreateInvitationBegins, MayManage, Goto, Answer, Idle, TypeInv, TeamTypeOK, ManagersExist, RoleExists, people, grants, catalog, invitations, tokenRows
<1>23. ASSUME NEW q \in Requests, NEW i \in Invites, CreateInvitationCommits(q, i)
      PROVE  ManagersExist'
  BY <1>23 DEF CreateInvitationCommits, Goto, Answer, Idle, TypeInv, TeamTypeOK, ManagersExist, RoleExists, people, grants, catalog, invitations, tokenRows
<1>24. ASSUME NEW q \in Requests, NEW i \in Invites, RevokeInvitation(q, i)
      PROVE  ManagersExist'
  BY <1>24 DEF RevokeInvitation, MayManage, Goto, Answer, Idle, TypeInv, TeamTypeOK, ManagersExist, RoleExists, people, grants, catalog, invitations, tokenRows
<1>25. ASSUME NEW q \in Requests, NEW i \in Invites, RedeemBegins(q, i)
      PROVE  ManagersExist'
  BY <1>25 DEF RedeemBegins, Goto, Answer, Idle, TypeInv, TeamTypeOK, ManagersExist, RoleExists, people, grants, catalog, invitations, tokenRows
<1>26. ASSUME NEW i \in Invites, InviteExpires(i)
      PROVE  ManagersExist'
  BY <1>26 DEF InviteExpires, TypeInv, TeamTypeOK, ManagersExist, RoleExists, people, grants, catalog, invitations, tokenRows
<1> QED
  BY <1>0, <1>1, <1>2, <1>3, <1>4, <1>5, <1>6, <1>7, <1>8, <1>9, <1>10, <1>11, <1>12, <1>13, <1>14, <1>15, <1>16, <1>17, <1>18, <1>19, <1>20, <1>21, <1>22, <1>23, <1>24, <1>25, <1>26 DEF Next

\* Taking one admin away while NotLastAdmin holds leaves another.
LEMMA AnotherAdmin ==
  ASSUME TypeInv, NotLastAdmin, NEW u \in Users
  PROVE  Admins \ {u} # {}
<1>1. IsFiniteSet(Admins) /\ IsFiniteSet({u})
  BY TeamAssumption, FS_Subset, FS_Singleton DEF Admins
<1>2. Cardinality({u}) = 1 /\ Cardinality({}) = 0
  BY FS_Singleton, FS_EmptySet
<1>3. SUFFICES ASSUME Admins \subseteq {u} PROVE FALSE
  OBVIOUS
<1>4. Cardinality(Admins) <= 1
  BY <1>1, <1>2, <1>3, FS_Subset
<1>5. Cardinality(Admins) \in Nat
  BY <1>1, FS_CardinalityType
<1> QED
  BY <1>4, <1>5 DEF NotLastAdmin

\* No step takes the last admin away.
LEMMA AdminStep ==
  ASSUME TypeInv, Admins # {}, [Next]_vars
  PROVE  Admins' # {}
<1>0. CASE UNCHANGED vars
  BY <1>0 DEF Admins, vars, people, grants, catalog, invitations, tokenRows
<1>1. ASSUME NEW q \in Requests, ReadBody(q)
      PROVE  Admins' # {}
  BY <1>1 DEF ReadBody, Admitted, Goto, Answer, Idle, Admins, people, grants, catalog, invitations, tokenRows
<1>2. ASSUME NEW q \in Requests, Refuse(q)
      PROVE  Admins' # {}
  BY <1>2 DEF Refuse, Goto, Answer, Idle, Admins, people, grants, catalog, invitations, tokenRows
<1>3. ASSUME NEW q \in Requests, RedeemChecks(q)
      PROVE  Admins' # {}
  BY <1>3 DEF RedeemChecks, Goto, Answer, Idle, Admins, people, grants, catalog, invitations, tokenRows
<1>4. ASSUME NEW q \in Requests, LoginVerified(q)
      PROVE  Admins' # {}
  BY <1>4 DEF LoginVerified, IssueToken, Goto, Answer, Idle, Admins, people, grants, catalog, invitations, tokenRows
<1>5. ASSUME NEW q \in Requests, NEW t \in Tokens, Present(q, t)
      PROVE  Admins' # {}
  BY <1>5 DEF Present, Goto, Answer, Idle, Admins, people, grants, catalog, invitations, tokenRows
<1>6. ASSUME NEW q \in Requests, NEW t \in Tokens, TokenCommits(q, t)
      PROVE  Admins' # {}
  BY <1>6 DEF TokenCommits, Goto, Answer, Idle, Admins, people, grants, catalog, invitations, tokenRows
<1>7. ASSUME NEW q \in Requests, NEW t \in Tokens, RevokeToken(q, t)
      PROVE  Admins' # {}
  BY <1>7 DEF RevokeToken, Goto, Answer, Idle, Admins, people, grants, catalog, invitations, tokenRows
<1>8. ASSUME NEW q \in Requests, NEW e \in Emails, NEW rs \in RoleSets, CreateUserBegins(q, e, rs)
      PROVE  Admins' # {}
  BY <1>8 DEF CreateUserBegins, MayManage, Goto, Answer, Idle, Admins, people, grants, catalog, invitations, tokenRows
<1>9. ASSUME NEW q \in Requests, NEW u \in Users, CreateUserCommits(q, u)
      PROVE  Admins' # {}
  BY <1>9 DEF CreateUserCommits, InsertUser, Goto, Answer, Idle, Admins, people, grants, catalog, invitations, tokenRows
<1>10. ASSUME NEW q \in Requests, NEW u \in Users, DisableUser(q, u)
      PROVE  Admins' # {}
  BY <1>10 DEF DisableUser, MayManage, Goto, Answer, Idle, Admins, people, grants, catalog, invitations, tokenRows
<1>11. ASSUME NEW q \in Requests, NEW u \in Users, EnableUser(q, u)
      PROVE  Admins' # {}
  BY <1>11 DEF EnableUser, MayManage, Goto, Answer, Idle, Admins, people, grants, catalog, invitations, tokenRows
<1>12. ASSUME NEW q \in Requests, NEW u \in Users, DeleteUser(q, u)
      PROVE  Admins' # {}
  <2>1. \A v \in Users \ {u} : v \in Admins <=> v \in Admins'
    BY <1>12 DEF DeleteUser, RemoveUser, Admins
  <2>2. CASE u \in Admins
    <3>1. PICK v \in Admins \ {u} : TRUE
      BY <1>12, <2>2, AnotherAdmin DEF DeleteUser
    <3> QED
      BY <2>1, <3>1 DEF Admins
  <2> QED
    BY <2>1, <2>2 DEF Admins
<1>13. ASSUME NEW q \in Requests, NEW u \in Users, RedeemCommits(q, u)
      PROVE  Admins' # {}
  BY <1>13 DEF RedeemCommits, InsertUser, Goto, Answer, Idle, Admins, people, grants, catalog, invitations, tokenRows
<1>14. ASSUME NEW q \in Requests, NEW u \in Users, LoginBegins(q, u)
      PROVE  Admins' # {}
  BY <1>14 DEF LoginBegins, Goto, Answer, Idle, Admins, people, grants, catalog, invitations, tokenRows
<1>15. ASSUME NEW q \in Requests, NEW u \in Users, NEW r \in Roles, AddUserRole(q, u, r)
      PROVE  Admins' # {}
  BY <1>15 DEF AddUserRole, MayManage, Goto, Answer, Idle, Admins, people, grants, catalog, invitations, tokenRows
<1>16. ASSUME NEW q \in Requests, NEW u \in Users, NEW r \in Roles, RemoveUserRole(q, u, r)
      PROVE  Admins' # {}
  <2>1. CASE r = Admin
    <3>1. PICK v \in Admins \ {u} : TRUE
      BY <1>16, <2>1, AnotherAdmin DEF RemoveUserRole
    <3> QED
      BY <1>16, <3>1 DEF RemoveUserRole, Admins
  <2> QED
    BY <1>16, <2>1 DEF RemoveUserRole, Admins
<1>17. ASSUME NEW q \in Requests, NEW u \in Users, NEW s \in Scopes, GrantAccess(q, u, s)
      PROVE  Admins' # {}
  BY <1>17 DEF GrantAccess, MayManage, Goto, Answer, Idle, Admins, people, grants, catalog, invitations, tokenRows
<1>18. ASSUME NEW q \in Requests, NEW u \in Users, NEW s \in Scopes, RevokeAccess(q, u, s)
      PROVE  Admins' # {}
  BY <1>18 DEF RevokeAccess, MayDelete, Admitted, Goto, Answer, Idle, Admins, people, grants, catalog, invitations, tokenRows
<1>19. ASSUME NEW q \in Requests, NEW u \in Actors, CreateToken(q, u)
      PROVE  Admins' # {}
  BY <1>19 DEF CreateToken, IssueToken, Goto, Answer, Idle, Admins, people, grants, catalog, invitations, tokenRows
<1>20. ASSUME NEW q \in Requests, NEW r \in CustomRoles, DeleteRole(q, r)
      PROVE  Admins' # {}
  BY <1>20 DEF DeleteRole, MayDelete, Admitted, Goto, Answer, Idle, Admins, people, grants, catalog, invitations, tokenRows
<1>21. ASSUME NEW q \in Requests, NEW r \in CustomRoles, NEW manage \in BOOLEAN, CreateRole(q, r, manage)
      PROVE  Admins' # {}
  BY <1>21 DEF CreateRole, MayManage, Goto, Answer, Idle, Admins, people, grants, catalog, invitations, tokenRows
<1>22. ASSUME NEW q \in Requests, NEW o \in Offers, CreateInvitationBegins(q, o)
      PROVE  Admins' # {}
  BY <1>22 DEF CreateInvitationBegins, MayManage, Goto, Answer, Idle, Admins, people, grants, catalog, invitations, tokenRows
<1>23. ASSUME NEW q \in Requests, NEW i \in Invites, CreateInvitationCommits(q, i)
      PROVE  Admins' # {}
  BY <1>23 DEF CreateInvitationCommits, Goto, Answer, Idle, Admins, people, grants, catalog, invitations, tokenRows
<1>24. ASSUME NEW q \in Requests, NEW i \in Invites, RevokeInvitation(q, i)
      PROVE  Admins' # {}
  BY <1>24 DEF RevokeInvitation, MayManage, Goto, Answer, Idle, Admins, people, grants, catalog, invitations, tokenRows
<1>25. ASSUME NEW q \in Requests, NEW i \in Invites, RedeemBegins(q, i)
      PROVE  Admins' # {}
  BY <1>25 DEF RedeemBegins, Goto, Answer, Idle, Admins, people, grants, catalog, invitations, tokenRows
<1>26. ASSUME NEW i \in Invites, InviteExpires(i)
      PROVE  Admins' # {}
  BY <1>26 DEF InviteExpires, Admins, people, grants, catalog, invitations, tokenRows
<1> QED
  BY <1>0, <1>1, <1>2, <1>3, <1>4, <1>5, <1>6, <1>7, <1>8, <1>9, <1>10, <1>11, <1>12, <1>13, <1>14, <1>15, <1>16, <1>17, <1>18, <1>19, <1>20, <1>21, <1>22, <1>23, <1>24, <1>25, <1>26 DEF Next

LEMMA Initially == Init => TeamInv
<1> SUFFICES ASSUME Init PROVE TeamInv
  OBVIOUS
<1>1. TypeInv
  BY TeamAssumption DEF Init, TypeInv, TeamTypeOK, HandlersOK, Stages, Actors, Idle
<1> QED
  BY <1>1 DEF Init, TeamInv, GrantsHaveUsers, EmailsAreUnique, ManagersExist, Exists

LEMMA Inductive == TeamInv /\ [Next]_vars => TeamInv'
  BY TypeStep, GrantsStep, EmailsStep, ManagersStep DEF TeamInv

\* The inductive invariant of the team: types, rows of grants have users,
\* addresses are unique, permissions have roles.
THEOREM TeamInvariant == Spec => []TeamInv
  BY Initially, Inductive, PTL DEF Spec

\* Every variable keeps its type.
THEOREM TeamTypes == Spec => []TeamTypeOK
<1>1. TeamInv => TeamTypeOK
  BY DEF TeamInv, TypeInv
<1> QED
  BY <1>1, TeamInvariant, PTL

\* Nobody who is gone is left in user_roles, user_clients or user_profiles.
THEOREM GrantsAlwaysHaveUsers == Spec => []GrantsHaveUsers
<1>1. TeamInv => GrantsHaveUsers
  BY DEF TeamInv
<1> QED
  BY <1>1, TeamInvariant, PTL

\* However registrations overlap, an address belongs to one user.
THEOREM EmailsStayUnique == Spec => []EmailsAreUnique
<1>1. TeamInv => EmailsAreUnique
  BY DEF TeamInv
<1> QED
  BY <1>1, TeamInvariant, PTL

\* A role that is gone gives nobody the manage permission.
THEOREM GhostsHaveNoPermissions == Spec => []NoGhostPermissions
<1>1. TeamInv => NoGhostPermissions
  BY DEF TeamInv, ManagersExist, NoGhostPermissions
<1> QED
  BY <1>1, TeamInvariant, PTL

\* With any number of requests and users, the role "admin" keeps a holder who
\* exists: the guard counts rows, and rows have users.
THEOREM AdminsRemain == Spec => AdminsNeverRunOut
<1>1. TeamInv /\ TeamInv' /\ [Next]_vars => [Admins # {} => \E u \in Admins' : Exists(u)']_vars
  <2> SUFFICES ASSUME TeamInv, TeamInv', [Next]_vars, Admins # {}
               PROVE  \E u \in Admins' : Exists(u)'
    OBVIOUS
  <2>1. Admins' # {}
    BY AdminStep DEF TeamInv
  <2> QED
    BY <2>1 DEF TeamInv, GrantsHaveUsers, Admins
<1> QED
  BY <1>1, TeamInvariant, PTL DEF Spec, AdminsNeverRunOut

\* For every database and identity, what getProfiles, getClients and
\* filterByProfileScope list is what the routes of a single one let through.
THEOREM ListsAndRoutesAgree ==
  ASSUME NEW db, NEW identity, NEW pidOf
  PROVE  Access!ListsAgreeWithRoutes(db, identity, pidOf)
<1> DEFINE clients == Access!AccessibleClientIds(db, identity)
           direct == Access!AccessibleProfileIds(db, identity)
           free == Access!Unrestricted(identity)
<1>1. (clients.all <=> free) /\ (direct.all <=> free)
  <2>1. CASE free
    BY <2>1 DEF Access!AccessibleClientIds, Access!AccessibleProfileIds, Access!All
  <2>2. CASE ~ free
    BY <2>2 DEF Access!AccessibleClientIds, Access!AccessibleProfileIds, Access!Only
  <2> QED
    BY <2>1, <2>2
<1> HIDE DEF clients, direct, free
<1>2. Access!GetClients(db, identity) =
        {c \in db.clients : Access!AssertClientAccess(db, identity, c)}
  BY <1>1 DEF clients, free, Access!GetClients, Access!AssertClientAccess
<1>3. Access!GetProfiles(db, identity) =
        {p \in Access!Profiles(db) : Access!AssertProfileAccess(db, identity, p)}
  BY <1>1 DEF clients, direct, free, Access!GetProfiles, Access!AssertProfileAccess
<1>4. ASSUME NEW row \in DOMAIN pidOf, pidOf[row] \in Access!Profiles(db)
      PROVE  row \in Access!FilterByProfileScope(db, identity, pidOf)
               <=> Access!AssertProfileAccess(db, identity, pidOf[row])
  BY <1>1, <1>4 DEF clients, direct, free, Access!FilterByProfileScope,
     Access!AssertProfileAccess
<1> QED
  BY <1>2, <1>3, <1>4 DEF Access!ListsAgreeWithRoutes

=============================================================================
