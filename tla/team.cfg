\* Two requests at a time, two users, one invitation, a custom role, a login.
SPECIFICATION Spec
CONSTANTS
  u1 = u1
  u2 = u2
  e1 = e1
  e2 = e2
  r1 = r1
  s1 = s1
  i1 = i1
  t0 = t0
  t1 = t1
  q1 = q1
  q2 = q2
  Users = {u1, u2}
  Emails = {e1, e2}
  Admin = "admin"
  CustomRoles = {r1}
  Scopes = {s1}
  Invites = {i1}
  Tokens = {t0, t1}
  Bootstrap = t0
  Requests = {q1, q2}
  Nobody = Nobody
  RoleSets <- SmallRoleSets
  Offers <- SmallOffers
SYMMETRY Sym
INVARIANTS EmailsAreUnique NoGhostPermissions
 
\* Whoever revokes the last token before there is a user locks everybody out.
CHECK_DEADLOCK FALSE
