----------------------------- MODULE MCTeamStore -----------------------------
(* A small instance of the team for TLC, and of the access rules.           *)
EXTENDS TeamStore, TLC

Access == INSTANCE AccessScope

CONSTANTS u1, u2, e1, e2, r1, s1, i1, t0, t1, q1, q2

\* Everyone who is invited gets the custom role, for an address that may be
\* registered otherwise as well.
SmallOffers == [email : {e1, e2}, role : {r1}, scopes : {{s1}}]
SmallRoleSets == {{"admin"}}

Sym == Permutations({u1, u2}) \cup Permutations({e1, e2}) \cup Permutations({q1, q2})

\* Two clients, three profiles of which any may be missing, two users.
SmallDatabases ==
  [clients : {{"c1"}, {"c1", "c2"}},
   clientOf : UNION {[ps -> {"c1", "c2"}] : ps \in SUBSET {"p1", "p2"}},
   userClients : SUBSET ({u1, u2} \X {"c1", "c2"}),
   userProfiles : SUBSET ({u1} \X {"p1", "p2", "p3"})]
SmallIdentities == [legacy : BOOLEAN, isAdmin : BOOLEAN, userId : {u1, u2}]
SmallRows == [j1 |-> "p1", j2 |-> "p2", j3 |-> "p3"]

\* Lists and routes agree, and what is created can be opened.
ASSUME AccessAgrees ==
  \A db \in SmallDatabases, identity \in SmallIdentities :
    /\ Access!ListsAgreeWithRoutes(db, identity, SmallRows)
    /\ \A c \in {"c1", "c2"} : Access!CreatedCanBeOpened(db, identity, "p3", c)
=============================================================================
