-------------------------- MODULE UserIdentityProps --------------------------
(***************************************************************************)
(* Who people are, from one login to the next.                             *)
(***************************************************************************)
EXTENDS UserIdentity

\* The variables have their types; no two users share an address or an identity,
\* and no two requests have written the same row (UniqueConstraint of User).
TypeOK ==
  /\ users \in [Request -> User \cup {None}]
  /\ \A x, y \in Row : x # y => users[x].email # users[y].email
  /\ \A x, y \in Row : x # y /\ users[x].subject # None
       => <<users[x].provider, users[x].subject>> # <<users[y].provider, users[y].subject>>
  /\ \A r, q \in Request : r # q /\ req[r].draft # None /\ req[q].draft # None => req[r].row # req[q].row
  /\ home \in [Identity -> Request \cup {None}]

\* An accepted token with an address always leads to a user, unless another
\* request writes users during the login: the lookups by subject and by address
\* leave no unique key to run into (sync_user_from_identity, "Find-or-create the
\* internal User row").
LoneLoginSucceeds ==
  \A r \in Request :
    req[r].outcome = "clash" /\ Login(r) => req[r].crowded \/ claimed(r).email = NoEmail

\* A login ends with a user of the very identity that was presented, and a person
\* gets the same user again, with its role, its organisation and its usage, also
\* after the address changed at the provider, or the provider changed and changed
\* back, as long as nobody else came with the address of that user and no other
\* request wrote during the login.  One that did may leave the row with the
\* provider of one login and the subject of another (sync_user_from_identity).
KeepsItsUser ==
  \A r \in Request :
    At(r, "commit") /\ Login(r) /\ ~req[r].crowded =>
      LET user == IF req[r].draft = None THEN users[req[r].row] ELSE req[r].draft
      IN  /\ <<user.provider, user.subject>> = identity(r)
          /\ home[identity(r)] # None => req[r].row = home[identity(r)]

\* The role of a user is the one it was created with or an administrator gave it
\* last: no login, however it overlaps a change, brings another or an older one.
\* (A change to the role that its session had loaded writes nothing.)
RoleStands == \A x \in Row : users[x].role = ruled[x]

=============================================================================
