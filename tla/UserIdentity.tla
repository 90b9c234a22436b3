---------------------------- MODULE UserIdentity ----------------------------
(***************************************************************************)
(* People: the rows of users, which logins find, link or create            *)
(* (AuthMiddleware, AuthService.sync_user_from_identity), and which        *)
(* administrators create together with a Keycloak account and change       *)
(* (api/v1/users.py).                                                      *)
(*                                                                         *)
(* A request is one transaction and writes one row at most.  Its write     *)
(* locks the row and its unique keys until the end, for a creation across  *)
(* all calls of Keycloak.  A tenant's identity configuration says which    *)
(* provider answers for an issuer, and changes at any time.                *)
(***************************************************************************)
EXTENDS IdentityClaims, Sequences, FiniteSets

CONSTANTS
  Issuer, Provider,
  Default, DefaultIssuer,  \* IDENTITY_PROVIDER, and the issuer it is set up for
  Keycloak,                \* the provider accounts are created with
  Token,      \* what people come with: an issuer and claims
  Username,   \* of an address: the part before the @
  Given,      \* the roles administrators give
  Request,
  None,
  MaxArrival, \* bound: how many of the requests arrive
  MaxChange   \* bound: changes of tenant configurations

ASSUME IdentityAssumption ==
  /\ Default \in Provider /\ Keycloak \in Provider /\ DefaultIssuer \in Issuer
  /\ Provider \subseteq IdentityProviderName
  /\ Token \subseteq [issuer : Issuer, claims : Claims]
  /\ \A t \in Token, p \in Provider : IdentityOf(p, t.claims).subject \in Subject
  /\ DOMAIN Username = Email
  /\ None \notin Provider /\ None \notin Subject \cup Request \cup Email /\ None \notin Token
  /\ NoEmail \notin Email /\ Missing \notin Subject /\ Given \subseteq Role
  /\ MaxArrival \in Nat /\ MaxChange \in Nat

VARIABLES
  users,     \* committed: row -> user; a row is named by the request that inserts it
  configs,   \* tenant_identity_config: issuer -> provider
  changes,   \* how often it changed
  accounts,  \* Keycloak: names of accounts
  req,       \* the requests
  home,      \* history: identity -> the row its last login got
  ruled      \* history: row -> the role it was given last

vars == <<users, configs, changes, accounts, req, home, ruled>>

\* An address made up for who has none.
Unknown(subject) == <<subject, "unknown.local">>
Address == Email \cup {Unknown(s) : s \in Subject}

User == [provider : Provider, subject : Subject \cup {None}, email : Address, role : Role]
ASSUME NoUserAssumption == None \notin User
Identity == Provider \X Subject

\*   token    of a login; of a creation or change: what is asked for
\*   provider that answered for the token
\*   row      the row it found or is to insert
\*   loaded   that row as it was loaded
\*   draft    that row as it has written it
\*   crowded  history: another request wrote a row meanwhile
Fresh ==
  [pc |-> "idle", kind |-> "login", token |-> None, provider |-> None, email |-> None, role |-> None,
   row |-> None, loaded |-> None, draft |-> None, crowded |-> FALSE, outcome |-> "none"]

At(r, place) == req[r].pc = place
Login(r) == req[r].kind = "login"
claimed(r) == IdentityOf(req[r].provider, req[r].token.claims)
identity(r) == <<req[r].provider, claimed(r).subject>>
Moved(r, place) == [req[r] EXCEPT !.pc = place]

\* What remains of a request: of a clash, who met it.
Ended(r, outcome) ==
  IF outcome = "clash"
  THEN [Fresh EXCEPT !.pc = "ended", !.outcome = "clash", !.kind = req[r].kind, !.token = req[r].token,
                     !.provider = req[r].provider, !.crowded = req[r].crowded]
  ELSE [Fresh EXCEPT !.pc = "ended", !.outcome = outcome]

Open(r) == req[r].pc \notin {"idle", "ended"}
Row == {x \in Request : users[x] # None}

\* A step that changes nothing but the request.
Go(r, record) ==
  req' = [req EXCEPT ![r] = record] /\ UNCHANGED <<users, configs, changes, accounts, home, ruled>>

Init ==
  /\ users = [x \in Request |-> None]
  /\ configs \in [Issuer -> Provider \cup {None}]
  /\ changes = 0 /\ accounts = {}
  /\ req = [r \in Request |-> Fresh]
  /\ home = [i \in Identity |-> None]
  /\ ruled = [x \in Request |-> None]

-----------------------------------------------------------------------------
\* Locks and unique keys of users.

\* Fault: the table has no unique identity_provider and external_sub.
EmailOnly(user) == {<<"email", user.email>>}

\* email, and identity_provider with external_sub unless that is NULL.
Keys(user) ==
  {<<"email", user.email>>} \cup
    IF user.subject = None THEN {} ELSE {<<"subject", user.provider, user.subject>>}

KeysAt(x) == IF users[x] = None THEN {} ELSE Keys(users[x])

\* What the uncommitted write of q keeps others from.
Holds(q) ==
  IF req[q].draft = None THEN {} ELSE {<<"row", req[q].row>>} \cup Keys(req[q].draft) \cup KeysAt(req[q].row)

\* The write of this row by r does not have to wait.
Free(r, x, user) ==
  \A q \in Request \ {r} : Holds(q) \cap ({<<"row", x>>} \cup Keys(user)) = {}

Clashes(x, user) == \E y \in Row \ {x} : KeysAt(y) \cap Keys(user) # {}

\* The flush of this row by r: it is written, or PostgreSQL refuses.
Write(r, x, user, next) ==
  /\ Free(r, x, user)
  /\ IF Clashes(x, user) THEN Go(r, Ended(r, "clash"))
     ELSE /\ req' = [q \in Request |->
                       IF q = r THEN [Moved(r, next) EXCEPT !.row = x, !.draft = user, !.loaded = None]
                       ELSE IF Open(q) THEN [req[q] EXCEPT !.crowded = TRUE] ELSE req[q]]
          /\ UNCHANGED <<users, configs, changes, accounts, home, ruled>>

\* What later logins of these people must find: a row has one identity.
Settled(r) ==
  [i \in Identity |->
     IF Login(r) /\ i = identity(r) THEN IF req[r].crowded THEN None ELSE req[r].row
     ELSE IF req[r].draft # None /\ home[i] = req[r].row
             /\ i # <<req[r].draft.provider, req[r].draft.subject>> THEN None
     ELSE home[i]]

\* The role that was decided by an insertion or a change of r.
Decided(r) ==
  IF req[r].draft # None /\ (users[req[r].row] = None \/ req[r].kind = "change")
  THEN [ruled EXCEPT ![req[r].row] = req[r].draft.role] ELSE ruled

Commit(r) ==
  /\ At(r, "commit")
  /\ users' = IF req[r].draft = None THEN users ELSE [users EXCEPT ![req[r].row] = req[r].draft]
  /\ home' = Settled(r) /\ ruled' = Decided(r)
  /\ req' = [req EXCEPT ![r] = Ended(r, "done")]
  /\ UNCHANGED <<configs, changes, accounts>>

\* The database fails or the process dies: everything is rolled back.
Lose(r) == Open(r) /\ Go(r, Ended(r, "failed"))

-----------------------------------------------------------------------------
\* A login.

Arriving(r) == At(r, "idle") /\ Cardinality({q \in Request : ~At(q, "idle")}) < MaxArrival

Writing(r) == \E q \in Request \ {r} : req[q].draft # None

Arrive(r) ==
  /\ Arriving(r)
  /\ \E t \in Token : Go(r, [Fresh EXCEPT !.pc = "issuer", !.token = t, !.crowded = Writing(r)])

\* _resolve_provider: of the tenant with this issuer, or the global one.
ProviderFor(issuer) == IF configs[issuer] = None THEN Default ELSE configs[issuer]

\* A configuration of the tenant, or the global one, that can accept the token.
Answerable(issuer) == configs[issuer] # None \/ issuer = DefaultIssuer

\* get_user_identity: the provider accepts the token.
Validate(r) ==
  /\ At(r, "issuer") /\ Answerable(req[r].token.issuer)
  /\ Go(r, [Moved(r, "subject") EXCEPT !.provider = ProviderFor(req[r].token.issuer)])

\* The token has expired, nobody here answers for its issuer, or the
\* configuration does not fit.
Reject(r) == At(r, "issuer") /\ Go(r, Ended(r, "failed"))

Found(r, x, place) == Go(r, [Moved(r, place) EXCEPT !.row = x, !.loaded = IF place = "link" THEN users[x] ELSE None])

FindBySubject(r) ==
  /\ At(r, "subject")
  /\ \E x \in Row : <<users[x].provider, users[x].subject>> = identity(r) /\ Found(r, x, "commit")

NoSuchSubject(r) ==
  /\ At(r, "subject")
  /\ ~\E x \in Row : <<users[x].provider, users[x].subject>> = identity(r)
  /\ Go(r, Moved(r, IF claimed(r).email = NoEmail THEN "insert" ELSE "email"))

\* Fault: a new subject is a new user.
FindByEmailNever(r) == At(r, "email") /\ Go(r, Moved(r, "insert"))

FindByEmail(r) ==
  /\ At(r, "email")
  /\ \E x \in Row : users[x].email = claimed(r).email /\ Found(r, x, "link")

NoSuchEmail(r) ==
  /\ At(r, "email")
  /\ ~\E x \in Row : users[x].email = claimed(r).email
  /\ Go(r, Moved(r, "insert"))

\* The first of the roles in the order of UserRole, or viewer.
RoleFrom(roles) ==
  LET held == {i \in DOMAIN Roles : Roles[i] \in roles}
  IN  IF held = {} THEN "viewer" ELSE Roles[CHOOSE i \in held : \A k \in held : i <= k]

\* The row as the flush makes it: only a column that differs from what was loaded
\* is written, the other stays as another request may have made it meanwhile.
Linked(r) ==
  [users[req[r].row] EXCEPT
     !.provider = IF req[r].provider = req[r].loaded.provider THEN @ ELSE req[r].provider,
     !.subject = IF claimed(r).subject = req[r].loaded.subject THEN @ ELSE claimed(r).subject]

\* Fault: the role follows the token.
LinkWithRole(r) ==
  /\ At(r, "link")
  /\ Write(r, req[r].row, [Linked(r) EXCEPT !.role = RoleFrom(claimed(r).roles)], "commit")

\* The row with this address gets this identity, if it had another when it was loaded.
Link(r) ==
  /\ At(r, "link")
  /\ IF <<req[r].loaded.provider, req[r].loaded.subject>> = identity(r) THEN Go(r, Moved(r, "commit"))
     ELSE Write(r, req[r].row, Linked(r), "commit")

\* Fault: the new row does not say whose it is.
InsertUnlinked(r) ==
  /\ At(r, "insert") /\ Login(r)
  /\ Write(r, r,
       [provider |-> req[r].provider, subject |-> None,
        email |-> IF claimed(r).email = NoEmail THEN Unknown(claimed(r).subject) ELSE claimed(r).email,
        role |-> RoleFrom(claimed(r).roles)],
       "commit")

Insert(r) ==
  /\ At(r, "insert") /\ Login(r)
  /\ Write(r, r,
       [provider |-> req[r].provider, subject |-> claimed(r).subject,
        email |-> IF claimed(r).email = NoEmail THEN Unknown(claimed(r).subject) ELSE claimed(r).email,
        role |-> RoleFrom(claimed(r).roles)],
       "commit")

-----------------------------------------------------------------------------
\* create_user: the row, and then the account.

ArriveCreate(r) ==
  /\ Arriving(r)
  /\ \E e \in Email, role \in Given :
       Go(r, [Fresh EXCEPT !.pc = "insert", !.kind = "create", !.email = e, !.role = role, !.crowded = Writing(r)])

InsertCreated(r) ==
  /\ At(r, "insert") /\ ~Login(r)
  /\ Write(r, r, [provider |-> Keycloak, subject |-> None, email |-> req[r].email, role |-> req[r].role],
           IF Default = Keycloak THEN "account" ELSE "commit")

\* With a token of Keycloak's administrator.  The answer may get lost.
CreateAccount(r) ==
  /\ At(r, "account") /\ Username[req[r].email] \notin accounts
  /\ accounts' = accounts \cup {Username[req[r].email]}
  /\ req' \in {[req EXCEPT ![r] = Moved(r, "grant")], [req EXCEPT ![r] = Ended(r, "failed")]}
  /\ UNCHANGED <<users, configs, changes, home, ruled>>

\* The account is looked up by its name, and gets the realm role.
Grant(r) == At(r, "grant") /\ Go(r, Moved(r, "commit"))

\* Keycloak does not answer, or has an account of this name; whatever it did stays.
KeycloakFails(r) == req[r].pc \in {"account", "grant"} /\ Go(r, Ended(r, "failed"))

-----------------------------------------------------------------------------
\* update_user.

ArriveChange(r) ==
  /\ Arriving(r)
  /\ \E x \in Row, role \in Given :
       Go(r, [Fresh EXCEPT !.pc = "load", !.kind = "change", !.row = x, !.role = role, !.crowded = Writing(r)])

LoadUser(r) ==
  At(r, "load") /\ Go(r, [Moved(r, "change") EXCEPT !.loaded = users[req[r].row]])

ChangeUser(r) ==
  /\ At(r, "change")
  /\ IF req[r].role = req[r].loaded.role THEN Go(r, Moved(r, "commit"))
     ELSE Write(r, req[r].row, [users[req[r].row] EXCEPT !.role = req[r].role], "commit")

-----------------------------------------------------------------------------

\* An administrator creates, changes or deletes the configuration for an issuer,
\* or turns that of another issuer into it.
Configure(i) ==
  /\ changes < MaxChange /\ changes' = changes + 1
  /\ \E p \in Provider \cup {None} :
       \/ configs' = [configs EXCEPT ![i] = p]
       \/ /\ configs[i] = None /\ p # None
          /\ \E k \in Issuer \ {i} : configs[k] # None /\ configs' = [configs EXCEPT ![i] = p, ![k] = None]
  /\ UNCHANGED <<users, accounts, req, home, ruled>>

Step(r) ==
  \/ Commit(r) \/ Lose(r)
  \/ Validate(r) \/ Reject(r)
  \/ FindBySubject(r) \/ NoSuchSubject(r) \/ FindByEmail(r) \/ NoSuchEmail(r) \/ Link(r) \/ Insert(r)
  \/ InsertCreated(r) \/ CreateAccount(r) \/ Grant(r) \/ KeycloakFails(r)
  \/ LoadUser(r) \/ ChangeUser(r)

Next ==
  \/ \E r \in Request : Arrive(r) \/ ArriveCreate(r) \/ ArriveChange(r) \/ Step(r)
  \/ \E i \in Issuer : Configure(i)

Spec == Init /\ [][Next]_vars

=============================================================================
