------------------------ MODULE UserIdentity_proofs ------------------------
(***************************************************************************)
(* The invariants of UserIdentityProps, for any people, providers and      *)
(* tokens, any number of overlapping requests and any number of changes.   *)
(* UserInv gives TypeOK, with the uniqueness of addresses and identities,  *)
(* and RoleStands; LoginInv, on top of it, what a login may rely on until  *)
(* another request writes: LoneLoginSucceeds and KeepsItsUser.             *)
(***************************************************************************)
EXTENDS UserIdentityProps, TLAPS

PC == {"idle", "issuer", "subject", "email", "link", "insert", "account", "grant", "load", "change",
       "commit", "ended"}

Requested ==
  [pc : PC, kind : {"login", "create", "change"}, token : Token \cup {None},
   provider : Provider \cup {None}, email : Email \cup {None}, role : Role \cup {None},
   row : Request \cup {None}, loaded : User \cup {None}, draft : User \cup {None},
   crowded : BOOLEAN, outcome : {"none", "done", "failed", "clash"}]

\* What a request knows at each place, and what it may have written.
RequestOK(r) ==
  /\ req[r] \in Requested
  /\ Login(r) /\ req[r].pc \in {"issuer", "subject", "email", "link", "insert"} => req[r].token \in Token
  /\ Login(r) /\ req[r].pc \in {"subject", "email", "link", "insert"} => req[r].provider \in Provider
  /\ req[r].pc \in {"issuer", "subject", "email", "link"} => Login(r)
  /\ At(r, "change") \/ At(r, "load") => req[r].kind = "change"
  /\ At(r, "insert") /\ ~Login(r) => req[r].kind = "create" /\ req[r].email \in Email
  /\ req[r].pc \in {"insert", "load", "change"} /\ ~Login(r) => req[r].role \in Role
  /\ req[r].pc \in {"link", "load", "change"} => req[r].row \in Row
  /\ req[r].draft # None =>
       /\ req[r].pc \in {"account", "grant", "commit"}
       /\ req[r].row \in Row \cup {r}
       /\ req[r].kind # "change" /\ req[r].row \in Row => req[r].draft.role = users[req[r].row].role

\* Two requests that have written hold different rows and different keys.
Uncontested ==
  \A r, q \in Request : r # q /\ req[r].draft # None /\ req[q].draft # None =>
    /\ req[r].row # req[q].row
    /\ Keys(req[r].draft) \cap Keys(req[q].draft) = {}

\* No key twice among the committed rows, nor when a written row is committed.
Unique ==
  /\ \A x, y \in Row : x # y => Keys(users[x]) \cap Keys(users[y]) = {}
  /\ \A r \in Request, y \in Row :
       req[r].draft # None /\ y # req[r].row => Keys(users[y]) \cap Keys(req[r].draft) = {}

\* The inductive invariant.
UserInv ==
  /\ users \in [Request -> User \cup {None}]
  /\ configs \in [Issuer -> Provider \cup {None}]
  /\ req \in [Request -> Requested]
  /\ home \in [Identity -> Request \cup {None}]
  /\ ruled \in [Request -> Role \cup {None}]
  /\ \A r \in Request : RequestOK(r)
  /\ \A x \in Row : At(x, "ended")
  /\ Uncontested
  /\ Unique
  /\ RoleStands

\* What a provider accepts has a subject, perhaps an address, and roles.
LEMMA IdentityTyped ==
  ASSUME NEW t \in Token, NEW p \in Provider
  PROVE  /\ IdentityOf(p, t.claims).subject \in Subject
         /\ IdentityOf(p, t.claims).email \in Email \cup {NoEmail}
<1> DEFINE c == t.claims
<1>1. c \in Claims /\ p \in IdentityProviderName /\ IdentityOf(p, c).subject \in Subject
  BY IdentityAssumption
<1>2. c.email \in Email \cup {NoEmail} /\ c.preferred_username \in Email \cup {NoEmail}
  BY <1>1 DEF Claims
<1>3. IdentityOf(p, c).email \in Email \cup {NoEmail}
  BY <1>1, <1>2 DEF IdentityOf, IdentityProviderName, KeycloakIdentity, EntraIdentity, Auth0Identity,
     OktaIdentity, AWSIdentity, GoogleIdentity, LocalIdentity, Identified
<1> QED
  BY <1>1, <1>3

\* RoleFrom finds a role of the table whatever the token says.
LEMMA RoleFromTyped == ASSUME NEW roles PROVE RoleFrom(roles) \in Role
<1> DEFINE held == {i \in DOMAIN Roles : Roles[i] \in roles}
<1>1. DOMAIN Roles = 1..4
  BY DEF Roles
<1>2. CASE held = {}
  BY <1>1, <1>2 DEF RoleFrom, Role, Roles
<1>3. CASE held # {}
  <2>1. \E i \in held : \A k \in held : i <= k
    BY <1>1, <1>3
  <2>2. (CHOOSE i \in held : \A k \in held : i <= k) \in held
    BY <2>1
  <2> QED
    BY <1>3, <2>2 DEF RoleFrom, Role
<1> QED
  BY <1>2, <1>3

-----------------------------------------------------------------------------
\* The record of a request, field by field.
Is(record, pc, kind, token, provider, email, role, row, loaded, draft, crowded, outcome) ==
  record = [pc |-> pc, kind |-> kind, token |-> token, provider |-> provider, email |-> email,
            role |-> role, row |-> row, loaded |-> loaded, draft |-> draft, crowded |-> crowded,
            outcome |-> outcome]

\* An update of one field leaves the others.
LEMMA FieldSet ==
  ASSUME NEW record, NEW pc, NEW kind, NEW token, NEW provider, NEW email, NEW role, NEW row,
         NEW loaded, NEW draft, NEW crowded, NEW outcome, NEW v,
         Is(record, pc, kind, token, provider, email, role, row, loaded, draft, crowded, outcome)
  PROVE  /\ Is([record EXCEPT !.pc = v], v, kind, token, provider, email, role, row, loaded, draft, crowded, outcome)
         /\ Is([record EXCEPT !.provider = v], pc, kind, token, v, email, role, row, loaded, draft, crowded, outcome)
         /\ Is([record EXCEPT !.row = v], pc, kind, token, provider, email, role, v, loaded, draft, crowded, outcome)
         /\ Is([record EXCEPT !.loaded = v], pc, kind, token, provider, email, role, row, v, draft, crowded, outcome)
         /\ Is([record EXCEPT !.draft = v], pc, kind, token, provider, email, role, row, loaded, v, crowded, outcome)
         /\ Is([record EXCEPT !.crowded = v], pc, kind, token, provider, email, role, row, loaded, draft, v, outcome)
<1>1. Is([record EXCEPT !.pc = v], v, kind, token, provider, email, role, row, loaded, draft, crowded, outcome)
  BY DEF Is
<1>2. Is([record EXCEPT !.provider = v], pc, kind, token, v, email, role, row, loaded, draft, crowded, outcome)
  BY DEF Is
<1>3. Is([record EXCEPT !.row = v], pc, kind, token, provider, email, role, v, loaded, draft, crowded, outcome)
  BY DEF Is
<1>4. Is([record EXCEPT !.loaded = v], pc, kind, token, provider, email, role, row, v, draft, crowded, outcome)
  BY DEF Is
<1>5. Is([record EXCEPT !.draft = v], pc, kind, token, provider, email, role, row, loaded, v, crowded, outcome)
  BY DEF Is
<1>6. Is([record EXCEPT !.crowded = v], pc, kind, token, provider, email, role, row, loaded, draft, v, outcome)
  BY DEF Is
<1> QED
  BY <1>1, <1>2, <1>3, <1>4, <1>5, <1>6

\* The fields of a record are those it is said to have.
LEMMA FieldsAre ==
  ASSUME NEW record, NEW pc, NEW kind, NEW token, NEW provider, NEW email, NEW role, NEW row,
         NEW loaded, NEW draft, NEW crowded, NEW outcome,
         Is(record, pc, kind, token, provider, email, role, row, loaded, draft, crowded, outcome)
  PROVE  /\ record.pc = pc /\ record.kind = kind /\ record.token = token /\ record.provider = provider
         /\ record.email = email /\ record.role = role /\ record.row = row /\ record.loaded = loaded
         /\ record.draft = draft /\ record.crowded = crowded /\ record.outcome = outcome
  BY DEF Is

\* The fields of a request.
LEMMA RequestIs ==
  ASSUME NEW record, record \in Requested
  PROVE  Is(record, record.pc, record.kind, record.token, record.provider, record.email,
            record.role, record.row, record.loaded, record.draft, record.crowded, record.outcome)
  BY DEF Is, Requested

\* What the fields of a request range over.
LEMMA FieldsOf ==
  ASSUME NEW record \in Requested
  PROVE  /\ record.pc \in PC /\ record.kind \in {"login", "create", "change"}
         /\ record.token \in Token \cup {None} /\ record.provider \in Provider \cup {None}
         /\ record.email \in Email \cup {None} /\ record.role \in Role \cup {None}
         /\ record.row \in Request \cup {None} /\ record.loaded \in User \cup {None}
         /\ record.draft \in User \cup {None} /\ record.crowded \in BOOLEAN
         /\ record.outcome \in {"none", "done", "failed", "clash"}
  BY DEF Requested

\* What the fields that a step sets must be.
Fitting(place, p, x, was, user) ==
  /\ place \in PC /\ p \in Provider \cup {None} /\ x \in Request \cup {None}
  /\ was \in User \cup {None} /\ user \in User \cup {None}

\* A request with other such fields is one still.
LEMMA IsTyped ==
  ASSUME NEW r, req[r] \in Requested, NEW place, NEW p, NEW x, NEW was, NEW user,
         Fitting(place, p, x, was, user), NEW record,
         Is(record, place, req[r].kind, req[r].token, p, req[r].email,
            req[r].role, x, was, user, req[r].crowded, req[r].outcome)
  PROVE  /\ record \in Requested
         /\ record.pc = place /\ record.kind = req[r].kind /\ record.token = req[r].token
         /\ record.provider = p /\ record.email = req[r].email /\ record.role = req[r].role
         /\ record.row = x /\ record.loaded = was /\ record.draft = user
         /\ record.crowded = req[r].crowded /\ record.outcome = req[r].outcome
<1>1. /\ req[r].kind \in {"login", "create", "change"} /\ req[r].token \in Token \cup {None}
      /\ req[r].email \in Email \cup {None} /\ req[r].role \in Role \cup {None}
      /\ req[r].crowded \in BOOLEAN /\ req[r].outcome \in {"none", "done", "failed", "clash"}
  BY FieldsOf
<1>2. record \in Requested
  BY <1>1 DEF Is, Requested, Fitting
<1> QED
  BY <1>2, FieldsAre

\* The record of a request moved on, with a row it loaded.
LEMMA FoundIs ==
  ASSUME NEW r \in Request, req[r] \in Requested, NEW place, NEW x, NEW was
  PROVE  Is([Moved(r, place) EXCEPT !.row = x, !.loaded = was], place, req[r].kind, req[r].token, req[r].provider, req[r].email,
            req[r].role, x, was, req[r].draft, req[r].crowded, req[r].outcome)
<1> DEFINE moved == [req[r] EXCEPT !.pc = place]
           rowed == [moved EXCEPT !.row = x]
           loading == [rowed EXCEPT !.loaded = was]
<1>1. Is(req[r], req[r].pc, req[r].kind, req[r].token, req[r].provider, req[r].email,
         req[r].role, req[r].row, req[r].loaded, req[r].draft, req[r].crowded, req[r].outcome)
  BY RequestIs
<1>2. Is(moved, place, req[r].kind, req[r].token, req[r].provider, req[r].email,
         req[r].role, req[r].row, req[r].loaded, req[r].draft, req[r].crowded, req[r].outcome)
  BY <1>1, FieldSet
<1>5. [Moved(r, place) EXCEPT !.row = x, !.loaded = was] = loading
  BY DEF Moved
<1> HIDE DEF moved
<1>3. Is(rowed, place, req[r].kind, req[r].token, req[r].provider, req[r].email,
         req[r].role, x, req[r].loaded, req[r].draft, req[r].crowded, req[r].outcome)
  BY <1>2, FieldSet
<1> HIDE DEF rowed
<1>4. Is(loading, place, req[r].kind, req[r].token, req[r].provider, req[r].email,
         req[r].role, x, was, req[r].draft, req[r].crowded, req[r].outcome)
  BY <1>3, FieldSet
<1> QED
  BY <1>4, <1>5

\* The record of a request that has written a row.
LEMMA WrittenIs ==
  ASSUME NEW r \in Request, req[r] \in Requested, NEW place, NEW x, NEW user
  PROVE  Is([Moved(r, place) EXCEPT !.row = x, !.draft = user, !.loaded = None], place, req[r].kind, req[r].token, req[r].provider, req[r].email,
            req[r].role, x, None, user, req[r].crowded, req[r].outcome)
<1> DEFINE moved == [req[r] EXCEPT !.pc = place]
           rowed == [moved EXCEPT !.row = x]
           drafted == [rowed EXCEPT !.draft = user]
           written == [drafted EXCEPT !.loaded = None]
<1>1. Is(req[r], req[r].pc, req[r].kind, req[r].token, req[r].provider, req[r].email,
         req[r].role, req[r].row, req[r].loaded, req[r].draft, req[r].crowded, req[r].outcome)
  BY RequestIs
<1>2. Is(moved, place, req[r].kind, req[r].token, req[r].provider, req[r].email,
         req[r].role, req[r].row, req[r].loaded, req[r].draft, req[r].crowded, req[r].outcome)
  BY <1>1, FieldSet
<1>6. [Moved(r, place) EXCEPT !.row = x, !.draft = user, !.loaded = None] = written
  BY DEF Moved
<1> HIDE DEF moved
<1>3. Is(rowed, place, req[r].kind, req[r].token, req[r].provider, req[r].email,
         req[r].role, x, req[r].loaded, req[r].draft, req[r].crowded, req[r].outcome)
  BY <1>2, FieldSet
<1> HIDE DEF rowed
<1>4. Is(drafted, place, req[r].kind, req[r].token, req[r].provider, req[r].email,
         req[r].role, x, req[r].loaded, user, req[r].crowded, req[r].outcome)
  BY <1>3, FieldSet
<1> HIDE DEF drafted
<1>5. Is(written, place, req[r].kind, req[r].token, req[r].provider, req[r].email,
         req[r].role, x, None, user, req[r].crowded, req[r].outcome)
  BY <1>4, FieldSet
<1> QED
  BY <1>5, <1>6

\* The record of a login whose provider is known.
LEMMA ValidatedIs ==
  ASSUME NEW r \in Request, req[r] \in Requested, NEW place, NEW p
  PROVE  Is([Moved(r, place) EXCEPT !.provider = p], place, req[r].kind, req[r].token, p, req[r].email,
            req[r].role, req[r].row, req[r].loaded, req[r].draft, req[r].crowded, req[r].outcome)
<1> DEFINE moved == [req[r] EXCEPT !.pc = place]
           known == [moved EXCEPT !.provider = p]
<1>1. Is(req[r], req[r].pc, req[r].kind, req[r].token, req[r].provider, req[r].email,
         req[r].role, req[r].row, req[r].loaded, req[r].draft, req[r].crowded, req[r].outcome)
  BY RequestIs
<1>2. Is(moved, place, req[r].kind, req[r].token, req[r].provider, req[r].email,
         req[r].role, req[r].row, req[r].loaded, req[r].draft, req[r].crowded, req[r].outcome)
  BY <1>1, FieldSet
<1>4. [Moved(r, place) EXCEPT !.provider = p] = known
  BY DEF Moved
<1> HIDE DEF moved
<1>3. Is(known, place, req[r].kind, req[r].token, p, req[r].email,
         req[r].role, req[r].row, req[r].loaded, req[r].draft, req[r].crowded, req[r].outcome)
  BY <1>2, FieldSet
<1> QED
  BY <1>3, <1>4

\* The record of a request that notes the write of another.
LEMMA NotedTyped ==
  ASSUME NEW record \in Requested, NEW noted, noted = [record EXCEPT !.crowded = TRUE]
  PROVE  /\ noted \in Requested
         /\ noted.pc = record.pc /\ noted.kind = record.kind /\ noted.token = record.token
         /\ noted.provider = record.provider /\ noted.email = record.email
         /\ noted.role = record.role /\ noted.row = record.row /\ noted.draft = record.draft
         /\ noted.outcome = record.outcome /\ noted.crowded
  BY DEF Requested

\* The record of a request that met a clash.
LEMMA ClashedIs ==
  ASSUME NEW r
  PROVE  Is(Ended(r, "clash"), "ended", req[r].kind, req[r].token, req[r].provider, None,
            None, None, None, None, req[r].crowded, "clash")
<1>1. Ended(r, "clash") =
        [Fresh EXCEPT !.pc = "ended", !.outcome = "clash", !.kind = req[r].kind,
                      !.token = req[r].token, !.provider = req[r].provider,
                      !.crowded = req[r].crowded]
  BY DEF Ended
<1>2. Ended(r, "clash") =
        [pc |-> "ended", kind |-> req[r].kind, token |-> req[r].token, provider |-> req[r].provider,
         email |-> None, role |-> None, row |-> None, loaded |-> None, draft |-> None,
         crowded |-> req[r].crowded, outcome |-> "clash"]
  BY <1>1, ZenonT(60) DEF Fresh
<1> QED
  BY <1>2 DEF Is

\* It is one of a request, and says who met the clash.
LEMMA ClashedTyped ==
  ASSUME NEW r \in Request, req[r] \in Requested, NEW record,
         Is(record, "ended", req[r].kind, req[r].token, req[r].provider, None,
            None, None, None, None, req[r].crowded, "clash")
  PROVE  /\ record \in Requested
         /\ record.pc = "ended" /\ record.kind = req[r].kind /\ record.token = req[r].token
         /\ record.provider = req[r].provider /\ record.draft = None
         /\ record.crowded = req[r].crowded /\ record.outcome = "clash"
<1>1. /\ req[r].kind \in {"login", "create", "change"} /\ req[r].token \in Token \cup {None}
      /\ req[r].provider \in Provider \cup {None} /\ req[r].crowded \in BOOLEAN
  BY FieldsOf
<1>2. record \in Requested
  BY <1>1 DEF Is, Requested, PC
<1> QED
  BY <1>2, FieldsAre

-----------------------------------------------------------------------------
\* A step of r that writes and commits nothing: what it wrote before, it keeps
\* or gives up.
Quiet(r) ==
  /\ UNCHANGED <<users, configs, home, ruled>>
  /\ ~At(r, "ended")
  /\ \E next \in Requested :
       /\ req' = [req EXCEPT ![r] = next]
       /\ \/ next.draft = None
          \/ /\ next.draft = req[r].draft /\ next.row = req[r].row /\ next.kind = req[r].kind
             /\ next.pc \in {"account", "grant", "commit"}
  /\ RequestOK(r)'

\* Quiet steps keep the invariant.
LEMMA QuietKeeps == ASSUME UserInv, NEW r \in Request, Quiet(r) PROVE UserInv'
<1>1. PICK next \in Requested :
        /\ req' = [req EXCEPT ![r] = next]
        /\ \/ next.draft = None
           \/ next.draft = req[r].draft /\ next.row = req[r].row /\ next.kind = req[r].kind
  BY DEF Quiet
<1>2. /\ users' = users /\ configs' = configs /\ home' = home /\ ruled' = ruled /\ Row' = Row
      /\ req' \in [Request -> Requested]
      /\ req'[r] = next /\ \A q \in Request \ {r} : req'[q] = req[q]
  BY <1>1 DEF Quiet, UserInv, Row
<1>3. \A q \in Request : RequestOK(q)'
  <2> SUFFICES ASSUME NEW q \in Request \ {r} PROVE RequestOK(q)'
    BY DEF Quiet
  <2> QED
    BY <1>2 DEF UserInv, RequestOK, Login, At
<1>4. \A x \in Row' : At(x, "ended")'
  BY <1>2 DEF UserInv, At, Row, Quiet
<1>5. \A q \in Request :
        req'[q].draft = None \/ (req'[q].draft = req[q].draft /\ req'[q].row = req[q].row)
  BY <1>1, <1>2
<1>6. Uncontested'
  <2> SUFFICES ASSUME NEW p \in Request, NEW q \in Request, p # q, req'[p].draft # None, req'[q].draft # None
               PROVE  req'[p].row # req'[q].row /\ Keys(req'[p].draft) \cap Keys(req'[q].draft) = {}
    BY DEF Uncontested
  <2>1. /\ req'[p].draft = req[p].draft /\ req'[p].row = req[p].row
        /\ req'[q].draft = req[q].draft /\ req'[q].row = req[q].row
    BY <1>5
  <2>2. req[p].row # req[q].row /\ Keys(req[p].draft) \cap Keys(req[q].draft) = {}
    BY <2>1 DEF UserInv, Uncontested
  <2> QED
    BY <2>1, <2>2
<1>7. Unique'
  <2>1. \A x, y \in Row' : x # y => Keys(users'[x]) \cap Keys(users'[y]) = {}
    BY <1>2 DEF UserInv, Unique
  <2>2. ASSUME NEW q \in Request, NEW y \in Row', req'[q].draft # None, y # req'[q].row
        PROVE  Keys(users'[y]) \cap Keys(req'[q].draft) = {}
    <3>1. req'[q].draft = req[q].draft /\ req'[q].row = req[q].row
      BY <1>5, <2>2
    <3> QED
      BY <1>2, <2>2, <3>1 DEF UserInv, Unique
  <2> QED
    BY <2>1, <2>2 DEF Unique
<1>8. RoleStands'
  BY <1>2 DEF UserInv, RoleStands
<1> QED
  BY <1>2, <1>3, <1>4, <1>6, <1>7, <1>8 DEF UserInv

-----------------------------------------------------------------------------
\* The flush of a row that r may write: the row it inserts, or one it found.
LEMMA WriteKeeps ==
  ASSUME UserInv, NEW r \in Request, NEW x \in Row \cup {r}, NEW user \in User,
         NEW next \in {"account", "commit"},
         ~At(r, "ended"), ~At(r, "idle"), req[r].draft = None,
         req[r].kind # "change" /\ x \in Row => user.role = users[x].role,
         Write(r, x, user, next)
  PROVE  UserInv'
<1> DEFINE noted(q) == [req[q] EXCEPT !.crowded = TRUE]
           mine == [Moved(r, next) EXCEPT !.row = x, !.draft = user, !.loaded = None]
<1>1. CASE Clashes(x, user)
  <2> DEFINE rec == Ended(r, "clash")
  <2>1. req' = [req EXCEPT ![r] = rec] /\ UNCHANGED <<users, configs, home, ruled>>
    BY <1>1 DEF Write, Go
  <2>2. req[r] \in Requested
    BY DEF UserInv
  <2>3. rec \in Requested /\ rec.pc = "ended" /\ rec.draft = None
    <3>1. PICK record : record = rec
      OBVIOUS
    <3>2. Is(record, "ended", req[r].kind, req[r].token, req[r].provider, None,
             None, None, None, None, req[r].crowded, "clash")
      BY <3>1, ClashedIs
    <3> HIDE DEF rec
    <3> QED
      BY <2>2, <3>1, <3>2, ClashedTyped
  <2>4. req'[r] = rec
    BY <2>1 DEF UserInv
  <2> HIDE DEF rec
  <2>5. RequestOK(r)'
    BY <2>3, <2>4 DEF RequestOK, At, Login
  <2>6. Quiet(r)
    BY <2>1, <2>3, <2>5 DEF Quiet
  <2> QED
    BY <2>6, QuietKeeps
<1>2. CASE ~Clashes(x, user)
  <2>1. /\ req' = [q \in Request |-> IF q = r THEN mine ELSE IF Open(q) THEN noted(q) ELSE req[q]]
        /\ UNCHANGED <<users, configs, home, ruled>>
    BY <1>2 DEF Write
  <2>2. Row' = Row
    BY <2>1 DEF Row
  <2>3. \A q \in Request : req[q] \in Requested
    BY DEF UserInv
  <2>4. /\ mine \in Requested
        /\ mine.pc = next /\ mine.kind = req[r].kind /\ mine.row = x /\ mine.draft = user
    <3>1. x \in Request /\ next \in PC /\ req[r] \in Requested
      BY <2>3 DEF Row, PC
    <3>2. PICK record : record = mine
      OBVIOUS
    <3>4. Is(record, next, req[r].kind, req[r].token, req[r].provider, req[r].email,
             req[r].role, x, None, user, req[r].crowded, req[r].outcome)
      BY <3>1, <3>2, WrittenIs
    <3> HIDE DEF mine
    <3>3. /\ record \in Requested
          /\ record.pc = next /\ record.kind = req[r].kind /\ record.row = x /\ record.draft = user
      <4>1. Fitting(next, req[r].provider, x, None, user)
        BY <3>1, FieldsOf DEF Fitting
      <4> QED
        BY <3>1, <3>4, <4>1, IsTyped
    <3> QED
      BY <3>2, <3>3
  <2>5. \A q \in Request \ {r} :
          /\ req'[q] \in Requested
          /\ req'[q].pc = req[q].pc /\ req'[q].kind = req[q].kind /\ req'[q].token = req[q].token
          /\ req'[q].provider = req[q].provider /\ req'[q].email = req[q].email
          /\ req'[q].role = req[q].role /\ req'[q].row = req[q].row /\ req'[q].draft = req[q].draft
    <3> SUFFICES ASSUME NEW q \in Request \ {r}
                 PROVE  /\ req'[q] \in Requested
                        /\ req'[q].pc = req[q].pc /\ req'[q].kind = req[q].kind
                        /\ req'[q].token = req[q].token /\ req'[q].provider = req[q].provider
                        /\ req'[q].email = req[q].email /\ req'[q].role = req[q].role
                        /\ req'[q].row = req[q].row /\ req'[q].draft = req[q].draft
      OBVIOUS
    <3>1. req'[q] = noted(q) \/ req'[q] = req[q]
      BY <2>1
    <3>2. req[q] \in Requested
      BY <2>3
    <3>3. CASE req'[q] = noted(q)
      <4>1. req'[q] = [req[q] EXCEPT !.crowded = TRUE]
        BY <3>3
      <4> HIDE DEF noted
      <4> QED
        BY <3>2, <4>1, NotedTyped
    <3>4. CASE req'[q] = req[q]
      BY <3>2, <3>4
    <3> QED
      BY <3>1, <3>3, <3>4
  <2>6. req'[r] = mine
    BY <2>1
  <2>7. req' \in [Request -> Requested]
    BY <2>1, <2>4, <2>5
  <2> HIDE DEF mine, noted
  <2>8. \A q \in Request : RequestOK(q)'
    <3>1. RequestOK(r)'
      BY <2>1, <2>2, <2>4, <2>6, <2>7 DEF RequestOK, Login, At
    <3>2. ASSUME NEW q \in Request \ {r} PROVE RequestOK(q)'
      BY <2>1, <2>2, <2>5 DEF UserInv, RequestOK, Login, At
    <3> QED
      BY <3>1, <3>2
  <2>9. \A y \in Row' : At(y, "ended")'
    BY <2>2, <2>5 DEF UserInv, At, Row
  <2>10. \A q \in Request \ {r} :
           req[q].draft # None => req[q].row # x /\ Keys(req[q].draft) \cap Keys(user) = {}
    <3> SUFFICES ASSUME NEW q \in Request \ {r}, req[q].draft # None
                 PROVE  req[q].row # x /\ Keys(req[q].draft) \cap Keys(user) = {}
      OBVIOUS
    <3>1. Holds(q) \cap ({<<"row", x>>} \cup Keys(user)) = {}
      BY DEF Write, Free
    <3>2. <<"row", req[q].row>> \in Holds(q) /\ Keys(req[q].draft) \subseteq Holds(q)
      BY DEF Holds
    <3> QED
      BY <3>1, <3>2
  <2>11. Uncontested'
    <3> SUFFICES ASSUME NEW p \in Request, NEW q \in Request, p # q, req'[p].draft # None, req'[q].draft # None
                 PROVE  req'[p].row # req'[q].row /\ Keys(req'[p].draft) \cap Keys(req'[q].draft) = {}
      BY DEF Uncontested
    <3>1. CASE p = r
      BY <3>1, <2>4, <2>5, <2>6, <2>10
    <3>2. CASE q = r
      BY <3>2, <2>4, <2>5, <2>6, <2>10
    <3>3. CASE p # r /\ q # r
      <4>1. /\ req'[p].draft = req[p].draft /\ req'[p].row = req[p].row
            /\ req'[q].draft = req[q].draft /\ req'[q].row = req[q].row
        BY <2>5, <3>3
      <4>2. req[p].row # req[q].row /\ Keys(req[p].draft) \cap Keys(req[q].draft) = {}
        BY <4>1 DEF UserInv, Uncontested
      <4> QED
        BY <4>1, <4>2
    <3> QED
      BY <3>1, <3>2, <3>3
  <2>12. Unique'
    <3>1. \A y, z \in Row' : y # z => Keys(users'[y]) \cap Keys(users'[z]) = {}
      BY <2>1, <2>2 DEF UserInv, Unique
    <3>2. ASSUME NEW q \in Request, NEW y \in Row', req'[q].draft # None, y # req'[q].row
          PROVE  Keys(users'[y]) \cap Keys(req'[q].draft) = {}
      <4>1. CASE q = r
        <5>1. y \in Row \ {x} /\ KeysAt(y) = Keys(users[y])
          BY <2>2, <2>4, <2>6, <3>2, <4>1 DEF KeysAt, Row
        <5> QED
          BY <1>2, <2>1, <2>4, <2>6, <4>1, <5>1 DEF Clashes
      <4>2. CASE q # r
        BY <2>1, <2>2, <2>5, <3>2, <4>2 DEF UserInv, Unique
      <4> QED
        BY <4>1, <4>2
    <3> QED
      BY <3>1, <3>2 DEF Unique
  <2>13. RoleStands'
    BY <2>1, <2>2 DEF UserInv, RoleStands
  <2> QED
    BY <2>1, <2>7, <2>8, <2>9, <2>11, <2>12, <2>13 DEF UserInv
<1> QED
  BY <1>1, <1>2

\* A commit makes one written row visible.
LEMMA CommitKeeps == ASSUME UserInv, NEW r \in Request, Commit(r) PROVE UserInv'
<1> DEFINE rec == Ended(r, "done")
           d == req[r].draft
           x == req[r].row
<1>1. /\ req[r] \in Requested /\ RequestOK(r) /\ req[r].pc = "commit"
      /\ req' = [req EXCEPT ![r] = rec]
  BY DEF UserInv, Commit, At
<1>2. rec \in Requested /\ rec.pc = "ended" /\ rec.draft = None
  BY DEF Ended, Fresh, Requested, PC
<1>3. /\ req' \in [Request -> Requested] /\ req'[r] = rec
      /\ \A q \in Request \ {r} : req'[q] = req[q]
  BY <1>1, <1>2 DEF UserInv
<1>4. home' \in [Identity -> Request \cup {None}] /\ configs' = configs
  BY <1>1 DEF Commit, Settled, UserInv, Requested
<1>7. Uncontested'
  <2> SUFFICES ASSUME NEW p \in Request, NEW q \in Request, p # q, req'[p].draft # None, req'[q].draft # None
               PROVE  req'[p].row # req'[q].row /\ Keys(req'[p].draft) \cap Keys(req'[q].draft) = {}
    BY DEF Uncontested
  <2>1. req'[p] = req[p] /\ req'[q] = req[q]
    BY <1>2, <1>3
  <2>2. req[p].row # req[q].row /\ Keys(req[p].draft) \cap Keys(req[q].draft) = {}
    BY <2>1 DEF UserInv, Uncontested
  <2> QED
    BY <2>1, <2>2
<1>5. CASE d = None
  <2>1. users' = users /\ Row' = Row /\ ruled' = ruled
    BY <1>5 DEF Commit, Decided, Row
  <2>2. \A q \in Request : RequestOK(q)'
    <3>1. RequestOK(r)'
      BY <1>2, <1>3 DEF RequestOK, At, Login
    <3>2. ASSUME NEW q \in Request \ {r} PROVE RequestOK(q)'
      BY <1>3, <2>1 DEF UserInv, RequestOK, Login, At
    <3> QED
      BY <3>1, <3>2
  <2>3. \A y \in Row' : At(y, "ended")'
    BY <1>2, <1>3, <2>1 DEF UserInv, At, Row
  <2>4. Uncontested'
    BY <1>7
  <2>5. Unique'
    BY <1>2, <1>3, <2>1 DEF UserInv, Unique
  <2>6. RoleStands'
    BY <2>1 DEF UserInv, RoleStands
  <2> QED
    BY <1>3, <1>4, <2>1, <2>2, <2>3, <2>4, <2>5, <2>6 DEF UserInv
<1>6. CASE d # None
  <2>1. /\ d \in User /\ x \in Row \cup {r} /\ x \in Request
        /\ req[r].kind # "change" /\ x \in Row => d.role = users[x].role
    BY <1>1, <1>6 DEF RequestOK, Requested, Row
  <2>2. users' = [users EXCEPT ![x] = d] /\ users' \in [Request -> User \cup {None}]
    BY <1>6, <2>1 DEF Commit, UserInv
  <2>3. /\ users'[x] = d /\ \A y \in Request \ {x} : users'[y] = users[y]
        /\ Row' = Row \cup {x}
    BY <1>6, <2>1, <2>2 DEF Row, UserInv
  <2>4. d.role \in Role
    BY <2>1 DEF User
  <2>5. ruled' \in [Request -> Role \cup {None}]
    BY <2>1, <2>4 DEF Commit, Decided, UserInv
  <2>6. \A q \in Request \ {r} : req[q].draft # None =>
          req[q].row # x /\ Keys(req[q].draft) \cap Keys(d) = {}
    BY <1>6 DEF UserInv, Uncontested
  <2>7. \A q \in Request : RequestOK(q)'
    <3>1. RequestOK(r)'
      BY <1>2, <1>3 DEF RequestOK, At, Login
    <3>2. ASSUME NEW q \in Request \ {r} PROVE RequestOK(q)'
      <4>1. RequestOK(q) /\ req'[q] = req[q]
        BY <1>3 DEF UserInv
      <4>2. req[q].draft # None =>
              /\ req[q].pc \in {"account", "grant", "commit"}
              /\ req[q].row \in Row \cup {q} /\ req[q].row # x
              /\ req[q].kind # "change" /\ req[q].row \in Row => req[q].draft.role = users[req[q].row].role
        BY <2>6, <4>1 DEF RequestOK
      <4>3. req[q].draft # None => req[q].row \in Request \ {x}
        BY <4>2 DEF Row
      <4> QED
        BY <2>3, <4>1, <4>2, <4>3 DEF RequestOK, Login, At
    <3> QED
      BY <3>1, <3>2
  <2>8. \A y \in Row' : At(y, "ended")'
    BY <1>2, <1>3, <2>1, <2>3 DEF UserInv, At, Row
  <2>9. Uncontested'
    BY <1>7
  <2>10. \A y \in Row : y # x => Keys(users[y]) \cap Keys(d) = {}
    BY <1>6 DEF UserInv, Unique
  <2>11. Unique'
    <3>1. ASSUME NEW y \in Row', NEW z \in Row', y # z
          PROVE  Keys(users'[y]) \cap Keys(users'[z]) = {}
      <4>1. y \in Request /\ z \in Request
        BY DEF Row
      <4>2. CASE y = x
        BY <2>3, <2>10, <3>1, <4>1, <4>2
      <4>3. CASE z = x
        BY <2>3, <2>10, <3>1, <4>1, <4>3
      <4>4. CASE y # x /\ z # x
        BY <2>3, <3>1, <4>1, <4>4 DEF UserInv, Unique
      <4> QED
        BY <4>2, <4>3, <4>4
    <3>2. ASSUME NEW q \in Request, NEW y \in Row', req'[q].draft # None, y # req'[q].row
          PROVE  Keys(users'[y]) \cap Keys(req'[q].draft) = {}
      <4>1. q # r /\ req'[q] = req[q] /\ y \in Request
        BY <1>2, <1>3, <3>2 DEF Row
      <4>2. CASE y = x
        BY <2>3, <2>6, <3>2, <4>1, <4>2
      <4>3. CASE y # x
        BY <2>3, <3>2, <4>1, <4>3 DEF UserInv, Unique
      <4> QED
        BY <4>2, <4>3
    <3> QED
      BY <3>1, <3>2 DEF Unique
  <2>12. RoleStands'
    <3> SUFFICES ASSUME NEW y \in Row' PROVE users'[y].role = ruled'[y]
      BY DEF RoleStands
    <3>1. y \in Request
      BY DEF Row
    <3>2. CASE y # x
      BY <2>1, <2>3, <3>1, <3>2 DEF Commit, Decided, UserInv, RoleStands
    <3>3. CASE y = x /\ (users[x] = None \/ req[r].kind = "change")
      BY <1>6, <2>1, <2>3, <3>3 DEF Commit, Decided, UserInv
    <3>4. CASE y = x /\ users[x] # None /\ req[r].kind # "change"
      BY <2>1, <2>3, <3>4 DEF Commit, Decided, UserInv, RoleStands, Row
    <3> QED
      BY <3>2, <3>3, <3>4
  <2> QED
    BY <1>3, <1>4, <2>2, <2>5, <2>7, <2>8, <2>9, <2>11, <2>12 DEF UserInv
<1> QED
  BY <1>5, <1>6

-----------------------------------------------------------------------------
\* A step that only moves r to another record, with nothing written, is quiet
\* if that record is in order.
LEMMA QuietStep ==
  ASSUME UserInv, NEW r \in Request, NEW next \in Requested, Go(r, next), ~At(r, "ended"),
         \/ next.draft = None
         \/ /\ next.draft = req[r].draft /\ next.row = req[r].row /\ next.kind = req[r].kind
            /\ next.pc \in {"account", "grant", "commit"},
         RequestOK(r)'
  PROVE  UserInv'
<1>1. Quiet(r)
  BY DEF Quiet, Go
<1> QED
  BY <1>1, QuietKeeps

\* A request that is over knows nothing.
LEMMA OverKeeps ==
  ASSUME UserInv, NEW r \in Request, ~At(r, "ended"), Go(r, Ended(r, "failed")) PROVE UserInv'
<1> DEFINE next == Ended(r, "failed")
<1>1. next = [Fresh EXCEPT !.pc = "ended", !.outcome = "failed"]
  BY DEF Ended
<1>2. next \in Requested /\ next.pc = "ended" /\ next.draft = None
  BY <1>1 DEF Fresh, Requested, PC
<1>3. req'[r] = next
  BY DEF Go, UserInv
<1>4. RequestOK(r)'
  BY <1>2, <1>3 DEF RequestOK, At, Login
<1> QED
  BY <1>2, <1>4, QuietStep

\* Arrivals: a request begins with nothing written.
LEMMA ArriveKeeps ==
  ASSUME UserInv, NEW r \in Request, Arrive(r) \/ ArriveCreate(r) \/ ArriveChange(r) PROVE UserInv'
<1> DEFINE plain(next) == next.draft = None /\ next \in Requested
<1>1. ~At(r, "ended")
  BY DEF Arrive, ArriveCreate, ArriveChange, Arriving, At
<1>2. ASSUME Arrive(r) PROVE UserInv'
  <2>1. PICK t \in Token :
          Go(r, [Fresh EXCEPT !.pc = "issuer", !.token = t, !.crowded = Writing(r)])
    BY <1>2 DEF Arrive
  <2> DEFINE next == [Fresh EXCEPT !.pc = "issuer", !.token = t, !.crowded = Writing(r)]
  <2>2. next = [Fresh EXCEPT !.pc = "issuer", !.token = t, !.crowded = next.crowded] /\ next.crowded \in BOOLEAN
    BY DEF Writing, Fresh
  <2>3. /\ next \in Requested /\ next.pc = "issuer" /\ next.kind = "login" /\ next.token = t
        /\ next.draft = None
    BY <2>2 DEF Fresh, Requested, PC
  <2>4. req'[r] = next
    BY <2>1 DEF Go, UserInv
  <2>5. RequestOK(r)'
    BY <2>3, <2>4 DEF RequestOK, At, Login
  <2> QED
    BY <1>1, <2>1, <2>3, <2>5, QuietStep
<1>3. ASSUME ArriveCreate(r) PROVE UserInv'
  <2>1. PICK e \in Email, role \in Given :
          Go(r, [Fresh EXCEPT !.pc = "insert", !.kind = "create", !.email = e, !.role = role,
                              !.crowded = Writing(r)])
    BY <1>3 DEF ArriveCreate
  <2> DEFINE next == [Fresh EXCEPT !.pc = "insert", !.kind = "create", !.email = e, !.role = role,
                                   !.crowded = Writing(r)]
  <2>2. next.crowded \in BOOLEAN /\ role \in Role
    BY IdentityAssumption DEF Writing, Fresh
  <2>3. /\ next \in Requested /\ next.pc = "insert" /\ next.kind = "create" /\ next.email = e
        /\ next.role = role /\ next.draft = None
    BY <2>2 DEF Fresh, Requested, PC
  <2>4. req'[r] = next
    BY <2>1 DEF Go, UserInv
  <2>5. RequestOK(r)'
    BY <2>2, <2>3, <2>4 DEF RequestOK, At, Login
  <2> QED
    BY <1>1, <2>1, <2>3, <2>5, QuietStep
<1>4. ASSUME ArriveChange(r) PROVE UserInv'
  <2>1. PICK x \in Row, role \in Given :
          Go(r, [Fresh EXCEPT !.pc = "load", !.kind = "change", !.row = x, !.role = role,
                              !.crowded = Writing(r)])
    BY <1>4 DEF ArriveChange
  <2> DEFINE next == [Fresh EXCEPT !.pc = "load", !.kind = "change", !.row = x, !.role = role,
                                   !.crowded = Writing(r)]
  <2>2. next.crowded \in BOOLEAN /\ role \in Role /\ x \in Request
    BY IdentityAssumption DEF Writing, Fresh, Row
  <2>3. /\ next \in Requested /\ next.pc = "load" /\ next.kind = "change" /\ next.row = x
        /\ next.role = role /\ next.draft = None
    BY <2>2 DEF Fresh, Requested, PC
  <2>4. req'[r] = next /\ Row' = Row
    BY <2>1 DEF Go, UserInv, Row
  <2>5. RequestOK(r)'
    BY <2>2, <2>3, <2>4 DEF RequestOK, At, Login
  <2> QED
    BY <1>1, <2>1, <2>3, <2>5, QuietStep
<1> QED
  BY <1>2, <1>3, <1>4

\* The steps of a request that move it on without a write.
Onward(r) ==
  \/ Validate(r) \/ FindBySubject(r) \/ NoSuchSubject(r) \/ FindByEmail(r) \/ NoSuchEmail(r)
  \/ Grant(r) \/ LoadUser(r)

\* They keep the invariant.
LEMMA OnwardKeeps == ASSUME UserInv, NEW r \in Request, Onward(r) PROVE UserInv'
<1>1. req[r] \in Requested /\ RequestOK(r) /\ users \in [Request -> User \cup {None}]
  BY DEF UserInv
<1>2. ~At(r, "ended")
  BY DEF Onward, Validate, FindBySubject, NoSuchSubject, FindByEmail, NoSuchEmail, Grant, LoadUser, At
<1>3. \A next : Go(r, next) => Row' = Row /\ req'[r] = next
  BY DEF Go, UserInv, Row
<1>4. ASSUME Validate(r) PROVE UserInv'
  <2> DEFINE p == ProviderFor(req[r].token.issuer)
             next == [Moved(r, "subject") EXCEPT !.provider = p]
  <2>1. Go(r, next) /\ req[r].pc = "issuer" /\ req[r].kind = "login" /\ req[r].token \in Token
    BY <1>1, <1>4 DEF Validate, At, RequestOK, Login
  <2>2. p \in Provider
    BY <2>1, IdentityAssumption DEF UserInv, ProviderFor
  <2> HIDE DEF p
  <2>3. req[r].draft = None
    BY <1>1, <2>1 DEF RequestOK
  <2>4. PICK record : record = next
    OBVIOUS
  <2>8. Go(r, record)
    BY <2>1, <2>4
  <2>9. Is(record, "subject", req[r].kind, req[r].token, p, req[r].email,
           req[r].role, req[r].row, req[r].loaded, req[r].draft, req[r].crowded, req[r].outcome)
    BY <1>1, <2>4, ValidatedIs
  <2> HIDE DEF next
  <2>10. "subject" \in PC
    BY DEF PC
  <2>5. /\ record \in Requested /\ record.pc = "subject" /\ record.kind = "login" /\ record.token \in Token
        /\ record.provider \in Provider /\ record.draft = None
    <3>1. PICK place \in PC : place = "subject"
      BY <2>10
    <3>2. Fitting(place, p, req[r].row, req[r].loaded, req[r].draft)
      BY <1>1, <2>2, FieldsOf DEF Fitting
    <3>3. Is(record, place, req[r].kind, req[r].token, p, req[r].email,
             req[r].role, req[r].row, req[r].loaded, req[r].draft, req[r].crowded, req[r].outcome)
      BY <2>9, <3>1
    <3>4. /\ record \in Requested /\ record.pc = place /\ record.kind = req[r].kind
          /\ record.token = req[r].token /\ record.provider = p /\ record.draft = req[r].draft
      BY <1>1, <3>2, <3>3, IsTyped
    <3> QED
      BY <2>1, <2>2, <2>3, <3>1, <3>4
  <2>6. req'[r] = record
    BY <1>3, <2>8
  <2>7. RequestOK(r)'
    BY <2>5, <2>6 DEF RequestOK, At, Login
  <2> QED
    BY <1>2, <2>5, <2>7, <2>8, QuietStep
<1>5. ASSUME NEW x \in Row, NEW place \in {"commit", "link"}, req[r].pc \in {"subject", "email"},
             Found(r, x, place)
      PROVE  UserInv'
  <2>1. PICK was \in User \cup {None} : Go(r, [Moved(r, place) EXCEPT !.row = x, !.loaded = was])
    BY <1>1, <1>5 DEF Found, Row
  <2> DEFINE next == [Moved(r, place) EXCEPT !.row = x, !.loaded = was]
  <2>2. x \in Request
    BY DEF Row
  <2>3. req[r].draft = None /\ Login(r) /\ req[r].token \in Token /\ req[r].provider \in Provider
    BY <1>1, <1>5 DEF RequestOK
  <2>4. PICK record : record = next
    OBVIOUS
  <2>8. Go(r, record)
    BY <2>1, <2>4
  <2>9. Is(record, place, req[r].kind, req[r].token, req[r].provider, req[r].email,
           req[r].role, x, was, req[r].draft, req[r].crowded, req[r].outcome)
    BY <1>1, <2>4, FoundIs
  <2> HIDE DEF next
  <2>5. /\ record \in Requested /\ record.pc = place /\ record.kind = req[r].kind /\ record.row = x
        /\ record.token = req[r].token /\ record.provider = req[r].provider /\ record.draft = None
    <3>1. place \in PC
      BY DEF PC
    <3>2. Fitting(place, req[r].provider, x, was, req[r].draft)
      BY <1>1, <2>2, <3>1, FieldsOf DEF Fitting
    <3>3. /\ record \in Requested /\ record.pc = place /\ record.kind = req[r].kind /\ record.row = x
          /\ record.token = req[r].token /\ record.provider = req[r].provider
          /\ record.draft = req[r].draft
      BY <1>1, <2>9, <3>2, IsTyped
    <3> QED
      BY <2>3, <3>3
  <2>6. req'[r] = record /\ Row' = Row
    BY <1>3, <2>8
  <2>7. RequestOK(r)'
    BY <2>3, <2>5, <2>6 DEF RequestOK, At, Login
  <2> QED
    BY <1>2, <2>5, <2>7, <2>8, QuietStep
<1>6. ASSUME NEW place \in {"email", "insert"}, req[r].pc \in {"subject", "email"},
             Go(r, Moved(r, place))
      PROVE  UserInv'
  <2> DEFINE next == Moved(r, place)
  <2>1. req[r].draft = None /\ Login(r) /\ req[r].token \in Token /\ req[r].provider \in Provider
    BY <1>1, <1>6 DEF RequestOK
  <2>2. /\ next \in Requested /\ next.pc = place /\ next.kind = req[r].kind
        /\ next.token = req[r].token /\ next.provider = req[r].provider /\ next.draft = None
    BY <1>1, <2>1 DEF Moved, Requested, PC
  <2>3. req'[r] = next /\ Row' = Row
    BY <1>3, <1>6
  <2> HIDE DEF next
  <2>4. RequestOK(r)'
    BY <2>1, <2>2, <2>3 DEF RequestOK, At, Login
  <2> QED
    BY <1>2, <1>6, <2>2, <2>4, QuietStep DEF next
<1>7. ASSUME Grant(r) PROVE UserInv'
  <2> DEFINE next == Moved(r, "commit")
  <2>1. Go(r, next) /\ req[r].pc = "grant"
    BY <1>7 DEF Grant, At
  <2>2. /\ next \in Requested /\ next.pc = "commit" /\ next.kind = req[r].kind
        /\ next.row = req[r].row /\ next.draft = req[r].draft
    BY <1>1 DEF Moved, Requested, PC
  <2>3. req'[r] = next /\ Row' = Row /\ users' = users
    BY <1>3, <2>1 DEF Go
  <2> HIDE DEF next
  <2>4. RequestOK(r)'
    BY <1>1, <2>2, <2>3 DEF RequestOK, At, Login
  <2> QED
    BY <1>2, <2>1, <2>2, <2>4, QuietStep
<1>8. ASSUME LoadUser(r) PROVE UserInv'
  <2> DEFINE next == [Moved(r, "change") EXCEPT !.loaded = users[req[r].row]]
  <2>1. Go(r, next) /\ req[r].pc = "load"
    BY <1>8 DEF LoadUser, At
  <2>2. /\ req[r].row \in Row /\ req[r].kind = "change" /\ req[r].draft = None /\ req[r].role \in Role
        /\ users[req[r].row] \in User
    BY <1>1, <2>1 DEF RequestOK, At, Row, Login
  <2>3. next = [pc |-> "change", kind |-> req[r].kind, token |-> req[r].token, provider |-> req[r].provider,
               email |-> req[r].email, role |-> req[r].role, row |-> req[r].row, loaded |-> users[req[r].row],
               draft |-> req[r].draft, crowded |-> req[r].crowded, outcome |-> req[r].outcome]
    <3>1. req[r] = [pc |-> req[r].pc, kind |-> req[r].kind, token |-> req[r].token, provider |-> req[r].provider,
               email |-> req[r].email, role |-> req[r].role, row |-> req[r].row, loaded |-> req[r].loaded,
               draft |-> req[r].draft, crowded |-> req[r].crowded, outcome |-> req[r].outcome]
      BY <1>1 DEF Requested
    <3>2. Moved(r, "change") = [pc |-> "change", kind |-> req[r].kind, token |-> req[r].token, provider |-> req[r].provider,
               email |-> req[r].email, role |-> req[r].role, row |-> req[r].row, loaded |-> req[r].loaded,
               draft |-> req[r].draft, crowded |-> req[r].crowded, outcome |-> req[r].outcome]
      BY <3>1 DEF Moved
    <3> QED
      BY <3>2
  <2>4. /\ next \in Requested /\ next.pc = "change" /\ next.kind = req[r].kind
        /\ next.row = req[r].row /\ next.role = req[r].role /\ next.draft = None
    <3>1. "change" \in PC /\ req[r].row \in Request
      BY <2>2 DEF PC, Row
    <3> HIDE DEF next
    <3> QED
      BY <1>1, <2>2, <2>3, <3>1 DEF Requested
  <2>5. req'[r] = next /\ Row' = Row
    BY <1>3, <2>1
  <2> HIDE DEF next
  <2>6. RequestOK(r)'
    BY <2>2, <2>4, <2>5 DEF RequestOK, At, Login
  <2> QED
    BY <1>2, <2>1, <2>4, <2>6, QuietStep
<1>9. CASE FindBySubject(r)
  BY <1>5, <1>9 DEF FindBySubject, At
<1>10. CASE NoSuchSubject(r)
  BY <1>6, <1>10 DEF NoSuchSubject, At
<1>11. CASE FindByEmail(r)
  BY <1>5, <1>11 DEF FindByEmail, At
<1>12. CASE NoSuchEmail(r)
  BY <1>6, <1>12 DEF NoSuchEmail, At
<1> QED
  BY <1>4, <1>7, <1>8, <1>9, <1>10, <1>11, <1>12 DEF Onward

\* A step to the commit, with nothing written.
LEMMA UnwrittenKeeps ==
  ASSUME UserInv, NEW r \in Request, req[r].pc \in {"link", "change"}, Go(r, Moved(r, "commit"))
  PROVE  UserInv'
<1> DEFINE next == Moved(r, "commit")
<1>1. req[r] \in Requested /\ req[r].draft = None
  BY DEF UserInv, RequestOK
<1>2. next \in Requested /\ next.pc = "commit" /\ next.draft = None
  BY <1>1 DEF Moved, Requested, PC
<1>3. req'[r] = next
  BY DEF Go, UserInv
<1> HIDE DEF next
<1>4. RequestOK(r)'
  BY <1>2, <1>3 DEF RequestOK, At, Login
<1> QED
  BY <1>2, <1>4, QuietStep DEF At, next

\* The steps that may write: each writes a user, and a role only where it decides.
Writes(r) == Link(r) \/ Insert(r) \/ InsertCreated(r) \/ ChangeUser(r)

\* They keep the invariant.
LEMMA WritesKeep == ASSUME UserInv, NEW r \in Request, Writes(r) PROVE UserInv'
<1>1. req[r] \in Requested /\ RequestOK(r) /\ users \in [Request -> User \cup {None}]
  BY DEF UserInv
<1>2. ~At(r, "ended") /\ ~At(r, "idle") /\ req[r].draft = None
  BY <1>1 DEF Writes, Link, Insert, InsertCreated, ChangeUser, At, RequestOK
<1>3. \A x \in Row : x \in Request /\ users[x] \in User /\ x # r
  BY <1>1, <1>2 DEF Row, UserInv, At
<1>4. ASSUME Link(r) PROVE UserInv'
  <2>1. /\ req[r].pc = "link" /\ req[r].row \in Row
        /\ req[r].token \in Token /\ req[r].provider \in Provider
    BY <1>1, <1>4 DEF Link, At, RequestOK
  <2>2. claimed(r).subject \in Subject
    BY <2>1, IdentityTyped DEF claimed
  <2>3. Linked(r) \in User /\ Linked(r).role = users[req[r].row].role
    BY <1>3, <2>1, <2>2 DEF Linked, User
  <2>4. CASE Go(r, Moved(r, "commit"))
    BY <2>1, <2>4, UnwrittenKeeps
  <2>5. CASE Write(r, req[r].row, Linked(r), "commit")
    BY <1>2, <2>1, <2>3, <2>5, WriteKeeps
  <2> QED
    BY <1>4, <2>4, <2>5 DEF Link
<1>5. ASSUME Insert(r) PROVE UserInv'
  <2>1. req[r].token \in Token /\ req[r].provider \in Provider
    BY <1>1, <1>5 DEF Insert, At, RequestOK
  <2> DEFINE address == IF claimed(r).email = NoEmail THEN Unknown(claimed(r).subject) ELSE claimed(r).email
             user == [provider |-> req[r].provider, subject |-> claimed(r).subject, email |-> address,
                      role |-> RoleFrom(claimed(r).roles)]
  <2>2. claimed(r).subject \in Subject /\ claimed(r).email \in Email \cup {NoEmail}
    BY <2>1, IdentityTyped DEF claimed
  <2>3. address \in Address
    BY <2>2 DEF Address
  <2>4. RoleFrom(claimed(r).roles) \in Role
    BY RoleFromTyped
  <2>5. user \in User
    BY <2>1, <2>2, <2>3, <2>4 DEF User
  <2>6. Write(r, r, user, "commit")
    BY <1>5 DEF Insert
  <2> HIDE DEF user
  <2> QED
    BY <1>2, <1>3, <2>5, <2>6, WriteKeeps
<1>6. ASSUME InsertCreated(r) PROVE UserInv'
  <2> DEFINE user == [provider |-> Keycloak, subject |-> None, email |-> req[r].email, role |-> req[r].role]
             next == IF Default = Keycloak THEN "account" ELSE "commit"
  <2>1. req[r].email \in Email /\ req[r].role \in Role
    BY <1>1, <1>6 DEF InsertCreated, At, RequestOK
  <2>2. user \in User /\ next \in {"account", "commit"}
    BY <2>1, IdentityAssumption DEF User, Address
  <2>3. Write(r, r, user, next)
    BY <1>6 DEF InsertCreated
  <2> HIDE DEF user, next
  <2> QED
    BY <1>2, <1>3, <2>2, <2>3, WriteKeeps
<1>7. ASSUME ChangeUser(r) PROVE UserInv'
  <2> DEFINE user == [users[req[r].row] EXCEPT !.role = req[r].role]
  <2>1. req[r].pc = "change" /\ req[r].row \in Row /\ req[r].kind = "change" /\ req[r].role \in Role
    BY <1>1, <1>7 DEF ChangeUser, At, RequestOK, Login
  <2>2. user \in User
    BY <1>3, <2>1 DEF User
  <2>3. CASE Go(r, Moved(r, "commit"))
    BY <2>1, <2>3, UnwrittenKeeps
  <2>4. CASE Write(r, req[r].row, user, "commit")
    <3> HIDE DEF user
    <3> QED
      BY <1>2, <2>1, <2>2, <2>4, WriteKeeps
  <2> QED
    BY <1>7, <2>3, <2>4 DEF ChangeUser
<1> QED
  BY <1>4, <1>5, <1>6, <1>7 DEF Writes

\* The account: Keycloak may have it although its answer was lost.
LEMMA AccountKeeps == ASSUME UserInv, NEW r \in Request, CreateAccount(r) PROVE UserInv'
<1>1. req[r] \in Requested /\ RequestOK(r) /\ req[r].pc = "account"
  BY DEF UserInv, CreateAccount, At
<1>2. UNCHANGED <<users, configs, home, ruled>> /\ ~At(r, "ended") /\ Row' = Row
  BY <1>1 DEF CreateAccount, At, Row
<1>3. CASE req' = [req EXCEPT ![r] = Moved(r, "grant")]
  <2> DEFINE next == Moved(r, "grant")
  <2>1. /\ next \in Requested /\ next.pc = "grant" /\ next.kind = req[r].kind
        /\ next.row = req[r].row /\ next.draft = req[r].draft
    BY <1>1 DEF Moved, Requested, PC
  <2>2. req' = [req EXCEPT ![r] = next] /\ req'[r] = next
    BY <1>3 DEF UserInv
  <2> HIDE DEF next
  <2>3. RequestOK(r)'
    BY <1>1, <1>2, <2>1, <2>2 DEF RequestOK, At, Login
  <2>4. Quiet(r)
    BY <1>2, <2>1, <2>2, <2>3 DEF Quiet
  <2> QED
    BY <2>4, QuietKeeps
<1>4. CASE req' = [req EXCEPT ![r] = Ended(r, "failed")]
  <2> DEFINE next == Ended(r, "failed")
  <2>1. next = [Fresh EXCEPT !.pc = "ended", !.outcome = "failed"]
    BY DEF Ended
  <2>2. next \in Requested /\ next.pc = "ended" /\ next.draft = None
    BY <2>1 DEF Fresh, Requested, PC
  <2>3. req' = [req EXCEPT ![r] = next] /\ req'[r] = next
    BY <1>4 DEF UserInv
  <2> HIDE DEF next
  <2>4. RequestOK(r)'
    BY <2>2, <2>3 DEF RequestOK, At, Login
  <2>5. Quiet(r)
    BY <1>2, <2>2, <2>3, <2>4 DEF Quiet
  <2> QED
    BY <2>5, QuietKeeps
<1> QED
  BY <1>3, <1>4 DEF CreateAccount

\* A tenant's configuration changes under the requests that are on their way, or
\* nothing does.
LEMMA ConfigureKeeps ==
  ASSUME UserInv, (\E i \in Issuer : Configure(i)) \/ UNCHANGED vars PROVE UserInv'
<1>1. UNCHANGED <<users, req, home, ruled>> /\ configs' \in [Issuer -> Provider \cup {None}]
  BY DEF Configure, UserInv, vars
<1>2. Row' = Row
  BY <1>1 DEF Row
<1>3. \A q \in Request : RequestOK(q)'
  BY <1>1, <1>2 DEF UserInv, RequestOK, Login, At
<1>4. Uncontested' /\ Unique' /\ RoleStands'
  BY <1>1, <1>2 DEF UserInv, Uncontested, Unique, RoleStands
<1>5. \A x \in Row' : At(x, "ended")'
  BY <1>1, <1>2 DEF UserInv, At
<1> QED
  BY <1>1, <1>3, <1>4, <1>5 DEF UserInv

-----------------------------------------------------------------------------
\* The invariant holds at the start, when there are no users and no requests.
LEMMA InitUserInv == Init => UserInv
<1> SUFFICES ASSUME Init PROVE UserInv
  OBVIOUS
<1>1. Fresh \in Requested /\ Fresh.pc = "idle" /\ Fresh.draft = None
  BY DEF Fresh, Requested, PC
<1>2. \A r \in Request : req[r] = Fresh
  BY DEF Init
<1>3. Row = {}
  BY DEF Init, Row
<1> HIDE DEF Fresh
<1>4. \A r \in Request : RequestOK(r)
  BY <1>1, <1>2 DEF RequestOK, At, Login
<1>5. req \in [Request -> Requested]
  BY <1>1 DEF Init
<1> QED
  BY <1>1, <1>2, <1>3, <1>4, <1>5 DEF Init, UserInv, Uncontested, Unique, RoleStands

\* Every step keeps it.
LEMMA NextUserInv == UserInv /\ [Next]_vars => UserInv'
<1> SUFFICES ASSUME UserInv, [Next]_vars PROVE UserInv'
  OBVIOUS
<1>1. CASE UNCHANGED vars
  BY <1>1, ConfigureKeeps
<1>2. ASSUME NEW r \in Request, Step(r) PROVE UserInv'
  <2>1. CASE Lose(r) \/ Reject(r) \/ KeycloakFails(r)
    <3>1. ~At(r, "ended") /\ Go(r, Ended(r, "failed"))
      BY <2>1 DEF Lose, Reject, KeycloakFails, Open, At
    <3> QED
      BY <3>1, OverKeeps
  <2>2. CASE Onward(r)
    BY <2>2, OnwardKeeps
  <2>3. CASE Writes(r)
    BY <2>3, WritesKeep
  <2>4. CASE Commit(r)
    BY <2>4, CommitKeeps
  <2>5. CASE CreateAccount(r)
    BY <2>5, AccountKeeps
  <2> QED
    BY <1>2, <2>1, <2>2, <2>3, <2>4, <2>5 DEF Step, Onward, Writes
<1> QED
  BY <1>1, <1>2, ArriveKeeps, ConfigureKeeps DEF Next

\* Two rows that share no key share neither address nor identity.
LEMMA UserInvTyped == UserInv => TypeOK
<1> SUFFICES ASSUME UserInv PROVE TypeOK
  OBVIOUS
<1>1. ASSUME NEW x \in Row, NEW y \in Row, x # y PROVE users[x].email # users[y].email
  <2>1. Keys(users[x]) \cap Keys(users[y]) = {}
    BY <1>1 DEF UserInv, Unique
  <2>2. <<"email", users[x].email>> \in Keys(users[x]) /\ <<"email", users[y].email>> \in Keys(users[y])
    BY DEF Keys
  <2> QED
    BY <2>1, <2>2
<1>2. ASSUME NEW x \in Row, NEW y \in Row, x # y, users[x].subject # None
      PROVE  <<users[x].provider, users[x].subject>> # <<users[y].provider, users[y].subject>>
  <2> SUFFICES ASSUME users[x].provider = users[y].provider, users[x].subject = users[y].subject PROVE FALSE
    OBVIOUS
  <2>1. Keys(users[x]) \cap Keys(users[y]) = {}
    BY <1>2 DEF UserInv, Unique
  <2>2. /\ <<"subject", users[x].provider, users[x].subject>> \in Keys(users[x])
        /\ <<"subject", users[y].provider, users[y].subject>> \in Keys(users[y])
    BY <1>2 DEF Keys
  <2> QED
    BY <2>1, <2>2
<1>3. \A r, q \in Request : r # q /\ req[r].draft # None /\ req[q].draft # None => req[r].row # req[q].row
  BY DEF UserInv, Uncontested
<1> QED
  BY <1>1, <1>2, <1>3 DEF UserInv, TypeOK

\* Every reachable state is well typed; no two users ever share an address or an
\* identity, whatever overlaps and whatever is rolled back.
THEOREM UsersAreDistinct == Spec => []TypeOK
<1>1. Spec => []UserInv
  BY InitUserInv, NextUserInv, PTL DEF Spec
<1> QED
  BY <1>1, UserInvTyped, PTL

\* No login ever changes the role of a user, whatever it overlaps.
THEOREM RolesAreDecided == Spec => []RoleStands
<1>1. Spec => []UserInv
  BY InitUserInv, NextUserInv, PTL DEF Spec
<1>2. UserInv => RoleStands
  BY DEF UserInv
<1> QED
  BY <1>1, <1>2, PTL

-----------------------------------------------------------------------------
\* What a login may rely on as long as nobody else writes.

\* The identity a row has.
Of(user) == <<user.provider, user.subject>>

\* Nobody else has written since r came, nor had when it came.
Alone(r) == Open(r) /\ ~req[r].crowded

\* What a login knows of the committed rows as long as it is alone.
Knows(r) ==
  /\ req[r].pc \in {"email", "link", "insert"} => \A y \in Row : Of(users[y]) # identity(r)
  /\ At(r, "insert") /\ claimed(r).email # NoEmail => \A y \in Row : users[y].email # claimed(r).email
  /\ At(r, "link") => req[r].loaded = users[req[r].row]
  /\ At(r, "commit") => identity(r) \in Identity
  /\ At(r, "commit") /\ req[r].draft = None => req[r].row \in Row /\ Of(users[req[r].row]) = identity(r)
  /\ At(r, "commit") /\ req[r].draft # None => Of(req[r].draft) = identity(r) /\ home[identity(r)] = None

AloneOK(r) ==
  Alone(r) => /\ \A q \in Request \ {r} : req[q].draft = None
              /\ Login(r) => Knows(r)

\* Who clashed, and under what circumstances; who has dealings with Keycloak.
Outcomes(r) ==
  /\ req[r].outcome = "clash" =>
       At(r, "ended") /\ (Login(r) => req[r].crowded \/ claimed(r).email = NoEmail)
  /\ req[r].pc \in {"account", "grant"} => ~Login(r)

\* The home of an identity is the row that has it.
Homes == \A i \in Identity : home[i] # None => home[i] \in Row /\ Of(users[home[i]]) = i

LoginInv == Homes /\ \A r \in Request : AloneOK(r) /\ Outcomes(r)

\* A step of r that changes nothing committed and writes nothing.
LEMMA GoKeepsLogin ==
  ASSUME UserInv, LoginInv, NEW r \in Request, NEW next \in Requested,
         UNCHANGED <<users, home>>, req' = [req EXCEPT ![r] = next],
         next.draft = None \/ next.draft = req[r].draft,
         next.pc \notin {"idle", "ended"} /\ ~next.crowded => \A q \in Request \ {r} : req[q].draft = None,
         Alone(r)' /\ Login(r)' => Knows(r)',
         Outcomes(r)'
  PROVE  LoginInv'
<1>1. req'[r] = next /\ \A q \in Request \ {r} : req'[q] = req[q]
  BY DEF UserInv
<1>2. Row' = Row
  BY DEF Row
<1>3. Homes'
  BY <1>2 DEF Homes, LoginInv
<1>4. ASSUME NEW q \in Request \ {r} PROVE AloneOK(q)' /\ Outcomes(q)'
  <2>1. AloneOK(q) /\ Outcomes(q) /\ req'[q] = req[q]
    BY <1>1 DEF LoginInv
  <2>2. \A p \in Request \ {q} : req[p].draft = None => req'[p].draft = None
    BY <1>1
  <2>3. Outcomes(q)'
    BY <2>1 DEF Outcomes, At, Login, claimed
  <2>4. Alone(q)' => Alone(q) /\ Login(q)' = Login(q) /\ Knows(q)' = Knows(q)
    BY <1>2, <2>1 DEF Alone, Open, Login, Knows, At, claimed, identity
  <2> QED
    BY <2>1, <2>2, <2>3, <2>4 DEF AloneOK
<1>5. AloneOK(r)'
  BY <1>1 DEF AloneOK, Alone, Open
<1> QED
  BY <1>3, <1>4, <1>5 DEF LoginInv

\* A request that fails leaves nothing.
LEMMA FailKeepsLogin ==
  ASSUME UserInv, LoginInv, NEW r \in Request, UNCHANGED <<users, home>>,
         req' = [req EXCEPT ![r] = Ended(r, "failed")]
  PROVE  LoginInv'
<1> DEFINE next == Ended(r, "failed")
<1>1. next = [Fresh EXCEPT !.pc = "ended", !.outcome = "failed"]
  BY DEF Ended
<1>2. next \in Requested /\ next.pc = "ended" /\ next.draft = None /\ next.outcome = "failed"
  BY <1>1 DEF Fresh, Requested, PC
<1>3. req' = [req EXCEPT ![r] = next] /\ req'[r] = next
  BY DEF UserInv
<1> HIDE DEF next
<1>4. ~Alone(r)' /\ Outcomes(r)'
  BY <1>2, <1>3 DEF Alone, Open, Outcomes, At
<1> QED
  BY <1>2, <1>3, <1>4, GoKeepsLogin


\* Arrivals look around first: another request's write makes them crowded.
LEMMA ArriveKeepsLogin ==
  ASSUME UserInv, LoginInv, NEW r \in Request, Arrive(r) \/ ArriveCreate(r) \/ ArriveChange(r)
  PROVE  LoginInv'
<1>1. \E next \in Requested :
        /\ Go(r, next) /\ next.draft = None /\ next.outcome = "none"
        /\ next.pc \in {"issuer", "insert", "load"} /\ next.crowded = Writing(r)
        /\ next.kind = "login" => next.pc = "issuer"
  <2>1. Writing(r) \in BOOLEAN
    BY DEF Writing
  <2>2. CASE Arrive(r)
    <3>1. PICK t \in Token :
            Go(r, [Fresh EXCEPT !.pc = "issuer", !.token = t, !.crowded = Writing(r)])
      BY <2>2 DEF Arrive
    <3> DEFINE next == [Fresh EXCEPT !.pc = "issuer", !.token = t, !.crowded = Writing(r)]
    <3>2. /\ next \in Requested /\ next.draft = None /\ next.outcome = "none"
          /\ next.pc = "issuer" /\ next.crowded = Writing(r)
      BY <2>1 DEF Fresh, Requested, PC
    <3> HIDE DEF next
    <3> QED
      BY <3>1, <3>2 DEF next
  <2>3. CASE ArriveCreate(r)
    <3>1. PICK e \in Email, role \in Given :
            Go(r, [Fresh EXCEPT !.pc = "insert", !.kind = "create", !.email = e, !.role = role,
                                !.crowded = Writing(r)])
      BY <2>3 DEF ArriveCreate
    <3> DEFINE next == [Fresh EXCEPT !.pc = "insert", !.kind = "create", !.email = e, !.role = role,
                                     !.crowded = Writing(r)]
    <3>2. role \in Role
      BY IdentityAssumption
    <3>3. /\ next \in Requested /\ next.draft = None /\ next.outcome = "none"
          /\ next.pc = "insert" /\ next.crowded = Writing(r) /\ next.kind = "create"
      BY <2>1, <3>2 DEF Fresh, Requested, PC
    <3> HIDE DEF next
    <3> QED
      BY <3>1, <3>3 DEF next
  <2>4. CASE ArriveChange(r)
    <3>1. PICK x \in Row, role \in Given :
            Go(r, [Fresh EXCEPT !.pc = "load", !.kind = "change", !.row = x, !.role = role,
                                !.crowded = Writing(r)])
      BY <2>4 DEF ArriveChange
    <3> DEFINE next == [Fresh EXCEPT !.pc = "load", !.kind = "change", !.row = x, !.role = role,
                                     !.crowded = Writing(r)]
    <3>2. role \in Role /\ x \in Request
      BY IdentityAssumption DEF Row
    <3>3. /\ next \in Requested /\ next.draft = None /\ next.outcome = "none"
          /\ next.pc = "load" /\ next.crowded = Writing(r) /\ next.kind = "change"
      BY <2>1, <3>2 DEF Fresh, Requested, PC
    <3> HIDE DEF next
    <3> QED
      BY <3>1, <3>3 DEF next
  <2> QED
    BY <2>2, <2>3, <2>4
<1>2. PICK next \in Requested :
        /\ Go(r, next) /\ next.draft = None /\ next.outcome = "none"
        /\ next.pc \in {"issuer", "insert", "load"} /\ next.crowded = Writing(r)
        /\ next.kind = "login" => next.pc = "issuer"
  BY <1>1
<1>3. UNCHANGED <<users, home>> /\ req' = [req EXCEPT ![r] = next] /\ req'[r] = next
  BY <1>2 DEF Go, UserInv
<1>4. ~next.crowded => \A q \in Request \ {r} : req[q].draft = None
  BY <1>2 DEF Writing
<1>5. Alone(r)' /\ Login(r)' => Knows(r)'
  BY <1>2, <1>3 DEF Login, Knows, At
<1>6. Outcomes(r)'
  BY <1>2, <1>3 DEF Outcomes
<1> QED
  BY <1>2, <1>3, <1>4, <1>5, <1>6, GoKeepsLogin

\* A request that moves on as the same, with nothing written by the step.
Same(r, next) ==
  /\ next \in Requested
  /\ next.kind = req[r].kind /\ next.token = req[r].token /\ next.crowded = req[r].crowded
  /\ next.outcome = req[r].outcome /\ next.draft = req[r].draft

\* A step that leaves the rows alone keeps what a lone login relies on.
LEMMA MoveKeepsLogin ==
  ASSUME UserInv, LoginInv, NEW r \in Request, Open(r), NEW next, Same(r, next),
         UNCHANGED <<users, home>>, req' = [req EXCEPT ![r] = next],
         next.pc \in {"account", "grant"} => ~Login(r),
         Alone(r) /\ Login(r) => Knows(r)'
  PROVE  LoginInv'
<1>1. req'[r] = next /\ next \in Requested
  BY DEF UserInv, Same
<1>2. AloneOK(r) /\ Outcomes(r)
  BY DEF LoginInv
<1>3. ~next.crowded => \A q \in Request \ {r} : req[q].draft = None
  BY <1>2 DEF AloneOK, Alone, Same
<1>4. Alone(r)' /\ Login(r)' => Knows(r)'
  BY <1>1 DEF Alone, Login, Same
<1>5. Outcomes(r)'
  BY <1>1, <1>2 DEF Outcomes, At, Open, Same, Login
<1> QED
  BY <1>1, <1>3, <1>4, <1>5, GoKeepsLogin DEF Same

\* What Moved keeps.
LEMMA MovedSame ==
  ASSUME NEW r \in Request, req[r] \in Requested, NEW p \in PC
  PROVE  /\ Same(r, Moved(r, p)) /\ Moved(r, p).pc = p /\ Moved(r, p).row = req[r].row
         /\ Moved(r, p).provider = req[r].provider /\ Moved(r, p).loaded = req[r].loaded
  BY DEF Moved, Same, Requested

\* The steps without a write do.
LEMMA OnwardKeepsLogin == ASSUME UserInv, LoginInv, NEW r \in Request, Onward(r) PROVE LoginInv'
<1>1. req[r] \in Requested /\ RequestOK(r) /\ users \in [Request -> User \cup {None}]
  BY DEF UserInv
<1>2. Open(r)
  BY DEF Onward, Validate, FindBySubject, NoSuchSubject, FindByEmail, NoSuchEmail, Grant, LoadUser, At, Open
<1>3. \A next : Go(r, next) => UNCHANGED <<users, home>> /\ req' = [req EXCEPT ![r] = next]
                               /\ Row' = Row /\ req'[r] = next
  BY DEF Go, UserInv, Row
<1>4. ASSUME Validate(r) PROVE LoginInv'
  <2> DEFINE p == ProviderFor(req[r].token.issuer)
             next == [Moved(r, "subject") EXCEPT !.provider = p]
  <2>1. Go(r, next) /\ req[r].pc = "issuer" /\ req[r].token \in Token
    BY <1>1, <1>4 DEF Validate, At, RequestOK, Login
  <2>2. p \in Provider
    BY <2>1, IdentityAssumption DEF UserInv, ProviderFor
  <2> HIDE DEF p
  <2>3. Same(r, next) /\ next.pc = "subject"
    <3>1. "subject" \in PC
      BY DEF PC
    <3>2. PICK record : record = next
      OBVIOUS
    <3>4. Is(record, "subject", req[r].kind, req[r].token, p, req[r].email,
             req[r].role, req[r].row, req[r].loaded, req[r].draft, req[r].crowded, req[r].outcome)
      BY <1>1, <3>2, ValidatedIs
    <3> HIDE DEF next
    <3>3. /\ record \in Requested /\ record.pc = "subject"
          /\ record.kind = req[r].kind /\ record.token = req[r].token /\ record.draft = req[r].draft
          /\ record.crowded = req[r].crowded /\ record.outcome = req[r].outcome
      <4>1. PICK place \in PC : place = "subject"
        BY <3>1
      <4>2. Fitting(place, p, req[r].row, req[r].loaded, req[r].draft)
        BY <1>1, <2>2, FieldsOf DEF Fitting
      <4>3. Is(record, place, req[r].kind, req[r].token, p, req[r].email,
               req[r].role, req[r].row, req[r].loaded, req[r].draft, req[r].crowded, req[r].outcome)
        BY <3>4, <4>1
      <4>4. /\ record \in Requested /\ record.pc = place
            /\ record.kind = req[r].kind /\ record.token = req[r].token /\ record.draft = req[r].draft
            /\ record.crowded = req[r].crowded /\ record.outcome = req[r].outcome
        BY <1>1, <4>2, <4>3, IsTyped
      <4> QED
        BY <4>1, <4>4
    <3> QED
      BY <3>2, <3>3 DEF Same
  <2>4. Knows(r)'
    BY <1>3, <2>1, <2>3 DEF Knows, At
  <2> HIDE DEF next
  <2> QED
    BY <1>2, <1>3, <2>1, <2>3, <2>4, MoveKeepsLogin
<1>5. ASSUME NEW place \in {"email", "insert", "commit", "change"}, Go(r, Moved(r, place)),
             Alone(r) /\ Login(r) => Knows(r)'
      PROVE  LoginInv'
  <2>1. Same(r, Moved(r, place)) /\ Moved(r, place).pc = place
    BY <1>1, MovedSame DEF PC
  <2> QED
    BY <1>2, <1>3, <1>5, <2>1, MoveKeepsLogin
<1>6. ASSUME NEW place \in PC, Go(r, Moved(r, place))
      PROVE  claimed(r)' = claimed(r) /\ identity(r)' = identity(r) /\ req'[r].pc = place
             /\ req'[r].row = req[r].row /\ req'[r].draft = req[r].draft
  <2>1. Same(r, Moved(r, place)) /\ Moved(r, place).pc = place
        /\ Moved(r, place).provider = req[r].provider /\ Moved(r, place).row = req[r].row
    BY <1>1, MovedSame
  <2> QED
    BY <1>3, <1>6, <2>1 DEF Same, claimed, identity
<1>7. ASSUME NEW x \in Row, NEW place \in {"commit", "link"}, req[r].pc \in {"subject", "email"},
             Found(r, x, place),
             place = "commit" => Of(users[x]) = identity(r),
             place = "link" => At(r, "email")
      PROVE  LoginInv'
  <2> DEFINE was == IF place = "link" THEN users[x] ELSE None
             next == [Moved(r, place) EXCEPT !.row = x, !.loaded = was]
  <2>1. Go(r, next)
    BY <1>7 DEF Found
  <2>2. x \in Request /\ was \in User \cup {None} /\ req[r].draft = None
    BY <1>1, <1>7 DEF Row, RequestOK
  <2>3. was = users[x] \/ place = "commit"
    BY <1>7
  <2> HIDE DEF was
  <2>4. Same(r, next) /\ next.pc = place /\ next.row = x /\ next.loaded = was
        /\ next.provider = req[r].provider
    <3>1. place \in PC
      BY DEF PC
    <3>2. PICK record : record = next
      OBVIOUS
    <3>4. Is(record, place, req[r].kind, req[r].token, req[r].provider, req[r].email,
             req[r].role, x, was, req[r].draft, req[r].crowded, req[r].outcome)
      BY <1>1, <3>2, FoundIs
    <3> HIDE DEF next
    <3>3. /\ record \in Requested
          /\ record.pc = place /\ record.kind = req[r].kind /\ record.token = req[r].token
          /\ record.provider = req[r].provider /\ record.row = x /\ record.loaded = was
          /\ record.draft = req[r].draft /\ record.crowded = req[r].crowded
          /\ record.outcome = req[r].outcome
      <4>1. Fitting(place, req[r].provider, x, was, req[r].draft)
        BY <1>1, <2>2, <3>1, FieldsOf DEF Fitting
      <4> QED
        BY <1>1, <3>4, <4>1, IsTyped
    <3> QED
      BY <3>2, <3>3 DEF Same
  <2> HIDE DEF next
  <2>5. /\ claimed(r)' = claimed(r) /\ identity(r)' = identity(r) /\ Row' = Row /\ users' = users
        /\ req'[r] = next
    BY <1>3, <2>1, <2>4 DEF Same, claimed, identity
  <2>6. Alone(r) /\ Login(r) => Knows(r)'
    <3>1. Alone(r) /\ Login(r) => Knows(r)
      BY DEF LoginInv, AloneOK
    <3>2. identity(r) \in Identity
      BY <1>1, <1>7, IdentityTyped DEF RequestOK, identity, claimed, Identity
    <3> QED
      BY <1>7, <2>2, <2>3, <2>4, <2>5, <3>1, <3>2 DEF Knows, At, Same
  <2> QED
    BY <1>2, <1>3, <2>1, <2>4, <2>6, MoveKeepsLogin
<1>8. ASSUME NoSuchSubject(r) PROVE LoginInv'
  <2> DEFINE place == IF claimed(r).email = NoEmail THEN "insert" ELSE "email"
  <2>1. Go(r, Moved(r, place)) /\ place \in {"email", "insert"} /\ place \in PC
    BY <1>8 DEF NoSuchSubject, PC
  <2>2. \A y \in Row : Of(users[y]) # identity(r)
    BY <1>8 DEF NoSuchSubject, Of
  <2>3. place = "insert" => claimed(r).email = NoEmail
    OBVIOUS
  <2> HIDE DEF place
  <2>4. Knows(r)'
    BY <1>3, <1>6, <2>1, <2>2, <2>3 DEF Knows, At, Go
  <2> QED
    BY <1>5, <2>1, <2>4
<1>9. ASSUME NoSuchEmail(r) PROVE LoginInv'
  <2>1. Go(r, Moved(r, "insert")) /\ "insert" \in PC /\ At(r, "email")
    BY <1>9 DEF NoSuchEmail, PC
  <2>2. \A y \in Row : users[y].email # claimed(r).email
    BY <1>9 DEF NoSuchEmail
  <2>3. Alone(r) /\ Login(r) => \A y \in Row : Of(users[y]) # identity(r)
    BY <2>1 DEF LoginInv, AloneOK, Knows, At
  <2>4. Alone(r) /\ Login(r) => Knows(r)'
    BY <1>3, <1>6, <2>1, <2>2, <2>3 DEF Knows, At, Go
  <2> QED
    BY <1>5, <2>1, <2>4
<1>10. ASSUME Grant(r) PROVE LoginInv'
  <2>1. Go(r, Moved(r, "commit")) /\ ~Login(r)
    BY <1>10 DEF Grant, At, LoginInv, Outcomes
  <2> QED
    BY <1>5, <2>1
<1>11. ASSUME LoadUser(r) PROVE LoginInv'
  <2> DEFINE was == users[req[r].row]
             next == [Moved(r, "change") EXCEPT !.loaded = was]
  <2>1. Go(r, next) /\ req[r].row \in Row /\ ~Login(r)
    BY <1>1, <1>11 DEF LoadUser, At, RequestOK, Login
  <2>2. was \in User
    BY <1>1, <2>1 DEF Row
  <2> HIDE DEF was
  <2>3. Same(r, next) /\ next.pc = "change"
    <3>1. "change" \in PC
      BY DEF PC
    <3>2. next = [[req[r] EXCEPT !.pc = "change"] EXCEPT !.loaded = was]
      BY DEF Moved
    <3> HIDE DEF next
    <3> QED
      BY <1>1, <2>2, <3>1, <3>2 DEF Same, Requested
  <2> HIDE DEF next
  <2> QED
    BY <1>2, <1>3, <2>1, <2>3, MoveKeepsLogin
<1>12. CASE FindBySubject(r)
  BY <1>7, <1>12 DEF FindBySubject, At, Of
<1>13. CASE FindByEmail(r)
  BY <1>7, <1>13 DEF FindByEmail, At
<1> QED
  BY <1>4, <1>8, <1>9, <1>10, <1>11, <1>12, <1>13 DEF Onward


\* A write makes everybody else crowded.  If r was alone, its row has, from its
\* commit on, the identity no other row has.
LEMMA WriteKeepsLogin ==
  ASSUME UserInv, LoginInv, NEW r \in Request, NEW x \in Row \cup {r}, NEW user \in User,
         NEW next \in {"account", "commit"}, Open(r), Write(r, x, user, next),
         next = "account" => ~Login(r),
         Alone(r) /\ Login(r) => Of(user) = identity(r) /\ \A y \in Row : Of(users[y]) # identity(r),
         Login(r) => identity(r) \in Identity,
         Alone(r) /\ Login(r) /\ claimed(r).email # NoEmail => ~Clashes(x, user)
  PROVE  LoginInv'
<1> DEFINE noted(q) == [req[q] EXCEPT !.crowded = TRUE]
           mine == [Moved(r, next) EXCEPT !.row = x, !.draft = user, !.loaded = None]
<1>1. req[r] \in Requested /\ AloneOK(r) /\ Outcomes(r) /\ x \in Request
  BY DEF UserInv, LoginInv, Row
<1>2. CASE Clashes(x, user)
  <2> DEFINE rec == Ended(r, "clash")
  <2>1. req' = [req EXCEPT ![r] = rec] /\ UNCHANGED <<users, home>>
    BY <1>2 DEF Write, Go
  <2>2. /\ rec \in Requested /\ rec.pc = "ended" /\ rec.draft = None /\ rec.kind = req[r].kind
        /\ rec.token = req[r].token /\ rec.provider = req[r].provider /\ rec.crowded = req[r].crowded
    <3>1. PICK record : record = rec
      OBVIOUS
    <3>2. Is(record, "ended", req[r].kind, req[r].token, req[r].provider, None,
             None, None, None, None, req[r].crowded, "clash")
      BY <3>1, ClashedIs
    <3> HIDE DEF rec
    <3> QED
      BY <1>1, <3>1, <3>2, ClashedTyped
  <2>3. req'[r] = rec
    BY <2>1 DEF UserInv
  <2> HIDE DEF rec
  <2>4. ~Alone(r)'
    BY <2>2, <2>3 DEF Alone, Open
  <2>5. claimed(r)' = claimed(r) /\ Login(r)' = Login(r) /\ req'[r].crowded = req[r].crowded
    BY <2>2, <2>3 DEF claimed, Login
  <2>6. Outcomes(r)'
    BY <1>2, <2>2, <2>3, <2>5 DEF Outcomes, At, Alone
  <2> QED
    BY <2>1, <2>2, <2>4, <2>6, GoKeepsLogin
<1>3. CASE ~Clashes(x, user)
  <2>1. /\ req' = [q \in Request |-> IF q = r THEN mine ELSE IF Open(q) THEN noted(q) ELSE req[q]]
        /\ UNCHANGED <<users, home>>
    BY <1>3 DEF Write
  <2>2. Row' = Row
    BY <2>1 DEF Row
  <2>3. /\ mine.pc = next /\ mine.kind = req[r].kind /\ mine.token = req[r].token
        /\ mine.provider = req[r].provider /\ mine.draft = user /\ mine.crowded = req[r].crowded
        /\ mine.outcome = req[r].outcome
    <3>1. PICK record : record = mine
      OBVIOUS
    <3>2. next \in PC
      BY DEF PC
    <3>4. Is(record, next, req[r].kind, req[r].token, req[r].provider, req[r].email,
             req[r].role, x, None, user, req[r].crowded, req[r].outcome)
      BY <1>1, <3>1, WrittenIs
    <3> HIDE DEF mine
    <3>3. /\ record.pc = next /\ record.kind = req[r].kind /\ record.token = req[r].token
          /\ record.provider = req[r].provider /\ record.draft = user /\ record.crowded = req[r].crowded
          /\ record.outcome = req[r].outcome
      <4>1. Fitting(next, req[r].provider, x, None, user)
        BY <1>1, <3>2, FieldsOf DEF Fitting
      <4> QED
        BY <1>1, <3>4, <4>1, IsTyped
    <3> QED
      BY <3>1, <3>3
  <2>4. req'[r] = mine
    BY <2>1
  <2>5. \A q \in Request \ {r} :
          /\ req'[q].pc = req[q].pc /\ req'[q].kind = req[q].kind /\ req'[q].token = req[q].token
          /\ req'[q].provider = req[q].provider /\ req'[q].draft = req[q].draft
          /\ req'[q].outcome = req[q].outcome
          /\ Open(q) => req'[q].crowded
          /\ ~Open(q) => req'[q].crowded = req[q].crowded
    <3> SUFFICES ASSUME NEW q \in Request \ {r}
                 PROVE  /\ req'[q].pc = req[q].pc /\ req'[q].kind = req[q].kind
                        /\ req'[q].token = req[q].token /\ req'[q].provider = req[q].provider
                        /\ req'[q].draft = req[q].draft /\ req'[q].outcome = req[q].outcome
                        /\ Open(q) => req'[q].crowded
                        /\ ~Open(q) => req'[q].crowded = req[q].crowded
      OBVIOUS
    <3>1. req'[q] = IF Open(q) THEN noted(q) ELSE req[q]
      BY <2>1
    <3>2. req[q] \in Requested
      BY DEF UserInv
    <3>3. CASE Open(q)
      <4>1. req'[q] = [req[q] EXCEPT !.crowded = TRUE]
        BY <3>1, <3>3
      <4> HIDE DEF noted
      <4> QED
        BY <3>2, <3>3, <4>1, NotedTyped
    <3>4. CASE ~Open(q)
      BY <3>1, <3>4
    <3> QED
      BY <3>3, <3>4
  <2> HIDE DEF mine, noted
  <2>6. ASSUME NEW q \in Request \ {r} PROVE AloneOK(q)' /\ Outcomes(q)'
    <3>1. ~Alone(q)'
      BY <2>5 DEF Alone, Open
    <3>2. Outcomes(q)'
      BY <2>5 DEF LoginInv, Outcomes, At, Open, Login, claimed
    <3> QED
      BY <3>1, <3>2 DEF AloneOK
  <2>7. Homes'
    BY <2>1, <2>2 DEF Homes, LoginInv
  <2>8. /\ claimed(r)' = claimed(r) /\ identity(r)' = identity(r) /\ Login(r)' = Login(r)
        /\ Alone(r)' => Alone(r)
    BY <2>3, <2>4 DEF claimed, identity, Login, Alone
  <2>9. Alone(r) /\ Login(r) => home[identity(r)] = None
    BY DEF LoginInv, Homes
  <2>10. Alone(r) /\ Login(r) => Knows(r)'
    BY <2>1, <2>3, <2>4, <2>8, <2>9, NoUserAssumption DEF Knows, At, NoUserAssumption
  <2>11. AloneOK(r)'
    BY <1>1, <2>5, <2>8, <2>10 DEF AloneOK
  <2>12. Outcomes(r)'
    BY <1>1, <2>3, <2>4, <2>8 DEF Outcomes, At, Open
  <2> QED
    BY <2>6, <2>7, <2>11, <2>12 DEF LoginInv
<1> QED
  BY <1>2, <1>3


\* A step to the commit, with nothing written.
LEMMA UnwrittenKeepsLogin ==
  ASSUME UserInv, LoginInv, NEW r \in Request, req[r].pc \in {"link", "change"},
         Go(r, Moved(r, "commit")), Login(r) => Of(req[r].loaded) = identity(r)
  PROVE  LoginInv'
<1> DEFINE next == Moved(r, "commit")
<1>1. req[r] \in Requested /\ RequestOK(r) /\ Open(r) /\ req[r].draft = None
  BY DEF UserInv, RequestOK, Open
<1>2. Same(r, next) /\ next.pc = "commit" /\ next.row = req[r].row /\ next.provider = req[r].provider
  BY <1>1, MovedSame DEF PC
<1>3. UNCHANGED <<users, home>> /\ req' = [req EXCEPT ![r] = next] /\ req'[r] = next /\ Row' = Row
  BY DEF Go, UserInv, Row
<1> HIDE DEF next
<1>4. claimed(r)' = claimed(r) /\ identity(r)' = identity(r)
  BY <1>2, <1>3 DEF Same, claimed, identity
<1>5. Login(r) => At(r, "link") /\ req[r].row \in Row
  BY <1>1 DEF RequestOK, At, Login
<1>6. Alone(r) /\ Login(r) => Knows(r)
  BY DEF LoginInv, AloneOK
<1>7. Login(r) => identity(r) \in Identity
  BY <1>1, <1>5, IdentityTyped DEF RequestOK, At, identity, claimed, Identity
<1>8. Alone(r) /\ Login(r) => Knows(r)'
  BY <1>1, <1>2, <1>3, <1>4, <1>5, <1>6, <1>7 DEF Knows, At, Same
<1> QED
  BY <1>1, <1>2, <1>3, <1>8, MoveKeepsLogin

\* Keys are addresses or identities.
LEMMA KeysMeet ==
  ASSUME NEW u, NEW v, Keys(u) \cap Keys(v) # {}
  PROVE  u.email = v.email \/ (u.subject # None /\ v.subject # None /\ Of(u) = Of(v))
<1>1. PICK k : k \in Keys(u) /\ k \in Keys(v)
  OBVIOUS
<1>2. \A w : k \in Keys(w) => k = <<"email", w.email>>
                              \/ (w.subject # None /\ k = <<"subject", w.provider, w.subject>>)
  BY DEF Keys
<1>3. \A a, b, c : <<"email", a>> # <<"subject", b, c>>
  <2> SUFFICES ASSUME NEW a, NEW b, NEW c, <<"email", a>> = <<"subject", b, c>> PROVE FALSE
    OBVIOUS
  <2>1. <<"email", a>>[1] = "email" /\ <<"subject", b, c>>[1] = "subject"
    OBVIOUS
  <2> QED
    BY <2>1
<1>4. CASE k = <<"email", u.email>>
  <2>1. k = <<"email", v.email>>
    BY <1>1, <1>2, <1>3, <1>4
  <2> QED
    BY <1>4, <2>1
<1>5. CASE u.subject # None /\ k = <<"subject", u.provider, u.subject>>
  <2>1. v.subject # None /\ k = <<"subject", v.provider, v.subject>>
    BY <1>1, <1>2, <1>3, <1>5
  <2> QED
    BY <1>5, <2>1 DEF Of
<1> QED
  BY <1>1, <1>2, <1>4, <1>5

\* The writes do.
LEMMA WritesKeepLogin == ASSUME UserInv, LoginInv, NEW r \in Request, Writes(r) PROVE LoginInv'
<1>1. /\ req[r] \in Requested /\ RequestOK(r) /\ users \in [Request -> User \cup {None}]
      /\ Unique /\ AloneOK(r)
  BY DEF UserInv, LoginInv
<1>2. Open(r)
  BY DEF Writes, Link, Insert, InsertCreated, ChangeUser, At, Open
<1>3. \A x \in Row : x \in Request /\ users[x] \in User /\ KeysAt(x) = Keys(users[x])
  BY <1>1 DEF Row, KeysAt
<1>4. ASSUME Link(r) PROVE LoginInv'
  <2>1. /\ At(r, "link") /\ req[r].pc = "link" /\ req[r].row \in Row
        /\ req[r].token \in Token /\ req[r].provider \in Provider /\ Login(r)
    BY <1>1, <1>4 DEF Link, At, RequestOK
  <2>2. claimed(r).subject \in Subject /\ claimed(r).subject # None
    BY <2>1, IdentityTyped, IdentityAssumption DEF claimed
  <2>3. /\ Linked(r) \in User /\ Linked(r).email = users[req[r].row].email
        /\ Alone(r) => Of(Linked(r)) = identity(r)
        /\ identity(r) \in Identity
    <3>1. Alone(r) => req[r].loaded = users[req[r].row]
      BY <1>1, <2>1 DEF AloneOK, Knows
    <3> QED
      BY <1>3, <2>1, <2>2, <3>1 DEF Linked, User, Of, identity, Identity
  <2>4. Alone(r) => \A y \in Row : Of(users[y]) # identity(r)
    BY <1>1, <2>1 DEF AloneOK, Knows
  <2>5. Alone(r) => ~Clashes(req[r].row, Linked(r))
    <3> SUFFICES ASSUME Alone(r), NEW y \in Row \ {req[r].row}, KeysAt(y) \cap Keys(Linked(r)) # {}
                 PROVE  FALSE
      BY DEF Clashes
    <3>1. Keys(users[y]) \cap Keys(Linked(r)) # {}
      BY <1>3
    <3>2. users[y].email = Linked(r).email \/ Of(users[y]) = Of(Linked(r))
      BY <3>1, KeysMeet
    <3>3. users[y].email # users[req[r].row].email
      <4>1. Keys(users[y]) \cap Keys(users[req[r].row]) = {}
        BY <1>1, <2>1 DEF Unique
      <4>2. \A u : <<"email", u.email>> \in Keys(u)
        BY DEF Keys
      <4> QED
        BY <4>1, <4>2
    <3> QED
      BY <2>3, <2>4, <3>2, <3>3
  <2>6. CASE Of(req[r].loaded) = identity(r) /\ Go(r, Moved(r, "commit"))
    BY <2>1, <2>6, UnwrittenKeepsLogin
  <2>7. CASE Write(r, req[r].row, Linked(r), "commit")
    BY <1>2, <2>1, <2>3, <2>4, <2>5, <2>7, WriteKeepsLogin
  <2> QED
    BY <1>4, <2>6, <2>7 DEF Link, Of
<1>5. ASSUME Insert(r) PROVE LoginInv'
  <2>1. /\ req[r].token \in Token /\ req[r].provider \in Provider /\ Login(r) /\ At(r, "insert")
        /\ req[r].pc = "insert"
    BY <1>1, <1>5 DEF Insert, At, RequestOK
  <2> DEFINE address == IF claimed(r).email = NoEmail THEN Unknown(claimed(r).subject) ELSE claimed(r).email
             user == [provider |-> req[r].provider, subject |-> claimed(r).subject, email |-> address,
                      role |-> RoleFrom(claimed(r).roles)]
  <2>2. claimed(r).subject \in Subject /\ claimed(r).email \in Email \cup {NoEmail}
    BY <2>1, IdentityTyped DEF claimed
  <2>3. address \in Address /\ (claimed(r).email # NoEmail => address = claimed(r).email)
    BY <2>2 DEF Address
  <2>4. RoleFrom(claimed(r).roles) \in Role
    BY RoleFromTyped
  <2> HIDE DEF address
  <2>5. /\ user \in User /\ user.email = address /\ Of(user) = identity(r)
        /\ identity(r) \in Identity
    BY <2>1, <2>2, <2>3, <2>4 DEF User, Of, identity, Identity
  <2>6. Write(r, r, user, "commit")
    BY <1>5 DEF Insert, address
  <2> HIDE DEF user
  <2>7. Alone(r) => /\ \A y \in Row : Of(users[y]) # identity(r)
                    /\ claimed(r).email # NoEmail => \A y \in Row : users[y].email # claimed(r).email
    BY <1>1, <2>1 DEF AloneOK, Knows
  <2>8. Alone(r) /\ claimed(r).email # NoEmail => ~Clashes(r, user)
    <3> SUFFICES ASSUME Alone(r), claimed(r).email # NoEmail,
                        NEW y \in Row \ {r}, KeysAt(y) \cap Keys(user) # {}
                 PROVE  FALSE
      BY DEF Clashes
    <3>1. Keys(users[y]) \cap Keys(user) # {}
      BY <1>3
    <3>2. users[y].email = user.email \/ Of(users[y]) = Of(user)
      BY <3>1, KeysMeet
    <3> QED
      BY <2>3, <2>5, <2>7, <3>2
  <2> QED
    BY <1>2, <2>5, <2>6, <2>7, <2>8, WriteKeepsLogin
<1>6. ASSUME InsertCreated(r) PROVE LoginInv'
  <2> DEFINE user == [provider |-> Keycloak, subject |-> None, email |-> req[r].email, role |-> req[r].role]
             next == IF Default = Keycloak THEN "account" ELSE "commit"
  <2>1. req[r].email \in Email /\ req[r].role \in Role /\ ~Login(r)
    BY <1>1, <1>6 DEF InsertCreated, At, RequestOK
  <2>2. user \in User /\ next \in {"account", "commit"}
    BY <2>1, IdentityAssumption DEF User, Address
  <2>3. Write(r, r, user, next)
    BY <1>6 DEF InsertCreated
  <2> HIDE DEF user, next
  <2> QED
    BY <1>2, <2>1, <2>2, <2>3, WriteKeepsLogin
<1>7. ASSUME ChangeUser(r) PROVE LoginInv'
  <2> DEFINE user == [users[req[r].row] EXCEPT !.role = req[r].role]
  <2>1. req[r].pc = "change" /\ req[r].row \in Row /\ ~Login(r) /\ req[r].role \in Role
    BY <1>1, <1>7 DEF ChangeUser, At, RequestOK, Login
  <2>2. user \in User
    BY <1>3, <2>1 DEF User
  <2>3. CASE Go(r, Moved(r, "commit"))
    BY <2>1, <2>3, UnwrittenKeepsLogin
  <2>4. CASE Write(r, req[r].row, user, "commit")
    <3> HIDE DEF user
    <3> QED
      BY <1>2, <2>1, <2>2, <2>4, WriteKeepsLogin
  <2> QED
    BY <1>7, <2>3, <2>4 DEF ChangeUser
<1> QED
  BY <1>4, <1>5, <1>6, <1>7 DEF Writes


\* A commit gives an identity its home, and takes it from whom the row was.
LEMMA CommitKeepsHomes == ASSUME UserInv, LoginInv, NEW r \in Request, Commit(r) PROVE Homes'
<1> DEFINE d == req[r].draft
           x == req[r].row
<1>1. At(r, "commit") /\ RequestOK(r) /\ Open(r) /\ req[r] \in Requested
  BY DEF Commit, UserInv, At, Open
<1>2. /\ users' = IF d = None THEN users ELSE [users EXCEPT ![x] = d]
      /\ home' = Settled(r)
  BY DEF Commit
<1>3. d # None => x \in Row \cup {r} /\ x \in Request
  BY <1>1 DEF RequestOK, Row
<1>4. Login(r) /\ ~req[r].crowded =>
        IF d = None THEN x \in Row /\ Of(users[x]) = identity(r) ELSE Of(d) = identity(r)
  BY <1>1 DEF LoginInv, AloneOK, Alone, Knows
<1> HIDE DEF d, x
<1>5. \A y \in Row : y \in Request
  BY DEF Row
<1>6. SUFFICES ASSUME NEW i \in Identity, home'[i] # None
               PROVE  home'[i] \in Row' /\ Of(users'[home'[i]]) = i
  BY DEF Homes
<1>7. home[i] # None => home[i] \in Row /\ Of(users[home[i]]) = i
  BY DEF LoginInv, Homes
<1>8. CASE Login(r) /\ i = identity(r)
  <2>1. ~req[r].crowded /\ home'[i] = x
    BY <1>2, <1>6, <1>8 DEF Settled, x
  <2>2. CASE d = None
    BY <1>2, <1>4, <1>8, <2>1, <2>2 DEF Row
  <2>3. CASE d # None
    <3>1. users' = [users EXCEPT ![x] = d] /\ x \in Request
      BY <1>2, <1>3, <2>3
    <3>2. users'[x] = d
      BY <3>1 DEF UserInv
    <3> QED
      BY <1>4, <1>8, <2>1, <2>3, <3>1, <3>2 DEF Row
  <2> QED
    BY <2>2, <2>3
<1>9. CASE ~(Login(r) /\ i = identity(r))
  <2>1. home'[i] = home[i] /\ ~(d # None /\ home[i] = x /\ i # Of(d))
    BY <1>2, <1>6, <1>9 DEF Settled, Of, d, x
  <2>2. CASE d = None
    BY <1>2, <1>6, <1>7, <2>1, <2>2 DEF Row
  <2>3. CASE d # None
    <3>1. users' = [users EXCEPT ![x] = d] /\ x \in Request
      BY <1>2, <1>3, <2>3
    <3>2. users'[x] = d /\ \A y \in Request \ {x} : users'[y] = users[y]
      BY <3>1 DEF UserInv
    <3>3. home[i] \in Row /\ Of(users[home[i]]) = i /\ home[i] \in Request
      BY <1>5, <1>6, <1>7, <2>1
    <3>4. CASE home[i] = x
      BY <2>1, <2>3, <3>2, <3>3, <3>4 DEF Row
    <3>5. CASE home[i] # x
      BY <2>1, <3>2, <3>3, <3>5 DEF Row
    <3> QED
      BY <3>4, <3>5
  <2> QED
    BY <2>2, <2>3
<1> QED
  BY <1>8, <1>9

\* A commit does: a crowded login's home is forgotten.
LEMMA CommitKeepsLogin == ASSUME UserInv, LoginInv, NEW r \in Request, Commit(r) PROVE LoginInv'
<1> DEFINE rec == Ended(r, "done")
<1>1. /\ req' = [req EXCEPT ![r] = rec] /\ Open(r) /\ AloneOK(r)
      /\ rec.pc = "ended" /\ rec.outcome = "done" /\ rec.draft = None
  BY DEF Commit, LoginInv, Ended, Fresh, At, Open
<1>2. req'[r] = rec /\ \A q \in Request \ {r} : req'[q] = req[q]
  BY <1>1 DEF UserInv
<1> HIDE DEF rec
<1>3. AloneOK(r)' /\ Outcomes(r)'
  BY <1>1, <1>2 DEF AloneOK, Alone, Open, Outcomes, At
<1>4. ASSUME NEW q \in Request \ {r} PROVE AloneOK(q)' /\ Outcomes(q)'
  <2>1. AloneOK(q) /\ Outcomes(q) /\ req'[q] = req[q]
    BY <1>2 DEF LoginInv
  <2>2. /\ Outcomes(q)' = Outcomes(q) /\ Alone(q)' = Alone(q) /\ Login(q)' = Login(q)
        /\ identity(q)' = identity(q) /\ claimed(q)' = claimed(q)
    BY <2>1 DEF Outcomes, Alone, Open, Login, At, claimed, identity
  <2>3. SUFFICES ASSUME Alone(q) PROVE AloneOK(q)'
    BY <2>1, <2>2 DEF AloneOK
  <2>4. \A p \in Request \ {q} : req[p].draft = None
    BY <2>1, <2>3 DEF AloneOK
  <2>5. users' = users /\ Row' = Row
    BY <2>4 DEF Commit, Row
  <2>6. req[q].draft # None => req[r].crowded
    BY <1>1 DEF AloneOK, Alone
  <2>7. Login(q) /\ req[q].draft # None /\ home[identity(q)] = None /\ At(q, "commit") => home'[identity(q)] = None
    <3> SUFFICES ASSUME Login(q), req[q].draft # None, home[identity(q)] = None, At(q, "commit")
                 PROVE  home'[identity(q)] = None
      OBVIOUS
    <3>1. identity(q) \in Identity
      BY <2>1, <2>3 DEF AloneOK, Knows
    <3> QED
      BY <2>4, <2>6, <3>1 DEF Commit, Settled
  <2>8. Login(q) => Knows(q)'
    BY <2>1, <2>2, <2>3, <2>5, <2>7 DEF AloneOK, Knows, At
  <2>9. \A p \in Request \ {q} : req'[p].draft = None
    BY <1>1, <1>2, <2>4
  <2> QED
    BY <2>2, <2>8, <2>9 DEF AloneOK
<1> QED
  BY <1>3, <1>4, CommitKeepsHomes DEF LoginInv

\* The creation of an account concerns no login.
LEMMA AccountKeepsLogin == ASSUME UserInv, LoginInv, NEW r \in Request, CreateAccount(r) PROVE LoginInv'
<1>1. /\ req[r] \in Requested /\ Open(r) /\ ~Login(r) /\ UNCHANGED <<users, home>>
  BY DEF CreateAccount, UserInv, LoginInv, Outcomes, At, Open
<1>2. CASE req' = [req EXCEPT ![r] = Moved(r, "grant")]
  <2>1. Same(r, Moved(r, "grant"))
    BY <1>1, MovedSame DEF PC
  <2> QED
    BY <1>1, <1>2, <2>1, MoveKeepsLogin
<1>3. CASE req' = [req EXCEPT ![r] = Ended(r, "failed")]
  BY <1>1, <1>3, FailKeepsLogin
<1> QED
  BY <1>2, <1>3 DEF CreateAccount

\* The invariant of logins holds at the start.
LEMMA InitLoginInv == Init => LoginInv
<1> SUFFICES ASSUME Init PROVE LoginInv
  OBVIOUS
<1>1. Fresh.pc = "idle" /\ Fresh.outcome = "none" /\ Fresh.draft = None
  BY DEF Fresh
<1>2. \A r \in Request : req[r] = Fresh
  BY DEF Init
<1> HIDE DEF Fresh
<1>3. \A r \in Request : AloneOK(r) /\ Outcomes(r)
  BY <1>1, <1>2 DEF AloneOK, Alone, Open, Outcomes
<1> QED
  BY <1>3 DEF LoginInv, Homes, Init

\* It is inductive.
LEMMA NextLoginInv == UserInv /\ LoginInv /\ [Next]_vars => LoginInv'
<1> SUFFICES ASSUME UserInv, LoginInv, [Next]_vars PROVE LoginInv'
  OBVIOUS
<1>1. CASE UNCHANGED <<users, req, home>>
  BY <1>1 DEF LoginInv, Homes, Row, AloneOK, Alone, Open, Knows, Outcomes, At, Login, claimed, identity
<1>2. CASE UNCHANGED vars \/ \E i \in Issuer : Configure(i)
  BY <1>1, <1>2 DEF vars, Configure
<1>3. ASSUME NEW r \in Request, Step(r) PROVE LoginInv'
  <2>1. CASE Lose(r) \/ Reject(r) \/ KeycloakFails(r)
    <3>1. UNCHANGED <<users, home>> /\ req' = [req EXCEPT ![r] = Ended(r, "failed")]
      BY <2>1 DEF Lose, Reject, KeycloakFails, Go
    <3> QED
      BY <3>1, FailKeepsLogin
  <2> QED
    BY <1>3, <2>1, OnwardKeepsLogin, WritesKeepLogin, CommitKeepsLogin, AccountKeepsLogin
       DEF Step, Onward, Writes
<1> QED
  BY <1>2, <1>3, ArriveKeepsLogin DEF Next

\* An accepted login with an address fails on a unique key only if another
\* request wrote users while it was on its way: the two lookups leave no key to
\* run into.
THEOREM LoginsSucceedAlone == Spec => []LoneLoginSucceeds
<1>1. LoginInv => LoneLoginSucceeds
  BY DEF LoginInv, Outcomes, LoneLoginSucceeds
<1> QED
  BY <1>1, InitUserInv, NextUserInv, InitLoginInv, NextLoginInv, PTL DEF Spec

\* A login that nobody interfered with ends with a row of the identity that was
\* presented, and with the row this identity got last, as long as that row has not
\* become somebody else's.
THEOREM PeopleKeepTheirUser == Spec => []KeepsItsUser
<1>1. UserInv /\ LoginInv => KeepsItsUser
  <2> SUFFICES ASSUME UserInv, LoginInv, NEW r \in Request, At(r, "commit"), Login(r), ~req[r].crowded
               PROVE  LET user == IF req[r].draft = None THEN users[req[r].row] ELSE req[r].draft
                      IN  /\ Of(user) = identity(r)
                          /\ home[identity(r)] # None => req[r].row = home[identity(r)]
    BY DEF KeepsItsUser, Of
  <2>1. Knows(r)
    BY DEF LoginInv, AloneOK, Alone, Open, At
  <2>2. CASE req[r].draft # None
    BY <2>1, <2>2 DEF Knows
  <2>3. CASE req[r].draft = None
    <3>1. req[r].row \in Row /\ Of(users[req[r].row]) = identity(r)
      BY <2>1, <2>3 DEF Knows
    <3>2. identity(r) \in Identity /\ identity(r)[2] # None
      BY <2>1, IdentityAssumption DEF Knows, Identity
    <3>3. home[identity(r)] # None => req[r].row = home[identity(r)]
      BY <3>1, <3>2, UserInvTyped DEF LoginInv, Homes, TypeOK, Of
    <3> QED
      BY <2>3, <3>1, <3>3
  <2> QED
    BY <2>2, <2>3
<1> QED
  BY <1>1, InitUserInv, NextUserInv, InitLoginInv, NextLoginInv, PTL DEF Spec

=============================================================================
