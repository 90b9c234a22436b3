-------------------------- MODULE McpRegistry_proofs --------------------------
(***************************************************************************)
(* For any servers, names and jobs, however the jobs overlap: the tools of *)
(* the registry have their owners, a server owns only what it listed in    *)
(* its last committed sync, what is listed is what is routed, and no sync  *)
(* takes a tool away from its REST endpoint.                               *)
(*                                                                         *)
(* The argument is about what a transaction may have pending.  It holds a  *)
(* lock on every row it wrote, so what it relies on can only be changed by *)
(* others where it wrote nothing; and there they leave it the two facts    *)
(* its writes need: a row it loaded is still there or known to be gone,    *)
(* and no other job gives a tool to a server it has reported on.           *)
(***************************************************************************)
EXTENDS McpRegistryProps, TLAPS, FiniteSetTheorems

\* Functions from some of S to T.
Partial(S, T) == UNION {[D -> T] : D \in SUBSET S}

Health == {"unknown", "healthy", "unhealthy"}
Row == Tool \cup {Absent}
Note == Health \cup {Absent}

JobKind == {"none", "sync", "sweep", "register", "remove"}
Place == {"idle", "failed", "probe", "report", "list", "reconcile", "endpoint",
          "lookup", "pair", "remove", "commit"}

JobRecord ==
  [kind : JobKind, pc : Place, agenda : Seq(Server), health : Partial(Server, Health),
   answer : Answer, listed : Partial(Server, SUBSET Name), left : SUBSET Name,
   rows : Partial(Name, Row), gone : SUBSET Name, enabling : BOOLEAN,
   tools : Partial(Name, Row), dropped : SUBSET Name,
   servers : Partial(Server, Note), endpoints : SUBSET Name]

\* A row of mcp_tools as the session of record r sees it, t being committed.
Sight(r, t, n) == IF n \in DOMAIN r.tools THEN r.tools[n] ELSE t[n]

Owns(row, o) == row # Absent /\ row.owner = o

\* What a job has loaded and has not written: nothing yet, at these places.
Fresh(r) == DOMAIN r.tools = {} /\ DOMAIN r.listed = {} /\ r.dropped = {}

\* Where a job is, and what it has there.
Placed(r) ==
  /\ r.pc \in {"probe", "report", "list", "reconcile", "remove"} => r.agenda # <<>>
  /\ r.pc \in {"probe", "report", "list", "reconcile"} =>
       \A i \in DOMAIN r.agenda : r.agenda[i] \in DOMAIN r.health
  /\ r.pc \in {"probe", "report", "list"} => DOMAIN r.rows = {} /\ r.gone = {}
  /\ r.pc = "list" => Head(r.agenda) \in DOMAIN r.servers
  /\ r.pc = "reconcile" =>
       /\ Head(r.agenda) \in DOMAIN r.listed
       /\ r.left \subseteq r.listed[Head(r.agenda)]
       /\ \A n \in DOMAIN r.rows \ r.listed[Head(r.agenda)] : r.rows[n] # Absent /\ r.rows[n].owner # Rest
  /\ r.pc \in {"endpoint", "lookup", "pair"} => Fresh(r)
  /\ r.pc \in {"lookup", "pair"} => r.left \subseteq r.endpoints
  /\ r.pc = "endpoint" => r.endpoints = {} /\ \A m, n \in r.left : m = n
  /\ r.pc = "pair" => DOMAIN r.rows = r.left

\* What r has written to mcp_tools and not committed.
Pending(r, t) ==
  \A n \in DOMAIN r.tools :
    /\ r.tools[n] # Absent =>
         \/ r.tools[n].owner \in DOMAIN r.listed
         \/ t[n] # Absent /\ r.tools[n].owner = t[n].owner
         \/ t[n] = Absent /\ r.tools[n].owner = Rest /\ n \in r.endpoints
    /\ t[n] # Absent /\ r.tools[n] = Absent => n \in r.dropped
    /\ Owns(t[n], Rest) => Owns(r.tools[n], Rest)

\* A row r dropped is deleted, or written anew for a server it has listed.
Dropped(r) ==
  \A n \in r.dropped :
    /\ n \in DOMAIN r.tools
    /\ r.tools[n] # Absent => r.tools[n].owner \in DOMAIN r.listed

\* A row r loaded is still there, or r knows that it is not.
Loaded(r, t) ==
  \A n \in DOMAIN r.rows :
    r.rows[n] # Absent /\ n \notin r.gone =>
      /\ Sight(r, t, n) # Absent
      /\ r.rows[n].owner # Rest => Sight(r, t, n).owner # Rest

\* A server r has a listing of owns only what it listed, but for the rows that
\* are still to be dropped.
Listing(r, t) ==
  \A s \in DOMAIN r.listed : \A n \in Name :
    Owns(Sight(r, t, n), s) =>
      \/ n \in r.listed[s]
      \/ r.pc = "reconcile" /\ s = Head(r.agenda) /\ n \in DOMAIN r.rows \ r.gone

\* The rows r has locked are there, and what it inserted is not.
Locking(r, present, e) ==
  /\ DOMAIN r.listed \subseteq DOMAIN r.servers
  /\ DOMAIN r.servers \subseteq present
  /\ r.endpoints \cap e = {}

JobInv(r, t, present, e) ==
  /\ r \in JobRecord
  /\ Placed(r)
  /\ Pending(r, t)
  /\ Dropped(r)
  /\ Loaded(r, t)
  /\ Listing(r, t)
  /\ Locking(r, present, e)

\* Two jobs have not written the same row.
Apart(r, q) ==
  /\ DOMAIN r.tools \cap DOMAIN q.tools = {}
  /\ DOMAIN r.servers \cap DOMAIN q.servers = {}
  /\ r.endpoints \cap q.endpoints = {}

RegistryInv ==
  /\ TypeOK
  /\ OwnerAdvertised
  /\ job = [j \in Job |-> job[j]]
  /\ \A j \in Job : JobInv(job[j], tools, Present, endpoints)
  /\ \A j, k \in Job : j # k => Apart(job[j], job[k])

-----------------------------------------------------------------------------
\* The functions a record holds.

\* What a partial function maps from and to.
LEMMA PartialFacts ==
  ASSUME NEW S, NEW T, NEW f \in Partial(S, T)
  PROVE  DOMAIN f \subseteq S /\ \A x \in DOMAIN f : f[x] \in T
BY DEF Partial

\* A function on some of S is a partial one.
LEMMA IntoPartial ==
  ASSUME NEW S, NEW T, NEW D \in SUBSET S, NEW f \in [D -> T]
  PROVE  f \in Partial(S, T)
BY DEF Partial

\* So is the empty one.
LEMMA EmptyPartial ==
  ASSUME NEW S, NEW T
  PROVE  <<>> \in Partial(S, T) /\ DOMAIN <<>> = {}
<1>1. <<>> \in [{} -> T]
  OBVIOUS
<1> QED
  BY <1>1, IntoPartial

\* With maps one more argument, and changes nothing else.
LEMMA WithValues ==
  ASSUME NEW f, NEW x, NEW y
  PROVE  /\ DOMAIN With(f, x, y) = DOMAIN f \cup {x}
         /\ With(f, x, y)[x] = y
         /\ \A k \in DOMAIN f : k # x => With(f, x, y)[k] = f[k]
BY DEF With

\* With keeps a partial function one.
LEMMA WithPartial ==
  ASSUME NEW S, NEW T, NEW f \in Partial(S, T), NEW x \in S, NEW y \in T
  PROVE  With(f, x, y) \in Partial(S, T)
<1>1. DOMAIN f \subseteq S /\ \A k \in DOMAIN f : f[k] \in T
  BY PartialFacts
<1>2. With(f, x, y) \in [DOMAIN f \cup {x} -> T]
  BY <1>1 DEF With
<1> QED
  BY <1>1, <1>2, IntoPartial

\* Without forgets one argument, and changes nothing else.
LEMMA WithoutValues ==
  ASSUME NEW f, NEW x
  PROVE  /\ DOMAIN Without(f, x) = DOMAIN f \ {x}
         /\ \A k \in DOMAIN f \ {x} : Without(f, x)[k] = f[k]
BY DEF Without

\* Without keeps a partial function one.
LEMMA WithoutPartial ==
  ASSUME NEW S, NEW T, NEW f \in Partial(S, T), NEW x
  PROVE  Without(f, x) \in Partial(S, T)
<1>1. DOMAIN f \subseteq S /\ \A k \in DOMAIN f : f[k] \in T
  BY PartialFacts
<1>2. Without(f, x) \in [DOMAIN f \ {x} -> T]
  BY <1>1 DEF Without
<1> QED
  BY <1>1, <1>2, IntoPartial

\* The types of a job's fields.
LEMMA RecordTypes ==
  ASSUME NEW r \in JobRecord
  PROVE  /\ r.kind \in JobKind /\ r.pc \in Place /\ r.agenda \in Seq(Server)
         /\ r.answer \in Answer /\ r.enabling \in BOOLEAN
         /\ r.left \subseteq Name /\ r.gone \subseteq Name /\ r.dropped \subseteq Name
         /\ r.endpoints \subseteq Name
         /\ DOMAIN r.health \subseteq Server /\ \A s \in DOMAIN r.health : r.health[s] \in Health
         /\ DOMAIN r.listed \subseteq Server /\ \A s \in DOMAIN r.listed : r.listed[s] \subseteq Name
         /\ DOMAIN r.rows \subseteq Name /\ \A n \in DOMAIN r.rows : r.rows[n] \in Row
         /\ DOMAIN r.tools \subseteq Name /\ \A n \in DOMAIN r.tools : r.tools[n] \in Row
         /\ DOMAIN r.servers \subseteq Server
         /\ \A s \in DOMAIN r.servers : r.servers[s] \in Note
<1>1. /\ r.kind \in JobKind /\ r.pc \in Place /\ r.agenda \in Seq(Server)
      /\ r.answer \in Answer /\ r.enabling \in BOOLEAN
      /\ r.left \subseteq Name /\ r.gone \subseteq Name /\ r.dropped \subseteq Name
      /\ r.endpoints \subseteq Name
  BY DEF JobRecord
<1>2. /\ r.health \in Partial(Server, Health) /\ r.listed \in Partial(Server, SUBSET Name)
      /\ r.rows \in Partial(Name, Row) /\ r.tools \in Partial(Name, Row)
      /\ r.servers \in Partial(Server, Note)
  BY DEF JobRecord
<1> QED
  BY <1>1, <1>2, PartialFacts

\* The record of a job at rest.
LEMMA RestedRecord ==
  ASSUME NEW pc \in Place
  PROVE  /\ Rested(pc) \in JobRecord
         /\ Rested(pc).pc = pc /\ Rested(pc).kind = "none" /\ Rested(pc).agenda = <<>>
         /\ Rested(pc).listed = <<>> /\ Rested(pc).left = {} /\ Rested(pc).rows = <<>>
         /\ Rested(pc).gone = {} /\ Rested(pc).tools = <<>> /\ Rested(pc).dropped = {}
         /\ Rested(pc).servers = <<>> /\ Rested(pc).endpoints = {}
BY EmptyPartial DEF JobRecord, Rested, JobKind, Answer

-----------------------------------------------------------------------------
\* One job does something others do not see.

\* Apart is symmetric.
LEMMA ApartSymmetric ==
  ASSUME NEW r, NEW q, Apart(r, q)
  PROVE  Apart(q, r)
BY DEF Apart

\* A job that has written less is apart from the same jobs.
LEMMA ApartFrom ==
  ASSUME NEW r, NEW q, NEW r2, Apart(r, q),
         DOMAIN r2.tools \subseteq DOMAIN r.tools,
         DOMAIN r2.servers \subseteq DOMAIN r.servers,
         r2.endpoints \subseteq r.endpoints
  PROVE  Apart(r2, q)
BY DEF Apart

\* A step that replaces one job's record by one that fits.
LEMMA OwnStep ==
  ASSUME RegistryInv, NEW j \in Job, NEW r,
         JobInv(r, tools, Present, endpoints), \A k \in Job \ {j} : Apart(r, job[k]),
         job' = [job EXCEPT ![j] = r], UNCHANGED <<database, advertised>>, TypeOK'
  PROVE  RegistryInv'
<1>1. /\ job' = [k \in Job |-> job'[k]] /\ job'[j] = r
      /\ \A k \in Job \ {j} : job'[k] = job[k]
  BY DEF RegistryInv
<1>2. Present' = Present /\ tools' = tools /\ endpoints' = endpoints
  BY DEF database, Present
<1>3. OwnerAdvertised'
  BY <1>2 DEF RegistryInv, OwnerAdvertised, OwnedBy
<1>4. \A k \in Job : JobInv(job'[k], tools', Present', endpoints')
  BY <1>1, <1>2 DEF RegistryInv
<1>5. \A k, l \in Job : k # l => Apart(job'[k], job'[l])
  BY <1>1, ApartSymmetric DEF RegistryInv
<1>6. (\A k \in Job : JobInv(job[k], tools, Present, endpoints))'
  BY <1>4
<1>7. (\A k, l \in Job : k # l => Apart(job[k], job[l]))'
  BY <1>5
<1> QED
  BY <1>1, <1>3, <1>6, <1>7 DEF RegistryInv

\* The same where the types are clear.
LEMMA LocalStep ==
  ASSUME RegistryInv, NEW j \in Job, NEW r,
         JobInv(r, tools, Present, endpoints), \A k \in Job \ {j} : Apart(r, job[k]),
         job' = [job EXCEPT ![j] = r], UNCHANGED <<database, environment, advertised>>
  PROVE  RegistryInv'
<1>1. TypeOK
  BY DEF RegistryInv
<1>2. TypeOK'
  BY <1>1 DEF TypeOK, OwnedBy, Present, database, environment
<1> QED
  BY <1>2, OwnStep

\* A record with nothing pending.
LEMMA Unpending ==
  ASSUME NEW r \in JobRecord, NEW t, NEW present, NEW e, Placed(r),
         DOMAIN r.tools = {}, DOMAIN r.listed = {}, r.dropped = {}, DOMAIN r.rows = {},
         DOMAIN r.servers = {}, r.endpoints = {}
  PROVE  JobInv(r, t, present, e) /\ \A q : Apart(r, q)
<1>1. Pending(r, t) /\ Dropped(r) /\ Loaded(r, t) /\ Listing(r, t) /\ Locking(r, present, e)
  BY DEF Pending, Dropped, Loaded, Listing, Locking
<1>2. \A q : Apart(r, q)
  BY DEF Apart
<1> QED
  BY <1>1, <1>2 DEF JobInv

\* A job at rest fits any database, and is apart from every job.
LEMMA RestedInv ==
  ASSUME NEW pc \in {"idle", "failed"}, NEW t, NEW present, NEW e
  PROVE  JobInv(Rested(pc), t, present, e) /\ \A q : Apart(Rested(pc), q)
<1>1. pc \in Place
  BY DEF Place
<1>2. Placed(Rested(pc))
  BY <1>1, RestedRecord DEF Placed
<1> QED
  BY <1>1, <1>2, RestedRecord, EmptyPartial, Unpending

\* A job that fails gives up what it wrote.
LEMMA FailKeeps ==
  ASSUME RegistryInv, NEW j \in Job, Fail(j)
  PROVE  RegistryInv'
BY RestedInv, LocalStep DEF Fail, Rollback

-----------------------------------------------------------------------------
\* How jobs start.

\* A job starts with nothing pending.
LEMMA BeginKeeps ==
  ASSUME RegistryInv, NEW j \in Job, NEW r \in JobRecord, Begin(j, r), Placed(r),
         DOMAIN r.tools = {}, DOMAIN r.listed = {}, r.dropped = {}, DOMAIN r.rows = {},
         DOMAIN r.servers = {}, r.endpoints = {}
  PROVE  RegistryInv'
BY Unpending, LocalStep DEF Begin

\* An order of some servers is a sequence of them.
LEMMA OrderedServers ==
  ASSUME RegistryAssumption, NEW S \in SUBSET Server, NEW order \in Orders(S)
  PROVE  /\ order \in Seq(Server)
         /\ S # {} => order # <<>>
         /\ \A i \in DOMAIN order : order[i] \in S
<1>1. IsFiniteSet(S)
  BY FS_Subset DEF RegistryAssumption
<1>2. Cardinality(S) \in Nat /\ (Cardinality(S) = 0 <=> S = {})
  BY <1>1, FS_CardinalityType, FS_EmptySet
<1>3. order \in [1..Cardinality(S) -> S]
  BY DEF Orders
<1>4. order \in Seq(S) /\ Len(order) = Cardinality(S) /\ DOMAIN order = 1..Cardinality(S)
  BY <1>2, <1>3
<1>5. order \in Seq(Server)
  BY <1>2, <1>3
<1> QED
  BY <1>2, <1>3, <1>4, <1>5

\* A sync or a sweep starts over the active servers.
LEMMA OverActiveKeeps ==
  ASSUME RegistryAssumption, RegistryInv, NEW j \in Job, NEW kind \in {"sync", "sweep"},
         NEW order \in Orders(Active), Begin(j, OverActive(kind, order))
  PROVE  RegistryInv'
<1> DEFINE place == IF Active = {} THEN "commit" ELSE "probe"
           health == [s \in Active |-> servers[s].health]
           base == Rested("probe")
           r == [base EXCEPT !.kind = kind, !.agenda = order, !.health = health, !.pc = place]
<1>1. Active \subseteq Server
  BY DEF Active, Present
<1>2. /\ order \in Seq(Server) /\ (Active # {} => order # <<>>)
      /\ \A i \in DOMAIN order : order[i] \in Active
  BY <1>1, OrderedServers
<1>3. health \in Partial(Server, Health) /\ DOMAIN health = Active
  <2>1. \A s \in Active : servers[s].health \in Health
    BY DEF RegistryInv, TypeOK, Active, Present, ServerRow, Health
  <2> QED
    BY <1>1, <2>1, IntoPartial
<1>4. place \in Place /\ kind \in JobKind /\ "probe" \in Place
  BY DEF Place, JobKind
<1>5. /\ base \in JobRecord /\ DOMAIN base.listed = {} /\ DOMAIN base.rows = {}
      /\ DOMAIN base.tools = {} /\ base.dropped = {} /\ DOMAIN base.servers = {}
      /\ base.endpoints = {} /\ base.gone = {}
  BY <1>4, RestedRecord, EmptyPartial
<1> HIDE DEF base, health
<1>6. /\ r \in JobRecord /\ r.pc = place /\ r.agenda = order /\ r.health = health
      /\ r.listed = base.listed /\ r.rows = base.rows /\ r.tools = base.tools
      /\ r.dropped = base.dropped /\ r.servers = base.servers /\ r.endpoints = base.endpoints
      /\ r.gone = base.gone
  BY <1>2, <1>3, <1>4, <1>5 DEF JobRecord
<1>7. OverActive(kind, order) = r
  BY DEF OverActive, base, health
<1> HIDE DEF r
<1>8. Placed(r)
  BY <1>2, <1>3, <1>5, <1>6 DEF Placed
<1> QED
  BY <1>5, <1>6, <1>7, <1>8, BeginKeeps

\* A check of one server starts.
LEMMA StartCheckKeeps ==
  ASSUME RegistryInv, NEW j \in Job, StartCheck(j)
  PROVE  RegistryInv'
<1>1. PICK s \in Present :
        Begin(j, [Rested("probe") EXCEPT
          !.kind = "sweep", !.agenda = <<s>>, !.health = [x \in {s} |-> servers[s].health]])
  BY DEF StartCheck
<1> DEFINE health == [x \in {s} |-> servers[s].health]
           base == Rested("probe")
           r == [base EXCEPT !.kind = "sweep", !.agenda = <<s>>, !.health = health]
<1>2. s \in Server /\ <<s>> \in Seq(Server) /\ servers[s].health \in Health
  BY DEF RegistryInv, TypeOK, Present, ServerRow, Health
<1>3. health \in Partial(Server, Health) /\ DOMAIN health = {s}
  BY <1>2, IntoPartial
<1>4. "sweep" \in JobKind /\ "probe" \in Place
  BY DEF Place, JobKind
<1>5. /\ base \in JobRecord /\ DOMAIN base.listed = {} /\ DOMAIN base.rows = {}
      /\ DOMAIN base.tools = {} /\ base.dropped = {} /\ DOMAIN base.servers = {}
      /\ base.endpoints = {} /\ base.gone = {} /\ base.pc = "probe"
  BY <1>4, RestedRecord, EmptyPartial
<1> HIDE DEF base, health
<1>6. /\ r \in JobRecord /\ r.pc = "probe" /\ r.agenda = <<s>> /\ r.health = health
      /\ r.listed = base.listed /\ r.rows = base.rows /\ r.tools = base.tools
      /\ r.dropped = base.dropped /\ r.servers = base.servers /\ r.endpoints = base.endpoints
      /\ r.gone = base.gone
  BY <1>2, <1>3, <1>4, <1>5 DEF JobRecord
<1>7. Begin(j, r)
  BY <1>1 DEF base, health
<1> HIDE DEF r
<1>8. Placed(r)
  BY <1>3, <1>5, <1>6 DEF Placed
<1> QED
  BY <1>5, <1>6, <1>7, <1>8, BeginKeeps

\* A registration of an endpoint starts.
LEMMA StartRegisterKeeps ==
  ASSUME RegistryInv, NEW j \in Job, StartRegister(j)
  PROVE  RegistryInv'
<1>1. PICK n \in Name, enabled \in BOOLEAN :
        Begin(j, [Rested("endpoint") EXCEPT !.kind = "register", !.left = {n}, !.enabling = enabled])
  BY DEF StartRegister
<1> DEFINE base == Rested("endpoint")
           r == [base EXCEPT !.kind = "register", !.left = {n}, !.enabling = enabled]
<1>2. "register" \in JobKind /\ "endpoint" \in Place
  BY DEF Place, JobKind
<1>3. /\ base \in JobRecord /\ DOMAIN base.listed = {} /\ DOMAIN base.rows = {}
      /\ DOMAIN base.tools = {} /\ base.dropped = {} /\ DOMAIN base.servers = {}
      /\ base.endpoints = {} /\ base.gone = {} /\ base.pc = "endpoint"
  BY <1>2, RestedRecord, EmptyPartial
<1> HIDE DEF base
<1>4. /\ r \in JobRecord /\ r.pc = "endpoint" /\ r.left = {n}
      /\ r.listed = base.listed /\ r.rows = base.rows /\ r.tools = base.tools
      /\ r.dropped = base.dropped /\ r.servers = base.servers /\ r.endpoints = base.endpoints
      /\ r.gone = base.gone
  BY <1>2, <1>3 DEF JobRecord
<1>5. Begin(j, r)
  BY <1>1 DEF base
<1> HIDE DEF r
<1>6. Placed(r)
  BY <1>3, <1>4 DEF Placed, Fresh
<1> QED
  BY <1>3, <1>4, <1>5, <1>6, BeginKeeps

\* A removal starts.
LEMMA StartRemoveKeeps ==
  ASSUME RegistryInv, NEW j \in Job, StartRemove(j)
  PROVE  RegistryInv'
<1> DEFINE removing(s) == [Rested("remove") EXCEPT !.kind = "remove", !.agenda = <<s>>]
           refused == [Rested("failed") EXCEPT !.kind = "remove"]
<1>1. PICK s \in Present : Begin(j, removing(s)) \/ Begin(j, refused)
  BY DEF StartRemove
<1>2. "remove" \in JobKind /\ "remove" \in Place /\ "failed" \in Place /\ s \in Server
  BY DEF Place, JobKind, Present
<1>3. CASE Begin(j, removing(s))
  <2> DEFINE base == Rested("remove")
             r == [base EXCEPT !.kind = "remove", !.agenda = <<s>>]
  <2>1. /\ base \in JobRecord /\ DOMAIN base.listed = {} /\ DOMAIN base.rows = {}
        /\ DOMAIN base.tools = {} /\ base.dropped = {} /\ DOMAIN base.servers = {}
        /\ base.endpoints = {} /\ base.gone = {} /\ base.pc = "remove"
    BY <1>2, RestedRecord, EmptyPartial
  <2>2. Begin(j, r)
    BY <1>3
  <2> HIDE DEF base
  <2>3. /\ r \in JobRecord /\ r.pc = "remove" /\ r.agenda = <<s>>
        /\ r.listed = base.listed /\ r.rows = base.rows /\ r.tools = base.tools
        /\ r.dropped = base.dropped /\ r.servers = base.servers /\ r.endpoints = base.endpoints
        /\ r.gone = base.gone
    <3>1. <<s>> \in Seq(Server)
      BY <1>2
    <3> QED
      BY <1>2, <2>1, <3>1 DEF JobRecord
  <2> HIDE DEF r
  <2>4. Placed(r)
    BY <2>3 DEF Placed
  <2> QED
    BY <2>1, <2>2, <2>3, <2>4, BeginKeeps
<1>4. CASE Begin(j, refused)
  <2> DEFINE base == Rested("failed")
             r == [base EXCEPT !.kind = "remove"]
  <2>1. /\ base \in JobRecord /\ DOMAIN base.listed = {} /\ DOMAIN base.rows = {}
        /\ DOMAIN base.tools = {} /\ base.dropped = {} /\ DOMAIN base.servers = {}
        /\ base.endpoints = {} /\ base.gone = {} /\ base.pc = "failed"
    BY <1>2, RestedRecord, EmptyPartial
  <2>2. Begin(j, r)
    BY <1>4
  <2> HIDE DEF base
  <2>3. /\ r \in JobRecord /\ r.pc = "failed"
        /\ r.listed = base.listed /\ r.rows = base.rows /\ r.tools = base.tools
        /\ r.dropped = base.dropped /\ r.servers = base.servers /\ r.endpoints = base.endpoints
        /\ r.gone = base.gone
    BY <1>2, <2>1 DEF JobRecord
  <2> HIDE DEF r
  <2>4. Placed(r)
    BY <2>3 DEF Placed
  <2> QED
    BY <2>1, <2>2, <2>3, <2>4, BeginKeeps
<1> QED
  BY <1>1, <1>3, <1>4

\* Every start keeps the invariant.
LEMMA StartKeeps ==
  ASSUME RegistryAssumption, RegistryInv, NEW j \in Job, Start(j)
  PROVE  RegistryInv'
BY OverActiveKeeps, StartCheckKeeps, StartRegisterKeeps, StartRemoveKeeps
   DEF Start, StartSync, StartSweep

-----------------------------------------------------------------------------
\* The sync and the sweep.

\* What the invariant says of a job, with the types of its record.
LEMMA JobFacts ==
  ASSUME RegistryInv, NEW j \in Job
  PROVE  /\ JobInv(job[j], tools, Present, endpoints)
         /\ job[j] \in JobRecord
         /\ \A k \in Job \ {j} : Apart(job[j], job[k])
BY DEF RegistryInv, JobInv

\* A record with the writes of r, and no listing that r has not.
LEMMA SameWrites ==
  ASSUME NEW r, NEW t, NEW present, NEW e, JobInv(r, t, present, e),
         NEW r2 \in JobRecord, Placed(r2), Loaded(r2, t), Listing(r2, t),
         r2.tools = r.tools, r2.dropped = r.dropped, r2.endpoints = r.endpoints,
         r2.listed = r.listed, DOMAIN r.servers \subseteq DOMAIN r2.servers,
         DOMAIN r2.servers \subseteq present
  PROVE  JobInv(r2, t, present, e)
<1>1. Pending(r2, t) /\ Dropped(r2)
  BY DEF JobInv, Pending, Dropped
<1>2. Locking(r2, present, e)
  BY DEF JobInv, Locking
<1> QED
  BY <1>1, <1>2 DEF JobInv

\* An agenda with more than one entry has a rest.
LEMMA TailNotEmpty ==
  ASSUME NEW S, NEW q \in Seq(S), q # <<>>, Len(q) # 1
  PROVE  Tail(q) # <<>>
<1>1. \A p \in Seq(S) : Len(p) # 0 => p # <<>>
  OBVIOUS
<1>2. Len(q) # 0 /\ Tail(q) \in Seq(S) /\ Len(Tail(q)) # 0
  OBVIOUS
<1> QED
  BY <1>1, <1>2

\* The record of a job that goes on to its next server.
LEMMA AdvancedRecord ==
  ASSUME NEW r \in JobRecord, r.agenda # <<>>
  PROVE  /\ Advanced(r) \in JobRecord
         /\ Advanced(r).agenda = Tail(r.agenda)
         /\ Advanced(r).rows = <<>> /\ Advanced(r).gone = {}
         /\ Advanced(r).pc = IF Len(r.agenda) = 1 THEN "commit" ELSE "probe"
         /\ Advanced(r).health = r.health /\ Advanced(r).listed = r.listed
         /\ Advanced(r).tools = r.tools /\ Advanced(r).dropped = r.dropped
         /\ Advanced(r).servers = r.servers /\ Advanced(r).endpoints = r.endpoints
<1>1. r.agenda \in Seq(Server)
  BY RecordTypes
<1>2. Tail(r.agenda) \in Seq(Server)
  BY <1>1
<1>3. <<>> \in Partial(Name, Row)
  BY EmptyPartial
<1>4. "commit" \in Place /\ "probe" \in Place
  BY DEF Place
<1> QED
  BY <1>2, <1>3, <1>4 DEF Advanced, JobRecord

\* On to the next server, once nothing of this one is left to be dropped.
LEMMA AdvancedInv ==
  ASSUME NEW r \in JobRecord, NEW q, NEW t, NEW present, NEW e, JobInv(q, t, present, e),
         r.agenda # <<>>, \A i \in DOMAIN r.agenda : r.agenda[i] \in DOMAIN r.health,
         r.tools = q.tools, r.dropped = q.dropped, r.endpoints = q.endpoints,
         r.listed = q.listed, DOMAIN q.servers \subseteq DOMAIN r.servers,
         DOMAIN r.servers \subseteq present,
         \A s \in DOMAIN r.listed : \A n \in Name : Owns(Sight(r, t, n), s) => n \in r.listed[s]
  PROVE  JobInv(Advanced(r), t, present, e)
<1> DEFINE r2 == Advanced(r)
<1>1. /\ r2 \in JobRecord /\ r2.agenda = Tail(r.agenda) /\ r2.rows = <<>> /\ r2.gone = {}
      /\ r2.pc = IF Len(r.agenda) = 1 THEN "commit" ELSE "probe"
      /\ r2.health = r.health /\ r2.listed = r.listed /\ r2.tools = r.tools
      /\ r2.dropped = r.dropped /\ r2.servers = r.servers /\ r2.endpoints = r.endpoints
  BY AdvancedRecord
<1> HIDE DEF r2
<1>2. r.agenda \in Seq(Server)
  BY RecordTypes
<1>3. r2.pc = "probe" => r2.agenda # <<>>
  <2>1. r2.pc = "probe" => Len(r.agenda) # 1
    BY <1>1
  <2> QED
    BY <1>1, <1>2, <2>1, TailNotEmpty
<1>4. \A i \in DOMAIN r2.agenda : r2.agenda[i] \in DOMAIN r2.health
  <2>1. \A i \in DOMAIN Tail(r.agenda) : i + 1 \in DOMAIN r.agenda /\ Tail(r.agenda)[i] = r.agenda[i + 1]
    BY <1>2
  <2> QED
    BY <1>1, <2>1
<1>5. Placed(r2)
  BY <1>1, <1>3, <1>4, EmptyPartial DEF Placed
<1>6. Loaded(r2, t)
  BY <1>1, EmptyPartial DEF Loaded
<1>7. Listing(r2, t)
  BY <1>1 DEF Listing, Sight
<1>8. JobInv(r2, t, present, e)
  BY <1>1, <1>5, <1>6, <1>7, SameWrites
<1> QED
  BY <1>8 DEF r2

\* The answer of a server is noted by its job alone.
LEMMA ProbeKeeps ==
  ASSUME RegistryInv, NEW j \in Job, Probe(j)
  PROVE  RegistryInv'
<1> DEFINE r == job[j]
           r2 == [job[j] EXCEPT !.pc = "report", !.answer = answers[Probed(j)]]
<1>1. JobInv(r, tools, Present, endpoints) /\ r \in JobRecord /\ r.pc = "probe" /\ Local(j, r2)
  BY JobFacts DEF Probe, At
<1>2. Placed(r) /\ Loaded(r, tools) /\ Listing(r, tools) /\ Locking(r, Present, endpoints)
  BY <1>1 DEF JobInv
<1>3. Probed(j) \in Server
  BY <1>1, <1>2, RecordTypes DEF Placed, Probed
<1>4. answers[Probed(j)] \in Answer
  BY <1>3 DEF RegistryInv, TypeOK
<1>5. /\ r2 \in JobRecord /\ r2.pc = "report" /\ r2.agenda = r.agenda /\ r2.health = r.health
      /\ r2.listed = r.listed /\ r2.rows = r.rows /\ r2.gone = r.gone /\ r2.tools = r.tools
      /\ r2.dropped = r.dropped /\ r2.servers = r.servers /\ r2.endpoints = r.endpoints
  BY <1>1, <1>4 DEF JobRecord, Place
<1> HIDE DEF r2
<1>6. Placed(r2)
  BY <1>1, <1>2, <1>5 DEF Placed
<1>7. Loaded(r2, tools) /\ Listing(r2, tools)
  BY <1>1, <1>2, <1>5 DEF Loaded, Listing, Sight
<1>8. JobInv(r2, tools, Present, endpoints)
  BY <1>1, <1>2, <1>5, <1>6, <1>7, SameWrites DEF Locking
<1>9. \A k \in Job \ {j} : Apart(r2, job[k])
  BY <1>5, JobFacts, ApartFrom
<1> QED
  BY <1>1, <1>8, <1>9, LocalStep DEF Local

\* The health of a server is written, and its row locked.
LEMMA ReportKeeps ==
  ASSUME RegistryInv, NEW j \in Job, Report(j)
  PROVE  RegistryInv'
<1> DEFINE r == job[j]
           s == Probed(j)
           reported == [job[j] EXCEPT !.health[s] = Found(j), !.servers = Written(j)]
           onward == [reported EXCEPT !.pc = "list"]
<1>1. /\ JobInv(r, tools, Present, endpoints) /\ r \in JobRecord /\ r.pc = "report"
      /\ ServerFree(j, s) /\ s \in Present
      /\ Local(j, onward) \/ Local(j, Advanced(reported))
  BY JobFacts DEF Report, At
<1>2. Placed(r) /\ Loaded(r, tools) /\ Listing(r, tools) /\ Locking(r, Present, endpoints)
  BY <1>1 DEF JobInv
<1>3. /\ r.agenda # <<>> /\ r.agenda \in Seq(Server) /\ s = Head(r.agenda)
      /\ s \in Server /\ s \in DOMAIN r.health
  BY <1>1, <1>2, RecordTypes DEF Placed, Probed
<1>4. Found(j) \in Health
  BY <1>1, <1>3, RecordTypes DEF Found, Health
<1>5. /\ Written(j) \in Partial(Server, Note)
      /\ DOMAIN Written(j) = DOMAIN r.servers \cup {s}
  <2>1. r.servers \in Partial(Server, Note)
    BY <1>1 DEF JobRecord
  <2> DEFINE v == IF Found(j) # job[j].health[Probed(j)] THEN Found(j) ELSE Absent
  <2>2. v \in Note /\ Written(j) = With(r.servers, s, v)
    BY <1>4 DEF Written, Note
  <2> HIDE DEF v
  <2>3. v \in Note /\ s \in Server
    BY <1>3, <2>2
  <2>4. With(r.servers, s, v) \in Partial(Server, Note)
    BY <2>1, <2>3, WithPartial
  <2>5. DOMAIN With(r.servers, s, v) = DOMAIN r.servers \cup {s}
    BY WithValues
  <2> QED
    BY <2>2, <2>4, <2>5
<1> DEFINE health == [r.health EXCEPT ![s] = Found(j)]
<1>6. health \in Partial(Server, Health) /\ DOMAIN health = DOMAIN r.health
  <2>1. r.health \in Partial(Server, Health)
    BY <1>1 DEF JobRecord
  <2>2. DOMAIN r.health \subseteq Server /\ \A x \in DOMAIN r.health : r.health[x] \in Health
    BY <2>1, PartialFacts
  <2>3. health \in [DOMAIN r.health -> Health]
    BY <1>4, <2>2
  <2> QED
    BY <2>2, <2>3, IntoPartial
<1>7. reported = [r EXCEPT !.health = health, !.servers = Written(j)]
  OBVIOUS
<1> HIDE DEF health
<1>8. /\ reported \in JobRecord /\ reported.agenda = r.agenda /\ reported.health = health
      /\ reported.listed = r.listed /\ reported.rows = r.rows /\ reported.gone = r.gone
      /\ reported.tools = r.tools /\ reported.dropped = r.dropped
      /\ reported.servers = Written(j) /\ reported.endpoints = r.endpoints
  BY <1>1, <1>5, <1>6, <1>7 DEF JobRecord
<1> HIDE DEF reported
<1>9. \A x \in DOMAIN r.listed : \A n \in Name :
        Owns(Sight(r, tools, n), x) => n \in r.listed[x]
  BY <1>1, <1>2 DEF Listing
<1>10. \A r2 : r2.tools = r.tools /\ r2.servers = Written(j) /\ r2.endpoints = r.endpoints =>
         \A k \in Job \ {j} : Apart(r2, job[k])
  BY <1>1, <1>5, JobFacts DEF Apart, ServerFree
<1>11. CASE Local(j, onward)
  <2>1. /\ onward \in JobRecord /\ onward.pc = "list" /\ onward.agenda = r.agenda
        /\ onward.health = health /\ onward.listed = r.listed /\ onward.rows = r.rows
        /\ onward.gone = r.gone /\ onward.tools = r.tools /\ onward.dropped = r.dropped
        /\ onward.servers = Written(j) /\ onward.endpoints = r.endpoints
    BY <1>8 DEF JobRecord, Place
  <2> HIDE DEF onward
  <2>2. Placed(onward)
    BY <1>1, <1>2, <1>3, <1>5, <1>6, <2>1 DEF Placed
  <2>3. Loaded(onward, tools) /\ Listing(onward, tools)
    BY <1>2, <1>9, <2>1 DEF Loaded, Listing, Sight
  <2>4. JobInv(onward, tools, Present, endpoints)
    BY <1>1, <1>2, <1>5, <2>1, <2>2, <2>3, SameWrites DEF Locking
  <2> QED
    BY <1>10, <1>11, <2>1, <2>4, LocalStep DEF Local
<1>12. CASE Local(j, Advanced(reported))
  <2>1. \A x \in DOMAIN reported.listed : \A n \in Name :
          Owns(Sight(reported, tools, n), x) => n \in reported.listed[x]
    BY <1>8, <1>9 DEF Sight
  <2>2. \A i \in DOMAIN reported.agenda : reported.agenda[i] \in DOMAIN reported.health
    BY <1>1, <1>2, <1>6, <1>8 DEF Placed
  <2>3. JobInv(Advanced(reported), tools, Present, endpoints)
    BY <1>1, <1>2, <1>3, <1>5, <1>8, <2>1, <2>2, AdvancedInv DEF Locking
  <2>4. /\ Advanced(reported).tools = r.tools /\ Advanced(reported).servers = Written(j)
        /\ Advanced(reported).endpoints = r.endpoints
    BY <1>3, <1>8, AdvancedRecord
  <2> QED
    BY <1>10, <1>12, <2>3, <2>4, LocalStep DEF Local
<1> QED
  BY <1>1, <1>11, <1>12

\* What a SELECT returns, row by row.
LEMMA ViewIsSight ==
  ASSUME RegistryInv, NEW j \in Job
  PROVE  /\ \A n \in Name : View(j)[n] = Sight(job[j], tools, n) /\ View(j)[n] \in Row
         /\ \A o : OwnedBy(View(j), o) = {n \in Name : Owns(Sight(job[j], tools, n), o)}
<1>1. tools \in [Name -> Row]
  BY DEF RegistryInv, TypeOK, Row
<1>2. \A n \in Name : View(j)[n] = Sight(job[j], tools, n)
  BY <1>1 DEF View, Overlay, Sight
<1>3. \A n \in Name : Sight(job[j], tools, n) \in Row
  BY <1>1, JobFacts, RecordTypes DEF Sight
<1>4. \A o : OwnedBy(View(j), o) = {n \in Name : Owns(Sight(job[j], tools, n), o)}
  BY <1>2 DEF OwnedBy, Owns
<1> QED
  BY <1>2, <1>3, <1>4

\* The tools of a server are listed.
LEMMA ListToolsKeeps ==
  ASSUME RegistryInv, NEW j \in Job, ListTools(j)
  PROVE  RegistryInv'
<1> DEFINE r == job[j]
           s == Probed(j)
           own == OwnedBy(View(j), s)
           listed == With(r.listed, s, offers[s])
           left == offers[s] \ {n \in own : View(j)[n].enabled}
           rows == [n \in own |-> View(j)[n]]
           r2 == [r EXCEPT !.pc = "reconcile", !.listed = listed, !.left = left, !.rows = rows]
<1>1. JobInv(r, tools, Present, endpoints) /\ r \in JobRecord /\ r.pc = "list"
  BY JobFacts DEF ListTools, At
<1>2. Local(j, r2)
  BY DEF ListTools
<1>3. /\ Placed(r) /\ Loaded(r, tools) /\ Listing(r, tools) /\ Locking(r, Present, endpoints)
      /\ Pending(r, tools) /\ Dropped(r)
  BY <1>1 DEF JobInv
<1>4. /\ r.agenda # <<>> /\ s = Head(r.agenda) /\ s \in DOMAIN r.servers
      /\ s \in Server /\ r.gone = {}
  BY <1>1, <1>3, RecordTypes DEF Placed, Probed
<1>5. offers[s] \in SUBSET Name
  BY <1>4 DEF RegistryInv, TypeOK
<1>6. own = {n \in Name : Owns(Sight(r, tools, n), s)} /\ \A n \in Name : View(j)[n] \in Row
  BY ViewIsSight
<1>7. rows \in Partial(Name, Row)
  <2>1. own \in SUBSET Name /\ rows \in [own -> Row]
    BY <1>6
  <2> QED
    BY <2>1, IntoPartial
<1>8. /\ DOMAIN rows = own /\ \A n \in own : rows[n] = Sight(r, tools, n)
      /\ left \subseteq offers[s]
  BY <1>6, ViewIsSight
<1>9. listed \in Partial(Server, SUBSET Name)
  BY <1>1, <1>4, <1>5, WithPartial DEF JobRecord
<1>10. /\ DOMAIN listed = DOMAIN r.listed \cup {s} /\ listed[s] = offers[s]
       /\ \A x \in DOMAIN r.listed : x # s => listed[x] = r.listed[x]
  BY DEF With
<1> HIDE DEF listed, left, rows, own
<1>11. /\ r2 \in JobRecord /\ r2.pc = "reconcile" /\ r2.agenda = r.agenda
       /\ r2.health = r.health /\ r2.listed = listed /\ r2.left = left /\ r2.rows = rows
       /\ r2.gone = r.gone /\ r2.tools = r.tools /\ r2.dropped = r.dropped
       /\ r2.servers = r.servers /\ r2.endpoints = r.endpoints
  BY <1>1, <1>5, <1>7, <1>8, <1>9 DEF JobRecord, Place
<1> HIDE DEF r2, s
<1>12. /\ \A n \in own : rows[n] # Absent /\ rows[n].owner # Rest
       /\ \A n \in DOMAIN rows : Sight(r, tools, n) # Absent /\ Sight(r, tools, n).owner # Rest
  BY <1>4, <1>6, <1>8, RegistryAssumption DEF Owns, RegistryAssumption
<1>13. Placed(r2)
  BY <1>1, <1>3, <1>4, <1>8, <1>10, <1>11, <1>12 DEF Placed
<1>14. Pending(r2, tools) /\ Dropped(r2)
  BY <1>3, <1>10, <1>11 DEF Pending, Dropped
<1>15. Loaded(r2, tools)
  BY <1>11, <1>12 DEF Loaded, Sight
<1>16. Listing(r2, tools)
  BY <1>1, <1>3, <1>4, <1>6, <1>8, <1>10, <1>11 DEF Listing, Sight
<1>17. Locking(r2, Present, endpoints)
  BY <1>3, <1>4, <1>10, <1>11 DEF Locking
<1>18. JobInv(r2, tools, Present, endpoints)
  BY <1>11, <1>13, <1>14, <1>15, <1>16, <1>17 DEF JobInv
<1>19. \A k \in Job \ {j} : Apart(r2, job[k])
  BY <1>11, JobFacts, ApartFrom
<1> QED
  BY <1>2, <1>18, <1>19, LocalStep DEF Local

\* A job that is done with a server keeps the invariant.
LEMMA AdvanceKeeps ==
  ASSUME RegistryInv, NEW j \in Job, Local(j, Advanced(job[j])), job[j].pc \in {"list", "reconcile"},
         job[j].pc = "reconcile" => DOMAIN job[j].rows \subseteq job[j].listed[Probed(j)]
  PROVE  RegistryInv'
<1> DEFINE r == job[j]
<1>1. JobInv(r, tools, Present, endpoints) /\ r \in JobRecord
  BY JobFacts
<1>2. /\ r.agenda # <<>> /\ \A i \in DOMAIN r.agenda : r.agenda[i] \in DOMAIN r.health
      /\ DOMAIN r.servers \subseteq Present
  BY <1>1 DEF JobInv, Placed, Locking
<1>3. \A s \in DOMAIN r.listed : \A n \in Name :
        Owns(Sight(r, tools, n), s) => n \in r.listed[s]
  BY <1>1 DEF JobInv, Listing, Probed
<1>4. JobInv(Advanced(r), tools, Present, endpoints)
  BY <1>1, <1>2, <1>3, AdvancedInv
<1>5. \A k \in Job \ {j} : Apart(Advanced(r), job[k])
  BY <1>1, <1>2, AdvancedRecord, JobFacts, ApartFrom
<1> QED
  BY <1>4, <1>5, LocalStep DEF Local

\* The row of a listed tool is read.
LEMMA LookUpKeeps ==
  ASSUME RegistryInv, NEW j \in Job, LookUp(j)
  PROVE  RegistryInv'
<1> DEFINE r == job[j]
<1>1. JobInv(r, tools, Present, endpoints) /\ r \in JobRecord /\ r.pc = "reconcile"
  BY JobFacts DEF LookUp, At
<1>2. PICK n \in r.left \ DOMAIN r.rows : Local(j, [r EXCEPT !.rows = With(@, n, View(j)[n])])
  BY DEF LookUp
<1> DEFINE rows == With(r.rows, n, View(j)[n])
           r2 == [r EXCEPT !.rows = rows]
<1>3. Placed(r) /\ Loaded(r, tools) /\ Listing(r, tools) /\ Locking(r, Present, endpoints)
  BY <1>1 DEF JobInv
<1>4. n \in Name /\ View(j)[n] = Sight(r, tools, n) /\ View(j)[n] \in Row
  BY <1>1, <1>2, RecordTypes, ViewIsSight
<1>5. rows \in Partial(Name, Row)
  BY <1>1, <1>4, WithPartial DEF JobRecord
<1>6. /\ DOMAIN rows = DOMAIN r.rows \cup {n} /\ rows[n] = Sight(r, tools, n)
      /\ \A m \in DOMAIN r.rows : m # n => rows[m] = r.rows[m]
  BY <1>4 DEF With
<1> HIDE DEF rows
<1>7. /\ r2 \in JobRecord /\ r2.pc = r.pc /\ r2.agenda = r.agenda /\ r2.health = r.health
      /\ r2.listed = r.listed /\ r2.left = r.left /\ r2.rows = rows /\ r2.gone = r.gone
      /\ r2.tools = r.tools /\ r2.dropped = r.dropped /\ r2.servers = r.servers
      /\ r2.endpoints = r.endpoints
  BY <1>1, <1>5 DEF JobRecord
<1>8. Local(j, r2)
  BY <1>2 DEF rows
<1> HIDE DEF r2
<1>9. Placed(r2)
  BY <1>1, <1>2, <1>3, <1>6, <1>7 DEF Placed
<1>10. Loaded(r2, tools)
  BY <1>3, <1>6, <1>7 DEF Loaded, Sight
<1>11. Listing(r2, tools)
  BY <1>1, <1>3, <1>6, <1>7 DEF Listing, Sight
<1>12. JobInv(r2, tools, Present, endpoints)
  BY <1>1, <1>3, <1>7, <1>9, <1>10, <1>11, SameWrites DEF Locking
<1>13. \A k \in Job \ {j} : Apart(r2, job[k])
  BY <1>7, JobFacts, ApartFrom
<1> QED
  BY <1>8, <1>12, <1>13, LocalStep DEF Local

\* A tool is taken only by the owner of its row or where there is none.
LEMMA TakeKeeps ==
  ASSUME RegistryInv, NEW j \in Job, Take(j)
  PROVE  RegistryInv'
<1> DEFINE r == job[j]
           s == Probed(j)
<1>1. JobInv(r, tools, Present, endpoints) /\ r \in JobRecord /\ r.pc = "reconcile"
  BY JobFacts DEF Take, At
<1> DEFINE enabling(n) ==
             IF r.rows[n] = Absent THEN TRUE
             ELSE Assigned(r.rows[n].enabled, TRUE, View(j)[n].enabled)
           new(n) == [owner |-> s, enabled |-> enabling(n)]
           taken(n) == [r EXCEPT !.left = @ \ {n}, !.tools = With(@, n, new(n))]
<1>2. PICK n \in r.left \cap DOMAIN r.rows :
        /\ ToolFree(j, n) /\ Expected(j, n) /\ n \notin OwnedBy(View(j), Rest)
        /\ Local(j, taken(n))
  BY DEF Take
<1>3. /\ Placed(r) /\ Loaded(r, tools) /\ Listing(r, tools) /\ Locking(r, Present, endpoints)
      /\ Pending(r, tools) /\ Dropped(r)
  BY <1>1 DEF JobInv
<1>4. /\ s = Head(r.agenda) /\ s \in DOMAIN r.listed /\ s \in Server /\ s # Rest
      /\ n \in Name /\ n \in r.listed[s]
  BY <1>1, <1>2, <1>3, RecordTypes, RegistryAssumption DEF Placed, Probed, RegistryAssumption
<1>5. /\ View(j)[n] = Sight(r, tools, n) /\ View(j)[n] \in Row
      /\ ~Owns(Sight(r, tools, n), Rest)
  BY <1>2, <1>4, ViewIsSight
<1>6. r.rows[n] # Absent => n \notin r.gone /\ View(j)[n] \in Tool /\ r.rows[n] \in Tool
  <2>1. r.rows[n] # Absent => n \notin r.gone
    BY <1>2 DEF Expected
  <2>2. r.rows[n] # Absent => Sight(r, tools, n) # Absent
    BY <1>2, <1>3, <2>1 DEF Loaded
  <2> QED
    BY <1>1, <1>2, <1>5, <2>1, <2>2, RecordTypes DEF Row
<1>7. enabling(n) \in BOOLEAN
  BY <1>6 DEF Assigned, Tool
<1>8. new(n) \in Tool /\ new(n).owner = s
  BY <1>4, <1>7 DEF Tool
<1> DEFINE row == new(n)
           pending == With(r.tools, n, row)
           r2 == [r EXCEPT !.left = @ \ {n}, !.tools = pending]
<1>9. Local(j, r2)
  BY <1>2
<1>10. row \in Row /\ row # Absent /\ row.owner = s
  BY <1>8, RegistryAssumption DEF Row, RegistryAssumption
<1> HIDE DEF enabling, new, taken, row
<1>11. pending \in Partial(Name, Row)
  BY <1>1, <1>4, <1>10, WithPartial DEF JobRecord
<1>12. /\ DOMAIN pending = DOMAIN r.tools \cup {n} /\ pending[n] = row
       /\ \A m \in DOMAIN r.tools : m # n => pending[m] = r.tools[m]
  BY DEF With
<1> HIDE DEF pending
<1>13. /\ r2 \in JobRecord /\ r2.pc = r.pc /\ r2.agenda = r.agenda /\ r2.health = r.health
       /\ r2.listed = r.listed /\ r2.left \subseteq r.left /\ r2.rows = r.rows
       /\ r2.gone = r.gone /\ r2.tools = pending /\ r2.dropped = r.dropped
       /\ r2.servers = r.servers /\ r2.endpoints = r.endpoints
  BY <1>1, <1>11 DEF JobRecord
<1> HIDE DEF r2, s
<1>14. /\ Sight(r2, tools, n) = row
       /\ \A m : m # n => Sight(r2, tools, m) = Sight(r, tools, m)
  BY <1>12, <1>13 DEF Sight
<1>15. Placed(r2)
  BY <1>1, <1>3, <1>13 DEF Placed
<1>16. ~Owns(tools[n], Rest)
  BY <1>3, <1>5 DEF Sight, Pending
<1>17. Pending(r2, tools)
  <2> SUFFICES ASSUME NEW m \in DOMAIN r2.tools
               PROVE  /\ r2.tools[m] # Absent =>
                           \/ r2.tools[m].owner \in DOMAIN r2.listed
                           \/ tools[m] # Absent /\ r2.tools[m].owner = tools[m].owner
                           \/ tools[m] = Absent /\ r2.tools[m].owner = Rest /\ m \in r2.endpoints
                      /\ tools[m] # Absent /\ r2.tools[m] = Absent => m \in r2.dropped
                      /\ Owns(tools[m], Rest) => Owns(r2.tools[m], Rest)
    BY DEF Pending
  <2>1. CASE m = n
    BY <1>4, <1>10, <1>12, <1>13, <1>16, <2>1
  <2>2. CASE m # n
    <3>1. m \in DOMAIN r.tools /\ r2.tools[m] = r.tools[m]
      BY <1>12, <1>13, <2>2
    <3> QED
      BY <1>3, <1>13, <3>1 DEF Pending
  <2> QED
    BY <2>1, <2>2
<1>18. Dropped(r2)
  <2> SUFFICES ASSUME NEW m \in r2.dropped
               PROVE  m \in DOMAIN r2.tools /\ (r2.tools[m] # Absent => r2.tools[m].owner \in DOMAIN r2.listed)
    BY DEF Dropped
  <2>1. m \in DOMAIN r.tools /\ (r.tools[m] # Absent => r.tools[m].owner \in DOMAIN r.listed)
    BY <1>3, <1>13 DEF Dropped
  <2> QED
    BY <1>4, <1>10, <1>12, <1>13, <2>1
<1>19. Loaded(r2, tools)
  BY <1>3, <1>4, <1>10, <1>13, <1>14 DEF Loaded
<1>20. Listing(r2, tools)
  BY <1>1, <1>3, <1>4, <1>10, <1>13, <1>14 DEF Listing, Owns
<1>21. Locking(r2, Present, endpoints)
  BY <1>3, <1>13 DEF Locking
<1>22. JobInv(r2, tools, Present, endpoints)
  BY <1>13, <1>15, <1>17, <1>18, <1>19, <1>20, <1>21 DEF JobInv
<1>23. \A k \in Job \ {j} : Apart(r2, job[k])
  BY <1>2, <1>12, <1>13, JobFacts DEF Apart, ToolFree
<1> QED
  BY <1>9, <1>22, <1>23, LocalStep DEF Local

\* A row r loaded for the server at hand, and did not write, is not that of an
\* endpoint.
LEMMA DropUnseenKeeps ==
  ASSUME RegistryInv, NEW j \in Job, DropUnseen(j)
  PROVE  RegistryInv'
<1> DEFINE r == job[j]
           s == Probed(j)
           dropping(n) == IF tools[n] # Absent THEN r.dropped \cup {n} ELSE r.dropped
           forgot(n) == [r EXCEPT !.rows = Without(@, n)]
           deleted(n) == [r EXCEPT !.rows = Without(@, n), !.tools = With(@, n, Absent),
                                   !.dropped = dropping(n)]
<1>1. JobInv(r, tools, Present, endpoints) /\ r \in JobRecord /\ r.pc = "reconcile"
  BY JobFacts DEF DropUnseen, At
<1>2. PICK n \in DOMAIN r.rows \ r.listed[s] :
        \/ n \in r.gone /\ Local(j, forgot(n))
        \/ n \notin r.gone /\ ToolFree(j, n) /\ Local(j, deleted(n))
  BY DEF DropUnseen
<1>3. /\ Placed(r) /\ Loaded(r, tools) /\ Listing(r, tools) /\ Locking(r, Present, endpoints)
      /\ Pending(r, tools) /\ Dropped(r)
  BY <1>1 DEF JobInv
<1>4. /\ s = Head(r.agenda) /\ s \in DOMAIN r.listed /\ n \in Name
      /\ r.rows[n] # Absent /\ r.rows[n].owner # Rest
  BY <1>1, <1>2, <1>3, RecordTypes DEF Placed, Probed
<1> DEFINE rows == Without(r.rows, n)
<1>5. rows \in Partial(Name, Row)
  BY <1>1, WithoutPartial DEF JobRecord
<1>6. DOMAIN rows = DOMAIN r.rows \ {n} /\ \A m \in DOMAIN rows : rows[m] = r.rows[m]
  BY DEF Without
<1> HIDE DEF rows
<1>7. CASE n \in r.gone /\ Local(j, forgot(n))
  <2> DEFINE r2 == [r EXCEPT !.rows = rows]
  <2>1. Local(j, r2)
    BY <1>7 DEF rows
  <2>2. /\ r2 \in JobRecord /\ r2.pc = r.pc /\ r2.agenda = r.agenda /\ r2.health = r.health
        /\ r2.listed = r.listed /\ r2.left = r.left /\ r2.rows = rows /\ r2.gone = r.gone
        /\ r2.tools = r.tools /\ r2.dropped = r.dropped /\ r2.servers = r.servers
        /\ r2.endpoints = r.endpoints
    BY <1>1, <1>5 DEF JobRecord
  <2> HIDE DEF r2
  <2>3. Placed(r2)
    BY <1>1, <1>3, <1>6, <2>2 DEF Placed
  <2>4. Loaded(r2, tools) /\ Listing(r2, tools)
    BY <1>1, <1>3, <1>6, <1>7, <2>2 DEF Loaded, Listing, Sight
  <2>5. JobInv(r2, tools, Present, endpoints)
    BY <1>1, <1>3, <2>2, <2>3, <2>4, SameWrites DEF Locking
  <2>6. \A k \in Job \ {j} : Apart(r2, job[k])
    BY <2>2, JobFacts, ApartFrom
  <2> QED
    BY <2>1, <2>5, <2>6, LocalStep DEF Local
<1>8. CASE n \notin r.gone /\ ToolFree(j, n) /\ Local(j, deleted(n))
  <2> DEFINE dropped == dropping(n)
             pending == With(r.tools, n, Absent)
             r2 == [r EXCEPT !.rows = rows, !.tools = pending, !.dropped = dropped]
  <2>1. Local(j, r2)
    BY <1>8 DEF rows
  <2>2. /\ dropped \subseteq Name /\ r.dropped \subseteq dropped /\ dropped \subseteq r.dropped \cup {n}
        /\ tools[n] # Absent => n \in dropped
    BY <1>1, <1>4, RecordTypes
  <2>3. pending \in Partial(Name, Row)
    <3>1. Absent \in Row /\ r.tools \in Partial(Name, Row)
      BY <1>1 DEF Row, JobRecord
    <3> QED
      BY <1>4, <3>1, WithPartial
  <2>4. /\ DOMAIN pending = DOMAIN r.tools \cup {n} /\ pending[n] = Absent
        /\ \A m \in DOMAIN r.tools : m # n => pending[m] = r.tools[m]
    BY DEF With
  <2> HIDE DEF dropped, pending
  <2>5. /\ r2 \in JobRecord /\ r2.pc = r.pc /\ r2.agenda = r.agenda /\ r2.health = r.health
        /\ r2.listed = r.listed /\ r2.left = r.left /\ r2.rows = rows
        /\ r2.gone = r.gone /\ r2.tools = pending /\ r2.dropped = dropped
        /\ r2.servers = r.servers /\ r2.endpoints = r.endpoints
    BY <1>1, <1>5, <2>2, <2>3 DEF JobRecord
  <2> HIDE DEF r2
  <2>6. /\ Sight(r2, tools, n) = Absent
        /\ \A m : m # n => Sight(r2, tools, m) = Sight(r, tools, m)
    BY <2>4, <2>5 DEF Sight
  <2>7. Placed(r2)
    BY <1>1, <1>3, <1>6, <2>5 DEF Placed
  <2>8. Sight(r, tools, n) # Absent /\ Sight(r, tools, n).owner # Rest
    BY <1>3, <1>4, <1>8 DEF Loaded
  <2>9. ~Owns(tools[n], Rest)
    BY <1>3, <2>8 DEF Sight, Pending, Owns
  <2>10. Pending(r2, tools)
    <3> SUFFICES ASSUME NEW m \in DOMAIN r2.tools
                 PROVE  /\ r2.tools[m] # Absent =>
                             \/ r2.tools[m].owner \in DOMAIN r2.listed
                             \/ tools[m] # Absent /\ r2.tools[m].owner = tools[m].owner
                             \/ tools[m] = Absent /\ r2.tools[m].owner = Rest /\ m \in r2.endpoints
                        /\ tools[m] # Absent /\ r2.tools[m] = Absent => m \in r2.dropped
                        /\ Owns(tools[m], Rest) => Owns(r2.tools[m], Rest)
      BY DEF Pending
    <3>1. CASE m = n
      BY <2>2, <2>4, <2>5, <2>9, <3>1
    <3>2. CASE m # n
      <4>1. m \in DOMAIN r.tools /\ r2.tools[m] = r.tools[m]
        BY <2>4, <2>5, <3>2
      <4> QED
        BY <1>3, <2>2, <2>5, <4>1 DEF Pending
    <3> QED
      BY <3>1, <3>2
  <2>11. Dropped(r2)
    BY <1>3, <2>2, <2>4, <2>5 DEF Dropped
  <2>12. Loaded(r2, tools)
    BY <1>3, <1>6, <2>5, <2>6 DEF Loaded
  <2>13. Listing(r2, tools)
    BY <1>1, <1>3, <1>6, <2>5, <2>6 DEF Listing, Owns
  <2>14. Locking(r2, Present, endpoints)
    BY <1>3, <2>5 DEF Locking
  <2>15. JobInv(r2, tools, Present, endpoints)
    BY <2>5, <2>7, <2>10, <2>11, <2>12, <2>13, <2>14 DEF JobInv
  <2>16. \A k \in Job \ {j} : Apart(r2, job[k])
    BY <1>8, <2>4, <2>5, JobFacts DEF Apart, ToolFree
  <2> QED
    BY <2>1, <2>15, <2>16, LocalStep DEF Local
<1> QED
  BY <1>2, <1>7, <1>8

-----------------------------------------------------------------------------
\* The registration of an endpoint.

\* An endpoint is inserted only where there is none.
LEMMA InsertEndpointKeeps ==
  ASSUME RegistryInv, NEW j \in Job, InsertEndpoint(j)
  PROVE  RegistryInv'
<1> DEFINE r == job[j]
<1>1. JobInv(r, tools, Present, endpoints) /\ r \in JobRecord /\ r.pc = "endpoint"
  BY JobFacts DEF InsertEndpoint, At
<1>2. PICK n \in r.left :
        /\ EndpointFree(j, n) /\ n \notin endpoints
        /\ Local(j, [r EXCEPT !.pc = "lookup", !.endpoints = {n}])
  BY DEF InsertEndpoint
<1> DEFINE r2 == [r EXCEPT !.pc = "lookup", !.endpoints = {n}]
<1>3. /\ Placed(r) /\ Loaded(r, tools) /\ Listing(r, tools) /\ Locking(r, Present, endpoints)
      /\ Fresh(r) /\ n \in Name
  BY <1>1, <1>2, RecordTypes DEF JobInv, Placed
<1>4. /\ r2 \in JobRecord /\ r2.pc = "lookup" /\ r2.listed = r.listed /\ r2.left = r.left
      /\ r2.rows = r.rows /\ r2.gone = r.gone /\ r2.tools = r.tools
      /\ r2.dropped = r.dropped /\ r2.servers = r.servers /\ r2.endpoints = {n}
  BY <1>1, <1>3 DEF JobRecord, Place
<1>5. Local(j, r2)
  BY <1>2
<1> HIDE DEF r2
<1>6. Fresh(r2)
  BY <1>3, <1>4 DEF Fresh
<1>7. Placed(r2)
  BY <1>1, <1>2, <1>3, <1>4, <1>6 DEF Placed
<1>8. JobInv(r2, tools, Present, endpoints)
  <2>1. Pending(r2, tools) /\ Dropped(r2) /\ Listing(r2, tools)
    BY <1>6 DEF Fresh, Pending, Dropped, Listing
  <2>2. Loaded(r2, tools)
    BY <1>3, <1>4 DEF Loaded, Sight
  <2>3. Locking(r2, Present, endpoints)
    BY <1>2, <1>3, <1>4 DEF Locking
  <2> QED
    BY <1>4, <1>7, <2>1, <2>2, <2>3 DEF JobInv
<1>9. \A k \in Job \ {j} : Apart(r2, job[k])
  BY <1>2, <1>4, JobFacts DEF Apart, EndpointFree
<1> QED
  BY <1>5, <1>8, <1>9, LocalStep DEF Local

\* The tool paired with an endpoint is read.
LEMMA LookUpPairKeeps ==
  ASSUME RegistryInv, NEW j \in Job, LookUpPair(j)
  PROVE  RegistryInv'
<1> DEFINE r == job[j]
           rows == [n \in r.left |-> tools[n]]
           r2 == [r EXCEPT !.pc = "pair", !.rows = rows]
<1>1. JobInv(r, tools, Present, endpoints) /\ r \in JobRecord /\ r.pc = "lookup" /\ Local(j, r2)
  BY JobFacts DEF LookUpPair, At
<1>2. /\ Placed(r) /\ Locking(r, Present, endpoints) /\ Fresh(r) /\ r.left \subseteq Name
  BY <1>1, RecordTypes DEF JobInv, Placed
<1>3. rows \in Partial(Name, Row)
  <2>1. \A n \in Name : tools[n] \in Row
    BY DEF RegistryInv, TypeOK, Row
  <2>2. rows \in [r.left -> Row]
    BY <1>2, <2>1
  <2> QED
    BY <1>2, <2>2, IntoPartial
<1>4. DOMAIN rows = r.left /\ \A n \in r.left : rows[n] = tools[n]
  OBVIOUS
<1> HIDE DEF rows
<1>5. /\ r2 \in JobRecord /\ r2.pc = "pair" /\ r2.listed = r.listed /\ r2.left = r.left
      /\ r2.rows = rows /\ r2.gone = r.gone /\ r2.tools = r.tools
      /\ r2.dropped = r.dropped /\ r2.servers = r.servers /\ r2.endpoints = r.endpoints
  BY <1>1, <1>3 DEF JobRecord, Place
<1> HIDE DEF r2
<1>6. Fresh(r2)
  BY <1>2, <1>5 DEF Fresh
<1>7. Placed(r2)
  BY <1>1, <1>2, <1>4, <1>5, <1>6 DEF Placed
<1>8. Loaded(r2, tools)
  BY <1>2, <1>4, <1>5, <1>6 DEF Loaded, Sight, Fresh
<1>9. Listing(r2, tools)
  BY <1>6 DEF Listing, Fresh
<1>10. JobInv(r2, tools, Present, endpoints)
  BY <1>1, <1>2, <1>5, <1>7, <1>8, <1>9, SameWrites DEF Locking
<1>11. \A k \in Job \ {j} : Apart(r2, job[k])
  BY <1>5, JobFacts, ApartFrom
<1> QED
  BY <1>1, <1>10, <1>11, LocalStep DEF Local

\* It is inserted, or written with the target it has.
LEMMA PairKeeps ==
  ASSUME RegistryInv, NEW j \in Job, Pair(j)
  PROVE  RegistryInv'
<1> DEFINE r == job[j]
           new(n) == [owner |-> IF tools[n] = Absent THEN Rest ELSE tools[n].owner,
                      enabled |-> IF tools[n] = Absent THEN r.enabling
                                  ELSE Assigned(r.rows[n].enabled, r.enabling, tools[n].enabled)]
           paired(n) == [r EXCEPT !.pc = "commit", !.tools = With(@, n, new(n))]
<1>1. JobInv(r, tools, Present, endpoints) /\ r \in JobRecord /\ r.pc = "pair"
  BY JobFacts DEF Pair, At
<1>2. PICK n \in r.left : ToolFree(j, n) /\ Expected(j, n) /\ Local(j, paired(n))
  BY DEF Pair
<1>3. /\ Placed(r) /\ Loaded(r, tools) /\ Locking(r, Present, endpoints) /\ Fresh(r)
      /\ DOMAIN r.rows = r.left /\ r.left \subseteq r.endpoints /\ n \in Name
  BY <1>1, <1>2, RecordTypes DEF JobInv, Placed
<1>4. Sight(r, tools, n) = tools[n] /\ tools[n] \in Row /\ View(j)[n] = tools[n]
  BY <1>3, ViewIsSight DEF Fresh, Sight
<1>5. tools[n] # Absent => r.rows[n] \in Tool /\ tools[n] \in Tool
  BY <1>1, <1>2, <1>3, <1>4, RecordTypes DEF Expected, Row
<1>6. r.enabling \in BOOLEAN
  BY <1>1, RecordTypes
<1>7. /\ new(n) \in Tool
      /\ tools[n] = Absent => new(n).owner = Rest
      /\ tools[n] # Absent => new(n).owner = tools[n].owner
  BY <1>5, <1>6 DEF Tool, Assigned
<1> DEFINE row == new(n)
           pending == With(r.tools, n, row)
           r2 == [r EXCEPT !.pc = "commit", !.tools = pending]
<1>8. Local(j, r2)
  BY <1>2
<1>9. /\ row \in Row /\ row # Absent
      /\ tools[n] = Absent => row.owner = Rest
      /\ tools[n] # Absent => row.owner = tools[n].owner
  BY <1>7, RegistryAssumption DEF Row, RegistryAssumption
<1> HIDE DEF new, paired, row
<1>10. pending \in Partial(Name, Row)
  BY <1>1, <1>3, <1>9, WithPartial DEF JobRecord
<1>11. DOMAIN pending = {n} /\ pending[n] = row
  BY <1>3 DEF With, Fresh
<1> HIDE DEF pending
<1>12. /\ r2 \in JobRecord /\ r2.pc = "commit" /\ r2.listed = r.listed /\ r2.rows = r.rows
       /\ r2.gone = r.gone /\ r2.tools = pending /\ r2.dropped = r.dropped
       /\ r2.servers = r.servers /\ r2.endpoints = r.endpoints
  BY <1>1, <1>10 DEF JobRecord, Place
<1> HIDE DEF r2
<1>13. Placed(r2)
  BY <1>12 DEF Placed
<1>14. Pending(r2, tools)
  BY <1>2, <1>3, <1>9, <1>11, <1>12 DEF Pending, Owns
<1>15. Dropped(r2) /\ Listing(r2, tools)
  BY <1>3, <1>12 DEF Dropped, Listing, Fresh
<1>16. Loaded(r2, tools)
  <2>1. /\ Sight(r2, tools, n) = row
        /\ \A m : m # n => Sight(r2, tools, m) = Sight(r, tools, m)
    BY <1>3, <1>11, <1>12 DEF Sight, Fresh
  <2>2. n \notin r.gone /\ r.rows[n] # Absent => tools[n] # Absent
    BY <1>2, <1>3, <1>4 DEF Loaded
  <2> QED
    BY <1>3, <1>4, <1>9, <1>12, <2>1, <2>2 DEF Loaded
<1>17. Locking(r2, Present, endpoints)
  BY <1>3, <1>12 DEF Locking
<1>18. JobInv(r2, tools, Present, endpoints)
  BY <1>12, <1>13, <1>14, <1>15, <1>16, <1>17 DEF JobInv
<1>19. \A k \in Job \ {j} : Apart(r2, job[k])
  BY <1>2, <1>3, <1>11, <1>12, JobFacts DEF Apart, ToolFree
<1> QED
  BY <1>8, <1>18, <1>19, LocalStep DEF Local

-----------------------------------------------------------------------------
\* Steps others see.

\* r2 is r, told that the rows X are gone.
Told(r, r2, X) ==
  /\ r2 \in JobRecord
  /\ r2.pc = r.pc /\ r2.agenda = r.agenda /\ r2.health = r.health /\ r2.listed = r.listed
  /\ r2.left = r.left /\ r2.rows = r.rows /\ r2.gone = r.gone \cup X /\ r2.tools = r.tools
  /\ r2.dropped = r.dropped /\ r2.servers = r.servers /\ r2.endpoints = r.endpoints

\* What others may do to the tools, as far as r is concerned: they write no row
\* that r has written, give no tool to a server it has locked, and tell it of the
\* rows it loaded that are gone, X among them.
Undisturbed(r, X, t, t2) ==
  /\ X \subseteq DOMAIN r.rows
  /\ \A n \in Name \cap DOMAIN r.tools : t2[n] = t[n] /\ n \notin X
  /\ \A n \in Name \ DOMAIN r.tools : \A s \in DOMAIN r.servers :
       Owns(t2[n], s) => Owns(t[n], s) /\ n \notin X
  /\ \A n \in DOMAIN r.rows \ DOMAIN r.tools :
       t[n] # Absent /\ r.rows[n] # Absent /\ n \notin X =>
         t2[n] # Absent /\ (t[n].owner # Rest => t2[n].owner # Rest)

\* Then it keeps its invariant.
LEMMA Onlooker ==
  ASSUME NEW r \in JobRecord, NEW t, NEW present, NEW e, JobInv(r, t, present, e),
         NEW X, NEW t2, NEW present2, NEW e2, NEW r2, Told(r, r2, X), Undisturbed(r, X, t, t2),
         DOMAIN r.servers \subseteq present2, r.endpoints \cap e2 = {}
  PROVE  JobInv(r2, t2, present2, e2)
<1> USE DEF Told, Undisturbed
<1>1. /\ Placed(r) /\ Loaded(r, t) /\ Listing(r, t) /\ Locking(r, present, e)
      /\ Pending(r, t) /\ Dropped(r)
  BY DEF JobInv
<1>2. DOMAIN r.tools \subseteq Name /\ DOMAIN r.rows \subseteq Name /\ DOMAIN r.listed \subseteq DOMAIN r.servers
  BY <1>1, RecordTypes DEF Locking
<1>3. Placed(r2)
  BY <1>1 DEF Placed, Fresh
<1>4. Pending(r2, t2)
  BY <1>1, <1>2 DEF Pending
<1>5. Dropped(r2)
  BY <1>1 DEF Dropped
<1>6. Loaded(r2, t2)
  <2> SUFFICES ASSUME NEW n \in DOMAIN r.rows, r.rows[n] # Absent, n \notin r.gone \cup X
               PROVE  /\ Sight(r2, t2, n) # Absent
                      /\ r.rows[n].owner # Rest => Sight(r2, t2, n).owner # Rest
    BY DEF Loaded
  <2>1. Sight(r, t, n) # Absent /\ (r.rows[n].owner # Rest => Sight(r, t, n).owner # Rest)
    BY <1>1 DEF Loaded
  <2>2. CASE n \in DOMAIN r.tools
    BY <2>1, <2>2 DEF Sight
  <2>3. CASE n \notin DOMAIN r.tools
    <3>1. Sight(r, t, n) = t[n] /\ Sight(r2, t2, n) = t2[n]
      BY <2>3 DEF Sight
    <3> QED
      BY <2>1, <2>3, <3>1
  <2> QED
    BY <2>2, <2>3
<1>7. Listing(r2, t2)
  <2> SUFFICES ASSUME NEW s \in DOMAIN r.listed, NEW n \in Name, Owns(Sight(r2, t2, n), s)
               PROVE  \/ n \in r.listed[s]
                      \/ r.pc = "reconcile" /\ s = Head(r.agenda) /\ n \in DOMAIN r.rows \ (r.gone \cup X)
    BY DEF Listing
  <2>1. Owns(Sight(r, t, n), s) /\ n \notin X
    BY <1>2 DEF Sight
  <2> QED
    BY <1>1, <2>1 DEF Listing
<1>8. Locking(r2, present2, e2)
  BY <1>1 DEF Locking
<1> QED
  BY <1>3, <1>4, <1>5, <1>6, <1>7, <1>8 DEF JobInv

\* The record of a job that is told of deletions.
LEMMA OutdatedRecord ==
  ASSUME RegistryInv, NEW k \in Job, NEW deleted
  PROVE  Told(job[k], Outdate(k, deleted),
              {n \in deleted \cap DOMAIN job[k].rows : job[k].rows[n] # Absent})
<1> DEFINE r == job[k]
           X == {n \in deleted \cap DOMAIN r.rows : r.rows[n] # Absent}
           gone == r.gone \cup X
           r2 == [r EXCEPT !.gone = gone]
<1>1. r \in JobRecord /\ gone \in SUBSET Name
  BY JobFacts, RecordTypes
<1> HIDE DEF gone
<1>2. /\ r2 \in JobRecord
      /\ r2.pc = r.pc /\ r2.agenda = r.agenda /\ r2.health = r.health
      /\ r2.listed = r.listed /\ r2.left = r.left /\ r2.rows = r.rows
      /\ r2.gone = gone /\ r2.tools = r.tools /\ r2.dropped = r.dropped
      /\ r2.servers = r.servers /\ r2.endpoints = r.endpoints
  BY <1>1 DEF JobRecord
<1>3. Outdate(k, deleted) = r2
  BY DEF Outdate, gone
<1> QED
  BY <1>2, <1>3 DEF gone, Told

\* The jobs after a commit of j: j rests, the others are told of the deletions.
LEMMA JobsAfter ==
  ASSUME RegistryInv, NEW j \in Job, NEW deleted,
         job' = [k \in Job |-> IF k = j THEN Rested("idle") ELSE Outdate(k, deleted)],
         \A k \in Job \ {j} : JobInv(Outdate(k, deleted), tools', Present', endpoints')
  PROVE  /\ job' = [k \in Job |-> job'[k]]
         /\ (\A k \in Job : JobInv(job[k], tools, Present, endpoints))'
         /\ (\A k, l \in Job : k # l => Apart(job[k], job[l]))'
<1>1. job' = [k \in Job |-> job'[k]]
  OBVIOUS
<1>2. \A k \in Job : JobInv(job'[k], tools', Present', endpoints')
  BY RestedInv
<1>3. \A k \in Job \ {j} : /\ job'[k].tools = job[k].tools /\ job'[k].servers = job[k].servers
                           /\ job'[k].endpoints = job[k].endpoints
  BY OutdatedRecord DEF Told
<1>4. \A q : Apart(job'[j], q)
  BY RestedInv
<1>5. ASSUME NEW k \in Job, NEW l \in Job, k # l
      PROVE  Apart(job'[k], job'[l])
  <2>1. CASE k = j \/ l = j
    BY <1>4, <2>1, ApartSymmetric
  <2>2. CASE k # j /\ l # j
    <3>1. Apart(job[k], job[l])
      BY <1>5 DEF RegistryInv
    <3> QED
      BY <1>3, <2>2, <3>1 DEF Apart
  <2> QED
    BY <2>1, <2>2
<1>6. (\A k \in Job : JobInv(job[k], tools, Present, endpoints))'
  BY <1>2
<1>7. (\A k, l \in Job : k # l => Apart(job[k], job[l]))'
  BY <1>5
<1> QED
  BY <1>1, <1>6, <1>7

\* What the tools are after a commit, by their owners.
LEMMA CommittedRows ==
  ASSUME RegistryInv, NEW j \in Job, job[j].pc = "commit", NEW n \in Name
  PROVE  LET row == Sight(job[j], tools, n)
         IN  /\ row \in Row
             /\ \A s \in DOMAIN job[j].listed : Owns(row, s) => n \in job[j].listed[s]
             /\ n \in DOMAIN job[j].tools /\ row # Absent =>
                  \/ row.owner \in DOMAIN job[j].listed
                  \/ Owns(tools[n], row.owner) /\ n \notin job[j].dropped
                  \/ row.owner = Rest /\ n \in job[j].endpoints
             /\ tools[n] # Absent /\ n \notin job[j].dropped =>
                  row # Absent /\ (tools[n].owner # Rest => row.owner # Rest)
             /\ Owns(tools[n], Rest) => Owns(row, Rest)
<1> DEFINE r == job[j]
           row == Sight(r, tools, n)
<1>1. /\ Listing(r, tools) /\ Pending(r, tools) /\ Dropped(r) /\ Locking(r, Present, endpoints)
      /\ DOMAIN r.listed \subseteq Server
  BY JobFacts, RecordTypes DEF JobInv
<1>2. row \in Row
  BY ViewIsSight
<1>3. \A s \in DOMAIN r.listed : Owns(row, s) => n \in r.listed[s]
  BY <1>1 DEF Listing
<1>4. n \in DOMAIN r.tools /\ row # Absent =>
        \/ row.owner \in DOMAIN r.listed
        \/ Owns(tools[n], row.owner) /\ n \notin r.dropped
        \/ row.owner = Rest /\ n \in r.endpoints
  BY <1>1 DEF Pending, Dropped, Sight, Owns
<1>5. n \notin DOMAIN r.tools => row = tools[n]
  BY DEF Sight
<1>6. tools[n] # Absent /\ n \notin r.dropped =>
        row # Absent /\ (tools[n].owner # Rest => row.owner # Rest)
  <2>1. tools[n] # Absent /\ n \notin r.dropped => row # Absent
    BY <1>1, <1>5 DEF Pending, Sight
  <2>2. tools[n] # Absent /\ n \notin r.dropped /\ tools[n].owner # Rest => row.owner # Rest
    BY <1>1, <1>5, <2>1, RegistryAssumption DEF Pending, Sight, RegistryAssumption
  <2> QED
    BY <2>1, <2>2
<1>7. Owns(tools[n], Rest) => Owns(row, Rest)
  BY <1>1, <1>5 DEF Pending, Sight
<1> QED
  BY <1>2, <1>3, <1>4, <1>6, <1>7

\* A commit makes what one job wrote visible to all.
LEMMA CommitKeeps ==
  ASSUME RegistryInv, NEW j \in Job, Commit(j)
  PROVE  RegistryInv'
<1> DEFINE r == job[j]
           row(n) == Sight(r, tools, n)
<1>1. /\ JobInv(r, tools, Present, endpoints) /\ r \in JobRecord /\ r.pc = "commit"
      /\ Locking(r, Present, endpoints)
  BY JobFacts DEF Commit, At, JobInv
<1>2. TypeOK /\ OwnerAdvertised
  BY DEF RegistryInv
<1>3. /\ tools' = View(j) /\ endpoints' = endpoints \cup r.endpoints
      /\ servers' = [s \in Server |->
           IF s \in DOMAIN r.servers /\ r.servers[s] # Absent
           THEN [servers[s] EXCEPT !.health = r.servers[s]] ELSE servers[s]]
      /\ advertised' = Overlay(advertised, r.listed)
      /\ job' = [k \in Job |-> IF k = j THEN Rested("idle") ELSE Outdate(k, r.dropped)]
      /\ service' = service /\ answers' = answers /\ offers' = offers /\ changes' = changes
  BY DEF Commit, environment
<1>4. /\ \A n \in Name : tools'[n] = row(n) /\ row(n) \in Row
      /\ tools' \in [Name -> Row]
  <2>1. \A n \in Name : tools'[n] = row(n) /\ row(n) \in Row
    BY <1>3, ViewIsSight
  <2>2. tools' = [n \in Name |-> tools'[n]]
    BY <1>2, <1>3 DEF TypeOK, View, Overlay
  <2> QED
    BY <2>1, <2>2
<1>5. servers' \in [Server -> ServerRow \cup {Absent}] /\ Present' = Present
  <2>1. DOMAIN r.servers \subseteq Present
    BY <1>1 DEF Locking
  <2>2. ASSUME NEW s \in Server
        PROVE  servers'[s] \in ServerRow \cup {Absent} /\ (servers'[s] # Absent <=> servers[s] # Absent)
    <3>1. CASE s \in DOMAIN r.servers /\ r.servers[s] # Absent
      <4>1. r.servers[s] \in Health /\ servers[s] \in ServerRow
        BY <1>1, <1>2, <2>1, <3>1, RecordTypes DEF Note, TypeOK, Present
      <4>2. servers'[s] = [servers[s] EXCEPT !.health = r.servers[s]]
        BY <1>3, <3>1
      <4>3. servers'[s] \in ServerRow
        BY <4>1, <4>2 DEF ServerRow, Health
      <4> QED
        BY <4>1, <4>3, RegistryAssumption DEF RegistryAssumption
    <3>2. CASE ~(s \in DOMAIN r.servers /\ r.servers[s] # Absent)
      BY <1>2, <1>3, <3>2 DEF TypeOK
    <3> QED
      BY <3>1, <3>2
  <2> QED
    BY <1>3, <2>2 DEF Present
<1>6. /\ advertised' \in [Server -> SUBSET Name]
      /\ \A s \in Server : advertised'[s] = IF s \in DOMAIN r.listed THEN r.listed[s] ELSE advertised[s]
  BY <1>1, <1>2, <1>3, RecordTypes DEF TypeOK, Overlay
<1>7. r.endpoints \subseteq Name
  BY <1>1, RecordTypes
<1>8. \A n \in Name :
        /\ \A s \in DOMAIN r.listed : Owns(row(n), s) => n \in r.listed[s]
        /\ n \in DOMAIN r.tools /\ row(n) # Absent =>
             \/ row(n).owner \in DOMAIN r.listed
             \/ Owns(tools[n], row(n).owner) /\ n \notin r.dropped
             \/ row(n).owner = Rest /\ n \in r.endpoints
        /\ tools[n] # Absent /\ n \notin r.dropped =>
             row(n) # Absent /\ (tools[n].owner # Rest => row(n).owner # Rest)
        /\ n \notin DOMAIN r.tools => row(n) = tools[n]
  BY <1>1, CommittedRows DEF Sight
<1> HIDE DEF row
<1>9. DOMAIN r.listed \subseteq DOMAIN r.servers /\ DOMAIN r.servers \subseteq Present
      /\ DOMAIN r.listed \subseteq Server /\ Rest \notin Server
  BY <1>1, RecordTypes, RegistryAssumption DEF Locking, RegistryAssumption
<1>10. TypeOK'
  <2>1. \A n \in Name : tools'[n] # Absent => tools'[n].owner \in Present \cup {Rest}
    BY <1>2, <1>4, <1>8, <1>9 DEF TypeOK, Owns
  <2>2. \A n \in Name : Owns(tools'[n], Rest) => n \in endpoints'
    BY <1>2, <1>3, <1>4, <1>8, <1>9 DEF TypeOK, Owns, OwnedBy
  <2> QED
    BY <1>2, <1>3, <1>4, <1>5, <1>6, <1>7, <2>1, <2>2 DEF TypeOK, OwnedBy, Owns, Row
<1>11. OwnerAdvertised'
  <2> SUFFICES ASSUME NEW s \in Server, NEW n \in Name, Owns(tools'[n], s)
               PROVE  n \in advertised'[s]
    BY DEF OwnerAdvertised, OwnedBy, Owns
  <2>1. CASE s \in DOMAIN r.listed
    BY <1>4, <1>6, <1>8, <2>1
  <2>2. CASE s \notin DOMAIN r.listed
    <3>1. Owns(tools[n], s)
      BY <1>4, <1>8, <1>9, <2>2 DEF Owns
    <3> QED
      BY <1>2, <1>6, <2>2, <3>1 DEF OwnerAdvertised, OwnedBy, Owns
  <2> QED
    BY <2>1, <2>2
<1>12. ASSUME NEW k \in Job \ {j}
       PROVE  JobInv(Outdate(k, r.dropped), tools', Present', endpoints')
  <2> DEFINE q == job[k]
             X == {n \in r.dropped \cap DOMAIN q.rows : q.rows[n] # Absent}
             q2 == Outdate(k, r.dropped)
  <2>1. JobInv(q, tools, Present, endpoints) /\ q \in JobRecord /\ Apart(r, q)
    BY <1>12, JobFacts
  <2>2. Told(q, q2, X)
    BY OutdatedRecord
  <2>3. r.dropped \subseteq DOMAIN r.tools /\ DOMAIN r.tools \subseteq Name
    BY <1>1, RecordTypes DEF JobInv, Dropped
  <2>4. /\ DOMAIN r.tools \cap DOMAIN q.tools = {} /\ DOMAIN r.servers \cap DOMAIN q.servers = {}
        /\ r.endpoints \cap q.endpoints = {}
    BY <2>1 DEF Apart
  <2>5. DOMAIN q.servers \subseteq Present /\ q.endpoints \cap endpoints = {} /\ Rest \notin DOMAIN q.servers
    BY <1>9, <2>1, RecordTypes DEF JobInv, Locking
  <2>6. X \subseteq DOMAIN q.rows /\ X \subseteq r.dropped
        /\ \A n \in r.dropped \cap DOMAIN q.rows : q.rows[n] # Absent => n \in X
    OBVIOUS
  <2> HIDE DEF X, q2
  <2>7. \A n \in Name \cap DOMAIN q.tools : tools'[n] = tools[n] /\ n \notin X
    BY <1>4, <1>8, <2>3, <2>4, <2>6
  <2>8. \A n \in Name \ DOMAIN q.tools : \A s \in DOMAIN q.servers :
          Owns(tools'[n], s) => Owns(tools[n], s) /\ n \notin X
    <3> SUFFICES ASSUME NEW n \in Name, NEW s \in DOMAIN q.servers, Owns(tools'[n], s)
                 PROVE  Owns(tools[n], s) /\ n \notin X
      OBVIOUS
    <3>1. row(n) # Absent /\ row(n).owner = s /\ s \notin DOMAIN r.listed /\ s # Rest
      BY <1>4, <1>9, <2>4, <2>5 DEF Owns
    <3>2. Owns(tools[n], s) /\ n \notin r.dropped
      BY <1>4, <1>8, <2>3, <3>1
    <3> QED
      BY <2>6, <3>2
  <2>9. \A n \in DOMAIN q.rows \ DOMAIN q.tools :
          tools[n] # Absent /\ q.rows[n] # Absent /\ n \notin X =>
            tools'[n] # Absent /\ (tools[n].owner # Rest => tools'[n].owner # Rest)
    BY <1>4, <1>8, <2>1, <2>6, RecordTypes
  <2>10. DOMAIN q.servers \subseteq Present' /\ q.endpoints \cap endpoints' = {}
    BY <1>3, <1>5, <2>4, <2>5
  <2>11. Undisturbed(q, X, tools, tools')
    BY <2>6, <2>7, <2>8, <2>9 DEF Undisturbed
  <2>12. JobInv(q2, tools', Present', endpoints')
    BY <2>1, <2>2, <2>10, <2>11, Onlooker
  <2> QED
    BY <2>12 DEF q2
<1> QED
  BY <1>3, <1>10, <1>11, <1>12, JobsAfter DEF RegistryInv

\* A removed server takes its tools along.
LEMMA RemoveKeeps ==
  ASSUME RegistryInv, NEW j \in Job, Remove(j)
  PROVE  RegistryInv'
<1> DEFINE s == Probed(j)
           cascade == OwnedBy(tools, s)
<1>1. /\ ServerFree(j, s) /\ servers' = [servers EXCEPT ![s] = Absent]
      /\ \A n \in cascade : ToolFree(j, n)
      /\ tools' = [n \in Name |-> IF n \in cascade THEN Absent ELSE tools[n]]
      /\ job' = [k \in Job |-> IF k = j THEN Rested("idle") ELSE Outdate(k, cascade)]
      /\ endpoints' = endpoints /\ service' = service /\ answers' = answers
      /\ offers' = offers /\ changes' = changes /\ advertised' = advertised
  BY DEF Remove, environment
<1>2. TypeOK /\ OwnerAdvertised
  BY DEF RegistryInv
<1>3. cascade = {n \in Name : Owns(tools[n], s)}
  BY DEF OwnedBy, Owns
<1>4. s \in Server /\ Rest \notin Server
  BY JobFacts, RecordTypes, RegistryAssumption DEF Remove, At, JobInv, Placed, Probed, RegistryAssumption
<1>5. servers' \in [Server -> ServerRow \cup {Absent}] /\ Present' = Present \ {s}
  BY <1>1, <1>2, <1>4 DEF TypeOK, Present
<1> HIDE DEF cascade, s
<1>6. \A n \in Name : tools'[n] = IF n \in cascade THEN Absent ELSE tools[n]
  BY <1>1
<1>7. TypeOK'
  <2>1. tools' \in [Name -> Tool \cup {Absent}]
    BY <1>1, <1>2 DEF TypeOK
  <2>2. \A n \in Name : tools'[n] # Absent => tools'[n].owner \in Present' \cup {Rest}
    BY <1>2, <1>3, <1>5, <1>6 DEF TypeOK, Owns
  <2>3. OwnedBy(tools', Rest) \subseteq endpoints'
    BY <1>1, <1>2, <1>6 DEF TypeOK, OwnedBy
  <2> QED
    BY <1>1, <1>2, <1>5, <2>1, <2>2, <2>3 DEF TypeOK
<1>8. OwnerAdvertised'
  BY <1>1, <1>2, <1>6 DEF OwnerAdvertised, OwnedBy
<1>9. ASSUME NEW k \in Job \ {j}
      PROVE  JobInv(Outdate(k, cascade), tools', Present', endpoints')
  <2> DEFINE q == job[k]
             X == {n \in cascade \cap DOMAIN q.rows : q.rows[n] # Absent}
             q2 == Outdate(k, cascade)
  <2>1. JobInv(q, tools, Present, endpoints) /\ q \in JobRecord
    BY <1>9, JobFacts
  <2>2. Told(q, q2, X)
    BY OutdatedRecord
  <2>3. cascade \cap DOMAIN q.tools = {} /\ s \notin DOMAIN q.servers
    BY <1>1, <1>9 DEF ToolFree, ServerFree
  <2>4. DOMAIN q.servers \subseteq Present' /\ q.endpoints \cap endpoints' = {}
    BY <1>1, <1>5, <2>1, <2>3 DEF JobInv, Locking
  <2>5. X \subseteq DOMAIN q.rows /\ X \subseteq cascade
        /\ \A n \in cascade \cap DOMAIN q.rows : q.rows[n] # Absent => n \in X
    OBVIOUS
  <2> HIDE DEF X, q2
  <2>6. \A n \in Name \cap DOMAIN q.tools : tools'[n] = tools[n] /\ n \notin X
    BY <1>6, <2>3, <2>5
  <2>7. \A n \in Name \ DOMAIN q.tools : \A x \in DOMAIN q.servers :
          Owns(tools'[n], x) => Owns(tools[n], x) /\ n \notin X
    BY <1>6, <2>5 DEF Owns
  <2>8. \A n \in DOMAIN q.rows \ DOMAIN q.tools :
          tools[n] # Absent /\ q.rows[n] # Absent /\ n \notin X =>
            tools'[n] # Absent /\ (tools[n].owner # Rest => tools'[n].owner # Rest)
    BY <1>6, <2>1, <2>5, RecordTypes
  <2>9. Undisturbed(q, X, tools, tools')
    BY <2>5, <2>6, <2>7, <2>8 DEF Undisturbed
  <2>10. JobInv(q2, tools', Present', endpoints')
    BY <2>1, <2>2, <2>4, <2>9, Onlooker
  <2> QED
    BY <2>10 DEF q2
<1> QED
  BY <1>1, <1>7, <1>8, <1>9, JobsAfter DEF RegistryInv

-----------------------------------------------------------------------------
\* Changes from outside.

\* A change from outside that disturbs no job.
LEMMA OutsideStep ==
  ASSUME RegistryInv, UNCHANGED <<job, advertised>>, TypeOK', OwnerAdvertised',
         \A k \in Job : /\ Undisturbed(job[k], {}, tools, tools')
                        /\ DOMAIN job[k].servers \subseteq Present'
                        /\ job[k].endpoints \cap endpoints' = {}
  PROVE  RegistryInv'
<1>1. \A k \in Job : Told(job[k], job[k], {})
  BY JobFacts DEF Told
<1>2. \A k \in Job : JobInv(job[k], tools', Present', endpoints')
  BY <1>1, JobFacts, Onlooker
<1>3. (\A k \in Job : JobInv(job[k], tools, Present, endpoints))'
  BY <1>2
<1>4. (\A k, l \in Job : k # l => Apart(job[k], job[l]))'
  BY DEF RegistryInv
<1> QED
  BY <1>3, <1>4 DEF RegistryInv

\* Where the tools stay, no job is disturbed.
LEMMA ToolsAsTheyWere ==
  ASSUME RegistryInv, tools' = tools
  PROVE  \A k \in Job : /\ Undisturbed(job[k], {}, tools, tools')
                        /\ DOMAIN job[k].servers \subseteq Present
                        /\ job[k].endpoints \cap endpoints = {}
BY JobFacts DEF Undisturbed, JobInv, Locking

\* A change from outside counts, and advertises nothing.
LEMMA ChangeFacts ==
  ASSUME RegistryInv, Change
  PROVE  changes' \in 0..MaxChange /\ advertised' = advertised
<1>1. changes \in 0..MaxChange
  BY DEF RegistryInv, TypeOK
<1> QED
  BY <1>1, RegistryAssumption DEF Change, RegistryAssumption

\* A server answers otherwise, or offers other tools.
LEMMA TurnKeeps ==
  ASSUME RegistryInv, NEW s \in Server, Turn(s) \/ \E S \in SUBSET Name : Offer(s, S)
  PROVE  RegistryInv'
<1>1. Change /\ UNCHANGED <<database, job>>
  BY DEF Turn, Offer
<1>2. TypeOK /\ OwnerAdvertised
  BY DEF RegistryInv
<1>3. answers' \in [Server -> Answer] /\ offers' \in [Server -> SUBSET Name]
  BY <1>2 DEF TypeOK, Turn, Offer
<1>4. Present' = Present /\ tools' = tools /\ endpoints' = endpoints
  BY <1>1 DEF Present, database
<1>5. TypeOK' /\ OwnerAdvertised'
  BY <1>1, <1>2, <1>3, <1>4, ChangeFacts DEF TypeOK, OwnerAdvertised, OwnedBy, database
<1> QED
  BY <1>1, <1>4, <1>5, ChangeFacts, ToolsAsTheyWere, OutsideStep

\* Servers may be added and changed.
LEMMA ServersKeep ==
  ASSUME RegistryInv, Change, UNCHANGED <<tools, endpoints, answers, offers, job>>,
         servers' \in [Server -> ServerRow \cup {Absent}], Present \subseteq Present',
         service' \in {"active", "inactive"}
  PROVE  RegistryInv'
<1>1. TypeOK /\ OwnerAdvertised
  BY DEF RegistryInv
<1>2. TypeOK' /\ OwnerAdvertised'
  BY <1>1, ChangeFacts DEF TypeOK, OwnerAdvertised, OwnedBy
<1> QED
  BY <1>2, ChangeFacts, ToolsAsTheyWere, OutsideStep

\* create_server keeps the invariant.
LEMMA CreateServerKeeps ==
  ASSUME RegistryInv, NEW s \in Server, CreateServer(s)
  PROVE  RegistryInv'
<1>1. servers \in [Server -> ServerRow \cup {Absent}] /\ service \in {"active", "inactive"}
  BY DEF RegistryInv, TypeOK
<1>2. PICK status \in {"active", "inactive"} :
        servers' = [servers EXCEPT ![s] = [status |-> status, health |-> "unknown"]]
  BY DEF CreateServer
<1>3. [status |-> status, health |-> "unknown"] \in ServerRow
  BY DEF ServerRow
<1>4. servers' \in [Server -> ServerRow \cup {Absent}] /\ Present \subseteq Present'
  BY <1>1, <1>2, <1>3, RegistryAssumption DEF Present, RegistryAssumption
<1> QED
  BY <1>1, <1>4, ServersKeep DEF CreateServer

\* update_server keeps it.
LEMMA UpdateServerKeeps ==
  ASSUME RegistryInv, NEW s \in Server, UpdateServer(s)
  PROVE  RegistryInv'
<1>1. servers \in [Server -> ServerRow \cup {Absent}] /\ service \in {"active", "inactive"}
  BY DEF RegistryInv, TypeOK
<1>2. PICK status \in {"active", "inactive"} : servers' = [servers EXCEPT ![s].status = status]
  BY DEF UpdateServer
<1>3. servers[s] \in ServerRow
  BY <1>1 DEF UpdateServer, Present
<1>4. [servers[s] EXCEPT !.status = status] \in ServerRow
  BY <1>3 DEF ServerRow
<1>5. servers' \in [Server -> ServerRow \cup {Absent}] /\ Present \subseteq Present'
  BY <1>1, <1>2, <1>4, RegistryAssumption DEF Present, RegistryAssumption
<1> QED
  BY <1>1, <1>5, ServersKeep DEF UpdateServer

\* A change of the API service keeps it.
LEMMA UpdateServiceKeeps ==
  ASSUME RegistryInv, UpdateService
  PROVE  RegistryInv'
<1>1. servers \in [Server -> ServerRow \cup {Absent}]
  BY DEF RegistryInv, TypeOK
<1>2. servers' \in [Server -> ServerRow \cup {Absent}] /\ Present \subseteq Present'
  BY <1>1 DEF UpdateService, Present
<1> QED
  BY <1>2, ServersKeep DEF UpdateService

\* update_endpoint writes the paired tool as well.
LEMMA UpdateEndpointKeeps ==
  ASSUME RegistryInv, NEW n \in Name, UpdateEndpoint(n)
  PROVE  RegistryInv'
<1>1. TypeOK /\ OwnerAdvertised /\ tools[n] \in Row
  BY DEF RegistryInv, TypeOK, Row
<1>2. PICK enabled \in BOOLEAN :
        tools' = [tools EXCEPT ![n] =
          [owner |-> IF tools[n] = Absent THEN Rest ELSE tools[n].owner, enabled |-> enabled]]
  BY DEF UpdateEndpoint
<1> DEFINE row == [owner |-> IF tools[n] = Absent THEN Rest ELSE tools[n].owner, enabled |-> enabled]
<1>3. row \in Tool /\ row # Absent /\ row.owner = IF tools[n] = Absent THEN Rest ELSE tools[n].owner
  <2>1. tools[n] # Absent => tools[n] \in Tool
    BY <1>1 DEF Row
  <2>2. row \in Tool
    BY <2>1 DEF Tool
  <2> QED
    BY <2>2, RegistryAssumption DEF RegistryAssumption
<1>4. tools' = [tools EXCEPT ![n] = row]
  BY <1>2
<1> HIDE DEF row
<1>5. /\ tools'[n] = row /\ \A m \in Name : m # n => tools'[m] = tools[m]
      /\ tools' \in [Name -> Tool \cup {Absent}]
  BY <1>1, <1>3, <1>4 DEF TypeOK
<1>6. /\ Change /\ n \in endpoints /\ \A k \in Job : n \notin DOMAIN job[k].tools
      /\ endpoints' = endpoints /\ servers' = servers /\ service' = service
      /\ answers' = answers /\ offers' = offers /\ job' = job
  BY DEF UpdateEndpoint
<1>7. Present' = Present
  BY <1>6 DEF Present
<1>8. TypeOK'
  <2>1. \A m \in Name : tools'[m] # Absent => tools'[m].owner \in Present' \cup {Rest}
    BY <1>1, <1>3, <1>5, <1>7 DEF TypeOK
  <2>2. OwnedBy(tools', Rest) \subseteq endpoints'
    BY <1>1, <1>5, <1>6 DEF TypeOK, OwnedBy
  <2> QED
    BY <1>1, <1>5, <1>6, <2>1, <2>2, ChangeFacts DEF TypeOK
<1>9. \A m \in Name : \A s \in Server : Owns(tools'[m], s) => Owns(tools[m], s)
  BY <1>3, <1>5, RegistryAssumption DEF Owns, RegistryAssumption
<1>10. OwnerAdvertised'
  BY <1>1, <1>6, <1>9, ChangeFacts DEF OwnerAdvertised, OwnedBy, Owns
<1>11. ASSUME NEW k \in Job
       PROVE  /\ Undisturbed(job[k], {}, tools, tools')
              /\ DOMAIN job[k].servers \subseteq Present' /\ job[k].endpoints \cap endpoints' = {}
  <2>1. /\ DOMAIN job[k].servers \subseteq Server /\ DOMAIN job[k].rows \subseteq Name
        /\ DOMAIN job[k].servers \subseteq Present /\ job[k].endpoints \cap endpoints = {}
    BY JobFacts, RecordTypes DEF JobInv, Locking
  <2>2. Undisturbed(job[k], {}, tools, tools')
    BY <1>3, <1>5, <1>6, <1>9, <2>1 DEF Undisturbed
  <2> QED
    BY <1>6, <1>7, <2>1, <2>2
<1> QED
  BY <1>6, <1>8, <1>10, <1>11, ChangeFacts, OutsideStep

\* delete_endpoint keeps it.
LEMMA DeleteEndpointKeeps ==
  ASSUME RegistryInv, NEW n \in Name, DeleteEndpoint(n)
  PROVE  RegistryInv'
<1>1. TypeOK /\ OwnerAdvertised
  BY DEF RegistryInv
<1>2. /\ Change /\ endpoints' = endpoints \ {n} /\ n \notin OwnedBy(tools, Rest)
      /\ tools' = tools /\ servers' = servers /\ service' = service
      /\ answers' = answers /\ offers' = offers /\ job' = job
  BY DEF DeleteEndpoint
<1>3. Present' = Present
  BY <1>2 DEF Present
<1>4. TypeOK' /\ OwnerAdvertised'
  BY <1>1, <1>2, <1>3, ChangeFacts DEF TypeOK, OwnerAdvertised, OwnedBy
<1> QED
  BY <1>2, <1>3, <1>4, ChangeFacts, ToolsAsTheyWere, OutsideStep

\* A job that dies is rolled back.
LEMMA DieKeeps ==
  ASSUME RegistryInv, NEW j \in Job, Die(j)
  PROVE  RegistryInv'
<1>1. Change /\ Rollback(j) /\ UNCHANGED <<database, answers, offers>> /\ TypeOK
  BY DEF Die, RegistryInv
<1>2. TypeOK'
  BY <1>1, ChangeFacts DEF TypeOK, OwnedBy, Present, database
<1> QED
  BY <1>1, <1>2, ChangeFacts, RestedInv, OwnStep DEF Rollback

-----------------------------------------------------------------------------

\* The invariant holds at the start.
LEMMA InitRegistry ==
  ASSUME Init
  PROVE  RegistryInv
<1>1. [status |-> "active", health |-> "unknown"] \in ServerRow
  BY DEF ServerRow
<1>2. TypeOK /\ OwnerAdvertised
  BY <1>1, RegistryAssumption DEF Init, TypeOK, OwnerAdvertised, OwnedBy, Present, Answer, RegistryAssumption
<1>3. job = [j \in Job |-> Rested("idle")]
  BY DEF Init
<1> QED
  BY <1>2, <1>3, RestedInv DEF RegistryInv

\* Every step of a job keeps it.
LEMMA StepKeeps ==
  ASSUME RegistryInv, NEW j \in Job, Step(j)
  PROVE  RegistryInv'
<1>1. CASE Probe(j)
  BY <1>1, ProbeKeeps
<1>2. CASE Report(j)
  BY <1>2, ReportKeeps
<1>3. CASE ListTools(j)
  BY <1>3, ListToolsKeeps
<1>4. CASE ListFails(j)
  BY <1>4, AdvanceKeeps DEF ListFails, At
<1>5. CASE LookUp(j)
  BY <1>5, LookUpKeeps
<1>6. CASE Take(j)
  BY <1>6, TakeKeeps
<1>7. CASE DropUnseen(j)
  BY <1>7, DropUnseenKeeps
<1>8. CASE ServerSynced(j)
  BY <1>8, AdvanceKeeps DEF ServerSynced, At
<1>9. CASE InsertEndpoint(j)
  BY <1>9, InsertEndpointKeeps
<1>10. CASE LookUpPair(j)
  BY <1>10, LookUpPairKeeps
<1>11. CASE Pair(j)
  BY <1>11, PairKeeps
<1>12. CASE Remove(j)
  BY <1>12, RemoveKeeps
<1>13. CASE Commit(j)
  BY <1>13, CommitKeeps
<1>14. CASE ReportFails(j) \/ TakeFails(j) \/ InsertEndpointFails(j) \/ PairFails(j) \/ BreakDeadlock(j)
  BY <1>14, FailKeeps DEF ReportFails, TakeFails, InsertEndpointFails, PairFails, BreakDeadlock
<1> QED
  BY <1>1, <1>2, <1>3, <1>4, <1>5, <1>6, <1>7, <1>8, <1>9, <1>10, <1>11, <1>12, <1>13, <1>14 DEF Step

\* The invariant is inductive.
LEMMA NextKeeps ==
  ASSUME RegistryInv, [Next]_vars
  PROVE  RegistryInv'
<1>1. CASE External
  BY <1>1, TurnKeeps, CreateServerKeeps, UpdateServerKeeps, UpdateServiceKeeps,
     UpdateEndpointKeeps, DeleteEndpointKeeps, DieKeeps DEF External
<1>2. CASE \E j \in Job : Start(j) \/ Step(j)
  BY <1>2, StartKeeps, StepKeeps, RegistryAssumption
<1>3. CASE UNCHANGED vars
  <2>1. UNCHANGED <<tools, endpoints, servers, service, answers, offers, changes, job, advertised>>
    BY <1>3 DEF vars, database, environment
  <2> QED
    BY <2>1 DEF RegistryInv, TypeOK, OwnerAdvertised, OwnedBy, Present
<1> QED
  BY <1>1, <1>2, <1>3 DEF Next

\* The invariant holds in every reachable state.
LEMMA RegistryInvariant == Spec => []RegistryInv
<1>1. Init => RegistryInv
  BY InitRegistry
<1>2. RegistryInv /\ [Next]_vars => RegistryInv'
  BY NextKeeps
<1> QED
  BY <1>1, <1>2, PTL DEF Spec

\* Every tool has a server or an endpoint that is there, whatever is deleted while
\* a sync or a registration is under way: the job that gives a tool its owner
\* holds a lock that the deletion of the owner waits for.
THEOREM ToolsHaveOwners == Spec => []TypeOK
<1>1. RegistryInv => TypeOK
  BY DEF RegistryInv
<1> QED
  BY <1>1, RegistryInvariant, PTL

\* A server owns only tools it listed in its last committed sync.
THEOREM OwnersListedTheirTools == Spec => []OwnerAdvertised
<1>1. RegistryInv => OwnerAdvertised
  BY DEF RegistryInv
<1> QED
  BY <1>1, RegistryInvariant, PTL

\* The listing and the routing engine agree: they differ only on a tool without
\* an owner, and there is none.
THEOREM ListingIsRouting == Spec => []ListedIsRoutable
<1>1. TypeOK => ListedIsRoutable
  <2> SUFFICES ASSUME TypeOK, NEW n \in Name, tools[n] # Absent, tools[n].enabled
               PROVE  (\/ tools[n].owner = Rest /\ service = "active"
                       \/ tools[n].owner \in Active /\ servers[tools[n].owner].health = "healthy")
                      <=> Routable(n)
    BY DEF ListedIsRoutable, Available, Routable
  <2>1. tools[n].owner \in Present \cup {Rest} /\ Rest \notin Active
    BY RegistryAssumption DEF TypeOK, Active, Present, RegistryAssumption
  <2>2. \A s \in Present : s \in Active <=> servers[s].status = "active"
    BY DEF Active
  <2>3. CASE tools[n].owner = Rest
    BY <2>1, <2>3 DEF Routable
  <2>4. CASE tools[n].owner # Rest
    BY <2>1, <2>2, <2>4 DEF Routable
  <2> QED
    BY <2>3, <2>4
<1> QED
  BY <1>1, ToolsHaveOwners, PTL

\* No step takes a tool away from its endpoint: a sync checks the row it has
\* locked before it takes it, and what it drops was the server's own and not
\* replaced since.
THEOREM EndpointsKeepTheirTools == Spec => RestToolsStay
<1> DEFINE Stays == OwnedBy(tools, Rest) \subseteq OwnedBy(tools', Rest)
<1>1. ASSUME RegistryInv, [Next]_vars
      PROVE  Stays
  <2>1. CASE \E j \in Job : Commit(j)
    <3>1. PICK j \in Job : Commit(j)
      BY <2>1
    <3>2. \A n \in Name : tools'[n] = Sight(job[j], tools, n)
      BY <1>1, <3>1, ViewIsSight DEF Commit
    <3>3. \A n \in Name : Owns(tools[n], Rest) => Owns(tools'[n], Rest)
      BY <1>1, <3>1, <3>2, CommittedRows DEF Commit, At
    <3> QED
      BY <3>3 DEF OwnedBy, Owns
  <2>2. CASE \E j \in Job : Remove(j)
    <3>1. PICK j \in Job : Remove(j)
      BY <2>2
    <3>2. Probed(j) # Rest
      BY <1>1, <3>1, JobFacts, RecordTypes, RegistryAssumption
         DEF Remove, At, JobInv, Placed, Probed, RegistryAssumption
    <3> QED
      BY <3>1, <3>2 DEF Remove, OwnedBy
  <2>3. CASE \E n \in Name : UpdateEndpoint(n)
    <3>1. PICK n \in Name, enabled \in BOOLEAN :
            tools' = [tools EXCEPT ![n] =
              [owner |-> IF tools[n] = Absent THEN Rest ELSE tools[n].owner, enabled |-> enabled]]
      BY <2>3 DEF UpdateEndpoint
    <3>2. tools \in [Name -> Tool \cup {Absent}] /\ [owner |-> Rest, enabled |-> enabled] # Absent
      BY <1>1, RegistryAssumption DEF RegistryInv, TypeOK, Tool, RegistryAssumption
    <3>3. tools[n].owner = Rest /\ tools[n] # Absent => tools'[n] = [owner |-> Rest, enabled |-> enabled]
      BY <3>1, <3>2
    <3>4. \A m \in Name : m # n => tools'[m] = tools[m]
      BY <3>1, <3>2
    <3> QED
      BY <3>2, <3>3, <3>4 DEF OwnedBy
  <2>4. CASE tools' = tools
    BY <2>4 DEF OwnedBy
  <2>5. \/ \E j \in Job : Commit(j) \/ Remove(j)
        \/ \E n \in Name : UpdateEndpoint(n)
        \/ tools' = tools
    <3>1. CASE External
      BY <3>1 DEF External, Turn, Offer, CreateServer, UpdateServer, UpdateService,
         DeleteEndpoint, Die, Local, database
    <3>2. CASE \E j \in Job : Start(j)
      BY <3>2 DEF Start, StartSync, StartSweep, StartCheck, StartRegister, StartRemove, Begin,
         Local, database
    <3>3. ASSUME NEW j \in Job, Step(j) PROVE tools' = tools \/ Commit(j) \/ Remove(j)
      <4>1. CASE Probe(j) \/ Report(j) \/ ReportFails(j) \/ ListTools(j) \/ ListFails(j) \/ LookUp(j)
        BY <4>1 DEF Probe, Report, ReportFails, ListTools, ListFails, LookUp, Fail, Local, database
      <4>2. CASE Take(j) \/ TakeFails(j) \/ DropUnseen(j) \/ ServerSynced(j)
        BY <4>2 DEF Take, TakeFails, DropUnseen, ServerSynced, Fail, Local, database
      <4>3. CASE InsertEndpoint(j) \/ InsertEndpointFails(j) \/ LookUpPair(j) \/ Pair(j) \/ PairFails(j)
        BY <4>3 DEF InsertEndpoint, InsertEndpointFails, LookUpPair, Pair, PairFails, Fail, Local, database
      <4>4. CASE BreakDeadlock(j)
        BY <4>4 DEF BreakDeadlock, Fail, Local, database
      <4> QED
        BY <3>3, <4>1, <4>2, <4>3, <4>4 DEF Step
    <3>4. CASE UNCHANGED vars
      BY <3>4 DEF vars, database
    <3> QED
      BY <1>1, <3>1, <3>2, <3>3, <3>4 DEF Next
  <2> QED
    BY <2>1, <2>2, <2>3, <2>4, <2>5
<1>2. RegistryInv /\ [Next]_vars => [Stays]_vars
  BY <1>1
<1> QED
  BY <1>2, RegistryInvariant, PTL DEF Spec, RestToolsStay

=============================================================================
