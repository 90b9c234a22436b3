---------------------------- MODULE McpRegistry ----------------------------
(***************************************************************************)
(* The tool registry: mcp_servers, mcp_tools and api_endpoints, and the    *)
(* transactions that write them.  A discovery sync asks every active       *)
(* server what it offers and reconciles mcp_tools; a health sweep only     *)
(* asks whether it is there; an administrator registers REST endpoints,    *)
(* each with a tool of its own, and manages the servers.                   *)
(*                                                                         *)
(* A job is one transaction with one session (db/session.py); a sync or a  *)
(* sweep keeps it open across all its network calls.  A SELECT sees        *)
(* committed rows and the job's own writes; a write waits for the row, or  *)
(* the unique name, that another job has written; what is written becomes  *)
(* visible at the commit.  A write that fails fails the job, and all it    *)
(* wrote is gone.  PostgreSQL breaks a circle of waits by failing a job.   *)
(*                                                                         *)
(* There is one API service.  Of a tool only what routing depends on is    *)
(* kept: descriptions and schemas stay as they are.                        *)
(***************************************************************************)
EXTENDS Naturals, Sequences, FiniteSets

CONSTANTS
  Server,      \* the MCP servers
  Name,        \* the names tools may have
  Job,         \* what runs transactions: the loops and the request handlers
  Rest,        \* the owner of a tool that belongs to an API endpoint
  Absent,      \* no such row
  Kind,        \* bound: the kinds of jobs that are started
  MaxChange    \* bound: changes of the servers, and administrative changes

Tool == [owner : Server \cup {Rest}, enabled : BOOLEAN]

\* McpServer: the operator's switch, and what the last probe found.
ServerRow == [status : {"active", "inactive"}, health : {"unknown", "healthy", "unhealthy"}]

Answer == {"well", "none", "garbage"}

ASSUME RegistryAssumption ==
  /\ IsFiniteSet(Server) /\ Rest \notin Server
  /\ Absent \notin Tool /\ Absent \notin ServerRow
  /\ Kind \subseteq {"sync", "sweep", "register", "remove"}
  /\ MaxChange \in Nat

VARIABLES
  tools,       \* the committed mcp_tools rows, by name
  endpoints,   \* the names of the committed api_endpoints rows
  servers,     \* the committed mcp_servers rows
  service,     \* ApiService.status
  answers,     \* how a server answers: well, not at all, or with what is no JSON-RPC
  offers,      \* what a server's tools/list returns
  changes,     \* how many changes were made so far
  job,         \* what a job is about, and what its session holds
  advertised   \* history: what a server listed in its last committed sync

database == <<tools, endpoints, servers, service>>
environment == <<answers, offers, changes>>
vars == <<database, environment, job, advertised>>

\* A job between two transactions; "failed" if the last one was rolled back.
\*   agenda     the servers it still has to call
\*   health     server -> the health its session's object has
\*   answer     what its last probe got
\*   listed     server -> what the server listed in this transaction
\*   left       the names it has not dealt with
\*   rows       name -> what its SELECT found under that name
\*   gone       those of the rows that another job has deleted since
\*   enabling   ApiEndpoint.enabled in a registration
\*   tools      name -> the row it wrote; Absent if it deleted one
\*   dropped    the names whose row it deleted, also if it then inserted one
\*   servers    server -> the health it wrote; Absent if only the heartbeat
\*   endpoints  the endpoints it inserted
Rested(pc) ==
  [kind |-> "none", pc |-> pc, agenda |-> <<>>, health |-> <<>>, answer |-> "none",
   listed |-> <<>>, left |-> {}, rows |-> <<>>, gone |-> {}, enabling |-> FALSE,
   tools |-> <<>>, dropped |-> {}, servers |-> <<>>, endpoints |-> {}]

Resting(j) == job[j].pc \in {"idle", "failed"}

\* f with x mapped to y, and f overlaid with the rows in w.
With(f, x, y) == [k \in DOMAIN f \cup {x} |-> IF k = x THEN y ELSE f[k]]
Overlay(f, w) == [k \in DOMAIN f |-> IF k \in DOMAIN w THEN w[k] ELSE f[k]]

\* mcp_tools as a SELECT of j sees it, and the rows there with a given owner.
View(j) == Overlay(tools, job[j].tools)
OwnedBy(t, o) == {n \in Name : t[n] # Absent /\ t[n].owner = o}

ToolFree(j, n) == \A k \in Job \ {j} : n \notin DOMAIN job[k].tools
ServerFree(j, s) == \A k \in Job \ {j} : s \notin DOMAIN job[k].servers
EndpointFree(j, n) == \A k \in Job \ {j} : n \notin job[k].endpoints

Present == {s \in Server : servers[s] # Absent}
Active == {s \in Present : servers[s].status = "active"}

\* The orders list_active may return the servers in: it has no ORDER BY.
Orders(S) == {q \in [1..Cardinality(S) -> S] : \A i, k \in DOMAIN q : q[i] = q[k] => i = k}

\* An attribute loaded as `old` and set to `new` is written only if it differs;
\* otherwise the column keeps what is there by now.
Assigned(old, new, now) == IF old = new THEN now ELSE new

\* Fault: the query of the listing forgets the health of the server.
AvailableUnhealthy ==
  {n \in Name :
     /\ tools[n] # Absent /\ tools[n].enabled
     /\ \/ tools[n].owner = Rest /\ service = "active"
        \/ tools[n].owner \in Active}

\* The tools the listing shows: _AVAILABLE over the outer joins.
Available ==
  {n \in Name :
     /\ tools[n] # Absent /\ tools[n].enabled
     /\ \/ tools[n].owner = Rest /\ service = "active"
        \/ tools[n].owner \in Active /\ servers[tools[n].owner].health = "healthy"}

Init ==
  /\ tools = [n \in Name |-> Absent]
  /\ endpoints = {}
  /\ servers = [s \in Server |-> [status |-> "active", health |-> "unknown"]]
  /\ service = "active"
  /\ answers = [s \in Server |-> "well"]
  /\ offers \in [Server -> SUBSET Name]
  /\ changes = 0
  /\ job = [j \in Job |-> Rested("idle")]
  /\ advertised = [s \in Server |-> {}]

-----------------------------------------------------------------------------
\* How jobs start and end.

Begin(j, record) ==
  /\ Resting(j)
  /\ record.kind \in Kind
  /\ job' = [job EXCEPT ![j] = record]
  /\ UNCHANGED <<database, environment, advertised>>

At(j, place) == job[j].pc = place

\* A step of j's session that others do not see.
Local(j, record) ==
  /\ job' = [job EXCEPT ![j] = record]
  /\ UNCHANGED <<database, environment, advertised>>

\* An exception reaches get_db, or the loop: the session is closed.
Rollback(j) == job' = [job EXCEPT ![j] = Rested("failed")]

Fail(j) ==
  /\ Rollback(j)
  /\ UNCHANGED <<database, environment, advertised>>

\* A job over all the active servers, as loaded.
OverActive(kind, order) ==
  [Rested("probe") EXCEPT
    !.kind = kind, !.agenda = order,
    !.health = [s \in Active |-> servers[s].health],
    !.pc = IF Active = {} THEN "commit" ELSE "probe"]

\* sync_all, by the loop or by an administrator, and check_all.
StartSync(j) == \E order \in Orders(Active) : Begin(j, OverActive("sync", order))
StartSweep(j) == \E order \in Orders(Active) : Begin(j, OverActive("sweep", order))

\* The administrator's health check of one server, active or not.
StartCheck(j) ==
  \E s \in Present :
    Begin(j, [Rested("probe") EXCEPT
      !.kind = "sweep", !.agenda = <<s>>, !.health = [x \in {s} |-> servers[s].health]])

\* What others have loaded and j has deleted is gone for them.
Outdate(k, deleted) ==
  [job[k] EXCEPT !.gone = @ \cup {n \in deleted \cap DOMAIN job[k].rows : job[k].rows[n] # Absent}]

\* The commit at the end of the request or of the loop's cycle.
Commit(j) ==
  /\ At(j, "commit")
  /\ tools' = View(j)
  /\ endpoints' = endpoints \cup job[j].endpoints
  /\ servers' = [s \in Server |->
       IF s \in DOMAIN job[j].servers /\ job[j].servers[s] # Absent
       THEN [servers[s] EXCEPT !.health = job[j].servers[s]] ELSE servers[s]]
  /\ advertised' = Overlay(advertised, job[j].listed)
  /\ job' = [k \in Job |-> IF k = j THEN Rested("idle") ELSE Outdate(k, job[j].dropped)]
  /\ UNCHANGED <<service, environment>>

-----------------------------------------------------------------------------
\* HealthChecker.probe and DiscoveryService.sync_server, for the server at the
\* head of the agenda.

Probed(j) == Head(job[j].agenda)

\* On to the next server, or to the commit.
Advanced(record) ==
  [record EXCEPT !.agenda = Tail(@), !.left = {}, !.rows = <<>>, !.gone = {},
                 !.pc = IF Len(record.agenda) = 1 THEN "commit" ELSE "probe"]

\* McpClient.initialize.
Probe(j) ==
  /\ At(j, "probe")
  /\ Local(j, [job[j] EXCEPT !.pc = "report", !.answer = answers[Probed(j)]])

\* The health the probe sets.  An answer that cannot be parsed raises before
\* it sets one.
Found(j) ==
  CASE job[j].answer = "well" -> "healthy"
    [] job[j].answer = "none" -> "unhealthy"
    [] OTHER -> job[j].health[Probed(j)]

\* Fault: only a health that changed is written, and only then is the row locked.
WrittenIfChanged(j) ==
  IF Found(j) # job[j].health[Probed(j)] THEN With(job[j].servers, Probed(j), Found(j))
  ELSE job[j].servers

\* The heartbeat is always new, so the row is always written and locked.
Written(j) ==
  With(job[j].servers, Probed(j), IF Found(j) # job[j].health[Probed(j)] THEN Found(j) ELSE Absent)

\* The flush in probe; its lock stays until the whole sweep commits.
Report(j) ==
  /\ At(j, "report")
  /\ ServerFree(j, Probed(j)) /\ Probed(j) \in Present
  /\ job[j].answer = "garbage" => job[j].kind = "sync"
  /\ LET reported == [job[j] EXCEPT !.health[Probed(j)] = Found(j), !.servers = Written(j)]
     IN  Local(j, IF job[j].kind = "sync" /\ job[j].answer = "well"
                  THEN [reported EXCEPT !.pc = "list"] ELSE Advanced(reported))

\* The UPDATE finds no row: the server has been deleted.  Or the answer could
\* not be parsed, which a sync survives and a sweep does not.
ReportFails(j) ==
  /\ At(j, "report") /\ ServerFree(j, Probed(j))
  /\ Probed(j) \notin Present \/ (job[j].answer = "garbage" /\ job[j].kind = "sweep")
  /\ Fail(j)

\* tools/list, and the server's rows in the registry.  An enabled tool of its
\* own that it still offers needs nothing.
ListTools(j) ==
  /\ At(j, "list") /\ answers[Probed(j)] = "well"
  /\ LET s == Probed(j)
         own == OwnedBy(View(j), s)
     IN  Local(j, [job[j] EXCEPT
           !.pc = "reconcile",
           !.listed = With(@, s, offers[s]),
           !.left = offers[s] \ {n \in own : View(j)[n].enabled},
           !.rows = [n \in own |-> View(j)[n]]])

\* tools/list fails: the error is noted on the server, the sync goes on.
ListFails(j) ==
  At(j, "list") /\ answers[Probed(j)] # "well" /\ Local(j, Advanced(job[j]))

\* get_by_name, for a name that is not one of the server's own.
LookUp(j) ==
  /\ At(j, "reconcile")
  /\ \E n \in job[j].left \ DOMAIN job[j].rows :
       /\ job[j].left \cap DOMAIN job[j].rows = {}
       /\ Local(j, [job[j] EXCEPT !.rows = With(@, n, View(j)[n])])

\* What the flush of a tool meets when the lock is there: the row that was
\* loaded, or room for a new one.
Expected(j, n) ==
  IF job[j].rows[n] = Absent THEN View(j)[n] = Absent ELSE n \notin job[j].gone

\* Fault: the check that a tool has one target is not there.
TakeAny(j) ==
  /\ At(j, "reconcile")
  /\ \E n \in job[j].left \cap DOMAIN job[j].rows :
       /\ ToolFree(j, n) /\ Expected(j, n)
       /\ LET old == job[j].rows[n]
              enabled == IF old = Absent THEN TRUE ELSE Assigned(old.enabled, TRUE, View(j)[n].enabled)
          IN  Local(j, [job[j] EXCEPT
                !.left = @ \ {n},
                !.tools = With(@, n, [owner |-> Probed(j), enabled |-> enabled])])

\* A new row, or one of another server that changes hands.
Take(j) ==
  /\ At(j, "reconcile")
  /\ \E n \in job[j].left \cap DOMAIN job[j].rows :
       /\ ToolFree(j, n) /\ Expected(j, n)
       /\ n \notin OwnedBy(View(j), Rest)
       /\ LET old == job[j].rows[n]
              enabled == IF old = Absent THEN TRUE ELSE Assigned(old.enabled, TRUE, View(j)[n].enabled)
          IN  Local(j, [job[j] EXCEPT
                !.left = @ \ {n},
                !.tools = With(@, n, [owner |-> Probed(j), enabled |-> enabled])])

\* The name was taken meanwhile (the unique index), the row was deleted
\* meanwhile (the UPDATE counts no row), or it belongs to an API endpoint
\* (chk_mcp_tool_source).
TakeFails(j) ==
  /\ At(j, "reconcile")
  /\ \E n \in job[j].left \cap DOMAIN job[j].rows :
       /\ ToolFree(j, n)
       /\ ~Expected(j, n) \/ n \in OwnedBy(View(j), Rest)
  /\ Fail(j)

Without(f, x) == [k \in DOMAIN f \ {x} |-> f[k]]

\* The server no longer offers a tool it had: the row is deleted by its key,
\* whoever owns it by now.  A DELETE that finds no row does nothing.
DropUnseen(j) ==
  /\ At(j, "reconcile")
  /\ \E n \in DOMAIN job[j].rows \ job[j].listed[Probed(j)] :
       /\ job[j].left = {}
       /\ \/ /\ n \in job[j].gone
             /\ Local(j, [job[j] EXCEPT !.rows = Without(@, n)])
          \/ /\ n \notin job[j].gone /\ ToolFree(j, n)
             /\ Local(j, [job[j] EXCEPT
                  !.rows = Without(@, n),
                  !.tools = With(@, n, Absent),
                  !.dropped = IF tools[n] # Absent THEN @ \cup {n} ELSE @])

ServerSynced(j) ==
  /\ At(j, "reconcile")
  /\ job[j].left = {}
  /\ DOMAIN job[j].rows \subseteq job[j].listed[Probed(j)]
  /\ Local(j, Advanced(job[j]))

-----------------------------------------------------------------------------
\* ApiRegistryService.register_endpoint.

\* The name is free, as far as the request can see.
StartRegister(j) ==
  \E n \in Name, enabled \in BOOLEAN :
    /\ tools[n] = Absent
    /\ Begin(j, [Rested("endpoint") EXCEPT !.kind = "register", !.left = {n}, !.enabling = enabled])

InsertEndpoint(j) ==
  /\ At(j, "endpoint")
  /\ \E n \in job[j].left :
       /\ EndpointFree(j, n) /\ n \notin endpoints
       /\ Local(j, [job[j] EXCEPT !.pc = "lookup", !.endpoints = {n}])

InsertEndpointFails(j) ==
  /\ At(j, "endpoint")
  /\ \E n \in job[j].left : EndpointFree(j, n) /\ n \in endpoints
  /\ Fail(j)

\* _sync_tool looks the name up again.
LookUpPair(j) ==
  /\ At(j, "lookup")
  /\ Local(j, [job[j] EXCEPT !.pc = "pair", !.rows = [n \in job[j].left |-> tools[n]]])

\* It inserts the tool of the endpoint, or writes to the tool it found there,
\* whose target stays what it is.
Pair(j) ==
  /\ At(j, "pair")
  /\ \E n \in job[j].left :
       /\ ToolFree(j, n) /\ Expected(j, n)
       /\ LET new == [owner |-> IF tools[n] = Absent THEN Rest ELSE tools[n].owner,
                      enabled |-> IF tools[n] = Absent THEN job[j].enabling
                                  ELSE Assigned(job[j].rows[n].enabled, job[j].enabling, tools[n].enabled)]
          IN  Local(j, [job[j] EXCEPT !.pc = "commit", !.tools = With(@, n, new)])

PairFails(j) ==
  /\ At(j, "pair")
  /\ \E n \in job[j].left : ToolFree(j, n) /\ ~Expected(j, n)
  /\ Fail(j)

-----------------------------------------------------------------------------
\* delete_mcp_server.  The session loads the server's tools and, before it
\* deletes the server, sets their server_id to null, which the check of
\* mcp_tools refuses.

StartRemove(j) ==
  \E s \in Present :
    Begin(j, IF OwnedBy(tools, s) = {}
             THEN [Rested("remove") EXCEPT !.kind = "remove", !.agenda = <<s>>]
             ELSE [Rested("failed") EXCEPT !.kind = "remove"])

\* Fault: the foreign key lets the tools stay.
RemoveKeepsTools(j) ==
  /\ At(j, "remove") /\ ServerFree(j, Probed(j))
  /\ servers' = [servers EXCEPT ![Probed(j)] = Absent]
  /\ job' = [job EXCEPT ![j] = Rested("idle")]
  /\ UNCHANGED <<tools, endpoints, service, environment, advertised>>

\* The DELETE and the commit.  The foreign key deletes the tools that came in
\* since they were loaded.
Remove(j) ==
  /\ At(j, "remove") /\ ServerFree(j, Probed(j))
  /\ servers' = [servers EXCEPT ![Probed(j)] = Absent]
  /\ LET cascade == OwnedBy(tools, Probed(j))
     IN  /\ \A n \in cascade : ToolFree(j, n)
         /\ tools' = [n \in Name |-> IF n \in cascade THEN Absent ELSE tools[n]]
         /\ job' = [k \in Job |-> IF k = j THEN Rested("idle") ELSE Outdate(k, cascade)]
  /\ UNCHANGED <<endpoints, service, environment, advertised>>

-----------------------------------------------------------------------------
\* Changes from outside, each a transaction that waits for the row it writes.

Change ==
  /\ changes < MaxChange
  /\ changes' = changes + 1
  /\ UNCHANGED advertised

\* A server stops answering, answers again, or answers something else.
Turn(s) ==
  /\ Change
  /\ \E answer \in Answer : answers' = [answers EXCEPT ![s] = answer]
  /\ UNCHANGED <<database, offers, job>>

Offer(s, S) ==
  /\ Change
  /\ offers' = [offers EXCEPT ![s] = S]
  /\ UNCHANGED <<database, answers, job>>

\* A server takes the place of one that was deleted, and that no session holds.
CreateServer(s) ==
  /\ Change
  /\ s \notin Present /\ \A j \in Job : s \notin DOMAIN job[j].health
  /\ \E status \in {"active", "inactive"} :
       servers' = [servers EXCEPT ![s] = [status |-> status, health |-> "unknown"]]
  /\ UNCHANGED <<tools, endpoints, service, answers, offers, job>>

UpdateServer(s) ==
  /\ Change
  /\ s \in Present /\ \A j \in Job : s \notin DOMAIN job[j].servers
  /\ \E status \in {"active", "inactive"} : servers' = [servers EXCEPT ![s].status = status]
  /\ UNCHANGED <<tools, endpoints, service, answers, offers, job>>

UpdateService ==
  /\ Change
  /\ service' \in {"active", "inactive"}
  /\ UNCHANGED <<tools, endpoints, servers, answers, offers, job>>

\* update_endpoint: _sync_tool writes to the tool of that name, or inserts one.
UpdateEndpoint(n) ==
  /\ Change
  /\ n \in endpoints /\ \A j \in Job : n \notin DOMAIN job[j].tools
  /\ \E enabled \in BOOLEAN :
       tools' = [tools EXCEPT ![n] =
         [owner |-> IF tools[n] = Absent THEN Rest ELSE tools[n].owner, enabled |-> enabled]]
  /\ UNCHANGED <<endpoints, servers, service, answers, offers, job>>

\* delete_endpoint succeeds only for an endpoint without a tool: as above, the
\* session would set the tool's api_endpoint_id to null.
DeleteEndpoint(n) ==
  /\ Change
  /\ n \in endpoints \ OwnedBy(tools, Rest)
  /\ endpoints' = endpoints \ {n}
  /\ UNCHANGED <<tools, servers, service, answers, offers, job>>

\* The process of a job dies.
Die(j) == ~Resting(j) /\ Change /\ Rollback(j) /\ UNCHANGED <<database, answers, offers>>

-----------------------------------------------------------------------------

\* What the next statement of j writes, and the jobs it may have to wait for.
Awaits(j, k) ==
  LET reconciling == job[j].left \cap DOMAIN job[j].rows
      names == CASE At(j, "reconcile") /\ job[j].left # {} -> reconciling
                 [] At(j, "reconcile") /\ job[j].left = {} ->
                      DOMAIN job[j].rows \ job[j].listed[Probed(j)]
                 [] At(j, "pair") -> job[j].left
                 [] At(j, "remove") -> OwnedBy(tools, Probed(j))
                 [] OTHER -> {}
  IN  /\ k # j
      /\ \/ names \cap DOMAIN job[k].tools # {}
         \/ job[j].pc \in {"report", "remove"} /\ Probed(j) \in DOMAIN job[k].servers
         \/ At(j, "endpoint") /\ job[j].left \cap job[k].endpoints # {}

\* PostgreSQL fails one of the jobs that wait for each other.
BreakDeadlock(j) ==
  /\ \E S \in SUBSET Job : j \in S /\ \A a \in S : \E b \in S : Awaits(a, b)
  /\ Fail(j)

Start(j) ==
  \/ StartSync(j) \/ StartSweep(j) \/ StartCheck(j)
  \/ StartRegister(j) \/ StartRemove(j)

Step(j) ==
  \/ Probe(j) \/ Report(j) \/ ReportFails(j) \/ ListTools(j) \/ ListFails(j)
  \/ LookUp(j) \/ Take(j) \/ TakeFails(j) \/ DropUnseen(j) \/ ServerSynced(j)
  \/ InsertEndpoint(j) \/ InsertEndpointFails(j) \/ LookUpPair(j) \/ Pair(j) \/ PairFails(j)
  \/ Remove(j) \/ Commit(j) \/ BreakDeadlock(j)

External ==
  \/ \E s \in Server : Turn(s) \/ CreateServer(s) \/ UpdateServer(s)
  \/ \E s \in Server, S \in SUBSET Name : Offer(s, S)
  \/ UpdateService
  \/ \E n \in Name : UpdateEndpoint(n) \/ DeleteEndpoint(n)
  \/ \E j \in Job : Die(j)

Next == External \/ \E j \in Job : Start(j) \/ Step(j)

Spec == Init /\ [][Next]_vars

=============================================================================
