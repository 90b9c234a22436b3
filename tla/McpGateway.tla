----------------------------- MODULE McpGateway -----------------------------
(***************************************************************************)
(* The MCP gateway (api/v1/mcp_gateway.py): every JSON-RPC request of a    *)
(* client, routed by its method and tool name.  A tool is behind an MCP    *)
(* server, with which the client's session has a session of its own, or    *)
(* behind a REST endpoint, which has none.                                 *)
(*                                                                         *)
(* A request is one database transaction (db/session.py), which ends after *)
(* the response was sent; between any two of its reads, writes and calls   *)
(* other requests run.  A write locks its row until then.  The registry    *)
(* itself is the subject of McpRegistry: here it is the set of tools that  *)
(* can be called, which others change at any time.                         *)
(***************************************************************************)
EXTENDS Naturals, Sequences, FiniteSets, AccessPolicy

CONSTANTS
  Server,        \* the MCP servers
  Stateful,      \* those whose initialize answers with a session id
  McpTool, Host, \* the tools of MCP servers; McpTool -> Server
  RestTool,      \* the tools of REST endpoints
  GetTool,       \* those called with GET
  MaxAttempts,   \* retry_policy.max_attempts, for GET
  Caller, KeyCaller,      \* API keys and people; the API keys among them
  CanRead, CanExecute,    \* the callers with the scope tool:read, tool:execute
  RolesOf, ProviderOf,    \* of a person's identity
  Policy, NoAgent,        \* the policies that may be active; no agent_key
  Client,        \* client session ids
  Request, Ask,  \* requests, and what they ask: method, tool, caller, client
  NoSession, NoReply, NoTool,
  MaxArrival,    \* bound: how many of the requests arrive in a behaviour
  MaxChange      \* bound: changes from outside

Tool == McpTool \cup RestTool
Method == {"initialize", "tools/list", "tools/call"}

\* A result, the server's own error, a server found unreachable, the gateway's
\* refusal, a failure on the way.
Status == {"result", "rpc_error", "unreachable", "rejected", "failed"}

ASSUME GatewayAssumption ==
  /\ IsFiniteSet(Server) /\ Stateful \subseteq Server
  /\ Host \in [McpTool -> Server] /\ McpTool \cap RestTool = {} /\ GetTool \subseteq RestTool
  /\ KeyCaller \subseteq Caller /\ CanRead \cup CanExecute \subseteq Caller
  /\ NoTool \notin Tool /\ NoSession \notin Request /\ Server \cap Client = {}
  /\ NoReply \notin [Server -> Request \cup {NoSession}] \cup Status
  /\ Ask \in [Request -> [method : Method, tool : Tool \cup {NoTool}, caller : Caller, client : Client]]
  /\ MaxAttempts \in Nat \ {0} /\ MaxArrival \in Nat /\ MaxChange \in Nat

VARIABLES
  available,    \* the tools whose target is active and, for a server, healthy
  policies,     \* the active access policies
  up,           \* the servers that answer
  live,         \* <<server, session id>>: the sessions the servers know
  changes,      \* how many changes from outside there were
  sessions,     \* the committed mcp_sessions: client -> server -> session id
  req,          \* the requests
  executed,     \* request -> how often a target did its work
  rows,         \* mcp_request_logs: <<request, status>>
  used,         \* history: client -> server -> the session its last call used
  window        \* history: request -> whether its gates were open since it came

world == <<available, policies, up, live, changes>>
vars == <<world, sessions, req, executed, rows, used, window>>

\* A server's session id is named by the request that asked for it.
SessionMap == [Server -> Request \cup {NoSession}]
NoSessions == [s \in Server |-> NoSession]

\* What a request holds.
\*   agenda   the servers it still has to initialize
\*   session  server_sessions of its McpSession object
\*   written  the rows it has written: servers, and its own mcp_sessions row
\*   down     the servers it found unreachable
\*   tries    calls of the target that failed in transport
\*   reply    its response
\*   crowded  history: another request of its client was in progress meanwhile
Fresh ==
  [pc |-> "idle", agenda |-> <<>>, session |-> NoSessions, written |-> {}, down |-> {},
   tries |-> 0, reply |-> NoReply, crowded |-> FALSE]

At(r, place) == req[r].pc = place
tool(r) == Ask[r].tool
caller(r) == Ask[r].caller
client(r) == Ask[r].client
target(r) == Host[tool(r)]
Calls(r) == Ask[r].method = "tools/call"
Known(c) == sessions[c] # NoReply

\* In progress: from its arrival to the end of its transaction.
Open(r) == req[r].pc \notin {"idle", "ended"}

Free(r, row) == \A q \in Request \ {r} : ~(Open(q) /\ row \in req[q].written)

\* AccessPolicy is asked about people only.
Permitted(r) ==
  caller(r) \in KeyCaller
    \/ Evaluate(policies, RolesOf[caller(r)], ProviderOf[caller(r)], tool(r), NoAgent)

Init ==
  /\ available = Tool
  /\ policies \in SUBSET Policy
  /\ up = Server /\ live = {} /\ changes = 0
  /\ sessions \in [Client -> {NoReply, NoSessions}]
  /\ req = [r \in Request |-> Fresh]
  /\ executed = [r \in Request |-> 0]
  /\ rows = {}
  /\ used = [c \in Client |-> NoSessions]
  /\ window = [r \in Request |-> [available |-> FALSE, permitted |-> FALSE]]

\* Every step notes which gates were open during the requests in progress.
Observe ==
  window' = [r \in Request |->
    IF req'[r].pc = "idle" \/ ~Calls(r) THEN window[r]
    ELSE [available |-> window[r].available \/ tool(r) \in available \/ tool(r) \in available',
          permitted |-> window[r].permitted \/ Permitted(r) \/ Permitted(r)']]

-----------------------------------------------------------------------------
\* How a request goes on and ends.

\* A step that changes nothing but the request.
Go(r, record) ==
  /\ req' = [req EXCEPT ![r] = record]
  /\ UNCHANGED <<world, sessions, executed, rows, used>>

Moved(r, place) == [req[r] EXCEPT !.pc = place]

\* An exception: the transaction is rolled back, and the background task that
\* would write the log goes with the response that is not sent.
Raised(r, status) == [req[r] EXCEPT !.pc = "ended", !.written = {}, !.reply = status]

Arrive(r) ==
  /\ At(r, "idle") /\ Cardinality({q \in Request : ~At(q, "idle")}) < MaxArrival
  /\ LET others == {q \in Request \ {r} : Open(q) /\ client(q) = client(r)}
     IN  req' = [q \in Request |->
           IF q = r THEN [Fresh EXCEPT !.pc = "scope", !.crowded = others # {}]
           ELSE IF q \in others THEN [req[q] EXCEPT !.crowded = TRUE] ELSE req[q]]
  /\ UNCHANGED <<world, sessions, executed, rows, used>>

\* The response is sent, and the log written, before the transaction commits.
Respond(r) ==
  /\ At(r, "respond")
  /\ req' = [req EXCEPT ![r].pc = "commit"]
  /\ rows' = rows \cup {<<r, req[r].reply>>}
  /\ UNCHANGED <<world, sessions, executed, used>>

\* Fault: the dict of the session is changed in place, which goes unnoticed.
SavedUnnoticed(r) ==
  IF client(r) \in req[r].written /\ ~Known(client(r)) THEN NoSessions ELSE sessions[client(r)]

\* server_sessions is written as a whole, as the request saw and changed it.
Saved(r) == IF client(r) \in req[r].written THEN req[r].session ELSE sessions[client(r)]

\* What its client expects of later calls: what it used, if nothing else was
\* going on.
Expectation(r) ==
  IF req[r].crowded THEN NoSessions
  ELSE IF req[r].reply = "result" /\ (tool(r) \in McpTool \/ Ask[r].method = "initialize")
  THEN req[r].session ELSE used[client(r)]

Commit(r) ==
  /\ At(r, "commit")
  /\ sessions' = [sessions EXCEPT ![client(r)] = Saved(r)]
  /\ available' = available \ {t \in McpTool : Host[t] \in req[r].down}
  /\ used' = [used EXCEPT ![client(r)] = Expectation(r)]
  /\ req' = [req EXCEPT ![r].pc = "ended", ![r].written = {}]
  /\ UNCHANGED <<policies, up, live, changes, executed, rows>>

-----------------------------------------------------------------------------
\* The gates.

Scoped(r) == caller(r) \in IF Calls(r) THEN CanExecute ELSE CanRead

\* _require_scope, and then by method.
Scope(r) ==
  /\ At(r, "scope") /\ Scoped(r)
  /\ Go(r, Moved(r, CASE Calls(r) -> "policy"
                      [] Ask[r].method = "initialize" -> "session"
                      [] OTHER -> "list"))

\* tools/list is answered from the registry.
ListTools(r) == At(r, "list") /\ Go(r, [Moved(r, "respond") EXCEPT !.reply = "result"])

\* Fault: a person is let through as a key is.
PolicySkipped(r) == At(r, "policy") /\ Go(r, Moved(r, "limit"))

Policies(r) == At(r, "policy") /\ Permitted(r) /\ Go(r, Moved(r, "limit"))

\* The limit per caller and tool.
Limit(r) == At(r, "limit") /\ Go(r, Moved(r, "resolve"))

\* RoutingEngine.resolve_tool.
Resolve(r) ==
  /\ At(r, "resolve") /\ tool(r) \in available
  /\ Go(r, Moved(r, IF tool(r) \in RestTool THEN "rest" ELSE "session"))

\* A gate refuses: no scope, a policy, a limit, an unknown or unavailable tool.
Refuse(r) ==
  /\ \/ At(r, "scope") /\ ~Scoped(r)
     \/ At(r, "policy") /\ ~Permitted(r)
     \/ At(r, "limit")
     \/ At(r, "resolve") /\ tool(r) \notin available
  /\ Go(r, Raised(r, "rejected"))

-----------------------------------------------------------------------------
\* Sessions.

\* The orders list_active may return all servers in.
Orders == {q \in [1..Cardinality(Server) -> Server] : \A i, k \in DOMAIN q : q[i] = q[k] => i = k}

\* What there is to initialize with this session: everything, or the server of
\* the tool if the session has none with it.
Agendas(r, held) ==
  IF ~Calls(r) THEN Orders
  ELSE IF held[target(r)] = NoSession THEN {<<target(r)>>} ELSE {<<>>}

\* The next thing to do with this agenda.
Continue(record, r) ==
  IF record.agenda # <<>> THEN [record EXCEPT !.pc = "probe"]
  ELSE IF Calls(r) THEN [record EXCEPT !.pc = "call"]
  ELSE [record EXCEPT !.pc = "respond", !.reply = "result"]

\* get_or_create finds the client's session.
LoadSession(r) ==
  /\ At(r, "session") /\ Known(client(r))
  /\ \E agenda \in Agendas(r, sessions[client(r)]) :
       Go(r, Continue([req[r] EXCEPT !.session = sessions[client(r)], !.agenda = agenda], r))

\* It finds none, and is about to insert one.
MissSession(r) ==
  At(r, "session") /\ ~Known(client(r)) /\ Go(r, Moved(r, "insert"))

InsertSession(r) ==
  /\ At(r, "insert") /\ Free(r, client(r)) /\ ~Known(client(r))
  /\ \E agenda \in Agendas(r, NoSessions) :
       Go(r, Continue([req[r] EXCEPT !.written = {client(r)}, !.agenda = agenda], r))

\* Another request of this client inserted it first.
InsertFails(r) ==
  At(r, "insert") /\ Free(r, client(r)) /\ Known(client(r)) /\ Go(r, Raised(r, "failed"))

\* HealthChecker.probe: initialize.  A stateful server opens a session.
Probe(r) ==
  /\ At(r, "probe")
  /\ LET s == Head(req[r].agenda)
     IN  /\ req' = [req EXCEPT ![r].pc = "report",
                               ![r].down = IF s \in up THEN @ ELSE @ \cup {s}]
         /\ live' = IF s \in up \cap Stateful THEN live \cup {<<s, r>>} ELSE live
  /\ UNCHANGED <<available, policies, up, changes, sessions, executed, rows, used>>

\* Fault: a server that is unreachable is asked again.
ReportAsksAgain(r) ==
  /\ At(r, "report")
  /\ LET s == Head(req[r].agenda)
         reported == [req[r] EXCEPT !.written = @ \cup {s}]
     IN  /\ Free(r, s)
         /\ Go(r, IF s \notin req[r].down THEN [reported EXCEPT !.pc = "record"]
                  ELSE Continue(reported, r))

\* The flush of the server's health.
Report(r) ==
  /\ At(r, "report")
  /\ LET s == Head(req[r].agenda)
         reported == [req[r] EXCEPT !.written = @ \cup {s}]
     IN  /\ Free(r, s)
         /\ Go(r, IF s \notin req[r].down THEN [reported EXCEPT !.pc = "record"]
                  ELSE IF Calls(r) THEN [reported EXCEPT !.pc = "respond", !.reply = "unreachable"]
                  ELSE Continue([reported EXCEPT !.agenda = Tail(@)], r))

\* Fault: whatever the server answers is recorded.
RecordAnything(r) ==
  /\ At(r, "record")
  /\ LET s == Head(req[r].agenda)
         done == [req[r] EXCEPT !.agenda = Tail(@)]
     IN  /\ Free(r, client(r))
         /\ Go(r, Continue([done EXCEPT !.session[s] = r, !.written = @ \cup {client(r)}], r))

\* record_server_session: nothing for a server without sessions.
Record(r) ==
  /\ At(r, "record")
  /\ LET s == Head(req[r].agenda)
         done == [req[r] EXCEPT !.agenda = Tail(@)]
     IN  IF s \notin Stateful THEN Go(r, Continue(done, r))
         ELSE /\ Free(r, client(r))
              /\ Go(r, Continue([done EXCEPT !.session[s] = r, !.written = @ \cup {client(r)}], r))

-----------------------------------------------------------------------------
\* The call of the target.

\* A call gets through to a server that answers and knows its session.
Serves(r) ==
  target(r) \in up /\
    (req[r].session[target(r)] = NoSession \/ <<target(r), req[r].session[target(r)]>> \in live)

Work(r) == executed' = [executed EXCEPT ![r] = @ + 1]

\* The request with this record, and the target having worked or not.
Reached(r, record, works) ==
  /\ req' = [req EXCEPT ![r] = record]
  /\ IF works THEN Work(r) ELSE UNCHANGED executed
  /\ UNCHANGED <<world, sessions, rows, used>>

\* The server answers with a result or with a JSON-RPC error.
CallServer(r) ==
  /\ At(r, "call") /\ Serves(r)
  /\ \/ Reached(r, [Moved(r, "respond") EXCEPT !.reply = "result"], TRUE)
     \/ \E works \in BOOLEAN :
          Reached(r, [Moved(r, "respond") EXCEPT !.reply = "rpc_error"], works)

\* Fault: a call that failed in transport is sent again.
CallServerFailsRetried(r) ==
  /\ At(r, "call")
  /\ \/ Reached(r, Raised(r, "failed"), FALSE)
     \/ Serves(r) /\ req[r].tries = 0 /\ Reached(r, [req[r] EXCEPT !.tries = 1], TRUE)

\* It answers with an HTTP error, not at all, or the answer is lost on its way.
CallServerFails(r) ==
  /\ At(r, "call")
  /\ \/ Reached(r, Raised(r, "failed"), FALSE)
     \/ Serves(r) /\ Reached(r, Raised(r, "failed"), TRUE)

\* RestExecutor.execute: the limit of the API, a missing argument, or a
\* credential that cannot be had.
RestRefused(r) ==
  At(r, "rest") /\ \E status \in {"rejected", "failed"} : Go(r, Raised(r, status))

RestReady(r) == At(r, "rest") /\ Go(r, Moved(r, "send"))

\* Any HTTP answer is a result, an error status too.
SendRest(r) ==
  At(r, "send") /\ Reached(r, [Moved(r, "respond") EXCEPT !.reply = "result"], TRUE)

Attempts(r) == IF tool(r) \in GetTool THEN MaxAttempts ELSE 1

\* Fault: when the attempts are used up, the error is a result of the tool.
SendRestFailsAsResult(r) ==
  /\ At(r, "send")
  /\ \E works \in BOOLEAN :
       Reached(r, IF req[r].tries + 1 < Attempts(r) THEN [req[r] EXCEPT !.tries = @ + 1]
                  ELSE [Moved(r, "respond") EXCEPT !.reply = "result"], works)

\* A transport error, before or after the endpoint did its work; GET tries again.
SendRestFails(r) ==
  /\ At(r, "send")
  /\ \E works \in BOOLEAN :
       Reached(r, IF req[r].tries + 1 < Attempts(r) THEN [req[r] EXCEPT !.tries = @ + 1]
                  ELSE Raised(r, "failed"), works)

-----------------------------------------------------------------------------
\* Changes from outside.

Change ==
  /\ changes < MaxChange /\ changes' = changes + 1
  /\ UNCHANGED <<sessions, req, executed, rows, used>>

ChangeAvailable ==
  /\ Change
  /\ \E t \in Tool : available' = IF t \in available THEN available \ {t} ELSE available \cup {t}
  /\ UNCHANGED <<policies, up, live>>

ChangePolicies ==
  Change /\ policies' \in SUBSET Policy /\ UNCHANGED <<available, up, live>>

\* A server stops, or starts again and has forgotten its sessions.
Stop(s) == Change /\ up' = up \ {s} /\ UNCHANGED <<available, policies, live>>

Restart(s) ==
  /\ Change
  /\ up' = up \cup {s}
  /\ live' = {x \in live : x[1] # s}
  /\ UNCHANGED <<available, policies>>

\* Which rows the next statement of r writes, if it writes.
Wants(r) ==
  CASE At(r, "insert") -> {client(r)}
    [] At(r, "report") -> {Head(req[r].agenda)}
    [] At(r, "record") -> IF Head(req[r].agenda) \in Stateful THEN {client(r)} ELSE {}
    [] OTHER -> {}

\* PostgreSQL fails one of the requests that wait for each other.
BreakDeadlock(r) ==
  /\ \E S \in SUBSET {q \in Request : Wants(q) # {}} :
       r \in S /\ \A a \in S : \E b \in S \ {a} : \E row \in Wants(a) : Open(b) /\ row \in req[b].written
  /\ Go(r, Raised(r, "failed"))

-----------------------------------------------------------------------------

Step(r) ==
  \/ Respond(r) \/ Commit(r)
  \/ Scope(r) \/ ListTools(r) \/ Policies(r) \/ Limit(r) \/ Resolve(r) \/ Refuse(r)
  \/ LoadSession(r) \/ MissSession(r) \/ InsertSession(r) \/ InsertFails(r)
  \/ Probe(r) \/ Report(r) \/ Record(r)
  \/ CallServer(r) \/ CallServerFails(r)
  \/ RestRefused(r) \/ RestReady(r) \/ SendRest(r) \/ SendRestFails(r)
  \/ BreakDeadlock(r)

External ==
  \/ ChangeAvailable \/ ChangePolicies
  \/ \E s \in Server : Stop(s) \/ Restart(s)

Next == (External \/ \E r \in Request : Arrive(r) \/ Step(r)) /\ Observe

Spec == Init /\ [][Next]_vars

\* The event loop runs on as long as a request can take a step.
FairSpec == Spec /\ WF_vars(\E r \in Request : Step(r) /\ Observe)

=============================================================================
