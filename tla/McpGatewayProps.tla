--------------------------- MODULE McpGatewayProps ---------------------------
(***************************************************************************)
(* What a client of the gateway can rely on.                               *)
(***************************************************************************)
EXTENDS McpGateway

\* The variables have their types.  A recorded session belongs to a server that
\* gave one out, no two requests hold the same row, and
\* nothing is recorded for a server that has no sessions
\* (record_server_session: "if server_session_id is None: return").
TypeOK ==
  /\ available \subseteq Tool /\ policies \subseteq Policy /\ up \subseteq Server
  /\ live \subseteq Stateful \X Request
  /\ sessions \in [Client -> [Server -> Request \cup {NoSession}] \cup {NoReply}]
  /\ \A c \in Client : Known(c) => \A s \in Server \ Stateful : sessions[c][s] = NoSession
  /\ rows \subseteq Request \X Status
  /\ executed \in [Request -> Nat]
  /\ used \in [Client -> SessionMap]
  /\ \A r \in Request : req[r].written \subseteq Server \cup {client(r)}
  /\ \A r, q \in Request : r # q => req[r].written \cap req[q].written = {}

\* A target does work only for a request whose caller has tool:execute, and each
\* of whose other gates, the access policy and the tool's availability, was open
\* at some time while the request was in progress, whatever changed meanwhile.
\* The gateway promises no more: a policy may close and a tool may be disabled
\* between the gate and the call (mcp_gateway, the order of tools/call).
CalledWasOpen ==
  \A r \in Request : executed[r] > 0 =>
    caller(r) \in CanExecute /\ window[r].available /\ window[r].permitted

\* A tool call that is not a GET reaches its target at most once, a GET at most
\* max_attempts times, also when answers are lost (McpClient.call_tool is not
\* retried; RestExecutor.execute retries GET only).
CalledOnce ==
  \A r \in Request : executed[r] <= IF tool(r) \in GetTool THEN MaxAttempts ELSE 1

\* A client can tell from a definite reply whether its call was made: a result
\* comes from a target that did the work; after a refusal by the gateway, or an
\* "unreachable" error, no target has worked.  Only a failure on the way leaves
\* it open.
ReplyTellsTheCall ==
  \A r \in Request :
    /\ Calls(r) /\ req[r].reply = "result" => executed[r] > 0
    /\ req[r].reply \in {"rejected", "unreachable"} => executed[r] = 0

\* A client that sends a request only when the transaction of the one before has
\* ended, which is after its response, calls a stateful server in the session its
\* previous request used or opened: what record_server_session stored is what
\* get_server_session_id reads.  Requests that overlap, in this sense, may lose each
\* other's entries, and what a client can expect begins anew after them.
ReturnsToItsSession ==
  \A r \in Request : \A s \in Server :
    At(r, "call") /\ s = target(r) /\ ~req[r].crowded /\ used[client(r)][s] # NoSession
      => req[r].session[s] = used[client(r)][s]

\* "A given client session is always routed back to the same server-side session on
\* every subsequent call" (SessionManager): once a call was answered with a result,
\* a request that arrives afterwards calls this server in the same session.
RoutedBack ==
  \A q, r, session \in Request : \A s \in Server :
    [](/\ At(q, "commit") /\ Calls(q) /\ req[q].reply = "result"
       /\ target(q) = s /\ req[q].session[s] = session
       /\ At(r, "idle") /\ target(r) = s /\ client(r) = client(q)
       => [](At(r, "call") => req[r].session[s] = session))

\* Every request comes to its end, also when requests wait for each other's rows
\* of mcp_servers and mcp_sessions across their calls of servers.
RequestsEnd == []<>(\A r \in Request : ~Open(r))

=============================================================================
