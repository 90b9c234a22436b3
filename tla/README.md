# A verification project for the LLM / agent / MCP gateway

The repository is a FastAPI gateway in front of language models, MCP tool
servers, REST APIs and registered agents, with PostgreSQL as the store, Valkey
as the cache and rate-limit backend, and a React console. This directory models
its core logic in TLA+, checks it with TLC on small instances, and proves with
TLAPS what matters most for every instance. All paths below are relative to
`src/backend/app/` unless they start with `src/`.

## 1. The system

Every HTTP request runs in one asyncio task, passes the request-id, auth and
rate-limit middleware, and then a handler that works on one SQLAlchemy session
(`db/session.py`): it loads rows, checks and changes objects, flushes, and the
session commits when the handler returns or rolls back when it raises. Four
background loops (`main.py`) run beside the requests on sessions of their own.
Several processes may serve one database. Nothing is locked when it is read.

| component | state it keeps | operations | hard behaviour | what makes it correct |
|---|---|---|---|---|
| agent registry (`services/agent_gateway/agent_registry_service.py`, `api/v1/agents.py`) | `agents` rows: status, card, round | register, update, publish, suspend, reactivate, deprecate, retire | checks on a loaded row, writes later | only reviewed agents are released; nothing reviewed changes |
| approval workflow (`approval_service.py`) | `agent_approval_tasks` rows, and Agent.status | submit, decide, assign, evidence, comment, escalate | stages decided by several people at once; tasks of old rounds | all stages of one round, before anything is released; a review can end |
| agent invocation (`invocation_service.py`, `api/v1/agent_invocations.py`) | idempotency cache, invocation log | invoke | fall-through after a timeout; a retry racing the first attempt; an agent suspended meanwhile | a retry after a success calls nobody; only reachable, permitted, active agents are called, and answers tell what happened |
| agent health (`health_checker.py`) | health_status, last_heartbeat | probe, check_all | row locks held across network calls | nothing reads what it finds |
| policy engine (`services/policy_engine.py`) | `access_policies` | evaluate | none | a policy list only ever narrows access |
| MCP registry (`services/mcp/`, `api/v1/mcp_servers.py`) | `mcp_servers`, `mcp_tools` | create, update, delete, sync, probe, resolve | overlapping syncs; a name claimed twice; one transaction over all servers | a tool belongs to who lists it; what is listed can be called |
| API registry (`services/api_registry/`) | `api_services`, `api_endpoints`, REST `mcp_tools` | register, update, delete endpoint, execute | shares tool names with MCP discovery; retries | a tool has exactly one target; unsafe calls are not repeated |
| MCP gateway (`api/v1/mcp_gateway.py`, `session_manager.py`) | `mcp_sessions`, `mcp_request_logs` | initialize, tools/list, tools/call | gates that close again; lost answers; one JSON column rewritten; server restarts; locks across probes | calls pass every gate and happen once; a client that does not overlap itself keeps its server sessions; requests end |
| API keys (`services/auth_service.py`, `middleware/auth_middleware.py`) | `api_keys`, a cached id per hash | issue, verify, revoke | cache invalidated before the commit | a revoked key is refused |
| chat pipeline (`api/v1/chat.py`, `api/v1/embeddings.py`) | response cache, request log, cost ledger | chat completion, embedding | shared cached responses; background logging after the response | what is delivered was checked, and is charged as served |
| model routing (`services/routing/`) | `routing_rules` | match a rule, order its targets, call one | the provider that answered is guessed from a name | the charge is the price of the target that answered |
| users (`auth_service.py`, `api/v1/users.py`, `identity/`) | `users`, tenant configurations, Keycloak accounts | login, create, change | two first logins at once; a login that relinks a row during a change | one user per subject and address, the same one each time, with the role that was decided |
| secrets (`secrets/`) | provider store, cached values | get, set, rotate, delete | a read filling the cache across a rotation; backends that create and update in two calls | how old a value may be |
| OAuth2 tokens (`rest_executor.py`) | a cached token per service | get | a token that expires on its way | no expired token is sent |
| rate limiter (`rate_limit_service.py`) | counters in Valkey | check | window boundary; backend down | refuses above the limit |

They interact through the database rows (an agent's status is written by the
registry and the approval workflow and read by invocation; an MCP tool is
written by discovery and by the API registry and read by the gateway), through
the Valkey cache, and through direct calls inside one request.

`PROJECT.json` lists every component with its modelling status and every hazard
at its line.

## 2. Modules

| module | what it is |
|---|---|
| `AgentStatus` | the statuses, the transition table of `lifecycle.py`, `CanTransition` |
| `AgentLifecycle` | abstract specification: how one agent's status may evolve |
| `AgentApproval` | registry, approval workflow and SLA sweep, one request at a time |
| `AgentApprovalProps` | what `AgentApproval` promises |
| `AgentApproval_proofs`, `AgentApprovalTx_proofs` | the TLAPS proofs about the two |
| `AgentApprovalTx` | the same handlers statement by statement, overlapping, under READ COMMITTED |
| `AgentApprovalTxProps` | what survives the overlap, the refinement to `AgentApproval`, a claim that does not survive |
| `AccessPolicy` | `policy_engine.py` as operators, for every gate that asks it |
| `AgentInvocation` | the governed invocation path, several requests step by step, against administrators, agents and a fallible cache |
| `AgentInvocationProps` | what callers and operators may rely on |
| `AgentInvocation_proofs` | the TLAPS proofs about `AgentInvocation` |
| `McpRegistry`, `McpRegistryProps` | syncs, health sweeps, registrations and the administration of servers as overlapping transactions over the tool table |
| `McpGateway`, `McpGatewayProps` | JSON-RPC requests from their gates to the log row, with client and server sessions |
| `McpRegistry_proofs`, `McpGateway_proofs` | the TLAPS proofs about the two |
| `ChatPipeline`, `ChatPipelineProps` | API keys and their cache; chat completions and embeddings from the bearer token to the ledger |
| `ChatPipeline_proofs` | the TLAPS proofs about `ChatPipeline` |
| `SecretCache`, `SecretCacheProps` | secret backends, the cache in front of them, and the OAuth2 tokens made of secrets |
| `SecretCache_proofs` | the TLAPS proofs about `SecretCache` |
| `IdentityClaims` | what the seven identity providers make of the claims of a token, as operators |
| `UserIdentity`, `UserIdentityProps` | logins, creations and changes of users as overlapping transactions over the unique keys of `users` |
| `UserIdentity_proofs` | the TLAPS proofs about `UserIdentity` |
| `MC...` | instances and symmetry sets for TLC; their `.cfg` files are the runs |

`AgentLifecycle` is the hinge between the two halves: `AgentApproval` is checked
and proved to implement it, and `AgentInvocation` takes the status changes of
the agents it reads from it (`MoveAgent`). `AccessPolicy` is shared by the two
gates that ask it, and `UserIdentity` extends `IdentityClaims`. `McpRegistry` and
`McpGateway` meet in the tool table: the registry says how it comes to be and
has the listing right (`ListedIsRoutable`), the gateway reads it as the set of
tools that can be called, which others change at any time.

Operators marked `Fault:` are wrong versions of the operator that follows them,
of the kind a slip in the code would produce. No specification uses them; they
are there to show, by putting one in the place of its original, that the
properties notice.

### AgentApproval

A request that raises leaves nothing behind, so each handler is one action
guarded by the checks it passes.

| variable | code |
|---|---|
| `status`, `card`, `round` | `Agent.status`; the reviewable fields with the risk class and whether `validate_agent_card` accepts them; `Agent.current_submission_round` |
| `decision` | the `agent_approval_tasks` rows: a task is an agent, a round and a stage; `absent` is no row |
| `lapsed` | the submissions whose common `due_at` has passed |
| `escalated` | tasks with `escalated_at` |
| `submitted` | history: the card each submission put to review |

`Submit` is `submit_for_approval` with the tasks it inserts; `ApproveStage`,
`ApproveLastStage` and `Reject` are the three ways `decide` ends; `MoveTo` and
the five moves built from it are the transition-checked endpoints;
`EscalateOverdue` is one run of the sweep. The reviewer check of `decide` is not
a guard here: both endpoints require an admin, and an admin passes it.

The code's configuration must name at least one stage (`StagesAssumption`).
With none, an agent of low risk enters review without tasks and never leaves.

### AgentApprovalTx

One agent, a few requests in flight, each with a program counter. A request
begins by loading what its handler loads (`StartRegister` ... `StartSweep`,
`LoadAgent`), flushes task rows and then the agent row, one row lock at a time
(`FlushTask`, `FlushAgent`), and commits (`Commit`), is refused (`Refuse`) or
dies (`Abort`). `seen` is the agent as the session loaded it and `want` the
object as the handler changed it: a flush writes the columns that differ
(`Written`), a SELECT sees committed rows and the request's own (`View`), and
locks are held until the request ends. That is SQLAlchemy's unit of work with
the default isolation of PostgreSQL; both are modelled from how the code uses
them. Incomplete cards and the production stage are left to `AgentApproval`.

### AgentInvocation

Requests for one capability. Each database read and each remote call of
`invoke_agent` and `AgentInvocationService.invoke` is a step; what runs between
two of them (other requests, administrators, the agents, the cache's clock) may
come in between. No row is locked: the path only reads.

| variable | code |
|---|---|
| `status`, `enabled`, `policies` | `agents.status`; `agent_project_enablements`; the active rows of `access_policies` without a project (`evaluate` is called with `project_id=None`) |
| `cache` | Valkey under `agent-invoke-idempotency:<caller>:<key>` |
| `rows` | `agent_invocations` |
| `executed` | outside the code: which agent did the work of which request |
| `pc`, `candidates`, `calls`, `reply` | one request's control point, the rest of its candidate list, the dispatches so far with their answers (`attempted`, `last_result`), and its result |
| `changes` | counts administrative changes, up to `MaxChange` |
| `before`, `window`, `disturbed` | history: requests answered when this one arrived; the gates each agent passed while the request was in progress; cache slots that expired or met an outage |

A request goes `lookup` (with a key) -> `admit` (scope, rate limit) -> `load` ->
`reach` -> `permit` -> `call` -> `await`, back to `reach` with the next
candidate after a refusal or a retryable answer, then `store` (a keyed success),
`respond` and `logging`. A dispatch ends with a success, a rejection (4xx, an
error in an A2A envelope, no endpoint), a 5xx or a transport error;
the agent may do its work before, after or without the last two. Candidates of
equal priority come in any order (`Rankings`). A request may die anywhere, and
one in `logging` then is answered but not logged.

Left out: the cost that `_price` adds to a result, bodies and headers, changes
of an agent's visibility, owner or priority (only a draft or rejected agent can
be edited), and requests that reuse one key for different capabilities.

### McpRegistry

A job is one transaction with one session: the discovery loop or an
administrator's sync, the health loop, a registration of an endpoint, the
deletion of a server. It keeps its session open across all its network calls.
There is one API service, and of a tool only its name, owner and switch are kept.

| variable | code |
|---|---|
| `tools`, `endpoints`, `servers`, `service` | the committed `mcp_tools` (name -> owner and `enabled`), `api_endpoints`, `mcp_servers` (`status`, `health_status`) and `ApiService.status` |
| `answers`, `offers` | outside the code: how a server answers and what its `tools/list` returns |
| `job` | what a job's session holds: the servers still to call (`agenda`), what was listed and looked up, the rows it wrote, deleted and inserted, which lock those rows until its end |
| `advertised` | history: what a server listed in its last committed sync |

A SELECT sees committed rows and the job's own (`View`); a write waits for the
row or the unique name that another job has written (`ToolFree`, `ServerFree`);
an UPDATE of a row that was deleted meanwhile, a taken name and the check
`chk_mcp_tool_source` fail the whole job (`TakeFails`, `ReportFails`). The
heartbeat is always new, so every probe locks the server's row (`Written`);
that is what keeps two syncs from applying an older listing last. PostgreSQL
breaks a circle of waits by failing a job.

### McpGateway

A request goes `scope` -> `policy` -> `limit` -> `resolve` -> `session`
[-> `insert`] -> (`probe` -> `report` -> `record`)* -> `call`, or `rest` -> `send`, and then
`respond` -> `commit`. The response is sent and its background task has written
the log row before the transaction commits. `initialize` goes from `scope` to
`session` and probes every server; `tools/list` is answered from the registry.

| variable | code |
|---|---|
| `available`, `policies`, `up`, `live` | the tools `resolve_tool` finds; the active access policies; outside the code, the servers that answer and the sessions they know |
| `sessions` | the committed `mcp_sessions.server_sessions`, by client |
| `req` | a request: its place, the servers still to initialize, its session object, the rows it has written and locked, failed attempts, reply |
| `executed`, `rows` | how often a target worked for a request; `mcp_request_logs` |
| `used`, `window`, `crowded` | history: the session a client used last; the gates that were open during a request; whether another request of its client overlapped |

A server that restarts forgets its sessions. A call that fails in transport may
or may not have been served. Requests that wait for each other's rows are failed
by PostgreSQL one at a time (`BreakDeadlock`).

### ChatPipeline

| variable | code |
|---|---|
| `keys`, `holder`, `revoking` | `api_keys`, committed; who holds the row lock of a key; how far a revocation is |
| `known` | Valkey: `apikey:<hash>` |
| `cache` | Valkey: the cached responses, by endpoint and prompt |
| `req` | a request: place, ordered targets, the target that answered, the response, whether it was cached, how it ended |
| `ledger` | `request_logs` with their `cost_ledger` row |
| `passed`, `window` | history: the verdicts with which the response guardrail let a text through; whether the key was active since the request came |

A request goes `verify` -> (`by_id` | `by_hash` -> `remember` -> `touch` ->
`touched`) -> `limit` -> `prompt` -> `lookup` -> `route` -> `complete` ->
`verdict` -> `store` -> `respond` -> `record`; embeddings skip `verdict`. The
verification is a transaction of its own, and `touch_last_used` waits for a
revocation in progress. Every call of Valkey, of the guardrail, of the secret
backend and of a provider may fail. Which of a rule's targets answers is
litellm's choice (`simple-shuffle`, `model_registry.py:57`), whatever their order.
A verdict of the response guardrail is the decision and its `masked_text`
(`Verdict`), which may be empty also for an allowed text that was masked:
`chat.py:164` then delivers, and caches, the text of the provider (`Delivered`).

### SecretCache

| variable | code |
|---|---|
| `backend`, `store` | which of three kinds of backend is configured (`upsert`: PostgreSQL, Vault, Azure; `put_or_create`: AWS, Infisical; `versions`: GCP), and what it has, stamped by each change |
| `cache`, `token` | Valkey: `SecretService`'s entries and the OAuth2 token, with the time they expire |
| `now`, `starts` | a discrete clock; how many jobs have started |
| `job` | one caller: get, rotate, set, delete, or a tool call that needs a token |
| `settled` | history: the change below which no later get may go back |

Every call of the backend, of Valkey and of the token endpoint may fail, and a
write may be made with its answer lost (`Written`). A tool call reads the client
id and secret one after the other, the second also when the first is missing, and
exchanges them. `CallTime` bounds the time
from an answer to its cache write; the code has no such bound, and the two
properties about time are relative to it. `SECRET_CACHE_TTL_SECONDS` must be set:
its default is `None` (`core/config.py:124`), with which an entry never expires,
though `src/doc/LLD.md:588` and `src/doc/FAQ.md:684` say 300. A token that is read
from the cache is sent in the same instant: what `RestExecutor._send` adds, the
connection and, for a GET, further attempts with the same header
(`rest_executor.py:121`), is not covered by `SentTokenIsValid`.

### IdentityClaims and UserIdentity

`IdentityClaims` says which claims each provider takes for the subject, the
address and the roles. In `UserIdentity` a token is accepted or refused; what
makes it acceptable is not modelled.

| variable | code |
|---|---|
| `users` | the committed `users`; a row is named by the request that inserted it |
| `configs` | `tenant_identity_config`: issuer -> provider |
| `accounts` | outside the code: the accounts Keycloak has |
| `req` | a login (`issuer` -> `subject` -> `email` -> `link` or `insert` -> `commit`), a creation (`insert` -> `account` -> `grant` -> `commit`) or a change (`load` -> `change` -> `commit`); what it loaded, and the row as it wrote it |
| `home`, `ruled`, `crowded` | history: the row an identity's last login got; the role a row was given last; whether another request wrote a row meanwhile |

A written row locks itself and its unique keys until the end of its transaction
(`Holds`, `Free`), for a creation across the calls of Keycloak. Of the two
attributes `update_user` changes, role and organisation, the role stands for
both. A flush writes the columns that differ from the row as it was loaded, each
for itself (`Linked`), so that of two logins that relink one row, one after the
other, the row may get the provider of one and the subject of the other. A failure
of the database is `Lose`. Groups and attributes of an identity
decide nothing in this program.

## 3. Runs

| run | instance | states | shows |
|---|---|---|---|
| `rounds` | `AgentApproval`, fair: 1 agent, 2 stages and `production`, 2 submissions, due dates | 100,000 | a released agent had one submission approved in full (`ReleasedByAFullRound`), its card is the one reviewed (`CardFrozenInReview`), a review always has something left to decide (`ReviewNeverStuck`), decisions stay (`DecisionsAreFinal`), `AgentLifecycle` is implemented (`RefinesLifecycle`), every task still pending when it falls due is flagged (`LateTaskIsFlagged`) |
| `overlap` | `AgentApprovalTx`: 2 requests at a time, 2 stages, 2 submissions | 990,000 | whatever overlaps and dies, every stage of one submission of a released agent was approved (`ReleasedWasEndorsed`) |
| `waits` | `AgentApprovalTx`, fair: 2 requests of every kind at a time, 1 submission | 59,000 | every request ends, so none waits for another's rows for ever (`RequestsEnd`) |
| `gates` | `AgentInvocation`, fair: 3 agents (two tied, one private), 2 policies, 1 request of any of three callers, without a key, 1 change | 870,000 | only agents that were active, visible and permitted are called (`CalledWasEligible`); one that stays so is not overlooked (`NoneOverlooked`); order and distinctness (`FallsThroughInOrder`); honest answers (`ReplyTellsTheCalls`); a search ends, through skips, fall-through and changes (`RequestsEnd`) |
| `retries` | `AgentInvocation`, fair: 1 agent, 2 attempts under one key and a request of another caller under the same string | 64,000 | the cache holds successes only, each for its caller (`StoredIsOwnSuccess`); a retry after a success calls nobody (`LateRetryReplays`); every request ends (`RequestsEnd`) |
| `registry` | `McpRegistry`: 2 jobs of any kind, 2 servers, 1 name, 1 change | 1,270,000 | a tool has its server or endpoint (`TypeOK`); its server listed it in its last sync (`OwnerAdvertised`); an endpoint's tool is never taken (`RestToolsStay`); what is listed is what can be called (`ListedIsRoutable`) |
| `gateway` | `McpGateway`, fair: 2 of 7 requests, a stateful and a stateless server, a GET and a POST endpoint, 1 policy, 1 change | 370,000 | calls pass every gate (`CalledWasOpen`), happen once, a GET twice (`CalledOnce`), replies tell of the call (`ReplyTellsTheCall`), a client whose transactions do not overlap returns to its session (`ReturnsToItsSession`), requests end (`RequestsEnd`) |
| `secrets` | `SecretCache`: 2 callers of every kind, 1 secret, 3 kinds of backend, 3 starts, 2 changes | 4,100,000 | nothing cached is older than a TTL (`StaleAtMostTtl`); what was settled stays seen (`SettledIsSeen`); no expired token is sent (`SentTokenIsValid`) |
| `chat` | `ChatPipeline`: 2 of 3 requests, 2 keys, 1 prompt, 3 targets, 3 rules | 2,700,000 | nobody is let in with a key that was revoked before (`AdmittedKeyWasActive`); a delivered text is one the guardrail let through, as it let it through unless the masked text is empty (`DeliveredWasChecked`); charges are those of the target that answered (`ChargedAsServed`) |
| `users` | `UserIdentity`: 3 logins, creations or changes, 2 issuers, 1 change of a tenant | 960,000 | no two users share an address or identity (`TypeOK`); a login that does not race succeeds (`LoneLoginSucceeds`); a login ends with a user of the presented identity, a person keeps the user (`KeepsItsUser`); a user keeps the role that was decided (`RoleStands`) |
| `stuck` | `AgentApprovalTx`, violated | | "the agent moves to approved/rejected once every task has a decision" (`approval_service.py:23`): the last two approvals overlap, neither sees the other, and a fully decided review never ends (`DecidedReviewEnds`) |
| `pinned` | `McpGateway`, fair, violated: 2 requests of one client to the stateful server | | "always routed back to the same server-side session on every subsequent call" (`session_manager.py:11`): the response leaves before the commit, and the client's next call comes in between, opens a session of its own and replaces the entry (`RoutedBack`) |

The runs `stuck` and `pinned` are findings in `PROJECT.json`. More claims of docs, comments or
tests are contradicted by what the models' actions do; they have no run of their
own, the places to look are given instead.

- Retirement is terminal (`src/backend/tests/agent_gateway/test_lifecycle.py:40`):
  a task that a rejected submission left pending is rejected late, and `decide`
  sets `rejected` without asking the table (`approval_service.py:120`; `Reject`
  in `AgentApproval`, and `AgentLifecycle` has to allow it).
- A decided task cannot be decided again (`approval_service.py:87`): two
  administrators load the same pending task (`AgentApprovalTx`).
- The last approval of an old round approves an agent whose newest round is
  undecided (`approval_service.py:125` against `src/README.md:383`): that is why
  `ReleasedByAFullRound` speaks of *some* submission.
- An edit checked before a submission may commit after it
  (`agent_registry_service.py:55` against `src/README.md:344`):
  `CardFrozenInReview` is a property of `AgentApproval` only.
- A repeated call with the same key does not re-invoke the agent
  (`api/v1/agent_invocations.py:54`): a retry that overlaps the first attempt, or
  follows one that timed out after the agent worked, does. `LateRetryReplays` is
  what is left.
- Every call is logged (`src/doc/FAQ.md:1016`): the credential of a second
  candidate may not be readable after the first one executed, and the error
  leaves the handler before the row is scheduled (`invocation_service.py:182`).
  The tasks that log a gateway call that failed or a blocked prompt are lost with
  the response in the same way (`mcp_gateway.py:208`, `chat.py:96`).
- API keys do pass through the policy engine on the invocation path, without
  roles (`invocation_service.py:116` against `api/v1/agent_invocations.py:50`).
- One server failing to sync must not prevent the others from refreshing
  (`discovery_service.py:102`): all are synced in one transaction, and a name that
  belongs to an endpoint fails its flush (`:90`). An `initialize` answer that is
  no JSON-RPC fails a whole health sweep likewise.
- Deleting a server or service deletes its tools (the comment at
  `api/v1/api_services.py:114`; `src/doc/LLD.md:383` of endpoints): the session
  first sets the foreign keys of the loaded children to null, which the check of
  `mcp_tools` refuses (`StartRemove`).
- A set followed by a get can never observe a stale value
  (`secrets/service.py:84`): a get that fetched before the set may fill the cache
  after it. `SettledIsSeen` is what is left.
- PII protection is handled entirely by the guardrails (`src/doc/LLD.md:617`): an
  allowed response whose `masked_text` is empty is delivered and cached as the
  provider sent it, since the gateway takes an empty text for no masking
  (`chat.py:164`, `Delivered` in `ChatPipeline`). `DeliveredWasChecked` counts that
  text as let through.
- A login finds or creates the user of the identity that was validated
  (`auth_service.py:74`): two logins that relink one row write the columns that
  differ from what each loaded (`auth_service.py:90`), and the row may end with the
  provider of one and the subject of the other, an identity that neither presented
  and that may be somebody else's. `KeepsItsUser` is about logins during which
  nobody else wrote.
- A first login of a user without an address always provisions one: the address
  made up for it (`auth_service.py:100`) is per subject, not per provider, so the
  same subject at a second provider is refused for ever. And a creation that
  fails after its Keycloak account was made says "User saved to database"
  (`api/v1/users.py:56`) when the row is rolled back and the account stays, which
  every later attempt meets.

**Bounds.** Two rounds are the least for a task of an old round to meet a
resubmission (the proofs cover any number); two risk classes and completeness tell
a reviewed card from another; two configured stages are the least for which "all"
and "any" differ, and `production` is the stage that only some rounds have. Two
overlapping requests produce every anomaly named above, and the least cycle of
waiting. `MaxRound` bounds submissions and thereby tasks; nothing else grows. On
the invocation path three agents are the least with a tie, a lower rank and a
candidate after a fall-through; requests without a common key share nothing they
write, so one at a time (`MaxArrival`) is enough for the gates, and `retries` has
the two that share a slot and one that must not. In the registry, one name is what
jobs compete for; two servers are the least that can hand it over, two jobs the
least that race. The gateway's seven requests are one of each kind it tells apart,
of which any two meet. Two secrets jobs, three starts and two changes are the
least for a read to straddle a rotation and be read again; the time bounds are a
TTL of two ticks, lifetimes below and above the margin, and the `Least` TTL of a
token as one tick instead of 30 seconds. Three targets are the least in which one
model has two providers and one provider two models. Three user requests are the
least for a person to come back after somebody else wrote; two logins that overlap
and relink one row already mix their identities. `MaxChange` bounds changes from
outside everywhere; one tells a gate read before it from one read after. What does
not depend on the bounds is proved.

**Deadlock.** A bounded number of submissions, requests or starts means that
every instance comes to a state with nothing left to do, so the runs do not check
for deadlock; the `RequestsEnd` of three modules state the absence of the
deadlocks that matter. Jobs of `McpRegistry` that hold servers' rows in opposite
orders do wait for each other, until PostgreSQL fails one.

**Fairness.** `AgentApproval!FairSpec` is weakly fair only for the sweep: its loop
sleeps, runs and survives its own exceptions for ever, while no administrator need
ever act. `AgentApprovalTx!FairSpec` is strongly fair for the next statement of a
request that has begun: the event loop keeps running it, and PostgreSQL grants a
row lock to its waiters in turn. Starting a request is never fair.
`AgentInvocation!FairSpec` is weakly fair for the requests together: some request
that can go on does, which the event loop gives, and a call ends by an answer or
by the client's timeout (`agent_invocation_timeout_seconds`). So is
`McpGateway!FairSpec`. It is enough in both because every request has an end.
Agents, servers, administrators and arrivals owe nothing. The `RequestsEnd` of
`gates` is about one search through skips, fall-through and changes, that of
`retries` about two attempts over one slot with outages, expiry and deaths. The
other modules state no liveness: their requests fail or finish in a bounded number
of steps, and nothing else must ever happen.

## 4. Proofs

Eight modules, one per state machine, hold 36 theorems. Every invariant and
every action property that a run checks, and both refinements, are proved for
every value of the constants that meets the module's assumptions; what is left
to TLC alone is liveness. Each inductive invariant was checked by TLC, on the
instance of the module's run, before it was proved.

### AgentApproval

| theorem | property |
|---|---|
| `TypeCorrect` | `TypeOK` |
| `ReleaseIsReviewed` | `ReleasedByAFullRound` |
| `CardStaysFrozen` | `CardFrozenInReview` |
| `ReviewStaysOpen` | `ReviewNeverStuck` |
| `DecisionsStay` | `DecisionsAreFinal` |
| `ImplementsLifecycle` | `RefinesLifecycle` |

The assumptions are those of `AgentApproval`: a configured stage, a positive
round bound, a placeholder that is not a card.

The inductive invariant `IInv` is `TypeOK`, `TasksMatchSubmission` (a round's
tasks are exactly those its submitted card requires; this is what lets "all
siblings approved" be read as "all required stages approved") and the three
safety properties, which hold each other up: an agent under review has a pending
task in its newest round and none rejected there (`ReviewNeverStuck`), so the
approval that completes that round is its last; cards stay frozen because
`Update` needs a status no frozen agent has. Each action has a step
(`TypeStep`, `TasksStep`, `ReleasedStep`, `FrozenStep`, `OpenStep`), and
`LastApprovalCompletes` is the heart of it: the approval `decide` acts on leaves
its whole round approved. An approval of a stale round also releases an agent;
the theorem covers it, because it promises *some* round.

### AgentApprovalTx

| theorem | property |
|---|---|
| `ReleaseNeedsEveryStage` | `ReleasedWasEndorsed` |
| `LoneRequestsAreAtomic` | `RefinesAgentApproval`, when requests do not overlap |

`ReleaseNeedsEveryStage` is about any number of overlapping requests. Its
`ApprovalInv` carries what a session may hold that is no longer true of the
database: a released status that was loaded (`seen`) or is about to be written
(`want`) is backed by a round all of whose stages are in `endorsed`, or will be
when the request commits the decision it has in hand (`Endorsing`). Others can
only add tasks and approvals in the meantime (`Grown`), so both survive them. The
bound on submissions enters through `row.round * Stages <= Len(tasks)`: a
submission that lost its round to another still left its tasks behind.

`LoneRequestsAreAtomic` shows that the two models describe the same handlers. A
list of task rows is read as `AgentApproval`'s table of decisions (`DecisionsIn`);
`DecidedTable` and `SubmittedTable` say how the table changes with the list.
`SerialInv` says of a request that nobody disturbs that its `seen` is the row, and
that it is about to have one of seven effects (`Effect`), each of which is a step
of `AgentApproval` when it commits. The hypothesis `Alone` says what "nobody
disturbs" is: one request at a time, and tasks without a due date or no sweep. The
latter is no technicality. A sweep flags what its SELECT found, and a task that
falls due before it commits is left for the next one; `EscalateOverdue` of
`AgentApproval` would flag it. No run checks this refinement; it is only proved.

### AgentInvocation

| theorem | property |
|---|---|
| `TypeCorrect` | `TypeOK` |
| `OnlyEligibleAgentsAreCalled` | `CalledWasEligible` |
| `FallThroughKeepsOrder` | `FallsThroughInOrder` |
| `NobodyIsOverlooked` | `NoneOverlooked` |
| `RepliesAreHonest` | `ReplyTellsTheCalls` |
| `OnlyOwnSuccessesAreStored` | `StoredIsOwnSuccess` |
| `LateRetriesReplay` | `LateRetryReplays` |

Its `IInv` is `TypeOK`, `StoredIsOwnSuccess` and, for every request,
`RequestOK`: what the control point says about the candidates left and the calls
made. `SearchOK` ties them together (the agents called and the agents left are
disjoint and in one order, the current candidate has passed the gates behind
`pc`), `EligibleCalls` and `InOrder` are the two properties per request, and
`HonestReply` says what `reply` may be at each point. A step of one request
leaves the others' parts alone, so each action needs only its own. `LInv` adds
for late retries that an undisturbed slot stays filled once a success was
answered from it (`Kept`) and that a request which found its slot filled on
arrival never gets past the lookup (`Late`). `OInv` accounts for every agent that
kept passing the gates since the request arrived (`Reckoned`): it passes them
now; while the request searches it was called or is still in the queue; at the
end it was called, or an agent of no lower rank gave the last word (`Settled`).
That the ORDER BY leaves nobody out is a counting argument
(`RankingsAreComplete`): as many entries as agents, none twice. The assumptions are
those of `AgentInvocation`; a finite set of agents makes `Rankings` sequences.

### McpRegistry

| theorem | property |
|---|---|
| `ToolsHaveOwners` | `TypeOK` |
| `OwnersListedTheirTools` | `OwnerAdvertised` |
| `ListingIsRouting` | `ListedIsRoutable` |
| `EndpointsKeepTheirTools` | `RestToolsStay` |

For any servers, names and jobs. `RegistryInv` says of each job's record, against
the committed tables, what it may have pending: a row it wrote belongs to a server
it has a listing of, to the owner the row had before, or to an endpoint it
inserts (`Pending`); a row it dropped stays dropped or is given to a server it
listed (`Dropped`); a row it loaded is still there or the job knows that it is
gone (`Loaded`); and a server it has a listing of owns only what is in the
listing, but for the rows it has yet to drop (`Listing`). No two jobs have
written one row (`Apart`). `Undisturbed` says what the others can do to a job in
terms of the locks it holds, and is shown to keep all of that; the rest is one
lemma per step.

### McpGateway

| theorem | property |
|---|---|
| `CalledThroughTheGates` | `CalledWasOpen` |
| `CalledNoMoreThanTried` | `CalledOnce` |
| `GatewayTyped` | `TypeOK` |
| `RepliesAreHonest` | `ReplyTellsTheCall` |
| `ClientsKeepTheirSessions` | `ReturnsToItsSession` |

For any servers, tools, callers, policies and requests. Every step of a request is
an `Advance` from one place to the next (`GatesAdvance`, `SessionsAdvance`,
`CallsAdvance`, `EndsAdvance`); `GateInv` says for each place which gates have
been open (`GatesPassed`) and how often the target has worked (`Counted`), and
`AdvanceKeeps` goes through the places. `SessionInv` is about the sessions:
requests of one client know of each other and hold different rows (`Together`);
the session a client used last is the committed one (`UsedIsCommitted`); a
request that no other of its client overlaps holds the committed session or has
written it, and asks a server for a session only where there was none
(`RecordHolds`). `Told` relates the reply to the work: a result after it, a
refusal before any. `GatewayInv` is all of them. The assumption that servers are
not clients keeps the two kinds of rows that a request locks apart.

### ChatPipeline

| theorem | property |
|---|---|
| `AdmittedWithAnActiveKey` | `AdmittedKeyWasActive` |
| `DeliveredAsChecked` | `DeliveredWasChecked` |
| `TypesHold` | `TypeOK` |
| `ChargesAreOwed` | `ChargedAsServed` |

For any keys, prompts, targets, rules and requests. `AdmittedInv` says that a
request past the middleware has a key that was active since it came: it read an
active row itself, whatever the cache said: the id that a revocation drops may be
cached again before that commits. `CheckedInv` follows a text: raw
while it waits for its verdict, and from then on, in the request and in the cache,
in a form that the guardrail let through: as masked, or as it was if the masked
text is empty (`DeliveredText`). `BillingInv` follows the response: that
of a target of the rule with the provider found for its name (`Honest`), or a
cached one and then of no target; a row of the ledger is the `Bill` of a request
that is over and was delivered. It also has the locks of the key rows, which the
types need.

### SecretCache

| theorem | property |
|---|---|
| `TypesHold` | `TypeOK` |
| `StaleForATtl` | `StaleAtMostTtl` |
| `TokensSentInTime` | `SentTokenIsValid` |
| `SettledIsSeenAlways` | `SettledIsSeen` |

For any secrets, callers, kinds of backend, lifetimes and failures. The
assumptions that matter are that an answer reaches the cache within `CallTime`,
that `CallTime` is at most the safety margin, and that the least TTL is not zero.
`TimeInv` bounds the expiry of what is cached or on its way there by the time it
was answered. `SeenInv` relates the stamps of the backend, the cache, the answers
in hand and `settled`: the cache and every answer on its way to it are at least
as new as what was settled, and the backend is at least as new as all of them.
`TypeInv` adds the shape of every job's record.

### UserIdentity

| theorem | property |
|---|---|
| `UsersAreDistinct` | `TypeOK` |
| `RolesAreDecided` | `RoleStands` |
| `LoginsSucceedAlone` | `LoneLoginSucceeds` |
| `PeopleKeepTheirUser` | `KeepsItsUser` |

For any providers, tokens, configurations and requests. Uniqueness of committed
rows is not inductive by itself: `UserInv` adds that two uncommitted writes hold
different rows and keys (`Uncontested`), that a written row has no key of another
committed one (`Unique`), and what a request knows at each place (`RequestOK`),
above all that only a change may have written a role other than the row's. A write
waits until `Free` and is refused if it `Clashes`; `WriteKeeps` and `CommitKeeps`
are the two steps that need all of it. `LoginInv` says what a login may rely on
until somebody else writes (`AloneOK`): that its searches found nothing is still
true, or the row it found is as it loaded it. With `Homes` (the row an identity
got is the row that has it) that gives both properties of logins; that the row a
login ends with has the presented identity in both columns needs that nobody
wrote between its load and its flush (`Linked`).

### What the proofs said about the models

`UpdateServer` and `UpdateEndpoint` of `McpRegistry` waited for a row in terms of
"every job but this one", of which there is none when there is one job: the
invariant held in the run, with its two jobs, and could not be proved for one. They
wait for every job that has written the row now. That a sweep is not atomic
when tasks fall due came out of the refinement. The proofs also brought out what
the models had taken for granted about their constants: requests are finitely
many (the bound on submissions counts them), and a placeholder such as `None`,
`NoReply` or `NoContent` is none of the values it stands beside. In the code these
are `None` and absent rows. They are named assumptions of the modules.

### What stays with TLC

The liveness properties, `LateTaskIsFlagged` and the `RequestsEnd` of three
modules: the prover here has neither fairness nor ENABLED. And the claims that the
runs `stuck` and `pinned` refute.

The module of operators `IdentityClaims` has no theorem of its own; what it says
of a token is used through `UserIdentity`.

## 5. Plan

1. Done: `AgentStatus`, `AgentLifecycle`, `AgentApproval`, `AgentApprovalTx`.
2. Done: `AccessPolicy`, `AgentInvocation`.
3. Done: `McpRegistry`, `McpGateway`.
4. Done: `SecretCache`, `ChatPipeline`.
5. Done: `IdentityClaims`, `UserIdentity`.
6. Done: proofs of every invariant, action property and refinement.
7. Next proofs: that what `MoveAgent` of `AgentInvocation` does to an agent is a
   step of `AgentLifecycle`; the laws of `AccessPolicy` (a policy list only ever
   narrows access) as lemmas; the safety half of `waits`: no two requests wait for
   each other's rows.
8. Next models: the rate limiter's windows with a clock, and a composition of
   `McpRegistry` with `McpGateway` over one tool table.

## 6. Not modelled

The console, migrations, presentation of responses, logging, token
cryptography, the wire formats of model providers and secret backends, the
schemas of REST tools and the requests made from them, and the single-statement
administrative endpoints: there is no state or order in them for a property to
be about. Budgets are stored and shown, and nothing enforces them. The health of
agents is written by its loop and read by nobody. The rate limiter is the choice
to refuse: it counts in one atomic script, and lets twice its limit through around
a window boundary by design. Litellm's retries and its choice among targets are
its own. Evidence links, comments and assignments of approval tasks decide
nothing.

A response is cached under the model and the messages, without the project or
user (`chat.py:100`); `ChatPipeline` has it so. A revocation answers before it
commits, since the session of a request ends after the response. Two credentials
of one provider, read one after the other, may be of two rotations
(`model_registry.py:37`); `SecretCache` has such a pair in a tool call. The cache
key of a secret takes no tenant and the tenant `default` for one.
`SecretService.delete_secret` has no caller in the application.
