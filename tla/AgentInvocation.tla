-------------------------- MODULE AgentInvocation --------------------------
(***************************************************************************)
(* The governed invocation path (api/v1/agent_invocations.py and           *)
(* services/agent_gateway/invocation_service.py): a caller asks for a      *)
(* capability, the gateway looks its idempotency key up, admits it, tries  *)
(* the active agents in priority order through the visibility and policy   *)
(* gates, and answers with the first definitive outcome.                   *)
(*                                                                         *)
(* One capability.  Every database read and every remote call of a request *)
(* is a step of its own; between them other requests run and               *)
(* administrators change agents, enablements and policies.  A request that *)
(* dies loses everything but what it already did elsewhere.                *)
(***************************************************************************)
EXTENDS Integers, FiniteSets, Sequences, AgentStatus, AccessPolicy

CONSTANTS
  Agent,         \* the agents registered for the capability
  Priority,      \* Agent -> Nat, lower is tried first (Agent.priority)
  Private,       \* the agents of private visibility
  Owner,         \* Agent -> the owning project, or NoProject
  NeedsSecret,   \* the agents whose auth_config names a credential
  Project, NoProject,
  Caller,        \* API keys and human users
  KeyCaller,     \* the API keys among them
  Scoped,        \* the API keys with the scope agent:invoke
  ProjectOf,     \* Caller -> the key's project; NoProject for a human
  RolesOf,       \* Caller -> the roles of the mapped identity
  ProviderOf,    \* Caller -> its identity provider
  NoProvider,
  Policy,        \* the policies, without project, that may be active
  NoTool,        \* the tool_name an agent invocation does not pass
  IdempotencyKey, NoKey,
  Request,       \* the requests that may arrive, each of them once
  Ask,           \* Request -> who asks, under which idempotency key
  NoReply,       \* no response yet
  MaxArrival,    \* bound: how many of the requests arrive in a behaviour
  MaxChange      \* bound: administrative changes in a behaviour

ASSUME CallerAssumption ==
  /\ Scoped \subseteq KeyCaller /\ KeyCaller \subseteq Caller
  /\ ProjectOf \in [Caller -> Project \cup {NoProject}]
  /\ NoProject \notin Project /\ NoKey \notin IdempotencyKey
  /\ Ask \in [Request -> [caller : Caller, key : IdempotencyKey \cup {NoKey}]]

ASSUME AgentAssumption ==
  /\ IsFiniteSet(Agent) /\ Priority \in [Agent -> Nat]
  /\ Private \subseteq Agent /\ NeedsSecret \subseteq Agent
  /\ Owner \in [Agent -> Project \cup {NoProject}]

ASSUME BoundAssumption == MaxArrival \in Nat /\ MaxChange \in Nat

VARIABLES
  status,        \* Agent.status
  enabled,       \* the agent_project_enablements rows, pairs of agent and project
  policies,      \* the active access policies
  changes,       \* how many administrative changes were made
  cache,         \* <<caller, key>> -> the stored response, or NoReply
  executed,      \* <<request, agent>>: the agent did the work
  rows,          \* the requests with an agent_invocations row
  pc,            \* where a request is
  candidates,    \* the candidates a request has not dealt with, best first
  calls,         \* the calls a request made so far, with their answers
  reply,         \* the response it computed, or NoReply
  before,        \* history: the requests answered when it arrived
  window,        \* history: the gates each agent passed while it was in progress
  disturbed      \* history: the cache slots that expired or were unavailable

admin == <<status, enabled, policies, changes>>
work == <<executed, rows, candidates, calls>>
vars == <<admin, cache, work, pc, reply, before, window, disturbed>>

Registry == INSTANCE AgentLifecycle

Slot == Caller \X IdempotencyKey

\* How a call ends: with a result, with a rejection (a 4xx, or an error inside
\* an A2A response), with a 5xx, or with a transport error or timeout.
Definitive == {"success", "rejected"}
Retryable == {"unavailable", "unreachable"}

Reply == [id : Request, decision : {"allowed", "denied", "no_active_agent"},
          agents : {{}} \cup {{a} : a \in Agent}, success : BOOLEAN]

ASSUME ReplyAssumption == NoReply \notin Reply

\* An AgentInvocationResult; `agents` holds the agent it names, if it names one.
Result(r, decision, agents, success) ==
  [id |-> r, decision |-> decision, agents |-> agents, success |-> success]

caller(r) == Ask[r].caller
slot(r) == <<Ask[r].caller, Ask[r].key>>
Keyed(r) == Ask[r].key # NoKey

\* The three gates: the status query, _is_reachable, and the policy engine
\* (for an API key, with no roles and no provider).
Active == {a \in Agent : status[a] = "active"}

Reachable(c) ==
  {a \in Agent : \/ a \notin Private
                 \/ ProjectOf[c] # NoProject /\ Owner[a] = ProjectOf[c]
                 \/ <<a, ProjectOf[c]>> \in enabled}

Roles(c) == IF c \in KeyCaller THEN {} ELSE RolesOf[c]
Provider(c) == IF c \in KeyCaller THEN NoProvider ELSE ProviderOf[c]

Permitted(c) ==
  {a \in Agent : Evaluate(policies, Roles(c), Provider(c), NoTool, a)}

\* The orders ORDER BY priority may return the agents of S in.
Rankings(S) ==
  {s \in [1..Cardinality(S) -> S] :
     \A i, j \in DOMAIN s :
       /\ i # j => s[i] # s[j]
       /\ i < j => Priority[s[i]] <= Priority[s[j]]}

Current(r) == Head(candidates[r])
LastCall(r) == calls[r][Len(calls[r])]

Unanswered == {"lookup", "admit", "load", "reach", "permit", "call", "await"}
Answered(r) == pc[r] \in {"logging", "done", "unlogged"}
Ended(r) == pc[r] \in {"done", "unlogged", "refused", "failed", "dead"}

Init ==
  /\ status \in [Agent -> {"approved", "active"}]
  /\ enabled \in SUBSET (Private \X Project)
  /\ policies \in SUBSET Policy
  /\ changes = 0
  /\ cache = [s \in Slot |-> NoReply]
  /\ executed = {} /\ rows = {} /\ disturbed = {}
  /\ pc = [r \in Request |-> "idle"]
  /\ candidates = [r \in Request |-> <<>>]
  /\ calls = [r \in Request |-> <<>>]
  /\ reply = [r \in Request |-> NoReply]
  /\ before = [r \in Request |-> {}]
  /\ window = [r \in Request |-> [active |-> {}, reachable |-> {}, permitted |-> {}, open |-> Agent]]

-----------------------------------------------------------------------------
\* The request handler.

Goto(r, from, to) == pc[r] = from /\ pc' = [pc EXCEPT ![r] = to]

\* A step that only takes the request on, and one that fixes its outcome.
Pass(r, from, to) ==
  Goto(r, from, to) /\ UNCHANGED <<admin, cache, work, reply, before, disturbed>>

Conclude(r, from, result) ==
  /\ Goto(r, from, "respond")
  /\ reply' = [reply EXCEPT ![r] = result]
  /\ UNCHANGED <<admin, cache, work, before, disturbed>>

Arrive(r) ==
  /\ Cardinality({q \in Request : pc[q] # "idle"}) < MaxArrival
  /\ Goto(r, "idle", IF Keyed(r) THEN "lookup" ELSE "admit")
  /\ before' = [before EXCEPT ![r] = {q \in Request : Answered(q)}]
  /\ UNCHANGED <<admin, cache, work, reply, disturbed>>

\* A replay answers at once: nothing is checked, called or logged.
Replay(r) ==
  /\ Goto(r, "lookup", "done")
  /\ cache[slot(r)] # NoReply
  /\ reply' = [reply EXCEPT ![r] = cache[slot(r)]]
  /\ UNCHANGED <<admin, cache, work, before, disturbed>>

Miss(r) == Pass(r, "lookup", "admit") /\ cache[slot(r)] = NoReply

\* CacheService.get answers None when Valkey is down.
MissOnOutage(r) ==
  /\ Goto(r, "lookup", "admit")
  /\ disturbed' = disturbed \cup {slot(r)}
  /\ UNCHANGED <<admin, cache, work, reply, before>>

\* Without the scope, or over the rate limit, or with its backend down.
Refuse(r) == Pass(r, "admit", "refused")

Admit(r) == Pass(r, "admit", "load") /\ (caller(r) \in KeyCaller => caller(r) \in Scoped)

LoadCandidates(r) ==
  /\ Active # {}
  /\ Goto(r, "load", "reach")
  /\ \E s \in Rankings(Active) : candidates' = [candidates EXCEPT ![r] = s]
  /\ UNCHANGED <<admin, cache, executed, rows, calls, reply, before, disturbed>>

NoActiveAgent(r) == Active = {} /\ Conclude(r, "load", Result(r, "no_active_agent", {}, FALSE))

\* Fault: visibility is left to the policies.
PassReachUngated(r) == Pass(r, "reach", "permit") /\ candidates[r] # <<>>

PassReach(r) ==
  /\ Pass(r, "reach", "permit")
  /\ candidates[r] # <<>> /\ Current(r) \in Reachable(caller(r))

PassPermit(r) == Pass(r, "permit", "call") /\ Current(r) \in Permitted(caller(r))

\* A gate does not let the current candidate through.
Refused(r) ==
  \/ pc[r] = "reach" /\ candidates[r] # <<>> /\ Current(r) \notin Reachable(caller(r))
  \/ pc[r] = "permit" /\ Current(r) \notin Permitted(caller(r))

\* Fault: a refused candidate stays the next one.
SkipNone(r) ==
  /\ Refused(r)
  /\ pc' = [pc EXCEPT ![r] = "reach"]
  /\ UNCHANGED <<admin, cache, work, reply, before, disturbed>>

\* Fault: a refused candidate ends the search (break for continue).
SkipAll(r) ==
  /\ Refused(r)
  /\ candidates' = [candidates EXCEPT ![r] = <<>>]
  /\ pc' = [pc EXCEPT ![r] = "reach"]
  /\ UNCHANGED <<admin, cache, executed, rows, calls, reply, before, disturbed>>

NextCandidate(r) == candidates' = [candidates EXCEPT ![r] = Tail(@)]

Skip(r) ==
  /\ Refused(r)
  /\ NextCandidate(r)
  /\ pc' = [pc EXCEPT ![r] = "reach"]
  /\ UNCHANGED <<admin, cache, executed, rows, calls, reply, before, disturbed>>

Send(r) ==
  /\ Goto(r, "call", "await")
  /\ calls' = [calls EXCEPT ![r] = Append(@, [agent |-> Current(r), answer |-> "awaited"])]
  /\ UNCHANGED <<admin, cache, executed, rows, candidates, reply, before, disturbed>>

\* The secret backend raises a ProviderError, which nothing in the handler
\* catches: the request fails, also when an earlier candidate was called.
SecretFails(r) == Pass(r, "call", "failed") /\ Current(r) \in NeedsSecret

\* The agent does what it was asked to, perhaps after the gateway gave up.
AgentWorks(r, a) ==
  /\ \E i \in DOMAIN calls[r] :
       calls[r][i].agent = a /\ calls[r][i].answer \in Retryable \cup {"awaited"}
  /\ <<r, a>> \notin executed
  /\ executed' = executed \cup {<<r, a>>}
  /\ UNCHANGED <<admin, cache, rows, candidates, calls, pc, reply, before, disturbed>>

NoteAnswer(r, answer) ==
  /\ answer = "success" => <<r, Current(r)>> \in executed
  /\ calls' = [calls EXCEPT ![r][Len(calls[r])].answer = answer]
  /\ UNCHANGED <<admin, cache, executed, rows, before, disturbed>>

AnswerRetryable(r, answer) ==
  /\ Goto(r, "await", "reach")
  /\ NoteAnswer(r, answer)
  /\ NextCandidate(r)
  /\ UNCHANGED reply

\* Fault: a rejection is stored under the key as well.
AnswerDefinitiveStored(r, answer) ==
  /\ Goto(r, "await", IF Keyed(r) THEN "store" ELSE "respond")
  /\ NoteAnswer(r, answer)
  /\ reply' = [reply EXCEPT ![r] = Result(r, "allowed", {Current(r)}, answer = "success")]
  /\ UNCHANGED candidates

\* Fault: a rejection falls through as well.
AnswerDefinitiveRetried(r, answer) ==
  \/ answer = "success" /\ AnswerDefinitiveStored(r, answer)
  \/ answer = "rejected" /\ AnswerRetryable(r, answer)

\* Only a success of a keyed request goes to the idempotency cache.
AnswerDefinitive(r, answer) ==
  /\ Goto(r, "await", IF Keyed(r) /\ answer = "success" THEN "store" ELSE "respond")
  /\ NoteAnswer(r, answer)
  /\ reply' = [reply EXCEPT ![r] = Result(r, "allowed", {Current(r)}, answer = "success")]
  /\ UNCHANGED candidates

\* Fault: the last failure names every agent that failed.
FinalResultNamesAll(r) ==
  IF calls[r] = <<>> THEN Result(r, "denied", {}, FALSE)
  ELSE Result(r, "allowed", {calls[r][i].agent : i \in DOMAIN calls[r]}, FALSE)

\* Fault: running out of candidates is a denial, whatever was called.
FinalResultDenies(r) == Result(r, "denied", {}, FALSE)

\* With nobody left to ask, the last failure is the answer, or a denial.
FinalResult(r) ==
  IF calls[r] = <<>> THEN Result(r, "denied", {}, FALSE)
  ELSE Result(r, "allowed", {LastCall(r).agent}, FALSE)

\* Fault: only a search that called nobody is ever concluded.
ExhaustedUncalled(r) ==
  candidates[r] = <<>> /\ calls[r] = <<>> /\ Conclude(r, "reach", FinalResult(r))

Exhausted(r) == candidates[r] = <<>> /\ Conclude(r, "reach", FinalResult(r))

Store(r) ==
  /\ Goto(r, "store", "respond")
  /\ cache' = [cache EXCEPT ![slot(r)] = reply[r]]
  /\ UNCHANGED <<admin, work, reply, before, disturbed>>

\* CacheService.set swallows an outage.
StoreOnOutage(r) ==
  /\ Goto(r, "store", "respond")
  /\ disturbed' = disturbed \cup {slot(r)}
  /\ UNCHANGED <<admin, cache, work, reply, before>>

\* Fault: the response goes out before it is stored.
RespondUnstored(r) == Pass(r, "respond", "logging") \/ Pass(r, "store", "logging")

Respond(r) == Pass(r, "respond", "logging")

\* record_agent_invocation runs in the background, after the response.
Log(r) ==
  /\ Goto(r, "logging", "done")
  /\ rows' = rows \cup {r}
  /\ UNCHANGED <<admin, cache, executed, candidates, calls, reply, before, disturbed>>

\* The worker process dies under the request.
Die(r) ==
  /\ pc[r] # "idle" /\ ~Ended(r)
  /\ pc' = [pc EXCEPT ![r] = IF @ = "logging" THEN "unlogged" ELSE "dead"]
  /\ UNCHANGED <<admin, cache, work, reply, before, disturbed>>

-----------------------------------------------------------------------------
\* Administrators, and time.

Change ==
  /\ changes < MaxChange
  /\ changes' = changes + 1
  /\ UNCHANGED <<cache, work, pc, reply, before, disturbed>>

MoveAgent(a) ==
  /\ Change /\ (Registry!Move(a) \/ Registry!RejectUnchecked(a))
  /\ UNCHANGED <<enabled, policies>>

\* A published agent needs no row and gets none.
Enable(a, p) ==
  /\ Change /\ a \in Private /\ <<a, p>> \notin enabled
  /\ enabled' = enabled \cup {<<a, p>>}
  /\ UNCHANGED <<status, policies>>

Disable(a, p) ==
  /\ Change /\ <<a, p>> \in enabled
  /\ enabled' = enabled \ {<<a, p>>}
  /\ UNCHANGED <<status, policies>>

\* No rule keeps a policy from being changed, switched off or deleted.
ChangePolicies ==
  /\ Change
  /\ \/ \E p \in Policy \ policies : policies' = policies \cup {p}
     \/ \E p \in policies : policies' = policies \ {p}
     \/ \E p \in policies, q \in Policy \ policies : policies' = (policies \ {p}) \cup {q}
  /\ UNCHANGED <<status, enabled>>

Expire(s) ==
  /\ cache[s] # NoReply
  /\ cache' = [cache EXCEPT ![s] = NoReply]
  /\ disturbed' = disturbed \cup {s}
  /\ UNCHANGED <<admin, work, pc, reply, before>>

-----------------------------------------------------------------------------
\* History: which gates each agent passed at some moment of a request, and
\* which agents passed all three at every moment until its outcome was fixed.
Observe ==
  window' = [r \in Request |->
    IF pc'[r] \in Unanswered
    THEN [active    |-> window[r].active \cup Active',
          reachable |-> window[r].reachable \cup Reachable(caller(r))',
          permitted |-> window[r].permitted \cup Permitted(caller(r))',
          open      |-> window[r].open \cap (Active \cap Reachable(caller(r)) \cap Permitted(caller(r)))']
    ELSE window[r]]

\* What the event loop keeps doing for a request.
Advance(r) ==
  \/ Replay(r) \/ Miss(r) \/ MissOnOutage(r) \/ Refuse(r) \/ Admit(r)
  \/ LoadCandidates(r) \/ NoActiveAgent(r)
  \/ PassReach(r) \/ PassPermit(r) \/ Skip(r) \/ Send(r) \/ SecretFails(r)
  \/ \E answer \in Definitive : AnswerDefinitive(r, answer)
  \/ \E answer \in Retryable : AnswerRetryable(r, answer)
  \/ Exhausted(r) \/ Store(r) \/ StoreOnOutage(r) \/ Respond(r) \/ Log(r)

Administer ==
  \/ \E a \in Agent : MoveAgent(a)
  \/ \E a \in Agent, p \in Project : Enable(a, p) \/ Disable(a, p)
  \/ ChangePolicies

Next ==
  /\ \/ \E r \in Request : Arrive(r) \/ Advance(r) \/ Die(r)
     \/ \E r \in Request, a \in Agent : AgentWorks(r, a)
     \/ Administer
     \/ \E s \in Slot : Expire(s)
  /\ Observe

Spec == Init /\ [][Next]_vars

\* The event loop runs some request on that can go on, and a call ends by its
\* answer or by the client's timeout; administrators and agents owe nothing.
\* Each Advance changes the place of a request or its candidates.
FairSpec == Spec /\ WF_<<pc, candidates>>(\E r \in Request : Advance(r))

=============================================================================
