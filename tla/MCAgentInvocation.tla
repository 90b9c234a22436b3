------------------------- MODULE MCAgentInvocation -------------------------
(***************************************************************************)
(* Instances of AgentInvocation for TLC.                                   *)
(***************************************************************************)
EXTENDS AgentInvocationProps

CONSTANTS a1, a2, a3,        \* agents
          key1, key2, human, \* callers: two API keys and a person
          home, away,        \* projects
          dev,               \* a role
          idp,               \* an identity provider
          tool,              \* an MCP tool
          retry,             \* an idempotency key
          r1, r2, r3         \* requests

\* a1 and a2 are tied; a1 is private and owned by the project `away`.
MCPriority == [a \in Agent |-> IF a = a3 THEN 2 ELSE 1]
MCOwner == [a \in Agent |-> IF a = a1 THEN away ELSE NoProject]

MCProjectOf == [c \in Caller |->
                  CASE c = key1 -> home [] c = key2 -> away [] OTHER -> NoProject]
MCRolesOf == [c \in Caller |-> IF c = human THEN {dev} ELSE {}]
MCProviderOf == [c \in Caller |-> IF c = human THEN idp ELSE NoProvider]

\* For people of the role, and for one agent.
ForDevs == [providers |-> {idp}, roles |-> {dev}, tools |-> {}, agents |-> {}]
ForA2 == [providers |-> {}, roles |-> {}, tools |-> {}, agents |-> {a2}]

TwoPolicies == {ForDevs, ForA2}

By(c, k) == [caller |-> c, key |-> k]

\* A request of a key, of a person, or of a key of the project that owns a1.
ThreeAskers ==
  [r \in Request |-> CASE r = r1 -> By(key1, NoKey)
                      [] r = r2 -> By(human, NoKey)
                      [] OTHER  -> By(key2, NoKey)]

\* Attempts of one call, and a request of another key under the same string.
RetryAndOther == [r \in Request |-> By(IF r = r3 THEN key2 ELSE key1, retry)]

=============================================================================
