---------------------------- MODULE AccessPolicy ----------------------------
(***************************************************************************)
(* The role / identity-provider gate (services/policy_engine.py), shared   *)
(* by agent invocations and MCP tool calls.  A policy is a record of four  *)
(* sets; an empty set does not restrict its dimension.                     *)
(***************************************************************************)

\* Does `allowed` let x through?
Permits(allowed, x) == allowed = {} \/ x \in allowed

\* PolicyEngine._matches, for a caller with these roles and this provider
\* asking for this tool or agent.
Matches(policy, roles, provider, tool, agent) ==
  /\ Permits(policy.providers, provider)
  /\ policy.roles = {} \/ roles \cap policy.roles # {}
  /\ Permits(policy.tools, tool)
  /\ Permits(policy.agents, agent)

\* PolicyEngine.evaluate over the active policies it loaded: none at all is
\* unrestricted, otherwise one of them must match.
Evaluate(policies, roles, provider, tool, agent) ==
  policies = {} \/ \E p \in policies : Matches(p, roles, provider, tool, agent)

=============================================================================
