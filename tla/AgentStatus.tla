---------------------------- MODULE AgentStatus ----------------------------
(***************************************************************************)
(* The lifecycle table of a registered agent                               *)
(* (services/agent_gateway/lifecycle.py): which status may follow which.   *)
(* `submitted`, `validating` and `published` exist in the enum and are     *)
(* assigned by no code path, so they are not statuses here.                *)
(***************************************************************************)

Status == {"draft", "under_review", "approved", "active", "suspended",
           "deprecated", "retired", "rejected"}

AllowedTransitions ==
  [draft        |-> {"under_review"},
   rejected     |-> {"under_review"},
   under_review |-> {"approved", "rejected"},
   approved     |-> {"active"},
   active       |-> {"suspended", "deprecated"},
   suspended    |-> {"active", "retired"},
   deprecated   |-> {"retired"}]

\* require_transition raises unless this holds; a status the table does not
\* list (retired) has no successors.
CanTransition(current, target) ==
  current \in DOMAIN AllowedTransitions /\ target \in AllowedTransitions[current]

\* The statuses in which AgentRegistryService.update accepts an edit.
Editable == {"draft", "rejected"}

\* The statuses an agent only reaches by being approved.
Released == {"approved", "active", "suspended", "deprecated", "retired"}

=============================================================================
