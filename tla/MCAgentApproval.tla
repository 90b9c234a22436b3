--------------------------- MODULE MCAgentApproval ---------------------------
(***************************************************************************)
(* Instances of AgentApproval for TLC.  The risk class and the             *)
(* completeness of a card already tell cards apart: one content will do.   *)
(***************************************************************************)
EXTENDS AgentApprovalProps

=============================================================================
