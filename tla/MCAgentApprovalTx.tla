-------------------------- MODULE MCAgentApprovalTx --------------------------
EXTENDS AgentApprovalTxProps, TLC

Symmetry == Permutations(Request) \cup Permutations(Content)

=============================================================================
