--------------------------- MODULE MCMcpRegistry ---------------------------
EXTENDS McpRegistryProps, TLC

Symmetry == Permutations(Job) \cup Permutations(Server)

=============================================================================
