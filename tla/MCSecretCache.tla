---------------------------- MODULE MCSecretCache ----------------------------
(***************************************************************************)
(* Instances of SecretCache for TLC.                                       *)
(***************************************************************************)
EXTENDS SecretCacheProps, TLC

CONSTANTS s1, j1, j2

\* Both references name the same secret.
SameRefs == <<s1, s1>>

Symmetry == Permutations(Job)

=============================================================================
