--------------------------- MODULE MCUserIdentity ---------------------------
(***************************************************************************)
(* Instances of UserIdentity for TLC.                                      *)
(***************************************************************************)
EXTENDS UserIdentityProps, TLC

CONSTANTS i1, i2, s1, s2, ann, bob

Bare ==
  [sub |-> Missing, oid |-> Missing, email |-> NoEmail, preferred_username |-> NoEmail,
   realm_roles |-> {}, client_roles |-> {}, roles |-> Missing, groups |-> {}, namespaced |-> {}]

FromKeycloak(email, client) ==
  [issuer |-> i1, claims |-> [Bare EXCEPT !.sub = s1, !.email = email,
                                          !.realm_roles = {"developer"}, !.client_roles = client]]

FromEntra(oid, name) ==
  [issuer |-> i2, claims |-> [Bare EXCEPT !.sub = s2, !.oid = oid, !.preferred_username = name]]

\* One string of a subject, from two issuers, under two addresses and none, and
\* another subject under one of them.
MCToken ==
  {FromKeycloak(ann, {"viewer"}), FromKeycloak(bob, {}), FromEntra(Missing, ann), FromEntra(s1, NoEmail)}

MCUsername == [e \in Email |-> e]

Symmetry == Permutations(Request)

=============================================================================
