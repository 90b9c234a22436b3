--------------------------- MODULE IdentityClaims ---------------------------
(***************************************************************************)
(* What the identity providers make of the claims of a token they accept   *)
(* (app/identity): who it is, under which address, with which roles.       *)
(* Groups and attributes decide nothing in this program.                   *)
(***************************************************************************)
EXTENDS Naturals

CONSTANTS
  Subject, Email, NoEmail,
  Missing  \* in place of a claim the token does not have

IdentityProviderName == {"keycloak", "entra", "auth0", "okta", "aws_identity", "google", "local"}

\* UserRole, in its order.
Roles == <<"admin", "team_lead", "developer", "viewer">>
Role == {Roles[i] : i \in DOMAIN Roles}

\* The claims some provider reads; those that are lists, as sets.
Claims ==
  [sub : Subject \cup {Missing}, oid : Subject \cup {Missing},
   email : Email \cup {NoEmail}, preferred_username : Email \cup {NoEmail},
   realm_roles : SUBSET Role, client_roles : SUBSET Role, roles : {Missing} \cup SUBSET Role,
   groups : SUBSET Role, namespaced : SUBSET Role]

\* No claim means no role.
Identified(subject, email, roles) ==
  [subject |-> subject, email |-> email, roles |-> IF roles = Missing THEN {} ELSE roles]

KeycloakIdentity(claims) ==
  Identified(claims.sub, claims.email, claims.realm_roles \cup claims.client_roles)

\* oid is one per user, sub one per user and application.
EntraIdentity(claims) ==
  Identified(IF claims.oid = Missing THEN claims.sub ELSE claims.oid,
             IF claims.preferred_username = NoEmail THEN claims.email ELSE claims.preferred_username,
             claims.roles)

Auth0Identity(claims) == Identified(claims.sub, claims.email, claims.namespaced)

\* The groups stand in for a missing claim of roles.
OktaIdentity(claims) ==
  Identified(claims.sub, claims.email, IF claims.roles = Missing THEN claims.groups ELSE claims.roles)

AWSIdentity(claims) == Identified(claims.sub, claims.email, claims.roles)

GoogleIdentity(claims) == Identified(claims.sub, claims.email, {})

\* The tokens issued here (issue_local_jwt) always have a sub.
LocalIdentity(claims) == Identified(claims.sub, claims.email, claims.roles)

IdentityOf(provider, claims) ==
  CASE provider = "keycloak" -> KeycloakIdentity(claims)
    [] provider = "entra" -> EntraIdentity(claims)
    [] provider = "auth0" -> Auth0Identity(claims)
    [] provider = "okta" -> OktaIdentity(claims)
    [] provider = "aws_identity" -> AWSIdentity(claims)
    [] provider = "google" -> GoogleIdentity(claims)
    [] provider = "local" -> LocalIdentity(claims)

=============================================================================
