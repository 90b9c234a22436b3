\* Three logins, creations or changes, two issuers and one change of a tenant.
SPECIFICATION Spec
CONSTANTS
  i1 = i1  i2 = i2  s1 = s1  s2 = s2  ann = ann  bob = bob
  Issuer = {i1, i2}
  Provider = {"keycloak", "entra"}
  Default = "keycloak"
  DefaultIssuer = i1
  Keycloak = "keycloak"
  Subject = {s1, s2}
  Email = {ann, bob}
  NoEmail = NoEmail
  Missing = Missing
  Token <- MCToken
  Username <- MCUsername
  Given = {"developer", "viewer"}
  Request = {r1, r2, r3}
  None = None
  MaxArrival = 3
  MaxChange = 1
SYMMETRY Symmetry
CHECK_DEADLOCK FALSE
INVARIANTS
  TypeOK
  LoneLoginSucceeds
  KeepsItsUser
  RoleStands
