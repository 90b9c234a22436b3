\* Two callers of every kind over one secret, three kinds of backend.
SPECIFICATION Spec
CONSTANTS
  s1 = s1
  j1 = j1
  j2 = j2
  Name = {s1}
  ClientRefs <- SameRefs
  Job = {j1, j2}
  Kind = {"get", "rotate", "set", "delete", "call"}
  Backend = {"upsert", "put_or_create", "versions"}
  Ttl = 2
  CallTime = 1
  ExpiresIn = {1, 3}
  Margin = 1
  Least = 1
  MaxStamp = 2
  MaxNow = 3
  MaxStart = 3
SYMMETRY Symmetry
CHECK_DEADLOCK FALSE
INVARIANTS
  TypeOK
  StaleAtMostTtl
  SettledIsSeen
  SentTokenIsValid
