\* Two of three requests, of two keys, for one prompt, while keys come and go.
SPECIFICATION Spec
CONSTANTS
  k1 = k1  k2 = k2  pr1 = pr1  pr2 = pr2  ann = ann  hello = hello
  t1 = t1  t2 = t2  t3 = t3  pa = pa  pb = pb  big = big  small = small
  r1 = r1  r2 = r2  r3 = r3
  Key = {k1, k2}
  ProjectOf <- MCProjectOf
  Project = {pr1, pr2}
  User = {ann}
  Prompt = {hello}
  Target = {t1, t2, t3}
  ProviderOf <- MCProviderOf
  ModelOf <- MCModelOf
  OtherName = OtherName
  Rule <- MCRule
  Request = {r1, r2, r3}
  Ask <- MCAsk
  Every = Every
  None = None
  Passing = {k1}
  Standing <- MCStanding
  MaxArrival = 2
CHECK_DEADLOCK FALSE
INVARIANTS
  TypeOK
  AdmittedKeyWasActive
  DeliveredWasChecked
  ChargedAsServed
