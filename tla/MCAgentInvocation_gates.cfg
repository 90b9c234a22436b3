\* One request, of the key of one project or another or of a person, over three agents.
SPECIFICATION FairSpec
CONSTANTS
  a1 = a1  a2 = a2  a3 = a3
  key1 = key1  key2 = key2  human = human
  home = home  away = away  NoProject = NoProject
  dev = dev  idp = idp  NoProvider = NoProvider
  NoReply = NoReply
  tool = tool  NoTool = NoTool
  retry = retry  NoKey = NoKey
  r1 = r1  r2 = r2  r3 = r3
  Priority <- MCPriority
  Owner <- MCOwner
  ProjectOf <- MCProjectOf
  RolesOf <- MCRolesOf
  ProviderOf <- MCProviderOf
  Caller = {key1, key2, human}
  KeyCaller = {key1, key2}
  IdempotencyKey = {retry}
  Scoped = {key1, key2}
  Project = {home, away}
  Agent = {a1, a2, a3}
  Private = {a1}
  NeedsSecret = {a3}
  Policy <- TwoPolicies
  Request = {r1, r2, r3}
  Ask <- ThreeAskers
  MaxArrival = 1
  MaxChange = 1
CHECK_DEADLOCK FALSE
INVARIANTS
  TypeOK
  CalledWasEligible
  NoneOverlooked
  FallsThroughInOrder
  ReplyTellsTheCalls
PROPERTIES
  RequestsEnd
