\* Two of seven requests, with one change from outside, against a stateful and a
\* stateless server and two REST endpoints.
SPECIFICATION FairSpec
CONSTANTS
  s1 = s1
  s2 = s2
  m1 = m1
  m2 = m2
  get = get
  post = post
  key = key
  person = person
  dev = dev
  idp = idp
  c1 = c1
  c2 = c2
  r1 = r1
  r2 = r2
  r3 = r3
  r4 = r4
  r5 = r5
  r6 = r6
  r7 = r7
  viewer = viewer
  Server = {s1, s2}
  Stateful = {s1}
  McpTool = {m1, m2}
  Host <- MCHost
  RestTool = {get, post}
  GetTool = {get}
  MaxAttempts = 2
  Caller = {key, person, viewer}
  KeyCaller = {key}
  CanRead = {key, person, viewer}
  CanExecute = {key, person}
  RolesOf <- MCRoles
  ProviderOf <- MCProvider
  Policy <- MCPolicy
  NoAgent = NoAgent
  Client = {c1, c2}
  Request = {r1, r2, r3, r4, r5, r6, r7}
  Ask <- MCAsk
  NoSession = NoSession
  NoReply = NoReply
  NoTool = NoTool
  MaxArrival = 2
  MaxChange = 1
CHECK_DEADLOCK FALSE
INVARIANTS
  TypeOK
  CalledWasOpen
  CalledOnce
  ReplyTellsTheCall
  ReturnsToItsSession
PROPERTIES
  RequestsEnd
