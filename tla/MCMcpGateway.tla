---------------------------- MODULE MCMcpGateway ----------------------------
(***************************************************************************)
(* Instances of McpGateway for TLC.                                        *)
(***************************************************************************)
EXTENDS McpGatewayProps, TLC

CONSTANTS s1, s2, m1, m2, get, post, key, person, viewer, dev, idp, c1, c2, r1, r2, r3, r4, r5, r6, r7

MCHost == [t \in McpTool |-> IF t = m1 THEN s1 ELSE s2]
MCRoles == [c \in Caller |-> IF c = person THEN {dev} ELSE {}]
MCProvider == [c \in Caller |-> idp]
ForM2 == [providers |-> {}, roles |-> {}, tools |-> {m2}, agents |-> {}]
MCPolicy == {ForM2}
Asked(method, t, who, c) == [method |-> method, tool |-> t, caller |-> who, client |-> c]

\* Two calls of a stateful server and an initialize of one client; calls of a
\* stateless server and of the endpoints; a listing.
MCAsk ==
  [r \in Request |->
     CASE r = r1 -> Asked("tools/call", m1, key, c1)
       [] r = r2 -> Asked("tools/call", m1, person, c1)
       [] r = r3 -> Asked("initialize", NoTool, key, c1)
       [] r = r4 -> Asked("tools/call", m2, person, c1)
       [] r = r5 -> Asked("tools/call", get, person, c2)
       [] r = r6 -> Asked("tools/call", post, key, c2)
       [] OTHER  -> Asked("tools/list", NoTool, viewer, c2)]

=============================================================================
