-------------------------- MODULE McpRegistryProps --------------------------
(***************************************************************************)
(* What the registry keeps, however its jobs overlap, and what it does not.*)
(***************************************************************************)
EXTENDS McpRegistry

\* Types, and the references: every tool has its server or its endpoint, also
\* when the server is deleted while a sync that found tools is still open.
TypeOK ==
  /\ tools \in [Name -> Tool \cup {Absent}]
  /\ endpoints \subseteq Name
  /\ servers \in [Server -> ServerRow \cup {Absent}]
  /\ service \in {"active", "inactive"}
  /\ answers \in [Server -> Answer] /\ offers \in [Server -> SUBSET Name]
  /\ changes \in 0..MaxChange
  /\ advertised \in [Server -> SUBSET Name]
  /\ \A n \in Name : tools[n] # Absent => tools[n].owner \in Present \cup {Rest}
  /\ OwnedBy(tools, Rest) \subseteq endpoints

\* A tool belongs to a server only if the server listed it in the last sync
\* that committed.  Two syncs may overlap, each with a listing of its own; it is
\* the server's row, locked by the heartbeat before tools/list is called, that
\* keeps the older listing from being applied after the newer.
OwnerAdvertised ==
  \A s \in Server : OwnedBy(tools, s) \subseteq advertised[s]

\* The tool of a REST endpoint is never taken over or removed by a sync, also if
\* it was registered between the sync's SELECT and its write.
RestToolsStay ==
  [][OwnedBy(tools, Rest) \subseteq OwnedBy(tools', Rest)]_vars

\* RoutingEngine.resolve_tool: is a call of n dispatched?
Routable(n) ==
  /\ tools[n] # Absent /\ tools[n].enabled
  /\ IF tools[n].owner = Rest THEN service = "active"
     ELSE /\ servers[tools[n].owner].status = "active"
          /\ servers[tools[n].owner].health = "healthy"

\* The listing a caller gets, an outer join in SQL, shows exactly the tools that
\* the routing engine, which walks from object to object, dispatches to.
ListedIsRoutable == Available = {n \in Name : Routable(n)}

=============================================================================
