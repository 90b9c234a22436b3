--------------------------- MODULE AgentLifecycle ---------------------------
(***************************************************************************)
(* The abstract specification of what the registry and the approval        *)
(* workflow together promise about Agent.status: agents appear as drafts   *)
(* and every later step of one agent's status follows the lifecycle table. *)
(*                                                                         *)
(* DocumentedSpec is the table and nothing else.  Spec also allows the one *)
(* status change the code makes without consulting the table: a rejected   *)
(* review task sets `rejected` from whatever status the agent has          *)
(* (approval_service.py, decide).                                          *)
(***************************************************************************)
EXTENDS AgentStatus

CONSTANT Agent       \* the agent keys that may ever be registered

VARIABLE status      \* Agent -> Status, or "unregistered": no row yet

Init == status = [a \in Agent |-> "unregistered"]

Register(a) ==
  /\ status[a] = "unregistered"
  /\ status' = [status EXCEPT ![a] = "draft"]

Move(a) ==
  \E target \in Status :
    /\ CanTransition(status[a], target)
    /\ status' = [status EXCEPT ![a] = target]

\* Review tasks exist only once an agent has been submitted.
RejectUnchecked(a) ==
  /\ status[a] \notin {"unregistered", "draft"}
  /\ status' = [status EXCEPT ![a] = "rejected"]

DocumentedNext == \E a \in Agent : Register(a) \/ Move(a)

Next == \E a \in Agent : Register(a) \/ Move(a) \/ RejectUnchecked(a)

DocumentedSpec == Init /\ [][DocumentedNext]_status

Spec == Init /\ [][Next]_status

=============================================================================
