--------------------------- MODULE AgentApproval ---------------------------
(***************************************************************************)
(* The agent registry and the approval workflow, one HTTP request at a     *)
(* time: AgentRegistryService, ApprovalService, the handlers of            *)
(* api/v1/agents.py that call them, and the SLA sweep of main.py.          *)
(*                                                                         *)
(* A request is one database transaction (db/session.py commits when the   *)
(* handler returns and rolls back when it raises), so a handler that       *)
(* raises is no step at all: its guard is the conjunction of the checks    *)
(* it passes.  AgentApprovalTx takes the transactions apart.               *)
(***************************************************************************)
EXTENDS AgentStatus, Naturals

CONSTANTS
  Agent,             \* agent keys
  Content,           \* what a card says, as far as a reviewer can tell two apart
  ConfiguredStages,  \* AGENT_APPROVAL_STAGES, as a set of stages
  SlaHours,          \* AGENT_APPROVAL_SLA_HOURS; 0 gives tasks no due date
  NoCard,            \* the card of an agent or of a submission not there yet
  MaxRound           \* bound: submissions of one agent

ASSUME StagesAssumption == ConfiguredStages # {}
ASSUME BoundsAssumption == MaxRound \in Nat \ {0} /\ SlaHours \in Nat

VARIABLES
  status,     \* Agent -> Status, or "unregistered": no row yet
  card,       \* Agent -> Card, the live row
  round,      \* Agent -> Nat, current_submission_round
  decision,   \* Task -> its decision, or "absent": no row yet
  lapsed,     \* Agent -> Nat, the submissions whose due_at lies in the past
  escalated,  \* the tasks with escalated_at set
  submitted   \* history: Agent -> round -> the card that round put to review

vars == <<status, card, round, decision, lapsed, escalated, submitted>>

----------------------------------------------------------------------------

Stage == ConfiguredStages \cup {"production"}

Round == 1..MaxRound

\* complete: the card has a name, a capability and an endpoint_url.
Card == [content : Content, risk : {"low", "high"}, complete : BOOLEAN]

ASSUME NoCardAssumption == NoCard \notin Card

Task == [agent : Agent, round : Round, stage : Stage]

Decision == {"pending", "approved", "rejected"}

\* validate_agent_card finds no problem.
ValidCard(c) == c.complete

RequiredStages(c) ==
  ConfiguredStages \cup (IF c.risk = "high" THEN {"production"} ELSE {})

\* The tasks list_by_agent returns with t's submission_round, t among them.
Siblings(t) ==
  {u \in Task : /\ u.agent = t.agent
                /\ u.round = t.round
                /\ decision[u] # "absent"}

\* Fault: a round is through once nobody has rejected it.
CompletesRoundUnopposed(t) ==
  \A u \in Siblings(t) : decision[u] # "rejected"

\* Fault: the siblings of every round count.
CompletesRoundAllRounds(t) ==
  \A u \in Task :
    (u.agent = t.agent /\ u # t) => decision[u] \in {"approved", "absent"}

\* What decide finds when t is approved: no sibling holds the round up.
CompletesRound(t) ==
  \A u \in Siblings(t) : u # t => decision[u] = "approved"

----------------------------------------------------------------------------

Init ==
  /\ status = [a \in Agent |-> "unregistered"]
  /\ card = [a \in Agent |-> NoCard]
  /\ round = [a \in Agent |-> 0]
  /\ decision = [t \in Task |-> "absent"]
  /\ lapsed = [a \in Agent |-> 0]
  /\ escalated = {}
  /\ submitted = [a \in Agent |-> [r \in Round |-> NoCard]]

\* POST /v1/agents: the key must be free.
Register(a, c) ==
  /\ status[a] = "unregistered"
  /\ status' = [status EXCEPT ![a] = "draft"]
  /\ card' = [card EXCEPT ![a] = c]
  /\ UNCHANGED <<round, decision, lapsed, escalated, submitted>>

\* Fault: editable until the agent is published.
UpdateUntilActive(a, c) ==
  /\ status[a] \in Editable \cup {"under_review", "approved"}
  /\ card' = [card EXCEPT ![a] = c]
  /\ UNCHANGED <<status, round, decision, lapsed, escalated, submitted>>

\* PATCH /v1/agents/{id}: any field, risk class included; a field can be
\* emptied, so an edit may also make the card incomplete.
Update(a, c) ==
  /\ status[a] \in Editable
  /\ card' = [card EXCEPT ![a] = c]
  /\ UNCHANGED <<status, round, decision, lapsed, escalated, submitted>>

\* Fault: current_submission_round is not incremented.
SubmitSameRound(a) ==
  /\ CanTransition(status[a], "under_review")
  /\ ValidCard(card[a])
  /\ round[a] < MaxRound
  /\ status' = [status EXCEPT ![a] = "under_review"]
  /\ decision' = [t \in Task |->
       IF /\ t.agent = a
          /\ t.round = round[a] + 1
          /\ t.stage \in RequiredStages(card[a])
       THEN "pending"
       ELSE decision[t]]
  /\ submitted' = [submitted EXCEPT ![a][round[a] + 1] = card[a]]
  /\ UNCHANGED <<card, round, lapsed, escalated>>

\* POST /v1/agents/{id}/submit.  An incomplete card raises after setting
\* `rejected`, and the rollback takes that status back: nothing happens.
Submit(a) ==
  /\ CanTransition(status[a], "under_review")
  /\ ValidCard(card[a])
  /\ round[a] < MaxRound
  /\ status' = [status EXCEPT ![a] = "under_review"]
  /\ round' = [round EXCEPT ![a] = @ + 1]
  /\ decision' = [t \in Task |->
       IF /\ t.agent = a
          /\ t.round = round[a] + 1
          /\ t.stage \in RequiredStages(card[a])
       THEN "pending"
       ELSE decision[t]]
  /\ submitted' = [submitted EXCEPT ![a][round[a] + 1] = card[a]]
  /\ UNCHANGED <<card, lapsed, escalated>>

\* POST /v1/agent-approvals/{id}/approve while a sibling is not approved.
ApproveStage(t) ==
  /\ decision[t] = "pending"
  /\ ~CompletesRound(t)
  /\ decision' = [decision EXCEPT ![t] = "approved"]
  /\ UNCHANGED <<status, card, round, lapsed, escalated, submitted>>

\* The approval that leaves every sibling approved moves the agent; when the
\* agent is not under review, require_transition raises.
ApproveLastStage(t) ==
  /\ decision[t] = "pending"
  /\ CompletesRound(t)
  /\ CanTransition(status[t.agent], "approved")
  /\ decision' = [decision EXCEPT ![t] = "approved"]
  /\ status' = [status EXCEPT ![t.agent] = "approved"]
  /\ UNCHANGED <<card, round, lapsed, escalated, submitted>>

\* Fault: the "already decided" check is missing.
RejectAgain(t) ==
  /\ decision[t] # "absent"
  /\ decision' = [decision EXCEPT ![t] = "rejected"]
  /\ status' = [status EXCEPT ![t.agent] = "rejected"]
  /\ UNCHANGED <<card, round, lapsed, escalated, submitted>>

\* POST /v1/agent-approvals/{id}/reject: no check of the agent's status, nor
\* of the round the task belongs to.
Reject(t) ==
  /\ decision[t] = "pending"
  /\ decision' = [decision EXCEPT ![t] = "rejected"]
  /\ status' = [status EXCEPT ![t.agent] = "rejected"]
  /\ UNCHANGED <<card, round, lapsed, escalated, submitted>>

\* Fault: require_transition is not called.
MoveToUnchecked(a, target) ==
  /\ status[a] # "unregistered"
  /\ status' = [status EXCEPT ![a] = target]
  /\ UNCHANGED <<card, round, decision, lapsed, escalated, submitted>>

\* The transition-checked moves of the registry.
MoveTo(a, target) ==
  /\ CanTransition(status[a], target)
  /\ status' = [status EXCEPT ![a] = target]
  /\ UNCHANGED <<card, round, decision, lapsed, escalated, submitted>>

\* The table also lets publish take a suspended agent back to active.
Publish(a) == MoveTo(a, "active") /\ ValidCard(card[a])

Suspend(a) == MoveTo(a, "suspended")

\* And lets reactivate take an approved one there, without the card check.
Reactivate(a) == MoveTo(a, "active")

Deprecate(a) == MoveTo(a, "deprecated")

Retire(a) == MoveTo(a, "retired")

\* Time passes the due date of a's next submission.  All tasks of a
\* submission share one due_at, and submissions fall due in order.
DueDatePasses(a) ==
  /\ SlaHours > 0
  /\ lapsed[a] < round[a]
  /\ lapsed' = [lapsed EXCEPT ![a] = @ + 1]
  /\ UNCHANGED <<status, card, round, decision, escalated, submitted>>

\* Fault: the submission that fell due last is left out.
OverdueLate ==
  {t \in Task : /\ decision[t] = "pending"
                /\ t.round < lapsed[t.agent]
                /\ t \notin escalated}

\* list_overdue: pending, past due, not flagged yet.
Overdue ==
  {t \in Task : /\ decision[t] = "pending"
                /\ t.round <= lapsed[t.agent]
                /\ t \notin escalated}

\* One run of the SLA sweep.
EscalateOverdue ==
  /\ Overdue # {}
  /\ escalated' = escalated \cup Overdue
  /\ UNCHANGED <<status, card, round, decision, lapsed, submitted>>

----------------------------------------------------------------------------

AgentStep(a) ==
  \/ \E c \in Card : Register(a, c) \/ Update(a, c)
  \/ Submit(a)
  \/ Publish(a) \/ Suspend(a) \/ Reactivate(a) \/ Deprecate(a) \/ Retire(a)
  \/ DueDatePasses(a)

TaskStep(t) == ApproveStage(t) \/ ApproveLastStage(t) \/ Reject(t)

Next ==
  \/ \E a \in Agent : AgentStep(a)
  \/ \E t \in Task : TaskStep(t)
  \/ EscalateOverdue

Spec == Init /\ [][Next]_vars

\* The sweep loop sleeps, runs and survives its own exceptions, forever.
\* Nothing obliges an administrator to ever send a request.
FairSpec == Spec /\ WF_vars(EscalateOverdue)

=============================================================================
