------------------------- MODULE AgentApprovalProps -------------------------
(***************************************************************************)
(* What the approval workflow promises, request by request.                *)
(***************************************************************************)
EXTENDS AgentApproval

Lifecycle == INSTANCE AgentLifecycle

\* Every variable holds a value the tables can hold, a registered agent has a
\* card, a draft has no submissions yet, and no task belongs to a submission
\* that has not happened.
TypeOK ==
  /\ status \in [Agent -> Status \cup {"unregistered"}]
  /\ card \in [Agent -> Card \cup {NoCard}]
  /\ round \in [Agent -> 0..MaxRound]
  /\ decision \in [Task -> Decision \cup {"absent"}]
  /\ lapsed \in [Agent -> 0..MaxRound]
  /\ escalated \subseteq Task
  /\ submitted \in [Agent -> [Round -> Card \cup {NoCard}]]
  /\ \A a \in Agent : status[a] # "unregistered" => card[a] \in Card
  /\ \A a \in Agent : status[a] \in {"unregistered", "draft"} => round[a] = 0
  /\ \A t \in Task : t.round > round[t.agent] => decision[t] = "absent"

\* Round r of agent a was put to review and every stage its card required is
\* approved.
FullyApproved(a, r) ==
  /\ r <= round[a]
  /\ \A s \in RequiredStages(submitted[a][r]) :
       decision[[agent |-> a, round |-> r, stage |-> s]] = "approved"

\* No agent is approved, routable or beyond unless every stage required by
\* one and the same submission of it was approved: decide moves the agent on
\* the last approval of a round, and publish only from there.
ReleasedByAFullRound ==
  \A a \in Agent :
    status[a] \in Released => \E r \in Round : FullyApproved(a, r)

\* The live card of a is the one its newest submission put to review.
FrozenCard(a) ==
  /\ round[a] > 0
  /\ card[a] = submitted[a][round[a]]
  /\ ValidCard(card[a])

\* From the moment it is submitted until a rejection makes it editable again,
\* an agent's card is the one under review (update and submit_for_approval
\* between them guard this), so publish never meets an incomplete card.
CardFrozenInReview ==
  \A a \in Agent : status[a] \in Released \cup {"under_review"} => FrozenCard(a)

\* Some task of a's newest submission awaits a decision; none was rejected.
OpenReview(a) ==
  /\ \E t \in Task : t.agent = a /\ t.round = round[a] /\ decision[t] = "pending"
  /\ \A t \in Task : t.agent = a /\ t.round = round[a] => decision[t] # "rejected"

\* An agent under review always has a task of its newest submission left to
\* decide, and none of those rejected, whatever earlier rounds left behind: no
\* history of rejections and resubmissions leaves a review that decide can no
\* longer end.
ReviewNeverStuck ==
  \A a \in Agent : status[a] = "under_review" => OpenReview(a)

\* A decision, once taken, is never taken back or changed.
DecisionsAreFinal ==
  [][\A t \in Task : decision[t] \in {"approved", "rejected"}
                       => decision'[t] = decision[t]]_vars

\* The status of every agent evolves as AgentLifecycle says it may.
RefinesLifecycle == Lifecycle!Spec

\* A task still pending when its due date passes is flagged by the sweep,
\* unless somebody decides it first.
LateTaskIsFlagged ==
  \A t \in Task :
    (decision[t] = "pending" /\ t.round <= lapsed[t.agent])
      ~> (t \in escalated \/ decision[t] # "pending")

=============================================================================
