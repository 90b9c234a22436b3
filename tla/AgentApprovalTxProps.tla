------------------------ MODULE AgentApprovalTxProps ------------------------
(***************************************************************************)
(* What survives when requests on one agent overlap, and what does not.    *)
(***************************************************************************)
EXTENDS AgentApprovalTx

\* However requests overlap and whichever of them die half way, an agent is
\* approved, routable or beyond only if every stage of one submission was, at
\* some time, committed as approved: decide approves on what its own SELECT
\* shows, and no other handler writes a released status without having read one.
ReleasedWasEndorsed ==
  row.status \in Released =>
    \E n \in 1..MaxRound : \A s \in ConfiguredStages :
      \E i \in endorsed : tasks[i].round = n /\ tasks[i].stage = s

\* A request that was accepted ends, one way or another.
RequestsEnd == \A r \in Request : pc[r] # "idle" ~> pc[r] = "idle"

----------------------------------------------------------------------------
\* One request at a time, the transactions are the steps of AgentApproval.

Key == "the agent"

\* A table of AgentApproval that has one row.
OneRow(value) == [a \in {Key} |-> value]

AbstractTask ==
  [agent : {Key}, round : 1..MaxRound, stage : ConfiguredStages \cup {"production"}]

\* The decision `list` holds on the stage t.stage of submission t.round.
DecisionIn(list, t) ==
  LET mine == {i \in DOMAIN list : list[i].round = t.round /\ list[i].stage = t.stage}
  IN  IF mine = {} THEN "absent" ELSE list[CHOOSE i \in mine : TRUE].decision

DecisionsIn(list) == [t \in AbstractTask |-> DecisionIn(list, t)]

TaskAt(list, i) == [agent |-> Key, round |-> list[i].round, stage |-> list[i].stage]

AbstractCard(c) ==
  IF c = NoContent THEN NoContent
  ELSE [content |-> c, risk |-> "low", complete |-> TRUE]

CardsIn(history) == [n \in 1..MaxRound |-> AbstractCard(history[n])]

Serial == INSTANCE AgentApproval WITH
  Agent <- {Key},
  NoCard <- NoContent,
  status <- OneRow(row.status),
  card <- OneRow(AbstractCard(row.content)),
  round <- OneRow(row.round),
  decision <- DecisionsIn(tasks),
  lapsed <- OneRow(lapsed),
  escalated <- {TaskAt(tasks, i) : i \in escalated},
  submitted <- OneRow(CardsIn(submitted))

\* With one request in flight at a time, every transaction is one step of
\* AgentApproval, or none.  The sweep is left out of the theorem: a task that
\* falls due between its SELECT and its commit waits for the next sweep.
RefinesAgentApproval == Serial!Spec

----------------------------------------------------------------------------
\* A claim of the documentation that overlapping requests do not keep.

\* ApprovalService: the agent moves to approved or rejected once every task
\* for it has a decision.
DecidedReviewEnds ==
  (row.status = "under_review" /\ (\A r \in Request : pc[r] = "idle")) =>
    \E i \in DOMAIN tasks : tasks[i].round = row.round /\ tasks[i].decision = "pending"

=============================================================================
