------------------------ MODULE AgentApproval_proofs ------------------------
(***************************************************************************)
(* The safety properties of AgentApprovalProps, for every set of agents,   *)
(* contents and stages and every bound on the submissions.                 *)
(***************************************************************************)
EXTENDS AgentApprovalProps, TLAPS

\* A review task exists exactly for the stages its submission required, and
\* every submission up to the agent's current one put a real card to review.
TasksMatchSubmission ==
  /\ \A a \in Agent : \A r \in Round :
       r <= round[a] => submitted[a][r] \in Card
  /\ \A t \in Task :
       (t.round <= round[t.agent] /\ t.stage \in RequiredStages(submitted[t.agent][t.round]))
         => decision[t] # "absent"

\* The inductive invariant: Released needs the tasks of a round to be exactly
\* the required ones, and a stuck review is excluded only together with the
\* absence of a rejection in the current round.
IInv ==
  /\ TypeOK
  /\ TasksMatchSubmission
  /\ ReleasedByAFullRound
  /\ CardFrozenInReview
  /\ ReviewNeverStuck

\* A status change allowed by the table is made from a listed status.
LEMMA TransitionFacts ==
  ASSUME NEW s, NEW u, CanTransition(s, u)
  PROVE  /\ s \in Status /\ u \in Status
         /\ u # "draft"
         /\ u = "under_review" => s \in Editable
         /\ u \in {"active", "suspended", "deprecated", "retired"} => s \in Released
         /\ u = "approved" => s = "under_review"
BY DEF CanTransition, AllowedTransitions, Status, Editable, Released

\* The invariant holds before anything is registered.
LEMMA InitInv == Init => IInv
<1> SUFFICES ASSUME Init PROVE IInv
  OBVIOUS
<1> USE DEF Init
<1>1. TypeOK
  BY BoundsAssumption DEF TypeOK, Status, Decision, Task, Round
<1>2. TasksMatchSubmission
  BY BoundsAssumption DEF TasksMatchSubmission, Round, Task
<1>3. ReleasedByAFullRound /\ CardFrozenInReview /\ ReviewNeverStuck
  BY DEF ReleasedByAFullRound, CardFrozenInReview, ReviewNeverStuck, Released
<1> QED
  BY <1>1, <1>2, <1>3 DEF IInv


\* What Submit does to the rows of the agent it submits.
LEMMA SubmitFacts ==
  ASSUME TypeOK, NEW a \in Agent, Submit(a)
  PROVE  /\ card[a] \in Card
         /\ round[a] + 1 \in Round
         /\ round' = [round EXCEPT ![a] = round[a] + 1]
         /\ round'[a] = round[a] + 1
         /\ submitted'[a] = [submitted[a] EXCEPT ![round[a] + 1] = card[a]]
         /\ submitted'[a][round[a] + 1] = card[a]
         /\ \A r \in Round : r # round[a] + 1 => submitted'[a][r] = submitted[a][r]
         /\ \A b \in Agent : b # a => /\ submitted'[b] = submitted[b]
                                      /\ round'[b] = round[b]
                                      /\ status'[b] = status[b]
         /\ \A t \in Task :
              decision'[t] = IF /\ t.agent = a
                                /\ t.round = round[a] + 1
                                /\ t.stage \in RequiredStages(card[a])
                             THEN "pending" ELSE decision[t]
         /\ \A t \in Task : t.agent = a /\ t.round = round[a] + 1 => decision[t] = "absent"
<1> USE BoundsAssumption DEF TypeOK, Submit
<1>1. card[a] \in Card
  BY TransitionFacts DEF Status
<1>2. round[a] + 1 \in Round /\ round' = [round EXCEPT ![a] = round[a] + 1]
  BY DEF Round
<1>3. \A t \in Task : t.agent = a /\ t.round = round[a] + 1 => decision[t] = "absent"
  BY DEF Task, Round
<1> QED
  BY <1>1, <1>2, <1>3

\* A task waiting for a decision belongs to a submission of a registered agent.
LEMMA PendingTaskFacts ==
  ASSUME TypeOK, NEW t \in Task, decision[t] = "pending"
  PROVE  /\ t.agent \in Agent /\ t.round \in Round
         /\ t.round <= round[t.agent]
         /\ status[t.agent] \notin {"unregistered", "draft"}
<1>1. t.agent \in Agent /\ t.round \in Round
  BY DEF Task
<1>2. t.round \in Nat \ {0} /\ round[t.agent] \in Nat
  BY <1>1, BoundsAssumption DEF TypeOK, Round
<1>3. ~(t.round > round[t.agent])
  BY DEF TypeOK
<1>4. t.round <= round[t.agent] /\ round[t.agent] # 0
  BY <1>2, <1>3
<1>5. status[t.agent] \notin {"unregistered", "draft"}
  BY <1>1, <1>4 DEF TypeOK
<1> QED
  BY <1>1, <1>4, <1>5

\* No request leaves the types.
LEMMA TypeStep == TypeOK /\ [Next]_vars => TypeOK'
<1> SUFFICES ASSUME TypeOK, [Next]_vars PROVE TypeOK'
  OBVIOUS
<1> USE BoundsAssumption
<1>1. ASSUME NEW a \in Agent, NEW c \in Card, Register(a, c) PROVE TypeOK'
  BY <1>1 DEF Register, Status, TypeOK
<1>2. ASSUME NEW a \in Agent, NEW c \in Card, Update(a, c) PROVE TypeOK'
  BY <1>2 DEF Update, TypeOK
<1>3. ASSUME NEW a \in Agent, Submit(a) PROVE TypeOK'
  <2>1. /\ card[a] \in Card
        /\ round[a] + 1 \in Round
        /\ round' = [round EXCEPT ![a] = round[a] + 1]
        /\ \A t \in Task :
             decision'[t] = IF /\ t.agent = a
                               /\ t.round = round[a] + 1
                               /\ t.stage \in RequiredStages(card[a])
                            THEN "pending" ELSE decision[t]
    BY <1>3, SubmitFacts
  <2>2. card' = card /\ lapsed' = lapsed /\ escalated' = escalated
    BY <1>3 DEF Submit
  <2>3. status' = [status EXCEPT ![a] = "under_review"]
    BY <1>3 DEF Submit
  <2>4. round' \in [Agent -> 0..MaxRound]
    BY <2>1 DEF TypeOK, Round
  <2>5. decision' \in [Task -> Decision \cup {"absent"}]
    BY <1>3 DEF Submit, TypeOK, Decision
  <2>6. submitted' \in [Agent -> [Round -> Card \cup {NoCard}]]
    BY <1>3, <2>1 DEF Submit, TypeOK
  <2>7. \A b \in Agent :
          /\ status'[b] # "unregistered" => card'[b] \in Card
          /\ status'[b] \in {"unregistered", "draft"} => round'[b] = 0
    BY <2>1, <2>2, <2>3 DEF TypeOK
  <2>8. ASSUME NEW t \in Task, t.round > round'[t.agent]
        PROVE  decision'[t] = "absent"
    <3>1. t.agent \in Agent /\ t.round \in Nat
      BY DEF Task, Round
    <3>2. t.round > round[t.agent] /\ ~(t.agent = a /\ t.round = round[a] + 1)
      BY <2>1, <2>8, <3>1 DEF TypeOK
    <3> QED
      BY <2>1, <3>2 DEF TypeOK
  <2> QED
    BY <2>2, <2>3, <2>4, <2>5, <2>6, <2>7, <2>8 DEF TypeOK, Status
<1>4. ASSUME NEW t \in Task, TaskStep(t) PROVE TypeOK'
  <2>1. t.agent \in Agent /\ t.round \in Round /\ decision[t] = "pending"
    BY <1>4 DEF TaskStep, ApproveStage, ApproveLastStage, Reject, Task
  <2>2. t.round <= round[t.agent] /\ status[t.agent] # "unregistered"
    BY <2>1, PendingTaskFacts
  <2>3. UNCHANGED <<card, round, lapsed, escalated, submitted>>
    BY <1>4 DEF TaskStep, ApproveStage, ApproveLastStage, Reject
  <2>4. \E d \in Decision : decision' = [decision EXCEPT ![t] = d]
    BY <1>4 DEF TaskStep, ApproveStage, ApproveLastStage, Reject, Decision
  <2>5. \/ status' = status
        \/ \E s \in {"approved", "rejected"} : status' = [status EXCEPT ![t.agent] = s]
    BY <1>4 DEF TaskStep, ApproveStage, ApproveLastStage, Reject
  <2>6. decision' \in [Task -> Decision \cup {"absent"}]
    BY <2>4 DEF TypeOK
  <2>7. status' \in [Agent -> Status \cup {"unregistered"}]
    BY <2>5 DEF TypeOK, Status
  <2>8. \A a \in Agent :
          /\ status'[a] # "unregistered" => card[a] \in Card
          /\ status'[a] \in {"unregistered", "draft"} => round[a] = 0
    BY <2>2, <2>5 DEF TypeOK
  <2>9. \A u \in Task : u.round > round[u.agent] => decision'[u] = "absent"
    BY <2>1, <2>2, <2>4 DEF TypeOK, Round
  <2> QED
    BY <2>3, <2>6, <2>7, <2>8, <2>9 DEF TypeOK
<1>5. ASSUME NEW a \in Agent, NEW target \in Status, MoveTo(a, target) PROVE TypeOK'
  BY <1>5, TransitionFacts DEF MoveTo, TypeOK, Status
<1>6. ASSUME NEW a \in Agent, DueDatePasses(a) PROVE TypeOK'
  BY <1>6 DEF DueDatePasses, TypeOK
<1>7. CASE EscalateOverdue
  BY <1>7 DEF EscalateOverdue, Overdue, TypeOK
<1>8. CASE UNCHANGED vars
  BY <1>8 DEF vars, TypeOK
<1> QED
  BY <1>1, <1>2, <1>3, <1>4, <1>5, <1>6, <1>7, <1>8
  DEF Next, AgentStep, Publish, Suspend, Reactivate, Deprecate, Retire, Status

\* Only submissions and decisions touch the review tables.
LEMMA ReviewSteps ==
  ASSUME [Next]_vars
  PROVE  \/ \E a \in Agent : Submit(a)
         \/ \E t \in Task : TaskStep(t)
         \/ UNCHANGED <<round, decision, submitted>>
<1>1. CASE UNCHANGED vars
  BY <1>1 DEF vars
<1>2. CASE EscalateOverdue
  BY <1>2 DEF EscalateOverdue
<1>3. ASSUME NEW a \in Agent, AgentStep(a)
      PROVE  Submit(a) \/ UNCHANGED <<round, decision, submitted>>
  BY <1>3 DEF AgentStep, Register, Update, Publish, Suspend, Reactivate,
              Deprecate, Retire, MoveTo, DueDatePasses
<1> QED
  BY <1>1, <1>2, <1>3 DEF Next

\* Rounds, the cards they put to review, tasks and decisions are never lost.
HistoryKept ==
  /\ \A a \in Agent : round[a] <= round'[a]
  /\ \A a \in Agent : \A r \in Round :
       r <= round[a] => submitted'[a][r] = submitted[a][r]
  /\ \A t \in Task :
       decision[t] \in {"approved", "rejected"} => decision'[t] = decision[t]
  /\ \A t \in Task : decision[t] # "absent" => decision'[t] # "absent"

\* No request rewrites what an earlier submission put to review.
LEMMA HistoryStable == TypeOK /\ [Next]_vars => HistoryKept
<1> SUFFICES ASSUME TypeOK, [Next]_vars PROVE HistoryKept
  OBVIOUS
<1>0. \A a \in Agent : round[a] \in Nat
  BY BoundsAssumption DEF TypeOK
<1>1. ASSUME NEW a \in Agent, Submit(a) PROVE HistoryKept
  <2>1. \A b \in Agent : round'[b] = IF b = a THEN round[a] + 1 ELSE round[b]
    BY <1>1, SubmitFacts
  <2>2. \A b \in Agent : \A r \in Round :
          ~(b = a /\ r = round[a] + 1) => submitted'[b][r] = submitted[b][r]
    <3>1. \A r \in Round : r # round[a] + 1 => submitted'[a][r] = submitted[a][r]
      BY <1>1, SubmitFacts
    <3>2. \A b \in Agent : b # a => submitted'[b] = submitted[b]
      BY <1>1, SubmitFacts
    <3> QED
      BY <3>1, <3>2
  <2>3. \A t \in Task : decision'[t] = decision[t] \/ decision[t] = "absent"
    BY <1>1, SubmitFacts
  <2>4. \A t \in Task : decision'[t] = decision[t] \/ decision'[t] = "pending"
    BY <1>1, SubmitFacts
  <2>5. \A b \in Agent : round[b] <= round'[b]
    BY <1>0, <2>1
  <2>6. \A r \in Round : r <= round[a] => r # round[a] + 1
    BY <1>0, BoundsAssumption DEF Round
  <2> QED
    BY <2>2, <2>3, <2>4, <2>5, <2>6 DEF HistoryKept
<1>2. ASSUME NEW t \in Task, TaskStep(t) PROVE HistoryKept
  <2>1. /\ UNCHANGED <<round, submitted>>
        /\ decision[t] = "pending"
        /\ \E d \in Decision : decision' = [decision EXCEPT ![t] = d]
    BY <1>2 DEF TaskStep, ApproveStage, ApproveLastStage, Reject, Decision
  <2> QED
    BY <1>0, <2>1 DEF TypeOK, Decision, HistoryKept
<1>3. CASE UNCHANGED <<round, decision, submitted>>
  BY <1>0, <1>3 DEF HistoryKept
<1> QED
  BY <1>1, <1>2, <1>3, ReviewSteps

\* A fully approved submission stays fully approved.
LEMMA FullyApprovedStable ==
  ASSUME TypeOK, [Next]_vars, NEW a \in Agent, NEW r \in Round, FullyApproved(a, r)
  PROVE  FullyApproved(a, r)'
<1>1. r <= round[a] /\ round[a] \in Nat /\ round'[a] \in Nat /\ r \in Nat
  BY TypeStep, BoundsAssumption DEF FullyApproved, TypeOK, Round
<1>2. r <= round'[a] /\ submitted'[a][r] = submitted[a][r]
  BY <1>1, HistoryStable DEF HistoryKept
<1>3. ASSUME NEW s \in RequiredStages(submitted[a][r])
      PROVE  decision'[[agent |-> a, round |-> r, stage |-> s]] = "approved"
  <2>1. [agent |-> a, round |-> r, stage |-> s] \in Task
    BY DEF Task, RequiredStages, Stage
  <2> QED
    BY <2>1, HistoryStable DEF HistoryKept, FullyApproved
<1> QED
  BY <1>2, <1>3 DEF FullyApproved

\* The tasks of a round stay those its submitted card requires.
LEMMA TasksStep == IInv /\ [Next]_vars => TasksMatchSubmission'
<1> SUFFICES ASSUME IInv, [Next]_vars PROVE TasksMatchSubmission'
  OBVIOUS
<1>1. TypeOK /\ TasksMatchSubmission
  BY DEF IInv
<1>2. ASSUME NEW a \in Agent, Submit(a) PROVE TasksMatchSubmission'
  <2>1. /\ card[a] \in Card
        /\ round'[a] = round[a] + 1
        /\ submitted'[a][round[a] + 1] = card[a]
        /\ \A b \in Agent : b # a => submitted'[b] = submitted[b] /\ round'[b] = round[b]
        /\ \A t \in Task : t.agent = a /\ t.round = round[a] + 1
                             /\ t.stage \in RequiredStages(card[a])
             => decision'[t] = "pending"
    BY <1>1, <1>2, SubmitFacts
  <2>2. \A b \in Agent : \A r \in Round :
          r <= round'[b] => (r <= round[b] \/ (b = a /\ r = round[a] + 1))
    BY <1>1, <2>1, BoundsAssumption DEF Round, TypeOK
  <2>3. \A b \in Agent : \A r \in Round : r <= round[b] => submitted'[b][r] = submitted[b][r]
    BY <1>1, HistoryStable DEF HistoryKept
  <2>4. \A b \in Agent : \A r \in Round : r <= round'[b] => submitted'[b][r] \in Card
    BY <1>1, <2>1, <2>2, <2>3 DEF TasksMatchSubmission
  <2>5. ASSUME NEW t \in Task, t.round <= round'[t.agent],
               t.stage \in RequiredStages(submitted'[t.agent][t.round])
        PROVE  decision'[t] # "absent"
    <3>1. t.agent \in Agent /\ t.round \in Round
      BY DEF Task
    <3>2. CASE t.round <= round[t.agent]
      BY <1>1, <2>3, <2>5, <3>1, <3>2, HistoryStable DEF HistoryKept, TasksMatchSubmission
    <3>3. CASE t.agent = a /\ t.round = round[a] + 1
      BY <2>1, <2>5, <3>3
    <3> QED
      BY <2>2, <2>5, <3>1, <3>2, <3>3
  <2> QED
    BY <2>4, <2>5 DEF TasksMatchSubmission
<1>3. CASE UNCHANGED <<round, submitted>>
  BY <1>1, <1>3, HistoryStable DEF HistoryKept, TasksMatchSubmission
<1>4. ASSUME NEW t \in Task, TaskStep(t) PROVE UNCHANGED <<round, submitted>>
  BY <1>4 DEF TaskStep, ApproveStage, ApproveLastStage, Reject
<1> QED
  BY <1>2, <1>3, <1>4, ReviewSteps

\* The approval that completes a round finds every required stage approved.
LEMMA LastApprovalCompletes ==
  ASSUME TypeOK, TasksMatchSubmission, NEW t \in Task, ApproveLastStage(t)
  PROVE  FullyApproved(t.agent, t.round)'
<1>1. /\ t.agent \in Agent /\ t.round \in Round
      /\ t.round <= round[t.agent]
      /\ round' = round /\ submitted' = submitted
      /\ CompletesRound(t)
  BY PendingTaskFacts DEF ApproveLastStage
<1>2. ASSUME NEW s \in RequiredStages(submitted[t.agent][t.round])
      PROVE  decision'[[agent |-> t.agent, round |-> t.round, stage |-> s]] = "approved"
  <2> DEFINE u == [agent |-> t.agent, round |-> t.round, stage |-> s]
  <2>1. u \in Task /\ u.agent = t.agent /\ u.round = t.round /\ u.stage = s
    BY <1>1 DEF Task, RequiredStages, Stage
  <2>2. decision[u] # "absent"
    BY <1>1, <2>1 DEF TasksMatchSubmission
  <2>3. u # t => decision[u] = "approved"
    BY <1>1, <2>1, <2>2 DEF CompletesRound, Siblings
  <2>4. decision' = [decision EXCEPT ![t] = "approved"]
    BY DEF ApproveLastStage
  <2> QED
    BY <2>1, <2>3, <2>4 DEF TypeOK
<1> QED
  BY <1>1, <1>2 DEF FullyApproved

\* A step that makes an agent's status one of the released ones either starts
\* from a released one or is the approval that completes a round of it.
LEMMA HowToBeReleased ==
  ASSUME TypeOK, [Next]_vars, NEW a \in Agent, status'[a] \in Released
  PROVE  \/ status[a] \in Released
         \/ \E t \in Task : t.agent = a /\ ApproveLastStage(t)
<1> USE DEF TypeOK, Released
<1>1. CASE UNCHANGED vars
  BY <1>1 DEF vars
<1>2. CASE EscalateOverdue
  BY <1>2 DEF EscalateOverdue
<1>3. ASSUME NEW b \in Agent, NEW target \in {"active", "suspended", "deprecated", "retired"},
             MoveTo(b, target)
      PROVE  status[a] \in Released
  BY <1>3, TransitionFacts DEF MoveTo
<1>4. ASSUME NEW b \in Agent, AgentStep(b)
      PROVE  status[a] \in Released
  BY <1>3, <1>4 DEF AgentStep, Register, Update, Submit, Publish, Suspend,
                    Reactivate, Deprecate, Retire, DueDatePasses
<1>5. ASSUME NEW t \in Task, TaskStep(t)
      PROVE  status[a] \in Released \/ (t.agent = a /\ ApproveLastStage(t))
  BY <1>5 DEF TaskStep, ApproveStage, ApproveLastStage, Reject
<1> QED
  BY <1>1, <1>2, <1>4, <1>5 DEF Next

\* An agent is released by an approval that completes a round, and stays so.
LEMMA ReleasedStep == IInv /\ [Next]_vars => ReleasedByAFullRound'
<1> SUFFICES ASSUME IInv, [Next]_vars, NEW a \in Agent, status'[a] \in Released
             PROVE  \E r \in Round : FullyApproved(a, r)'
  BY DEF ReleasedByAFullRound
<1>1. CASE status[a] \in Released
  BY <1>1, FullyApprovedStable DEF IInv, ReleasedByAFullRound
<1>2. ASSUME NEW t \in Task, t.agent = a, ApproveLastStage(t)
      PROVE  \E r \in Round : FullyApproved(a, r)'
  BY <1>2, LastApprovalCompletes DEF IInv, Task
<1> QED
  BY <1>1, <1>2, HowToBeReleased DEF IInv

\* No request edits a card between its submission and a rejection.
LEMMA FrozenStep == IInv /\ [Next]_vars => CardFrozenInReview'
<1> SUFFICES ASSUME IInv, [Next]_vars, NEW a \in Agent,
                    status'[a] \in Released \cup {"under_review"}
             PROVE  FrozenCard(a)'
  BY DEF CardFrozenInReview
<1>0. TypeOK /\ CardFrozenInReview
  BY DEF IInv
<1>1. ASSUME status[a] \in Released \cup {"under_review"},
             card'[a] = card[a], round'[a] = round[a],
             submitted'[a] = submitted[a]
      PROVE  FrozenCard(a)'
  BY <1>0, <1>1 DEF CardFrozenInReview, FrozenCard, ValidCard
<1>2. CASE UNCHANGED vars \/ EscalateOverdue
  BY <1>1, <1>2 DEF vars, EscalateOverdue
<1>3. ASSUME NEW b \in Agent, Submit(b)
      PROVE  FrozenCard(a)'
  <2>1. CASE a = b
    <3>1. /\ round[a] + 1 \in Round
          /\ round'[a] = round[a] + 1
          /\ submitted'[a][round[a] + 1] = card[a]
      BY <1>0, <1>3, <2>1, SubmitFacts
    <3>2. card' = card /\ ValidCard(card[a])
      BY <1>3, <2>1 DEF Submit
    <3> QED
      BY <3>1, <3>2, BoundsAssumption DEF FrozenCard, ValidCard, Round
  <2>2. CASE a # b
    <3>1. submitted'[a] = submitted[a] /\ round'[a] = round[a] /\ status'[a] = status[a]
      BY <1>0, <1>3, <2>2, SubmitFacts
    <3>2. card'[a] = card[a]
      BY <1>3 DEF Submit
    <3> QED
      BY <1>1, <3>1, <3>2
  <2> QED
    BY <2>1, <2>2
<1>4. ASSUME NEW b \in Agent, NEW c \in Card, Register(b, c) \/ Update(b, c)
      PROVE  FrozenCard(a)'
  <2>1. a # b
    BY <1>0, <1>4 DEF Register, Update, TypeOK, Released, Editable
  <2> QED
    BY <1>0, <1>1, <1>4, <2>1 DEF Register, Update, TypeOK
<1>5. ASSUME NEW b \in Agent, NEW target \in {"active", "suspended", "deprecated", "retired"},
             MoveTo(b, target)
      PROVE  FrozenCard(a)'
  <2>1. status[a] \in Released \cup {"under_review"}
    BY <1>0, <1>5, TransitionFacts DEF MoveTo, TypeOK
  <2> QED
    BY <1>1, <1>5, <2>1 DEF MoveTo
<1>6. ASSUME NEW b \in Agent, DueDatePasses(b)
      PROVE  FrozenCard(a)'
  BY <1>1, <1>6 DEF DueDatePasses
<1>7. ASSUME NEW t \in Task, TaskStep(t)
      PROVE  FrozenCard(a)'
  <2>1. status[a] \in Released \cup {"under_review"}
    BY <1>0, <1>7, TransitionFacts
    DEF TaskStep, ApproveStage, ApproveLastStage, Reject, TypeOK, Released
  <2> QED
    BY <1>1, <1>7, <2>1 DEF TaskStep, ApproveStage, ApproveLastStage, Reject
<1> QED
  BY <1>2, <1>3, <1>4, <1>5, <1>6, <1>7
  DEF Next, AgentStep, Publish, Suspend, Reactivate, Deprecate, Retire

\* No request takes the last open task from an agent and leaves it in review.
LEMMA OpenStep == IInv /\ [Next]_vars => ReviewNeverStuck'
<1> SUFFICES ASSUME IInv, [Next]_vars, NEW a \in Agent, status'[a] = "under_review"
             PROVE  OpenReview(a)'
  BY DEF ReviewNeverStuck
<1>0. TypeOK /\ ReviewNeverStuck
  BY DEF IInv
<1>1. ASSUME status[a] = "under_review", round'[a] = round[a],
             \A t \in Task : t.agent = a /\ t.round = round[a] => decision'[t] = decision[t]
      PROVE  OpenReview(a)'
  BY <1>0, <1>1 DEF ReviewNeverStuck, OpenReview
<1>2. CASE UNCHANGED vars \/ EscalateOverdue
  BY <1>1, <1>2 DEF vars, EscalateOverdue
<1>3. ASSUME NEW b \in Agent, Submit(b)
      PROVE  OpenReview(a)'
  <2>1. CASE a = b
    <3>1. PICK s \in ConfiguredStages : TRUE
      BY StagesAssumption
    <3>2. /\ round[a] + 1 \in Round
          /\ round'[a] = round[a] + 1
          /\ \A t \in Task :
               decision'[t] = IF /\ t.agent = a
                                 /\ t.round = round[a] + 1
                                 /\ t.stage \in RequiredStages(card[a])
                              THEN "pending" ELSE decision[t]
          /\ \A t \in Task : t.agent = a /\ t.round = round[a] + 1 => decision[t] = "absent"
      BY <1>0, <1>3, <2>1, SubmitFacts
    <3> DEFINE u == [agent |-> a, round |-> round[a] + 1, stage |-> s]
    <3>3. /\ u \in Task /\ u.agent = a /\ u.round = round[a] + 1
          /\ u.stage \in RequiredStages(card[a])
      BY <3>2 DEF Task, Stage, RequiredStages
    <3>4. decision'[u] = "pending"
      BY <3>2, <3>3
    <3>5. \A t \in Task : t.agent = a /\ t.round = round'[a] => decision'[t] # "rejected"
      BY <3>2
    <3> QED
      BY <3>2, <3>3, <3>4, <3>5 DEF OpenReview
  <2>2. CASE a # b
    <3>1. round'[a] = round[a] /\ status'[a] = status[a]
      BY <1>0, <1>3, <2>2, SubmitFacts
    <3>2. \A t \in Task : t.agent = a => decision'[t] = decision[t]
      BY <1>0, <1>3, <2>2, SubmitFacts
    <3> QED
      BY <1>1, <3>1, <3>2
  <2> QED
    BY <2>1, <2>2
<1>4. ASSUME NEW t \in Task, ApproveStage(t)
      PROVE  OpenReview(a)'
  <2>1. /\ status[a] = "under_review" /\ round' = round
        /\ decision[t] = "pending"
        /\ decision' = [decision EXCEPT ![t] = "approved"]
    BY <1>4 DEF ApproveStage
  <2>2. OpenReview(a)
    BY <1>0, <2>1 DEF ReviewNeverStuck
  <2>3. \A v \in Task : decision'[v] = IF v = t THEN "approved" ELSE decision[v]
    BY <1>0, <2>1 DEF TypeOK
  <2>4. PICK u \in Task : u \in Siblings(t) /\ u # t /\ decision[u] # "approved"
    BY <1>4 DEF ApproveStage, CompletesRound, Siblings
  <2>5. CASE t.agent = a /\ t.round = round[a]
    <3>1. u.agent = a /\ u.round = round[a] /\ decision[u] # "absent"
      BY <2>4, <2>5 DEF Siblings
    <3>2. decision[u] # "rejected" /\ decision[u] \in Decision \cup {"absent"}
      BY <1>0, <2>2, <3>1 DEF OpenReview, TypeOK
    <3>3. decision'[u] = "pending"
      BY <2>3, <2>4, <3>1, <3>2 DEF Decision
    <3> QED
      BY <2>1, <2>2, <2>3, <3>1, <3>3 DEF OpenReview
  <2>6. CASE ~(t.agent = a /\ t.round = round[a])
    BY <1>1, <2>1, <2>3, <2>6
  <2> QED
    BY <2>5, <2>6
<1>5. ASSUME NEW t \in Task, ApproveLastStage(t) \/ Reject(t)
      PROVE  OpenReview(a)'
  <2>1. t.agent \in Agent
    BY DEF Task
  <2>2. t.agent # a /\ status'[a] = status[a]
    BY <1>0, <1>5, <2>1 DEF ApproveLastStage, Reject, TypeOK
  <2>3. round' = round /\ \A v \in Task : v # t => decision'[v] = decision[v]
    BY <1>0, <1>5 DEF ApproveLastStage, Reject, TypeOK
  <2> QED
    BY <1>1, <2>2, <2>3
<1>6. ASSUME NEW b \in Agent, NEW c \in Card, Register(b, c) \/ Update(b, c)
      PROVE  OpenReview(a)'
  BY <1>0, <1>1, <1>6 DEF Register, Update, TypeOK
<1>7. ASSUME NEW b \in Agent, NEW target \in {"active", "suspended", "deprecated", "retired"},
             MoveTo(b, target)
      PROVE  OpenReview(a)'
  BY <1>0, <1>1, <1>7 DEF MoveTo, TypeOK
<1>8. ASSUME NEW b \in Agent, DueDatePasses(b)
      PROVE  OpenReview(a)'
  BY <1>1, <1>8 DEF DueDatePasses
<1> QED
  BY <1>2, <1>3, <1>4, <1>5, <1>6, <1>7, <1>8
  DEF Next, AgentStep, TaskStep, Publish, Suspend, Reactivate, Deprecate, Retire

----------------------------------------------------------------------------

\* The invariant holds in every reachable state.
THEOREM Invariance == Spec => []IInv
<1>1. IInv /\ [Next]_vars => IInv'
  BY TypeStep, TasksStep, ReleasedStep, FrozenStep, OpenStep DEF IInv
<1> QED
  BY InitInv, <1>1, PTL DEF Spec

\* Every reachable state is well typed.
THEOREM TypeCorrect == Spec => []TypeOK
<1>1. IInv => TypeOK
  BY DEF IInv
<1> QED
  BY <1>1, Invariance, PTL

\* An agent is approved, routable or beyond only if one submission of it had
\* every stage it required approved.
THEOREM ReleaseIsReviewed == Spec => []ReleasedByAFullRound
<1>1. IInv => ReleasedByAFullRound
  BY DEF IInv
<1> QED
  BY <1>1, Invariance, PTL

\* What is approved, and what stays routable, is the card the newest
\* submission put to review, and it is complete.
THEOREM CardStaysFrozen == Spec => []CardFrozenInReview
<1>1. IInv => CardFrozenInReview
  BY DEF IInv
<1> QED
  BY <1>1, Invariance, PTL

\* As long as at least one stage is configured, every review can be ended.
THEOREM ReviewStaysOpen == Spec => []ReviewNeverStuck
<1>1. IInv => ReviewNeverStuck
  BY DEF IInv
<1> QED
  BY <1>1, Invariance, PTL

\* decide never changes a decision that was taken before.
THEOREM DecisionsStay == Spec => DecisionsAreFinal
<1>1. TypeOK /\ [Next]_vars
        => [\A t \in Task : decision[t] \in {"approved", "rejected"}
                              => decision'[t] = decision[t]]_vars
  BY HistoryStable DEF HistoryKept
<1> QED
  BY <1>1, TypeCorrect, PTL DEF Spec, DecisionsAreFinal

\* Seen through Agent.status, every request is a step of the abstract
\* lifecycle: a move along the table, or a rejection of a submitted agent.
THEOREM ImplementsLifecycle == Spec => RefinesLifecycle
<1>1. Init => Lifecycle!Init
  BY DEF Init, Lifecycle!Init
<1>2. ASSUME TypeOK, [Next]_vars
      PROVE  [Lifecycle!Next]_status
  <2>1. CASE UNCHANGED vars \/ EscalateOverdue
    BY <2>1 DEF vars, EscalateOverdue
  <2>2. ASSUME NEW a \in Agent, NEW c \in Card, Register(a, c)
        PROVE  Lifecycle!Next
    BY <2>2 DEF Register, Lifecycle!Next, Lifecycle!Register
  <2>3. ASSUME NEW a \in Agent, NEW target \in Status,
               CanTransition(status[a], target),
               status' = [status EXCEPT ![a] = target]
        PROVE  Lifecycle!Next
    BY <2>3 DEF Lifecycle!Next, Lifecycle!Move, Lifecycle!CanTransition,
                Lifecycle!AllowedTransitions, Lifecycle!Status,
                CanTransition, AllowedTransitions, Status
  <2>4. ASSUME NEW a \in Agent, AgentStep(a)
        PROVE  [Lifecycle!Next]_status
    <3>1. CASE \E c \in Card : Register(a, c)
      BY <2>2, <3>1
    <3>2. CASE (\E c \in Card : Update(a, c)) \/ DueDatePasses(a)
      BY <3>2 DEF Update, DueDatePasses
    <3>3. CASE Submit(a)
      BY <2>3, <3>3 DEF Submit, Status
    <3>4. ASSUME NEW target \in Status, MoveTo(a, target)
          PROVE  Lifecycle!Next
      BY <2>3, <3>4 DEF MoveTo
    <3> QED
      BY <2>4, <3>1, <3>2, <3>3, <3>4
      DEF AgentStep, Publish, Suspend, Reactivate, Deprecate, Retire, Status
  <2>5. ASSUME NEW t \in Task, TaskStep(t)
        PROVE  [Lifecycle!Next]_status
    <3>1. t.agent \in Agent
      BY DEF Task
    <3>2. CASE ApproveStage(t)
      BY <3>2 DEF ApproveStage
    <3>3. CASE ApproveLastStage(t)
      BY <2>3, <3>1, <3>3 DEF ApproveLastStage, Status
    <3>4. CASE Reject(t)
      <4>1. status[t.agent] \notin {"unregistered", "draft"}
        BY <1>2, <3>4, PendingTaskFacts DEF Reject
      <4> QED
        BY <3>1, <3>4, <4>1 DEF Reject, Lifecycle!Next, Lifecycle!RejectUnchecked
    <3> QED
      BY <2>5, <3>2, <3>3, <3>4 DEF TaskStep
  <2> QED
    BY <1>2, <2>1, <2>4, <2>5 DEF Next
<1> QED
  BY <1>1, <1>2, TypeCorrect, PTL DEF Spec, RefinesLifecycle, Lifecycle!Spec
=============================================================================
