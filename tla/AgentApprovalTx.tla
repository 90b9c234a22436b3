-------------------------- MODULE AgentApprovalTx --------------------------
(***************************************************************************)
(* The transactions behind AgentApproval, statement by statement: requests *)
(* that touch one registered agent, interleaved under PostgreSQL's READ    *)
(* COMMITTED isolation.                                                    *)
(*                                                                         *)
(* A request owns one SQLAlchemy session (db/session.py).  It loads rows   *)
(* into objects, checks and changes the objects, flushes the columns that  *)
(* differ from what it loaded, which locks the rows, and commits.  A SELECT*)
(* sees committed rows and the request's own writes, and never refreshes   *)
(* an object the session already holds.  No request asks for a lock when   *)
(* it reads, and no UPDATE tests that the row is still as it was read.     *)
(*                                                                         *)
(* Left out here, and kept in AgentApproval: the risk class and its        *)
(* production stage, incomplete cards.                                     *)
(***************************************************************************)
EXTENDS AgentStatus, Naturals, FiniteSets, SequencesExt

CONSTANTS
  Request,     \* what handles requests concurrently: one request each at a time
  Content,     \* what a card says
  ConfiguredStages,  \* the stages every submission needs
  SlaHours,    \* AGENT_APPROVAL_SLA_HOURS; 0 gives tasks no due date
  Kind,        \* bound: the kinds of request that are sent
  MaxRound,    \* bound: submissions that reach the database
  NoContent,   \* the content of a card not there yet
  Nobody       \* the holder of a free row lock

ASSUME RequestAssumption == IsFiniteSet(Request)
ASSUME StagesAssumption == ConfiguredStages # {} /\ IsFiniteSet(ConfiguredStages)
ASSUME BoundAssumption == MaxRound \in Nat \ {0} /\ SlaHours \in Nat
ASSUME ContentAssumption == NoContent \notin Content
ASSUME KindAssumption ==
  Kind \subseteq {"register", "update", "submit", "move", "decide", "sweep"}

VARIABLES
  row,        \* the agent's committed row
  tasks,      \* its committed review tasks, in the order they were inserted
  escalated,  \* the tasks with escalated_at committed
  lapsed,     \* submissions up to this round are past their due_at
  holder,     \* row lock -> the request whose flush holds it
  pc,         \* request -> the statement it executes next
  op,         \* request -> what it was asked to do
  seen,       \* request -> the agent row its session loaded
  want,       \* request -> the agent object as the handler changed it
  todo,       \* request -> tasks whose changed rows are still to be flushed
  submitted,  \* history: round -> content its last submission put to review
  endorsed    \* history: tasks that were once committed as approved

local == <<pc, op, seen, want, todo>>
vars == <<row, tasks, escalated, lapsed, holder, local, submitted, endorsed>>

----------------------------------------------------------------------------

MaxTask == MaxRound * Cardinality(ConfiguredStages)
AgentRow == 0                    \* the lock on the agents row
Lock == {AgentRow} \cup 1..MaxTask

Row == [status : Status \cup {"unregistered"},
        content : Content \cup {NoContent},
        round : 0..MaxRound]

NoRow == [status |-> "unregistered", content |-> NoContent, round |-> 0]

NoOp == [kind |-> "none"]

\* The columns of the agent object a flush writes: those that were changed.
Changed(r) == {f \in DOMAIN seen[r] : want[r][f] # seen[r][f]}

\* The agents row after r's UPDATE: only changed columns are written.
Written(r) == [f \in DOMAIN row |-> IF f \in Changed(r) THEN want[r][f] ELSE row[f]]

\* The tasks as r's own SELECT returns them: committed, with its own decision.
View(r) ==
  IF op[r].kind = "decide"
  THEN [tasks EXCEPT ![op[r].task].decision = op[r].verdict]
  ELSE tasks

Siblings(i) == {j \in DOMAIN tasks : tasks[j].round = tasks[i].round}

\* One task per stage, inserted by a submission that numbers itself `rnd`.
NewTasks(rnd) ==
  LET new(s) == [round |-> rnd, stage |-> s, decision |-> "pending"]
      order == SetToSeq(ConfiguredStages)
  IN  [k \in DOMAIN order |-> new(order[k])]

Overdue ==
  {i \in DOMAIN tasks : /\ tasks[i].decision = "pending"
                        /\ tasks[i].round <= lapsed
                        /\ i \notin escalated}

\* Fault: the rows of one flush are written in no particular order.
NextRowUnordered(S) == S

\* SQLAlchemy emits the UPDATEs of one flush in primary-key order.
NextRow(S) == {i \in S : \A j \in S : i <= j}

----------------------------------------------------------------------------

Init ==
  /\ row = NoRow
  /\ tasks = << >>
  /\ escalated = {}
  /\ lapsed = 0
  /\ holder = [l \in Lock |-> Nobody]
  /\ pc = [r \in Request |-> "idle"]
  /\ op = [r \in Request |-> NoOp]
  /\ seen = [r \in Request |-> NoRow]
  /\ want = [r \in Request |-> NoRow]
  /\ todo = [r \in Request |-> {}]
  /\ submitted = [n \in 1..MaxRound |-> NoContent]
  /\ endorsed = {}

database == <<row, tasks, escalated, lapsed, submitted, endorsed>>

\* A handler that passed its checks on the agent it loaded: `object` is the
\* agent as the handler changed it, still to be flushed.
Begin(r, o, object) ==
  /\ pc[r] = "idle"
  /\ o.kind \in Kind
  /\ pc' = [pc EXCEPT ![r] = "flush_agent"]
  /\ op' = [op EXCEPT ![r] = o]
  /\ seen' = [seen EXCEPT ![r] = row]
  /\ want' = [want EXCEPT ![r] = object]
  /\ UNCHANGED <<todo, holder, database>>

\* register: get_by_key found no agent with this key.
StartRegister(r, c) ==
  /\ row.status = "unregistered"
  /\ Begin(r, [kind |-> "register"],
           [status |-> "draft", content |-> c, round |-> 0])

\* update: the agent was editable when it was loaded.
StartUpdate(r, c) ==
  /\ row.status \in Editable
  /\ Begin(r, [kind |-> "update"], [row EXCEPT !.content = c])

\* submit_for_approval, up to its flush.  The bound counts submissions that
\* are on their way.
StartSubmit(r) ==
  /\ CanTransition(row.status, "under_review")
  /\ Len(tasks) + Cardinality(ConfiguredStages)
       * (1 + Cardinality({q \in Request : op[q].kind = "submit"})) <= MaxTask
  /\ Begin(r, [kind |-> "submit"],
           [row EXCEPT !.status = "under_review", !.round = @ + 1])

\* publish, suspend, reactivate, deprecate, retire.
StartMove(r, target) ==
  /\ target \in {"active", "suspended", "deprecated", "retired"}
  /\ CanTransition(row.status, target)
  /\ Begin(r, [kind |-> "move"], [row EXCEPT !.status = target])

\* approve_task and reject_task load the task, which must be pending; then a
\* second SELECT loads its agent.
StartDecide(r, i, v) ==
  /\ pc[r] = "idle"
  /\ "decide" \in Kind
  /\ tasks[i].decision = "pending"
  /\ pc' = [pc EXCEPT ![r] = "load_agent"]
  /\ op' = [op EXCEPT ![r] = [kind |-> "decide", task |-> i, verdict |-> v]]
  /\ todo' = [todo EXCEPT ![r] = {i}]
  /\ UNCHANGED <<seen, want, holder, database>>

LoadAgent(r) ==
  /\ pc[r] = "load_agent"
  /\ pc' = [pc EXCEPT ![r] = "flush_tasks"]
  /\ seen' = [seen EXCEPT ![r] = row]
  /\ want' = [want EXCEPT ![r] = row]
  /\ UNCHANGED <<op, todo, holder, database>>

\* escalate_overdue reads what it will flag.
StartSweep(r) ==
  /\ pc[r] = "idle"
  /\ "sweep" \in Kind
  /\ Overdue # {}
  /\ pc' = [pc EXCEPT ![r] = "flush_tasks"]
  /\ op' = [op EXCEPT ![r] = [kind |-> "sweep", found |-> Overdue]]
  /\ todo' = [todo EXCEPT ![r] = Overdue]
  /\ UNCHANGED <<seen, want, holder, database>>

\* The flush of changed tasks, one row lock at a time.
FlushTask(r) ==
  /\ pc[r] = "flush_tasks"
  /\ \E i \in NextRow(todo[r]) :
       /\ holder[i] = Nobody
       /\ holder' = [holder EXCEPT ![i] = r]
       /\ todo' = [todo EXCEPT ![r] = @ \ {i}]
  /\ UNCHANGED <<pc, op, seen, want, database>>

\* All rows flushed: the sweep commits, decide goes on.
TasksFlushed(r) ==
  /\ pc[r] = "flush_tasks"
  /\ todo[r] = {}
  /\ pc' = [pc EXCEPT ![r] =
       IF op[r].kind = "sweep" THEN "commit"
       ELSE IF op[r].verdict = "approved" THEN "siblings" ELSE "reject_agent"]
  /\ UNCHANGED <<op, seen, want, todo, holder, database>>

\* A rejected stage rejects the agent, whatever its status was when loaded.
RejectAgent(r) ==
  /\ pc[r] = "reject_agent"
  /\ pc' = [pc EXCEPT ![r] = "flush_agent"]
  /\ want' = [want EXCEPT ![r].status = "rejected"]
  /\ UNCHANGED <<op, seen, todo, holder, database>>

\* Fault: stages nobody has decided count as approved.
NoneRejected(r) ==
  \A j \in Siblings(op[r].task) : View(r)[j].decision # "rejected"

AllApproved(r) ==
  \A j \in Siblings(op[r].task) : View(r)[j].decision = "approved"

\* list_by_agent after an approval: some sibling is not approved yet.
SiblingsOpen(r) ==
  /\ pc[r] = "siblings"
  /\ ~AllApproved(r)
  /\ pc' = [pc EXCEPT ![r] = "commit"]
  /\ UNCHANGED <<op, seen, want, todo, holder, database>>

\* All siblings are approved: the agent object moves on.
SiblingsApproved(r) ==
  /\ pc[r] = "siblings"
  /\ AllApproved(r)
  /\ CanTransition(seen[r].status, "approved")
  /\ pc' = [pc EXCEPT ![r] = "flush_agent"]
  /\ want' = [want EXCEPT ![r].status = "approved"]
  /\ UNCHANGED <<op, seen, todo, holder, database>>

\* The session is given back; every lock it held is free.
End(r) ==
  /\ pc' = [pc EXCEPT ![r] = "idle"]
  /\ op' = [op EXCEPT ![r] = NoOp]
  /\ seen' = [seen EXCEPT ![r] = NoRow]
  /\ want' = [want EXCEPT ![r] = NoRow]
  /\ todo' = [todo EXCEPT ![r] = {}]
  /\ holder' = [l \in Lock |-> IF holder[l] = r THEN Nobody ELSE holder[l]]

\* require_transition raises, or a second INSERT of the same agent_key fails.
Refuse(r) ==
  /\ \/ /\ pc[r] = "siblings"
        /\ AllApproved(r)
        /\ ~CanTransition(seen[r].status, "approved")
     \/ /\ pc[r] = "flush_agent"
        /\ op[r].kind = "register"
        /\ holder[AgentRow] = Nobody
        /\ row.status # "unregistered"
  /\ End(r)
  /\ UNCHANGED database

\* The flush of the agent: an UPDATE only if the object differs from what was
\* loaded, and then under the row lock.
FlushAgent(r) ==
  /\ pc[r] = "flush_agent"
  /\ op[r].kind = "register" => row.status = "unregistered"
  /\ IF Changed(r) = {}
     THEN UNCHANGED holder
     ELSE /\ holder[AgentRow] = Nobody
          /\ holder' = [holder EXCEPT ![AgentRow] = r]
  /\ pc' = [pc EXCEPT ![r] = "commit"]
  /\ UNCHANGED <<op, seen, want, todo, database>>

\* What r flushed becomes visible to everyone.
Commit(r) ==
  /\ pc[r] = "commit"
  /\ row' = Written(r)
  /\ tasks' = IF op[r].kind = "submit" THEN tasks \o NewTasks(want[r].round)
                                       ELSE View(r)
  /\ escalated' = IF op[r].kind = "sweep" THEN escalated \cup op[r].found
                                          ELSE escalated
  /\ submitted' = IF op[r].kind = "submit"
                  THEN [submitted EXCEPT ![want[r].round] = row.content]
                  ELSE submitted
  /\ endorsed' = {i \in DOMAIN tasks' : i \in endorsed \/ tasks'[i].decision = "approved"}
  /\ End(r)
  /\ UNCHANGED lapsed

\* The process dies or loses its connection: the
\* transaction leaves nothing behind.
Abort(r) ==
  /\ pc[r] # "idle"
  /\ End(r)
  /\ UNCHANGED database

DueDatePasses ==
  /\ SlaHours > 0
  /\ lapsed < row.round
  /\ lapsed' = lapsed + 1
  /\ UNCHANGED <<row, tasks, escalated, submitted, endorsed, holder, local>>

----------------------------------------------------------------------------

Start(r) ==
  \/ \E c \in Content : StartRegister(r, c) \/ StartUpdate(r, c)
  \/ StartSubmit(r)
  \/ \E target \in Status : StartMove(r, target)
  \/ \E i \in DOMAIN tasks, v \in {"approved", "rejected"} : StartDecide(r, i, v)
  \/ StartSweep(r)

\* The next statement of a request that has begun.
Step(r) ==
  \/ LoadAgent(r) \/ FlushTask(r) \/ TasksFlushed(r) \/ RejectAgent(r)
  \/ SiblingsOpen(r) \/ SiblingsApproved(r) \/ Refuse(r)
  \/ FlushAgent(r) \/ Commit(r)

Next ==
  \/ \E r \in Request : Start(r) \/ Step(r) \/ Abort(r)
  \/ DueDatePasses

Spec == Init /\ [][Next]_vars

\* A request that has begun keeps executing statements, and PostgreSQL hands a
\* row lock to its waiters in the order they asked: nobody waits for it forever.
FairSpec == Spec /\ \A r \in Request : SF_vars(Step(r))

=============================================================================
