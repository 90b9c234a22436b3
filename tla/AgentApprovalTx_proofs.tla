----------------------- MODULE AgentApprovalTx_proofs -----------------------
(***************************************************************************)
(* What every interleaving of any number of requests keeps: a released     *)
(* agent had every stage of one submission approved.  And what requests    *)
(* do that never overlap: the atomic steps of AgentApproval.               *)
(***************************************************************************)
EXTENDS AgentApprovalTxProps, FiniteSetTheorems, SequenceTheorems, TLAPS

Stages == Cardinality(ConfiguredStages)

Task == [round : 1..MaxRound, stage : ConfiguredStages,
         decision : {"pending", "approved", "rejected"}]

Op ==
  {NoOp} \cup [kind : {"register", "update", "submit", "move"}]
  \cup [kind : {"decide"}, task : Nat, verdict : {"approved", "rejected"}]
  \cup [kind : {"sweep"}, found : SUBSET Nat]

PC == {"idle", "load_agent", "flush_tasks", "siblings", "reject_agent",
       "flush_agent", "commit"}

\* Every stage of submission n has been committed as approved at some time.
Endorsed(n) == \A s \in ConfiguredStages : \E i \in endorsed :
                  tasks[i].round = n /\ tasks[i].stage = s

SomeEndorsed == \E n \in 1..MaxRound : Endorsed(n)

\* ... or will have been when r commits the approval it is about to.
EndorsedBy(r, n) == \A s \in ConfiguredStages : \E i \in endorsed \cup {op[r].task} :
                  tasks[i].round = n /\ tasks[i].stage = s

Endorsing(r) ==
  /\ op[r].kind = "decide" /\ op[r].verdict = "approved"
  /\ \E n \in 1..MaxRound : EndorsedBy(r, n)

\* The round a request of kind k gives the agent it loaded in round n.
NextRound(k, n) == IF k = "submit" THEN n + 1 ELSE IF k = "register" THEN 0 ELSE n

TasksInv ==
  /\ tasks \in Seq(Task)
  /\ endorsed \subseteq DOMAIN tasks
  /\ \A i \in DOMAIN tasks : tasks[i].decision = "approved" => i \in endorsed
  /\ \A i \in DOMAIN tasks, s \in ConfiguredStages : \E j \in DOMAIN tasks :
       tasks[j].round = tasks[i].round /\ tasks[j].stage = s

RowInv ==
  /\ row \in Row
  /\ row.round * Stages <= Len(tasks)
  /\ row.status \in Released => SomeEndorsed

RequestInv(r) ==
  /\ pc[r] = "idle" => op[r] = NoOp
  /\ op[r].kind = "decide" => op[r].task \in DOMAIN tasks
  /\ pc[r] \in {"load_agent", "siblings", "reject_agent"} => op[r].kind = "decide"
  /\ pc[r] = "siblings" => op[r].verdict = "approved"
  /\ pc[r] = "flush_tasks" => op[r].kind \in {"decide", "sweep"}
  /\ seen[r].round * Stages <= Len(tasks)
  /\ want[r].round = NextRound(op[r].kind, seen[r].round)
  /\ seen[r].status \in Released => SomeEndorsed
  /\ want[r].status \in Released => SomeEndorsed \/ Endorsing(r)

ApprovalInv ==
  /\ pc \in [Request -> PC] /\ op \in [Request -> Op]
  /\ seen \in [Request -> Row] /\ want \in [Request -> Row]
  /\ TasksInv /\ RowInv
  /\ \A r \in Request : RequestInv(r)

----------------------------------------------------------------------------

\* A deployment has at least one stage.
LEMMA StagesPositive == Stages \in Nat /\ Stages > 0
  BY StagesAssumption, FS_CardinalityType, FS_EmptySet, SMT DEF StagesAssumption, Stages

\* SetToSeq lists every element of a finite set.
LEMMA SetToSeqLists ==
  ASSUME NEW S, IsFiniteSet(S)
  PROVE  /\ SetToSeq(S) \in [1..Cardinality(S) -> S]
         /\ \A s \in S : \E k \in 1..Cardinality(S) : SetToSeq(S)[k] = s
         /\ \A j, k \in 1..Cardinality(S) : SetToSeq(S)[j] = SetToSeq(S)[k] => j = k
<1> DEFINE D == 1..Cardinality(S)
           f == SetToSeq(S)
<1>1. Cardinality(S) \in Nat /\ Bijection(D, S) # {}
  BY FS_CardinalityType DEF ExistsBijection
<1>2. \E g \in [D -> S] : IsInjective(g)
  BY <1>1, Zenon DEF Bijection, Injection
<1>3. f \in [D -> S] /\ IsInjective(f)
  BY <1>2, Zenon DEF SetToSeq
<1>4. f \in Injection(D, S)
  BY <1>3, Zenon DEF Injection
<1>5. Cardinality(D) = Cardinality(S)
  BY <1>1, FS_Interval, SMT
<1>6. f \in Surjection(D, S)
  BY <1>4, <1>5, FS_Injection
<1>7. \A j, k \in D : f[j] = f[k] => j = k
  BY <1>3, Zenon DEF IsInjective
<1> QED BY <1>3, <1>6, <1>7, Zenon DEF Surjection

\* The tasks of a submission: one per stage, undecided.
LEMMA NewTasksProperties ==
  ASSUME NEW n \in 1..MaxRound
  PROVE  /\ NewTasks(n) \in Seq(Task)
         /\ Len(NewTasks(n)) = Stages
         /\ \A k \in 1..Stages : NewTasks(n)[k].round = n /\ NewTasks(n)[k].decision = "pending"
         /\ \A s \in ConfiguredStages : \E k \in 1..Stages : NewTasks(n)[k].stage = s
         /\ \A j, k \in 1..Stages : NewTasks(n)[j].stage = NewTasks(n)[k].stage => j = k
<1> DEFINE f == SetToSeq(ConfiguredStages)
           new(s) == [round |-> n, stage |-> s, decision |-> "pending"]
<1>1. /\ f \in [1..Stages -> ConfiguredStages]
      /\ \A s \in ConfiguredStages : \E k \in 1..Stages : f[k] = s
      /\ \A j, k \in 1..Stages : f[j] = f[k] => j = k
  BY SetToSeqLists, StagesAssumption DEF StagesAssumption, Stages
<1> HIDE DEF f
<1>2. NewTasks(n) = [k \in 1..Stages |-> new(f[k])]
  BY <1>1 DEF NewTasks, f
<1>3. NewTasks(n) \in [1..Stages -> Task]
  BY <1>1, <1>2 DEF Task
<1>4. NewTasks(n) \in Seq(Task) /\ Len(NewTasks(n)) = Stages
  BY <1>3, StagesPositive, SMT
<1>5. \A k \in 1..Stages : /\ NewTasks(n)[k].round = n
                           /\ NewTasks(n)[k].stage = f[k]
                           /\ NewTasks(n)[k].decision = "pending"
  BY <1>2
<1>6. \A s \in ConfiguredStages : \E k \in 1..Stages : NewTasks(n)[k].stage = s
  BY <1>1, <1>5
<1>7. \A j, k \in 1..Stages : NewTasks(n)[j].stage = NewTasks(n)[k].stage => j = k
  BY <1>1, <1>5
<1> QED BY <1>4, <1>5, <1>6, <1>7, Zenon

\* A list of tasks, followed by those of a submission.
LEMMA Appended ==
  ASSUME NEW list \in Seq(Task), NEW n \in 1..MaxRound
  PROVE  /\ list \o NewTasks(n) \in Seq(Task)
         /\ Len(list \o NewTasks(n)) = Len(list) + Stages
         /\ \A i \in DOMAIN list : /\ i \in DOMAIN (list \o NewTasks(n))
                                   /\ (list \o NewTasks(n))[i] = list[i]
         /\ \A k \in 1..Stages : /\ Len(list) + k \in DOMAIN (list \o NewTasks(n))
                                 /\ (list \o NewTasks(n))[Len(list) + k] = NewTasks(n)[k]
         /\ \A i \in DOMAIN (list \o NewTasks(n)) :
              i \in DOMAIN list \/ \E k \in 1..Stages : i = Len(list) + k
<1> DEFINE new == NewTasks(n)
           both == list \o new
<1>1. new \in Seq(Task) /\ Len(new) = Stages
  BY NewTasksProperties
<1>2. Len(list) \in Nat /\ Stages \in Nat /\ DOMAIN list = 1..Len(list)
  BY StagesPositive
<1> HIDE DEF new
<1>3. /\ both \in Seq(Task) /\ Len(both) = Len(list) + Stages
      /\ \A i \in 1..Len(list) + Stages :
           both[i] = IF i <= Len(list) THEN list[i] ELSE new[i - Len(list)]
  <2>1. /\ both \in Seq(Task) /\ Len(both) = Len(list) + Len(new)
        /\ \A i \in 1..Len(list) + Len(new) :
             both[i] = IF i <= Len(list) THEN list[i] ELSE new[i - Len(list)]
    BY <1>1, ConcatProperties, Zenon
  <2> QED BY <1>1, <2>1, Zenon
<1> HIDE DEF both
<1>4. DOMAIN both = 1..Len(list) + Stages
  BY <1>2, <1>3
<1>5. \A i \in DOMAIN list : i \in DOMAIN both /\ both[i] = list[i]
  <2>1. \A i \in 1..Len(list) : i \in 1..Len(list) + Stages /\ i <= Len(list)
    BY <1>2, SMT
  <2> QED BY <1>2, <1>3, <1>4, <2>1, Zenon
<1>6. \A k \in 1..Stages : Len(list) + k \in DOMAIN both /\ both[Len(list) + k] = new[k]
  <2>1. \A k \in 1..Stages : /\ Len(list) + k \in 1..Len(list) + Stages
                             /\ ~(Len(list) + k <= Len(list))
                             /\ (Len(list) + k) - Len(list) = k
    BY <1>2, SMT
  <2> QED BY <1>3, <1>4, <2>1, Zenon
<1>7. ASSUME NEW i \in DOMAIN both, i \notin DOMAIN list
      PROVE  \E k \in 1..Stages : i = Len(list) + k
  <2>1. i - Len(list) \in 1..Stages /\ i = Len(list) + (i - Len(list))
    BY <1>2, <1>4, <1>7, SMT
  <2> QED BY <2>1
<1> QED BY <1>3, <1>5, <1>6, <1>7 DEF both, new

----------------------------------------------------------------------------
\* Tasks are only added and approvals only accumulate.

Grown ==
  /\ Len(tasks) <= Len(tasks')
  /\ \A i \in DOMAIN tasks : /\ i \in DOMAIN tasks'
                             /\ tasks'[i].round = tasks[i].round
                             /\ tasks'[i].stage = tasks[i].stage
  /\ endorsed \subseteq endorsed'

\* What r knows and is about to do is unchanged.
Kept(r) == pc'[r] = pc[r] /\ op'[r] = op[r] /\ seen'[r] = seen[r] /\ want'[r] = want[r]

\* A submission that was endorsed stays so while tasks and approvals only grow.
LEMMA EndorsedStays ==
  ASSUME TasksInv, Grown, SomeEndorsed
  PROVE  SomeEndorsed'
  BY DEF TasksInv, Grown, SomeEndorsed, Endorsed

\* So does one that the decision of r will endorse.
LEMMA EndorsingStays ==
  ASSUME TasksInv, Grown, NEW r, op'[r] = op[r], op[r].task \in DOMAIN tasks, Endorsing(r)
  PROVE  Endorsing(r)'
<1>1. PICK n \in 1..MaxRound : EndorsedBy(r, n)
  BY DEF Endorsing
<1>2. EndorsedBy(r, n)'
  <2> SUFFICES ASSUME NEW s \in ConfiguredStages
               PROVE  \E i \in endorsed' \cup {op[r].task} : tasks'[i].round = n /\ tasks'[i].stage = s
    BY DEF EndorsedBy
  <2>1. PICK i \in endorsed \cup {op[r].task} : tasks[i].round = n /\ tasks[i].stage = s
    BY <1>1 DEF EndorsedBy
  <2>2. i \in DOMAIN tasks
    BY DEF TasksInv
  <2>3. tasks'[i].round = n /\ tasks'[i].stage = s /\ i \in endorsed' \cup {op[r].task}
    BY <2>1, <2>2 DEF Grown
  <2> QED
    BY <2>3
<1> QED
  BY <1>2 DEF Endorsing

\* What is known of a request survives what others commit.
LEMMA KeptRequest ==
  ASSUME ApprovalInv, Grown, tasks' \in Seq(Task), NEW r \in Request, Kept(r)
  PROVE  RequestInv(r)'
<1>1. RequestInv(r) /\ TasksInv /\ seen[r] \in Row
  BY DEF ApprovalInv
<1>2. seen[r].round * Stages \in Nat /\ Len(tasks) \in Nat /\ Len(tasks') \in Nat
  BY <1>1, StagesPositive, BoundAssumption, SMT DEF Row, TasksInv, BoundAssumption
<1>3. seen[r].round * Stages <= Len(tasks')
  BY <1>1, <1>2, SMT DEF RequestInv, Grown
<1>4. op[r].kind = "decide" => op[r].task \in DOMAIN tasks'
  BY <1>1 DEF RequestInv, Grown
<1>5. SomeEndorsed => SomeEndorsed'
  BY <1>1, EndorsedStays
<1>6. Endorsing(r) => Endorsing(r)'
  BY <1>1, EndorsingStays DEF RequestInv, Endorsing, Kept
<1> QED BY <1>1, <1>3, <1>4, <1>5, <1>6, Zenon DEF RequestInv, Kept

\* So does what is known of the agent's row.
LEMMA KeptRow ==
  ASSUME ApprovalInv, Grown, tasks' \in Seq(Task), row' = row
  PROVE  RowInv'
<1>1. RowInv /\ TasksInv
  BY DEF ApprovalInv
<1>2. row.round * Stages \in Nat /\ Len(tasks) \in Nat /\ Len(tasks') \in Nat
  BY <1>1, StagesPositive, BoundAssumption, SMT DEF Row, RowInv, TasksInv, BoundAssumption
<1> QED BY <1>1, <1>2, EndorsedStays, SMT DEF RowInv, Grown


\* A step that leaves the database alone lets it grow by nothing.
LEMMA SameGrown ==
  ASSUME TasksInv, UNCHANGED database
  PROVE  Grown /\ tasks' \in Seq(Task) /\ TasksInv' /\ row' = row
<1>1. Len(tasks) \in Nat
  BY DEF TasksInv
<1> QED BY <1>1, SMT DEF Grown, TasksInv, database

\* A step of one request that leaves the database alone.
LEMMA OneRequest ==
  ASSUME ApprovalInv, UNCHANGED database, NEW r \in Request,
         pc' \in [Request -> PC], op' \in [Request -> Op],
         seen' \in [Request -> Row], want' \in [Request -> Row],
         \A q \in Request \ {r} : Kept(q),
         RequestInv(r)'
  PROVE  ApprovalInv'
<1>1. Grown /\ tasks' \in Seq(Task) /\ TasksInv' /\ row' = row
  BY SameGrown DEF ApprovalInv
<1>2. RowInv'
  BY <1>1, KeptRow
<1>3. \A q \in Request : RequestInv(q)'
  BY <1>1, KeptRequest, Zenon
<1> QED BY <1>1, <1>2, <1>3, Zenon DEF ApprovalInv


----------------------------------------------------------------------------
\* The steps of a request, up to its commit.

Simple == {"register", "update", "submit", "move"}

\* A handler that starts with an admissible object keeps the invariant.
LEMMA BeginKeepsInv ==
  ASSUME ApprovalInv, NEW r \in Request, NEW k \in Simple, NEW object \in Row,
         Begin(r, [kind |-> k], object),
         object.round = NextRound(k, row.round),
         object.status \in Released => row.status \in Released
  PROVE  ApprovalInv'
<1> DEFINE o == [kind |-> k]
<1>1. o \in Op /\ o.kind = k
  BY DEF Op, Simple
<1> HIDE DEF o
<1>2. /\ pc' = [pc EXCEPT ![r] = "flush_agent"] /\ op' = [op EXCEPT ![r] = o]
      /\ seen' = [seen EXCEPT ![r] = row] /\ want' = [want EXCEPT ![r] = object]
      /\ UNCHANGED database
  BY DEF Begin, o
<1>3. /\ pc \in [Request -> PC] /\ op \in [Request -> Op]
      /\ seen \in [Request -> Row] /\ want \in [Request -> Row]
      /\ RowInv /\ TasksInv
  BY DEF ApprovalInv
<1>4. /\ pc' \in [Request -> PC] /\ op' \in [Request -> Op]
      /\ seen' \in [Request -> Row] /\ want' \in [Request -> Row]
  BY <1>1, <1>2, <1>3 DEF RowInv, PC
<1>5. \A q \in Request \ {r} : Kept(q)
  BY <1>2, <1>3 DEF Kept
<1>6. pc'[r] = "flush_agent" /\ op'[r] = o /\ seen'[r] = row /\ want'[r] = object
  BY <1>2, <1>3
<1>7. SomeEndorsed => SomeEndorsed'
  BY <1>2, <1>3, SameGrown, EndorsedStays
<1>8. row.round * Stages <= Len(tasks')
  BY <1>2, <1>3 DEF RowInv, database
<1>9. RequestInv(r)'
  BY <1>1, <1>3, <1>6, <1>7, <1>8 DEF RequestInv, RowInv, Simple
<1> QED BY <1>2, <1>4, <1>5, <1>9, OneRequest

\* register_agent has loaded nothing that could be stale.
LEMMA StartRegisterKeepsInv ==
  ASSUME ApprovalInv, NEW r \in Request, NEW c \in Content, StartRegister(r, c)
  PROVE  ApprovalInv'
<1> DEFINE object == [status |-> "draft", content |-> c, round |-> 0]
<1>1. row \in Row /\ row.status = "unregistered" /\ Begin(r, [kind |-> "register"], object)
  BY DEF StartRegister, ApprovalInv, RowInv
<1>2. object \in Row /\ object.status \notin Released /\ object.round = NextRound("register", row.round)
  BY BoundAssumption DEF Row, Status, Released, NextRound, BoundAssumption
<1> QED BY <1>1, <1>2, BeginKeepsInv, Zenon DEF Simple


\* update_agent keeps the status and the round it loaded.
LEMMA StartUpdateKeepsInv ==
  ASSUME ApprovalInv, NEW r \in Request, NEW c \in Content, StartUpdate(r, c)
  PROVE  ApprovalInv'
<1> DEFINE object == [row EXCEPT !.content = c]
<1>1. row \in Row /\ Begin(r, [kind |-> "update"], object)
  BY DEF StartUpdate, ApprovalInv, RowInv
<1>2. object \in Row /\ object.status = row.status /\ object.round = NextRound("update", row.round)
  BY <1>1 DEF Row, NextRound
<1> QED BY <1>1, <1>2, BeginKeepsInv, Zenon DEF Simple

\* transition_agent releases only what was released or endorsed.
LEMMA StartMoveKeepsInv ==
  ASSUME ApprovalInv, NEW r \in Request, NEW target \in Status, StartMove(r, target)
  PROVE  ApprovalInv'
<1> DEFINE object == [row EXCEPT !.status = target]
<1>1. row \in Row /\ Begin(r, [kind |-> "move"], object)
  BY DEF StartMove, ApprovalInv, RowInv
<1>2. object \in Row /\ object.status = target /\ object.round = NextRound("move", row.round)
  BY <1>1 DEF Row, NextRound
<1>3. row.status \in Released
  BY SMT DEF StartMove, CanTransition, AllowedTransitions, Released
<1> QED BY <1>1, <1>2, <1>3, BeginKeepsInv, Zenon DEF Simple

\* The bound on submissions leaves room for the round the submission will open.
LEMMA RoundFits ==
  ASSUME NEW a \in Nat, NEW b \in Nat, NEW c \in Nat, NEW k \in Nat, NEW n \in Nat,
         c > 0, a * c <= n, n + c * (1 + k) <= b * c
  PROVE  a + 1 <= b
<1>1. c * (1 + k) = c + c * k /\ c * k >= 0
  BY SMT
<1>2. (a + 1) * c = a * c + c
  BY SMT
<1>3. (a + 1) * c <= b * c
  BY <1>1, <1>2, SMT
<1> QED BY <1>3, SMT

\* submit_for_review gives the next round.
LEMMA StartSubmitKeepsInv ==
  ASSUME ApprovalInv, NEW r \in Request, StartSubmit(r)
  PROVE  ApprovalInv'
<1> DEFINE object == [row EXCEPT !.status = "under_review", !.round = @ + 1]
           k == Cardinality({q \in Request : op[q].kind = "submit"})
<1>1. row \in Row /\ Begin(r, [kind |-> "submit"], object) /\ RowInv /\ TasksInv
  BY DEF StartSubmit, ApprovalInv, RowInv
<1>2. k \in Nat
  BY RequestAssumption, FS_Subset, FS_CardinalityType DEF RequestAssumption
<1>3. Len(tasks) + Stages * (1 + k) <= MaxRound * Stages
  BY DEF StartSubmit, MaxTask, Stages
<1> HIDE DEF k
<1>4. row.round \in Nat /\ MaxRound \in Nat /\ Len(tasks) \in Nat
  BY <1>1, BoundAssumption DEF Row, TasksInv, BoundAssumption
<1>5. row.round + 1 <= MaxRound
  BY <1>1, <1>2, <1>3, <1>4, StagesPositive, RoundFits DEF RowInv
<1>6. row.round + 1 \in 0..MaxRound /\ "under_review" \in Status
  BY <1>4, <1>5 DEF Status
<1>7. object \in Row /\ object.status = "under_review" /\ object.round = row.round + 1
  BY <1>1, <1>6 DEF Row
<1>8. object.status \notin Released /\ object.round = NextRound("submit", row.round)
  BY <1>7 DEF Released, NextRound
<1> QED BY <1>1, <1>7, <1>8, BeginKeepsInv, Zenon DEF Simple


\* What RequestInv says of the statement a request executes next.
Placed(o, where) ==
  /\ where # "idle"
  /\ where \in {"load_agent", "siblings", "reject_agent"} => o.kind = "decide"
  /\ where = "siblings" => o.verdict = "approved"
  /\ where = "flush_tasks" => o.kind \in {"decide", "sweep"}

\* A statement that changes neither the request's objects nor the database.
LEMMA NextStatementKeepsInv ==
  ASSUME ApprovalInv, NEW r \in Request, NEW where \in PC, Placed(op[r], where),
         pc' = [pc EXCEPT ![r] = where], UNCHANGED <<op, seen, want, database>>
  PROVE  ApprovalInv'
<1>1. /\ pc \in [Request -> PC] /\ op \in [Request -> Op]
      /\ seen \in [Request -> Row] /\ want \in [Request -> Row]
      /\ TasksInv /\ RequestInv(r)
  BY DEF ApprovalInv
<1>2. pc' \in [Request -> PC] /\ pc'[r] = where /\ \A q \in Request \ {r} : Kept(q)
  BY <1>1 DEF Kept
<1>3. tasks' = tasks /\ (SomeEndorsed => SomeEndorsed') /\ (Endorsing(r) => Endorsing(r)')
  BY <1>1 DEF database, SomeEndorsed, Endorsed, Endorsing, EndorsedBy
<1>4. RequestInv(r)'
  BY <1>1, <1>2, <1>3 DEF RequestInv, Placed
<1> QED BY <1>1, <1>2, <1>4, OneRequest

\* The flush of one changed task, under its lock.
LEMMA FlushTaskKeepsInv ==
  ASSUME ApprovalInv, NEW r \in Request, FlushTask(r)
  PROVE  ApprovalInv'
<1>1. pc \in [Request -> PC] /\ pc[r] = "flush_tasks" /\ RequestInv(r)
  BY DEF ApprovalInv, FlushTask
<1>2. pc' = [pc EXCEPT ![r] = "flush_tasks"] /\ UNCHANGED <<op, seen, want, database>>
  BY <1>1 DEF FlushTask
<1>3. Placed(op[r], "flush_tasks")
  BY <1>1 DEF RequestInv, Placed
<1> QED BY <1>2, <1>3, NextStatementKeepsInv DEF PC

\* The last task is flushed.
LEMMA TasksFlushedKeepsInv ==
  ASSUME ApprovalInv, NEW r \in Request, TasksFlushed(r)
  PROVE  ApprovalInv'
<1> DEFINE where == IF op[r].kind = "sweep" THEN "commit"
                    ELSE IF op[r].verdict = "approved" THEN "siblings" ELSE "reject_agent"
<1>1. pc[r] = "flush_tasks" /\ RequestInv(r)
  BY DEF ApprovalInv, TasksFlushed
<1>2. pc' = [pc EXCEPT ![r] = where] /\ UNCHANGED <<op, seen, want, database>>
  BY DEF TasksFlushed
<1>3. Placed(op[r], where) /\ where \in PC
  BY <1>1 DEF RequestInv, Placed, PC
<1> HIDE DEF where
<1> QED BY <1>2, <1>3, NextStatementKeepsInv

\* A stage is approved while others are open.
LEMMA SiblingsOpenKeepsInv ==
  ASSUME ApprovalInv, NEW r \in Request, SiblingsOpen(r)
  PROVE  ApprovalInv'
<1>1. pc' = [pc EXCEPT ![r] = "commit"] /\ UNCHANGED <<op, seen, want, database>>
  BY DEF SiblingsOpen
<1> QED BY <1>1, NextStatementKeepsInv DEF PC, Placed

\* The flush of the agent's row, under its lock if the request changed it.
LEMMA FlushAgentKeepsInv ==
  ASSUME ApprovalInv, NEW r \in Request, FlushAgent(r)
  PROVE  ApprovalInv'
<1>1. pc' = [pc EXCEPT ![r] = "commit"] /\ UNCHANGED <<op, seen, want, database>>
  BY DEF FlushAgent
<1> QED BY <1>1, NextStatementKeepsInv DEF PC, Placed

\* A statement that changes the status of the request's agent object.
LEMMA WantKeepsInv ==
  ASSUME ApprovalInv, NEW r \in Request, NEW status \in Status,
         op[r].kind = "decide",
         pc' = [pc EXCEPT ![r] = "flush_agent"],
         want' = [want EXCEPT ![r].status = status],
         UNCHANGED <<op, seen, database>>,
         status \in Released => Endorsing(r)
  PROVE  ApprovalInv'
<1>1. /\ pc \in [Request -> PC] /\ op \in [Request -> Op]
      /\ seen \in [Request -> Row] /\ want \in [Request -> Row]
      /\ TasksInv /\ RequestInv(r)
  BY DEF ApprovalInv
<1>2. /\ pc' \in [Request -> PC] /\ pc'[r] = "flush_agent"
      /\ want' \in [Request -> Row] /\ want'[r].status = status
      /\ want'[r].round = want[r].round
      /\ \A q \in Request \ {r} : Kept(q)
  BY <1>1 DEF Kept, Row, PC
<1>3. tasks' = tasks /\ (SomeEndorsed => SomeEndorsed') /\ (Endorsing(r) => Endorsing(r)')
  BY <1>1 DEF database, SomeEndorsed, Endorsed, Endorsing, EndorsedBy
<1>4. RequestInv(r)'
  BY <1>1, <1>2, <1>3 DEF RequestInv
<1> QED BY <1>1, <1>2, <1>4, OneRequest

\* A rejection rejects the agent it loaded, whatever its status.
LEMMA RejectAgentKeepsInv ==
  ASSUME ApprovalInv, NEW r \in Request, RejectAgent(r)
  PROVE  ApprovalInv'
<1>1. op[r].kind = "decide"
  BY DEF ApprovalInv, RequestInv, RejectAgent
<1>2. /\ pc' = [pc EXCEPT ![r] = "flush_agent"]
      /\ want' = [want EXCEPT ![r].status = "rejected"]
      /\ UNCHANGED <<op, seen, database>>
  BY DEF RejectAgent
<1> QED BY <1>1, <1>2, WantKeepsInv DEF Status, Released

\* When every sibling of the task is approved, by a commit or by the decision
\* the request is about to commit, its round is endorsed or about to be.
LEMMA AllApprovedEndorses ==
  ASSUME ApprovalInv, NEW r \in Request, pc[r] = "siblings", AllApproved(r)
  PROVE  Endorsing(r)
<1> DEFINE i == op[r].task
<1>1. TasksInv /\ RequestInv(r)
  BY DEF ApprovalInv
<1>2. op[r].kind = "decide" /\ op[r].verdict = "approved" /\ i \in DOMAIN tasks
  BY <1>1 DEF RequestInv
<1> HIDE DEF i
<1>3. tasks[i] \in Task
  BY <1>1, <1>2 DEF TasksInv, i
<1>4. tasks[i].round \in 1..MaxRound
  BY <1>3 DEF Task
<1>5. ASSUME NEW s \in ConfiguredStages
      PROVE  \E j \in endorsed \cup {i} : tasks[j].round = tasks[i].round /\ tasks[j].stage = s
  <2>1. PICK j \in DOMAIN tasks : tasks[j].round = tasks[i].round /\ tasks[j].stage = s
    BY <1>1, <1>2 DEF TasksInv, i
  <2>2. View(r)[j].decision = "approved"
    BY <2>1 DEF AllApproved, Siblings, i
  <2>3. CASE j = i
    BY <2>1, <2>3
  <2>4. CASE j # i
    <3>1. View(r)[j] = tasks[j]
      BY <1>2, <2>1, <2>4 DEF View, i
    <3> QED BY <1>1, <2>1, <2>2, <3>1 DEF TasksInv
  <2> QED BY <2>3, <2>4
<1> QED BY <1>2, <1>4, <1>5 DEF Endorsing, EndorsedBy, i

\* An agent is approved only with all stages in sight.
LEMMA SiblingsApprovedKeepsInv ==
  ASSUME ApprovalInv, NEW r \in Request, SiblingsApproved(r)
  PROVE  ApprovalInv'
<1>1. op[r].kind = "decide" /\ Endorsing(r)
  BY AllApprovedEndorses DEF SiblingsApproved, Endorsing
<1>2. /\ pc' = [pc EXCEPT ![r] = "flush_agent"]
      /\ want' = [want EXCEPT ![r].status = "approved"]
      /\ UNCHANGED <<op, seen, database>>
  BY DEF SiblingsApproved
<1> QED BY <1>1, <1>2, WantKeepsInv DEF Status


\* A session that is given back holds nothing.
LEMMA EndedRequest ==
  ASSUME ApprovalInv, NEW r \in Request, End(r), tasks' \in Seq(Task)
  PROVE  /\ pc' \in [Request -> PC] /\ op' \in [Request -> Op]
         /\ seen' \in [Request -> Row] /\ want' \in [Request -> Row]
         /\ \A q \in Request \ {r} : Kept(q)
         /\ RequestInv(r)'
<1>1. /\ pc \in [Request -> PC] /\ op \in [Request -> Op]
      /\ seen \in [Request -> Row] /\ want \in [Request -> Row]
  BY DEF ApprovalInv
<1>2. NoRow \in Row /\ NoRow.round = 0 /\ NoRow.status = "unregistered"
  BY BoundAssumption DEF NoRow, Row, BoundAssumption
<1>3. NoOp \in Op /\ NoOp.kind = "none"
  BY DEF NoOp, Op
<1>4. /\ pc' \in [Request -> PC] /\ op' \in [Request -> Op]
      /\ seen' \in [Request -> Row] /\ want' \in [Request -> Row]
      /\ \A q \in Request \ {r} : Kept(q)
      /\ pc'[r] = "idle" /\ op'[r] = NoOp /\ seen'[r] = NoRow /\ want'[r] = NoRow
  BY <1>1, <1>2, <1>3 DEF End, Kept, PC
<1>5. 0 * Stages = 0 /\ Len(tasks') \in Nat
  BY StagesPositive, SMT
<1>6. RequestInv(r)'
  BY <1>2, <1>3, <1>4, <1>5, SMT DEF RequestInv, NextRound, Released
<1> QED BY <1>4, <1>6

\* A request that ends without a commit leaves nothing behind.
LEMMA GivenUpKeepsInv ==
  ASSUME ApprovalInv, NEW r \in Request, End(r), UNCHANGED database
  PROVE  ApprovalInv'
<1>1. tasks' \in Seq(Task)
  BY SameGrown DEF ApprovalInv
<1> QED BY <1>1, EndedRequest, OneRequest, Zenon

\* decide starts with a pending task.
LEMMA StartDecideKeepsInv ==
  ASSUME ApprovalInv, NEW r \in Request, NEW i \in DOMAIN tasks,
         NEW v \in {"approved", "rejected"}, StartDecide(r, i, v)
  PROVE  ApprovalInv'
<1> DEFINE o == [kind |-> "decide", task |-> i, verdict |-> v]
<1>1. /\ pc \in [Request -> PC] /\ op \in [Request -> Op]
      /\ seen \in [Request -> Row] /\ want \in [Request -> Row]
      /\ TasksInv /\ RequestInv(r)
  BY DEF ApprovalInv
<1>2. /\ pc' = [pc EXCEPT ![r] = "load_agent"] /\ op' = [op EXCEPT ![r] = o]
      /\ UNCHANGED <<seen, want, database>>
  BY DEF StartDecide
<1>3. i \in Nat
  BY <1>1 DEF TasksInv
<1>4. o \in Op /\ o.kind = "decide" /\ o.task = i
  BY <1>3 DEF Op
<1> HIDE DEF o
<1>5. /\ pc' \in [Request -> PC] /\ op' \in [Request -> Op]
      /\ \A q \in Request \ {r} : Kept(q)
      /\ pc'[r] = "load_agent" /\ op'[r] = o
  BY <1>1, <1>2, <1>4 DEF Kept, PC
<1>6. op[r] = NoOp /\ NoOp.kind = "none"
  BY <1>1 DEF RequestInv, StartDecide, NoOp
<1>7. tasks' = tasks /\ (SomeEndorsed => SomeEndorsed') /\ ~Endorsing(r)
  BY <1>2, <1>6 DEF database, SomeEndorsed, Endorsed, Endorsing
<1>8. RequestInv(r)'
  BY <1>1, <1>2, <1>4, <1>5, <1>6, <1>7 DEF RequestInv, NextRound
<1> QED BY <1>1, <1>2, <1>5, <1>8, OneRequest

\* decide loads the agent after its task.
LEMMA LoadAgentKeepsInv ==
  ASSUME ApprovalInv, NEW r \in Request, LoadAgent(r)
  PROVE  ApprovalInv'
<1>1. /\ pc \in [Request -> PC] /\ op \in [Request -> Op]
      /\ seen \in [Request -> Row] /\ want \in [Request -> Row]
      /\ TasksInv /\ RowInv /\ RequestInv(r)
  BY DEF ApprovalInv
<1>2. /\ pc' = [pc EXCEPT ![r] = "flush_tasks"] /\ UNCHANGED <<op, database>>
      /\ seen' = [seen EXCEPT ![r] = row] /\ want' = [want EXCEPT ![r] = row]
  BY DEF LoadAgent
<1>3. row \in Row
  BY <1>1 DEF RowInv
<1>4. /\ pc' \in [Request -> PC] /\ pc'[r] = "flush_tasks"
      /\ seen' \in [Request -> Row] /\ seen'[r] = row
      /\ want' \in [Request -> Row] /\ want'[r] = row
      /\ \A q \in Request \ {r} : Kept(q)
  BY <1>1, <1>2, <1>3 DEF Kept, PC
<1>5. tasks' = tasks /\ (SomeEndorsed => SomeEndorsed')
  BY <1>2 DEF database, SomeEndorsed, Endorsed
<1>6. op[r].kind = "decide"
  BY <1>1 DEF RequestInv, LoadAgent
<1>7. RequestInv(r)'
  BY <1>1, <1>2, <1>4, <1>5, <1>6 DEF RequestInv, RowInv, NextRound
<1> QED BY <1>1, <1>2, <1>4, <1>7, OneRequest

\* The sweep reads the tasks that are overdue.
LEMMA StartSweepKeepsInv ==
  ASSUME ApprovalInv, NEW r \in Request, StartSweep(r)
  PROVE  ApprovalInv'
<1> DEFINE o == [kind |-> "sweep", found |-> Overdue]
<1>1. /\ pc \in [Request -> PC] /\ op \in [Request -> Op]
      /\ seen \in [Request -> Row] /\ want \in [Request -> Row]
      /\ TasksInv /\ RequestInv(r)
  BY DEF ApprovalInv
<1>2. /\ pc' = [pc EXCEPT ![r] = "flush_tasks"] /\ op' = [op EXCEPT ![r] = o]
      /\ UNCHANGED <<seen, want, database>>
  BY DEF StartSweep
<1>3. Overdue \in SUBSET Nat
  BY <1>1 DEF TasksInv, Overdue
<1>4. o \in Op /\ o.kind = "sweep"
  BY <1>3 DEF Op
<1> HIDE DEF o
<1>5. /\ pc' \in [Request -> PC] /\ op' \in [Request -> Op]
      /\ \A q \in Request \ {r} : Kept(q)
      /\ pc'[r] = "flush_tasks" /\ op'[r] = o
  BY <1>1, <1>2, <1>4 DEF Kept, PC
<1>6. op[r] = NoOp /\ NoOp.kind = "none"
  BY <1>1 DEF RequestInv, StartSweep, NoOp
<1>7. tasks' = tasks /\ (SomeEndorsed => SomeEndorsed') /\ ~Endorsing(r)
  BY <1>2, <1>6 DEF database, SomeEndorsed, Endorsed, Endorsing
<1>8. RequestInv(r)'
  BY <1>1, <1>2, <1>4, <1>5, <1>6, <1>7 DEF RequestInv, NextRound
<1> QED BY <1>1, <1>2, <1>5, <1>8, OneRequest

\* A due date passes.
LEMMA DueDatePassesKeepsInv ==
  ASSUME ApprovalInv, DueDatePasses
  PROVE  ApprovalInv'
<1>1. UNCHANGED <<pc, op, seen, want, tasks, endorsed, row>>
  BY DEF DueDatePasses, local
<1> QED BY <1>1 DEF ApprovalInv, TasksInv, RowInv, RequestInv, SomeEndorsed, Endorsed,
                    Endorsing, EndorsedBy

----------------------------------------------------------------------------
\* The commit.

\* A submission adds one task per stage.
LEMMA SubmissionGrows ==
  ASSUME TasksInv, NEW n \in 1..MaxRound, tasks' = tasks \o NewTasks(n),
         endorsed' = {i \in DOMAIN tasks' : i \in endorsed \/ tasks'[i].decision = "approved"}
  PROVE  Grown /\ TasksInv' /\ Len(tasks') = Len(tasks) + Stages
<1> DEFINE new == NewTasks(n)
<1>1. /\ new \in Seq(Task) /\ Len(new) = Stages
      /\ \A k \in 1..Stages : new[k].round = n /\ new[k].decision = "pending"
      /\ \A s \in ConfiguredStages : \E k \in 1..Stages : new[k].stage = s
  BY NewTasksProperties
<1>2. tasks \in Seq(Task) /\ Len(tasks) \in Nat /\ Stages \in Nat
  BY StagesPositive DEF TasksInv
<1> HIDE DEF new
<1>3. /\ tasks' \in Seq(Task) /\ Len(tasks') = Len(tasks) + Stages
      /\ \A k \in 1..Stages : tasks'[Len(tasks) + k] = new[k]
      /\ \A i \in DOMAIN tasks' : i \in DOMAIN tasks \/ \E k \in 1..Stages : i = Len(tasks) + k
  BY <1>2, Appended DEF new
<1>5. DOMAIN tasks \subseteq DOMAIN tasks' /\ \A k \in 1..Stages : Len(tasks) + k \in DOMAIN tasks'
  BY <1>2, Appended
<1>6. \A i \in DOMAIN tasks : tasks'[i] = tasks[i]
  BY <1>2, Appended
<1>7. Grown
  BY <1>2, <1>3, <1>5, <1>6, SMT DEF Grown, TasksInv
<1>8. \A i \in DOMAIN tasks' : tasks'[i].decision = "approved" => i \in endorsed'
  OBVIOUS
<1>9. ASSUME NEW i \in DOMAIN tasks', NEW s \in ConfiguredStages
      PROVE  \E j \in DOMAIN tasks' : tasks'[j].round = tasks'[i].round /\ tasks'[j].stage = s
  <2>1. CASE i \in DOMAIN tasks
    BY <2>1, <1>5, <1>6 DEF TasksInv
  <2>2. CASE \E k \in 1..Stages : i = Len(tasks) + k
    <3>1. tasks'[i].round = n
      BY <1>1, <1>3, <2>2
    <3>2. PICK k \in 1..Stages : new[k].stage = s
      BY <1>1
    <3>3. tasks'[Len(tasks) + k] = new[k] /\ new[k].round = n
      BY <1>1, <1>3
    <3> QED BY <1>5, <3>1, <3>2, <3>3, Zenon
  <2> QED BY <1>3, <2>1, <2>2
<1> QED BY <1>3, <1>7, <1>8, <1>9 DEF TasksInv

\* A decision changes the decision of one task; anything else changes none.
LEMMA DecisionGrows ==
  ASSUME TasksInv, NEW r \in Request, op[r] \in Op, tasks' = View(r),
         op[r].kind = "decide" => op[r].task \in DOMAIN tasks,
         endorsed' = {i \in DOMAIN tasks' : i \in endorsed \/ tasks'[i].decision = "approved"}
  PROVE  Grown /\ TasksInv' /\ Len(tasks') = Len(tasks)
<1>1. tasks \in Seq(Task) /\ Len(tasks) \in Nat /\ DOMAIN tasks = 1..Len(tasks)
  BY DEF TasksInv
<1>2. op[r].kind = "decide" => op[r].verdict \in {"approved", "rejected"}
  BY DEF Op, NoOp
<1>3. /\ tasks' \in Seq(Task) /\ Len(tasks') = Len(tasks)
      /\ \A i \in DOMAIN tasks : /\ tasks'[i].round = tasks[i].round
                                 /\ tasks'[i].stage = tasks[i].stage
  <2>1. CASE op[r].kind # "decide"
    BY <1>1, <2>1 DEF View
  <2>2. CASE op[r].kind = "decide"
    <3> DEFINE i == op[r].task
               new == [tasks[i] EXCEPT !.decision = op[r].verdict]
    <3>1. i \in DOMAIN tasks /\ tasks[i] \in Task
      BY <1>1, <2>2
    <3>2. new \in Task /\ new.round = tasks[i].round /\ new.stage = tasks[i].stage
      BY <1>2, <2>2, <3>1 DEF Task
    <3>3. tasks' = [tasks EXCEPT ![i] = new]
      BY <2>2 DEF View
    <3> HIDE DEF i, new
    <3> QED BY <1>1, <3>1, <3>2, <3>3, SMT
  <2> QED BY <2>1, <2>2
<1>4. DOMAIN tasks' = DOMAIN tasks
  BY <1>1, <1>3, SMT
<1>5. Grown
  BY <1>1, <1>3, <1>4, SMT DEF Grown, TasksInv
<1>6. \A i \in DOMAIN tasks', s \in ConfiguredStages : \E j \in DOMAIN tasks' :
        tasks'[j].round = tasks'[i].round /\ tasks'[j].stage = s
  BY <1>3, <1>4 DEF TasksInv
<1> QED BY <1>3, <1>4, <1>5, <1>6 DEF TasksInv


\* A commit only adds tasks and approvals.
LEMMA CommitGrows ==
  ASSUME ApprovalInv, NEW r \in Request, Commit(r)
  PROVE  /\ Grown /\ TasksInv'
         /\ Len(tasks') = Len(tasks) + (IF op[r].kind = "submit" THEN Stages ELSE 0)
         /\ op[r].kind = "decide" => tasks' = View(r)
<1>1. TasksInv /\ RequestInv(r) /\ op[r] \in Op /\ seen[r] \in Row /\ want[r] \in Row
  BY DEF ApprovalInv
<1>2. endorsed' = {i \in DOMAIN tasks' : i \in endorsed \/ tasks'[i].decision = "approved"}
  BY DEF Commit
<1>3. CASE op[r].kind = "submit"
  <2>1. want[r].round \in 1..MaxRound
    BY <1>1, <1>3, BoundAssumption DEF RequestInv, NextRound, Row, BoundAssumption
  <2>2. tasks' = tasks \o NewTasks(want[r].round)
    BY <1>3 DEF Commit
  <2> QED BY <1>1, <1>2, <1>3, <2>1, <2>2, SubmissionGrows
<1>4. CASE op[r].kind # "submit"
  <2>1. tasks' = View(r)
    BY <1>4 DEF Commit
  <2>2. Len(tasks) \in Nat
    BY <1>1 DEF TasksInv
  <2>3. Grown /\ TasksInv' /\ Len(tasks') = Len(tasks)
    BY <1>1, <1>2, <2>1, DecisionGrows DEF RequestInv
  <2> QED BY <1>4, <2>1, <2>2, <2>3
<1> QED BY <1>3, <1>4

\* The approval that endorses a round is part of what the commit makes visible.
LEMMA EndorsingCommits ==
  ASSUME ApprovalInv, NEW r \in Request, Commit(r), Endorsing(r)
  PROVE  SomeEndorsed'
<1> DEFINE i == op[r].task
<1>1. /\ op[r].kind = "decide" /\ op[r].verdict = "approved"
      /\ i \in DOMAIN tasks /\ TasksInv
  BY DEF Endorsing, ApprovalInv, RequestInv
<1>2. Grown /\ tasks' = View(r)
  BY <1>1, CommitGrows
<1>3. tasks'[i].decision = "approved" /\ i \in DOMAIN tasks'
  <2>1. tasks[i] \in Task /\ tasks' = [tasks EXCEPT ![i].decision = "approved"]
    BY <1>1, <1>2 DEF View, TasksInv
  <2>2. tasks'[i] = [tasks[i] EXCEPT !.decision = "approved"]
    BY <1>1, <2>1
  <2>3. tasks'[i].decision = "approved"
    BY <2>1, <2>2 DEF Task
  <2> QED BY <1>1, <1>2, <2>3 DEF Grown
<1>4. endorsed \cup {i} \subseteq endorsed'
  BY <1>2, <1>3 DEF Commit, Grown
<1> HIDE DEF i
<1>5. endorsed \cup {i} \subseteq DOMAIN tasks
  BY <1>1 DEF TasksInv
<1>6. PICK n \in 1..MaxRound : EndorsedBy(r, n)
  BY DEF Endorsing
<1>7. Endorsed(n)'
  BY <1>2, <1>4, <1>5, <1>6 DEF EndorsedBy, Endorsed, Grown, i
<1> QED BY <1>7 DEF SomeEndorsed

\* The row that is committed was endorsed, if it says so.
LEMMA CommitKeepsRow ==
  ASSUME ApprovalInv, NEW r \in Request, Commit(r)
  PROVE  RowInv'
<1>1. RowInv /\ TasksInv /\ RequestInv(r) /\ seen[r] \in Row /\ want[r] \in Row /\ row \in Row
  BY DEF ApprovalInv, RowInv
<1>2. /\ row' \in Row
      /\ row'.status \in {row.status, want[r].status}
      /\ row'.round \in {row.round, want[r].round}
  BY <1>1 DEF Commit, Written, Changed, Row
<1>3. /\ Grown /\ TasksInv'
      /\ Len(tasks') = Len(tasks) + (IF op[r].kind = "submit" THEN Stages ELSE 0)
  BY CommitGrows
<1>4. /\ Len(tasks) \in Nat /\ Len(tasks') \in Nat /\ Len(tasks) <= Len(tasks')
      /\ row.round \in Nat /\ seen[r].round \in Nat
  BY <1>1, <1>3, BoundAssumption DEF TasksInv, Grown, Row, BoundAssumption
<1>5. row.round * Stages <= Len(tasks')
  <2>1. row.round * Stages \in Nat
    BY <1>4, StagesPositive, SMT
  <2> QED BY <1>1, <1>4, <2>1, SMT DEF RowInv
<1>6. want[r].round * Stages <= Len(tasks')
  <2>1. /\ seen[r].round * Stages \in Nat
        /\ (seen[r].round + 1) * Stages = seen[r].round * Stages + Stages
        /\ 0 * Stages = 0
    BY <1>4, StagesPositive, SMT
  <2>2. seen[r].round * Stages <= Len(tasks)
    BY <1>1 DEF RequestInv
  <2>3. CASE op[r].kind = "submit"
    <3>1. want[r].round = seen[r].round + 1 /\ Len(tasks') = Len(tasks) + Stages
      BY <1>1, <1>3, <2>3 DEF RequestInv, NextRound
    <3> QED BY <1>4, <2>1, <2>2, <3>1, StagesPositive, SMT
  <2>4. CASE op[r].kind # "submit"
    <3>1. want[r].round = 0 \/ want[r].round = seen[r].round
      BY <1>1, <2>4 DEF RequestInv, NextRound
    <3> QED BY <1>4, <2>1, <2>2, <3>1, SMT
  <2> QED BY <2>3, <2>4
<1>7. row'.status \in Released => SomeEndorsed'
  BY <1>1, <1>2, <1>3, EndorsedStays, EndorsingCommits DEF RowInv, RequestInv
<1> QED BY <1>2, <1>5, <1>6, <1>7 DEF RowInv

\* A commit keeps the invariant.
LEMMA CommitKeepsInv ==
  ASSUME ApprovalInv, NEW r \in Request, Commit(r)
  PROVE  ApprovalInv'
<1>1. Grown /\ TasksInv' /\ tasks' \in Seq(Task)
  BY CommitGrows DEF TasksInv
<1>2. /\ pc' \in [Request -> PC] /\ op' \in [Request -> Op]
      /\ seen' \in [Request -> Row] /\ want' \in [Request -> Row]
      /\ \A q \in Request \ {r} : Kept(q)
      /\ RequestInv(r)'
  BY <1>1, EndedRequest DEF Commit
<1>3. \A q \in Request : RequestInv(q)'
  BY <1>1, <1>2, KeptRequest, Zenon
<1> QED BY <1>1, <1>2, <1>3, CommitKeepsRow, Zenon DEF ApprovalInv

----------------------------------------------------------------------------

\* The invariant holds at the start.
LEMMA ApprovalInvInit == Init => ApprovalInv
<1> SUFFICES ASSUME Init PROVE ApprovalInv
  OBVIOUS
<1>1. NoRow \in Row /\ NoRow.round = 0 /\ NoRow.status \notin Released
  BY BoundAssumption DEF NoRow, Row, Released, BoundAssumption
<1>2. NoOp \in Op /\ NoOp.kind = "none"
  BY DEF NoOp, Op
<1>3. 0 * Stages = 0 /\ tasks \in Seq(Task) /\ Len(tasks) = 0 /\ DOMAIN tasks = {}
  BY StagesPositive, SMT DEF Init
<1>4. TasksInv
  BY <1>3 DEF Init, TasksInv
<1>5. RowInv
  BY <1>1, <1>3, SMT DEF Init, RowInv
<1>6. /\ pc \in [Request -> PC] /\ op \in [Request -> Op]
      /\ seen \in [Request -> Row] /\ want \in [Request -> Row]
  BY <1>1, <1>2 DEF Init, PC
<1>7. ASSUME NEW r \in Request
      PROVE  RequestInv(r)
  <2>1. pc[r] = "idle" /\ op[r] = NoOp /\ seen[r] = NoRow /\ want[r] = NoRow
    BY DEF Init
  <2> QED BY <1>1, <1>2, <1>3, <2>1, SMT DEF RequestInv, NextRound
<1> QED BY <1>4, <1>5, <1>6, <1>7 DEF ApprovalInv

\* The invariant is inductive.
LEMMA ApprovalInvNext == ApprovalInv /\ [Next]_vars => ApprovalInv'
<1> SUFFICES ASSUME ApprovalInv, [Next]_vars PROVE ApprovalInv'
  OBVIOUS
<1>1. ASSUME NEW r \in Request, Start(r)
      PROVE  ApprovalInv'
  BY <1>1, StartRegisterKeepsInv, StartUpdateKeepsInv, StartSubmitKeepsInv,
     StartMoveKeepsInv, StartDecideKeepsInv, StartSweepKeepsInv DEF Start
<1>2. ASSUME NEW r \in Request, Step(r)
      PROVE  ApprovalInv'
  <2>1. CASE Refuse(r)
    BY <2>1, GivenUpKeepsInv DEF Refuse
  <2> QED BY <1>2, <2>1, LoadAgentKeepsInv, FlushTaskKeepsInv, TasksFlushedKeepsInv,
             RejectAgentKeepsInv, SiblingsOpenKeepsInv, SiblingsApprovedKeepsInv,
             FlushAgentKeepsInv, CommitKeepsInv DEF Step
<1>3. ASSUME NEW r \in Request, Abort(r)
      PROVE  ApprovalInv'
  BY <1>3, GivenUpKeepsInv DEF Abort
<1>4. CASE DueDatePasses
  BY <1>4, DueDatePassesKeepsInv
<1>5. CASE UNCHANGED vars
  BY <1>5 DEF vars, local, ApprovalInv, TasksInv, RowInv, RequestInv, SomeEndorsed,
              Endorsed, Endorsing, EndorsedBy
<1> QED BY <1>1, <1>2, <1>3, <1>4, <1>5 DEF Next

\* However many requests overlap on one agent, and wherever they die, an agent
\* is approved or beyond only if each stage of one submission was committed as
\* approved: decide approves on what its own SELECT shows it, together with the
\* decision it is about to commit, and whatever another request commits in
\* between only adds tasks and approvals.
THEOREM ReleaseNeedsEveryStage == Spec => []ReleasedWasEndorsed
<1>1. ApprovalInv => ReleasedWasEndorsed
  BY DEF ApprovalInv, RowInv, SomeEndorsed, Endorsed, ReleasedWasEndorsed
<1> QED BY <1>1, ApprovalInvInit, ApprovalInvNext, PTL DEF Spec


----------------------------------------------------------------------------
\* One request at a time.  What AgentApproval keeps in a table of decisions,
\* the database keeps in a list of rows; the lemmas of this section say how the
\* table changes with the list.

\* No submission has two tasks for one stage.
Distinct(list) ==
  \A i, j \in DOMAIN list :
    list[i].round = list[j].round /\ list[i].stage = list[j].stage => i = j

Matches(list, i, t) == list[i].round = t.round /\ list[i].stage = t.stage

\* With one row for each stage, the decision is that row's.
LEMMA DecisionAt ==
  ASSUME NEW list, Distinct(list), NEW t, NEW i \in DOMAIN list, Matches(list, i, t)
  PROVE  DecisionIn(list, t) = list[i].decision
<1> DEFINE mine == {j \in DOMAIN list : list[j].round = t.round /\ list[j].stage = t.stage}
<1>1. \A j \in mine : j = i
  BY DEF Distinct, Matches
<1>2. i \in mine
  BY DEF Matches
<1>3. DecisionIn(list, t) = IF mine = {} THEN "absent" ELSE list[CHOOSE j \in mine : TRUE].decision
  BY DEF DecisionIn
<1> HIDE DEF mine
<1>4. (CHOOSE j \in mine : TRUE) \in mine
  BY <1>2, Zenon
<1>5. (CHOOSE j \in mine : TRUE) = i
  BY <1>1, <1>4, Zenon
<1> QED BY <1>2, <1>3, <1>5, Zenon

\* Without a row there is no decision.
LEMMA DecisionAbsent ==
  ASSUME NEW list, NEW t, \A i \in DOMAIN list : ~Matches(list, i, t)
  PROVE  DecisionIn(list, t) = "absent"
  BY Zenon DEF DecisionIn, Matches

\* Rows of other stages and submissions do not count.
LEMMA DecisionKept ==
  ASSUME NEW list, NEW other, NEW t, Distinct(list), Distinct(other),
         \A i \in DOMAIN list : Matches(list, i, t) =>
           i \in DOMAIN other /\ other[i] = list[i],
         \A i \in DOMAIN other : Matches(other, i, t) =>
           i \in DOMAIN list /\ other[i] = list[i]
  PROVE  DecisionIn(other, t) = DecisionIn(list, t)
<1>1. CASE \E i \in DOMAIN list : Matches(list, i, t)
  <2>1. PICK i \in DOMAIN list : Matches(list, i, t)
    BY <1>1
  <2>2. i \in DOMAIN other /\ other[i] = list[i] /\ Matches(other, i, t)
    BY <2>1 DEF Matches
  <2>3. DecisionIn(list, t) = list[i].decision
    BY <2>1, DecisionAt
  <2>4. DecisionIn(other, t) = other[i].decision
    BY <2>2, DecisionAt
  <2> QED BY <2>2, <2>3, <2>4
<1>2. CASE \A i \in DOMAIN list : ~Matches(list, i, t)
  <2>1. \A i \in DOMAIN other : ~Matches(other, i, t)
    BY <1>2 DEF Matches
  <2>2. DecisionIn(list, t) = "absent"
    BY <1>2, DecisionAbsent
  <2>3. DecisionIn(other, t) = "absent"
    BY <2>1, DecisionAbsent
  <2> QED BY <2>2, <2>3
<1> QED BY <1>1, <1>2

\* A decision on one row changes none of another task.
LEMMA OtherRowDecided ==
  ASSUME NEW list, NEW other, NEW i, NEW u, Distinct(list), Distinct(other),
         DOMAIN other = DOMAIN list,
         other[i].round = list[i].round, other[i].stage = list[i].stage,
         \A j \in DOMAIN list : j # i => other[j] = list[j],
         ~Matches(list, i, u)
  PROVE  DecisionIn(other, u) = DecisionIn(list, u)
<1>1. /\ \A j \in DOMAIN list : Matches(list, j, u) => j \in DOMAIN other /\ other[j] = list[j]
      /\ \A j \in DOMAIN other : Matches(other, j, u) => j \in DOMAIN list /\ other[j] = list[j]
  BY DEF Matches
<1> QED BY <1>1, DecisionKept, Zenon

\* Only the decision of row i differs.
OnlyDecides(list, other, i, v) ==
  /\ DOMAIN other = DOMAIN list
  /\ other[i].round = list[i].round /\ other[i].stage = list[i].stage
  /\ other[i].decision = v
  /\ \A j \in DOMAIN list : j # i => other[j] = list[j]

\* An update of one row's decision is just that.
LEMMA DecidedRow ==
  ASSUME NEW list \in Seq(Task), NEW i \in DOMAIN list, NEW v
  PROVE  OnlyDecides(list, [list EXCEPT ![i].decision = v], i, v)
<1> DEFINE other == [list EXCEPT ![i].decision = v]
<1>1. list[i] \in Task /\ other[i] = [list[i] EXCEPT !.decision = v]
  OBVIOUS
<1>2. /\ other[i].round = list[i].round /\ other[i].stage = list[i].stage
      /\ other[i].decision = v
  BY <1>1 DEF Task
<1> QED BY <1>2 DEF OnlyDecides

\* A decision on row i decides one task of the table.
LEMMA DecidedTable ==
  ASSUME NEW list, Distinct(list), NEW i \in DOMAIN list, NEW v, NEW other,
         OnlyDecides(list, other, i, v)
  PROVE  /\ Distinct(other)
         /\ DecisionsIn(other) = [DecisionsIn(list) EXCEPT ![TaskAt(list, i)] = v]
<1> DEFINE t == TaskAt(list, i)
<1>1. Distinct(other)
  BY DEF Distinct, OnlyDecides
<1>2. DecisionIn(other, t) = v
  <2>1. Matches(other, i, t) /\ i \in DOMAIN other /\ other[i].decision = v
    BY DEF Matches, TaskAt, OnlyDecides
  <2> HIDE DEF t
  <2> QED BY <1>1, <2>1, DecisionAt
<1>3. ASSUME NEW u \in AbstractTask, u # t
      PROVE  DecisionIn(other, u) = DecisionIn(list, u)
  <2>1. ~Matches(list, i, u)
    BY <1>3 DEF AbstractTask, TaskAt, Matches
  <2> QED BY <1>1, <2>1, OtherRowDecided DEF OnlyDecides
<1> HIDE DEF t
<1>4. DecisionsIn(other) = [DecisionsIn(list) EXCEPT ![t] = v]
  BY <1>2, <1>3 DEF DecisionsIn
<1> QED BY <1>1, <1>4 DEF t

\* A submission makes its stages pending and leaves the other tasks alone.
LEMMA SubmittedTable ==
  ASSUME NEW list \in Seq(Task), Distinct(list), NEW n \in 1..MaxRound, NEW other,
         \A i \in DOMAIN list : list[i].round < n,
         other = list \o NewTasks(n)
  PROVE  /\ Distinct(other)
         /\ \A i \in DOMAIN other : other[i].round <= n
         /\ DecisionsIn(other) =
              [t \in AbstractTask |->
                 IF t.agent = Key /\ t.round = n /\ t.stage \in ConfiguredStages
                 THEN "pending" ELSE DecisionsIn(list)[t]]
<1> DEFINE new == NewTasks(n)
<1>1. /\ \A k \in 1..Stages : new[k].round = n /\ new[k].decision = "pending"
      /\ \A s \in ConfiguredStages : \E k \in 1..Stages : new[k].stage = s
      /\ \A j, k \in 1..Stages : new[j].stage = new[k].stage => j = k
      /\ new \in Seq(Task) /\ Len(new) = Stages
  BY NewTasksProperties
<1>2. /\ \A i \in DOMAIN list : i \in DOMAIN other /\ other[i] = list[i]
      /\ \A k \in 1..Stages : Len(list) + k \in DOMAIN other /\ other[Len(list) + k] = new[k]
      /\ \A i \in DOMAIN other : i \in DOMAIN list \/ \E k \in 1..Stages : i = Len(list) + k
  BY Appended
<1> HIDE DEF new
<1>3. n \in Nat /\ \A i \in DOMAIN list : list[i].round \in Nat /\ list[i].round < n
  <2>1. \A i \in DOMAIN list : list[i] \in Task
    OBVIOUS
  <2>2. \A i \in DOMAIN list : list[i].round \in 1..MaxRound
    BY <2>1 DEF Task
  <2> QED BY <2>2, BoundAssumption DEF BoundAssumption
<1>4. \A i \in DOMAIN other : i \notin DOMAIN list =>
        \E k \in 1..Stages : i = Len(list) + k /\ other[i] = new[k] /\ other[i].round = n
  <2> SUFFICES ASSUME NEW i \in DOMAIN other, i \notin DOMAIN list
               PROVE  \E k \in 1..Stages :
                        i = Len(list) + k /\ other[i] = new[k] /\ other[i].round = n
    OBVIOUS
  <2>1. PICK k \in 1..Stages : i = Len(list) + k
    BY <1>2
  <2>2. other[i] = new[k] /\ new[k].round = n
    BY <1>1, <1>2, <2>1, Zenon
  <2> QED BY <2>1, <2>2
<1>5. \A i \in DOMAIN list : other[i].round # n
  BY <1>2, <1>3
<1>6. ASSUME NEW i \in DOMAIN other, NEW j \in DOMAIN other,
             other[i].round = other[j].round, other[i].stage = other[j].stage
      PROVE  i = j
  <2>1. CASE i \in DOMAIN list
    <3>1. j \in DOMAIN list
      BY <1>4, <1>5, <1>6, <2>1
    <3>2. other[i] = list[i] /\ other[j] = list[j]
      BY <1>2, <2>1, <3>1
    <3> QED BY <1>6, <2>1, <3>1, <3>2 DEF Distinct
  <2>2. CASE i \notin DOMAIN list
    <3>1. j \notin DOMAIN list
      BY <1>4, <1>5, <1>6, <2>2
    <3>2. PICK k \in 1..Stages : i = Len(list) + k /\ other[i] = new[k]
      BY <1>4, <2>2
    <3>3. PICK m \in 1..Stages : j = Len(list) + m /\ other[j] = new[m]
      BY <1>4, <3>1
    <3>4. k = m
      BY <1>1, <1>6, <3>2, <3>3
    <3> QED BY <3>2, <3>3, <3>4
  <2> QED BY <2>1, <2>2
<1>7. Distinct(other)
  BY <1>6 DEF Distinct
<1>8. \A i \in DOMAIN other : other[i].round <= n
  BY <1>2, <1>3, <1>4
<1>9. ASSUME NEW t \in AbstractTask, t.round = n, t.stage \in ConfiguredStages
      PROVE  DecisionIn(other, t) = "pending"
  <2>1. PICK k \in 1..Stages : new[k].stage = t.stage
    BY <1>1, <1>9
  <2> DEFINE i == Len(list) + k
  <2>2. i \in DOMAIN other /\ other[i] = new[k] /\ new[k].round = n /\ new[k].decision = "pending"
    BY <1>1, <1>2
  <2>3. Matches(other, i, t)
    BY <1>9, <2>1, <2>2 DEF Matches
  <2> HIDE DEF i
  <2> QED BY <1>7, <2>2, <2>3, DecisionAt
<1>10. ASSUME NEW t \in AbstractTask, ~(t.round = n /\ t.stage \in ConfiguredStages)
       PROVE  DecisionIn(other, t) = DecisionIn(list, t)
  <2>1. \A i \in DOMAIN other : i \notin DOMAIN list => ~Matches(other, i, t)
    <3>1. \A k \in 1..Stages : new[k] \in Task
      BY <1>1
    <3>2. \A k \in 1..Stages : new[k].stage \in ConfiguredStages
      BY <3>1 DEF Task
    <3> QED BY <1>4, <1>10, <3>2 DEF Matches
  <2>2. /\ \A j \in DOMAIN list : Matches(list, j, t) => j \in DOMAIN other /\ other[j] = list[j]
        /\ \A j \in DOMAIN other : Matches(other, j, t) => j \in DOMAIN list /\ other[j] = list[j]
    BY <1>2, <2>1
  <2> QED BY <1>7, <2>2, DecisionKept, Zenon
<1>11. \A t \in AbstractTask : t.agent = Key
  BY DEF AbstractTask
<1> QED BY <1>7, <1>8, <1>9, <1>10, <1>11 DEF DecisionsIn


----------------------------------------------------------------------------
\* The invariant of requests that do not overlap.

\* One request is handled at a time.  No task falls due, or nothing sweeps: a
\* sweep leaves a task that falls due after its SELECT to the next one, and is
\* then not the one step EscalateOverdue.
Alone ==
  /\ \A q, r \in Request : q = r
  /\ SlaHours = 0 \/ "sweep" \notin Kind

DatabaseInv ==
  /\ Distinct(tasks)
  /\ \A i \in DOMAIN tasks : tasks[i].round <= row.round
  /\ row.status = "unregistered" => row.round = 0
  /\ row.status # "unregistered" => row.content \in Content
  /\ escalated = {}
  /\ SlaHours = 0 => lapsed = 0
  /\ submitted \in [1..MaxRound -> Content \cup {NoContent}]

Registers(r) ==
  /\ op[r].kind = "register" /\ row.status = "unregistered"
  /\ \E c \in Content : want[r] = [status |-> "draft", content |-> c, round |-> 0]

Updates(r) ==
  /\ op[r].kind = "update" /\ row.status \in Editable
  /\ \E c \in Content : want[r] = [row EXCEPT !.content = c]

Submits(r) ==
  /\ op[r].kind = "submit" /\ CanTransition(row.status, "under_review")
  /\ want[r] = [row EXCEPT !.status = "under_review", !.round = @ + 1]

Moves(r) ==
  /\ op[r].kind = "move"
  /\ \E target \in {"active", "suspended", "deprecated", "retired"} :
       CanTransition(row.status, target) /\ want[r] = [row EXCEPT !.status = target]

\* The request is deciding a task that is still undecided.
Deciding(r) == op[r].kind = "decide" /\ tasks[op[r].task].decision = "pending"

ApprovesStage(r) ==
  /\ Deciding(r) /\ op[r].verdict = "approved" /\ ~AllApproved(r)
  /\ want[r] = row

ApprovesAgent(r) ==
  /\ Deciding(r) /\ op[r].verdict = "approved" /\ AllApproved(r)
  /\ CanTransition(row.status, "approved")
  /\ want[r] = [row EXCEPT !.status = "approved"]

Rejects(r) ==
  /\ Deciding(r) /\ op[r].verdict = "rejected"
  /\ want[r] = [row EXCEPT !.status = "rejected"]

\* What the request will have done once it commits.
Effect(r) ==
  \/ Registers(r) \/ Updates(r) \/ Submits(r) \/ Moves(r)
  \/ ApprovesStage(r) \/ ApprovesAgent(r) \/ Rejects(r)

LoneInv(r) ==
  /\ pc[r] \notin {"idle", "load_agent"} => seen[r] = row
  /\ pc[r] \in {"load_agent", "flush_tasks", "siblings", "reject_agent"} => Deciding(r)
  /\ pc[r] \in {"flush_tasks", "siblings", "reject_agent"} => want[r] = row
  /\ pc[r] = "reject_agent" => op[r].verdict = "rejected"
  /\ pc[r] \in {"flush_agent", "commit"} => Effect(r)

SerialInv ==
  /\ ApprovalInv /\ DatabaseInv
  /\ \A r \in Request : LoneInv(r)

\* What a request is about to do depends on the rows it read.
LEMMA EffectStays ==
  ASSUME NEW r, UNCHANGED <<row, tasks>>, op'[r] = op[r], want'[r] = want[r]
  PROVE  /\ Effect(r) => Effect(r)'
         /\ Deciding(r) => Deciding(r)'
<1>1. Deciding(r) => Deciding(r)'
  BY DEF Deciding
<1>2. AllApproved(r)' <=> AllApproved(r)
  BY DEF AllApproved, View, Siblings
<1>3. /\ Registers(r) => Registers(r)'
      /\ Updates(r) => Updates(r)'
      /\ Submits(r) => Submits(r)'
  BY DEF Registers, Updates, Submits
<1>4. Moves(r) => Moves(r)'
  BY DEF Moves
<1>5. /\ ApprovesStage(r) => ApprovesStage(r)'
      /\ ApprovesAgent(r) => ApprovesAgent(r)'
      /\ Rejects(r) => Rejects(r)'
  BY <1>1, <1>2 DEF ApprovesStage, ApprovesAgent, Rejects
<1> QED BY <1>1, <1>3, <1>4, <1>5 DEF Effect

\* What is known of the database stays while it does.
LEMMA DatabaseStays ==
  ASSUME DatabaseInv, UNCHANGED database
  PROVE  DatabaseInv'
  BY DEF DatabaseInv, Distinct, database

\* A step that leaves the database alone and the lone request in order.
LEMMA LoneStep ==
  ASSUME Alone, SerialInv, ApprovalInv', UNCHANGED database,
         NEW r \in Request, LoneInv(r)'
  PROVE  SerialInv'
<1>1. DatabaseInv'
  BY DatabaseStays DEF SerialInv
<1>2. \A q \in Request : q = r
  BY DEF Alone
<1> QED BY <1>1, <1>2 DEF SerialInv

\* The types that the steps below need.
LEMMA TypesOf ==
  ASSUME SerialInv, NEW r \in Request
  PROVE  /\ pc \in [Request -> PC] /\ op \in [Request -> Op]
         /\ seen \in [Request -> Row] /\ want \in [Request -> Row]
         /\ row \in Row /\ RequestInv(r) /\ LoneInv(r) /\ DatabaseInv
         /\ TasksInv /\ RowInv
  BY DEF SerialInv, ApprovalInv, RowInv

----------------------------------------------------------------------------
\* Its steps, up to the commit.

\* A handler that passed its checks.
LEMMA BeginKeepsSerial ==
  ASSUME Alone, SerialInv, ApprovalInv', NEW r \in Request, NEW o, NEW object,
         Begin(r, o, object),
         op'[r] = o => (want'[r] = object => Effect(r)')
  PROVE  SerialInv'
<1>1. /\ pc \in [Request -> PC] /\ op \in [Request -> Op]
      /\ seen \in [Request -> Row] /\ want \in [Request -> Row]
  BY TypesOf
<1>2. /\ pc'[r] = "flush_agent" /\ op'[r] = o /\ seen'[r] = row /\ want'[r] = object
      /\ UNCHANGED database /\ row' = row
  BY <1>1 DEF Begin, database
<1>3. LoneInv(r)'
  BY <1>2 DEF LoneInv
<1> QED BY <1>2, <1>3, LoneStep

\* A lone handler starts in order.
LEMMA StartKeepsSerial ==
  ASSUME Alone, SerialInv, ApprovalInv', NEW r \in Request, Start(r)
  PROVE  SerialInv'
<1>1. ASSUME NEW c \in Content, StartRegister(r, c) PROVE SerialInv'
  <2>1. row' = row
    BY <1>1 DEF StartRegister, Begin, database
  <2>2. ASSUME op'[r] = [kind |-> "register"],
               want'[r] = [status |-> "draft", content |-> c, round |-> 0]
        PROVE  Effect(r)'
    BY <1>1, <2>1, <2>2 DEF StartRegister, Effect, Registers
  <2> QED BY <1>1, <2>2, BeginKeepsSerial DEF StartRegister
<1>2. ASSUME NEW c \in Content, StartUpdate(r, c) PROVE SerialInv'
  <2>1. row' = row
    BY <1>2 DEF StartUpdate, Begin, database
  <2>2. ASSUME op'[r] = [kind |-> "update"], want'[r] = [row EXCEPT !.content = c]
        PROVE  Effect(r)'
    BY <1>2, <2>1, <2>2 DEF StartUpdate, Effect, Updates
  <2> QED BY <1>2, <2>2, BeginKeepsSerial DEF StartUpdate
<1>3. ASSUME StartSubmit(r) PROVE SerialInv'
  <2> DEFINE object == [row EXCEPT !.status = "under_review", !.round = @ + 1]
  <2>1. row' = row
    BY <1>3 DEF StartSubmit, Begin, database
  <2>2. ASSUME op'[r] = [kind |-> "submit"], want'[r] = object
        PROVE  Effect(r)'
    BY <1>3, <2>1, <2>2 DEF StartSubmit, Effect, Submits
  <2>3. Begin(r, [kind |-> "submit"], object)
    BY <1>3 DEF StartSubmit
  <2> HIDE DEF object
  <2> QED BY <2>2, <2>3, BeginKeepsSerial
<1>4. ASSUME NEW target \in Status, StartMove(r, target) PROVE SerialInv'
  <2>1. row' = row
    BY <1>4 DEF StartMove, Begin, database
  <2>2. ASSUME op'[r] = [kind |-> "move"], want'[r] = [row EXCEPT !.status = target]
        PROVE  Effect(r)'
    BY <1>4, <2>1, <2>2 DEF StartMove, Effect, Moves
  <2> QED BY <1>4, <2>2, BeginKeepsSerial DEF StartMove
<1>5. ASSUME NEW i \in DOMAIN tasks, NEW v \in {"approved", "rejected"}, StartDecide(r, i, v)
      PROVE  SerialInv'
  <2>1. pc \in [Request -> PC] /\ op \in [Request -> Op]
    BY TypesOf
  <2>2. /\ pc'[r] = "load_agent" /\ op'[r] = [kind |-> "decide", task |-> i, verdict |-> v]
        /\ tasks' = tasks /\ tasks[i].decision = "pending" /\ UNCHANGED database
    BY <1>5, <2>1 DEF StartDecide, database
  <2>3. Deciding(r)'
    BY <2>2 DEF Deciding
  <2>4. LoneInv(r)'
    BY <2>2, <2>3 DEF LoneInv
  <2> QED BY <2>2, <2>4, LoneStep
<1>6. ~StartSweep(r)
  <2> SUFFICES ASSUME SlaHours = 0 PROVE Overdue = {}
    BY DEF Alone, StartSweep
  <2>1. lapsed = 0 /\ TasksInv
    BY TypesOf DEF DatabaseInv
  <2>2. \A i \in DOMAIN tasks : tasks[i] \in Task
    BY <2>1 DEF TasksInv
  <2>3. \A i \in DOMAIN tasks : ~(tasks[i].round <= lapsed)
    BY <2>1, <2>2, BoundAssumption DEF Task, BoundAssumption
  <2> QED BY <2>3 DEF Overdue
<1> QED BY <1>1, <1>2, <1>3, <1>4, <1>5, <1>6 DEF Start

\* A statement of the request, the commit excepted.
LEMMA StatementKeepsSerial ==
  ASSUME Alone, SerialInv, ApprovalInv', NEW r \in Request,
         Step(r) \/ Abort(r), ~Commit(r)
  PROVE  SerialInv' /\ UNCHANGED database
<1>1. /\ pc \in [Request -> PC] /\ op \in [Request -> Op]
      /\ seen \in [Request -> Row] /\ want \in [Request -> Row]
      /\ row \in Row /\ RequestInv(r) /\ LoneInv(r)
  BY TypesOf
<1>2. UNCHANGED database
  BY DEF Step, Abort, LoadAgent, FlushTask, TasksFlushed, RejectAgent, SiblingsOpen,
         SiblingsApproved, Refuse, FlushAgent
<1>3. UNCHANGED <<row, tasks>>
  BY <1>2 DEF database
<1> SUFFICES LoneInv(r)'
  BY <1>2, LoneStep
<1>4. CASE LoadAgent(r)
  <2>1. /\ pc[r] = "load_agent" /\ pc'[r] = "flush_tasks" /\ op'[r] = op[r]
        /\ seen'[r] = row /\ want'[r] = row
    BY <1>1, <1>4 DEF LoadAgent
  <2>2. Deciding(r)'
    BY <1>1, <1>3, <2>1 DEF LoneInv, Deciding
  <2> QED BY <1>3, <2>1, <2>2 DEF LoneInv
<1>5. CASE FlushTask(r)
  <2>1. UNCHANGED <<pc, op, seen, want>>
    BY <1>5 DEF FlushTask
  <2> QED BY <1>1, <1>3, <2>1, EffectStays DEF LoneInv
<1>6. CASE TasksFlushed(r)
  <2>1. /\ pc[r] = "flush_tasks" /\ UNCHANGED <<op, seen, want>>
        /\ pc'[r] = IF op[r].kind = "sweep" THEN "commit"
                    ELSE IF op[r].verdict = "approved" THEN "siblings" ELSE "reject_agent"
    BY <1>1, <1>6 DEF TasksFlushed
  <2>2. Deciding(r) /\ Deciding(r)'
    BY <1>1, <1>3, <2>1, EffectStays DEF LoneInv
  <2>3. op[r].verdict \in {"approved", "rejected"} /\ op[r].kind = "decide"
    BY <1>1, <2>2 DEF Op, NoOp, Deciding
  <2> QED BY <1>1, <1>3, <2>1, <2>2, <2>3 DEF LoneInv
<1>7. CASE RejectAgent(r)
  <2>1. /\ pc[r] = "reject_agent" /\ pc'[r] = "flush_agent" /\ UNCHANGED <<op, seen>>
        /\ want'[r] = [want[r] EXCEPT !.status = "rejected"]
    BY <1>1, <1>7 DEF RejectAgent
  <2>2. Deciding(r)' /\ want[r] = row /\ op[r].verdict = "rejected" /\ seen[r] = row
    BY <1>1, <1>3, <2>1 DEF LoneInv, Deciding
  <2>3. Rejects(r)'
    BY <1>3, <2>1, <2>2 DEF Rejects
  <2> QED BY <1>3, <2>1, <2>2, <2>3 DEF LoneInv, Effect
<1>8. CASE SiblingsOpen(r)
  <2>1. /\ pc[r] = "siblings" /\ pc'[r] = "commit" /\ UNCHANGED <<op, seen, want>>
        /\ ~AllApproved(r)
    BY <1>1, <1>8 DEF SiblingsOpen
  <2>2. ApprovesStage(r) /\ seen[r] = row
    BY <1>1, <2>1 DEF LoneInv, RequestInv, ApprovesStage
  <2>3. Effect(r)'
    BY <1>3, <2>1, <2>2, EffectStays DEF Effect
  <2> QED BY <1>3, <2>1, <2>2, <2>3 DEF LoneInv
<1>9. CASE SiblingsApproved(r)
  <2>1. /\ pc[r] = "siblings" /\ pc'[r] = "flush_agent" /\ UNCHANGED <<op, seen>>
        /\ want'[r] = [want[r] EXCEPT !.status = "approved"]
        /\ AllApproved(r) /\ CanTransition(seen[r].status, "approved")
    BY <1>1, <1>9 DEF SiblingsApproved
  <2>2. Deciding(r)' /\ want[r] = row /\ op[r].verdict = "approved" /\ seen[r] = row
    BY <1>1, <1>3, <2>1 DEF LoneInv, RequestInv, Deciding
  <2>3. AllApproved(r)'
    BY <1>3, <2>1 DEF AllApproved, View, Siblings
  <2>4. ApprovesAgent(r)'
    BY <1>3, <2>1, <2>2, <2>3 DEF ApprovesAgent
  <2> QED BY <1>3, <2>1, <2>2, <2>4 DEF LoneInv, Effect
<1>10. CASE FlushAgent(r)
  <2>1. pc[r] = "flush_agent" /\ pc'[r] = "commit" /\ UNCHANGED <<op, seen, want>>
    BY <1>1, <1>10 DEF FlushAgent
  <2> QED BY <1>1, <1>3, <2>1, EffectStays DEF LoneInv
<1>11. CASE Refuse(r) \/ Abort(r)
  <2>1. pc'[r] = "idle"
    BY <1>1, <1>11 DEF Refuse, Abort, End
  <2> QED BY <2>1 DEF LoneInv
<1> QED BY <1>4, <1>5, <1>6, <1>7, <1>8, <1>9, <1>10, <1>11 DEF Step

----------------------------------------------------------------------------
\* The commit of a lone request is one step of AgentApproval.

\* The agents of AgentApproval are the one row here.
LEMMA OneRowFacts ==
  /\ \A v : OneRow(v)[Key] = v
  /\ \A v, w : [OneRow(v) EXCEPT ![Key] = w] = OneRow(w)
  BY DEF OneRow

\* The card of a content is low risk, so all configured stages are asked.
LEMMA CardOf ==
  ASSUME NEW c \in Content
  PROVE  /\ AbstractCard(c) \in Serial!Card
         /\ AbstractCard(c).complete = TRUE
         /\ Serial!RequiredStages(AbstractCard(c)) = ConfiguredStages
<1>1. AbstractCard(c) = [content |-> c, risk |-> "low", complete |-> TRUE]
  BY ContentAssumption DEF AbstractCard, ContentAssumption
<1> QED BY <1>1 DEF Serial!Card, Serial!RequiredStages

\* Nobody else wrote the row since the request read it.
LEMMA LoneCommit ==
  ASSUME SerialInv, NEW r \in Request, Commit(r)
  PROVE  /\ Effect(r)
         /\ row' = want[r]
         /\ UNCHANGED <<escalated, lapsed>>
         /\ op[r].kind # "submit" => tasks' = View(r) /\ submitted' = submitted
<1>1. pc[r] = "commit" /\ row \in Row /\ want[r] \in Row /\ LoneInv(r)
  BY TypesOf DEF Commit
<1>2. seen[r] = row /\ Effect(r)
  BY <1>1 DEF LoneInv
<1>3. row' = want[r]
  <2>1. row' = [f \in DOMAIN row |-> want[r][f]]
    BY <1>2 DEF Commit, Written, Changed
  <2>2. want[r] = [f \in DOMAIN row |-> want[r][f]]
    BY <1>1 DEF Row
  <2> QED BY <2>1, <2>2
<1>4. op[r].kind # "sweep"
  BY <1>2 DEF Effect, Registers, Updates, Submits, Moves, ApprovesStage, ApprovesAgent,
             Rejects, Deciding
<1> QED BY <1>2, <1>3, <1>4 DEF Commit

\* A request that only changes the row.
LEMMA RowCommits ==
  ASSUME SerialInv, NEW r \in Request, Commit(r), Registers(r) \/ Updates(r) \/ Moves(r)
  PROVE  UNCHANGED <<tasks, escalated, lapsed, submitted>>
<1>1. op[r].kind \notin {"submit", "decide"}
  BY DEF Registers, Updates, Moves
<1> QED BY <1>1, LoneCommit DEF View

\* A committed registration is Register.
LEMMA RegisterCommits ==
  ASSUME SerialInv, NEW r \in Request, Commit(r), Registers(r)
  PROVE  DatabaseInv' /\ Serial!Next
<1>1. UNCHANGED <<tasks, escalated, lapsed, submitted>> /\ DatabaseInv
  BY RowCommits, TypesOf
<1>2. PICK c \in Content : row' = [status |-> "draft", content |-> c, round |-> 0]
  BY LoneCommit DEF Registers
<1>3. /\ row.status = "unregistered" /\ row.round = 0
      /\ row'.status = "draft" /\ row'.content = c /\ row'.round = 0
  BY <1>1, <1>2 DEF Registers, DatabaseInv
<1>4. DatabaseInv'
  BY <1>1, <1>3 DEF DatabaseInv, Distinct
<1>5. Serial!Register(Key, AbstractCard(c))
  BY <1>1, <1>3, OneRowFacts DEF Serial!Register
<1> QED BY <1>4, <1>5, CardOf DEF Serial!Next, Serial!AgentStep

\* A committed change of the agent is Update.
LEMMA UpdateCommits ==
  ASSUME SerialInv, NEW r \in Request, Commit(r), Updates(r)
  PROVE  DatabaseInv' /\ Serial!Next
<1>1. UNCHANGED <<tasks, escalated, lapsed, submitted>> /\ DatabaseInv /\ row \in Row
  BY RowCommits, TypesOf
<1>2. PICK c \in Content : row' = [row EXCEPT !.content = c]
  BY LoneCommit DEF Updates
<1>3. /\ row.status \in Editable
      /\ row'.status = row.status /\ row'.content = c /\ row'.round = row.round
  BY <1>1, <1>2 DEF Updates, Row
<1>4. DatabaseInv'
  BY <1>1, <1>3 DEF DatabaseInv, Distinct
<1>5. Serial!Update(Key, AbstractCard(c))
  BY <1>1, <1>3, OneRowFacts DEF Serial!Update, Serial!Editable, Editable
<1> QED BY <1>4, <1>5, CardOf DEF Serial!Next, Serial!AgentStep

\* Both use the table of transitions.
LEMMA SerialTransitions ==
  ASSUME NEW current, NEW target, CanTransition(current, target)
  PROVE  Serial!CanTransition(current, target)
  BY DEF CanTransition, AllowedTransitions, Serial!CanTransition, Serial!AllowedTransitions

\* A committed transition is Serial!MoveTo.
LEMMA MoveCommits ==
  ASSUME SerialInv, NEW r \in Request, Commit(r), Moves(r)
  PROVE  DatabaseInv' /\ Serial!Next
<1>1. UNCHANGED <<tasks, escalated, lapsed, submitted>> /\ DatabaseInv /\ row \in Row
  BY RowCommits, TypesOf
<1>2. PICK target \in {"active", "suspended", "deprecated", "retired"} :
        CanTransition(row.status, target) /\ row' = [row EXCEPT !.status = target]
  BY LoneCommit DEF Moves
<1>3. row'.status = target /\ row'.content = row.content /\ row'.round = row.round
  BY <1>1, <1>2 DEF Row
<1>4. row.status # "unregistered"
  BY <1>2 DEF CanTransition, AllowedTransitions
<1>5. DatabaseInv'
  BY <1>1, <1>3, <1>4 DEF DatabaseInv, Distinct
<1>6. Serial!CanTransition(row.status, target)
  BY <1>2, SerialTransitions
<1>7. Serial!MoveTo(Key, target)
  BY <1>1, <1>3, <1>6, OneRowFacts DEF Serial!MoveTo
<1>8. Serial!AgentStep(Key)
  BY <1>7 DEF Serial!AgentStep, Serial!Suspend, Serial!Reactivate, Serial!Deprecate, Serial!Retire
<1> QED BY <1>5, <1>8 DEF Serial!Next

\* A committed submission is Serial!Submit.
LEMMA SubmitCommits ==
  ASSUME SerialInv, NEW r \in Request, Commit(r), Submits(r)
  PROVE  DatabaseInv' /\ Serial!Next
<1> DEFINE n == row.round + 1
<1>1. /\ DatabaseInv /\ row \in Row /\ want[r] \in Row /\ tasks \in Seq(Task)
      /\ op[r].kind = "submit" /\ CanTransition(row.status, "under_review")
  BY TypesOf DEF TasksInv, Submits
<1>2. row' = [row EXCEPT !.status = "under_review", !.round = n] /\ row' \in Row
  BY <1>1, LoneCommit DEF Submits
<1>3. row'.status = "under_review" /\ row'.content = row.content /\ row'.round = n
  <2> DEFINE moved == [row EXCEPT !.status = "under_review"]
  <2>1. /\ moved \in [status : Status \cup {"unregistered"}, content : Content \cup {NoContent},
                      round : 0..MaxRound]
        /\ moved.status = "under_review" /\ moved.content = row.content
    BY <1>1 DEF Row, Status
  <2>2. row' = [moved EXCEPT !.round = n]
    BY <1>2
  <2> HIDE DEF moved, n
  <2> QED BY <2>1, <2>2
<1>4. row.round \in Nat /\ MaxRound \in Nat /\ n \in 1..MaxRound /\ row.round < MaxRound
  <2>1. row.round \in 0..MaxRound /\ row'.round \in 0..MaxRound
    BY <1>1, <1>2 DEF Row
  <2> QED BY <1>3, <2>1, BoundAssumption DEF BoundAssumption
<1>5. /\ tasks' = tasks \o NewTasks(n)
      /\ submitted' = [submitted EXCEPT ![n] = row.content]
      /\ UNCHANGED <<escalated, lapsed>>
  <2>1. want[r].round = n
    BY <1>3, LoneCommit
  <2> QED BY <1>1, <2>1, LoneCommit DEF Commit
<1>6. \A i \in DOMAIN tasks : tasks[i].round < n
  <2>1. \A i \in DOMAIN tasks : tasks[i] \in Task
    BY <1>1
  <2>2. \A i \in DOMAIN tasks : tasks[i].round \in Nat /\ tasks[i].round <= row.round
    BY <1>1, <2>1, BoundAssumption DEF Task, DatabaseInv, BoundAssumption
  <2> QED BY <1>4, <2>2
<1>7. row.status # "unregistered" /\ row.content \in Content
  BY <1>1 DEF CanTransition, AllowedTransitions, DatabaseInv
<1> DEFINE after == [t \in AbstractTask |->
                       IF t.agent = Key /\ t.round = n /\ t.stage \in ConfiguredStages
                       THEN "pending" ELSE DecisionsIn(tasks)[t]]
<1> HIDE DEF n
<1>8. /\ Distinct(tasks)'
      /\ \A i \in DOMAIN tasks' : tasks'[i].round <= n
      /\ DecisionsIn(tasks') = after
  <2>1. Distinct(tasks)
    BY <1>1 DEF DatabaseInv
  <2> QED BY <1>1, <1>4, <1>5, <1>6, <2>1, SubmittedTable
<1>9. DatabaseInv'
  BY <1>1, <1>3, <1>5, <1>7, <1>8 DEF DatabaseInv
<1>10. CardsIn(submitted') = [CardsIn(submitted) EXCEPT ![n] = AbstractCard(row.content)]
  BY <1>1, <1>4, <1>5 DEF CardsIn, DatabaseInv
<1>11. Serial!CanTransition(row.status, "under_review")
  BY <1>1, SerialTransitions
<1>12. Serial!Submit(Key)
  <2>1. /\ OneRow(row.status)[Key] = row.status
        /\ OneRow(row.round)[Key] = row.round
        /\ OneRow(AbstractCard(row.content))[Key] = AbstractCard(row.content)
    BY OneRowFacts
  <2>2. [OneRow(CardsIn(submitted)) EXCEPT ![Key][n] = AbstractCard(row.content)]
          = OneRow(CardsIn(submitted'))
    BY <1>10 DEF OneRow
  <2>3. [OneRow(row.status) EXCEPT ![Key] = "under_review"] = OneRow(row'.status)
    BY <1>3, OneRowFacts
  <2>4. [OneRow(row.round) EXCEPT ![Key] = @ + 1] = OneRow(row'.round)
    BY <1>3, <2>1, OneRowFacts DEF n
  <2>5. /\ AbstractTask = Serial!Task
        /\ Serial!RequiredStages(AbstractCard(row.content)) = ConfiguredStages
        /\ Serial!ValidCard(AbstractCard(row.content))
    BY <1>7, CardOf DEF AbstractTask, Serial!Task, Serial!Round, Serial!Stage, Serial!ValidCard
  <2>6. DecisionsIn(tasks') =
          [t \in Serial!Task |->
             IF /\ t.agent = Key
                /\ t.round = OneRow(row.round)[Key] + 1
                /\ t.stage \in Serial!RequiredStages(OneRow(AbstractCard(row.content))[Key])
             THEN "pending" ELSE DecisionsIn(tasks)[t]]
    BY <1>8, <2>1, <2>5 DEF n
  <2>7. /\ UNCHANGED OneRow(AbstractCard(row.content)) /\ UNCHANGED OneRow(lapsed)
        /\ UNCHANGED {TaskAt(tasks, i) : i \in escalated}
    BY <1>1, <1>3, <1>5 DEF DatabaseInv
  <2> QED BY <1>4, <1>11, <2>1, <2>2, <2>3, <2>4, <2>5, <2>6, <2>7 DEF Serial!Submit, n
<1> QED BY <1>9, <1>12 DEF Serial!Next, Serial!AgentStep


\* A decision writes one task of a registered agent.
LEMMA DecideCommits ==
  ASSUME SerialInv, NEW r \in Request, Commit(r), Deciding(r),
         NEW i, i = op[r].task, NEW v, v = op[r].verdict,
         row'.round = row.round, row'.content = row.content,
         row'.status # "unregistered"
  PROVE  /\ DatabaseInv'
         /\ i \in DOMAIN tasks
         /\ TaskAt(tasks, i) \in Serial!Task
         /\ DecisionsIn(tasks)[TaskAt(tasks, i)] = "pending"
         /\ DecisionsIn(tasks)' = [DecisionsIn(tasks) EXCEPT ![TaskAt(tasks, i)] = v]
         /\ UNCHANGED <<escalated, lapsed, submitted>>
<1>1. /\ DatabaseInv /\ row \in Row /\ tasks \in Seq(Task) /\ i \in DOMAIN tasks
      /\ op[r].kind = "decide" /\ tasks[i].decision = "pending"
  BY TypesOf DEF TasksInv, RequestInv, Deciding
<1>2. tasks' = [tasks EXCEPT ![i].decision = v] /\ UNCHANGED <<escalated, lapsed, submitted>>
  BY <1>1, LoneCommit DEF View
<1>3. OnlyDecides(tasks, tasks', i, v)
  BY <1>1, <1>2, DecidedRow
<1> DEFINE t == TaskAt(tasks, i)
<1>4. Distinct(tasks)' /\ DecisionsIn(tasks') = [DecisionsIn(tasks) EXCEPT ![t] = v]
  <2>1. Distinct(tasks)
    BY <1>1 DEF DatabaseInv
  <2> QED BY <1>1, <1>3, <2>1, DecidedTable
<1>5. tasks[i] \in Task
  BY <1>1
<1>6. t \in AbstractTask /\ AbstractTask = Serial!Task
  BY <1>5 DEF Task, TaskAt, AbstractTask, Serial!Task, Serial!Round, Serial!Stage
<1>7. DecisionsIn(tasks)[t] = "pending"
  <2>1. Distinct(tasks) /\ Matches(tasks, i, t)
    BY <1>1 DEF DatabaseInv, Matches, TaskAt
  <2> HIDE DEF t
  <2> QED BY <1>1, <1>6, <2>1, DecisionAt DEF DecisionsIn
<1>8. \A j \in DOMAIN tasks' : tasks'[j].round <= row'.round
  BY <1>1, <1>3 DEF OnlyDecides, DatabaseInv
<1>9. row.status # "unregistered"
  <2>1. tasks[i].round \in 1..MaxRound /\ tasks[i].round <= row.round
    BY <1>1, <1>5 DEF Task, DatabaseInv
  <2>2. row.round # 0
    BY <2>1, BoundAssumption DEF BoundAssumption
  <2> QED BY <1>1, <2>2 DEF DatabaseInv
<1>10. DatabaseInv'
  BY <1>1, <1>2, <1>4, <1>8, <1>9 DEF DatabaseInv
<1> QED BY <1>1, <1>2, <1>4, <1>6, <1>7, <1>10

\* decide finds every sibling approved exactly when the task completes its round.
LEMMA CompletesWhenApproved ==
  ASSUME SerialInv, NEW r \in Request, Deciding(r), op[r].verdict = "approved",
         NEW i, i = op[r].task, i \in DOMAIN tasks
  PROVE  AllApproved(r) <=> Serial!CompletesRound(TaskAt(tasks, i))
<1> DEFINE t == TaskAt(tasks, i)
<1>1. /\ Distinct(tasks) /\ tasks \in Seq(Task) /\ op[r].kind = "decide"
      /\ \A j \in DOMAIN tasks : tasks[j] \in Task
  BY TypesOf DEF TasksInv, DatabaseInv, Deciding
<1>2. /\ View(r)[i].decision = "approved"
      /\ \A j \in DOMAIN tasks : j # i => View(r)[j] = tasks[j]
  <2>1. View(r) = [tasks EXCEPT ![i].decision = "approved"]
    BY <1>1 DEF View
  <2>2. PICK v : v = "approved"
    OBVIOUS
  <2>3. OnlyDecides(tasks, [tasks EXCEPT ![i].decision = v], i, v)
    BY <1>1, DecidedRow
  <2>4. OnlyDecides(tasks, View(r), i, v)
    BY <2>1, <2>2, <2>3
  <2> QED BY <2>2, <2>4 DEF OnlyDecides
<1>3. Serial!Task = AbstractTask
  BY DEF AbstractTask, Serial!Task, Serial!Round, Serial!Stage
<1>4. ASSUME NEW j \in DOMAIN tasks
      PROVE  /\ TaskAt(tasks, j) \in AbstractTask
             /\ DecisionsIn(tasks)[TaskAt(tasks, j)] = tasks[j].decision
             /\ tasks[j].decision # "absent"
  <2> DEFINE u == TaskAt(tasks, j)
  <2>1. tasks[j] \in Task
    BY <1>1
  <2>2. u \in AbstractTask /\ tasks[j].decision # "absent" /\ Matches(tasks, j, u)
    BY <2>1 DEF Task, TaskAt, AbstractTask, Matches
  <2> HIDE DEF u
  <2>3. DecisionsIn(tasks)[u] = tasks[j].decision
    BY <1>1, <2>2, DecisionAt DEF DecisionsIn
  <2> QED BY <2>2, <2>3 DEF u
<1>5. ASSUME NEW u \in AbstractTask, DecisionsIn(tasks)[u] # "absent"
      PROVE  \E j \in DOMAIN tasks : u = TaskAt(tasks, j)
  <2>1. DecisionIn(tasks, u) # "absent"
    BY <1>5 DEF DecisionsIn
  <2>2. PICK j \in DOMAIN tasks : Matches(tasks, j, u)
    BY <2>1, DecisionAbsent
  <2>3. u = TaskAt(tasks, j)
    BY <2>2 DEF Matches, TaskAt, AbstractTask
  <2> QED BY <2>3
<1>6. ASSUME AllApproved(r), NEW u \in Serial!Siblings(t), u # t
      PROVE  DecisionsIn(tasks)[u] = "approved"
  <2>1. u \in AbstractTask /\ u.round = t.round /\ DecisionsIn(tasks)[u] # "absent"
    BY <1>3 DEF Serial!Siblings
  <2>2. PICK j \in DOMAIN tasks : u = TaskAt(tasks, j)
    BY <1>5, <2>1
  <2>3. j # i /\ j \in Siblings(i)
    BY <1>6, <2>1, <2>2 DEF TaskAt, Siblings
  <2>4. tasks[j].decision = "approved"
    BY <1>2, <1>6, <2>3 DEF AllApproved
  <2> QED BY <1>4, <2>2, <2>4
<1>7. ASSUME Serial!CompletesRound(t), NEW j \in Siblings(i)
      PROVE  View(r)[j].decision = "approved"
  <2>1. CASE j = i
    BY <1>2, <2>1
  <2>2. CASE j # i
    <3> DEFINE u == TaskAt(tasks, j)
    <3>1. j \in DOMAIN tasks /\ tasks[j].round = tasks[i].round
      BY DEF Siblings
    <3>2. u # t
      BY <1>1, <2>2, <3>1 DEF Distinct, TaskAt
    <3>3. u.agent = t.agent /\ u.round = t.round
      BY <3>1 DEF TaskAt
    <3>4. /\ u \in Serial!Task /\ DecisionsIn(tasks)[u] # "absent"
          /\ DecisionsIn(tasks)[u] = tasks[j].decision
      BY <1>3, <1>4, <3>1
    <3> HIDE DEF u, t
    <3>5. u \in Serial!Siblings(t)
      BY <3>3, <3>4 DEF Serial!Siblings
    <3>6. DecisionsIn(tasks)[u] = "approved"
      BY <1>7, <3>2, <3>5 DEF Serial!CompletesRound
    <3> QED BY <1>2, <2>2, <3>1, <3>4, <3>6
  <2> QED BY <2>1, <2>2
<1>8. AllApproved(r) <=> \A j \in Siblings(i) : View(r)[j].decision = "approved"
  BY DEF AllApproved
<1>9. Serial!CompletesRound(t) <=>
        \A u \in Serial!Siblings(t) : u # t => DecisionsIn(tasks)[u] = "approved"
  BY DEF Serial!CompletesRound
<1> HIDE DEF t
<1> QED BY <1>6, <1>7, <1>8, <1>9 DEF t

\* A committed decision is ApproveStage, ApproveLastStage or Reject.
LEMMA DecisionCommits ==
  ASSUME SerialInv, NEW r \in Request, Commit(r),
         ApprovesStage(r) \/ ApprovesAgent(r) \/ Rejects(r)
  PROVE  DatabaseInv' /\ Serial!Next
<1> DEFINE i == op[r].task
           t == TaskAt(tasks, i)
<1>1. DatabaseInv /\ row \in Row /\ Deciding(r) /\ row' = want[r] /\ i \in DOMAIN tasks
  BY TypesOf, LoneCommit DEF ApprovesStage, ApprovesAgent, Rejects, Deciding, RequestInv
<1>2. row.status # "unregistered"
  <2>1. tasks[i] \in Task
    BY <1>1, TypesOf DEF TasksInv
  <2>2. tasks[i].round \in 1..MaxRound /\ tasks[i].round <= row.round
    BY <1>1, <2>1 DEF Task, DatabaseInv
  <2>3. row.round # 0
    BY <2>2, BoundAssumption DEF BoundAssumption
  <2> QED BY <1>1, <2>3 DEF DatabaseInv
<1> HIDE DEF i
<1>3. CASE ApprovesStage(r)
  <2>1. row' = row /\ op[r].verdict = "approved"
    BY <1>1, <1>3 DEF ApprovesStage
  <2>2. /\ DatabaseInv' /\ t \in Serial!Task /\ DecisionsIn(tasks)[t] = "pending"
        /\ DecisionsIn(tasks)' = [DecisionsIn(tasks) EXCEPT ![t] = "approved"]
        /\ UNCHANGED <<escalated, lapsed, submitted>>
    BY <1>1, <1>2, <2>1, DecideCommits DEF i
  <2>3. ~Serial!CompletesRound(t)
    BY <1>1, <1>3, <2>1, CompletesWhenApproved DEF ApprovesStage, i
  <2>4. Serial!ApproveStage(t)
    BY <1>1, <2>1, <2>2, <2>3 DEF Serial!ApproveStage, DatabaseInv
  <2> QED BY <2>2, <2>4 DEF Serial!Next, Serial!TaskStep
<1>4. CASE ApprovesAgent(r)
  <2>1. /\ row' = [row EXCEPT !.status = "approved"] /\ op[r].verdict = "approved"
        /\ CanTransition(row.status, "approved")
    BY <1>1, <1>4 DEF ApprovesAgent
  <2>2. row'.status = "approved" /\ row'.content = row.content /\ row'.round = row.round
    BY <1>1, <2>1 DEF Row
  <2>3. /\ DatabaseInv' /\ t \in Serial!Task /\ DecisionsIn(tasks)[t] = "pending"
        /\ DecisionsIn(tasks)' = [DecisionsIn(tasks) EXCEPT ![t] = "approved"]
        /\ UNCHANGED <<escalated, lapsed, submitted>>
    BY <1>1, <2>1, <2>2, DecideCommits DEF i
  <2>4. Serial!CompletesRound(t)
    BY <1>1, <1>4, <2>1, CompletesWhenApproved DEF ApprovesAgent, i
  <2>5. t.agent = Key /\ Serial!CanTransition(OneRow(row.status)[Key], "approved")
    BY <2>1, SerialTransitions, OneRowFacts DEF TaskAt
  <2>6. Serial!ApproveLastStage(t)
    BY <1>1, <2>2, <2>3, <2>4, <2>5, OneRowFacts DEF Serial!ApproveLastStage, DatabaseInv
  <2> QED BY <2>3, <2>6 DEF Serial!Next, Serial!TaskStep
<1>5. CASE Rejects(r)
  <2>1. row' = [row EXCEPT !.status = "rejected"] /\ op[r].verdict = "rejected"
    BY <1>1, <1>5 DEF Rejects
  <2>2. row'.status = "rejected" /\ row'.content = row.content /\ row'.round = row.round
    BY <1>1, <2>1 DEF Row
  <2>3. /\ DatabaseInv' /\ t \in Serial!Task /\ DecisionsIn(tasks)[t] = "pending"
        /\ DecisionsIn(tasks)' = [DecisionsIn(tasks) EXCEPT ![t] = "rejected"]
        /\ UNCHANGED <<escalated, lapsed, submitted>>
    BY <1>1, <2>1, <2>2, DecideCommits DEF i
  <2>4. t.agent = Key
    BY DEF TaskAt
  <2>5. Serial!Reject(t)
    BY <1>1, <2>2, <2>3, <2>4, OneRowFacts DEF Serial!Reject, DatabaseInv
  <2> QED BY <2>3, <2>5 DEF Serial!Next, Serial!TaskStep
<1> QED BY <1>3, <1>4, <1>5

----------------------------------------------------------------------------

\* The initial states are AgentApproval's.
LEMMA SerialInit == Init => SerialInv /\ Serial!Init
<1> SUFFICES ASSUME Init PROVE SerialInv /\ Serial!Init
  OBVIOUS
<1>1. DOMAIN tasks = {} /\ row = NoRow /\ escalated = {} /\ lapsed = 0
  BY DEF Init
<1>2. \A r \in Request : LoneInv(r)
  BY DEF Init, LoneInv
<1>3. DatabaseInv
  BY <1>1 DEF Init, DatabaseInv, Distinct, NoRow
<1>4. \A t : DecisionIn(tasks, t) = "absent"
  BY <1>1, DecisionAbsent
<1>5. CardsIn(submitted) = [n \in 1..MaxRound |-> NoContent] /\ AbstractCard(row.content) = NoContent
  BY <1>1 DEF Init, CardsIn, AbstractCard, NoRow
<1>6. DecisionsIn(tasks) = [t \in Serial!Task |-> "absent"]
  BY <1>4 DEF DecisionsIn, AbstractTask, Serial!Task, Serial!Round, Serial!Stage
<1>7. Serial!Init
  BY <1>1, <1>5, <1>6 DEF Serial!Init, Serial!Round, OneRow, NoRow
<1> QED BY <1>2, <1>3, <1>7, ApprovalInvInit DEF SerialInv

\* Each step keeps the invariant and is a step of AgentApproval or none.
LEMMA SerialNext ==
  ASSUME Alone, SerialInv, [Next]_vars
  PROVE  SerialInv' /\ [Serial!Next]_Serial!vars
<1>1. ApprovalInv'
  BY ApprovalInvNext DEF SerialInv
<1>2. ASSUME UNCHANGED <<row, tasks, escalated, lapsed, submitted>>
      PROVE  UNCHANGED Serial!vars
  BY <1>2 DEF Serial!vars
<1>3. ASSUME NEW r \in Request, Start(r)
      PROVE  SerialInv' /\ [Serial!Next]_Serial!vars
  <2>1. UNCHANGED database
    BY <1>3 DEF Start, StartRegister, StartUpdate, StartSubmit, StartMove, StartDecide,
                StartSweep, Begin
  <2> QED BY <1>1, <1>2, <1>3, <2>1, StartKeepsSerial DEF database
<1>4. ASSUME NEW r \in Request, Commit(r)
      PROVE  SerialInv' /\ [Serial!Next]_Serial!vars
  <2>1. DatabaseInv' /\ Serial!Next
    BY <1>4, LoneCommit, RegisterCommits, UpdateCommits, SubmitCommits, MoveCommits,
       DecisionCommits DEF Effect
  <2>2. pc'[r] = "idle"
    BY <1>4, TypesOf DEF Commit, End
  <2>3. \A q \in Request : LoneInv(q)'
    BY <2>2 DEF LoneInv, Alone
  <2> QED BY <1>1, <2>1, <2>3 DEF SerialInv
<1>5. ASSUME NEW r \in Request, Step(r) \/ Abort(r)
      PROVE  SerialInv' /\ [Serial!Next]_Serial!vars
  BY <1>1, <1>2, <1>4, <1>5, StatementKeepsSerial DEF database
<1>6. CASE DueDatePasses
  <2>1. /\ UNCHANGED <<row, tasks, escalated, submitted, pc, op, seen, want>>
        /\ SlaHours > 0 /\ lapsed < row.round /\ lapsed' = lapsed + 1
    BY <1>6 DEF DueDatePasses, local
  <2>2. DatabaseInv'
    BY <2>1 DEF SerialInv, DatabaseInv, Distinct
  <2>3. \A r \in Request : LoneInv(r)'
    BY <2>1, EffectStays DEF SerialInv, LoneInv
  <2>4. Serial!DueDatePasses(Key)
    BY <2>1, OneRowFacts DEF Serial!DueDatePasses
  <2> QED BY <1>1, <2>2, <2>3, <2>4 DEF SerialInv, Serial!Next, Serial!AgentStep
<1>7. CASE UNCHANGED vars
  <2>1. UNCHANGED <<row, tasks, escalated, lapsed, submitted, pc, op, seen, want, endorsed>>
    BY <1>7 DEF vars, local
  <2>2. DatabaseInv'
    BY <2>1, DatabaseStays DEF SerialInv, database
  <2>3. \A r \in Request : LoneInv(r)'
    BY <2>1, EffectStays DEF SerialInv, LoneInv
  <2> QED BY <1>1, <1>2, <2>1, <2>2, <2>3 DEF SerialInv
<1> QED BY <1>3, <1>5, <1>6, <1>7 DEF Next

\* Requests that do not overlap do what AgentApproval says, whatever the stages,
\* the contents and the number of rounds: the statements up to the commit change
\* nothing that AgentApproval sees, the commit is the handler's one step, and a
\* request that is refused or dies is none.
THEOREM LoneRequestsAreAtomic == ASSUME Alone PROVE Spec => RefinesAgentApproval
<1>1. Init => SerialInv /\ Serial!Init
  BY SerialInit
<1>2. SerialInv /\ [Next]_vars => SerialInv' /\ [Serial!Next]_Serial!vars
  BY SerialNext
<1> QED BY <1>1, <1>2, PTL DEF Spec, RefinesAgentApproval, Serial!Spec

=============================================================================
