----------------------- MODULE AgentInvocation_proofs -----------------------
(***************************************************************************)
(* The safety properties of AgentInvocationProps, for every set of agents, *)
(* callers, policies and requests and every number of changes.             *)
(***************************************************************************)
EXTENDS AgentInvocationProps, TLAPS, FiniteSetTheorems

\* The steps that leave every request's program counter, candidates, calls and
\* reply alone: agents at work, administrators, and time.
Outside ==
  \/ \E r \in Request, a \in Agent : AgentWorks(r, a)
  \/ Administer
  \/ \E s \in Slot : Expire(s)

\* No such step touches where a request is or what it knows.
LEMMA OutsideLeavesRequests ==
  ASSUME Outside
  PROVE  UNCHANGED <<pc, candidates, calls, reply, before>>
BY DEF Outside, AgentWorks, Administer, MoveAgent, Enable, Disable, ChangePolicies,
       Change, Expire, work

\* The steps of a request that change nothing but its program counter.
Passing(r) ==
  \/ Miss(r) \/ Refuse(r) \/ Admit(r) \/ PassReach(r) \/ PassPermit(r)
  \/ SecretFails(r) \/ Respond(r) \/ Die(r)

PC == Unanswered \cup
  {"idle", "store", "respond", "logging", "done", "unlogged", "refused", "failed", "dead"}

\* Such a step moves one program counter and nothing else.
LEMMA PassingFacts ==
  ASSUME NEW r \in Request, pc \in [Request -> PC], Passing(r)
  PROVE  /\ UNCHANGED <<admin, cache, work, reply, before, disturbed>>
         /\ \E to \in PC : pc' = [pc EXCEPT ![r] = to]
         /\ pc'[r] \in PC
<1> USE DEF Pass, Goto, PC, Unanswered
<1>1. CASE Die(r)
  BY <1>1 DEF Die
<1>2. CASE Miss(r) \/ Refuse(r) \/ Admit(r) \/ PassReach(r) \/ PassPermit(r) \/ SecretFails(r) \/ Respond(r)
  BY <1>2 DEF Miss, Refuse, Admit, PassReach, PassPermit, SecretFails, Respond
<1> QED
  BY <1>1, <1>2 DEF Passing

\* An order of the active agents is a sequence of agents.
LEMMA RankingFacts ==
  ASSUME NEW S \in SUBSET Agent, NEW s \in Rankings(S)
  PROVE  /\ s \in Seq(Agent)
         /\ \A i \in DOMAIN s : s[i] \in S
         /\ \A i, j \in DOMAIN s :
              i < j => s[i] # s[j] /\ Priority[s[i]] <= Priority[s[j]]
<1>1. Cardinality(S) \in Nat
  BY AgentAssumption, FS_Subset, FS_CardinalityType
<1>2. s \in [1..Cardinality(S) -> S]
  BY DEF Rankings
<1>3. s \in Seq(S)
  BY <1>1, <1>2
<1>4. s \in Seq(Agent)
  BY <1>1, <1>2
<1>5. DOMAIN s \subseteq Nat
  BY <1>1, <1>2
<1> QED
  BY <1>2, <1>4, <1>5 DEF Rankings

\* The observed gates only grow, and hold what is open at the moment.
LEMMA WindowType ==
  ASSUME TypeOK, Observe
  PROVE  /\ window' \in [Request -> [active : SUBSET Agent, reachable : SUBSET Agent,
                                     permitted : SUBSET Agent, open : SUBSET Agent]]
         /\ \A r \in Request :
              /\ window[r].active \subseteq window'[r].active
              /\ window[r].reachable \subseteq window'[r].reachable
              /\ window[r].permitted \subseteq window'[r].permitted
              /\ pc'[r] \in Unanswered =>
                   /\ Active' \subseteq window'[r].active
                   /\ Reachable(caller(r))' \subseteq window'[r].reachable
                   /\ Permitted(caller(r))' \subseteq window'[r].permitted
<1>1. /\ Active' \subseteq Agent
      /\ \A r \in Request : Reachable(caller(r))' \subseteq Agent /\ Permitted(caller(r))' \subseteq Agent
  BY DEF Active, Reachable, Permitted
<1>2. \A r \in Request : window[r] \in [active : SUBSET Agent, reachable : SUBSET Agent,
                                     permitted : SUBSET Agent, open : SUBSET Agent]
  BY DEF TypeOK
<1>3. ASSUME NEW r \in Request
      PROVE  /\ window'[r] \in [active : SUBSET Agent, reachable : SUBSET Agent,
                                     permitted : SUBSET Agent, open : SUBSET Agent]
             /\ window[r].active \subseteq window'[r].active
             /\ window[r].reachable \subseteq window'[r].reachable
             /\ window[r].permitted \subseteq window'[r].permitted
             /\ pc'[r] \in Unanswered =>
                   /\ Active' \subseteq window'[r].active
                   /\ Reachable(caller(r))' \subseteq window'[r].reachable
                   /\ Permitted(caller(r))' \subseteq window'[r].permitted
  <2> DEFINE A == Active'
             R == Reachable(caller(r))'
             P == Permitted(caller(r))'
             O == (Active \cap Reachable(caller(r)) \cap Permitted(caller(r)))'
  <2>1. window'[r] = IF pc'[r] \in Unanswered
                     THEN [active    |-> window[r].active \cup A,
                           reachable |-> window[r].reachable \cup R,
                           permitted |-> window[r].permitted \cup P,
                           open      |-> window[r].open \cap O]
                     ELSE window[r]
    BY DEF Observe
  <2>2. A \subseteq Agent /\ R \subseteq Agent /\ P \subseteq Agent
    BY <1>1
  <2> HIDE DEF A, R, P, O
  <2>3. /\ window'[r] \in [active : SUBSET Agent, reachable : SUBSET Agent,
                                     permitted : SUBSET Agent, open : SUBSET Agent]
        /\ window[r].active \subseteq window'[r].active
        /\ window[r].reachable \subseteq window'[r].reachable
        /\ window[r].permitted \subseteq window'[r].permitted
        /\ pc'[r] \in Unanswered => /\ A \subseteq window'[r].active
                                    /\ R \subseteq window'[r].reachable
                                    /\ P \subseteq window'[r].permitted
    BY <1>2, <2>1, <2>2
  <2> QED
    BY <2>3 DEF A, R, P
<1>4. window' = [r \in Request |-> window'[r]]
  BY DEF Observe
<1> QED
  BY <1>3, <1>4

-----------------------------------------------------------------------------
\* The inductive invariant.

Searching == {"reach", "permit", "call", "await"}

\* Different agents in priority order.
Ordered(s) ==
  \A i, j \in DOMAIN s : i < j => s[i] # s[j] /\ Priority[s[i]] <= Priority[s[j]]

\* The first n calls failed retryably, and nobody they went to is a candidate.
FailedBefore(r, n) ==
  \A i \in 1..n :
    /\ calls[r][i].answer \in Retryable
    /\ \A j \in DOMAIN candidates[r] :
         /\ calls[r][i].agent # candidates[r][j]
         /\ Priority[calls[r][i].agent] <= Priority[candidates[r][j]]

\* Where a request is tells what it has: candidates that were active, gates the
\* current one passed, calls that failed before it, and no reply until the end.
SearchOK(r) ==
  /\ pc[r] \in {"idle", "lookup", "admit", "load"} => calls[r] = <<>>
  /\ pc[r] = "lookup" => Keyed(r)
  /\ pc[r] \in Unanswered \cup {"idle"} => reply[r] = NoReply
  /\ pc[r] \in Searching =>
       /\ Ordered(candidates[r])
       /\ \A j \in DOMAIN candidates[r] : candidates[r][j] \in window[r].active
  /\ pc[r] \in {"permit", "call", "await"} =>
       candidates[r] # <<>> /\ Current(r) \in window[r].reachable
  /\ pc[r] \in {"call", "await"} => Current(r) \in window[r].permitted
  /\ pc[r] \in {"reach", "permit", "call"} => FailedBefore(r, Len(calls[r]))
  /\ pc[r] = "await" =>
       /\ calls[r] # <<>>
       /\ LastCall(r).agent = Current(r)
       /\ \A i \in 1..(Len(calls[r]) - 1) :
            /\ calls[r][i].answer \in Retryable
            /\ \A j \in DOMAIN candidates[r] :
                 /\ calls[r][i].agent # candidates[r][j]
                 /\ Priority[calls[r][i].agent] <= Priority[candidates[r][j]]
  /\ pc[r] = "store" =>
       /\ Keyed(r) /\ reply[r] # NoReply
       /\ reply[r].id = r /\ reply[r].success

\* The parts of the properties that are about one request.
EligibleCalls(r) ==
  \A i \in DOMAIN calls[r] :
    calls[r][i].agent \in window[r].active \cap window[r].reachable \cap window[r].permitted

InOrder(r) ==
  \A i, j \in DOMAIN calls[r] :
    i < j => /\ calls[r][i].answer \in Retryable
             /\ calls[r][i].agent # calls[r][j].agent
             /\ Priority[calls[r][i].agent] <= Priority[calls[r][j].agent]

HonestReply(r) ==
  reply[r] # NoReply /\ reply[r].id = r =>
    IF reply[r].decision = "allowed"
    THEN /\ calls[r] # <<>> /\ reply[r].agents = {LastCall(r).agent}
         /\ reply[r].success <=> LastCall(r).answer = "success"
         /\ reply[r].success => <<r, LastCall(r).agent>> \in executed
    ELSE calls[r] = <<>> /\ ~reply[r].success

RequestOK(r) == SearchOK(r) /\ EligibleCalls(r) /\ InOrder(r) /\ HonestReply(r)

IInv ==
  /\ TypeOK
  /\ \A r \in Request : RequestOK(r)
  /\ StoredIsOwnSuccess

\* A request has a caller, and a keyed one a slot of the cache.
LEMMA SlotFacts ==
  ASSUME NEW r \in Request
  PROVE  /\ caller(r) \in Caller
         /\ Keyed(r) => slot(r) \in Slot
BY CallerAssumption DEF caller, slot, Slot, Keyed

\* The invariant holds before any request has arrived.
LEMMA InitInv == Init => IInv
<1> SUFFICES ASSUME Init PROVE IInv
  OBVIOUS
<1> USE DEF Init
<1>1. TypeOK
  BY AgentAssumption, BoundAssumption DEF TypeOK, Status, PC, Unanswered
<1>2. \A r \in Request : RequestOK(r)
  BY DEF RequestOK, SearchOK, EligibleCalls, InOrder, HonestReply, Searching, Unanswered
<1>3. StoredIsOwnSuccess
  BY DEF StoredIsOwnSuccess
<1> QED
  BY <1>1, <1>2, <1>3 DEF IInv

\* A request that is trying a candidate has one.
LEMMA CurrentFacts ==
  ASSUME TypeOK, NEW r \in Request, SearchOK(r), pc[r] \in {"permit", "call", "await"}
  PROVE  /\ Current(r) \in Agent
         /\ Tail(candidates[r]) \in Seq(Agent)
         /\ candidates[r] # <<>> /\ Current(r) = candidates[r][1]
BY DEF TypeOK, SearchOK, Current

\* Noting an answer changes the last call and nothing else.
LEMMA NoteFacts ==
  ASSUME TypeOK, NEW r \in Request, SearchOK(r), pc[r] = "await",
         NEW answer \in Definitive \cup Retryable, NoteAnswer(r, answer)
  PROVE  /\ calls' \in [Request -> Seq(Call)]
         /\ Len(calls'[r]) = Len(calls[r]) /\ calls'[r] # <<>>
         /\ \A i \in 1..(Len(calls[r]) - 1) : calls'[r][i] = calls[r][i]
         /\ LastCall(r)'.agent = Current(r)
         /\ LastCall(r)'.answer = answer
         /\ \A q \in Request : q # r => calls'[q] = calls[q]
<1> DEFINE n == Len(calls[r])
           new == [calls[r] EXCEPT ![n].answer = answer]
<1>1. calls[r] \in Seq(Call) /\ n \in Nat /\ n >= 1 /\ DOMAIN calls[r] = 1..n
  BY DEF TypeOK, SearchOK
<1>2. calls[r][n] \in Call /\ calls[r][n].agent = Current(r)
  BY <1>1 DEF SearchOK, LastCall
<1>3. [calls[r][n] EXCEPT !.answer = answer] \in Call
  BY <1>2 DEF Call
<1>4. new \in [1..n -> Call]
  BY <1>1, <1>3
<1>5. new \in Seq(Call) /\ Len(new) = n /\ new # <<>>
  BY <1>1, <1>4
<1>6. /\ \A i \in 1..(n - 1) : new[i] = calls[r][i]
      /\ new[n].agent = Current(r) /\ new[n].answer = answer
  BY <1>1, <1>2 DEF Call
<1>7. calls' = [calls EXCEPT ![r] = new] /\ calls \in [Request -> Seq(Call)]
  BY DEF NoteAnswer, TypeOK
<1>8. calls'[r] = new
  BY <1>7
<1> QED
  BY <1>5, <1>6, <1>7, <1>8 DEF LastCall

\* Another call awaited, or the last one looked at, is a call to an agent.
LEMMA CallFacts ==
  ASSUME NEW c \in Seq(Call)
  PROVE  /\ \A a \in Agent : Append(c, [agent |-> a, answer |-> "awaited"]) \in Seq(Call)
         /\ c # <<>> => c[Len(c)].agent \in Agent
<1>1. \A a \in Agent : [agent |-> a, answer |-> "awaited"] \in Call
  BY DEF Call
<1>2. c # <<>> => c[Len(c)] \in Call
  OBVIOUS
<1>3. \A d \in Call : d.agent \in Agent
  BY DEF Call
<1>4. \A d \in Call : Append(c, d) \in Seq(Call)
  OBVIOUS
<1> QED
  BY <1>1, <1>2, <1>3, <1>4

\* Agents only move along the lifecycle.
LEMMA MoveFacts ==
  ASSUME status \in [Agent -> Status], NEW a \in Agent, MoveAgent(a)
  PROVE  status' \in [Agent -> Status]
<1>1. CASE Registry!Move(a)
  BY <1>1 DEF Registry!Move, Registry!Status, Status
<1>2. CASE Registry!RejectUnchecked(a)
  BY <1>2 DEF Registry!RejectUnchecked, Status
<1> QED
  BY <1>1, <1>2 DEF MoveAgent

\* No step leaves the types.
LEMMA TypeStep ==
  ASSUME TypeOK, \A r \in Request : SearchOK(r), [Next]_vars
  PROVE  TypeOK'
<1>1. CASE UNCHANGED vars
  BY <1>1 DEF TypeOK, vars, admin, work
<1>2. CASE Next
  <2>1. Observe
    BY <1>2 DEF Next
  <2>2. window' \in [Request -> [active : SUBSET Agent, reachable : SUBSET Agent,
                                 permitted : SUBSET Agent, open : SUBSET Agent]]
    BY <2>1, WindowType
  <2> DEFINE Rest == /\ status' \in [Agent -> Status]
                     /\ enabled' \subseteq Private \X Project
                     /\ policies' \subseteq Policy
                     /\ changes' \in 0..MaxChange
                     /\ cache' \in [Slot -> Reply \cup {NoReply}]
                     /\ executed' \subseteq Request \X Agent
                     /\ rows' \subseteq Request
                     /\ pc' \in [Request -> PC]
                     /\ candidates' \in [Request -> Seq(Agent)]
                     /\ calls' \in [Request -> Seq(Call)]
                     /\ reply' \in [Request -> Reply \cup {NoReply}]
                     /\ before' \in [Request -> SUBSET Request]
                     /\ disturbed' \subseteq Slot
  <2>3. SUFFICES Rest
    BY <2>2 DEF TypeOK, PC
  <2> USE DEF TypeOK, PC, Unanswered, admin, work
  <2>4. ASSUME NEW r \in Request, Passing(r) PROVE Rest
    <3>1. PICK to \in PC : pc' = [pc EXCEPT ![r] = to]
      BY <2>4, PassingFacts
    <3>2. UNCHANGED <<admin, cache, work, reply, before, disturbed>>
      BY <2>4, PassingFacts
    <3> QED
      BY <3>1, <3>2
  <2>5. ASSUME NEW r \in Request, Arrive(r) PROVE Rest
    BY <2>5 DEF Arrive, Goto
  <2>6. ASSUME NEW r \in Request, Replay(r) PROVE Rest
    <3>1. Keyed(r)
      BY <2>6 DEF Replay, Goto, SearchOK
    <3>2. cache[slot(r)] \in Reply \cup {NoReply}
      BY <3>1, SlotFacts
    <3> QED
      BY <2>6, <3>2 DEF Replay, Goto
  <2>7. ASSUME NEW r \in Request, MissOnOutage(r) \/ StoreOnOutage(r) PROVE Rest
    <3>1. Keyed(r)
      BY <2>7 DEF MissOnOutage, StoreOnOutage, Goto, SearchOK
    <3> QED
      BY <2>7, <3>1, SlotFacts DEF MissOnOutage, StoreOnOutage, Goto
  <2>8. ASSUME NEW r \in Request, LoadCandidates(r) PROVE Rest
    <3>1. PICK s \in Rankings(Active) : candidates' = [candidates EXCEPT ![r] = s]
      BY <2>8 DEF LoadCandidates
    <3>2. s \in Seq(Agent)
      BY RankingFacts DEF Active
    <3> QED
      BY <2>8, <3>1, <3>2 DEF LoadCandidates, Goto
  <2>9. ASSUME NEW r \in Request, NEW from, NEW result \in Reply, Conclude(r, from, result) PROVE Rest
    BY <2>9 DEF Conclude, Goto
  <2>10. ASSUME NEW r \in Request, NoActiveAgent(r) PROVE Rest
    <3>1. Result(r, "no_active_agent", {}, FALSE) \in Reply
      BY DEF Result, Reply
    <3> QED
      BY <2>9, <2>10, <3>1 DEF NoActiveAgent
  <2>11. ASSUME NEW r \in Request, Exhausted(r) PROVE Rest
    <3>1. calls[r] # <<>> => LastCall(r).agent \in Agent
      BY CallFacts DEF LastCall
    <3>2. FinalResult(r) \in Reply
      BY <3>1 DEF FinalResult, Result, Reply
    <3> QED
      BY <2>9, <2>11, <3>2 DEF Exhausted
  <2>12. ASSUME NEW r \in Request, Skip(r) PROVE Rest
    <3>1. candidates[r] # <<>>
      BY <2>12 DEF Skip, Refused, SearchOK
    <3>2. Tail(candidates[r]) \in Seq(Agent)
      BY <3>1
    <3> QED
      BY <2>12, <3>2 DEF Skip, NextCandidate
  <2>13. ASSUME NEW r \in Request, Send(r) PROVE Rest
    <3>1. Current(r) \in Agent
      BY <2>13, CurrentFacts DEF Send, Goto
    <3>2. Append(calls[r], [agent |-> Current(r), answer |-> "awaited"]) \in Seq(Call)
      BY <3>1, CallFacts
    <3> QED
      BY <2>13, <3>2 DEF Send, Goto
  <2>14. ASSUME NEW r \in Request, NEW answer \in Definitive, AnswerDefinitive(r, answer) PROVE Rest
    <3>1. Current(r) \in Agent /\ calls' \in [Request -> Seq(Call)]
      BY <2>14, CurrentFacts, NoteFacts DEF AnswerDefinitive, Goto
    <3>2. Result(r, "allowed", {Current(r)}, answer = "success") \in Reply
      BY <3>1 DEF Result, Reply
    <3> QED
      BY <2>14, <3>1, <3>2 DEF AnswerDefinitive, NoteAnswer, Goto
  <2>15. ASSUME NEW r \in Request, NEW answer \in Retryable, AnswerRetryable(r, answer) PROVE Rest
    <3>1. Tail(candidates[r]) \in Seq(Agent) /\ calls' \in [Request -> Seq(Call)]
      BY <2>15, CurrentFacts, NoteFacts DEF AnswerRetryable, Goto
    <3> QED
      BY <2>15, <3>1 DEF AnswerRetryable, NoteAnswer, NextCandidate, Goto
  <2>16. ASSUME NEW r \in Request, Store(r) PROVE Rest
    BY <2>16 DEF Store, Goto
  <2>17. ASSUME NEW r \in Request, Log(r) PROVE Rest
    BY <2>17 DEF Log, Goto
  <2>18. CASE \E r \in Request, a \in Agent : AgentWorks(r, a)
    BY <2>18 DEF AgentWorks
  <2>19. ASSUME NEW a \in Agent, MoveAgent(a) PROVE Rest
    <3>1. status' \in [Agent -> Status]
      BY <2>19, MoveFacts
    <3> QED
      BY <2>19, <3>1, BoundAssumption DEF MoveAgent, Change
  <2>20. CASE \E a \in Agent, p \in Project : Enable(a, p) \/ Disable(a, p)
    BY <2>20, BoundAssumption DEF Enable, Disable, Change
  <2>21. CASE ChangePolicies
    BY <2>21, BoundAssumption DEF ChangePolicies, Change
  <2>22. CASE \E s \in Slot : Expire(s)
    BY <2>22 DEF Expire
  <2> QED
    BY <1>2, <2>4, <2>5, <2>6, <2>7, <2>8, <2>10, <2>11, <2>12, <2>13, <2>14, <2>15, <2>16,
       <2>17, <2>18, <2>19, <2>20, <2>21, <2>22 DEF Next, Advance, Administer, Passing
<1> QED
  BY <1>1, <1>2

-----------------------------------------------------------------------------
\* What a step leaves alone keeps its request in order.

\* A step that leaves a request alone leaves what holds of it.
LEMMA KeptRequest ==
  ASSUME TypeOK, Observe, NEW q \in Request, RequestOK(q), executed \subseteq executed',
         pc'[q] = pc[q], candidates'[q] = candidates[q], calls'[q] = calls[q],
         reply'[q] = reply[q]
  PROVE  RequestOK(q)'
<1>1. /\ window[q].active \subseteq window'[q].active
      /\ window[q].reachable \subseteq window'[q].reachable
      /\ window[q].permitted \subseteq window'[q].permitted
  BY WindowType
<1>2. /\ Current(q)' = Current(q) /\ LastCall(q)' = LastCall(q)
      /\ FailedBefore(q, Len(calls[q]))' = FailedBefore(q, Len(calls[q]))
  BY DEF Current, LastCall, FailedBefore
<1>3. SearchOK(q)'
  BY <1>1, <1>2 DEF RequestOK, SearchOK
<1>4. EligibleCalls(q)'
  BY <1>1 DEF RequestOK, EligibleCalls
<1>5. InOrder(q)'
  BY DEF RequestOK, InOrder
<1>6. HonestReply(q)'
  BY <1>2 DEF RequestOK, HonestReply
<1> QED
  BY <1>3, <1>4, <1>5, <1>6 DEF RequestOK

\* A step of one request touches no other.
LEMMA OwnSteps ==
  ASSUME TypeOK, \A r \in Request : SearchOK(r),
         NEW r \in Request, Arrive(r) \/ Advance(r) \/ Die(r),
         NEW q \in Request, q # r
  PROVE  /\ pc'[q] = pc[q] /\ candidates'[q] = candidates[q]
         /\ calls'[q] = calls[q] /\ reply'[q] = reply[q] /\ before'[q] = before[q]
<1> USE DEF TypeOK, work
<1>1. CASE Passing(r)
  <2>1. PICK to \in PC : pc' = [pc EXCEPT ![r] = to]
    BY <1>1, PassingFacts DEF PC, Unanswered
  <2>2. UNCHANGED <<admin, cache, work, reply, before, disturbed>>
    BY <1>1, PassingFacts DEF PC, Unanswered
  <2> QED
    BY <2>1, <2>2
<1>2. CASE Arrive(r) \/ Replay(r) \/ MissOnOutage(r) \/ Store(r) \/ StoreOnOutage(r) \/ Log(r)
  BY <1>2 DEF Arrive, Replay, MissOnOutage, Store, StoreOnOutage, Log, Goto
<1>3. CASE LoadCandidates(r)
  BY <1>3 DEF LoadCandidates, Goto
<1>4. CASE NoActiveAgent(r) \/ Exhausted(r)
  BY <1>4 DEF NoActiveAgent, Exhausted, Conclude, Goto
<1>5. CASE Skip(r)
  BY <1>5 DEF Skip, NextCandidate
<1>6. CASE Send(r)
  BY <1>6 DEF Send, Goto
<1>7. ASSUME NEW answer \in Definitive, AnswerDefinitive(r, answer)
      PROVE  /\ pc'[q] = pc[q] /\ candidates'[q] = candidates[q]
             /\ calls'[q] = calls[q] /\ reply'[q] = reply[q] /\ before'[q] = before[q]
  BY <1>7 DEF AnswerDefinitive, NoteAnswer, Goto
<1>8. ASSUME NEW answer \in Retryable, AnswerRetryable(r, answer)
      PROVE  /\ pc'[q] = pc[q] /\ candidates'[q] = candidates[q]
             /\ calls'[q] = calls[q] /\ reply'[q] = reply[q] /\ before'[q] = before[q]
  BY <1>8 DEF AnswerRetryable, NoteAnswer, NextCandidate, Goto
<1> QED
  BY <1>1, <1>2, <1>3, <1>4, <1>5, <1>6, <1>7, <1>8 DEF Advance, Passing

\* What an agent did is never undone.
LEMMA ExecutedGrows ==
  ASSUME [Next]_vars
  PROVE  executed \subseteq executed'
<1>1. CASE UNCHANGED vars
  BY <1>1 DEF vars, work
<1>2. CASE Outside
  BY <1>2 DEF Outside, AgentWorks, Administer, MoveAgent, Enable, Disable, ChangePolicies,
              Change, Expire, work
<1>3. ASSUME NEW r \in Request, Arrive(r) \/ Advance(r) \/ Die(r) PROVE executed' = executed
  <2> USE DEF work
  <2>1. CASE Miss(r) \/ Refuse(r) \/ Admit(r) \/ PassReach(r) \/ PassPermit(r)
             \/ SecretFails(r) \/ Respond(r) \/ Die(r)
    BY <2>1 DEF Miss, Refuse, Admit, PassReach, PassPermit, SecretFails, Respond, Die, Pass
  <2>2. CASE Arrive(r) \/ Replay(r) \/ MissOnOutage(r) \/ Store(r) \/ StoreOnOutage(r) \/ Log(r)
             \/ LoadCandidates(r) \/ NoActiveAgent(r) \/ Exhausted(r) \/ Skip(r) \/ Send(r)
    BY <2>2 DEF Arrive, Replay, MissOnOutage, Store, StoreOnOutage, Log, LoadCandidates,
                NoActiveAgent, Exhausted, Conclude, Skip, Send
  <2>3. CASE \/ \E answer \in Definitive : AnswerDefinitive(r, answer)
             \/ \E answer \in Retryable : AnswerRetryable(r, answer)
    BY <2>3 DEF AnswerDefinitive, AnswerRetryable, NoteAnswer
  <2> QED
    BY <1>3, <2>1, <2>2, <2>3 DEF Advance
<1> QED
  BY <1>1, <1>2, <1>3 DEF Next, Outside

-----------------------------------------------------------------------------
\* The request that takes a step stays in order, action by action.

\* A request that keeps its calls and its candidates, and has no reply of its
\* own or the one it had, only has to show where it is now.
LEMMA MovedOn ==
  ASSUME TypeOK, Observe, NEW r \in Request, RequestOK(r), executed' = executed,
         calls'[r] = calls[r], candidates'[r] = candidates[r],
         reply'[r] = reply[r] \/ (reply'[r] # NoReply /\ reply'[r].id # r)
  PROVE  EligibleCalls(r)' /\ InOrder(r)' /\ HonestReply(r)'
<1>1. /\ window[r].active \subseteq window'[r].active
      /\ window[r].reachable \subseteq window'[r].reachable
      /\ window[r].permitted \subseteq window'[r].permitted
  BY WindowType
<1>2. LastCall(r)' = LastCall(r)
  BY DEF LastCall
<1> QED
  BY <1>1, <1>2 DEF RequestOK, EligibleCalls, InOrder, HonestReply

\* A gate passed, a refusal of admission, a death: what was known still holds,
\* and a passed gate is in the window.
LEMMA PassingStep ==
  ASSUME TypeOK, Observe, NEW r \in Request, RequestOK(r), Passing(r)
  PROVE  RequestOK(r)'
<1>1. /\ UNCHANGED <<admin, cache, work, reply, before, disturbed>>
      /\ pc'[r] \in PC
  BY PassingFacts DEF TypeOK, PC
<1>2. /\ executed' = executed /\ calls' = calls /\ candidates' = candidates /\ reply' = reply
  BY <1>1 DEF work
<1>3. EligibleCalls(r)' /\ InOrder(r)' /\ HonestReply(r)'
  BY <1>2, MovedOn
<1>4. /\ Current(r)' = Current(r)
      /\ FailedBefore(r, Len(calls[r]))' = FailedBefore(r, Len(calls[r]))
  BY <1>2 DEF Current, FailedBefore
<1>5. /\ window[r].active \subseteq window'[r].active
      /\ window[r].reachable \subseteq window'[r].reachable
      /\ window[r].permitted \subseteq window'[r].permitted
      /\ pc'[r] \in Unanswered => /\ Reachable(caller(r))' \subseteq window'[r].reachable
                                  /\ Permitted(caller(r))' \subseteq window'[r].permitted
  BY WindowType
<1>6. Reachable(caller(r))' = Reachable(caller(r)) /\ Permitted(caller(r))' = Permitted(caller(r))
  BY <1>1 DEF Reachable, Permitted, admin
<1>7. SearchOK(r)'
  <2> USE DEF TypeOK, RequestOK, SearchOK, Pass, Goto, Searching, Unanswered
  <2>1. CASE Miss(r) \/ Refuse(r) \/ Admit(r) \/ Respond(r) \/ SecretFails(r)
    BY <1>2, <2>1 DEF Miss, Refuse, Admit, Respond, SecretFails
  <2>2. CASE PassReach(r)
    BY <1>2, <1>4, <1>5, <1>6, <2>2 DEF PassReach
  <2>3. CASE PassPermit(r)
    BY <1>2, <1>4, <1>5, <1>6, <2>3 DEF PassPermit
  <2>4. CASE Die(r)
    BY <1>2, <2>4 DEF Die
  <2> QED
    BY <2>1, <2>2, <2>3, <2>4 DEF Passing
<1> QED
  BY <1>3, <1>7 DEF RequestOK

\* Arrivals, replays, stores and log rows are no part of a search.
LEMMA QuietStep ==
  ASSUME TypeOK, Observe, NEW r \in Request, RequestOK(r), StoredIsOwnSuccess,
         Arrive(r) \/ Replay(r) \/ MissOnOutage(r) \/ Store(r) \/ StoreOnOutage(r) \/ Log(r)
  PROVE  RequestOK(r)'
<1>1. executed' = executed /\ calls' = calls /\ candidates' = candidates
  BY DEF Arrive, Replay, MissOnOutage, Store, StoreOnOutage, Log, work
<1>2. CASE Replay(r)
  <2>1. Keyed(r) /\ reply[r] = NoReply /\ cache[slot(r)] # NoReply
    BY <1>2 DEF Replay, Goto, RequestOK, SearchOK, Unanswered
  <2>2. cache[slot(r)] = reply[cache[slot(r)].id]
    BY <2>1, SlotFacts DEF StoredIsOwnSuccess
  <2>3. cache[slot(r)].id # r
    BY <2>1, <2>2
  <2>4. reply'[r] = cache[slot(r)] /\ pc'[r] = "done"
    BY <1>2 DEF Replay, Goto, TypeOK
  <2>5. EligibleCalls(r)' /\ InOrder(r)' /\ HonestReply(r)'
    BY <1>1, <2>1, <2>3, <2>4, MovedOn
  <2>6. SearchOK(r)'
    BY <2>4 DEF SearchOK, Searching, Unanswered
  <2> QED
    BY <2>5, <2>6 DEF RequestOK
<1>3. CASE Arrive(r) \/ MissOnOutage(r) \/ Store(r) \/ StoreOnOutage(r) \/ Log(r)
  <2>1. reply' = reply
    BY <1>3 DEF Arrive, MissOnOutage, Store, StoreOnOutage, Log
  <2>2. EligibleCalls(r)' /\ InOrder(r)' /\ HonestReply(r)'
    BY <1>1, <2>1, MovedOn
  <2>3. SearchOK(r)'
    BY <1>1, <1>3, <2>1 DEF Arrive, MissOnOutage, Store, StoreOnOutage, Log, Goto, TypeOK,
                            RequestOK, SearchOK, Searching, Unanswered
  <2> QED
    BY <2>2, <2>3 DEF RequestOK
<1> QED
  BY <1>2, <1>3

\* The candidates loaded are active agents in priority order.
LEMMA LoadStep ==
  ASSUME TypeOK, Observe, NEW r \in Request, RequestOK(r), LoadCandidates(r)
  PROVE  RequestOK(r)'
<1>1. PICK s \in Rankings(Active) : candidates' = [candidates EXCEPT ![r] = s]
  BY DEF LoadCandidates
<1>2. /\ candidates'[r] = s /\ pc'[r] = "reach" /\ pc[r] = "load"
      /\ calls' = calls /\ reply' = reply /\ executed' = executed /\ status' = status
  BY <1>1 DEF LoadCandidates, Goto, TypeOK, admin
<1>3. calls[r] = <<>> /\ reply[r] = NoReply
  BY <1>2 DEF RequestOK, SearchOK, Unanswered
<1>4. Active \in SUBSET Agent /\ Active' = Active
  BY <1>2 DEF Active
<1>5. Ordered(s) /\ \A j \in DOMAIN s : s[j] \in Active
  BY <1>4, RankingFacts DEF Ordered
<1>6. Active \subseteq window'[r].active
  BY <1>2, <1>4, WindowType DEF Unanswered
<1>7. SearchOK(r)'
  BY <1>2, <1>3, <1>5, <1>6 DEF SearchOK, Searching, FailedBefore, Unanswered
<1>8. EligibleCalls(r)' /\ InOrder(r)' /\ HonestReply(r)'
  BY <1>2, <1>3 DEF EligibleCalls, InOrder, HonestReply
<1> QED
  BY <1>7, <1>8 DEF RequestOK

\* A search that ends without a definitive answer says what it called.
LEMMA ConcludeStep ==
  ASSUME TypeOK, Observe, NEW r \in Request, RequestOK(r), NoActiveAgent(r) \/ Exhausted(r)
  PROVE  RequestOK(r)'
<1>1. /\ pc'[r] = "respond" /\ calls' = calls /\ candidates' = candidates /\ executed' = executed
  BY DEF NoActiveAgent, Exhausted, Conclude, Goto, TypeOK, work
<1>2. SearchOK(r)'
  BY <1>1 DEF SearchOK, Searching, Unanswered
<1>3. /\ window[r].active \subseteq window'[r].active
      /\ window[r].reachable \subseteq window'[r].reachable
      /\ window[r].permitted \subseteq window'[r].permitted
  BY WindowType
<1>4. EligibleCalls(r)' /\ InOrder(r)'
  BY <1>1, <1>3 DEF RequestOK, EligibleCalls, InOrder
<1>5. HonestReply(r)'
  <2>1. CASE NoActiveAgent(r)
    <3>1. calls[r] = <<>>
      BY <2>1 DEF NoActiveAgent, Conclude, Goto, RequestOK, SearchOK
    <3>2. reply'[r] = Result(r, "no_active_agent", {}, FALSE)
      BY <2>1 DEF NoActiveAgent, Conclude, TypeOK
    <3> QED
      BY <1>1, <3>1, <3>2 DEF HonestReply, Result
  <2>2. CASE Exhausted(r)
    <3>1. reply'[r] = FinalResult(r) /\ pc[r] = "reach"
      BY <2>2 DEF Exhausted, Conclude, Goto, TypeOK
    <3>2. calls[r] # <<>> => LastCall(r).answer \in Retryable
      <4>1. calls[r] \in Seq(Call) /\ FailedBefore(r, Len(calls[r]))
        BY <3>1 DEF TypeOK, RequestOK, SearchOK
      <4>2. calls[r] # <<>> => Len(calls[r]) \in 1..Len(calls[r])
        BY <4>1
      <4> QED
        BY <4>1, <4>2 DEF FailedBefore, LastCall
    <3>3. LastCall(r)' = LastCall(r)
      BY <1>1 DEF LastCall
    <3> QED
      BY <1>1, <3>1, <3>2, <3>3 DEF HonestReply, FinalResult, Result, Retryable
  <2> QED
    BY <2>1, <2>2
<1> QED
  BY <1>2, <1>4, <1>5 DEF RequestOK

\* The candidates after the current one are what they were, in their order.
LEMMA TailFacts ==
  ASSUME NEW s \in Seq(Agent), s # <<>>, Ordered(s)
  PROVE  /\ Ordered(Tail(s))
         /\ \A j \in DOMAIN Tail(s) :
              /\ j + 1 \in DOMAIN s /\ Tail(s)[j] = s[j + 1]
              /\ s[1] # Tail(s)[j] /\ Priority[s[1]] <= Priority[Tail(s)[j]]
<1>1. Len(s) \in Nat /\ DOMAIN s = 1..Len(s) /\ Len(s) >= 1 /\ DOMAIN Tail(s) = 1..(Len(s) - 1)
  OBVIOUS
<1>2. \A j \in DOMAIN Tail(s) : j + 1 \in DOMAIN s /\ Tail(s)[j] = s[j + 1]
  BY <1>1
<1>3. 1 \in DOMAIN s /\ \A j \in DOMAIN Tail(s) : 1 < j + 1
  BY <1>1
<1>4. \A j \in DOMAIN Tail(s) : s[1] # Tail(s)[j] /\ Priority[s[1]] <= Priority[Tail(s)[j]]
  BY <1>2, <1>3 DEF Ordered
<1>5. \A i, j \in DOMAIN Tail(s) : i < j => i + 1 < j + 1
  BY <1>1
<1>6. Ordered(Tail(s))
  BY <1>2, <1>5 DEF Ordered
<1> QED
  BY <1>2, <1>4, <1>6

\* A refused candidate leaves the others in order.
LEMMA SkipStep ==
  ASSUME TypeOK, Observe, NEW r \in Request, RequestOK(r), Skip(r)
  PROVE  RequestOK(r)'
<1>1. /\ pc[r] \in {"reach", "permit"} /\ candidates[r] # <<>>
      /\ pc'[r] = "reach" /\ candidates'[r] = Tail(candidates[r])
      /\ calls' = calls /\ reply' = reply /\ executed' = executed
  BY DEF Skip, Refused, NextCandidate, RequestOK, SearchOK, TypeOK
<1>2. candidates[r] \in Seq(Agent) /\ Ordered(candidates[r])
  BY <1>1 DEF TypeOK, RequestOK, SearchOK, Searching
<1>3. /\ window[r].active \subseteq window'[r].active
      /\ window[r].reachable \subseteq window'[r].reachable
      /\ window[r].permitted \subseteq window'[r].permitted
  BY WindowType
<1>4. SearchOK(r)'
  <2>1. reply'[r] = NoReply
    BY <1>1 DEF RequestOK, SearchOK, Unanswered
  <2>2. \A j \in DOMAIN candidates'[r] : candidates'[r][j] \in window'[r].active
    BY <1>1, <1>2, <1>3, TailFacts DEF RequestOK, SearchOK, Searching
  <2>3. FailedBefore(r, Len(calls[r]))'
    BY <1>1, <1>2, TailFacts DEF RequestOK, SearchOK, FailedBefore
  <2> QED
    BY <1>1, <1>2, <2>1, <2>2, <2>3, TailFacts DEF SearchOK, Searching, Unanswered
<1>5. EligibleCalls(r)' /\ InOrder(r)'
  BY <1>1, <1>3 DEF RequestOK, EligibleCalls, InOrder
<1>6. HonestReply(r)'
  BY <1>1 DEF RequestOK, SearchOK, Unanswered, HonestReply
<1> QED
  BY <1>4, <1>5, <1>6 DEF RequestOK

\* The candidate that is called passed every gate and comes after those that
\* failed.
LEMMA SendStep ==
  ASSUME TypeOK, Observe, NEW r \in Request, RequestOK(r), Send(r)
  PROVE  RequestOK(r)'
<1> DEFINE c == calls[r]
           d == [agent |-> Current(r), answer |-> "awaited"]
<1>1. /\ pc[r] = "call" /\ pc'[r] = "await" /\ calls'[r] = Append(c, d)
      /\ candidates' = candidates /\ reply' = reply /\ executed' = executed
  BY DEF Send, Goto, TypeOK
<1>2. c \in Seq(Call) /\ candidates[r] \in Seq(Agent) /\ candidates[r] # <<>>
      /\ Current(r) = candidates[r][1] /\ 1 \in DOMAIN candidates[r]
  BY <1>1, CurrentFacts DEF TypeOK, RequestOK
<1>3. FailedBefore(r, Len(c)) /\ reply[r] = NoReply /\ Ordered(candidates[r])
      /\ Current(r) \in window[r].active \cap window[r].reachable \cap window[r].permitted
      /\ \A j \in DOMAIN candidates[r] : candidates[r][j] \in window[r].active
  BY <1>1, <1>2 DEF RequestOK, SearchOK, Unanswered, Searching
<1>4. /\ window[r].active \subseteq window'[r].active
      /\ window[r].reachable \subseteq window'[r].reachable
      /\ window[r].permitted \subseteq window'[r].permitted
  BY WindowType
<1> HIDE DEF d
<1>5. /\ Len(Append(c, d)) = Len(c) + 1 /\ Len(c) \in Nat
      /\ DOMAIN c = 1..Len(c) /\ DOMAIN Append(c, d) = 1..(Len(c) + 1)
      /\ \A i \in 1..Len(c) : Append(c, d)[i] = c[i]
      /\ Append(c, d)[Len(c) + 1] = d
      /\ Append(c, d) # <<>>
  BY <1>2
<1>6. d.agent = Current(r) /\ d.answer = "awaited"
  BY DEF d
<1>7. LastCall(r)' = d /\ Current(r)' = Current(r)
  BY <1>1, <1>5 DEF LastCall, Current
<1> HIDE DEF c
<1>8. \A i \in 1..Len(c) :
        /\ c[i].answer \in Retryable
        /\ c[i].agent # Current(r) /\ Priority[c[i].agent] <= Priority[Current(r)]
        /\ \A j \in DOMAIN candidates[r] : /\ c[i].agent # candidates[r][j]
                                           /\ Priority[c[i].agent] <= Priority[candidates[r][j]]
  BY <1>2, <1>3 DEF FailedBefore, c
<1>9. SearchOK(r)'
  BY <1>1, <1>2, <1>3, <1>4, <1>5, <1>6, <1>7, <1>8 DEF SearchOK, Searching, Unanswered
<1>10. EligibleCalls(r)'
  <2>1. \A i \in 1..Len(c) : c[i].agent \in window[r].active \cap window[r].reachable \cap window[r].permitted
    BY <1>5 DEF RequestOK, EligibleCalls, c
  <2>2. \A i \in 1..(Len(c) + 1) : i \in 1..Len(c) \/ i = Len(c) + 1
    BY <1>5
  <2> QED
    BY <1>1, <1>3, <1>4, <1>5, <1>6, <2>1, <2>2 DEF EligibleCalls
<1>11. InOrder(r)'
  <2>1. \A i, j \in 1..(Len(c) + 1) : i < j =>
          i \in 1..Len(c) /\ (j \in 1..Len(c) \/ j = Len(c) + 1)
    BY <1>5
  <2>2. \A i, j \in 1..Len(c) : i < j => /\ c[i].agent # c[j].agent
                                         /\ Priority[c[i].agent] <= Priority[c[j].agent]
    BY <1>5 DEF RequestOK, InOrder, c
  <2> QED
    BY <1>1, <1>5, <1>6, <1>8, <2>1, <2>2 DEF InOrder
<1>12. HonestReply(r)'
  BY <1>1, <1>3 DEF HonestReply
<1> QED
  BY <1>9, <1>10, <1>11, <1>12 DEF RequestOK

\* What an answer does to the calls of its request.
LEMMA AnsweredCalls ==
  ASSUME TypeOK, Observe, NEW r \in Request, RequestOK(r), pc[r] = "await",
         NEW answer \in Definitive \cup Retryable, NoteAnswer(r, answer)
  PROVE  EligibleCalls(r)' /\ InOrder(r)'
<1> DEFINE c == calls[r]
           n == Len(calls[r])
<1>1. /\ SearchOK(r) /\ c \in Seq(Call) /\ c # <<>> /\ n \in Nat /\ n >= 1
      /\ DOMAIN c = 1..n /\ LastCall(r) = c[n]
  BY DEF RequestOK, SearchOK, TypeOK, LastCall
<1>2. calls'[r] \in Seq(Call) /\ Len(calls'[r]) = n /\ DOMAIN calls'[r] = 1..n
  BY <1>1, NoteFacts
<1>3. \A i \in 1..(n - 1) : calls'[r][i] = c[i]
  BY <1>1, NoteFacts
<1>4. calls'[r][n].agent = c[n].agent
  BY <1>1, <1>2, NoteFacts DEF SearchOK, LastCall
<1> HIDE DEF n
<1>5. \A i \in 1..n : i \in 1..(n - 1) \/ i = n
  BY <1>1
<1>6. \A i \in 1..n : calls'[r][i].agent = c[i].agent
  BY <1>3, <1>4, <1>5
<1>7. \A i, j \in 1..n : i < j => i \in 1..(n - 1)
  BY <1>1
<1>8. /\ window[r].active \subseteq window'[r].active
      /\ window[r].reachable \subseteq window'[r].reachable
      /\ window[r].permitted \subseteq window'[r].permitted
  BY WindowType
<1>9. EligibleCalls(r)'
  BY <1>1, <1>2, <1>6, <1>8 DEF RequestOK, EligibleCalls
<1>10. InOrder(r)'
  BY <1>1, <1>2, <1>3, <1>6, <1>7 DEF RequestOK, InOrder
<1> QED
  BY <1>9, <1>10

\* A retryable answer puts the agent among those that failed before.
LEMMA RetryableStep ==
  ASSUME TypeOK, Observe, NEW r \in Request, RequestOK(r),
         NEW answer \in Retryable, AnswerRetryable(r, answer)
  PROVE  RequestOK(r)'
<1>1. /\ pc[r] = "await" /\ pc'[r] = "reach" /\ NoteAnswer(r, answer)
      /\ candidates'[r] = Tail(candidates[r]) /\ reply' = reply
  BY DEF AnswerRetryable, Goto, NextCandidate, TypeOK
<1>2. /\ candidates[r] \in Seq(Agent) /\ Ordered(candidates[r]) /\ candidates[r] # <<>>
      /\ Current(r) = candidates[r][1] /\ reply[r] = NoReply
  BY <1>1, CurrentFacts DEF TypeOK, RequestOK, SearchOK, Searching, Unanswered
<1>3. EligibleCalls(r)' /\ InOrder(r)'
  BY <1>1, AnsweredCalls
<1>4. HonestReply(r)'
  BY <1>1, <1>2 DEF HonestReply
<1>5. window[r].active \subseteq window'[r].active
  BY WindowType
<1>6. \A j \in DOMAIN candidates'[r] : candidates'[r][j] \in window'[r].active
  BY <1>1, <1>2, <1>5, TailFacts DEF RequestOK, SearchOK, Searching
<1>7. FailedBefore(r, Len(calls[r]))'
  <2> DEFINE n == Len(calls[r])
             t == Tail(candidates[r])
  <2>1. /\ Len(calls'[r]) = n /\ n \in Nat /\ n >= 1
        /\ \A i \in 1..(n - 1) : calls'[r][i] = calls[r][i]
        /\ calls'[r][n].agent = candidates[r][1] /\ calls'[r][n].answer = answer
    <3>1. SearchOK(r) /\ calls[r] \in Seq(Call) /\ calls[r] # <<>>
      BY <1>1 DEF RequestOK, SearchOK, TypeOK
    <3>2. n \in Nat /\ n >= 1
      BY <3>1
    <3>3. /\ Len(calls'[r]) = n /\ LastCall(r)'.agent = Current(r) /\ LastCall(r)'.answer = answer
          /\ \A i \in 1..(n - 1) : calls'[r][i] = calls[r][i]
      BY <1>1, <3>1, NoteFacts
    <3> QED
      BY <1>2, <3>2, <3>3 DEF LastCall
  <2> HIDE DEF n
  <2>2. \A i \in 1..n : i \in 1..(n - 1) \/ i = n
    BY <2>1
  <2>3. \A i \in 1..(n - 1) :
          /\ calls[r][i].answer \in Retryable
          /\ \A j \in DOMAIN t : /\ calls[r][i].agent # t[j]
                                 /\ Priority[calls[r][i].agent] <= Priority[t[j]]
    BY <1>1, <1>2, TailFacts DEF RequestOK, SearchOK, n
  <2>4. \A j \in DOMAIN t : candidates[r][1] # t[j] /\ Priority[candidates[r][1]] <= Priority[t[j]]
    BY <1>2, TailFacts
  <2> QED
    BY <1>1, <2>1, <2>2, <2>3, <2>4 DEF FailedBefore
<1>8. SearchOK(r)'
  BY <1>1, <1>2, <1>6, <1>7, TailFacts DEF SearchOK, Searching, Unanswered
<1> QED
  BY <1>3, <1>4, <1>8 DEF RequestOK

\* A definitive answer is the reply.
LEMMA DefinitiveStep ==
  ASSUME TypeOK, Observe, NEW r \in Request, RequestOK(r),
         NEW answer \in Definitive, AnswerDefinitive(r, answer)
  PROVE  RequestOK(r)'
<1>1. /\ pc[r] = "await" /\ NoteAnswer(r, answer) /\ executed' = executed
      /\ pc'[r] = IF Keyed(r) /\ answer = "success" THEN "store" ELSE "respond"
      /\ reply'[r] = Result(r, "allowed", {Current(r)}, answer = "success")
  BY DEF AnswerDefinitive, Goto, TypeOK, NoteAnswer
<1>2. EligibleCalls(r)' /\ InOrder(r)'
  BY <1>1, AnsweredCalls
<1>3. Current(r) \in Agent
  BY <1>1, CurrentFacts DEF RequestOK
<1>4. /\ reply'[r] \in Reply /\ reply'[r].id = r /\ reply'[r].decision = "allowed"
      /\ reply'[r].agents = {Current(r)} /\ reply'[r].success = (answer = "success")
  BY <1>1, <1>3 DEF Result, Reply
<1>5. SearchOK(r)'
  BY <1>1, <1>4, ReplyAssumption DEF SearchOK, Searching, Unanswered, Keyed
<1>6. calls'[r] # <<>> /\ LastCall(r)'.agent = Current(r) /\ LastCall(r)'.answer = answer
  BY <1>1, NoteFacts DEF RequestOK
<1>7. answer = "success" => <<r, Current(r)>> \in executed'
  BY <1>1 DEF NoteAnswer
<1>8. HonestReply(r)'
  BY <1>4, <1>6, <1>7 DEF HonestReply
<1> QED
  BY <1>2, <1>5, <1>8 DEF RequestOK

-----------------------------------------------------------------------------
\* The stored responses.

\* A reply, once given, stays.
LEMMA RepliesStay ==
  ASSUME TypeOK, \A r \in Request : RequestOK(r), [Next]_vars,
         NEW q \in Request, reply[q] # NoReply
  PROVE  reply'[q] = reply[q]
<1>1. CASE UNCHANGED vars \/ Outside
  BY <1>1, OutsideLeavesRequests DEF vars
<1>2. ASSUME NEW r \in Request, Arrive(r) \/ Advance(r) \/ Die(r)
      PROVE  reply'[q] = reply[q]
  <2>1. CASE r # q
    BY <1>2, <2>1, OwnSteps DEF RequestOK
  <2>2. CASE r = q
    <3>1. pc[q] \notin Unanswered
      BY DEF RequestOK, SearchOK
    <3>2. CASE Passing(r)
      BY <2>2, <3>2, PassingFacts DEF TypeOK, PC
    <3>3. CASE Arrive(r) \/ Store(r) \/ StoreOnOutage(r) \/ Log(r)
      BY <2>2, <3>3 DEF Arrive, Store, StoreOnOutage, Log
    <3>4. pc[r] \notin {"lookup", "load", "reach", "permit", "call", "await"}
      BY <2>2, <3>1 DEF Unanswered
    <3>5. ~(\/ Replay(r) \/ MissOnOutage(r) \/ LoadCandidates(r) \/ NoActiveAgent(r)
            \/ Skip(r) \/ Send(r) \/ Exhausted(r))
      BY <3>4 DEF Replay, MissOnOutage, LoadCandidates, NoActiveAgent, Skip, Refused, Send,
                  Exhausted, Conclude, Goto
    <3>6. ~(\/ \E answer \in Definitive : AnswerDefinitive(r, answer)
            \/ \E answer \in Retryable : AnswerRetryable(r, answer))
      BY <3>4 DEF AnswerDefinitive, AnswerRetryable, Goto
    <3> QED
      BY <1>2, <3>2, <3>3, <3>5, <3>6 DEF Advance, Passing
  <2> QED
    BY <2>1, <2>2
<1> QED
  BY <1>1, <1>2 DEF Next, Outside

\* A slot is only ever filled by its own request.
LEMMA CacheSteps ==
  ASSUME TypeOK, \A r \in Request : RequestOK(r), [Next]_vars,
         NEW s \in Slot, cache'[s] # NoReply
  PROVE  \/ cache'[s] = cache[s]
         \/ \E r \in Request : Store(r) /\ s = slot(r) /\ cache'[s] = reply[r]
<1>1. CASE UNCHANGED vars
  BY <1>1 DEF vars
<1>2. CASE Outside
  BY <1>2 DEF Outside, AgentWorks, Administer, MoveAgent, Enable, Disable, ChangePolicies,
              Change, Expire, TypeOK
<1>3. ASSUME NEW r \in Request, Arrive(r) \/ Advance(r) \/ Die(r)
      PROVE  \/ cache' = cache
             \/ Store(r) /\ cache' = [cache EXCEPT ![slot(r)] = reply[r]]
  <2>1. CASE Passing(r)
    BY <2>1, PassingFacts DEF TypeOK, PC
  <2>2. CASE Arrive(r) \/ Replay(r) \/ MissOnOutage(r) \/ StoreOnOutage(r) \/ Log(r)
             \/ LoadCandidates(r) \/ NoActiveAgent(r) \/ Exhausted(r) \/ Skip(r) \/ Send(r)
    BY <2>2 DEF Arrive, Replay, MissOnOutage, StoreOnOutage, Log, LoadCandidates,
                NoActiveAgent, Exhausted, Conclude, Skip, Send
  <2>3. CASE \/ \E answer \in Definitive : AnswerDefinitive(r, answer)
             \/ \E answer \in Retryable : AnswerRetryable(r, answer)
    BY <2>3 DEF AnswerDefinitive, AnswerRetryable, NoteAnswer
  <2>4. CASE Store(r)
    BY <2>4 DEF Store
  <2> QED
    BY <1>3, <2>1, <2>2, <2>3, <2>4 DEF Advance, Passing
<1>4. ASSUME NEW r \in Request, Arrive(r) \/ Advance(r) \/ Die(r)
      PROVE  cache'[s] = cache[s] \/ (Store(r) /\ s = slot(r) /\ cache'[s] = reply[r])
  BY <1>3, <1>4 DEF TypeOK
<1> QED
  BY <1>1, <1>2, <1>4 DEF Next, Outside

\* What is stored stays the success of its own request.
LEMMA StoredStep ==
  ASSUME IInv, [Next]_vars
  PROVE  StoredIsOwnSuccess'
<1>1. TypeOK /\ (\A r \in Request : RequestOK(r)) /\ StoredIsOwnSuccess
  BY DEF IInv
<1>2. SUFFICES ASSUME NEW s \in Slot, cache'[s] # NoReply
               PROVE  /\ cache'[s].success /\ slot(cache'[s].id) = s
                      /\ cache'[s] = reply'[cache'[s].id]
  BY DEF StoredIsOwnSuccess, slot
<1>3. CASE cache'[s] = cache[s]
  <2>1. cache[s] \in Reply /\ cache[s].id \in Request
    BY <1>1, <1>2, <1>3 DEF TypeOK, Reply
  <2>2. reply[cache[s].id] # NoReply /\ reply[cache[s].id] = cache[s]
    BY <1>1, <1>2, <1>3 DEF StoredIsOwnSuccess
  <2>3. reply'[cache[s].id] = reply[cache[s].id]
    BY <1>1, <2>1, <2>2, RepliesStay
  <2> QED
    BY <1>1, <1>2, <1>3, <2>2, <2>3 DEF StoredIsOwnSuccess
<1>4. ASSUME NEW r \in Request, Store(r), s = slot(r), cache'[s] = reply[r]
      PROVE  /\ cache'[s].success /\ slot(cache'[s].id) = s
             /\ cache'[s] = reply'[cache'[s].id]
  <2>1. reply[r].id = r /\ reply[r].success
    BY <1>1, <1>4 DEF Store, Goto, RequestOK, SearchOK
  <2>2. reply' = reply
    BY <1>4 DEF Store
  <2> QED
    BY <1>4, <2>1, <2>2
<1> QED
  BY <1>1, <1>2, <1>3, <1>4, CacheSteps

\* A step of one request keeps what holds of every request.
LEMMA RequestsStep ==
  ASSUME IInv, [Next]_vars
  PROVE  \A q \in Request : RequestOK(q)'
<1>1. TypeOK /\ (\A r \in Request : RequestOK(r)) /\ StoredIsOwnSuccess
      /\ executed \subseteq executed'
  BY ExecutedGrows DEF IInv
<1>2. SUFFICES ASSUME NEW q \in Request PROVE RequestOK(q)'
  OBVIOUS
<1>3. CASE UNCHANGED vars
  <2>1. UNCHANGED <<pc, candidates, calls, reply, window, executed>>
    BY <1>3 DEF vars, work
  <2>2. SearchOK(q)'
    BY <1>1, <2>1 DEF RequestOK, SearchOK, FailedBefore, Current, LastCall, Searching, Ordered, Keyed
  <2>3. EligibleCalls(q)' /\ InOrder(q)'
    BY <1>1, <2>1 DEF RequestOK, EligibleCalls, InOrder
  <2>4. HonestReply(q)'
    BY <1>1, <2>1 DEF RequestOK, HonestReply, LastCall
  <2> QED
    BY <2>2, <2>3, <2>4 DEF RequestOK
<1>4. CASE Next
  <2>1. Observe
    BY <1>4 DEF Next
  <2>2. CASE Outside
    BY <1>1, <2>1, <2>2, OutsideLeavesRequests, KeptRequest
  <2>3. ASSUME NEW r \in Request, Arrive(r) \/ Advance(r) \/ Die(r) PROVE RequestOK(q)'
    <3>1. CASE r # q
      <4>1. /\ pc'[q] = pc[q] /\ candidates'[q] = candidates[q]
            /\ calls'[q] = calls[q] /\ reply'[q] = reply[q]
        BY <1>1, <2>3, <3>1, OwnSteps DEF RequestOK
      <4> QED
        BY <1>1, <2>1, <4>1, KeptRequest
    <3>2. CASE r = q
      BY <1>1, <2>1, <2>3, <3>2, PassingStep, QuietStep, LoadStep, ConcludeStep, SkipStep,
         SendStep, RetryableStep, DefinitiveStep DEF Advance, Passing
    <3> QED
      BY <3>1, <3>2
  <2> QED
    BY <1>4, <2>2, <2>3 DEF Next, Outside
<1> QED
  BY <1>3, <1>4

\* The invariant is inductive.
LEMMA InvStep == IInv /\ [Next]_vars => IInv'
<1> SUFFICES ASSUME IInv, [Next]_vars PROVE IInv'
  OBVIOUS
<1>1. TypeOK'
  BY TypeStep DEF IInv, RequestOK
<1> QED
  BY <1>1, RequestsStep, StoredStep DEF IInv

\* The invariant holds in every reachable state.
LEMMA Invariance == Spec => []IInv
BY InitInv, InvStep, PTL DEF Spec

-----------------------------------------------------------------------------
\* Late retries: a second invariant on top of the first.

\* A success that went out under a key is in the cache unless the slot was lost.
Kept(q) ==
  /\ pc[q] \in {"respond", "logging", "done", "unlogged"}
  /\ reply[q] # NoReply /\ reply[q].success /\ Keyed(q) /\ slot(q) \notin disturbed
  => cache[slot(q)] # NoReply

\* A retry that came after such a success looks it up, and answers with it.
Late(r) ==
  /\ pc[r] = "idle" => before[r] = {}
  /\ \A q \in before[r] :
       /\ Answered(q)
       /\ /\ Keyed(r) /\ slot(q) = slot(r) /\ slot(r) \notin disturbed
          /\ reply[q] # NoReply /\ reply[q].success
          => /\ pc[r] \in {"lookup", "done", "dead"} /\ calls[r] = <<>>
             /\ pc[r] = "done" => reply[r] # NoReply /\ reply[r].success

LInv == \A r \in Request : Kept(r) /\ Late(r)

\* What was answered stays answered, and the slots once lost stay lost.
LEMMA AnswersStay ==
  ASSUME TypeOK, \A r \in Request : SearchOK(r), Next
  PROVE  /\ disturbed \subseteq disturbed'
         /\ \A q \in Request : Answered(q) => Answered(q)' /\ reply'[q] = reply[q]
<1>1. CASE Outside
  <2>1. disturbed \subseteq disturbed'
    BY <1>1 DEF Outside, AgentWorks, Administer, MoveAgent, Enable, Disable, ChangePolicies,
                Change, Expire
  <2> QED
    BY <1>1, <2>1, OutsideLeavesRequests DEF Answered
<1>2. ASSUME NEW r \in Request, Arrive(r) \/ Advance(r) \/ Die(r)
      PROVE  /\ disturbed \subseteq disturbed'
             /\ Answered(r) => Answered(r)' /\ reply'[r] = reply[r]
  <2> USE DEF Goto, Answered, TypeOK
  <2>1. CASE Miss(r) \/ Refuse(r) \/ Admit(r) \/ PassReach(r) \/ PassPermit(r)
             \/ SecretFails(r) \/ Respond(r) \/ Die(r)
    <3>1. disturbed' = disturbed /\ reply' = reply
      BY <2>1, PassingFacts DEF PC, Passing
    <3>2. CASE Die(r)
      BY <3>1, <3>2 DEF Die, Ended
    <3>3. CASE ~Die(r)
      BY <2>1, <3>1, <3>3 DEF Miss, Refuse, Admit, PassReach, PassPermit, SecretFails, Respond, Pass
    <3> QED
      BY <3>2, <3>3
  <2>2. CASE Arrive(r) \/ Replay(r) \/ MissOnOutage(r) \/ Store(r) \/ StoreOnOutage(r) \/ Log(r)
    BY <2>2 DEF Arrive, Replay, MissOnOutage, Store, StoreOnOutage, Log
  <2>3. CASE LoadCandidates(r) \/ NoActiveAgent(r) \/ Exhausted(r) \/ Skip(r) \/ Send(r)
    BY <2>3 DEF LoadCandidates, NoActiveAgent, Exhausted, Conclude, Skip, Refused, Send
  <2>4. CASE \/ \E answer \in Definitive : AnswerDefinitive(r, answer)
             \/ \E answer \in Retryable : AnswerRetryable(r, answer)
    BY <2>4 DEF AnswerDefinitive, AnswerRetryable, NoteAnswer
  <2> QED
    BY <1>2, <2>1, <2>2, <2>3, <2>4 DEF Advance
<1>3. ASSUME NEW r \in Request, Arrive(r) \/ Advance(r) \/ Die(r), NEW q \in Request
      PROVE  Answered(q) => Answered(q)' /\ reply'[q] = reply[q]
  <2>1. CASE q = r
    BY <1>2, <1>3, <2>1
  <2>2. CASE q # r
    BY <1>3, <2>2, OwnSteps DEF Answered
  <2> QED
    BY <2>1, <2>2
<1> QED
  BY <1>1, <1>2, <1>3 DEF Next, Outside

\* A stored response stays, or its slot is lost.
LEMMA StoredStays ==
  ASSUME TypeOK, \A r \in Request : SearchOK(r), Next,
         NEW s \in Slot, cache[s] # NoReply, s \notin disturbed'
  PROVE  cache'[s] # NoReply
<1>1. CASE \E z \in Slot : Expire(z)
  BY <1>1 DEF Expire, TypeOK
<1>2. CASE (\E r \in Request, a \in Agent : AgentWorks(r, a)) \/ Administer
  BY <1>2 DEF AgentWorks, Administer, MoveAgent, Enable, Disable, ChangePolicies, Change
<1>3. ASSUME NEW r \in Request, Arrive(r) \/ Advance(r) \/ Die(r)
      PROVE  cache'[s] # NoReply
  <2>1. CASE Passing(r)
    BY <2>1, PassingFacts DEF TypeOK, PC
  <2>2. CASE Arrive(r) \/ Replay(r) \/ MissOnOutage(r) \/ StoreOnOutage(r) \/ Log(r)
             \/ LoadCandidates(r) \/ NoActiveAgent(r) \/ Exhausted(r) \/ Skip(r) \/ Send(r)
    BY <2>2 DEF Arrive, Replay, MissOnOutage, StoreOnOutage, Log, LoadCandidates,
                NoActiveAgent, Exhausted, Conclude, Skip, Send
  <2>3. CASE \/ \E answer \in Definitive : AnswerDefinitive(r, answer)
             \/ \E answer \in Retryable : AnswerRetryable(r, answer)
    BY <2>3 DEF AnswerDefinitive, AnswerRetryable, NoteAnswer
  <2>4. CASE Store(r)
    BY <2>4 DEF Store, Goto, SearchOK, TypeOK
  <2> QED
    BY <1>3, <2>1, <2>2, <2>3, <2>4 DEF Advance, Passing
<1> QED
  BY <1>1, <1>2, <1>3 DEF Next

\* A request only reaches its response with what it stored, or with a failure.
LEMMA KeptStep ==
  ASSUME IInv, LInv, Next, NEW q \in Request
  PROVE  Kept(q)'
<1>1. TypeOK /\ (\A r \in Request : SearchOK(r)) /\ StoredIsOwnSuccess /\ Kept(q) /\ SearchOK(q)
  BY DEF IInv, RequestOK, LInv
<1>2. SUFFICES ASSUME pc'[q] \in {"respond", "logging", "done", "unlogged"},
                      reply'[q] # NoReply, reply'[q].success, Keyed(q), slot(q) \notin disturbed'
               PROVE  cache'[slot(q)] # NoReply
  BY DEF Kept, Keyed, slot
<1>3. slot(q) \in Slot /\ slot(q) \notin disturbed
  BY <1>1, <1>2, SlotFacts, AnswersStay
<1>4. ASSUME pc[q] \in {"respond", "logging", "done", "unlogged"}, reply'[q] = reply[q]
      PROVE  cache'[slot(q)] # NoReply
  BY <1>1, <1>2, <1>3, <1>4, StoredStays DEF Kept
<1>5. CASE Outside
  BY <1>2, <1>4, <1>5, OutsideLeavesRequests
<1>6. ASSUME NEW r \in Request, r # q, Arrive(r) \/ Advance(r) \/ Die(r)
      PROVE  cache'[slot(q)] # NoReply
  BY <1>1, <1>2, <1>4, <1>6, OwnSteps
<1>7. ASSUME Arrive(q) \/ Advance(q) \/ Die(q)
      PROVE  cache'[slot(q)] # NoReply
  <2> USE DEF Goto, TypeOK
  <2>1. CASE Respond(q) \/ Log(q)
    BY <1>1, <1>4, <2>1 DEF Respond, Pass, Log
  <2>2. CASE Die(q)
    BY <1>1, <1>2, <1>4, <2>2 DEF Die
  <2>3. CASE Arrive(q) \/ Miss(q) \/ MissOnOutage(q) \/ Refuse(q) \/ Admit(q) \/ PassReach(q)
             \/ PassPermit(q) \/ SecretFails(q) \/ LoadCandidates(q) \/ Skip(q) \/ Send(q)
    BY <1>1, <1>2, <2>3 DEF Arrive, Miss, MissOnOutage, Refuse, Admit, PassReach, PassPermit,
       SecretFails, Pass, LoadCandidates, Skip, Send
  <2>4. CASE Replay(q)
    BY <1>1, <1>2, <2>4 DEF Replay
  <2>5. CASE NoActiveAgent(q) \/ Exhausted(q)
    BY <1>1, <1>2, <2>5 DEF NoActiveAgent, Exhausted, Conclude, FinalResult, Result
  <2>6. CASE Store(q)
    <3>1. cache'[slot(q)] = reply[q] /\ reply[q] # NoReply
      BY <1>1, <1>3, <2>6 DEF Store, SearchOK
    <3> QED
      BY <3>1
  <2>7. CASE StoreOnOutage(q)
    BY <1>2, <2>7 DEF StoreOnOutage
  <2>8. ASSUME NEW answer \in Definitive, AnswerDefinitive(q, answer)
        PROVE  cache'[slot(q)] # NoReply
    <3>1. reply'[q] = Result(q, "allowed", {Current(q)}, answer = "success")
          /\ pc'[q] = IF Keyed(q) /\ answer = "success" THEN "store" ELSE "respond"
      BY <1>1, <2>8 DEF AnswerDefinitive
    <3>2. reply'[q].success = (answer = "success")
      BY <3>1 DEF Result
    <3> QED
      BY <1>2, <3>1, <3>2
  <2>9. CASE \E answer \in Retryable : AnswerRetryable(q, answer)
    BY <1>1, <1>2, <2>9 DEF AnswerRetryable
  <2> QED
    BY <1>7, <2>1, <2>2, <2>3, <2>4, <2>5, <2>6, <2>7, <2>8, <2>9 DEF Advance
<1> QED
  BY <1>5, <1>6, <1>7 DEF Next, Outside

\* A request that arrived after a stored success never searches.
LEMMA LateStep ==
  ASSUME IInv, LInv, Next, NEW r \in Request
  PROVE  Late(r)'
<1>1. /\ TypeOK /\ (\A q \in Request : SearchOK(q)) /\ StoredIsOwnSuccess
      /\ Late(r) /\ SearchOK(r) /\ \A q \in Request : Kept(q)
  BY DEF IInv, RequestOK, LInv
<1>2. /\ disturbed \subseteq disturbed'
      /\ \A q \in Request : Answered(q) => Answered(q)' /\ reply'[q] = reply[q]
  BY <1>1, AnswersStay
<1> DEFINE Won(q) == /\ Keyed(r) /\ slot(q) = slot(r) /\ slot(r) \notin disturbed
                     /\ reply[q] # NoReply /\ reply[q].success
           Fine == /\ pc[r] \in {"lookup", "done", "dead"} /\ calls[r] = <<>>
                   /\ pc[r] = "done" => reply[r] # NoReply /\ reply[r].success
\* A request that keeps its `before`, and moves at most from one fine place to another.
<1>3. ASSUME before'[r] = before[r], pc'[r] = "idle" => pc[r] = "idle",
             \A q \in before[r] : Won(q)' /\ Fine => Fine'
      PROVE  Late(r)'
  <2>1. before[r] \in SUBSET Request
    BY <1>1 DEF TypeOK
  <2>2. ASSUME NEW q \in before[r]
        PROVE  Answered(q)' /\ (Won(q)' => Fine')
    <3>1. Answered(q) /\ (Won(q) => Fine)
      BY <1>1 DEF Late
    <3>2. Answered(q)' /\ (Won(q)' => Won(q))
      BY <1>2, <2>1, <3>1 DEF Keyed, slot
    <3> QED
      BY <1>3, <3>1, <3>2
  <2>3. pc'[r] = "idle" => before'[r] = {}
    BY <1>1, <1>3 DEF Late
  <2> QED
    BY <1>3, <2>2, <2>3 DEF Late
<1>4. ASSUME before' = before, pc'[r] = pc[r], calls'[r] = calls[r], reply'[r] = reply[r]
      PROVE  Late(r)'
  BY <1>3, <1>4
<1>5. CASE Outside
  BY <1>4, <1>5, OutsideLeavesRequests
<1>6. ASSUME NEW q \in Request, q # r, Arrive(q) \/ Advance(q) \/ Die(q)
      PROVE  Late(r)'
  BY <1>1, <1>3, <1>6, OwnSteps
<1>7. ASSUME Arrive(r) \/ Advance(r) \/ Die(r)
      PROVE  Late(r)'
  <2>1. CASE Arrive(r)
    <3>1. /\ pc[r] = "idle" /\ pc'[r] = IF Keyed(r) THEN "lookup" ELSE "admit"
          /\ before'[r] = {q \in Request : Answered(q)} /\ calls'[r] = <<>>
      BY <1>1, <2>1 DEF Arrive, Goto, SearchOK, TypeOK, work
    <3>2. ASSUME NEW q \in before'[r]
          PROVE  Answered(q)' /\ (Won(q)' => Fine')
      BY <1>2, <3>1 DEF Keyed
    <3> QED
      BY <3>1, <3>2 DEF Late
  <2>2. CASE Replay(r)
    <3>1. /\ before' = before /\ pc'[r] = "done" /\ calls' = calls
          /\ Keyed(r) /\ cache[slot(r)] # NoReply /\ reply'[r] = cache[slot(r)]
      BY <1>1, <2>2 DEF Replay, Goto, SearchOK, TypeOK, work
    <3>2. reply'[r].success
      BY <1>1, <3>1, SlotFacts DEF StoredIsOwnSuccess
    <3> QED
      BY <1>3, <3>1, <3>2
  <2>3. CASE Miss(r)
    <3>1. /\ before' = before /\ pc'[r] = "admit" /\ cache[slot(r)] = NoReply
      BY <1>1, <2>3 DEF Miss, Pass, Goto, TypeOK
    <3>2. ASSUME NEW q \in before[r], Won(q)' PROVE FALSE
      <4>1. q \in Request /\ Answered(q)
        BY <1>1 DEF Late, TypeOK
      <4>2. /\ Keyed(q) /\ slot(q) = slot(r) /\ slot(q) \notin disturbed
            /\ reply[q] # NoReply /\ reply[q].success
        BY <1>2, <3>2, <4>1 DEF Keyed, slot
      <4> QED
        BY <1>1, <3>1, <4>1, <4>2 DEF Kept, Answered
    <3> QED
      BY <1>3, <3>1, <3>2
  <2>4. CASE MissOnOutage(r)
    <3>1. before' = before /\ pc'[r] = "admit" /\ slot(r)' \in disturbed'
      BY <1>1, <2>4 DEF MissOnOutage, Goto, TypeOK, slot
    <3> QED
      BY <1>3, <3>1
  <2>5. CASE Die(r)
    <3>1. /\ before' = before /\ calls' = calls /\ pc'[r] = IF pc[r] = "logging" THEN "unlogged" ELSE "dead"
      BY <1>1, <2>5 DEF Die, TypeOK, work
    <3> QED
      BY <1>3, <3>1
  <2>6. CASE Refuse(r) \/ Admit(r) \/ PassReach(r) \/ PassPermit(r) \/ SecretFails(r) \/ Respond(r)
    <3>1. before' = before /\ pc[r] \notin {"idle", "lookup", "done", "dead"} /\ pc'[r] # "idle"
      BY <1>1, <2>6 DEF Refuse, Admit, PassReach, PassPermit, SecretFails, Respond, Pass, Goto, TypeOK
    <3> QED
      BY <1>3, <3>1
  <2>7. CASE LoadCandidates(r) \/ NoActiveAgent(r) \/ Skip(r) \/ Send(r) \/ Exhausted(r)
             \/ Store(r) \/ StoreOnOutage(r) \/ Log(r)
    <3>1. before' = before /\ pc[r] \notin {"idle", "lookup", "done", "dead"} /\ pc'[r] # "idle"
      BY <1>1, <2>7 DEF LoadCandidates, NoActiveAgent, Skip, Refused, Send, Exhausted, Conclude,
         Store, StoreOnOutage, Log, Goto, TypeOK
    <3> QED
      BY <1>3, <3>1
  <2>8. CASE \/ \E answer \in Definitive : AnswerDefinitive(r, answer)
             \/ \E answer \in Retryable : AnswerRetryable(r, answer)
    <3>1. before' = before /\ pc[r] \notin {"idle", "lookup", "done", "dead"} /\ pc'[r] # "idle"
      BY <1>1, <2>8 DEF AnswerDefinitive, AnswerRetryable, NoteAnswer, Goto, TypeOK
    <3> QED
      BY <1>3, <3>1
  <2> QED
    BY <1>7, <2>1, <2>2, <2>3, <2>4, <2>5, <2>6, <2>7, <2>8 DEF Advance
<1> QED
  BY <1>5, <1>6, <1>7 DEF Next, Outside

-----------------------------------------------------------------------------
\* Nobody overlooked: a third invariant on top of the first.

\* The request called the agent; it still has it as a candidate; it called it,
\* or got a definitive answer from one of no lower rank.
Tried(r, a) == \E i \in DOMAIN calls[r] : calls[r][i].agent = a

Queued(r, a) == \E j \in DOMAIN candidates[r] : candidates[r][j] = a

Settled(r, a) ==
  \E i \in DOMAIN calls[r] :
    \/ calls[r][i].agent = a
    \/ /\ calls[r][i].answer \in Definitive
       /\ Priority[calls[r][i].agent] <= Priority[a]

\* An agent that passed the gates all along passes them now; while the request
\* searches, it was called or is yet to be tried; afterwards it is settled.
PassesNow(r) ==
  pc[r] \in Unanswered =>
    window[r].open \subseteq Active \cap Reachable(caller(r)) \cap Permitted(caller(r))

Reckoned(r) ==
  /\ PassesNow(r)
  /\ pc[r] \in Searching => \A a \in window[r].open : Tried(r, a) \/ Queued(r, a)
  /\ pc[r] \in {"store", "respond", "logging"} => \A a \in window[r].open : Settled(r, a)

OInv == \A r \in Request : Reckoned(r)

\* An order of a finite set leaves none of its members out.
LEMMA RankingsAreComplete ==
  ASSUME NEW S \in SUBSET Agent, NEW s \in Rankings(S), NEW a \in S
  PROVE  \E j \in DOMAIN s : s[j] = a
<1> DEFINE n == Cardinality(S)
<1>1. IsFiniteSet(S) /\ n \in Nat
  BY AgentAssumption, FS_Subset, FS_CardinalityType
<1>2. Cardinality(1..n) = n
  BY <1>1, FS_Interval
<1>3. s \in Injection(1..n, S)
  BY DEF Rankings, Injection, IsInjective
<1>4. s \in Surjection(1..n, S)
  BY <1>1, <1>2, <1>3, FS_Injection
<1> QED
  BY <1>4 DEF Surjection

\* What is open only shrinks, to the agents that pass the gates after the step;
\* once the outcome is fixed it stays as it is.
LEMMA OpenShrinks ==
  ASSUME TypeOK, Observe, NEW r \in Request
  PROVE  /\ PassesNow(r)'
         /\ window'[r].open \subseteq window[r].open
         /\ pc'[r] \notin Unanswered => window'[r] = window[r]
<1> DEFINE A == window[r].active \cup Active'
           R == window[r].reachable \cup Reachable(caller(r))'
           P == window[r].permitted \cup Permitted(caller(r))'
           O == (Active \cap Reachable(caller(r)) \cap Permitted(caller(r)))'
<1>1. window'[r] = IF pc'[r] \in Unanswered
                   THEN [active |-> A, reachable |-> R, permitted |-> P,
                         open |-> window[r].open \cap O]
                   ELSE window[r]
  BY DEF Observe
<1> HIDE DEF A, R, P, O
<1>2. /\ pc'[r] \in Unanswered => window'[r].open = window[r].open \cap O
      /\ pc'[r] \notin Unanswered => window'[r] = window[r]
  BY <1>1
<1>3. pc'[r] \in Unanswered => window'[r].open \subseteq O
  BY <1>2
<1>4. PassesNow(r)'
  BY <1>3 DEF PassesNow, O
<1> QED
  BY <1>2, <1>4

\* A request that keeps its calls and candidates, and does not go from its
\* search to its outcome, has reckoned with everyone as before.
LEMMA ReckonedKept ==
  ASSUME TypeOK, Observe, NEW r \in Request, Reckoned(r),
         calls'[r] = calls[r], candidates'[r] = candidates[r],
         pc'[r] \in Searching => pc[r] \in Searching,
         pc'[r] \in {"store", "respond", "logging"} => pc[r] \in {"store", "respond", "logging"}
  PROVE  Reckoned(r)'
<1>1. PassesNow(r)' /\ window'[r].open \subseteq window[r].open
  BY OpenShrinks
<1>2. \A a : /\ Tried(r, a)' <=> Tried(r, a)
             /\ Queued(r, a)' <=> Queued(r, a)
             /\ Settled(r, a)' <=> Settled(r, a)
  BY DEF Tried, Queued, Settled
<1>3. pc'[r] \in Searching => \A a \in window'[r].open : Tried(r, a)' \/ Queued(r, a)'
  BY <1>1, <1>2 DEF Reckoned
<1>4. pc'[r] \in {"store", "respond", "logging"} => \A a \in window'[r].open : Settled(r, a)'
  BY <1>1, <1>2 DEF Reckoned
<1> QED
  BY <1>1, <1>3, <1>4 DEF Reckoned

\* The candidates are loaded from all active agents; with none there is nobody
\* to overlook.
LEMMA ReckonedLoad ==
  ASSUME TypeOK, Observe, NEW r \in Request, Reckoned(r), LoadCandidates(r) \/ NoActiveAgent(r)
  PROVE  Reckoned(r)'
<1>1. PassesNow(r)' /\ window'[r].open \subseteq window[r].open
  BY OpenShrinks
<1>2. pc[r] = "load" /\ window[r].open \subseteq Active
  BY DEF LoadCandidates, NoActiveAgent, Conclude, Goto, Reckoned, PassesNow, Unanswered
<1>3. CASE LoadCandidates(r)
  <2>1. PICK s \in Rankings(Active) : candidates' = [candidates EXCEPT ![r] = s]
    BY <1>3 DEF LoadCandidates
  <2>2. candidates'[r] = s /\ pc'[r] = "reach"
    BY <1>3, <2>1 DEF LoadCandidates, Goto, TypeOK
  <2>3. Active \in SUBSET Agent
    BY DEF Active
  <2>4. \A a \in Active : \E j \in DOMAIN s : s[j] = a
    BY <2>3, RankingsAreComplete
  <2>5. \A a \in window'[r].open : Queued(r, a)'
    BY <1>1, <1>2, <2>2, <2>4 DEF Queued
  <2> QED
    BY <1>1, <2>2, <2>5 DEF Reckoned
<1>4. CASE NoActiveAgent(r)
  <2>1. pc'[r] = "respond" /\ window'[r].open = {}
    BY <1>1, <1>2, <1>4 DEF NoActiveAgent, Conclude, Goto, TypeOK
  <2> QED
    BY <1>1, <2>1 DEF Reckoned, Searching
<1> QED
  BY <1>3, <1>4

\* The candidate a gate turns away is not open; the others stay queued.
LEMMA ReckonedSkip ==
  ASSUME TypeOK, Observe, NEW r \in Request, SearchOK(r), Reckoned(r), Skip(r)
  PROVE  Reckoned(r)'
<1>1. PassesNow(r)' /\ window'[r].open \subseteq window[r].open
  BY OpenShrinks
<1>2. /\ candidates[r] # <<>> /\ candidates[r] \in Seq(Agent) /\ pc[r] \in Searching
      /\ calls'[r] = calls[r] /\ pc'[r] = "reach" /\ candidates'[r] = Tail(candidates[r])
  BY DEF Skip, Refused, NextCandidate, SearchOK, Searching, TypeOK
<1>3. Current(r) \notin Reachable(caller(r)) \cap Permitted(caller(r))
  BY DEF Skip, Refused
<1>4. /\ Reachable(caller(r))' = Reachable(caller(r))
      /\ Permitted(caller(r))' = Permitted(caller(r))
  BY DEF Skip, admin, Reachable, Permitted
<1>5. window'[r].open \subseteq Reachable(caller(r)) \cap Permitted(caller(r))
  BY <1>1, <1>2, <1>4 DEF PassesNow, Unanswered
<1>6. ASSUME NEW a \in window'[r].open
      PROVE  Tried(r, a)' \/ Queued(r, a)'
  <2>1. a # Current(r)
    BY <1>3, <1>5
  <2>2. Tried(r, a) => Tried(r, a)'
    BY <1>2 DEF Tried
  <2>3. ASSUME Queued(r, a) PROVE Queued(r, a)'
    <3>1. PICK j \in DOMAIN candidates[r] : candidates[r][j] = a
      BY <2>3 DEF Queued
    <3>2. j \in 2..Len(candidates[r])
      BY <1>2, <2>1, <3>1 DEF Current
    <3>3. j - 1 \in DOMAIN Tail(candidates[r]) /\ Tail(candidates[r])[j - 1] = a
      BY <1>2, <3>1, <3>2
    <3> QED
      BY <1>2, <3>3 DEF Queued
  <2> QED
    BY <1>1, <1>2, <2>2, <2>3 DEF Reckoned
<1> QED
  BY <1>1, <1>2, <1>6 DEF Reckoned

\* A call sent is one more agent tried.
LEMMA ReckonedSend ==
  ASSUME TypeOK, Observe, NEW r \in Request, Reckoned(r), Send(r)
  PROVE  Reckoned(r)'
<1> DEFINE c == [agent |-> Current(r), answer |-> "awaited"]
<1>1. PassesNow(r)' /\ window'[r].open \subseteq window[r].open
  BY OpenShrinks
<1>2. /\ pc[r] \in Searching /\ pc'[r] = "await" /\ candidates'[r] = candidates[r]
      /\ calls'[r] = Append(calls[r], c) /\ calls[r] \in Seq(Call)
  BY DEF Send, Goto, Searching, TypeOK
<1> HIDE DEF c
<1>3. \A i \in DOMAIN calls[r] : i \in DOMAIN calls'[r] /\ calls'[r][i] = calls[r][i]
  BY <1>2
<1>4. \A a : (Tried(r, a) => Tried(r, a)') /\ (Queued(r, a) => Queued(r, a)')
  BY <1>2, <1>3 DEF Tried, Queued
<1> QED
  BY <1>1, <1>2, <1>4 DEF Reckoned

\* The agent that failed retryably was tried; the others stay queued.
LEMMA ReckonedRetryable ==
  ASSUME TypeOK, Observe, NEW r \in Request, SearchOK(r), Reckoned(r),
         NEW answer \in Retryable, AnswerRetryable(r, answer)
  PROVE  Reckoned(r)'
<1>1. PassesNow(r)' /\ window'[r].open \subseteq window[r].open
  BY OpenShrinks
<1>2. pc[r] = "await" /\ pc'[r] = "reach" /\ NoteAnswer(r, answer)
      /\ candidates'[r] = Tail(candidates[r]) /\ candidates[r] \in Seq(Agent)
      /\ calls[r] \in Seq(Call) /\ candidates[r] # <<>> /\ calls[r] # <<>>
  BY DEF AnswerRetryable, Goto, NextCandidate, SearchOK, TypeOK
<1>3. /\ calls'[r] \in Seq(Call) /\ Len(calls'[r]) = Len(calls[r])
      /\ \A i \in 1..(Len(calls[r]) - 1) : calls'[r][i] = calls[r][i]
      /\ calls'[r][Len(calls'[r])].agent = Current(r)
  BY <1>2, NoteFacts DEF LastCall
<1>4. calls[r][Len(calls[r])].agent = Current(r)
  BY <1>2 DEF SearchOK, LastCall
<1>5. ASSUME NEW a, Tried(r, a) PROVE Tried(r, a)'
  <2>1. PICK i \in DOMAIN calls[r] : calls[r][i].agent = a
    BY <1>5 DEF Tried
  <2>2. i \in 1..Len(calls[r]) /\ i \in DOMAIN calls'[r]
    BY <1>2, <1>3, <2>1
  <2>3. CASE i = Len(calls[r])
    BY <1>3, <1>4, <2>1, <2>2, <2>3 DEF Tried
  <2>4. CASE i # Len(calls[r])
    <3>1. calls'[r][i] = calls[r][i]
      BY <1>2, <1>3, <2>2, <2>4
    <3> QED
      BY <2>1, <2>2, <3>1 DEF Tried
  <2> QED
    BY <2>3, <2>4
<1>6. ASSUME NEW a, a = Current(r) PROVE Tried(r, a)'
  <2>1. Len(calls'[r]) \in DOMAIN calls'[r] /\ calls'[r][Len(calls'[r])].agent = Current(r)
    BY <1>2, <1>3
  <2> QED
    BY <1>6, <2>1 DEF Tried
<1>7. ASSUME NEW a, Queued(r, a), a # Current(r) PROVE Queued(r, a)'
  <2>1. PICK j \in DOMAIN candidates[r] : candidates[r][j] = a
    BY <1>7 DEF Queued
  <2>2. j \in 2..Len(candidates[r])
    BY <1>2, <1>7, <2>1 DEF Current
  <2>3. j - 1 \in DOMAIN Tail(candidates[r]) /\ Tail(candidates[r])[j - 1] = a
    BY <1>2, <2>1, <2>2
  <2> QED
    BY <1>2, <2>3 DEF Queued
<1>8. \A a \in window'[r].open : Tried(r, a)' \/ Queued(r, a)'
  BY <1>1, <1>2, <1>5, <1>6, <1>7 DEF Reckoned, Searching
<1> QED
  BY <1>1, <1>2, <1>8 DEF Reckoned

\* A definitive answer settles everyone who is not tried yet: the candidates
\* left are of no higher rank than the agent that gave it.
LEMMA ReckonedDefinitive ==
  ASSUME TypeOK, Observe, NEW r \in Request, SearchOK(r), Reckoned(r),
         NEW answer \in Definitive, AnswerDefinitive(r, answer)
  PROVE  Reckoned(r)'
<1>1. /\ PassesNow(r)' /\ window'[r].open \subseteq window[r].open
  BY OpenShrinks
<1>2. /\ pc[r] = "await" /\ pc'[r] \in {"store", "respond"} /\ NoteAnswer(r, answer)
      /\ candidates[r] \in Seq(Agent) /\ Priority \in [Agent -> Nat]
      /\ calls[r] \in Seq(Call) /\ candidates[r] # <<>> /\ calls[r] # <<>>
  BY AgentAssumption DEF AnswerDefinitive, Goto, SearchOK, TypeOK
<1>3. /\ calls'[r] \in Seq(Call) /\ Len(calls'[r]) = Len(calls[r])
      /\ \A i \in 1..(Len(calls[r]) - 1) : calls'[r][i] = calls[r][i]
      /\ calls'[r][Len(calls'[r])].agent = Current(r)
      /\ calls'[r][Len(calls'[r])].answer = answer
  BY <1>2, NoteFacts DEF LastCall
<1>4. calls[r][Len(calls[r])].agent = Current(r)
  BY <1>2 DEF SearchOK, LastCall
<1>5. ASSUME NEW a, Tried(r, a) PROVE Settled(r, a)'
  <2>1. PICK i \in DOMAIN calls[r] : calls[r][i].agent = a
    BY <1>5 DEF Tried
  <2>2. i \in 1..Len(calls[r]) /\ i \in DOMAIN calls'[r]
    BY <1>2, <1>3, <2>1
  <2>3. CASE i = Len(calls[r])
    BY <1>3, <1>4, <2>1, <2>2, <2>3 DEF Settled
  <2>4. CASE i # Len(calls[r])
    <3>1. calls'[r][i] = calls[r][i]
      BY <1>2, <1>3, <2>2, <2>4
    <3> QED
      BY <2>1, <2>2, <3>1 DEF Settled
  <2> QED
    BY <2>3, <2>4
<1>6. ASSUME NEW a, Queued(r, a) PROVE Settled(r, a)'
  <2>1. PICK j \in DOMAIN candidates[r] : candidates[r][j] = a
    BY <1>6 DEF Queued
  <2>2. Ordered(candidates[r]) /\ 1 \in DOMAIN candidates[r] /\ j >= 1
    BY <1>2, <2>1 DEF SearchOK, Searching
  <2>3. Priority[Current(r)] <= Priority[a]
    BY <1>2, <2>1, <2>2 DEF Ordered, Current
  <2>4. /\ Len(calls'[r]) \in DOMAIN calls'[r]
        /\ calls'[r][Len(calls'[r])].answer \in Definitive
        /\ Priority[calls'[r][Len(calls'[r])].agent] <= Priority[a]
    BY <1>2, <1>3, <2>3
  <2> QED
    BY <2>4 DEF Settled
<1>7. \A a \in window'[r].open : Settled(r, a)'
  BY <1>1, <1>2, <1>5, <1>6 DEF Reckoned, Searching
<1> QED
  BY <1>1, <1>2, <1>7 DEF Reckoned, Searching

\* With no candidate left, whoever is open was tried.
LEMMA ReckonedExhausted ==
  ASSUME TypeOK, Observe, NEW r \in Request, Reckoned(r), Exhausted(r)
  PROVE  Reckoned(r)'
<1>1. PassesNow(r)' /\ window'[r].open \subseteq window[r].open
  BY OpenShrinks
<1>2. /\ pc[r] = "reach" /\ pc'[r] = "respond" /\ candidates[r] = <<>>
      /\ calls'[r] = calls[r]
  BY DEF Exhausted, Conclude, Goto, work, TypeOK
<1>3. \A a : ~Queued(r, a) /\ (Tried(r, a) => Settled(r, a)')
  BY <1>2 DEF Queued, Tried, Settled
<1>4. \A a \in window'[r].open : Settled(r, a)'
  BY <1>1, <1>2, <1>3 DEF Reckoned, Searching
<1> QED
  BY <1>1, <1>2, <1>4 DEF Reckoned, Searching

\* No step makes a request overlook an agent.
LEMMA ReckonedStep ==
  ASSUME IInv, OInv, Next, NEW q \in Request
  PROVE  Reckoned(q)'
<1>1. /\ TypeOK /\ Observe /\ Reckoned(q) /\ SearchOK(q)
      /\ \A r \in Request : SearchOK(r)
  BY DEF IInv, RequestOK, OInv, Next
<1>2. CASE Outside
  BY <1>1, <1>2, OutsideLeavesRequests, ReckonedKept
<1>3. ASSUME NEW r \in Request, r # q, Arrive(r) \/ Advance(r) \/ Die(r)
      PROVE  Reckoned(q)'
  BY <1>1, <1>3, OwnSteps, ReckonedKept
<1>4. ASSUME Arrive(q) \/ Advance(q) \/ Die(q)
      PROVE  Reckoned(q)'
  <2>1. CASE Passing(q)
    <3>1. calls'[q] = calls[q] /\ candidates'[q] = candidates[q]
      BY <1>1, <2>1, PassingFacts DEF TypeOK, PC, work
    <3>2. /\ pc'[q] \in Searching => pc[q] \in Searching
          /\ pc'[q] \in {"store", "respond", "logging"} => pc[q] \in {"store", "respond", "logging"}
      BY <1>1, <2>1 DEF Passing, Miss, Refuse, Admit, PassReach, PassPermit, SecretFails,
         Respond, Die, Pass, Goto, Searching, TypeOK
    <3> QED
      BY <1>1, <3>1, <3>2, ReckonedKept
  <2>2. CASE Arrive(q) \/ Replay(q) \/ MissOnOutage(q) \/ Store(q) \/ StoreOnOutage(q) \/ Log(q)
    <3>1. calls'[q] = calls[q] /\ candidates'[q] = candidates[q]
      BY <2>2 DEF Arrive, Replay, MissOnOutage, Store, StoreOnOutage, Log, work
    <3>2. /\ pc'[q] \in Searching => pc[q] \in Searching
          /\ pc'[q] \in {"store", "respond", "logging"} => pc[q] \in {"store", "respond", "logging"}
      BY <1>1, <2>2 DEF Arrive, Replay, MissOnOutage, Store, StoreOnOutage, Log, Goto, Searching,
         TypeOK
    <3> QED
      BY <1>1, <3>1, <3>2, ReckonedKept
  <2>3. CASE LoadCandidates(q) \/ NoActiveAgent(q)
    BY <1>1, <2>3, ReckonedLoad
  <2>4. CASE Skip(q) \/ Send(q) \/ Exhausted(q)
    BY <1>1, <2>4, ReckonedSkip, ReckonedSend, ReckonedExhausted
  <2>5. CASE \E answer \in Definitive : AnswerDefinitive(q, answer)
    BY <1>1, <2>5, ReckonedDefinitive
  <2>6. CASE \E answer \in Retryable : AnswerRetryable(q, answer)
    BY <1>1, <2>6, ReckonedRetryable
  <2> QED
    BY <1>4, <2>1, <2>2, <2>3, <2>4, <2>5, <2>6 DEF Advance, Passing
<1> QED
  BY <1>2, <1>3, <1>4 DEF Next, Outside

-----------------------------------------------------------------------------
\* The theorems.

\* Every reachable state is well typed: whatever administrators, agents and
\* other requests do, a handler only ever handles what its variables may hold.
THEOREM TypeCorrect == Spec => []TypeOK
<1>1. IInv => TypeOK
  BY DEF IInv
<1> QED
  BY <1>1, Invariance, PTL

\* An agent that is called was active, visible to the caller and permitted at
\* some moments of the request that calls it.
THEOREM OnlyEligibleAgentsAreCalled == Spec => []CalledWasEligible
<1>1. IInv => CalledWasEligible
  BY DEF IInv, RequestOK, EligibleCalls, CalledWasEligible
<1> QED
  BY <1>1, Invariance, PTL

\* The calls of a request go to different agents in priority order, each after
\* a retryable failure of the one before.
THEOREM FallThroughKeepsOrder == Spec => []FallsThroughInOrder
<1>1. IInv => FallsThroughInOrder
  BY DEF IInv, RequestOK, InOrder, FallsThroughInOrder
<1> QED
  BY <1>1, Invariance, PTL

\* A response names the agent called last and its outcome, and a refusal means
\* that nobody was called.
THEOREM RepliesAreHonest == Spec => []ReplyTellsTheCalls
<1>1. IInv => ReplyTellsTheCalls
  BY DEF IInv, RequestOK, HonestReply, ReplyTellsTheCalls
<1> QED
  BY <1>1, Invariance, PTL

\* What the idempotency cache holds is a success of the same caller under the
\* same key.
THEOREM OnlyOwnSuccessesAreStored == Spec => []StoredIsOwnSuccess
<1>1. IInv => StoredIsOwnSuccess
  BY DEF IInv
<1> QED
  BY <1>1, Invariance, PTL

\* A retry that arrives after a success went out calls nobody, and is answered
\* with a success, unless its slot was lost.
THEOREM LateRetriesReplay == Spec => []LateRetryReplays
<1>1. Init => LInv
  BY DEF Init, LInv, Kept, Late
<1>2. IInv /\ LInv /\ [Next]_vars => LInv'
  <2>1. ASSUME IInv, LInv, Next PROVE LInv'
    BY <2>1, KeptStep, LateStep DEF LInv
  <2>2. ASSUME LInv, UNCHANGED vars PROVE LInv'
    BY <2>2 DEF LInv, Kept, Late, Answered, vars, work
  <2> QED
    BY <2>1, <2>2
<1>3. LInv => LateRetryReplays
  <2> SUFFICES ASSUME LInv, NEW r \in Request, NEW q \in before[r],
                      Keyed(r), slot(q) = slot(r), slot(r) \notin disturbed,
                      reply[q] # NoReply, reply[q].success
               PROVE  calls[r] = <<>> /\ (Answered(r) => reply[r].success)
    BY DEF LateRetryReplays
  <2>1. /\ pc[r] \in {"lookup", "done", "dead"} /\ calls[r] = <<>>
        /\ pc[r] = "done" => reply[r] # NoReply /\ reply[r].success
    BY DEF LInv, Late
  <2> QED
    BY <2>1 DEF Answered
<1> QED
  BY <1>1, <1>2, <1>3, Invariance, PTL DEF Spec

\* No agent that passed all three gates throughout a request is overlooked: it
\* was called, or one of no lower rank gave a definitive answer.
THEOREM NobodyIsOverlooked == Spec => []NoneOverlooked
<1>1. Init => OInv
  BY DEF Init, OInv, Reckoned, PassesNow, Searching, Unanswered
<1>2. IInv /\ OInv /\ [Next]_vars => OInv'
  <2>1. ASSUME IInv, OInv, Next PROVE OInv'
    BY <2>1, ReckonedStep DEF OInv
  <2>2. ASSUME OInv, UNCHANGED vars PROVE OInv'
    BY <2>2 DEF OInv, Reckoned, PassesNow, Tried, Queued, Settled, Active, Reachable,
                Permitted, vars, admin, work
  <2> QED
    BY <2>1, <2>2
<1>3. OInv => NoneOverlooked
  BY DEF OInv, Reckoned, Settled, NoneOverlooked
<1> QED
  BY <1>1, <1>2, <1>3, Invariance, PTL DEF Spec

=============================================================================
