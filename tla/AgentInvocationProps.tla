------------------------ MODULE AgentInvocationProps ------------------------
(***************************************************************************)
(* What a caller of the invocation path and its operators may rely on.     *)
(***************************************************************************)
EXTENDS AgentInvocation

Call == [agent : Agent, answer : Definitive \cup Retryable \cup {"awaited"}]

TypeOK ==
  /\ status \in [Agent -> Status]
  /\ enabled \subseteq Private \X Project
  /\ policies \subseteq Policy
  /\ changes \in 0..MaxChange
  /\ cache \in [Slot -> Reply \cup {NoReply}]
  /\ executed \subseteq Request \X Agent
  /\ rows \subseteq Request
  /\ pc \in [Request -> Unanswered \cup
       {"idle", "store", "respond", "logging", "done", "unlogged", "refused", "failed", "dead"}]
  /\ candidates \in [Request -> Seq(Agent)]
  /\ calls \in [Request -> Seq(Call)]
  /\ reply \in [Request -> Reply \cup {NoReply}]
  /\ before \in [Request -> SUBSET Request]
  /\ window \in [Request -> [active : SUBSET Agent, reachable : SUBSET Agent,
                             permitted : SUBSET Agent, open : SUBSET Agent]]
  /\ disturbed \subseteq Slot

\* An agent is called only if, at some moments of the request, it was active,
\* it was visible to the caller's project, and the policies permitted the
\* caller: a grant withdrawn before the request arrived never counts, although
\* all three are read long before the call.
CalledWasEligible ==
  \A r \in Request : \A i \in DOMAIN calls[r] :
    calls[r][i].agent \in
      window[r].active \cap window[r].reachable \cap window[r].permitted

\* No agent that passed all three gates throughout a request is overlooked:
\* it was called, or another one of no lower rank gave a definitive answer.
NoneOverlooked ==
  \A r \in Request :
    pc[r] \in {"store", "respond", "logging"} =>
      \A a \in window[r].open :
        \E i \in DOMAIN calls[r] :
          \/ calls[r][i].agent = a
          \/ /\ calls[r][i].answer \in Definitive
             /\ Priority[calls[r][i].agent] <= Priority[a]

\* The calls of a request go to different agents in priority order, each one
\* only after the one before failed retryably.
FallsThroughInOrder ==
  \A r \in Request : \A i, j \in DOMAIN calls[r] :
    i < j => /\ calls[r][i].answer \in Retryable
             /\ calls[r][i].agent # calls[r][j].agent
             /\ Priority[calls[r][i].agent] <= Priority[calls[r][j].agent]

\* A response tells what happened: `denied` and `no_active_agent` mean that no
\* agent was called, and otherwise it names the agent called last and reports
\* success exactly if that call succeeded (and the agent did the work).
ReplyTellsTheCalls ==
  \A r \in Request : reply[r] # NoReply /\ reply[r].id = r =>
    IF reply[r].decision = "allowed"
    THEN /\ calls[r] # <<>> /\ reply[r].agents = {LastCall(r).agent}
         /\ reply[r].success <=> LastCall(r).answer = "success"
         /\ reply[r].success => <<r, LastCall(r).agent>> \in executed
    ELSE calls[r] = <<>> /\ ~reply[r].success

\* A stored response is a success the same caller got under the same key: a
\* failure is never cached, and no caller replays another one's response.
StoredIsOwnSuccess ==
  \A s \in Slot : cache[s] # NoReply =>
    /\ cache[s].success /\ slot(cache[s].id) = s
    /\ cache[s] = reply[cache[s].id]

\* A retry that arrives after a successful response calls nobody and, if it is
\* answered, gets a success too, unless the stored response was lost.
LateRetryReplays ==
  \A r \in Request : \A q \in before[r] :
    /\ Keyed(r) /\ slot(q) = slot(r) /\ slot(r) \notin disturbed
    /\ reply[q] # NoReply /\ reply[q].success
    => calls[r] = <<>> /\ (Answered(r) => reply[r].success)

\* Every request comes to its end, whatever administrators change while it searches
\* and however often it skips a candidate or falls through (invoke).
RequestsEnd == []<>(\A r \in Request : pc[r] = "idle" \/ Ended(r))

=============================================================================
