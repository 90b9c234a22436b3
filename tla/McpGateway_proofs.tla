-------------------------- MODULE McpGateway_proofs --------------------------
(***************************************************************************)
(* For any servers, tools, callers, policies and requests: a target works  *)
(* only for a request whose gates have been open, and no more often than   *)
(* it may be tried (GateInv); a client that sends one request after the    *)
(* other finds the sessions it left (SessionInv); and a reply tells what   *)
(* became of the call (Told).                                              *)
(***************************************************************************)
EXTENDS McpGatewayProps, FiniteSetTheorems, TLAPS

\* A request record has the fields of Fresh.
Shaped(record) ==
  record = [pc |-> record.pc, agenda |-> record.agenda, session |-> record.session,
            written |-> record.written, down |-> record.down, tries |-> record.tries,
            reply |-> record.reply, crowded |-> record.crowded]

\* What matters of it here: where it is, and how often it was tried.
Says(record, pc, tries) == Shaped(record) /\ record.pc = pc /\ record.tries = tries

RequestsShaped ==
  /\ req = [r \in Request |-> req[r]]
  /\ \A r \in Request : Shaped(req[r])

\* A change of one field of a shaped record.
LEMMA OneField ==
  ASSUME NEW record, NEW pc, NEW tries, Says(record, pc, tries), NEW v
  PROVE  /\ Says([record EXCEPT !.pc = v], v, tries)
         /\ Says([record EXCEPT !.tries = v], pc, v)
         /\ Says([record EXCEPT !.agenda = v], pc, tries)
         /\ Says([record EXCEPT !.session = v], pc, tries)
         /\ Says([record EXCEPT !.written = v], pc, tries)
         /\ Says([record EXCEPT !.down = v], pc, tries)
         /\ Says([record EXCEPT !.reply = v], pc, tries)
         /\ Says([record EXCEPT !.crowded = v], pc, tries)
<1>1. Says([record EXCEPT !.pc = v], v, tries)
  BY DEF Says, Shaped
<1>2. Says([record EXCEPT !.tries = v], pc, v)
  BY DEF Says, Shaped
<1>3. Says([record EXCEPT !.agenda = v], pc, tries)
  BY DEF Says, Shaped
<1>4. Says([record EXCEPT !.session = v], pc, tries)
  BY DEF Says, Shaped
<1>5. Says([record EXCEPT !.written = v], pc, tries)
  BY DEF Says, Shaped
<1>6. Says([record EXCEPT !.down = v], pc, tries)
  BY DEF Says, Shaped
<1>7. Says([record EXCEPT !.reply = v], pc, tries)
  BY DEF Says, Shaped
<1>8. Says([record EXCEPT !.crowded = v], pc, tries)
  BY DEF Says, Shaped
<1> QED
  BY <1>1, <1>2, <1>3, <1>4, <1>5, <1>6, <1>7, <1>8

\* A change of its place and of another field.
LEMMA PlacedField ==
  ASSUME NEW record, NEW pc, NEW tries, Says(record, pc, tries), NEW place, NEW v
  PROVE  /\ Says([record EXCEPT !.pc = place, !.reply = v], place, tries)
         /\ Says([record EXCEPT !.pc = place, !.crowded = v], place, tries)
         /\ Says([record EXCEPT !.pc = place, !.down = v], place, tries)
         /\ Says([record EXCEPT !.pc = place, !.written = v], place, tries)
<1> DEFINE placed == [record EXCEPT !.pc = place]
<1>1. Says(placed, place, tries)
  BY OneField
<1>2. /\ [record EXCEPT !.pc = place, !.reply = v] = [placed EXCEPT !.reply = v]
      /\ [record EXCEPT !.pc = place, !.crowded = v] = [placed EXCEPT !.crowded = v]
      /\ [record EXCEPT !.pc = place, !.down = v] = [placed EXCEPT !.down = v]
      /\ [record EXCEPT !.pc = place, !.written = v] = [placed EXCEPT !.written = v]
  OBVIOUS
<1> HIDE DEF placed
<1>3. /\ Says([placed EXCEPT !.reply = v], place, tries)
      /\ Says([placed EXCEPT !.crowded = v], place, tries)
      /\ Says([placed EXCEPT !.down = v], place, tries)
      /\ Says([placed EXCEPT !.written = v], place, tries)
  BY <1>1, OneField
<1> QED
  BY <1>2, <1>3

\* A request as it is, moved, and thrown out.
LEMMA RequestSays ==
  ASSUME RequestsShaped, NEW r \in Request, NEW place, NEW status
  PROVE  /\ Says(req[r], req[r].pc, req[r].tries)
         /\ Says(Moved(r, place), place, req[r].tries)
         /\ Says([Moved(r, place) EXCEPT !.reply = status], place, req[r].tries)
         /\ Says(Raised(r, status), "ended", req[r].tries)
<1>1. Says(req[r], req[r].pc, req[r].tries)
  BY DEF RequestsShaped, Says
<1>2. Says(Moved(r, place), place, req[r].tries)
  BY <1>1, OneField DEF Moved
<1>3. Says([Moved(r, place) EXCEPT !.reply = status], place, req[r].tries)
  BY <1>2, OneField
<1> DEFINE over == [req[r] EXCEPT !.pc = "ended", !.written = {}]
<1>4. Says(over, "ended", req[r].tries)
  BY <1>1, PlacedField
<1>5. Raised(r, status) = [over EXCEPT !.reply = status]
  BY DEF Raised
<1> HIDE DEF over
<1>6. Says([over EXCEPT !.reply = status], "ended", req[r].tries)
  BY <1>4, OneField
<1> QED
  BY <1>1, <1>2, <1>3, <1>5, <1>6

\* The next thing to do with an agenda: another server, the call, or the response.
LEMMA ContinueSays ==
  ASSUME NEW record, NEW pc, NEW tries, Says(record, pc, tries), NEW r
  PROVE  \E place \in {"probe", "call", "respond"} :
           /\ Says(Continue(record, r), place, tries)
           /\ place = "call" => Calls(r)
<1>1. CASE record.agenda # <<>>
  <2>1. Continue(record, r) = [record EXCEPT !.pc = "probe"]
    BY <1>1 DEF Continue
  <2>2. Says([record EXCEPT !.pc = "probe"], "probe", tries)
    BY OneField
  <2> QED
    BY <2>1, <2>2
<1>2. CASE record.agenda = <<>> /\ Calls(r)
  <2>1. Continue(record, r) = [record EXCEPT !.pc = "call"]
    BY <1>2 DEF Continue
  <2>2. Says([record EXCEPT !.pc = "call"], "call", tries)
    BY OneField
  <2> QED
    BY <1>2, <2>1, <2>2
<1>3. CASE record.agenda = <<>> /\ ~Calls(r)
  <2>1. Continue(record, r) = [record EXCEPT !.pc = "respond", !.reply = "result"]
    BY <1>3 DEF Continue
  <2>2. Says([record EXCEPT !.pc = "respond", !.reply = "result"], "respond", tries)
    BY PlacedField
  <2> QED
    BY <2>1, <2>2
<1> QED
  BY <1>1, <1>2, <1>3

-----------------------------------------------------------------------------
\* What a step does to the place of a request.

\* Before its call, while it looks for its session.
InSession == {"session", "insert", "probe", "report", "record"}

\* The target works once more, or not.
WorksAtMostOnce(r) == executed' = executed \/ Work(r)

\* A request goes from one place to another.
Goes(r, from, to) == req[r].pc = from /\ req'[r].pc = to /\ req'[r].tries = req[r].tries

\* It is where nothing will be called any more, it passes a gate, it gets ready
\* for its call, or it calls.
Advance(r) ==
  \/ req'[r].pc \in {"list", "respond", "commit", "ended"} /\ executed' = executed
  \/ At(r, "idle") /\ req'[r].pc = "scope" /\ req'[r].tries = 0 /\ executed' = executed
  \/ Goes(r, "scope", "policy") /\ Calls(r) /\ caller(r) \in CanExecute /\ executed' = executed
  \/ Goes(r, "scope", "session") /\ ~Calls(r) /\ executed' = executed
  \/ Goes(r, "policy", "limit") /\ Permitted(r) /\ executed' = executed
  \/ Goes(r, "limit", "resolve") /\ executed' = executed
  \/ (Goes(r, "resolve", "rest") \/ Goes(r, "resolve", "session"))
       /\ tool(r) \in available /\ executed' = executed
  \/ /\ \E from \in InSession, to \in InSession \cup {"call"} :
          Goes(r, from, to) /\ (to = "call" => Calls(r))
     /\ executed' = executed
  \/ Goes(r, "rest", "send") /\ executed' = executed
  \/ req[r].pc \in {"call", "send"} /\ req'[r].pc \in {"respond", "ended"} /\ WorksAtMostOnce(r)
  \/ /\ At(r, "send") /\ req'[r].pc = "send" /\ req'[r].tries = req[r].tries + 1
     /\ req[r].tries + 1 < Attempts(r) /\ WorksAtMostOnce(r)

\* What a step of r leaves of the others.
OthersStay(r) ==
  \A q \in Request \ {r} : req'[q].pc = req[q].pc /\ req'[q].tries = req[q].tries

\* A step that writes one record.
LEMMA OneRequest ==
  ASSUME RequestsShaped, NEW r \in Request, NEW record, Shaped(record),
         req' = [req EXCEPT ![r] = record]
  PROVE  RequestsShaped' /\ req'[r] = record /\ OthersStay(r)
<1>1. req'[r] = record /\ \A q \in Request \ {r} : req'[q] = req[q]
  BY DEF RequestsShaped
<1>2. req' = [q \in Request |-> req'[q]]
  BY DEF RequestsShaped
<1>3. \A q \in Request : Shaped(req[q])'
  BY <1>1 DEF RequestsShaped, Shaped
<1> QED
  BY <1>1, <1>2, <1>3 DEF RequestsShaped, OthersStay

\* The form of almost every step: one record, and where it is then.
LEMMA RecordStep ==
  ASSUME RequestsShaped, NEW r \in Request, NEW record, NEW pc, NEW tries,
         Says(record, pc, tries), req' = [req EXCEPT ![r] = record]
  PROVE  RequestsShaped' /\ req'[r].pc = pc /\ req'[r].tries = tries /\ OthersStay(r)
BY OneRequest DEF Says

\* A request arrives; others of its client learn of it.
LEMMA ArriveAdvances ==
  ASSUME RequestsShaped, NEW r \in Request, Arrive(r)
  PROVE  RequestsShaped' /\ Advance(r) /\ OthersStay(r)
<1>1. PICK others \in SUBSET (Request \ {r}) :
        req' = [q \in Request |->
          IF q = r THEN [Fresh EXCEPT !.pc = "scope", !.crowded = others # {}]
          ELSE IF q \in others THEN [req[q] EXCEPT !.crowded = TRUE] ELSE req[q]]
  BY DEF Arrive
<1>2. req[r].pc = "idle" /\ executed' = executed
  BY DEF Arrive, At
<1>3. Says(Fresh, "idle", 0)
  BY DEF Fresh, Says, Shaped
<1>4. Says([Fresh EXCEPT !.pc = "scope", !.crowded = others # {}], "scope", 0)
  BY <1>3, PlacedField
<1>5. req'[r] = [Fresh EXCEPT !.pc = "scope", !.crowded = others # {}]
  BY <1>1
<1>6. req'[r].pc = "scope" /\ req'[r].tries = 0 /\ Shaped(req[r])'
  BY <1>4, <1>5 DEF Says, Shaped
<1>7. ASSUME NEW q \in Request \ {r}
      PROVE  Shaped(req[q])' /\ req'[q].pc = req[q].pc /\ req'[q].tries = req[q].tries
  <2>1. Says(req[q], req[q].pc, req[q].tries)
    BY RequestSays
  <2>2. Says([req[q] EXCEPT !.crowded = TRUE], req[q].pc, req[q].tries)
    BY <2>1, OneField
  <2>3. req'[q] = [req[q] EXCEPT !.crowded = TRUE] \/ req'[q] = req[q]
    BY <1>1
  <2> QED
    BY <2>1, <2>2, <2>3 DEF Says, Shaped
<1>8. req' = [q \in Request |-> req'[q]]
  BY <1>1
<1>9. RequestsShaped'
  BY <1>6, <1>7, <1>8 DEF RequestsShaped
<1> QED
  BY <1>2, <1>6, <1>7, <1>9 DEF Advance, At, OthersStay

\* The gates.
LEMMA GatesAdvance ==
  ASSUME RequestsShaped, NEW r \in Request,
         \/ Scope(r) \/ ListTools(r) \/ Policies(r) \/ Limit(r) \/ Resolve(r) \/ Refuse(r)
         \/ MissSession(r) \/ InsertFails(r) \/ BreakDeadlock(r) \/ RestRefused(r) \/ RestReady(r)
  PROVE  RequestsShaped' /\ Advance(r) /\ OthersStay(r)
<1>1. ASSUME NEW place, req' = [req EXCEPT ![r] = Moved(r, place)]
      PROVE  /\ RequestsShaped' /\ OthersStay(r)
             /\ req'[r].pc = place /\ req'[r].tries = req[r].tries
  <2>1. Says(Moved(r, place), place, req[r].tries)
    BY RequestSays
  <2>2. PICK record, tries : record = Moved(r, place) /\ tries = req[r].tries
    OBVIOUS
  <2>3. Says(record, place, tries) /\ req' = [req EXCEPT ![r] = record]
    BY <1>1, <2>1, <2>2
  <2>4. RequestsShaped' /\ req'[r].pc = place /\ req'[r].tries = tries /\ OthersStay(r)
    BY <2>3, RecordStep
  <2> QED
    BY <2>2, <2>4
<1>2. ASSUME NEW status, req' = [req EXCEPT ![r] = Raised(r, status)]
      PROVE  RequestsShaped' /\ OthersStay(r) /\ req'[r].pc = "ended"
  <2>1. Says(Raised(r, status), "ended", req[r].tries)
    BY RequestSays
  <2>2. PICK record : record = Raised(r, status)
    OBVIOUS
  <2> QED
    BY <1>2, <2>1, <2>2, RecordStep
<1>3. CASE Scope(r)
  <2>1. PICK place \in {"policy", "session", "list"} :
          /\ Go(r, Moved(r, place)) /\ Scoped(r) /\ req[r].pc = "scope"
          /\ place = "policy" <=> Calls(r)
    BY <1>3 DEF Scope, Calls, At
  <2>2. Calls(r) => caller(r) \in CanExecute
    BY <2>1 DEF Scoped
  <2> QED
    BY <1>1, <2>1, <2>2 DEF Go, Advance, Goes
<1>4. CASE ListTools(r)
  <2>1. Says([Moved(r, "respond") EXCEPT !.reply = "result"], "respond", req[r].tries)
    BY RequestSays
  <2>2. Go(r, [Moved(r, "respond") EXCEPT !.reply = "result"])
    BY <1>4 DEF ListTools
  <2> QED
    BY <2>1, <2>2, RecordStep DEF Go, Advance
<1>5. CASE Policies(r)
  BY <1>1, <1>5 DEF Policies, Go, Advance, Goes, At
<1>6. CASE Limit(r)
  BY <1>1, <1>6 DEF Limit, Go, Advance, Goes, At
<1>7. CASE Resolve(r)
  <2>1. PICK place \in {"rest", "session"} : Go(r, Moved(r, place))
    BY <1>7 DEF Resolve
  <2>2. req[r].pc = "resolve" /\ tool(r) \in available
    BY <1>7 DEF Resolve, At
  <2>3. /\ RequestsShaped' /\ OthersStay(r) /\ executed' = executed
        /\ req'[r].pc = place /\ req'[r].tries = req[r].tries
    BY <1>1, <2>1 DEF Go
  <2> QED
    BY <2>1, <2>2, <2>3 DEF Advance, Goes
<1>8. CASE Refuse(r) \/ InsertFails(r) \/ BreakDeadlock(r) \/ RestRefused(r)
  <2>1. PICK status : Go(r, Raised(r, status))
    BY <1>8 DEF Refuse, InsertFails, BreakDeadlock, RestRefused
  <2>2. RequestsShaped' /\ OthersStay(r) /\ req'[r].pc = "ended" /\ executed' = executed
    BY <1>2, <2>1 DEF Go
  <2> QED
    BY <2>2 DEF Advance
<1>9. CASE MissSession(r)
  <2>1. req[r].pc = "session" /\ executed' = executed /\ req' = [req EXCEPT ![r] = Moved(r, "insert")]
    BY <1>9 DEF MissSession, Go, At
  <2>2. Goes(r, "session", "insert") /\ RequestsShaped' /\ OthersStay(r)
    BY <1>1, <2>1 DEF Goes
  <2> QED
    BY <2>1, <2>2 DEF Advance, InSession
<1>10. CASE RestReady(r)
  BY <1>1, <1>10 DEF RestReady, Go, Advance, Goes, At
<1> QED
  BY <1>3, <1>4, <1>5, <1>6, <1>7, <1>8, <1>9, <1>10

\* The response and the commit.
LEMMA EndsAdvance ==
  ASSUME RequestsShaped, NEW r \in Request, Respond(r) \/ Commit(r)
  PROVE  RequestsShaped' /\ Advance(r) /\ OthersStay(r)
<1>1. Says(req[r], req[r].pc, req[r].tries)
  BY RequestSays
<1>2. CASE Respond(r)
  <2>1. PICK record : record = [req[r] EXCEPT !.pc = "commit"]
    OBVIOUS
  <2>2. Says([req[r] EXCEPT !.pc = "commit"], "commit", req[r].tries)
    BY <1>1, OneField
  <2>3. req' = [req EXCEPT ![r] = record] /\ executed' = executed
    BY <1>2, <2>1 DEF Respond
  <2>4. Says(record, "commit", req[r].tries)
    BY <2>1, <2>2
  <2>5. RequestsShaped' /\ req'[r].pc = "commit" /\ OthersStay(r)
    BY <2>3, <2>4, RecordStep
  <2> QED
    BY <2>3, <2>5 DEF Advance
<1>3. CASE Commit(r)
  <2>1. PICK record : record = [req[r] EXCEPT !.pc = "ended", !.written = {}]
    OBVIOUS
  <2>2. Says([req[r] EXCEPT !.pc = "ended", !.written = {}], "ended", req[r].tries)
    BY <1>1, PlacedField
  <2>3. req' = [req EXCEPT ![r] = record] /\ executed' = executed
    BY <1>3, <2>1 DEF Commit
  <2>4. Says(record, "ended", req[r].tries)
    BY <2>1, <2>2
  <2>5. RequestsShaped' /\ req'[r].pc = "ended" /\ OthersStay(r)
    BY <2>3, <2>4, RecordStep
  <2> QED
    BY <2>3, <2>5 DEF Advance
<1> QED
  BY <1>2, <1>3

\* From a place before the call, to go on with the agenda of a record.
LEMMA ContinueAdvances ==
  ASSUME RequestsShaped, NEW r \in Request, req[r].pc \in InSession, executed' = executed,
         NEW record, NEW pc, Says(record, pc, req[r].tries),
         req' = [req EXCEPT ![r] = Continue(record, r)]
  PROVE  RequestsShaped' /\ Advance(r) /\ OthersStay(r)
<1>1. PICK place \in {"probe", "call", "respond"} :
        /\ Says(Continue(record, r), place, req[r].tries)
        /\ place = "call" => Calls(r)
  BY ContinueSays
<1>2. PICK next : next = Continue(record, r)
  OBVIOUS
<1>3. Says(next, place, req[r].tries) /\ req' = [req EXCEPT ![r] = next]
  BY <1>1, <1>2
<1>4. RequestsShaped' /\ req'[r].pc = place /\ req'[r].tries = req[r].tries /\ OthersStay(r)
  BY <1>3, RecordStep
<1>5. CASE place = "respond"
  BY <1>4, <1>5 DEF Advance
<1>6. CASE place \in {"probe", "call"}
  <2>1. place \in InSession \cup {"call"}
    BY <1>6 DEF InSession
  <2>2. Goes(r, req[r].pc, place) /\ (place = "call" => Calls(r))
    BY <1>1, <1>4 DEF Goes
  <2> QED
    BY <1>4, <2>1, <2>2 DEF Advance
<1> QED
  BY <1>1, <1>5, <1>6

\* The sessions.
LEMMA SessionsAdvance ==
  ASSUME RequestsShaped, NEW r \in Request,
         LoadSession(r) \/ InsertSession(r) \/ Probe(r) \/ Report(r) \/ Record(r)
  PROVE  RequestsShaped' /\ Advance(r) /\ OthersStay(r)
<1> DEFINE tries == req[r].tries
<1>1. Says(req[r], req[r].pc, tries)
  BY RequestSays
<1>2. req[r].pc \in InSession /\ executed' = executed
  BY DEF LoadSession, InsertSession, Probe, Report, Record, Go, At, InSession
<1> HIDE DEF tries
<1>3. CASE LoadSession(r)
  <2>1. PICK held, agenda :
          req' = [req EXCEPT ![r] = Continue([req[r] EXCEPT !.session = held, !.agenda = agenda], r)]
    BY <1>3 DEF LoadSession, Go
  <2> DEFINE loaded == [req[r] EXCEPT !.session = held]
  <2>2. Says(loaded, req[r].pc, tries)
    BY <1>1, OneField
  <2>3. [req[r] EXCEPT !.session = held, !.agenda = agenda] = [loaded EXCEPT !.agenda = agenda]
    OBVIOUS
  <2> HIDE DEF loaded
  <2>4. Says([loaded EXCEPT !.agenda = agenda], req[r].pc, tries)
    BY <2>2, OneField
  <2>5. PICK record : record = [loaded EXCEPT !.agenda = agenda]
    OBVIOUS
  <2>6. Says(record, req[r].pc, tries) /\ req' = [req EXCEPT ![r] = Continue(record, r)]
    BY <2>1, <2>3, <2>4, <2>5
  <2> QED
    BY <1>2, <2>6, ContinueAdvances DEF tries
<1>4. CASE InsertSession(r)
  <2>1. PICK held, agenda :
          req' = [req EXCEPT ![r] = Continue([req[r] EXCEPT !.written = held, !.agenda = agenda], r)]
    BY <1>4 DEF InsertSession, Go
  <2> DEFINE inserted == [req[r] EXCEPT !.written = held]
  <2>2. Says(inserted, req[r].pc, tries)
    BY <1>1, OneField
  <2>3. [req[r] EXCEPT !.written = held, !.agenda = agenda] = [inserted EXCEPT !.agenda = agenda]
    OBVIOUS
  <2> HIDE DEF inserted
  <2>4. Says([inserted EXCEPT !.agenda = agenda], req[r].pc, tries)
    BY <2>2, OneField
  <2>5. PICK record : record = [inserted EXCEPT !.agenda = agenda]
    OBVIOUS
  <2>6. Says(record, req[r].pc, tries) /\ req' = [req EXCEPT ![r] = Continue(record, r)]
    BY <2>1, <2>3, <2>4, <2>5
  <2> QED
    BY <1>2, <2>6, ContinueAdvances DEF tries
<1>5. CASE Probe(r)
  <2>1. PICK found : req' = [req EXCEPT ![r] = [req[r] EXCEPT !.pc = "report", !.down = found]]
    BY <1>5 DEF Probe
  <2>2. Says([req[r] EXCEPT !.pc = "report", !.down = found], "report", tries)
    BY <1>1, PlacedField
  <2>3. PICK record : record = [req[r] EXCEPT !.pc = "report", !.down = found]
    OBVIOUS
  <2>4. Says(record, "report", tries) /\ req' = [req EXCEPT ![r] = record]
    BY <2>1, <2>2, <2>3
  <2>5. RequestsShaped' /\ req'[r].pc = "report" /\ req'[r].tries = tries /\ OthersStay(r)
    BY <2>4, RecordStep
  <2>6. Goes(r, req[r].pc, "report")
    BY <2>5 DEF Goes, tries
  <2> QED
    BY <1>2, <2>5, <2>6 DEF Advance, InSession
<1>6. CASE Report(r)
  <2>1. PICK written :
          \/ req' = [req EXCEPT ![r] = [[req[r] EXCEPT !.written = written] EXCEPT !.pc = "record"]]
          \/ req' = [req EXCEPT ![r] = [[req[r] EXCEPT !.written = written]
                                          EXCEPT !.pc = "respond", !.reply = "unreachable"]]
          \/ \E agenda : req' = [req EXCEPT ![r] =
               Continue([[req[r] EXCEPT !.written = written] EXCEPT !.agenda = agenda], r)]
    BY <1>6 DEF Report, Go
  <2> DEFINE reported == [req[r] EXCEPT !.written = written]
  <2>2. Says(reported, req[r].pc, tries)
    BY <1>1, OneField
  <2>3. \/ req' = [req EXCEPT ![r] = [reported EXCEPT !.pc = "record"]]
        \/ req' = [req EXCEPT ![r] = [reported EXCEPT !.pc = "respond", !.reply = "unreachable"]]
        \/ \E agenda : req' = [req EXCEPT ![r] = Continue([reported EXCEPT !.agenda = agenda], r)]
    BY <2>1
  <2> HIDE DEF reported
  <2>4. CASE req' = [req EXCEPT ![r] = [reported EXCEPT !.pc = "record"]]
    <3>1. Says([reported EXCEPT !.pc = "record"], "record", tries)
      BY <2>2, OneField
    <3>2. PICK record : record = [reported EXCEPT !.pc = "record"]
      OBVIOUS
    <3>3. Says(record, "record", tries) /\ req' = [req EXCEPT ![r] = record]
      BY <2>4, <3>1, <3>2
    <3>4. RequestsShaped' /\ req'[r].pc = "record" /\ req'[r].tries = tries /\ OthersStay(r)
      BY <3>3, RecordStep
    <3>5. Goes(r, req[r].pc, "record")
      BY <3>4 DEF Goes, tries
    <3> QED
      BY <1>2, <3>4, <3>5 DEF Advance, InSession
  <2>5. CASE req' = [req EXCEPT ![r] = [reported EXCEPT !.pc = "respond", !.reply = "unreachable"]]
    <3>1. Says([reported EXCEPT !.pc = "respond", !.reply = "unreachable"], "respond", tries)
      BY <2>2, PlacedField
    <3>2. PICK record : record = [reported EXCEPT !.pc = "respond", !.reply = "unreachable"]
      OBVIOUS
    <3>3. Says(record, "respond", tries) /\ req' = [req EXCEPT ![r] = record]
      BY <2>5, <3>1, <3>2
    <3>4. RequestsShaped' /\ req'[r].pc = "respond" /\ OthersStay(r)
      BY <3>3, RecordStep
    <3> QED
      BY <1>2, <3>4 DEF Advance
  <2>6. ASSUME NEW agenda, req' = [req EXCEPT ![r] = Continue([reported EXCEPT !.agenda = agenda], r)]
        PROVE  RequestsShaped' /\ Advance(r) /\ OthersStay(r)
    <3>1. Says([reported EXCEPT !.agenda = agenda], req[r].pc, tries)
      BY <2>2, OneField
    <3>2. PICK record : record = [reported EXCEPT !.agenda = agenda]
      OBVIOUS
    <3>3. Says(record, req[r].pc, tries) /\ req' = [req EXCEPT ![r] = Continue(record, r)]
      BY <2>6, <3>1, <3>2
    <3> QED
      BY <1>2, <3>3, ContinueAdvances DEF tries
  <2> QED
    BY <2>3, <2>4, <2>5, <2>6
<1>7. CASE Record(r)
  <2>1. PICK rest, held, written :
          \/ req' = [req EXCEPT ![r] = Continue([req[r] EXCEPT !.agenda = rest], r)]
          \/ req' = [req EXCEPT ![r] = Continue([[req[r] EXCEPT !.agenda = rest]
                                                   EXCEPT !.session = held, !.written = written], r)]
    BY <1>7 DEF Record, Go
  <2> DEFINE done == [req[r] EXCEPT !.agenda = rest]
  <2>2. Says(done, req[r].pc, tries)
    BY <1>1, OneField
  <2>3. \/ req' = [req EXCEPT ![r] = Continue(done, r)]
        \/ req' = [req EXCEPT ![r] = Continue([done EXCEPT !.session = held, !.written = written], r)]
    BY <2>1
  <2> HIDE DEF done
  <2> DEFINE recorded == [done EXCEPT !.session = held]
  <2>4. Says(recorded, req[r].pc, tries)
    BY <2>2, OneField
  <2>5. [done EXCEPT !.session = held, !.written = written] = [recorded EXCEPT !.written = written]
    OBVIOUS
  <2> HIDE DEF recorded
  <2>6. Says([recorded EXCEPT !.written = written], req[r].pc, tries)
    BY <2>4, OneField
  <2>7. PICK record : Says(record, req[r].pc, tries) /\ req' = [req EXCEPT ![r] = Continue(record, r)]
    BY <2>2, <2>3, <2>5, <2>6
  <2> QED
    BY <1>2, <2>7, ContinueAdvances DEF tries
<1> QED
  BY <1>3, <1>4, <1>5, <1>6, <1>7

\* The calls of the targets.
LEMMA CallsAdvance ==
  ASSUME RequestsShaped, NEW r \in Request,
         CallServer(r) \/ CallServerFails(r) \/ SendRest(r) \/ SendRestFails(r)
  PROVE  RequestsShaped' /\ Advance(r) /\ OthersStay(r)
<1>1. ASSUME NEW record, NEW works, Reached(r, record, works)
      PROVE  WorksAtMostOnce(r) /\ req' = [req EXCEPT ![r] = record]
  BY <1>1 DEF Reached, WorksAtMostOnce
<1>2. ASSUME NEW status, NEW works, req[r].pc \in {"call", "send"},
             \/ Reached(r, [Moved(r, "respond") EXCEPT !.reply = status], works)
             \/ Reached(r, Raised(r, status), works)
      PROVE  RequestsShaped' /\ Advance(r) /\ OthersStay(r)
  <2>1. /\ Says([Moved(r, "respond") EXCEPT !.reply = status], "respond", req[r].tries)
        /\ Says(Raised(r, status), "ended", req[r].tries)
    BY RequestSays
  <2>2. PICK record, place : /\ Reached(r, record, works) /\ place \in {"respond", "ended"}
                             /\ Says(record, place, req[r].tries)
    BY <1>2, <2>1
  <2>3. WorksAtMostOnce(r) /\ req' = [req EXCEPT ![r] = record]
    BY <1>1, <2>2
  <2>4. RequestsShaped' /\ req'[r].pc = place /\ OthersStay(r)
    BY <2>2, <2>3, RecordStep
  <2> QED
    BY <1>2, <2>2, <2>3, <2>4 DEF Advance
<1>3. CASE CallServer(r) \/ CallServerFails(r) \/ SendRest(r)
  <2>1. PICK status, works :
          \/ Reached(r, [Moved(r, "respond") EXCEPT !.reply = status], works)
          \/ Reached(r, Raised(r, status), works)
    BY <1>3 DEF CallServer, CallServerFails, SendRest
  <2>2. req[r].pc \in {"call", "send"}
    BY <1>3 DEF CallServer, CallServerFails, SendRest, At
  <2> QED
    BY <1>2, <2>1, <2>2
<1>4. CASE SendRestFails(r)
  <2>1. req[r].pc = "send"
    BY <1>4 DEF SendRestFails, At
  <2>2. PICK works :
          \/ req[r].tries + 1 < Attempts(r)
             /\ Reached(r, [req[r] EXCEPT !.tries = req[r].tries + 1], works)
          \/ Reached(r, Raised(r, "failed"), works)
    BY <1>4 DEF SendRestFails
  <2>3. CASE Reached(r, Raised(r, "failed"), works)
    <3>1. PICK status, reached :
            \/ Reached(r, [Moved(r, "respond") EXCEPT !.reply = status], reached)
            \/ Reached(r, Raised(r, status), reached)
      BY <2>3
    <3>2. req[r].pc \in {"call", "send"}
      BY <2>1
    <3> QED
      BY <1>2, <3>1, <3>2
  <2>4. CASE /\ req[r].tries + 1 < Attempts(r)
             /\ Reached(r, [req[r] EXCEPT !.tries = req[r].tries + 1], works)
    <3>1. PICK tries : tries = req[r].tries + 1
      OBVIOUS
    <3>2. Says(req[r], req[r].pc, req[r].tries)
      BY RequestSays
    <3>3. Says([req[r] EXCEPT !.tries = tries], req[r].pc, tries)
      BY <3>2, OneField
    <3>4. PICK record : record = [req[r] EXCEPT !.tries = tries]
      OBVIOUS
    <3>5. Reached(r, record, works)
      BY <2>4, <3>1, <3>4
    <3>6. WorksAtMostOnce(r) /\ req' = [req EXCEPT ![r] = record] /\ Says(record, req[r].pc, tries)
      BY <1>1, <3>3, <3>4, <3>5
    <3>7. RequestsShaped' /\ req'[r].pc = req[r].pc /\ req'[r].tries = tries /\ OthersStay(r)
      BY <3>6, RecordStep
    <3> QED
      BY <2>1, <2>4, <3>1, <3>6, <3>7 DEF Advance, At
  <2> QED
    BY <2>2, <2>3, <2>4
<1> QED
  BY <1>3, <1>4

-----------------------------------------------------------------------------
\* The invariant.

\* Before its call, and in it.
AtGates == {"policy", "limit", "resolve"}
InCall == {"call", "rest", "send"}

\* What has been open for a request, by where it is.
GatesPassed(r) ==
  LET place == req[r].pc
  IN  /\ place \in AtGates \cup InCall => Calls(r)
      /\ Calls(r) /\ place \in AtGates \cup InSession \cup InCall => caller(r) \in CanExecute
      /\ Calls(r) /\ place \in {"limit", "resolve"} \cup InSession \cup InCall => window[r].permitted
      /\ Calls(r) /\ place \in InSession \cup InCall => window[r].available
      /\ executed[r] > 0 => caller(r) \in CanExecute /\ window[r].available /\ window[r].permitted

\* How often its target has worked.
Counted(r) ==
  /\ req[r].pc \in {"idle", "scope", "call", "rest"} \cup AtGates \cup InSession => executed[r] = 0
  /\ req[r].pc \in {"scope", "call", "rest"} \cup AtGates \cup InSession => req[r].tries = 0
  /\ At(r, "send") =>
       req[r].tries \in Nat /\ executed[r] <= req[r].tries /\ req[r].tries < Attempts(r)
  /\ executed[r] <= Attempts(r)

GateInv ==
  /\ RequestsShaped
  /\ executed \in [Request -> Nat]
  /\ \A r \in Request : GatesPassed(r) /\ Counted(r)

\* A call may be tried at least once.
LEMMA AttemptsSome ==
  ASSUME NEW r \in Request
  PROVE  Attempts(r) \in Nat /\ Attempts(r) > 0
BY GatewayAssumption DEF Attempts

\* What was open stays noted, and what is open is noted of a call in progress.
LEMMA WindowGrows ==
  ASSUME Observe, NEW r \in Request
  PROVE  /\ window[r].available => window'[r].available
         /\ window[r].permitted => window'[r].permitted
         /\ Calls(r) /\ req'[r].pc # "idle" /\ tool(r) \in available => window'[r].available
         /\ Calls(r) /\ req'[r].pc # "idle" /\ Permitted(r) => window'[r].permitted
<1>1. CASE req'[r].pc = "idle" \/ ~Calls(r)
  <2>1. window'[r] = window[r]
    BY <1>1 DEF Observe
  <2> QED
    BY <1>1, <2>1
<1>2. CASE ~(req'[r].pc = "idle" \/ ~Calls(r))
  <2>1. PICK a, p :
          /\ a = (window[r].available \/ tool(r) \in available \/ tool(r) \in available')
          /\ p = (window[r].permitted \/ Permitted(r) \/ Permitted(r)')
    OBVIOUS
  <2>2. window'[r] = [available |-> a, permitted |-> p]
    BY <1>2, <2>1 DEF Observe
  <2>3. window'[r].available = a /\ window'[r].permitted = p
    BY <2>2
  <2> QED
    BY <2>1, <2>3
<1> QED
  BY <1>1, <1>2

\* A request nothing happens to keeps what it has.
LEMMA RequestKeeps ==
  ASSUME NEW q \in Request, GatesPassed(q), Counted(q), Observe,
         req'[q].pc = req[q].pc, req'[q].tries = req[q].tries, executed'[q] = executed[q]
  PROVE  GatesPassed(q)' /\ Counted(q)'
<1>1. /\ window[q].available => window'[q].available
      /\ window[q].permitted => window'[q].permitted
  BY WindowGrows
<1>2. GatesPassed(q)'
  BY <1>1 DEF GatesPassed, Calls, tool, caller
<1>3. Counted(q)'
  BY DEF Counted, At, Attempts, tool
<1> QED
  BY <1>2, <1>3

\* A request that advances.
LEMMA AdvanceKeeps ==
  ASSUME NEW r \in Request, GatesPassed(r), Counted(r), Observe, Advance(r),
         executed \in [Request -> Nat]
  PROVE  GatesPassed(r)' /\ Counted(r)'
<1>1. /\ window[r].available => window'[r].available
      /\ window[r].permitted => window'[r].permitted
      /\ Calls(r) /\ req'[r].pc # "idle" /\ tool(r) \in available => window'[r].available
      /\ Calls(r) /\ req'[r].pc # "idle" /\ Permitted(r) => window'[r].permitted
  BY WindowGrows
<1>2. Attempts(r) \in Nat /\ Attempts(r) > 0 /\ executed[r] \in Nat
  BY AttemptsSome
<1>3. Calls(r)' = Calls(r) /\ caller(r)' = caller(r) /\ Attempts(r)' = Attempts(r)
  BY DEF Calls, caller, Attempts, tool
<1>4. WorksAtMostOnce(r) => executed'[r] = executed[r] \/ executed'[r] = executed[r] + 1
  BY DEF WorksAtMostOnce, Work
<1>5. CASE req'[r].pc \in {"list", "respond", "commit", "ended"} /\ executed' = executed
  <2>1. GatesPassed(r)'
    BY <1>1, <1>3, <1>5 DEF GatesPassed, AtGates, InCall, InSession
  <2>2. Counted(r)'
    BY <1>2, <1>3, <1>5 DEF Counted, AtGates, InSession, At
  <2> QED
    BY <2>1, <2>2
<1>6. CASE At(r, "idle") /\ req'[r].pc = "scope" /\ req'[r].tries = 0 /\ executed' = executed
  <2>1. executed'[r] = 0
    BY <1>6 DEF Counted, At
  <2>2. GatesPassed(r)'
    BY <1>3, <1>6, <2>1 DEF GatesPassed, AtGates, InCall, InSession
  <2>3. Counted(r)'
    BY <1>2, <1>3, <1>6, <2>1 DEF Counted, AtGates, InSession, At
  <2> QED
    BY <2>2, <2>3
<1>7. ASSUME NEW from \in {"scope", "call", "rest"} \cup AtGates \cup InSession,
             NEW to \in {"scope", "call", "rest", "send"} \cup AtGates \cup InSession,
             Goes(r, from, to), executed' = executed
      PROVE  Counted(r)' /\ executed'[r] = 0
  <2>1. executed'[r] = 0 /\ req'[r].tries = 0 /\ req'[r].pc = to
    BY <1>7 DEF Counted, Goes
  <2> QED
    BY <1>2, <1>3, <2>1 DEF Counted, At
<1>8. CASE Goes(r, "scope", "policy") /\ Calls(r) /\ caller(r) \in CanExecute /\ executed' = executed
  <2>1. Counted(r)' /\ executed'[r] = 0
    BY <1>7, <1>8 DEF AtGates
  <2>2. GatesPassed(r)'
    BY <1>3, <1>8, <2>1 DEF GatesPassed, Goes, AtGates, InCall, InSession
  <2> QED
    BY <2>1, <2>2
<1>9. CASE Goes(r, "scope", "session") /\ ~Calls(r) /\ executed' = executed
  <2>1. Counted(r)' /\ executed'[r] = 0
    BY <1>7, <1>9 DEF InSession
  <2>2. GatesPassed(r)'
    BY <1>3, <1>9, <2>1 DEF GatesPassed, Goes, AtGates, InCall, InSession
  <2> QED
    BY <2>1, <2>2
<1>10. CASE Goes(r, "policy", "limit") /\ Permitted(r) /\ executed' = executed
  <2>1. Counted(r)' /\ executed'[r] = 0
    BY <1>7, <1>10 DEF AtGates
  <2>2. Calls(r) /\ caller(r) \in CanExecute
    BY <1>10 DEF GatesPassed, Goes, AtGates
  <2>3. GatesPassed(r)'
    BY <1>1, <1>3, <1>10, <2>1, <2>2 DEF GatesPassed, Goes, AtGates, InCall, InSession
  <2> QED
    BY <2>1, <2>3
<1>11. CASE Goes(r, "limit", "resolve") /\ executed' = executed
  <2>1. Counted(r)' /\ executed'[r] = 0
    BY <1>7, <1>11 DEF AtGates
  <2>2. Calls(r) /\ caller(r) \in CanExecute /\ window[r].permitted
    BY <1>11 DEF GatesPassed, Goes, AtGates
  <2>3. GatesPassed(r)'
    BY <1>1, <1>3, <1>11, <2>1, <2>2 DEF GatesPassed, Goes, AtGates, InCall, InSession
  <2> QED
    BY <2>1, <2>3
<1>12. CASE /\ Goes(r, "resolve", "rest") \/ Goes(r, "resolve", "session")
            /\ tool(r) \in available /\ executed' = executed
  <2>1. Counted(r)' /\ executed'[r] = 0
    BY <1>7, <1>12 DEF AtGates, InSession
  <2>2. Calls(r) /\ caller(r) \in CanExecute /\ window[r].permitted
    BY <1>12 DEF GatesPassed, Goes, AtGates
  <2>3. window'[r].available
    BY <1>1, <1>12, <2>2 DEF Goes
  <2>4. GatesPassed(r)'
    BY <1>1, <1>3, <2>1, <2>2, <2>3 DEF GatesPassed
  <2> QED
    BY <2>1, <2>4
<1>13. ASSUME NEW from \in InSession, NEW to \in InSession \cup {"call"},
              Goes(r, from, to), to = "call" => Calls(r), executed' = executed
       PROVE  GatesPassed(r)' /\ Counted(r)'
  <2>1. Counted(r)' /\ executed'[r] = 0
    BY <1>7, <1>13 DEF AtGates
  <2>2. Calls(r) => caller(r) \in CanExecute /\ window[r].permitted /\ window[r].available
    BY <1>13 DEF GatesPassed, Goes
  <2>3. to \in AtGates \cup InCall => Calls(r)
    BY <1>13 DEF AtGates, InCall, InSession
  <2>4. GatesPassed(r)'
    BY <1>1, <1>3, <1>13, <2>1, <2>2, <2>3 DEF GatesPassed, Goes
  <2> QED
    BY <2>1, <2>4
<1>14. CASE Goes(r, "rest", "send") /\ executed' = executed
  <2>1. Counted(r)' /\ executed'[r] = 0
    BY <1>7, <1>14
  <2>2. Calls(r) /\ caller(r) \in CanExecute /\ window[r].permitted /\ window[r].available
    BY <1>14 DEF GatesPassed, Goes, InCall
  <2>3. GatesPassed(r)'
    BY <1>1, <1>3, <2>1, <2>2 DEF GatesPassed
  <2> QED
    BY <2>1, <2>3
<1>15. CASE /\ req[r].pc \in {"call", "send"} /\ req'[r].pc \in {"respond", "ended"}
            /\ WorksAtMostOnce(r)
  <2>1. caller(r) \in CanExecute /\ window[r].permitted /\ window[r].available
    BY <1>15 DEF GatesPassed, InCall
  <2>2. GatesPassed(r)'
    BY <1>1, <1>3, <1>15, <2>1 DEF GatesPassed, AtGates, InCall, InSession
  <2>3. executed[r] < Attempts(r) \/ executed'[r] = executed[r]
    <3>1. CASE req[r].pc = "call"
      BY <1>2, <3>1 DEF Counted
    <3>2. CASE req[r].pc = "send"
      BY <1>2, <3>2 DEF Counted, At
    <3> QED
      BY <1>15, <3>1, <3>2
  <2>4. executed'[r] <= Attempts(r)
    BY <1>2, <1>4, <1>15, <2>3 DEF Counted
  <2>5. Counted(r)'
    BY <1>3, <1>15, <2>4 DEF Counted, AtGates, InSession, At
  <2> QED
    BY <2>2, <2>5
<1>16. CASE /\ At(r, "send") /\ req'[r].pc = "send" /\ req'[r].tries = req[r].tries + 1
            /\ req[r].tries + 1 < Attempts(r) /\ WorksAtMostOnce(r)
  <2>1. Calls(r) /\ caller(r) \in CanExecute /\ window[r].permitted /\ window[r].available
    BY <1>16 DEF GatesPassed, InCall, At
  <2>2. GatesPassed(r)'
    BY <1>1, <1>3, <2>1 DEF GatesPassed
  <2>3. req[r].tries \in Nat /\ executed[r] <= req[r].tries
    BY <1>16 DEF Counted
  <2>4. executed'[r] <= req'[r].tries /\ req'[r].tries \in Nat /\ req'[r].tries < Attempts(r)
    BY <1>2, <1>4, <1>16, <2>3
  <2>5. executed'[r] \in Nat
    BY <1>2, <1>4, <1>16
  <2>6. executed'[r] <= Attempts(r)
    BY <1>2, <2>4, <2>5
  <2>7. Counted(r)'
    BY <1>3, <1>16, <2>4, <2>6 DEF Counted, AtGates, InSession, At
  <2> QED
    BY <2>2, <2>7
<1> QED
  BY <1>5, <1>6, <1>8, <1>9, <1>10, <1>11, <1>12, <1>13, <1>14, <1>15, <1>16 DEF Advance

\* A step of a request keeps the invariant.
LEMMA GateStep ==
  ASSUME GateInv, NEW r \in Request, Observe, RequestsShaped', Advance(r), OthersStay(r)
  PROVE  GateInv'
<1>1. GatesPassed(r)' /\ Counted(r)'
  BY AdvanceKeeps DEF GateInv
<1>2. executed' = executed \/ Work(r)
  BY DEF Advance, WorksAtMostOnce
<1>3. executed' \in [Request -> Nat] /\ \A q \in Request \ {r} : executed'[q] = executed[q]
  BY <1>2 DEF Work, GateInv
<1>4. ASSUME NEW q \in Request \ {r}
      PROVE  GatesPassed(q)' /\ Counted(q)'
  BY <1>3, RequestKeeps DEF GateInv, OthersStay
<1> QED
  BY <1>1, <1>3, <1>4 DEF GateInv

\* The invariant of the gates holds at the start.
LEMMA GateInit == Init => GateInv
<1> SUFFICES ASSUME Init PROVE GateInv
  OBVIOUS
<1>1. Shaped(Fresh)
  BY DEF Fresh, Shaped
<1>2. RequestsShaped
  BY <1>1 DEF Init, RequestsShaped
<1>3. executed \in [Request -> Nat] /\ \A r \in Request : executed[r] = 0 /\ req[r].pc = "idle"
  BY DEF Init, Fresh
<1>4. ASSUME NEW r \in Request PROVE GatesPassed(r) /\ Counted(r)
  <2>1. GatesPassed(r)
    BY <1>3 DEF GatesPassed, AtGates, InCall, InSession
  <2>2. Counted(r)
    BY <1>3, AttemptsSome DEF Counted, AtGates, InSession, At
  <2> QED
    BY <2>1, <2>2
<1> QED
  BY <1>2, <1>3, <1>4 DEF GateInv

\* It is inductive.
LEMMA GateNext == GateInv /\ [Next]_vars => GateInv'
<1> SUFFICES ASSUME GateInv, [Next]_vars PROVE GateInv'
  OBVIOUS
<1>1. RequestsShaped
  BY DEF GateInv
<1>2. CASE Next
  <2>1. Observe
    BY <1>2 DEF Next
  <2>2. ASSUME NEW r \in Request, Arrive(r) PROVE GateInv'
    BY <1>1, <2>1, <2>2, ArriveAdvances, GateStep
  <2>3. ASSUME NEW r \in Request, Step(r) PROVE GateInv'
    <3>1. RequestsShaped' /\ Advance(r) /\ OthersStay(r)
      <4>1. CASE Respond(r) \/ Commit(r)
        BY <1>1, <4>1, EndsAdvance
      <4>2. CASE \/ Scope(r) \/ ListTools(r) \/ Policies(r) \/ Limit(r) \/ Resolve(r) \/ Refuse(r)
                 \/ MissSession(r) \/ InsertFails(r) \/ BreakDeadlock(r)
                 \/ RestRefused(r) \/ RestReady(r)
        BY <1>1, <4>2, GatesAdvance
      <4>3. CASE LoadSession(r) \/ InsertSession(r) \/ Probe(r) \/ Report(r) \/ Record(r)
        BY <1>1, <4>3, SessionsAdvance
      <4>4. CASE CallServer(r) \/ CallServerFails(r) \/ SendRest(r) \/ SendRestFails(r)
        BY <1>1, <4>4, CallsAdvance
      <4> QED
        BY <2>3, <4>1, <4>2, <4>3, <4>4 DEF Step
    <3> QED
      BY <2>1, <3>1, GateStep
  <2>4. CASE External
    <3>1. req' = req /\ executed' = executed
      BY <2>4 DEF External, ChangeAvailable, ChangePolicies, Stop, Restart, Change
    <3>2. RequestsShaped'
      BY <1>1, <3>1 DEF RequestsShaped, Shaped
    <3>3. \A r \in Request : GatesPassed(r)' /\ Counted(r)'
      BY <2>1, <3>1, RequestKeeps DEF GateInv
    <3> QED
      BY <3>1, <3>2, <3>3 DEF GateInv
  <2> QED
    BY <1>2, <2>2, <2>3, <2>4 DEF Next
<1>3. CASE UNCHANGED vars
  BY <1>3 DEF vars, world, GateInv, RequestsShaped, Shaped, GatesPassed, Counted, At, Calls,
     caller, tool, Attempts
<1> QED
  BY <1>2, <1>3

-----------------------------------------------------------------------------

\* A target works only for a request whose caller may execute tools, and whose
\* tool was available and policy permitted at some time while the request was in
\* progress (mcp_gateway, the order of its gates and of the call).
THEOREM CalledThroughTheGates == Spec => []CalledWasOpen
<1>1. GateInv => CalledWasOpen
  BY DEF GateInv, GatesPassed, CalledWasOpen
<1> QED
  BY <1>1, GateInit, GateNext, PTL DEF Spec

\* A target works at most once for a request, one called with GET at most
\* max_attempts times, wherever answers are lost (McpClient.call_tool,
\* RestExecutor.execute).
THEOREM CalledNoMoreThanTried == Spec => []CalledOnce
<1>1. GateInv => CalledOnce
  BY DEF GateInv, Counted, Attempts, CalledOnce
<1> QED
  BY <1>1, GateInit, GateNext, PTL DEF Spec

-----------------------------------------------------------------------------
\* Sessions, rows and replies.

\* What a request holds, but for its tries and the servers it found unreachable.
Is(record, pc, agenda, session, written, reply, crowded) ==
  /\ Shaped(record)
  /\ record.pc = pc /\ record.agenda = agenda /\ record.session = session
  /\ record.written = written /\ record.reply = reply /\ record.crowded = crowded

\* A change of one field.
LEMMA IsField ==
  ASSUME NEW record, NEW pc, NEW agenda, NEW session, NEW written, NEW reply, NEW crowded,
         Is(record, pc, agenda, session, written, reply, crowded), NEW v
  PROVE  /\ Is([record EXCEPT !.pc = v], v, agenda, session, written, reply, crowded)
         /\ Is([record EXCEPT !.tries = v], pc, agenda, session, written, reply, crowded)
         /\ Is([record EXCEPT !.agenda = v], pc, v, session, written, reply, crowded)
         /\ Is([record EXCEPT !.session = v], pc, agenda, v, written, reply, crowded)
         /\ Is([record EXCEPT !.written = v], pc, agenda, session, v, reply, crowded)
         /\ Is([record EXCEPT !.down = v], pc, agenda, session, written, reply, crowded)
         /\ Is([record EXCEPT !.reply = v], pc, agenda, session, written, v, crowded)
         /\ Is([record EXCEPT !.crowded = v], pc, agenda, session, written, reply, v)
<1>1. Is([record EXCEPT !.pc = v], v, agenda, session, written, reply, crowded)
  BY DEF Is, Shaped
<1>2. Is([record EXCEPT !.tries = v], pc, agenda, session, written, reply, crowded)
  BY DEF Is, Shaped
<1>3. Is([record EXCEPT !.agenda = v], pc, v, session, written, reply, crowded)
  BY DEF Is, Shaped
<1>4. Is([record EXCEPT !.session = v], pc, agenda, v, written, reply, crowded)
  BY DEF Is, Shaped
<1>5. Is([record EXCEPT !.written = v], pc, agenda, session, v, reply, crowded)
  BY DEF Is, Shaped
<1>6. Is([record EXCEPT !.down = v], pc, agenda, session, written, reply, crowded)
  BY DEF Is, Shaped
<1>7. Is([record EXCEPT !.reply = v], pc, agenda, session, written, v, crowded)
  BY DEF Is, Shaped
<1>8. Is([record EXCEPT !.crowded = v], pc, agenda, session, written, reply, v)
  BY DEF Is, Shaped
<1> QED
  BY <1>1, <1>2, <1>3, <1>4, <1>5, <1>6, <1>7, <1>8

\* A change of two.
LEMMA IsFields ==
  ASSUME NEW record, NEW pc, NEW agenda, NEW session, NEW written, NEW reply, NEW crowded,
         Is(record, pc, agenda, session, written, reply, crowded), NEW v, NEW w
  PROVE  /\ Is([record EXCEPT !.pc = v, !.reply = w], v, agenda, session, written, w, crowded)
         /\ Is([record EXCEPT !.pc = v, !.written = w], v, agenda, session, w, reply, crowded)
         /\ Is([record EXCEPT !.pc = v, !.down = w], v, agenda, session, written, reply, crowded)
         /\ Is([record EXCEPT !.pc = v, !.crowded = w], v, agenda, session, written, reply, w)
         /\ Is([record EXCEPT !.session = v, !.agenda = w], pc, w, v, written, reply, crowded)
         /\ Is([record EXCEPT !.written = v, !.agenda = w], pc, w, session, v, reply, crowded)
         /\ Is([record EXCEPT !.session = v, !.written = w], pc, agenda, v, w, reply, crowded)
<1> DEFINE placed == [record EXCEPT !.pc = v]
           opened == [record EXCEPT !.session = v]
           locked == [record EXCEPT !.written = v]
<1>1. /\ Is(placed, v, agenda, session, written, reply, crowded)
      /\ Is(opened, pc, agenda, v, written, reply, crowded)
      /\ Is(locked, pc, agenda, session, v, reply, crowded)
  BY IsField
<1>2. /\ [record EXCEPT !.pc = v, !.reply = w] = [placed EXCEPT !.reply = w]
      /\ [record EXCEPT !.pc = v, !.written = w] = [placed EXCEPT !.written = w]
      /\ [record EXCEPT !.pc = v, !.down = w] = [placed EXCEPT !.down = w]
      /\ [record EXCEPT !.pc = v, !.crowded = w] = [placed EXCEPT !.crowded = w]
      /\ [record EXCEPT !.session = v, !.agenda = w] = [opened EXCEPT !.agenda = w]
      /\ [record EXCEPT !.written = v, !.agenda = w] = [locked EXCEPT !.agenda = w]
      /\ [record EXCEPT !.session = v, !.written = w] = [opened EXCEPT !.written = w]
  OBVIOUS
<1> HIDE DEF placed, opened, locked
<1>3. /\ Is([placed EXCEPT !.reply = w], v, agenda, session, written, w, crowded)
      /\ Is([placed EXCEPT !.written = w], v, agenda, session, w, reply, crowded)
      /\ Is([placed EXCEPT !.down = w], v, agenda, session, written, reply, crowded)
      /\ Is([placed EXCEPT !.crowded = w], v, agenda, session, written, reply, w)
  BY <1>1, IsField
<1>4. /\ Is([opened EXCEPT !.agenda = w], pc, w, v, written, reply, crowded)
      /\ Is([locked EXCEPT !.agenda = w], pc, w, session, v, reply, crowded)
      /\ Is([opened EXCEPT !.written = w], pc, agenda, v, w, reply, crowded)
  BY <1>1, IsField
<1> QED
  BY <1>2, <1>3, <1>4

\* To go on with an agenda: with its next server, the call, or the response.
GoesOn(record, r, agenda, session, written, reply, crowded) ==
  \/ agenda # <<>> /\ Is(record, "probe", agenda, session, written, reply, crowded)
  \/ agenda = <<>> /\ Calls(r) /\ Is(record, "call", agenda, session, written, reply, crowded)
  \/ agenda = <<>> /\ ~Calls(r) /\ Is(record, "respond", agenda, session, written, "result", crowded)

\* What Continue makes of a record with these fields.
LEMMA ContinueIs ==
  ASSUME NEW record, NEW pc, NEW agenda, NEW session, NEW written, NEW reply, NEW crowded,
         Is(record, pc, agenda, session, written, reply, crowded), NEW r
  PROVE  GoesOn(Continue(record, r), r, agenda, session, written, reply, crowded)
<1>1. record.agenda = agenda
  BY DEF Is
<1>2. CASE agenda # <<>>
  <2>1. Continue(record, r) = [record EXCEPT !.pc = "probe"]
    BY <1>1, <1>2 DEF Continue
  <2>2. Is([record EXCEPT !.pc = "probe"], "probe", agenda, session, written, reply, crowded)
    BY IsField
  <2> QED
    BY <1>2, <2>1, <2>2 DEF GoesOn
<1>3. CASE agenda = <<>> /\ Calls(r)
  <2>1. Continue(record, r) = [record EXCEPT !.pc = "call"]
    BY <1>1, <1>3 DEF Continue
  <2>2. Is([record EXCEPT !.pc = "call"], "call", agenda, session, written, reply, crowded)
    BY IsField
  <2> QED
    BY <1>3, <2>1, <2>2 DEF GoesOn
<1>4. CASE agenda = <<>> /\ ~Calls(r)
  <2>1. Continue(record, r) = [record EXCEPT !.pc = "respond", !.reply = "result"]
    BY <1>1, <1>4 DEF Continue
  <2>2. Is([record EXCEPT !.pc = "respond", !.reply = "result"],
           "respond", agenda, session, written, "result", crowded)
    BY IsFields
  <2> QED
    BY <1>4, <2>1, <2>2 DEF GoesOn
<1> QED
  BY <1>2, <1>3, <1>4

\* What the request becomes, when the others stay.
Becomes(r, pc, agenda, session, written, reply) ==
  /\ RequestsShaped'
  /\ \A q \in Request \ {r} : req'[q] = req[q]
  /\ Is(req'[r], pc, agenda, session, written, reply, req[r].crowded)

\* A record with these fields makes r become one.
LEMMA BecomesRecord ==
  ASSUME RequestsShaped, NEW r \in Request, NEW record,
         NEW pc, NEW agenda, NEW session, NEW written, NEW reply,
         Is(record, pc, agenda, session, written, reply, req[r].crowded),
         req' = [req EXCEPT ![r] = record]
  PROVE  Becomes(r, pc, agenda, session, written, reply)
<1>1. RequestsShaped' /\ req'[r] = record
  BY OneRequest DEF Is
<1>2. \A q \in Request \ {r} : req'[q] = req[q]
  BY DEF RequestsShaped
<1> QED
  BY <1>1, <1>2 DEF Becomes

\* It only goes elsewhere; it has its reply; it is thrown out; or it goes on with
\* its sessions.
Walks(r, place) == Becomes(r, place, req[r].agenda, req[r].session, req[r].written, req[r].reply)
Replies(r, status) == Becomes(r, "respond", req[r].agenda, req[r].session, req[r].written, status)
Throws(r, status) == Becomes(r, "ended", req[r].agenda, req[r].session, {}, status)

Continues(r, agenda, session, written) ==
  /\ RequestsShaped'
  /\ \A q \in Request \ {r} : req'[q] = req[q]
  /\ GoesOn(req'[r], r, agenda, session, written, req[r].reply, req[r].crowded)

\* The request as it is, moved, and thrown out.
LEMMA RequestIs ==
  ASSUME RequestsShaped, NEW r \in Request
  PROVE  /\ Is(req[r], req[r].pc, req[r].agenda, req[r].session, req[r].written, req[r].reply,
               req[r].crowded)
         /\ \A place : Is(Moved(r, place), place, req[r].agenda, req[r].session, req[r].written,
                          req[r].reply, req[r].crowded)
         /\ \A status : Is([Moved(r, "respond") EXCEPT !.reply = status], "respond", req[r].agenda,
                           req[r].session, req[r].written, status, req[r].crowded)
         /\ \A status : Is(Raised(r, status), "ended", req[r].agenda, req[r].session, {}, status,
                           req[r].crowded)
<1>1. Is(req[r], req[r].pc, req[r].agenda, req[r].session, req[r].written, req[r].reply, req[r].crowded)
  BY DEF RequestsShaped, Is
<1>2. ASSUME NEW place
      PROVE  Is(Moved(r, place), place, req[r].agenda, req[r].session, req[r].written, req[r].reply,
                req[r].crowded)
  BY <1>1, IsField DEF Moved
<1>3. ASSUME NEW status
      PROVE  Is([Moved(r, "respond") EXCEPT !.reply = status], "respond", req[r].agenda,
                req[r].session, req[r].written, status, req[r].crowded)
  BY <1>2, IsField
<1>4. ASSUME NEW status
      PROVE  Is(Raised(r, status), "ended", req[r].agenda, req[r].session, {}, status, req[r].crowded)
  <2> DEFINE over == [req[r] EXCEPT !.pc = "ended", !.written = {}]
  <2>1. Is(over, "ended", req[r].agenda, req[r].session, {}, req[r].reply, req[r].crowded)
    BY <1>1, IsFields
  <2>2. Raised(r, status) = [over EXCEPT !.reply = status]
    BY DEF Raised
  <2> HIDE DEF over
  <2>3. Is([over EXCEPT !.reply = status], "ended", req[r].agenda, req[r].session, {}, status,
           req[r].crowded)
    BY <2>1, IsField
  <2> QED
    BY <2>2, <2>3
<1> QED
  BY <1>1, <1>2, <1>3, <1>4

\* What the forms of the steps come to.
LEMMA Forms ==
  ASSUME RequestsShaped, NEW r \in Request
  PROVE  /\ \A place : req' = [req EXCEPT ![r] = Moved(r, place)] => Walks(r, place)
         /\ \A status : req' = [req EXCEPT ![r] = [Moved(r, "respond") EXCEPT !.reply = status]]
                          => Replies(r, status)
         /\ \A status : req' = [req EXCEPT ![r] = Raised(r, status)] => Throws(r, status)
<1>1. ASSUME NEW place, req' = [req EXCEPT ![r] = Moved(r, place)] PROVE Walks(r, place)
  <2>1. PICK record : record = Moved(r, place)
    OBVIOUS
  <2>2. /\ Is(record, place, req[r].agenda, req[r].session, req[r].written, req[r].reply, req[r].crowded)
        /\ req' = [req EXCEPT ![r] = record]
    BY <1>1, <2>1, RequestIs
  <2> QED
    BY <2>2, BecomesRecord DEF Walks
<1>2. ASSUME NEW status, req' = [req EXCEPT ![r] = [Moved(r, "respond") EXCEPT !.reply = status]]
      PROVE  Replies(r, status)
  <2>1. PICK record : record = [Moved(r, "respond") EXCEPT !.reply = status]
    OBVIOUS
  <2>2. /\ Is(record, "respond", req[r].agenda, req[r].session, req[r].written, status, req[r].crowded)
        /\ req' = [req EXCEPT ![r] = record]
    BY <1>2, <2>1, RequestIs
  <2> QED
    BY <2>2, BecomesRecord DEF Replies
<1>3. ASSUME NEW status, req' = [req EXCEPT ![r] = Raised(r, status)] PROVE Throws(r, status)
  <2>1. PICK record : record = Raised(r, status)
    OBVIOUS
  <2>2. /\ Is(record, "ended", req[r].agenda, req[r].session, {}, status, req[r].crowded)
        /\ req' = [req EXCEPT ![r] = record]
    BY <1>3, <2>1, RequestIs
  <2> QED
    BY <2>2, BecomesRecord DEF Throws
<1> QED
  BY <1>1, <1>2, <1>3

\* To go on with a record.
LEMMA ContinueForm ==
  ASSUME RequestsShaped, NEW r \in Request, NEW record, NEW pc, NEW agenda, NEW session, NEW written,
         Is(record, pc, agenda, session, written, req[r].reply, req[r].crowded),
         req' = [req EXCEPT ![r] = Continue(record, r)]
  PROVE  Continues(r, agenda, session, written)
<1>1. PICK next : next = Continue(record, r)
  OBVIOUS
<1>2. /\ GoesOn(next, r, agenda, session, written, req[r].reply, req[r].crowded)
      /\ req' = [req EXCEPT ![r] = next]
  BY <1>1, ContinueIs
<1>3. Shaped(next)
  BY <1>2 DEF GoesOn, Is
<1>4. RequestsShaped' /\ req'[r] = next
  BY <1>2, <1>3, OneRequest
<1>5. \A q \in Request \ {r} : req'[q] = req[q]
  BY <1>2 DEF RequestsShaped
<1> QED
  BY <1>2, <1>4, <1>5 DEF Continues

\* The steps that look for the session and probe servers.
LEMMA LoadForm ==
  ASSUME RequestsShaped, NEW r \in Request, LoadSession(r)
  PROVE  \E agenda \in Agendas(r, sessions[client(r)]) :
           Continues(r, agenda, sessions[client(r)], req[r].written)
<1>1. PICK agenda \in Agendas(r, sessions[client(r)]) :
        req' = [req EXCEPT ![r] =
                  Continue([req[r] EXCEPT !.session = sessions[client(r)], !.agenda = agenda], r)]
  BY DEF LoadSession, Go
<1>2. PICK held : held = sessions[client(r)]
  OBVIOUS
<1>3. PICK record : record = [req[r] EXCEPT !.session = held, !.agenda = agenda]
  OBVIOUS
<1>4. Is(record, req[r].pc, agenda, held, req[r].written, req[r].reply, req[r].crowded)
  BY <1>3, RequestIs, IsFields
<1>5. req' = [req EXCEPT ![r] = Continue(record, r)]
  BY <1>1, <1>2, <1>3
<1> QED
  BY <1>1, <1>2, <1>4, <1>5, ContinueForm

\* What InsertSession makes of a request.
LEMMA InsertForm ==
  ASSUME RequestsShaped, NEW r \in Request, InsertSession(r)
  PROVE  \E agenda \in Agendas(r, NoSessions) :
           Continues(r, agenda, req[r].session, {client(r)})
<1>1. PICK agenda \in Agendas(r, NoSessions) :
        req' = [req EXCEPT ![r] =
                  Continue([req[r] EXCEPT !.written = {client(r)}, !.agenda = agenda], r)]
  BY DEF InsertSession, Go
<1>2. PICK rows1 : rows1 = {client(r)}
  OBVIOUS
<1>3. PICK record : record = [req[r] EXCEPT !.written = rows1, !.agenda = agenda]
  OBVIOUS
<1>4. Is(record, req[r].pc, agenda, req[r].session, rows1, req[r].reply, req[r].crowded)
  BY <1>3, RequestIs, IsFields
<1>5. req' = [req EXCEPT ![r] = Continue(record, r)]
  BY <1>1, <1>2, <1>3
<1> QED
  BY <1>1, <1>2, <1>4, <1>5, ContinueForm

\* What Report makes of a request.
LEMMA ReportForm ==
  ASSUME RequestsShaped, NEW r \in Request, Report(r)
  PROVE  LET s == Head(req[r].agenda)
             written == req[r].written \cup {s}
         IN  /\ Free(r, s)
             /\ \/ Becomes(r, "record", req[r].agenda, req[r].session, written, req[r].reply)
                \/ /\ Calls(r)
                   /\ Becomes(r, "respond", req[r].agenda, req[r].session, written, "unreachable")
                \/ ~Calls(r) /\ Continues(r, Tail(req[r].agenda), req[r].session, written)
<1> DEFINE s == Head(req[r].agenda)
           written == req[r].written \cup {s}
           rest == Tail(req[r].agenda)
           reported == [req[r] EXCEPT !.written = written]
<1>1. Free(r, s)
  BY DEF Report
<1>2. \/ req' = [req EXCEPT ![r] = [reported EXCEPT !.pc = "record"]]
      \/ Calls(r) /\ req' = [req EXCEPT ![r] = [reported EXCEPT !.pc = "respond", !.reply = "unreachable"]]
      \/ ~Calls(r) /\ req' = [req EXCEPT ![r] =
                                Continue([reported EXCEPT !.agenda = Tail(reported.agenda)], r)]
  BY DEF Report, Go
<1> HIDE DEF written
<1>3. Is(reported, req[r].pc, req[r].agenda, req[r].session, written, req[r].reply, req[r].crowded)
  BY RequestIs, IsField
<1> HIDE DEF reported
<1>4. CASE req' = [req EXCEPT ![r] = [reported EXCEPT !.pc = "record"]]
  <2>1. PICK record : record = [reported EXCEPT !.pc = "record"]
    OBVIOUS
  <2>2. /\ Is(record, "record", req[r].agenda, req[r].session, written, req[r].reply, req[r].crowded)
        /\ req' = [req EXCEPT ![r] = record]
    BY <1>3, <1>4, <2>1, IsField
  <2>3. Becomes(r, "record", req[r].agenda, req[r].session, written, req[r].reply)
    BY <2>2, BecomesRecord
  <2> QED
    BY <1>1, <2>3 DEF written
<1>5. CASE Calls(r) /\ req' = [req EXCEPT ![r] = [reported EXCEPT !.pc = "respond", !.reply = "unreachable"]]
  <2>1. PICK record : record = [reported EXCEPT !.pc = "respond", !.reply = "unreachable"]
    OBVIOUS
  <2>2. /\ Is(record, "respond", req[r].agenda, req[r].session, written, "unreachable", req[r].crowded)
        /\ req' = [req EXCEPT ![r] = record]
    BY <1>3, <1>5, <2>1, IsFields
  <2>3. Becomes(r, "respond", req[r].agenda, req[r].session, written, "unreachable")
    BY <2>2, BecomesRecord
  <2> QED
    BY <1>1, <1>5, <2>3 DEF written
<1>6. CASE ~Calls(r) /\ req' = [req EXCEPT ![r] =
                                  Continue([reported EXCEPT !.agenda = Tail(reported.agenda)], r)]
  <2>1. PICK record : record = [reported EXCEPT !.agenda = rest]
    OBVIOUS
  <2>2. reported.agenda = req[r].agenda
    BY <1>3 DEF Is
  <2>3. /\ Is(record, req[r].pc, rest, req[r].session, written, req[r].reply, req[r].crowded)
        /\ req' = [req EXCEPT ![r] = Continue(record, r)]
    BY <1>3, <1>6, <2>1, <2>2, IsField
  <2>4. Continues(r, rest, req[r].session, written)
    BY <2>3, ContinueForm
  <2> QED
    BY <1>1, <1>6, <2>4 DEF written
<1> QED
  BY <1>2, <1>4, <1>5, <1>6

\* What Record makes of a request.
LEMMA RecordForm ==
  ASSUME RequestsShaped, NEW r \in Request, Record(r)
  PROVE  LET s == Head(req[r].agenda)
             rest == Tail(req[r].agenda)
         IN  \/ s \notin Stateful /\ Continues(r, rest, req[r].session, req[r].written)
             \/ /\ s \in Stateful /\ Free(r, client(r))
                /\ Continues(r, rest, [req[r].session EXCEPT ![s] = r], req[r].written \cup {client(r)})
<1> DEFINE s == Head(req[r].agenda)
           rest == Tail(req[r].agenda)
           done == [req[r] EXCEPT !.agenda = rest]
           held == [done.session EXCEPT ![s] = r]
           written == done.written \cup {client(r)}
<1>1. Is(req[r], req[r].pc, req[r].agenda, req[r].session, req[r].written, req[r].reply, req[r].crowded)
  BY RequestIs
<1>2. \/ s \notin Stateful /\ req' = [req EXCEPT ![r] = Continue(done, r)]
      \/ /\ s \in Stateful /\ Free(r, client(r))
         /\ req' = [req EXCEPT ![r] = Continue([done EXCEPT !.session = held, !.written = written], r)]
  BY DEF Record, Go
<1> HIDE DEF rest
<1>3. Is(done, req[r].pc, rest, req[r].session, req[r].written, req[r].reply, req[r].crowded)
  BY <1>1, IsField
<1> HIDE DEF done
<1>4. held = [req[r].session EXCEPT ![s] = r] /\ written = req[r].written \cup {client(r)}
  BY <1>3 DEF Is
<1> HIDE DEF held, written, s
<1>5. CASE s \notin Stateful /\ req' = [req EXCEPT ![r] = Continue(done, r)]
  <2>1. Continues(r, rest, req[r].session, req[r].written)
    BY <1>3, <1>5, ContinueForm
  <2> QED
    BY <1>5, <2>1 DEF rest, s
<1>6. CASE /\ s \in Stateful /\ Free(r, client(r))
           /\ req' = [req EXCEPT ![r] = Continue([done EXCEPT !.session = held, !.written = written], r)]
  <2>1. PICK record : record = [done EXCEPT !.session = held, !.written = written]
    OBVIOUS
  <2>2. /\ Is(record, req[r].pc, rest, held, written, req[r].reply, req[r].crowded)
        /\ req' = [req EXCEPT ![r] = Continue(record, r)]
    BY <1>3, <1>6, <2>1, IsFields
  <2>3. Continues(r, rest, held, written)
    BY <2>2, ContinueForm
  <2> QED
    BY <1>4, <1>6, <2>3 DEF rest, s
<1> QED
  BY <1>2, <1>5, <1>6

-----------------------------------------------------------------------------
\* The invariant of the sessions.

\* What fits a request at a place, whatever the others do.
Fit(r, pc, agenda, session, written, reply) ==
  /\ agenda \in Seq(Server) /\ session \in SessionMap
  /\ \A s \in Server \ Stateful : session[s] = NoSession
  /\ written \subseteq Server \cup {client(r)}
  /\ pc \in {"probe", "report", "record"} => agenda # <<>>
  /\ pc \in {"respond", "commit"} => reply \in Status /\ (Calls(r) \/ reply = "result")
  /\ pc \notin {"respond", "commit", "ended"} => reply = NoReply
  /\ pc \in {"idle", "ended"} => written = {}
  /\ pc = "list" => ~Calls(r)
  /\ Calls(r) /\ pc \in InSession \cup {"call"} => tool(r) \in McpTool
  /\ Ask[r].method = "tools/list" =>
       /\ pc \in {"idle", "scope", "list", "respond", "commit", "ended"}
       /\ client(r) \notin written

RecordFits(r, record) ==
  /\ Fit(r, record.pc, record.agenda, record.session, record.written, record.reply)
  /\ record.crowded \in BOOLEAN

\* A session that has what the client's last call used.
Agrees(c, session) == \A s \in Server : used[c][s] # NoSession => session[s] = used[c][s]

\* Before it has looked for its session.
Unloaded == {"scope", "list", "policy", "limit", "resolve", "session", "insert", "rest", "send"}

\* What a request holds while no other of its client is in progress: its session
\* is the committed one, or it has written it; a call has kept what its client
\* used last, and asks a server for a session only where there was none.
Holds(r, pc, agenda, session, written) ==
  /\ \/ client(r) \in written \/ session = NoSessions
     \/ Known(client(r)) /\ session = sessions[client(r)]
  /\ Calls(r) /\ (pc \in {"probe", "report", "record", "call"} \/ client(r) \in written)
       => Agrees(client(r), session)
  /\ Calls(r) /\ pc \in {"probe", "report", "record"}
       => agenda = <<target(r)>> /\ session[target(r)] = NoSession
  /\ pc \in Unloaded => session = NoSessions /\ client(r) \notin written

RecordHolds(r, record) ==
  Open(r) /\ ~record.crowded => Holds(r, record.pc, record.agenda, record.session, record.written)

\* Requests of one client know of each other, and no two hold the same row.
Together ==
  \A r, q \in Request : r # q =>
    /\ Open(r) /\ Open(q) /\ client(r) = client(q) => req[r].crowded
    /\ req[r].written \cap req[q].written = {}

\* What a client used last is what is committed.
UsedIsCommitted ==
  /\ sessions \in [Client -> SessionMap \cup {NoReply}]
  /\ used \in [Client -> SessionMap]
  /\ \A c \in Client : Known(c) => \A s \in Server \ Stateful : sessions[c][s] = NoSession
  /\ \A c \in Client, s \in Server :
       used[c][s] # NoSession => Known(c) /\ sessions[c][s] = used[c][s]

SessionInv ==
  /\ RequestsShaped
  /\ \A r \in Request : RecordFits(r, req[r]) /\ RecordHolds(r, req[r])
  /\ Together
  /\ UsedIsCommitted

\* A step of a request that commits nothing.
LEMMA QuietStep ==
  ASSUME SessionInv, NEW r \in Request, Open(r), sessions' = sessions, used' = used,
         NEW pc, NEW agenda, NEW session, NEW written, NEW reply,
         Becomes(r, pc, agenda, session, written, reply), pc # "idle",
         Fit(r, pc, agenda, session, written, reply),
         pc # "ended" /\ ~req[r].crowded => Holds(r, pc, agenda, session, written),
         \A row \in written \ req[r].written : Free(r, row)
  PROVE  SessionInv'
<1>1. /\ RequestsShaped' /\ \A q \in Request \ {r} : req'[q] = req[q]
      /\ req'[r].pc = pc /\ req'[r].agenda = agenda /\ req'[r].session = session
      /\ req'[r].written = written /\ req'[r].reply = reply /\ req'[r].crowded = req[r].crowded
  BY DEF Becomes, Is
<1>2. RecordFits(r, req[r])'
  BY <1>1 DEF SessionInv, RecordFits, Fit, Calls, client, tool
<1>3. \A q \in Request \ {r} : RecordFits(q, req[q])'
  BY <1>1 DEF SessionInv, RecordFits, Fit, Calls, client, tool
<1>4. RecordHolds(r, req[r])'
  BY <1>1 DEF RecordHolds, Holds, Agrees, Open, Known, Calls, client, target, tool
<1>5. \A q \in Request \ {r} : RecordHolds(q, req[q])'
  BY <1>1 DEF SessionInv, RecordHolds, Holds, Agrees, Open, Known, Calls, client, target, tool
<1>6. Together'
  <2>1. \A a, b \in Request : a # b /\ Open(a)' /\ Open(b)' /\ client(a) = client(b) => req'[a].crowded
    BY <1>1 DEF SessionInv, Together, Open
  <2>2. \A q \in Request \ {r} : written \cap req[q].written = {}
    <3> SUFFICES ASSUME NEW q \in Request \ {r}, NEW row \in written, row \in req[q].written
                 PROVE  FALSE
      OBVIOUS
    <3>1. row \notin req[r].written
      BY DEF SessionInv, Together
    <3>2. Open(q)
      BY DEF SessionInv, RecordFits, Fit, Open
    <3> QED
      BY <3>1, <3>2 DEF Free
  <2>3. \A a, b \in Request : a # b => req'[a].written \cap req'[b].written = {}
    BY <1>1, <2>2 DEF SessionInv, Together
  <2> QED
    BY <2>1, <2>3 DEF Together, client
<1>7. UsedIsCommitted'
  BY DEF SessionInv, UsedIsCommitted, Known
<1> QED
  BY <1>1, <1>2, <1>3, <1>4, <1>5, <1>6, <1>7 DEF SessionInv

\* A request that only goes elsewhere.
LEMMA WalkStep ==
  ASSUME SessionInv, NEW r \in Request, Open(r), sessions' = sessions, used' = used,
         NEW place, Walks(r, place), place # "idle",
         Fit(r, place, req[r].agenda, req[r].session, req[r].written, req[r].reply),
         place # "ended" /\ ~req[r].crowded
           => Holds(r, place, req[r].agenda, req[r].session, req[r].written)
  PROVE  SessionInv'
<1> DEFINE agenda == req[r].agenda
           session == req[r].session
           written == req[r].written
           reply == req[r].reply
<1>1. Becomes(r, place, agenda, session, written, reply)
  BY DEF Walks
<1>2. \A row \in written \ req[r].written : Free(r, row)
  OBVIOUS
<1> HIDE DEF agenda, session, written, reply
<1>3. /\ Fit(r, place, agenda, session, written, reply)
      /\ place # "ended" /\ ~req[r].crowded => Holds(r, place, agenda, session, written)
  BY DEF agenda, session, written, reply
<1> QED
  BY <1>1, <1>2, <1>3, QuietStep

\* A request that is thrown out has given up its rows.
LEMMA ThrownStep ==
  ASSUME SessionInv, NEW r \in Request, Open(r), sessions' = sessions, used' = used,
         NEW status, Throws(r, status)
  PROVE  SessionInv'
<1> DEFINE agenda == req[r].agenda
           session == req[r].session
<1>1. Becomes(r, "ended", agenda, session, {}, status)
  BY DEF Throws
<1>2. Fit(r, "ended", agenda, session, {}, status)
  BY DEF SessionInv, RecordFits, Fit, InSession
<1> HIDE DEF agenda, session
<1> QED
  BY <1>1, <1>2, QuietStep

\* A request that has its reply.
LEMMA ReplyStep ==
  ASSUME SessionInv, NEW r \in Request, Open(r), sessions' = sessions, used' = used,
         NEW status, Replies(r, status),
         status \in Status, Calls(r) \/ status = "result"
  PROVE  SessionInv'
<1> DEFINE agenda == req[r].agenda
           session == req[r].session
           written == req[r].written
<1>1. Becomes(r, "respond", agenda, session, written, status)
  BY DEF Replies
<1>2. Fit(r, "respond", agenda, session, written, status)
  BY DEF SessionInv, RecordFits, Fit, InSession
<1>3. ~req[r].crowded => Holds(r, "respond", agenda, session, written)
  BY DEF SessionInv, RecordHolds, Holds, Unloaded
<1>4. \A row \in written \ req[r].written : Free(r, row)
  OBVIOUS
<1> HIDE DEF agenda, session, written
<1> QED
  BY <1>1, <1>2, <1>3, <1>4, QuietStep

\* A request that goes on with its sessions.
LEMMA ContinueStep ==
  ASSUME SessionInv, NEW r \in Request, Open(r), sessions' = sessions, used' = used,
         NEW agenda, NEW session, NEW written, Continues(r, agenda, session, written),
         req[r].pc \in InSession,
         Fit(r, "session", agenda, session, written, req[r].reply),
         ~req[r].crowded =>
           /\ \/ client(r) \in written \/ session = NoSessions
              \/ Known(client(r)) /\ session = sessions[client(r)]
           /\ Calls(r) => Agrees(client(r), session)
           /\ Calls(r) /\ agenda # <<>> => agenda = <<target(r)>> /\ session[target(r)] = NoSession,
         \A row \in written \ req[r].written : Free(r, row)
  PROVE  SessionInv'
<1>1. PICK place, reply :
        /\ Becomes(r, place, agenda, session, written, reply)
        /\ \/ place = "probe" /\ agenda # <<>> /\ reply = req[r].reply
           \/ place = "call" /\ Calls(r) /\ reply = req[r].reply
           \/ place = "respond" /\ ~Calls(r) /\ reply = "result"
  BY DEF Continues, GoesOn, Becomes
<1>2. Fit(r, place, agenda, session, written, reply)
  BY <1>1 DEF SessionInv, RecordFits, Fit, InSession, Status
<1>3. ~req[r].crowded => Holds(r, place, agenda, session, written)
  BY <1>1 DEF Holds, Unloaded
<1>4. place # "idle"
  BY <1>1
<1> QED
  BY <1>1, <1>2, <1>3, <1>4, QuietStep

\* The orders of the servers are sequences of them.
LEMMA OrdersTyped == Orders \subseteq Seq(Server)
<1>1. Cardinality(Server) \in Nat
  BY GatewayAssumption, FS_CardinalityType DEF GatewayAssumption
<1>2. ASSUME NEW q \in [1 .. Cardinality(Server) -> Server] PROVE q \in Seq(Server)
  BY <1>1, <1>2
<1> QED
  BY <1>2 DEF Orders

\* An agenda is a sequence of servers: for a call, of that of its tool at most,
\* and only if there is no session with it.
LEMMA AgendaFits ==
  ASSUME NEW r \in Request, NEW held \in SessionMap, NEW agenda \in Agendas(r, held),
         Calls(r) => tool(r) \in McpTool
  PROVE  /\ agenda \in Seq(Server)
         /\ Calls(r) /\ agenda # <<>> => agenda = <<target(r)>> /\ held[target(r)] = NoSession
<1>1. Calls(r) => target(r) \in Server
  BY GatewayAssumption DEF GatewayAssumption, target
<1>2. CASE ~Calls(r)
  BY <1>2, OrdersTyped DEF Agendas
<1>3. CASE Calls(r) /\ held[target(r)] = NoSession
  <2>1. agenda = <<target(r)>>
    BY <1>3 DEF Agendas
  <2> QED
    BY <1>1, <1>3, <2>1
<1>4. CASE Calls(r) /\ held[target(r)] # NoSession
  <2>1. agenda = <<>>
    BY <1>4 DEF Agendas
  <2> QED
    BY <2>1
<1> QED
  BY <1>2, <1>3, <1>4

\* A request looks its session up.
LEMMA LoadStep ==
  ASSUME SessionInv, NEW r \in Request, LoadSession(r)
  PROVE  SessionInv'
<1> DEFINE held == sessions[client(r)]
           written == req[r].written
<1>1. PICK agenda \in Agendas(r, held) : Continues(r, agenda, held, written)
  BY LoadForm DEF SessionInv
<1>2. /\ req[r].pc = "session" /\ Known(client(r)) /\ sessions' = sessions /\ used' = used
      /\ RecordFits(r, req[r]) /\ RecordHolds(r, req[r]) /\ UsedIsCommitted
  BY DEF LoadSession, At, Go, SessionInv
<1>3. client(r) \in Client
  BY GatewayAssumption DEF GatewayAssumption, client
<1>4. held \in SessionMap /\ \A s \in Server \ Stateful : held[s] = NoSession
  BY <1>2, <1>3 DEF UsedIsCommitted, Known
<1>5. Calls(r) => tool(r) \in McpTool
  BY <1>2 DEF RecordFits, Fit, InSession
<1>6. /\ agenda \in Seq(Server)
      /\ Calls(r) /\ agenda # <<>> => agenda = <<target(r)>> /\ held[target(r)] = NoSession
  <2> HIDE DEF held
  <2> QED
    BY <1>4, <1>5, AgendaFits
<1>7. Fit(r, "session", agenda, held, written, req[r].reply)
  BY <1>2, <1>4, <1>6 DEF RecordFits, Fit
<1>8. Agrees(client(r), held)
  BY <1>2, <1>3 DEF Agrees, UsedIsCommitted
<1>9. Open(r) /\ req[r].pc \in InSession
  BY <1>2 DEF Open, InSession
<1>10. \A row \in written \ req[r].written : Free(r, row)
  OBVIOUS
<1>11. \/ client(r) \in written \/ held = NoSessions
       \/ Known(client(r)) /\ held = sessions[client(r)]
  BY <1>2
<1> HIDE DEF held, written
<1> QED
  BY <1>1, <1>2, <1>6, <1>7, <1>8, <1>9, <1>10, <1>11, ContinueStep

\* A request inserts its session: nothing of its client was committed.
LEMMA InsertStep ==
  ASSUME SessionInv, NEW r \in Request, InsertSession(r)
  PROVE  SessionInv'
<1> DEFINE session == req[r].session
           written == {client(r)}
<1>1. PICK agenda \in Agendas(r, NoSessions) : Continues(r, agenda, session, written)
  BY InsertForm DEF SessionInv
<1>2. /\ req[r].pc = "insert" /\ ~Known(client(r)) /\ sessions' = sessions /\ used' = used
      /\ RecordFits(r, req[r]) /\ RecordHolds(r, req[r]) /\ UsedIsCommitted
      /\ Free(r, client(r))
  BY DEF InsertSession, At, Go, SessionInv
<1>3. client(r) \in Client
  BY GatewayAssumption DEF GatewayAssumption, client
<1>4. NoSessions \in SessionMap
  BY DEF NoSessions, SessionMap
<1>5. Calls(r) => tool(r) \in McpTool
  BY <1>2 DEF RecordFits, Fit, InSession
<1>6. /\ agenda \in Seq(Server)
      /\ Calls(r) /\ agenda # <<>> => agenda = <<target(r)>> /\ NoSessions[target(r)] = NoSession
  <2>1. PICK held \in SessionMap : held = NoSessions
    BY <1>4
  <2>2. agenda \in Agendas(r, held)
    BY <1>1, <2>1
  <2>3. /\ agenda \in Seq(Server)
        /\ Calls(r) /\ agenda # <<>> => agenda = <<target(r)>> /\ held[target(r)] = NoSession
    BY <1>5, <2>2, AgendaFits
  <2> QED
    BY <2>1, <2>3
<1>7. Fit(r, "session", agenda, session, written, req[r].reply)
  <2>1. written \subseteq Server \cup {client(r)} /\ Ask[r].method # "tools/list"
    BY <1>2 DEF RecordFits, Fit
  <2>2. /\ session \in SessionMap /\ req[r].reply = NoReply
        /\ \A s \in Server \ Stateful : session[s] = NoSession
    BY <1>2 DEF RecordFits, Fit
  <2> HIDE DEF session, written
  <2> QED
    BY <1>5, <1>6, <2>1, <2>2 DEF Fit
<1>8. Agrees(client(r), session)
  BY <1>2, <1>3 DEF Agrees, UsedIsCommitted
<1>9. Open(r) /\ req[r].pc \in InSession
  BY <1>2 DEF Open, InSession
<1>10. \A row \in written \ req[r].written : Free(r, row)
  BY <1>2
<1>11. ~req[r].crowded => session = NoSessions
  BY <1>2, <1>9 DEF RecordHolds, Holds, Unloaded
<1>12. client(r) \in written
  OBVIOUS
<1>13. ~req[r].crowded =>
         /\ \/ client(r) \in written \/ session = NoSessions
            \/ Known(client(r)) /\ session = sessions[client(r)]
         /\ Calls(r) => Agrees(client(r), session)
         /\ Calls(r) /\ agenda # <<>> => agenda = <<target(r)>> /\ session[target(r)] = NoSession
  BY <1>6, <1>8, <1>11, <1>12
<1> HIDE DEF session, written
<1> QED
  BY <1>1, <1>2, <1>7, <1>9, <1>10, <1>13, ContinueStep

\* A request has reported a server's health.
LEMMA ReportStep ==
  ASSUME SessionInv, NEW r \in Request, Report(r)
  PROVE  SessionInv'
<1> DEFINE agenda == req[r].agenda
           session == req[r].session
           s == Head(agenda)
           written == req[r].written \cup {s}
           rest == Tail(agenda)
<1>1. /\ Free(r, s)
      /\ \/ Becomes(r, "record", agenda, session, written, req[r].reply)
         \/ Calls(r) /\ Becomes(r, "respond", agenda, session, written, "unreachable")
         \/ ~Calls(r) /\ Continues(r, rest, session, written)
  BY ReportForm DEF SessionInv
<1>2. /\ req[r].pc = "report" /\ sessions' = sessions /\ used' = used
      /\ RecordFits(r, req[r]) /\ RecordHolds(r, req[r])
  BY DEF Report, At, Go, SessionInv
<1>3. agenda \in Seq(Server) /\ agenda # <<>>
  BY <1>2 DEF RecordFits, Fit
<1>4. s \in Server /\ rest \in Seq(Server)
  BY <1>3
<1>5. client(r) \notin Server
  BY GatewayAssumption DEF GatewayAssumption, client
<1>6. /\ Fit(r, "report", agenda, session, written, req[r].reply)
      /\ client(r) \in written <=> client(r) \in req[r].written
  BY <1>2, <1>4, <1>5 DEF RecordFits, Fit
<1>7. ~req[r].crowded => Holds(r, "report", agenda, session, written)
  BY <1>2, <1>6 DEF RecordHolds, Holds, Open, Unloaded
<1>8. \A row \in written \ req[r].written : Free(r, row)
  BY <1>1
<1>9. Open(r) /\ req[r].pc \in InSession
  BY <1>2 DEF Open, InSession
<1>10. CASE Becomes(r, "record", agenda, session, written, req[r].reply)
  <2>1. Fit(r, "record", agenda, session, written, req[r].reply)
    BY <1>6 DEF Fit, InSession
  <2>2. ~req[r].crowded => Holds(r, "record", agenda, session, written)
    BY <1>7 DEF Holds, Unloaded
  <2>3. PICK reply : reply = req[r].reply
    OBVIOUS
  <2> HIDE DEF agenda, session, written
  <2> QED
    BY <1>2, <1>8, <1>9, <1>10, <2>1, <2>2, <2>3, QuietStep
<1>11. CASE Calls(r) /\ Becomes(r, "respond", agenda, session, written, "unreachable")
  <2>1. Fit(r, "respond", agenda, session, written, "unreachable")
    BY <1>6, <1>11 DEF Fit, InSession, Status
  <2>2. ~req[r].crowded => Holds(r, "respond", agenda, session, written)
    BY <1>7, <1>11 DEF Holds, Unloaded
  <2> HIDE DEF agenda, session, written
  <2> QED
    BY <1>2, <1>8, <1>9, <1>11, <2>1, <2>2, QuietStep
<1>12. CASE ~Calls(r) /\ Continues(r, rest, session, written)
  <2>1. Fit(r, "session", rest, session, written, req[r].reply)
    BY <1>4, <1>6, <1>12 DEF Fit
  <2>2. ~req[r].crowded =>
          \/ client(r) \in written \/ session = NoSessions
          \/ Known(client(r)) /\ session = sessions[client(r)]
    BY <1>7 DEF Holds
  <2> HIDE DEF agenda, session, written, rest
  <2> QED
    BY <1>2, <1>8, <1>9, <1>12, <2>1, <2>2, ContinueStep
<1> QED
  BY <1>1, <1>10, <1>11, <1>12

\* A request has recorded the session a server gave it, if it gave one.  For a
\* call there was none before.
LEMMA RecordingStep ==
  ASSUME SessionInv, NEW r \in Request, Record(r)
  PROVE  SessionInv'
<1> DEFINE agenda == req[r].agenda
           session == req[r].session
           s == Head(agenda)
           rest == Tail(agenda)
           held == [session EXCEPT ![s] = r]
           written == req[r].written \cup {client(r)}
<1>1. \/ s \notin Stateful /\ Continues(r, rest, session, req[r].written)
      \/ s \in Stateful /\ Free(r, client(r)) /\ Continues(r, rest, held, written)
  BY RecordForm DEF SessionInv
<1>2. /\ req[r].pc = "record" /\ sessions' = sessions /\ used' = used
      /\ RecordFits(r, req[r]) /\ RecordHolds(r, req[r])
  BY DEF Record, At, Go, SessionInv
<1>3. agenda \in Seq(Server) /\ agenda # <<>> /\ session \in SessionMap
  BY <1>2 DEF RecordFits, Fit
<1>4. s \in Server /\ rest \in Seq(Server)
  BY <1>3
<1>5. Open(r) /\ req[r].pc \in InSession
  BY <1>2 DEF Open, InSession
<1>6. ~req[r].crowded => Holds(r, "record", agenda, session, req[r].written)
  BY <1>2, <1>5 DEF RecordHolds
<1>7. Calls(r) /\ ~req[r].crowded => rest = <<>>
  <2> SUFFICES ASSUME Calls(r), ~req[r].crowded PROVE rest = <<>>
    OBVIOUS
  <2>1. agenda = <<target(r)>>
    BY <1>6 DEF Holds
  <2>2. Len(agenda) = 1
    BY <2>1
  <2> HIDE DEF agenda
  <2>3. Len(rest) = 0 /\ rest \in Seq(Server)
    BY <1>3, <2>2
  <2> HIDE DEF rest
  <2> QED
    BY <2>3
<1>8. CASE s \notin Stateful /\ Continues(r, rest, session, req[r].written)
  <2>1. Fit(r, "session", rest, session, req[r].written, req[r].reply)
    BY <1>2, <1>4 DEF RecordFits, Fit, InSession
  <2>2. ~req[r].crowded =>
          /\ \/ client(r) \in req[r].written \/ session = NoSessions
             \/ Known(client(r)) /\ session = sessions[client(r)]
          /\ Calls(r) => Agrees(client(r), session)
    BY <1>6 DEF Holds
  <2>3. PICK rows1 : rows1 = req[r].written
    OBVIOUS
  <2> HIDE DEF agenda, session, rest
  <2> QED
    BY <1>2, <1>5, <1>7, <1>8, <2>1, <2>2, <2>3, ContinueStep
<1>9. CASE s \in Stateful /\ Free(r, client(r)) /\ Continues(r, rest, held, written)
  <2>1. held \in SessionMap
    BY <1>3 DEF SessionMap
  <2>2. \A other \in Server : other # s => held[other] = session[other]
    BY <1>3 DEF SessionMap
  <2>3. Fit(r, "session", rest, held, written, req[r].reply)
    BY <1>2, <1>4, <1>9, <2>1, <2>2 DEF RecordFits, Fit, InSession
  <2>4. Calls(r) /\ ~req[r].crowded => Agrees(client(r), held)
    <3> SUFFICES ASSUME Calls(r), ~req[r].crowded PROVE Agrees(client(r), held)
      OBVIOUS
    <3>1. Agrees(client(r), session) /\ s = target(r) /\ session[s] = NoSession
      BY <1>6 DEF Holds
    <3>2. used[client(r)][s] = NoSession
      BY <1>4, <3>1 DEF Agrees
    <3> QED
      BY <2>2, <3>1, <3>2 DEF Agrees
  <2>5. \A row \in written \ req[r].written : Free(r, row)
    BY <1>9
  <2>6. client(r) \in written
    OBVIOUS
  <2> HIDE DEF agenda, held, rest, written, session
  <2> QED
    BY <1>2, <1>5, <1>7, <1>9, <2>3, <2>4, <2>5, <2>6, ContinueStep
<1> QED
  BY <1>1, <1>8, <1>9

\* The steps of the gates, of the calls and of the probes.
LEMMA GatesStep ==
  ASSUME SessionInv, GateInv, available \subseteq Tool, NEW r \in Request,
         \/ Respond(r) \/ Scope(r) \/ ListTools(r) \/ Policies(r) \/ Limit(r) \/ Resolve(r) \/ Refuse(r)
         \/ MissSession(r) \/ InsertFails(r) \/ Probe(r) \/ BreakDeadlock(r)
         \/ CallServer(r) \/ CallServerFails(r)
         \/ RestRefused(r) \/ RestReady(r) \/ SendRest(r) \/ SendRestFails(r)
  PROVE  SessionInv'
<1>1. RequestsShaped /\ RecordFits(r, req[r]) /\ RecordHolds(r, req[r]) /\ GatesPassed(r)
  BY DEF SessionInv, GateInv
<1>2. Open(r) /\ sessions' = sessions /\ used' = used
  <2>1. sessions' = sessions /\ used' = used
    BY DEF Respond, Scope, ListTools, Policies, Limit, Resolve, Refuse, MissSession, InsertFails,
           Probe, BreakDeadlock, CallServer, CallServerFails, RestRefused, RestReady, SendRest,
           SendRestFails, Reached, Go
  <2>2. CASE BreakDeadlock(r)
    BY <2>1, <2>2 DEF BreakDeadlock, Wants, Open, At
  <2>3. CASE ~BreakDeadlock(r)
    BY <2>1, <2>3 DEF Respond, Scope, ListTools, Policies, Limit, Resolve, Refuse, MissSession,
           InsertFails, Probe, CallServer, CallServerFails, RestRefused, RestReady, SendRest,
           SendRestFails, Open, At
  <2> QED
    BY <2>2, <2>3
<1>3. \A place : req' = [req EXCEPT ![r] = Moved(r, place)] => Walks(r, place)
  BY <1>1, Forms
<1>4. ASSUME NEW place, Walks(r, place), place # "idle",
             Fit(r, place, req[r].agenda, req[r].session, req[r].written, req[r].reply),
             ~req[r].crowded => Holds(r, place, req[r].agenda, req[r].session, req[r].written)
      PROVE  SessionInv'
  BY <1>2, <1>4, WalkStep
<1>5. ASSUME NEW status, req' = [req EXCEPT ![r] = Raised(r, status)] PROVE SessionInv'
  BY <1>1, <1>2, <1>5, Forms, ThrownStep
<1>6. ASSUME NEW status, req' = [req EXCEPT ![r] = [Moved(r, "respond") EXCEPT !.reply = status]],
             status \in Status, Calls(r) \/ status = "result"
      PROVE  SessionInv'
  BY <1>1, <1>2, <1>6, Forms, ReplyStep
<1>7. ~req[r].crowded => Holds(r, req[r].pc, req[r].agenda, req[r].session, req[r].written)
  BY <1>1, <1>2 DEF RecordHolds
<1>8. CASE Scope(r)
  <2>1. PICK place \in {"policy", "session", "list"} :
          /\ Walks(r, place) /\ req[r].pc = "scope"
          /\ place = "policy" <=> Calls(r)
          /\ place = "session" => Ask[r].method = "initialize"
    BY <1>3, <1>8 DEF Scope, Go, Calls, At
  <2>2. Fit(r, place, req[r].agenda, req[r].session, req[r].written, req[r].reply)
    BY <1>1, <2>1 DEF RecordFits, Fit, InSession, Calls
  <2>3. ~req[r].crowded => Holds(r, place, req[r].agenda, req[r].session, req[r].written)
    BY <1>7, <2>1 DEF Holds, Unloaded
  <2> QED
    BY <1>4, <2>1, <2>2, <2>3
<1>9. CASE Policies(r) \/ Limit(r) \/ RestReady(r) \/ MissSession(r)
  <2>1. PICK place \in {"limit", "resolve", "send", "insert"} :
          /\ Walks(r, place) /\ req[r].pc \in {"policy", "limit", "rest", "session"}
          /\ place = "insert" => req[r].pc = "session"
    BY <1>3, <1>9 DEF Policies, Limit, RestReady, MissSession, Go, At
  <2>2. Fit(r, place, req[r].agenda, req[r].session, req[r].written, req[r].reply)
    BY <1>1, <2>1 DEF RecordFits, Fit, InSession
  <2>3. ~req[r].crowded => Holds(r, place, req[r].agenda, req[r].session, req[r].written)
    BY <1>7, <2>1 DEF Holds, Unloaded
  <2> QED
    BY <1>4, <2>1, <2>2, <2>3
<1>10. CASE Resolve(r)
  <2>1. PICK place \in {"rest", "session"} :
          /\ Walks(r, place) /\ req[r].pc = "resolve" /\ tool(r) \in available
          /\ place = "session" => tool(r) \notin RestTool
    BY <1>3, <1>10 DEF Resolve, Go, At
  <2>2. place = "session" => tool(r) \in McpTool
    BY <2>1 DEF Tool
  <2>3. Fit(r, place, req[r].agenda, req[r].session, req[r].written, req[r].reply)
    BY <1>1, <2>1, <2>2 DEF RecordFits, Fit, InSession
  <2>4. ~req[r].crowded => Holds(r, place, req[r].agenda, req[r].session, req[r].written)
    BY <1>7, <2>1 DEF Holds, Unloaded
  <2> QED
    BY <1>4, <2>1, <2>3, <2>4
<1>11. CASE Refuse(r) \/ InsertFails(r) \/ BreakDeadlock(r) \/ RestRefused(r)
  <2>1. PICK status : req' = [req EXCEPT ![r] = Raised(r, status)]
    BY <1>11 DEF Refuse, InsertFails, BreakDeadlock, RestRefused, Go
  <2> QED
    BY <1>5, <2>1
<1>12. CASE ListTools(r)
  BY <1>6, <1>12 DEF ListTools, Go, Status
<1>13. CASE Respond(r)
  <2>1. PICK record : record = [req[r] EXCEPT !.pc = "commit"]
    OBVIOUS
  <2>2. /\ Is(record, "commit", req[r].agenda, req[r].session, req[r].written, req[r].reply,
              req[r].crowded)
        /\ req' = [req EXCEPT ![r] = record]
    BY <1>1, <1>13, <2>1, RequestIs, IsField DEF Respond
  <2>3. Walks(r, "commit") /\ req[r].pc = "respond"
    BY <1>1, <1>13, <2>2, BecomesRecord DEF Walks, Respond, At
  <2>4. Fit(r, "commit", req[r].agenda, req[r].session, req[r].written, req[r].reply)
    BY <1>1, <2>3 DEF RecordFits, Fit, InSession
  <2>5. ~req[r].crowded => Holds(r, "commit", req[r].agenda, req[r].session, req[r].written)
    BY <1>7, <2>3 DEF Holds, Unloaded
  <2> QED
    BY <1>4, <2>3, <2>4, <2>5
<1>14. CASE Probe(r)
  <2>1. PICK found : req' = [req EXCEPT ![r] = [req[r] EXCEPT !.pc = "report", !.down = found]]
    BY <1>14 DEF Probe
  <2>2. PICK record : record = [req[r] EXCEPT !.pc = "report", !.down = found]
    OBVIOUS
  <2>3. /\ Is(record, "report", req[r].agenda, req[r].session, req[r].written, req[r].reply,
              req[r].crowded)
        /\ req' = [req EXCEPT ![r] = record]
    BY <1>1, <2>1, <2>2, RequestIs, IsFields
  <2>4. Walks(r, "report") /\ req[r].pc = "probe"
    BY <1>1, <1>14, <2>3, BecomesRecord DEF Walks, Probe, At
  <2>5. Fit(r, "report", req[r].agenda, req[r].session, req[r].written, req[r].reply)
    BY <1>1, <2>4 DEF RecordFits, Fit, InSession
  <2>6. ~req[r].crowded => Holds(r, "report", req[r].agenda, req[r].session, req[r].written)
    BY <1>7, <2>4 DEF Holds, Unloaded
  <2> QED
    BY <1>4, <2>4, <2>5, <2>6
<1>15. CASE CallServer(r) \/ SendRest(r)
  <2>1. Calls(r)
    BY <1>1, <1>15 DEF CallServer, SendRest, At, GatesPassed, InCall
  <2>2. PICK status \in {"result", "rpc_error"} :
          req' = [req EXCEPT ![r] = [Moved(r, "respond") EXCEPT !.reply = status]]
    BY <1>15 DEF CallServer, SendRest, Reached
  <2> QED
    BY <1>6, <2>1, <2>2 DEF Status
<1>16. CASE CallServerFails(r)
  BY <1>5, <1>16 DEF CallServerFails, Reached
<1>17. CASE SendRestFails(r)
  <2>1. CASE req' = [req EXCEPT ![r] = Raised(r, "failed")]
    BY <1>5, <2>1
  <2>2. CASE req' = [req EXCEPT ![r] = [req[r] EXCEPT !.tries = req[r].tries + 1]]
    <3>1. PICK tries : tries = req[r].tries + 1
      OBVIOUS
    <3>2. PICK record : record = [req[r] EXCEPT !.tries = tries]
      OBVIOUS
    <3>3. /\ Is(record, req[r].pc, req[r].agenda, req[r].session, req[r].written, req[r].reply,
                req[r].crowded)
          /\ req' = [req EXCEPT ![r] = record]
      BY <1>1, <2>2, <3>1, <3>2, RequestIs, IsField
    <3>4. PICK place : place = req[r].pc /\ place = "send"
      BY <1>17 DEF SendRestFails, At
    <3>5. Walks(r, place)
      BY <1>1, <3>3, <3>4, BecomesRecord DEF Walks
    <3>6. Fit(r, place, req[r].agenda, req[r].session, req[r].written, req[r].reply)
      BY <1>1, <3>4 DEF RecordFits
    <3>7. ~req[r].crowded => Holds(r, place, req[r].agenda, req[r].session, req[r].written)
      BY <1>7, <3>4
    <3> QED
      BY <1>4, <3>4, <3>5, <3>6, <3>7
  <2>3. \/ req' = [req EXCEPT ![r] = Raised(r, "failed")]
        \/ req' = [req EXCEPT ![r] = [req[r] EXCEPT !.tries = req[r].tries + 1]]
    BY <1>17 DEF SendRestFails, Reached
  <2> QED
    BY <2>1, <2>2, <2>3
<1> QED
  BY <1>8, <1>9, <1>10, <1>11, <1>12, <1>13, <1>14, <1>15, <1>16, <1>17

\* A request arrives: of the others of its client in progress, each knows of it,
\* and it knows of them.
LEMMA ArriveStep ==
  ASSUME SessionInv, NEW r \in Request, Arrive(r)
  PROVE  /\ SessionInv'
         /\ req'[r].reply = NoReply /\ \A q \in Request \ {r} : req'[q].reply = req[q].reply
<1> DEFINE others == {q \in Request \ {r} : Open(q) /\ client(q) = client(r)}
<1>1. /\ req[r].pc = "idle" /\ sessions' = sessions /\ used' = used
      /\ req' = [q \in Request |->
           IF q = r THEN [Fresh EXCEPT !.pc = "scope", !.crowded = others # {}]
           ELSE IF q \in others THEN [req[q] EXCEPT !.crowded = TRUE] ELSE req[q]]
  BY DEF Arrive, At
<1>2. RequestsShaped /\ RequestsShaped'
  BY ArriveAdvances DEF SessionInv
<1>3. PICK met \in BOOLEAN : met = (others # {})
  OBVIOUS
<1>4. PICK yes \in BOOLEAN : yes = TRUE
  OBVIOUS
<1>5. Is(req'[r], "scope", <<>>, NoSessions, {}, NoReply, met)
  <2>1. Is(Fresh, "idle", <<>>, NoSessions, {}, NoReply, Fresh.crowded)
    BY DEF Fresh, Is, Shaped
  <2>2. Is([Fresh EXCEPT !.pc = "scope", !.crowded = met], "scope", <<>>, NoSessions, {}, NoReply, met)
    BY <2>1, IsFields
  <2>3. req'[r] = [Fresh EXCEPT !.pc = "scope", !.crowded = met]
    BY <1>1, <1>3
  <2> QED
    BY <2>2, <2>3
<1>6. ASSUME NEW q \in Request \ {r}
      PROVE  /\ req'[q].pc = req[q].pc /\ req'[q].agenda = req[q].agenda
             /\ req'[q].session = req[q].session /\ req'[q].written = req[q].written
             /\ req'[q].reply = req[q].reply
             /\ q \in others => req'[q].crowded = yes
             /\ q \notin others => req'[q].crowded = req[q].crowded
  <2>1. CASE q \in others
    <3>1. req'[q] = [req[q] EXCEPT !.crowded = yes]
      BY <1>1, <1>4, <2>1
    <3>2. Is(req[q], req[q].pc, req[q].agenda, req[q].session, req[q].written, req[q].reply,
             req[q].crowded)
      BY <1>2, RequestIs
    <3>3. Is([req[q] EXCEPT !.crowded = yes], req[q].pc, req[q].agenda, req[q].session,
             req[q].written, req[q].reply, yes)
      BY <3>2, IsField
    <3> QED
      BY <2>1, <3>1, <3>3 DEF Is
  <2>2. CASE q \notin others
    <3>1. req'[q] = req[q]
      BY <1>1, <2>2
    <3> QED
      BY <2>2, <3>1
  <2> QED
    BY <2>1, <2>2
<1>7. /\ req'[r].pc = "scope" /\ req'[r].agenda = <<>> /\ req'[r].session = NoSessions
      /\ req'[r].written = {} /\ req'[r].reply = NoReply /\ req'[r].crowded = met
  BY <1>5 DEF Is
<1>8. RecordFits(r, req[r])' /\ RecordHolds(r, req[r])'
  <2>1. NoSessions \in SessionMap /\ \A s \in Server \ Stateful : NoSessions[s] = NoSession
    BY DEF NoSessions, SessionMap
  <2>2. Fit(r, "scope", <<>>, NoSessions, {}, NoReply)' /\ Holds(r, "scope", <<>>, NoSessions, {})'
    BY <2>1 DEF Fit, InSession, Holds, Unloaded
  <2>3. /\ Fit(r, req[r].pc, req[r].agenda, req[r].session, req[r].written, req[r].reply)'
        /\ Holds(r, req[r].pc, req[r].agenda, req[r].session, req[r].written)'
    BY <1>7, <2>2
  <2>4. (req[r].crowded \in BOOLEAN)'
    BY <1>7, <1>3
  <2>5. RecordFits(r, req[r])'
    BY <2>3, <2>4 DEF RecordFits
  <2>6. RecordHolds(r, req[r])'
    BY <2>3 DEF RecordHolds
  <2> QED
    BY <2>5, <2>6
<1>9. ASSUME NEW q \in Request \ {r} PROVE RecordFits(q, req[q])' /\ RecordHolds(q, req[q])'
  <2> HIDE DEF others
  <2>1. RecordFits(q, req[q]) /\ RecordHolds(q, req[q])
    BY DEF SessionInv
  <2>2. req'[q].crowded = req[q].crowded \/ req'[q].crowded = yes
    BY <1>6
  <2>3. (req[q].crowded \in BOOLEAN)'
    BY <2>1, <2>2 DEF RecordFits
  <2>4. Fit(q, req[q].pc, req[q].agenda, req[q].session, req[q].written, req[q].reply)'
    BY <1>6, <2>1 DEF RecordFits, Fit, Calls, client, tool
  <2>5. RecordFits(q, req[q])'
    BY <2>3, <2>4 DEF RecordFits
  <2>6. ~req'[q].crowded => ~req[q].crowded
    BY <1>4, <2>2
  <2>7. RecordHolds(q, req[q])'
    <3>1. /\ req'[q].pc = req[q].pc /\ req'[q].agenda = req[q].agenda
          /\ req'[q].session = req[q].session /\ req'[q].written = req[q].written
      BY <1>6
    <3>2. sessions' = sessions /\ used' = used
      BY <1>1
    <3>3. Holds(q, req[q].pc, req[q].agenda, req[q].session, req[q].written)
            => Holds(q, req[q].pc, req[q].agenda, req[q].session, req[q].written)'
      BY <1>6, <3>1, <3>2 DEF Holds, Agrees, Known, Calls, client, target, tool
    <3> QED
      BY <2>1, <2>6, <3>1, <3>3 DEF RecordHolds, Open
  <2> QED
    BY <2>5, <2>7
<1>11. Together'
  <2>1. ASSUME NEW a \in Request, NEW b \in Request, a # b, Open(a)', Open(b)', client(a) = client(b)
        PROVE  req'[a].crowded
    <3>1. CASE a = r
      <4>1. b \in others
        BY <1>6, <2>1, <3>1 DEF Open
      <4> QED
        BY <1>3, <1>5, <3>1, <4>1 DEF Is
    <3>2. CASE a # r /\ b = r
      <4>1. a \in others
        BY <1>6, <2>1, <3>2 DEF Open
      <4> QED
        BY <1>4, <1>6, <3>2, <4>1
    <3>3. CASE a # r /\ b # r
      <4>1. req[a].crowded
        BY <1>6, <2>1, <3>3 DEF SessionInv, Together, Open
      <4> QED
        BY <1>4, <1>6, <3>3, <4>1
    <3> QED
      BY <3>1, <3>2, <3>3
  <2>2. \A q \in Request \ {r} : req'[q].written = req[q].written
    BY <1>6
  <2>3. \A a, b \in Request : a # b => req'[a].written \cap req'[b].written = {}
    BY <1>5, <2>2 DEF SessionInv, Together, Is
  <2> QED
    BY <2>1, <2>3 DEF Together, client
<1>12. UsedIsCommitted'
  BY <1>1 DEF SessionInv, UsedIsCommitted, Known
<1> QED
  BY <1>2, <1>6, <1>7, <1>8, <1>9, <1>11, <1>12 DEF SessionInv

\* What a commit saves for its client has all that is expected of later calls.
LEMMA CommitSaves ==
  ASSUME SessionInv, NEW r \in Request, Commit(r)
  PROVE  UsedIsCommitted'
<1> DEFINE c == client(r)
           session == req[r].session
<1>1. /\ req[r].pc = "commit" /\ RecordFits(r, req[r]) /\ RecordHolds(r, req[r]) /\ UsedIsCommitted
      /\ sessions' = [sessions EXCEPT ![c] = Saved(r)] /\ used' = [used EXCEPT ![c] = Expectation(r)]
  BY DEF Commit, At, SessionInv
<1>2. c \in Client /\ Ask[r].method \in Method
  BY GatewayAssumption DEF GatewayAssumption, client
<1>3. NoReply \notin SessionMap
  <2>1. NoReply \notin [Server -> Request \cup {NoSession}] \cup Status
    BY GatewayAssumption DEF GatewayAssumption
  <2> QED
    BY <2>1 DEF SessionMap
<1>4. session \in SessionMap /\ \A s \in Server \ Stateful : session[s] = NoSession
  BY <1>1 DEF RecordFits, Fit
<1>5. /\ sessions'[c] = Saved(r) /\ used'[c] = Expectation(r)
      /\ \A d \in Client \ {c} : sessions'[d] = sessions[d] /\ used'[d] = used[d]
  BY <1>1, <1>2 DEF UsedIsCommitted
<1>6. Saved(r) = session \/ (c \notin req[r].written /\ Saved(r) = sessions[c])
  BY DEF Saved
<1>7. /\ Saved(r) \in SessionMap \cup {NoReply}
      /\ Saved(r) # NoReply => \A s \in Server \ Stateful : Saved(r)[s] = NoSession
  BY <1>1, <1>2, <1>3, <1>4, <1>6 DEF UsedIsCommitted, Known
<1>8. NoSessions \in SessionMap /\ used[c] \in SessionMap
  BY <1>1, <1>2 DEF NoSessions, SessionMap, UsedIsCommitted
<1>9. Expectation(r) \in SessionMap
  BY <1>4, <1>8 DEF Expectation
<1>10. ASSUME NEW s \in Server, Expectation(r)[s] # NoSession
       PROVE  Saved(r) # NoReply /\ Saved(r)[s] = Expectation(r)[s]
  <2>1. ~req[r].crowded
    BY <1>10 DEF Expectation, NoSessions
  <2>2. Holds(r, "commit", req[r].agenda, session, req[r].written)
    BY <1>1, <2>1 DEF RecordHolds, Open
  <2>3. CASE req[r].reply = "result" /\ (tool(r) \in McpTool \/ Ask[r].method = "initialize")
    <3>1. Expectation(r) = session
      BY <2>1, <2>3 DEF Expectation
    <3>2. CASE c \in req[r].written
      BY <1>3, <1>4, <3>1, <3>2 DEF Saved
    <3>3. CASE c \notin req[r].written
      <4>1. Saved(r) = sessions[c]
        BY <3>3 DEF Saved
      <4>2. session # NoSessions
        BY <1>10, <3>1 DEF NoSessions
      <4>3. Known(c) /\ session = sessions[c]
        BY <2>2, <3>3, <4>2 DEF Holds
      <4> QED
        BY <3>1, <4>1, <4>3 DEF Known
    <3> QED
      BY <3>2, <3>3
  <2>4. CASE ~(req[r].reply = "result" /\ (tool(r) \in McpTool \/ Ask[r].method = "initialize"))
    <3>1. Expectation(r) = used[c]
      BY <2>1, <2>4 DEF Expectation
    <3>2. CASE c \in req[r].written
      <4>1. Saved(r) = session
        BY <3>2 DEF Saved
      <4>2. Calls(r)
        BY <1>1, <1>2, <2>4, <3>2 DEF RecordFits, Fit, Calls, Method
      <4>3. Agrees(c, session)
        BY <2>2, <3>2, <4>2 DEF Holds
      <4> QED
        BY <1>3, <1>4, <1>10, <3>1, <4>1, <4>3 DEF Agrees
    <3>3. CASE c \notin req[r].written
      <4>1. Saved(r) = sessions[c]
        BY <3>3 DEF Saved
      <4> QED
        BY <1>1, <1>2, <1>10, <3>1, <4>1 DEF UsedIsCommitted, Known
    <3> QED
      BY <3>2, <3>3
  <2> QED
    BY <2>3, <2>4
<1>11. sessions' \in [Client -> SessionMap \cup {NoReply}] /\ used' \in [Client -> SessionMap]
  BY <1>1, <1>2, <1>7, <1>9 DEF UsedIsCommitted
<1>12. \A d \in Client : sessions'[d] # NoReply => \A s \in Server \ Stateful : sessions'[d][s] = NoSession
  <2> HIDE DEF c
  <2> QED
    BY <1>1, <1>5, <1>7 DEF UsedIsCommitted, Known
<1>13. \A d \in Client, s \in Server :
         used'[d][s] # NoSession => sessions'[d] # NoReply /\ sessions'[d][s] = used'[d][s]
  <2> HIDE DEF c
  <2> QED
    BY <1>1, <1>5, <1>10 DEF UsedIsCommitted, Known
<1> QED
  BY <1>11, <1>12, <1>13 DEF UsedIsCommitted, Known, SessionMap

\* A request commits: the others of its client in progress are crowded, and those
\* of other clients find everything as it was.
LEMMA CommitStep ==
  ASSUME SessionInv, NEW r \in Request, Commit(r)
  PROVE  SessionInv'
<1> DEFINE c == client(r)
           agenda == req[r].agenda
           session == req[r].session
           reply == req[r].reply
<1>1. /\ RequestsShaped /\ req[r].pc = "commit" /\ RecordFits(r, req[r]) /\ UsedIsCommitted
      /\ sessions' = [sessions EXCEPT ![c] = Saved(r)] /\ used' = [used EXCEPT ![c] = Expectation(r)]
      /\ req' = [req EXCEPT ![r] = [req[r] EXCEPT !.pc = "ended", !.written = {}]]
  BY DEF Commit, At, SessionInv
<1>2. Becomes(r, "ended", agenda, session, {}, reply)
  <2>1. PICK record : record = [req[r] EXCEPT !.pc = "ended", !.written = {}]
    OBVIOUS
  <2>2. Is(record, "ended", agenda, session, {}, reply, req[r].crowded)
    BY <1>1, <2>1, RequestIs, IsFields
  <2>3. req' = [req EXCEPT ![r] = record]
    BY <1>1, <2>1
  <2> HIDE DEF agenda, session, reply
  <2> QED
    BY <1>1, <2>2, <2>3, BecomesRecord
<1>3. /\ RequestsShaped' /\ \A q \in Request \ {r} : req'[q] = req[q]
      /\ req'[r].pc = "ended" /\ req'[r].agenda = agenda /\ req'[r].session = session
      /\ req'[r].written = {} /\ req'[r].reply = reply /\ req'[r].crowded = req[r].crowded
  BY <1>2 DEF Becomes, Is
<1>4. \A d \in Client \ {c} : sessions'[d] = sessions[d] /\ used'[d] = used[d]
  BY <1>1 DEF UsedIsCommitted
<1>5. RecordFits(r, req[r])'
  <2>1. Fit(r, "ended", agenda, session, {}, reply)
    BY <1>1 DEF RecordFits, Fit, InSession
  <2>2. Fit(r, req[r].pc, req[r].agenda, req[r].session, req[r].written, req[r].reply)'
    BY <1>3, <2>1 DEF Fit, Calls, client, tool
  <2>3. (req[r].crowded \in BOOLEAN)'
    BY <1>1, <1>3 DEF RecordFits
  <2> QED
    BY <2>2, <2>3 DEF RecordFits
<1>6. \A q \in Request \ {r} : RecordFits(q, req[q])'
  BY <1>3 DEF SessionInv, RecordFits, Fit, Calls, client, tool
<1>7. RecordHolds(r, req[r])'
  BY <1>3 DEF RecordHolds, Open
<1>8. ASSUME NEW q \in Request \ {r} PROVE RecordHolds(q, req[q])'
  <2>1. req'[q] = req[q] /\ RecordHolds(q, req[q])
    BY <1>3 DEF SessionInv
  <2>2. CASE client(q) = c
    <3>1. Open(q) => req[q].crowded
      BY <1>1, <2>2 DEF SessionInv, Together, Open
    <3> QED
      BY <2>1, <3>1 DEF RecordHolds, Open
  <2>3. CASE client(q) # c
    <3>1. client(q) \in Client
      BY GatewayAssumption DEF GatewayAssumption, client
    <3>2. sessions'[client(q)] = sessions[client(q)] /\ used'[client(q)] = used[client(q)]
      BY <1>4, <2>3, <3>1
    <3> QED
      BY <2>1, <3>2 DEF RecordHolds, Holds, Agrees, Open, Known, Calls, client, target, tool
  <2> QED
    BY <2>2, <2>3
<1>9. Together'
  <2>1. \A q \in Request \ {r} : req'[q].written = req[q].written
    BY <1>3
  <2>2. \A a, b \in Request : a # b => req'[a].written \cap req'[b].written = {}
    BY <1>3, <2>1 DEF SessionInv, Together
  <2>3. \A a, b \in Request : a # b /\ Open(a)' /\ Open(b)' /\ client(a) = client(b) => req'[a].crowded
    BY <1>3 DEF SessionInv, Together, Open
  <2> QED
    BY <2>2, <2>3 DEF Together, client
<1> QED
  BY <1>3, <1>5, <1>6, <1>7, <1>8, <1>9, CommitSaves DEF SessionInv

-----------------------------------------------------------------------------
\* The world, the log, and what replies tell.

WorldOK ==
  /\ available \subseteq Tool /\ policies \subseteq Policy /\ up \subseteq Server
  /\ live \subseteq Stateful \X Request /\ rows \subseteq Request \X Status

\* A result of a call comes after work, a refusal before any.
Told(r) ==
  /\ Calls(r) /\ req[r].reply = "result" => executed[r] > 0
  /\ req[r].reply \in {"rejected", "unreachable"} => executed[r] = 0

\* Only what a change from outside, a probe, a response or a commit does to it.
LEMMA WorldStep ==
  ASSUME WorldOK, SessionInv, NEW r \in Request, Step(r) \/ Arrive(r)
  PROVE  WorldOK'
<1>1. CASE Respond(r)
  <2>1. req[r].reply \in Status
    BY <1>1 DEF Respond, At, SessionInv, RecordFits, Fit
  <2>2. rows' = rows \cup {<<r, req[r].reply>>} /\ UNCHANGED world
    BY <1>1 DEF Respond
  <2> QED
    BY <2>1, <2>2 DEF WorldOK, world
<1>2. CASE Commit(r)
  BY <1>2 DEF Commit, WorldOK
<1>3. CASE Probe(r)
  BY <1>3 DEF Probe, WorldOK
<1>4. CASE ~(Respond(r) \/ Commit(r) \/ Probe(r))
  <2>1. UNCHANGED <<world, rows>>
    BY <1>4
    DEF Step, Arrive, Scope, ListTools, Policies, Limit, Resolve, Refuse, LoadSession, MissSession,
        InsertSession, InsertFails, Report, Record, CallServer, CallServerFails, RestRefused,
        RestReady, SendRest, SendRestFails, BreakDeadlock, Reached, Go
  <2> QED
    BY <2>1 DEF WorldOK, world
<1> QED
  BY <1>1, <1>2, <1>3, <1>4

\* Changes from outside keep the types of the world.
LEMMA WorldChanges ==
  ASSUME WorldOK, External
  PROVE  WorldOK'
<1>1. CASE ChangeAvailable
  BY <1>1 DEF ChangeAvailable, Change, WorldOK
<1>2. CASE ChangePolicies
  BY <1>2 DEF ChangePolicies, Change, WorldOK
<1>3. ASSUME NEW s \in Server, Stop(s) PROVE WorldOK'
  BY <1>3 DEF Stop, Change, WorldOK
<1>4. ASSUME NEW s \in Server, Restart(s) PROVE WorldOK'
  BY <1>4 DEF Restart, Change, WorldOK
<1> QED
  BY <1>1, <1>2, <1>3, <1>4 DEF External

\* What a step makes of a request's reply.
Answers(r) ==
  \/ req'[r].reply = req[r].reply /\ executed' = executed
  \/ req'[r].reply \notin {"result", "rejected", "unreachable"}
  \/ req'[r].reply = "result" /\ (~Calls(r) \/ Work(r))
  \/ /\ req'[r].reply \in {"rejected", "unreachable"} /\ executed' = executed
     /\ req[r].pc \in {"scope", "rest"} \cup AtGates \cup InSession

\* An answer that is given as Answers says tells the call.
LEMMA AnswerTells ==
  ASSUME GateInv, NEW r \in Request, Told(r), Answers(r)
  PROVE  Told(r)'
<1>1. executed \in [Request -> Nat] /\ Counted(r)
  BY DEF GateInv
<1>2. CASE req'[r].reply = req[r].reply /\ executed' = executed
  BY <1>2 DEF Told, Calls
<1>3. CASE req'[r].reply \notin {"result", "rejected", "unreachable"}
  BY <1>3 DEF Told
<1>4. CASE req'[r].reply = "result" /\ (~Calls(r) \/ Work(r))
  BY <1>1, <1>4 DEF Told, Calls, Work
<1>5. CASE /\ req'[r].reply \in {"rejected", "unreachable"} /\ executed' = executed
           /\ req[r].pc \in {"scope", "rest"} \cup AtGates \cup InSession
  BY <1>1, <1>5 DEF Told, Counted
<1> QED
  BY <1>2, <1>3, <1>4, <1>5 DEF Answers

\* The reply of a request that has none is no status.
LEMMA NoReplyYet ==
  ASSUME SessionInv, NEW r \in Request, req[r].pc \notin {"respond", "commit", "ended"}
  PROVE  req[r].reply \notin {"result", "rejected", "unreachable"}
<1>1. NoReply \notin Status
  BY GatewayAssumption DEF GatewayAssumption
<1>2. req[r].reply = NoReply
  BY DEF SessionInv, RecordFits, Fit
<1> QED
  BY <1>1, <1>2 DEF Status

\* To go on with an agenda tells nothing of a call.
LEMMA ContinueAnswers ==
  ASSUME NEW r \in Request, NEW agenda, NEW session, NEW written,
         Continues(r, agenda, session, written), executed' = executed
  PROVE  Answers(r)
<1>1. req'[r].reply = req[r].reply \/ (req'[r].reply = "result" /\ ~Calls(r))
  BY DEF Continues, GoesOn, Is
<1> QED
  BY <1>1 DEF Answers

\* Every step of a request answers so, and concerns that request alone.
LEMMA StepAnswers ==
  ASSUME SessionInv, NEW r \in Request, Step(r)
  PROVE  Answers(r) /\ \A q \in Request \ {r} : req'[q] = req[q]
<1>1. RequestsShaped /\ RecordFits(r, req[r])
  BY DEF SessionInv
<1>2. ASSUME NEW record, req' = [req EXCEPT ![r] = record]
      PROVE  req'[r] = record /\ \A q \in Request \ {r} : req'[q] = req[q]
  BY <1>1, <1>2 DEF RequestsShaped
<1>3. ASSUME NEW place, req' = [req EXCEPT ![r] = Moved(r, place)]
      PROVE  req'[r].reply = req[r].reply /\ \A q \in Request \ {r} : req'[q] = req[q]
  BY <1>1, <1>3, Forms DEF Walks, Becomes, Is
<1>4. ASSUME NEW status, req' = [req EXCEPT ![r] = Raised(r, status)]
      PROVE  req'[r].reply = status /\ \A q \in Request \ {r} : req'[q] = req[q]
  BY <1>1, <1>4, Forms DEF Throws, Becomes, Is
<1>5. ASSUME NEW status, req' = [req EXCEPT ![r] = [Moved(r, "respond") EXCEPT !.reply = status]]
      PROVE  req'[r].reply = status /\ \A q \in Request \ {r} : req'[q] = req[q]
  BY <1>1, <1>5, Forms DEF Replies, Becomes, Is
<1>6. CASE Respond(r) \/ Commit(r) \/ Probe(r)
  <2>1. PICK v, w : \/ req' = [req EXCEPT ![r] = [req[r] EXCEPT !.pc = v, !.written = w]]
                    \/ req' = [req EXCEPT ![r] = [req[r] EXCEPT !.pc = v, !.down = w]]
                    \/ req' = [req EXCEPT ![r] = [req[r] EXCEPT !.pc = v]]
    <3>1. CASE Respond(r)
      BY <3>1 DEF Respond
    <3>2. CASE Commit(r)
      BY <3>2 DEF Commit
    <3>3. CASE Probe(r)
      <4>1. PICK found : req' = [req EXCEPT ![r] = [req[r] EXCEPT !.pc = "report", !.down = found]]
        BY <3>3 DEF Probe
      <4> QED
        BY <4>1
    <3> QED
      BY <1>6, <3>1, <3>2, <3>3
  <2>2. PICK record : /\ req' = [req EXCEPT ![r] = record]
                      /\ \/ record = [req[r] EXCEPT !.pc = v, !.written = w]
                         \/ record = [req[r] EXCEPT !.pc = v, !.down = w]
                         \/ record = [req[r] EXCEPT !.pc = v]
    BY <2>1
  <2>3. Shaped(req[r])
    BY <1>1 DEF RequestsShaped
  <2>4. record.reply = req[r].reply
    BY <2>2, <2>3 DEF Shaped
  <2>5. req'[r] = record /\ \A q \in Request \ {r} : req'[q] = req[q]
    BY <1>2, <2>2
  <2>6. executed' = executed
    BY <1>6 DEF Respond, Commit, Probe
  <2> QED
    BY <2>4, <2>5, <2>6 DEF Answers
<1>7. CASE \/ Scope(r) \/ Policies(r) \/ Limit(r) \/ Resolve(r) \/ MissSession(r) \/ RestReady(r)
  <2>1. PICK place : req' = [req EXCEPT ![r] = Moved(r, place)]
    BY <1>7 DEF Scope, Policies, Limit, Resolve, MissSession, RestReady, Go
  <2>2. executed' = executed
    BY <1>7 DEF Scope, Policies, Limit, Resolve, MissSession, RestReady, Go
  <2> QED
    BY <1>3, <2>1, <2>2 DEF Answers
<1>8. CASE Refuse(r) \/ RestRefused(r)
  <2>1. PICK status \in {"rejected", "failed"} : req' = [req EXCEPT ![r] = Raised(r, status)]
    BY <1>8 DEF Refuse, RestRefused, Go
  <2>2. executed' = executed
    BY <1>8 DEF Refuse, RestRefused, Go
  <2>3. req[r].pc \in {"scope", "rest"} \cup AtGates
    BY <1>8 DEF Refuse, RestRefused, At, AtGates
  <2> QED
    BY <1>4, <2>1, <2>2, <2>3 DEF Answers
<1>9. CASE InsertFails(r) \/ BreakDeadlock(r) \/ CallServerFails(r)
  <2>1. PICK status \in {"failed"} : req' = [req EXCEPT ![r] = Raised(r, status)]
    BY <1>9 DEF InsertFails, BreakDeadlock, CallServerFails, Go, Reached
  <2> QED
    BY <1>4, <2>1 DEF Answers
<1>10. CASE ListTools(r)
  <2>1. ~Calls(r)
    BY <1>1, <1>10 DEF ListTools, At, RecordFits, Fit
  <2>2. req' = [req EXCEPT ![r] = [Moved(r, "respond") EXCEPT !.reply = "result"]]
    BY <1>10 DEF ListTools, Go
  <2> QED
    BY <1>5, <2>1, <2>2 DEF Answers
<1>11. CASE LoadSession(r) \/ InsertSession(r) \/ Record(r) \/ Report(r)
  <2>1. executed' = executed
    BY <1>11 DEF LoadSession, InsertSession, Record, Report, Go
  <2>2. CASE \E agenda, session, written : Continues(r, agenda, session, written)
    BY <2>1, <2>2, ContinueAnswers DEF Continues
  <2>3. CASE ~\E agenda, session, written : Continues(r, agenda, session, written)
    <3>1. Report(r)
      BY <1>1, <1>11, <2>3, LoadForm, InsertForm, RecordForm
    <3>2. PICK place, agenda, session, written, reply :
            Becomes(r, place, agenda, session, written, reply) /\ reply \in {req[r].reply, "unreachable"}
      BY <1>1, <2>3, <3>1, ReportForm
    <3>3. /\ req'[r].reply = req[r].reply \/ req'[r].reply = "unreachable"
          /\ \A q \in Request \ {r} : req'[q] = req[q]
      BY <3>2 DEF Becomes, Is
    <3>4. req[r].pc \in InSession
      BY <3>1 DEF Report, At, InSession
    <3> QED
      BY <2>1, <3>3, <3>4 DEF Answers
  <2> QED
    BY <2>2, <2>3
<1>12. CASE CallServer(r) \/ SendRest(r)
  <2>1. PICK status \in {"result", "rpc_error"} :
          /\ req' = [req EXCEPT ![r] = [Moved(r, "respond") EXCEPT !.reply = status]]
          /\ status = "result" => Work(r)
    BY <1>12 DEF CallServer, SendRest, Reached
  <2> QED
    BY <1>5, <2>1 DEF Answers
<1>13. CASE SendRestFails(r)
  <2>1. CASE req' = [req EXCEPT ![r] = Raised(r, "failed")]
    <3>1. PICK status \in {"failed"} : req' = [req EXCEPT ![r] = Raised(r, status)]
      BY <2>1
    <3> QED
      BY <1>4, <3>1 DEF Answers
  <2>2. CASE req' = [req EXCEPT ![r] = [req[r] EXCEPT !.tries = req[r].tries + 1]]
    <3>1. PICK tries : tries = req[r].tries + 1
      OBVIOUS
    <3>2. PICK record : record = [req[r] EXCEPT !.tries = tries]
      OBVIOUS
    <3>3. Is(record, req[r].pc, req[r].agenda, req[r].session, req[r].written, req[r].reply, req[r].crowded)
      BY <1>1, <3>2, RequestIs, IsField
    <3>4. req'[r] = record /\ \A q \in Request \ {r} : req'[q] = req[q]
      BY <1>2, <2>2, <3>1, <3>2
    <3>5. req[r].reply \notin {"result", "rejected", "unreachable"}
      BY <1>13, NoReplyYet DEF SendRestFails, At
    <3> QED
      BY <3>3, <3>4, <3>5 DEF Answers, Is
  <2> QED
    BY <1>13, <2>1, <2>2 DEF SendRestFails, Reached
<1> QED
  BY <1>6, <1>7, <1>8, <1>9, <1>10, <1>11, <1>12, <1>13 DEF Step

-----------------------------------------------------------------------------

GatewayInv ==
  /\ GateInv /\ SessionInv /\ WorldOK
  /\ \A r \in Request : Told(r)

\* All of it holds at the start.
LEMMA GatewayInit == Init => GatewayInv
<1> SUFFICES ASSUME Init PROVE GatewayInv
  OBVIOUS
<1>1. GateInv
  BY GateInit
<1>2. \A r \in Request : Is(req[r], "idle", <<>>, NoSessions, {}, NoReply, Fresh.crowded)
  BY DEF Init, Fresh, Is, Shaped
<1>3. \A r \in Request :
        /\ req[r].pc = "idle" /\ req[r].agenda = <<>> /\ req[r].session = NoSessions
        /\ req[r].written = {} /\ req[r].reply = NoReply /\ req[r].crowded \in BOOLEAN
  <2>1. Fresh.crowded \in BOOLEAN
    BY DEF Fresh
  <2> QED
    BY <1>2, <2>1 DEF Is
<1>4. NoSessions \in SessionMap /\ \A s \in Server : NoSessions[s] = NoSession
  BY DEF NoSessions, SessionMap
<1>5. \A r \in Request : RecordFits(r, req[r]) /\ RecordHolds(r, req[r])
  <2> SUFFICES ASSUME NEW r \in Request PROVE RecordFits(r, req[r]) /\ RecordHolds(r, req[r])
    OBVIOUS
  <2>1. Fit(r, "idle", <<>>, NoSessions, {}, NoReply)
    BY <1>4 DEF Fit, InSession
  <2>2. Fit(r, req[r].pc, req[r].agenda, req[r].session, req[r].written, req[r].reply)
    BY <1>3, <2>1
  <2>3. req[r].pc = "idle" /\ req[r].crowded \in BOOLEAN
    BY <1>3
  <2> QED
    BY <2>2, <2>3 DEF RecordFits, RecordHolds, Open
<1>6. Together
  BY <1>3 DEF Together, Open
<1>7. UsedIsCommitted
  <2>1. sessions \in [Client -> SessionMap \cup {NoReply}]
    BY <1>4 DEF Init
  <2>2. \A c \in Client : Known(c) => sessions[c] = NoSessions
    BY DEF Init, Known
  <2>3. used \in [Client -> SessionMap] /\ \A c \in Client : used[c] = NoSessions
    BY <1>4 DEF Init
  <2> QED
    BY <1>4, <2>1, <2>2, <2>3 DEF UsedIsCommitted
<1>8. SessionInv
  BY <1>1, <1>5, <1>6, <1>7 DEF SessionInv, GateInv
<1>9. WorldOK
  BY DEF Init, WorldOK
<1>10. NoReply \notin Status
  BY GatewayAssumption DEF GatewayAssumption
<1>11. \A r \in Request : Told(r)
  BY <1>3, <1>10 DEF Told, Status
<1> QED
  BY <1>1, <1>8, <1>9, <1>11 DEF GatewayInv

\* What nothing but the world or the observation changes.
LEMMA SessionsStay ==
  ASSUME SessionInv, req' = req, sessions' = sessions, used' = used
  PROVE  SessionInv'
<1>1. RequestsShaped'
  BY DEF SessionInv, RequestsShaped, Shaped
<1>2. ASSUME NEW r \in Request PROVE RecordFits(r, req[r])' /\ RecordHolds(r, req[r])'
  <2>1. RecordFits(r, req[r]) /\ RecordHolds(r, req[r])
    BY DEF SessionInv
  <2>2. RecordFits(r, req[r])'
    BY <2>1 DEF RecordFits, Fit, Calls, client, tool
  <2>3. RecordHolds(r, req[r])'
    BY <2>1 DEF RecordHolds, Holds, Agrees, Open, Known, Calls, client, target, tool
  <2> QED
    BY <2>2, <2>3
<1>3. Together'
  BY DEF SessionInv, Together, Open, client
<1>4. UsedIsCommitted'
  BY DEF SessionInv, UsedIsCommitted, Known
<1> QED
  BY <1>1, <1>2, <1>3, <1>4 DEF SessionInv

\* All of it is kept by every step.
LEMMA GatewayNext == GatewayInv /\ [Next]_vars => GatewayInv'
<1> SUFFICES ASSUME GatewayInv, [Next]_vars PROVE GatewayInv'
  OBVIOUS
<1>1. GateInv /\ SessionInv /\ WorldOK /\ RequestsShaped /\ \A r \in Request : Told(r)
  BY DEF GatewayInv, GateInv
<1>2. GateInv'
  BY <1>1, GateNext
<1>3. CASE \E r \in Request : Arrive(r)
  <2>1. PICK r \in Request : Arrive(r)
    BY <1>3
  <2>2. /\ SessionInv' /\ WorldOK'
        /\ req'[r].reply = NoReply /\ \A q \in Request \ {r} : req'[q].reply = req[q].reply
    BY <1>1, <2>1, ArriveStep, WorldStep
  <2>3. executed' = executed
    BY <2>1 DEF Arrive
  <2>4. NoReply \notin Status
    BY GatewayAssumption DEF GatewayAssumption
  <2>5. \A q \in Request : Told(q)'
    BY <1>1, <2>2, <2>3, <2>4 DEF Told, Calls, Status
  <2> QED
    BY <1>2, <2>2, <2>5 DEF GatewayInv
<1>4. CASE \E r \in Request : Step(r)
  <2>1. PICK r \in Request : Step(r)
    BY <1>4
  <2>2. WorldOK'
    BY <1>1, <2>1, WorldStep
  <2>3. SessionInv'
    <3>1. available \subseteq Tool
      BY <1>1 DEF WorldOK
    <3> QED
      BY <1>1, <2>1, <3>1, CommitStep, LoadStep, InsertStep, ReportStep, RecordingStep, GatesStep
      DEF Step
  <2>4. Answers(r) /\ \A q \in Request \ {r} : req'[q] = req[q]
    BY <1>1, <2>1, StepAnswers
  <2>5. Told(r)'
    BY <1>1, <2>4, AnswerTells
  <2>6. \A q \in Request \ {r} : executed'[q] = executed[q]
    <3>1. executed' = executed \/ Work(r)
      BY <2>1
      DEF Step, Respond, Commit, Scope, ListTools, Policies, Limit, Resolve, Refuse, LoadSession,
          MissSession, InsertSession, InsertFails, Probe, Report, Record, CallServer,
          CallServerFails, RestRefused, RestReady, SendRest, SendRestFails, BreakDeadlock, Reached, Go
    <3> QED
      BY <1>1, <3>1 DEF Work, GateInv
  <2>7. \A q \in Request \ {r} : Told(q)'
    BY <1>1, <2>4, <2>6 DEF Told, Calls
  <2> QED
    BY <1>2, <2>2, <2>3, <2>5, <2>7 DEF GatewayInv
<1>5. CASE External \/ UNCHANGED vars
  <2>1. req' = req /\ sessions' = sessions /\ used' = used /\ executed' = executed
    BY <1>5 DEF External, ChangeAvailable, ChangePolicies, Stop, Restart, Change, vars, world
  <2>2. SessionInv'
    BY <1>1, <2>1, SessionsStay
  <2>3. WorldOK'
    <3>1. CASE External
      BY <1>1, <3>1, WorldChanges
    <3>2. CASE UNCHANGED vars
      BY <1>1, <3>2 DEF vars, world, WorldOK
    <3> QED
      BY <1>5, <3>1, <3>2
  <2>4. \A r \in Request : Told(r)'
    BY <1>1, <2>1 DEF Told, Calls
  <2> QED
    BY <1>2, <2>2, <2>3, <2>4 DEF GatewayInv
<1> QED
  BY <1>3, <1>4, <1>5 DEF Next

-----------------------------------------------------------------------------

\* The variables have their types, nothing is recorded for a server without
\* sessions, and no two requests hold the same row (McpSessionManager
\* record_server_session, and the row locks of PostgreSQL).
THEOREM GatewayTyped == Spec => []TypeOK
<1>1. GatewayInv => TypeOK
  <2> SUFFICES ASSUME GatewayInv PROVE TypeOK
    OBVIOUS
  <2>1. /\ available \subseteq Tool /\ policies \subseteq Policy /\ up \subseteq Server
        /\ live \subseteq Stateful \X Request /\ rows \subseteq Request \X Status
    BY DEF GatewayInv, WorldOK
  <2>2. /\ sessions \in [Client -> [Server -> Request \cup {NoSession}] \cup {NoReply}]
        /\ \A c \in Client : Known(c) => \A s \in Server \ Stateful : sessions[c][s] = NoSession
        /\ used \in [Client -> SessionMap]
    BY DEF GatewayInv, SessionInv, UsedIsCommitted, SessionMap
  <2>3. executed \in [Request -> Nat]
    BY DEF GatewayInv, GateInv
  <2>4. \A r \in Request : req[r].written \subseteq Server \cup {client(r)}
    BY DEF GatewayInv, SessionInv, RecordFits, Fit
  <2>5. \A r, q \in Request : r # q => req[r].written \cap req[q].written = {}
    BY DEF GatewayInv, SessionInv, Together
  <2> QED
    BY <2>1, <2>2, <2>3, <2>4, <2>5 DEF TypeOK
<1> QED
  BY <1>1, GatewayInit, GatewayNext, PTL DEF Spec

\* A result of a call comes from a target that did the work; after a refusal, or
\* for a server that was unreachable, no target has worked (the order of gates,
\* session and call in mcp_gateway).
THEOREM RepliesAreHonest == Spec => []ReplyTellsTheCall
<1>1. GatewayInv => ReplyTellsTheCall
  BY DEF GatewayInv, Told, ReplyTellsTheCall
<1> QED
  BY <1>1, GatewayInit, GatewayNext, PTL DEF Spec

\* A client that sends one request after the other calls a server in the session
\* its last request used or opened (get_server_session_id,
\* record_server_session and the commit after the response).
THEOREM ClientsKeepTheirSessions == Spec => []ReturnsToItsSession
<1>1. GatewayInv => ReturnsToItsSession
  <2> SUFFICES ASSUME GatewayInv, NEW r \in Request, NEW s \in Server, At(r, "call"),
                      ~req[r].crowded, used[client(r)][s] # NoSession
               PROVE  req[r].session[s] = used[client(r)][s]
    BY DEF ReturnsToItsSession
  <2>1. Calls(r)
    BY DEF GatewayInv, GateInv, GatesPassed, InCall, At
  <2>2. Holds(r, "call", req[r].agenda, req[r].session, req[r].written)
    BY DEF GatewayInv, SessionInv, RecordHolds, Open, At
  <2> QED
    BY <2>1, <2>2 DEF Holds, Agrees
<1> QED
  BY <1>1, GatewayInit, GatewayNext, PTL DEF Spec

=============================================================================
