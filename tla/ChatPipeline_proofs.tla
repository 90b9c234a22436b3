------------------------- MODULE ChatPipeline_proofs -------------------------
(***************************************************************************)
(* For any keys, rules, targets and requests: a request gets past the      *)
(* middleware only with a key that was active while it was there, a chat   *)
(* text is delivered only as the response guardrail returned it, or raw if *)
(* that returned an empty one, and what is charged is the price of what    *)
(* was served.                                                             *)
(***************************************************************************)
EXTENDS ChatPipelineProps, WellFoundedInduction, TLAPS

\* A request record has the fields of Fresh.
Shaped(record) ==
  record = [pc |-> record.pc, targets |-> record.targets, served |-> record.served,
            result |-> record.result, hit |-> record.hit, status |-> record.status]

RequestsShaped ==
  /\ req = [r \in Request |-> req[r]]
  /\ \A r \in Request : Shaped(req[r])

-----------------------------------------------------------------------------
\* The records.

\* Fresh and Ended records are shaped, and say how they were made.
LEMMA EndedShaped ==
  ASSUME NEW r, NEW status
  PROVE  /\ Shaped(Fresh) /\ Fresh.pc = "idle" /\ Fresh.status = "none"
         /\ Shaped(Ended(r, status))
         /\ Ended(r, status).pc = "ended" /\ Ended(r, status).status = status
<1>1. Shaped(Fresh) /\ Fresh.pc = "idle" /\ Fresh.status = "none"
  BY DEF Fresh, Shaped
<1> DEFINE placed == [Fresh EXCEPT !.pc = "ended"]
<1>2. Shaped(placed) /\ placed.pc = "ended"
  BY <1>1 DEF Shaped
<1>3. Ended(r, status) = [placed EXCEPT !.status = status]
  BY DEF Ended, Fresh
<1> HIDE DEF placed
<1>4. Shaped(Ended(r, status)) /\ Ended(r, status).pc = "ended" /\ Ended(r, status).status = status
  BY <1>2, <1>3 DEF Shaped
<1> QED
  BY <1>1, <1>4

\* Moving a request keeps everything but its place.
LEMMA MovedShaped ==
  ASSUME NEW r, NEW place, Shaped(req[r])
  PROVE  Moved(r, place) =
           [pc |-> place, targets |-> req[r].targets, served |-> req[r].served,
            result |-> req[r].result, hit |-> req[r].hit, status |-> req[r].status]
BY DEF Moved, Shaped

\* A step that writes one record leaves the others, and keeps their shape.
LEMMA OthersStay ==
  ASSUME RequestsShaped, NEW r \in Request, NEW record, Shaped(record),
         req' = [req EXCEPT ![r] = record]
  PROVE  /\ RequestsShaped' /\ req'[r] = record
         /\ \A q \in Request \ {r} : req'[q] = req[q]
<1>1. req'[r] = record /\ \A q \in Request \ {r} : req'[q] = req[q]
  BY DEF RequestsShaped
<1>2. req' = [q \in Request |-> req'[q]]
  BY DEF RequestsShaped
<1>3. \A q \in Request : Shaped(req[q])'
  BY <1>1 DEF RequestsShaped, Shaped
<1> QED
  BY <1>1, <1>2, <1>3 DEF RequestsShaped

-----------------------------------------------------------------------------
\* Who gets in.

\* The places of a request that no key has been found for, or that is over.
Outside == {"idle", "verify", "by_id", "by_hash", "ended"}

\* The invariant: from the place where the row of its key was found active, the
\* history knows that it was.  Remember and Touch come between that row and
\* the middleware's verdict, so they are in it.
AdmittedInv ==
  /\ RequestsShaped
  /\ window \in [Request -> BOOLEAN]
  /\ \A r \in Request : req[r].pc \in Outside \/ window[r]

\* What a step does to a request: it leaves it alone, moves it within or to the
\* outside, moves it on from where it had been let in, or reads an active key.
Admits(r) ==
  \/ req'[r] = req[r]
  \/ req'[r].pc \in Outside
  \/ req[r].pc \notin Outside
  \/ keys[key(r)] = "active"

\* A step to one place of one request, that is of one of those kinds.
LEMMA GoAdmits ==
  ASSUME RequestsShaped, NEW r \in Request, NEW record, Shaped(record),
         req' = [req EXCEPT ![r] = record],
         record.pc \in Outside \/ req[r].pc \notin Outside \/ keys[key(r)] = "active"
  PROVE  RequestsShaped' /\ \A q \in Request : Admits(q)
<1>1. /\ RequestsShaped' /\ req'[r] = record
      /\ \A q \in Request \ {r} : req'[q] = req[q]
  BY OthersStay
<1>2. Admits(r)
  BY <1>1 DEF Admits
<1>3. \A q \in Request \ {r} : Admits(q)
  BY <1>1 DEF Admits
<1> QED
  BY <1>1, <1>2, <1>3

\* The steps of the authentication.
LEMMA VerifyAdmits ==
  ASSUME RequestsShaped, NEW r \in Request,
         \/ Arrive(r) \/ KnownKey(r) \/ UnknownKey(r) \/ LoadById(r) \/ LoadByHash(r)
         \/ NoSuchKey(r) \/ Remember(r) \/ Touch(r) \/ Touched(r)
  PROVE  RequestsShaped' /\ \A q \in Request : Admits(q)
<1> DEFINE move(place) ==
      [pc |-> place, targets |-> req[r].targets, served |-> req[r].served,
       result |-> req[r].result, hit |-> req[r].hit, status |-> req[r].status]
<1>1. \A place : Moved(r, place) = move(place) /\ Shaped(move(place)) /\ move(place).pc = place
  BY MovedShaped DEF RequestsShaped, Shaped
<1>2. Shaped(Ended(r, "unauthorized")) /\ Ended(r, "unauthorized").pc = "ended"
  BY EndedShaped
<1> HIDE DEF move
<1>3. \A place : Shaped(Moved(r, place)) /\ Moved(r, place).pc = place
  BY <1>1
<1>4. PICK record :
        /\ Shaped(record) /\ req' = [req EXCEPT ![r] = record]
        /\ record.pc \in Outside \/ req[r].pc \notin Outside \/ keys[key(r)] = "active"
  <2>1. CASE Arrive(r) \/ KnownKey(r) \/ UnknownKey(r)
    BY <2>1, <1>3 DEF Arrive, KnownKey, UnknownKey, Go, Outside
  <2>2. CASE LoadById(r)
    <3>1. CASE keys[key(r)] = "active"
      BY <2>2, <3>1, <1>3 DEF LoadById, Go
    <3>2. CASE keys[key(r)] # "active"
      BY <2>2, <3>2, <1>3 DEF LoadById, Go, Outside
    <3> QED
      BY <3>1, <3>2
  <2>3. CASE LoadByHash(r)
    BY <2>3, <1>3 DEF LoadByHash, Go
  <2>4. CASE NoSuchKey(r)
    BY <2>4, <1>2 DEF NoSuchKey, Go, Outside
  <2>5. CASE Remember(r)
    BY <2>5, <1>3 DEF Remember, At, Outside
  <2>6. CASE Touch(r)
    BY <2>6, <1>3 DEF Touch, At, Outside
  <2>7. CASE Touched(r)
    BY <2>7, <1>2, <1>3 DEF Touched, At, Outside
  <2> QED
    BY <2>1, <2>2, <2>3, <2>4, <2>5, <2>6, <2>7
<1> QED
  BY <1>4, GoAdmits

\* The records of the pipeline: any place, and what the steps fill in.
LEMMA FilledShaped ==
  ASSUME NEW r \in Request, RequestsShaped, NEW place
  PROVE  /\ Shaped(Moved(r, place)) /\ Moved(r, place).pc = place
         /\ Moved(r, place).result = req[r].result /\ Moved(r, place).status = req[r].status
         /\ Moved(r, place).targets = req[r].targets
         /\ \A v : /\ Shaped([Moved(r, place) EXCEPT !.targets = v])
                   /\ [Moved(r, place) EXCEPT !.targets = v].pc = place
                   /\ [Moved(r, place) EXCEPT !.targets = v].status = req[r].status
         /\ \A v : /\ Shaped([Moved(r, place) EXCEPT !.status = v])
                   /\ [Moved(r, place) EXCEPT !.status = v].pc = place
                   /\ [Moved(r, place) EXCEPT !.status = v].status = v
                   /\ [Moved(r, place) EXCEPT !.status = v].result = req[r].result
<1> DEFINE moved == Moved(r, place)
<1>1. moved = [pc |-> place, targets |-> req[r].targets, served |-> req[r].served,
               result |-> req[r].result, hit |-> req[r].hit, status |-> req[r].status]
  BY MovedShaped DEF RequestsShaped
<1> HIDE DEF moved
<1>2. Shaped(moved) /\ moved.pc = place /\ moved.result = req[r].result
      /\ moved.status = req[r].status /\ moved.targets = req[r].targets
  BY <1>1 DEF Shaped
<1>3. ASSUME NEW v
      PROVE  /\ Shaped([moved EXCEPT !.targets = v]) /\ [moved EXCEPT !.targets = v].pc = place
             /\ [moved EXCEPT !.targets = v].status = req[r].status
  BY <1>1 DEF Shaped
<1>4. ASSUME NEW v
      PROVE  /\ Shaped([moved EXCEPT !.status = v]) /\ [moved EXCEPT !.status = v].pc = place
             /\ [moved EXCEPT !.status = v].status = v
             /\ [moved EXCEPT !.status = v].result = req[r].result
  BY <1>1 DEF Shaped
<1> QED
  BY <1>2, <1>3, <1>4 DEF moved

\* A record of r at a place, with a result.
Carries(record, r, place, result) ==
  Shaped(record) /\ record.pc = place /\ record.result = result /\ record.status = req[r].status

\* A record that carries what the cache gave.
LEMMA HitShaped ==
  ASSUME NEW r \in Request, RequestsShaped, NEW place, NEW result, NEW hit
  PROVE  Carries([Moved(r, place) EXCEPT !.result = result, !.hit = hit], r, place, result)
<1> DEFINE record == [Moved(r, place) EXCEPT !.result = result, !.hit = hit]
           moved == Moved(r, place)
           carrying == [moved EXCEPT !.result = result]
<1>1. moved = [pc |-> place, targets |-> req[r].targets, served |-> req[r].served,
               result |-> req[r].result, hit |-> req[r].hit, status |-> req[r].status]
  BY MovedShaped DEF RequestsShaped
<1>2. record = [carrying EXCEPT !.hit = hit]
  OBVIOUS
<1> HIDE DEF moved
<1>3. carrying = [pc |-> place, targets |-> req[r].targets, served |-> req[r].served,
                  result |-> result, hit |-> req[r].hit, status |-> req[r].status]
  BY <1>1
<1> HIDE DEF carrying, record
<1>4. Carries(record, r, place, result)
  BY <1>2, <1>3 DEF Carries, Shaped
<1> QED
  BY <1>4 DEF record, moved

\* A record that carries what a target answered.
LEMMA AnswerShaped ==
  ASSUME NEW r \in Request, RequestsShaped, NEW place, NEW target, NEW result
  PROVE  Carries([Moved(r, place) EXCEPT !.served = target, !.result = result], r, place, result)
<1> DEFINE record == [Moved(r, place) EXCEPT !.served = target, !.result = result]
           moved == Moved(r, place)
           served == [moved EXCEPT !.served = target]
<1>1. moved = [pc |-> place, targets |-> req[r].targets, served |-> req[r].served,
               result |-> req[r].result, hit |-> req[r].hit, status |-> req[r].status]
  BY MovedShaped DEF RequestsShaped
<1>2. record = [served EXCEPT !.result = result]
  OBVIOUS
<1> HIDE DEF moved
<1>3. served = [pc |-> place, targets |-> req[r].targets, served |-> target,
                result |-> req[r].result, hit |-> req[r].hit, status |-> req[r].status]
  BY <1>1
<1> HIDE DEF served, record
<1>4. Carries(record, r, place, result)
  BY <1>2, <1>3 DEF Carries, Shaped
<1> QED
  BY <1>4 DEF record, moved

\* A record whose text the guardrail has seen: the rest of the result stays.
LEMMA VerdictShaped ==
  ASSUME NEW r \in Request, RequestsShaped, NEW text
  PROVE  LET record == [Moved(r, "store") EXCEPT !.result.text = text]
         IN  /\ record = [pc |-> "store", targets |-> req[r].targets, served |-> req[r].served,
                          result |-> [req[r].result EXCEPT !.text = text],
                          hit |-> req[r].hit, status |-> req[r].status]
             /\ Shaped(record)
<1> DEFINE moved == Moved(r, "store")
           seen == [moved.result EXCEPT !.text = text]
           record == [moved EXCEPT !.result = seen]
<1>1. moved = [pc |-> "store", targets |-> req[r].targets, served |-> req[r].served,
               result |-> req[r].result, hit |-> req[r].hit, status |-> req[r].status]
  BY MovedShaped DEF RequestsShaped
<1>2. [Moved(r, "store") EXCEPT !.result.text = text] = record
  OBVIOUS
<1> HIDE DEF moved
<1>3. seen = [req[r].result EXCEPT !.text = text]
  BY <1>1
<1> HIDE DEF seen
<1>4. record = [pc |-> "store", targets |-> req[r].targets, served |-> req[r].served,
                result |-> seen, hit |-> req[r].hit, status |-> req[r].status]
  BY <1>1
<1> HIDE DEF record
<1>5. Shaped(record)
  BY <1>4 DEF Shaped
<1> QED
  BY <1>2, <1>3, <1>4, <1>5

\* The steps of the pipeline take only requests that have been let in.
LEMMA PipelineAdmits ==
  ASSUME RequestsShaped, NEW r \in Request,
         \/ Limit(r) \/ CheckPrompt(r) \/ CacheHit(r) \/ CacheMiss(r) \/ Route(r) \/ NoRoute(r)
         \/ Complete(r) \/ Embed(r) \/ CheckResponse(r) \/ Store(r) \/ Respond(r) \/ Record(r)
         \/ Refuse(r)
  PROVE  RequestsShaped' /\ \A q \in Request : Admits(q)
<1>1. PICK record : Shaped(record) /\ req' = [req EXCEPT ![r] = record]
  <2>1. CASE Limit(r) \/ CheckPrompt(r) \/ CacheMiss(r)
    BY <2>1, FilledShaped DEF Limit, CheckPrompt, CacheMiss, Go
  <2>2. CASE CacheHit(r)
    <3> DEFINE record == [Moved(r, "respond") EXCEPT !.result = cache[slot(r)], !.hit = TRUE]
    <3>1. Carries(record, r, "respond", cache[slot(r)])
      BY HitShaped
    <3>2. req' = [req EXCEPT ![r] = record]
      BY <2>2 DEF CacheHit, Go
    <3> HIDE DEF record
    <3> QED
      BY <3>1, <3>2 DEF Carries
  <2>3. CASE Route(r)
    <3>1. PICK ordered : Go(r, [Moved(r, "complete") EXCEPT !.targets = ordered])
      BY <2>3 DEF Route
    <3> QED
      BY <3>1, FilledShaped DEF Go
  <2>4. CASE NoRoute(r) \/ Refuse(r)
    BY <2>4, EndedShaped DEF NoRoute, Refuse, Go
  <2>5. CASE Complete(r) \/ Embed(r)
    <3>1. PICK place : Answered(r, place)
      BY <2>5 DEF Complete, Embed
    <3>2. PICK target, result :
            Go(r, [Moved(r, place) EXCEPT !.served = target, !.result = result])
      BY <3>1 DEF Answered
    <3> DEFINE record == [Moved(r, place) EXCEPT !.served = target, !.result = result]
    <3>3. Carries(record, r, place, result)
      BY AnswerShaped
    <3>4. req' = [req EXCEPT ![r] = record]
      BY <3>2 DEF Go
    <3> HIDE DEF record
    <3> QED
      BY <3>3, <3>4 DEF Carries
  <2>6. CASE CheckResponse(r)
    <3>1. PICK text : req' = [req EXCEPT ![r] = [Moved(r, "store") EXCEPT !.result.text = text]]
      BY <2>6 DEF CheckResponse
    <3> DEFINE record == [Moved(r, "store") EXCEPT !.result.text = text]
    <3>2. Shaped(record)
      BY VerdictShaped
    <3> HIDE DEF record
    <3> QED
      BY <3>1, <3>2 DEF record
  <2>7. CASE Store(r) \/ Record(r)
    BY <2>7, FilledShaped DEF Store, Record
  <2>8. CASE Respond(r)
    BY <2>8, FilledShaped DEF Respond, Go
  <2> QED
    BY <2>1, <2>2, <2>3, <2>4, <2>5, <2>6, <2>7, <2>8
<1>2. req[r].pc \notin Outside
  BY DEF Limit, CheckPrompt, CacheHit, CacheMiss, Route, NoRoute, Complete, Embed, CheckResponse,
         Store, Respond, Record, Refuse, At, Outside
<1> QED
  BY <1>1, <1>2, GoAdmits

\* The steps of the administrators and of time leave the requests alone.
LEMMA RestAdmits ==
  ASSUME RequestsShaped, req' = req
  PROVE  RequestsShaped' /\ \A q \in Request : Admits(q)
BY DEF RequestsShaped, Shaped, Admits

\* A step of one of those kinds, observed, keeps the invariant.
LEMMA ObservedStep ==
  ASSUME AdmittedInv, RequestsShaped', \A q \in Request : Admits(q), Observe
  PROVE  AdmittedInv'
<1>1. window' \in [Request -> BOOLEAN]
  <2>1. \A r \in Request : window[r] \in BOOLEAN
    BY DEF AdmittedInv
  <2> QED
    BY <2>1 DEF Observe
<1>2. ASSUME NEW r \in Request PROVE req'[r].pc \in Outside \/ window'[r]
  <2> SUFFICES ASSUME req'[r].pc \notin Outside PROVE window'[r]
    OBVIOUS
  <2>1. req'[r].pc \notin {"idle", "ended"}
    BY DEF Outside
  <2>2. window'[r] = (window[r] \/ keys[key(r)] = "active" \/ keys'[key(r)] = "active")
    BY <2>1 DEF Observe
  <2>3. window[r] \/ keys[key(r)] = "active"
    BY DEF AdmittedInv, Admits
  <2> QED
    BY <2>2, <2>3
<1> QED
  BY <1>1, <1>2 DEF AdmittedInv

\* No request has been let in at first.
LEMMA InitAdmitted == Init => AdmittedInv
<1> SUFFICES ASSUME Init PROVE AdmittedInv
  OBVIOUS
<1>1. req = [r \in Request |-> Fresh] /\ window = [r \in Request |-> FALSE]
  BY DEF Init
<1>2. Shaped(Fresh) /\ Fresh.pc \in Outside
  BY EndedShaped DEF Outside
<1>3. \A r \in Request : req[r] = Fresh
  BY <1>1
<1> QED
  BY <1>1, <1>2, <1>3 DEF AdmittedInv, RequestsShaped

\* Every step keeps the invariant.
LEMMA NextAdmitted == AdmittedInv /\ [Next]_vars => AdmittedInv'
<1> SUFFICES ASSUME AdmittedInv, [Next]_vars PROVE AdmittedInv'
  OBVIOUS
<1>1. CASE UNCHANGED vars
  BY <1>1 DEF AdmittedInv, RequestsShaped, Shaped, vars, admin
<1>2. CASE Next
  <2>1. RequestsShaped
    BY DEF AdmittedInv
  <2>2. RequestsShaped' /\ \A q \in Request : Admits(q)
    <3>1. CASE \E r \in Request : Step(r)
      BY <3>1, <2>1, VerifyAdmits, PipelineAdmits DEF Step
    <3>2. CASE \E k \in Passing : KeyStep(k)
      <4>1. req' = req
        BY <3>2 DEF KeyStep, Issue, RevokeLoad, RevokeFlush, RevokeDrop, RevokeCommit, RevokeDies
      <4> QED
        BY <4>1, <2>1, RestAdmits
    <3>3. CASE (\E k \in Key : ForgetKey(k)) \/ (\E s \in Endpoint \X Prompt : Expire(s))
      <4>1. req' = req
        BY <3>3 DEF ForgetKey, Expire
      <4> QED
        BY <4>1, <2>1, RestAdmits
    <3> QED
      BY <1>2, <3>1, <3>2, <3>3 DEF Next
  <2> QED
    BY <1>2, <2>2, ObservedStep DEF Next
<1> QED
  BY <1>1, <1>2

\* A request gets past the middleware only with a key that was active at some
\* time since it came (verify_api_key against revoke_api_key).
THEOREM AdmittedWithAnActiveKey == Spec => []AdmittedKeyWasActive
<1>1. AdmittedInv => AdmittedKeyWasActive
  BY DEF AdmittedInv, AdmittedKeyWasActive, Outside
<1> QED
  BY <1>1, InitAdmitted, NextAdmitted, PTL DEF Spec

-----------------------------------------------------------------------------
\* What is delivered.

\* What a record of a request says of its text: a success is over or about to
\* be; a chat text waits for the verdict as the provider gave it, and after
\* that the guardrail has let it through.
TextChecked(r, record) ==
  /\ record.status = "success" => record.pc \in {"record", "ended"}
  /\ endpoint(r) = "chat" =>
       /\ record.pc = "verdict" =>
            record.result = [text |-> [by |-> r, form |-> "raw"], name |-> record.result.name,
                             provider |-> record.result.provider]
       /\ record.pc \in {"store", "respond"} \/ record.status = "success" =>
            LetThrough(record.result.text)

\* So has every text the cache keeps for chats.
CacheChecked ==
  /\ cache = [s \in Endpoint \X Prompt |-> cache[s]]
  /\ \A s \in Endpoint \X Prompt : s[1] = "chat" /\ cache[s] # None => LetThrough(cache[s].text)

CheckedInv ==
  /\ RequestsShaped
  /\ CacheChecked
  /\ \A r \in Request : TextChecked(r, req[r])

\* A step that writes one checked record and forgets no text keeps the invariant.
LEMMA CheckedStep ==
  ASSUME CheckedInv, NEW r \in Request, NEW record, Shaped(record),
         req' = [req EXCEPT ![r] = record], passed \subseteq passed', CacheChecked',
         TextChecked(r, record)'
  PROVE  CheckedInv'
<1>1. /\ RequestsShaped' /\ req'[r] = record
      /\ \A q \in Request \ {r} : req'[q] = req[q]
  BY OthersStay DEF CheckedInv
<1>2. ASSUME NEW q \in Request \ {r} PROVE TextChecked(q, req[q])'
  <2>1. TextChecked(q, req[q])
    BY DEF CheckedInv
  <2>2. req'[q] = req[q]
    BY <1>1
  <2> QED
    BY <2>1, <2>2 DEF TextChecked, LetThrough
<1>3. TextChecked(r, req[r])'
  BY <1>1 DEF TextChecked
<1> QED
  BY <1>1, <1>2, <1>3 DEF CheckedInv

\* If no text is let through and the cache stays, it is checked as before.
LEMMA CacheStays ==
  ASSUME CacheChecked, cache' = cache, passed \subseteq passed'
  PROVE  CacheChecked'
BY DEF CacheChecked, LetThrough

\* A step to a place where no text is at hand, other than the end of a success.
LEMMA QuietStep ==
  ASSUME CheckedInv, NEW r \in Request, NEW record, Shaped(record),
         req' = [req EXCEPT ![r] = record], cache' = cache, passed' = passed,
         record.pc \notin {"verdict", "store", "respond"}, record.status # "success"
  PROVE  CheckedInv'
<1>1. CacheChecked'
  BY CacheStays DEF CheckedInv
<1>2. TextChecked(r, record)'
  BY DEF TextChecked
<1> QED
  BY <1>1, <1>2, CheckedStep

\* The steps of the authentication carry no text.
LEMMA VerifyChecked ==
  ASSUME CheckedInv, NEW r \in Request,
         \/ Arrive(r) \/ KnownKey(r) \/ UnknownKey(r) \/ LoadById(r) \/ LoadByHash(r)
         \/ NoSuchKey(r) \/ Remember(r) \/ Touch(r) \/ Touched(r)
  PROVE  CheckedInv'
<1>1. RequestsShaped /\ TextChecked(r, req[r])
  BY DEF CheckedInv
<1>2. req[r].status # "success"
  BY <1>1 DEF TextChecked, Arrive, KnownKey, UnknownKey, LoadById, LoadByHash, NoSuchKey, Remember,
              Touch, Touched, At
<1>3. \A place : Shaped(Moved(r, place)) /\ Moved(r, place).pc = place
                 /\ Moved(r, place).status # "success"
  BY <1>1, <1>2, FilledShaped
<1>4. /\ Shaped(Ended(r, "unauthorized")) /\ Ended(r, "unauthorized").pc = "ended"
      /\ Ended(r, "unauthorized").status # "success"
  BY EndedShaped
<1>5. cache' = cache /\ passed' = passed
  BY DEF Arrive, KnownKey, UnknownKey, LoadById, LoadByHash, NoSuchKey, Remember, Touch, Touched, Go
<1>6. PICK record :
        /\ Shaped(record) /\ req' = [req EXCEPT ![r] = record]
        /\ record.pc \notin {"verdict", "store", "respond"} /\ record.status # "success"
  <2>1. CASE Arrive(r) \/ KnownKey(r) \/ UnknownKey(r) \/ LoadByHash(r)
    BY <2>1, <1>3 DEF Arrive, KnownKey, UnknownKey, LoadByHash, Go
  <2>2. CASE LoadById(r)
    <3>1. PICK place \in {"limit", "by_hash"} : Go(r, Moved(r, place))
      BY <2>2 DEF LoadById
    <3> QED
      BY <3>1, <1>3 DEF Go
  <2>3. CASE NoSuchKey(r)
    BY <2>3, <1>4 DEF NoSuchKey, Go
  <2>4. CASE Remember(r) \/ Touch(r)
    BY <2>4, <1>3 DEF Remember, Touch
  <2>5. CASE Touched(r)
    BY <2>5, <1>3, <1>4 DEF Touched
  <2> QED
    BY <2>1, <2>2, <2>3, <2>4, <2>5
<1> QED
  BY <1>5, <1>6, QuietStep

\* The steps of the pipeline that carry no text.
LEMMA TextlessChecked ==
  ASSUME CheckedInv, NEW r \in Request,
         \/ Limit(r) \/ CheckPrompt(r) \/ CacheMiss(r) \/ Route(r) \/ NoRoute(r) \/ Refuse(r)
  PROVE  CheckedInv'
<1>1. RequestsShaped /\ TextChecked(r, req[r])
  BY DEF CheckedInv
<1>2. req[r].status # "success"
  BY <1>1 DEF TextChecked, Limit, CheckPrompt, CacheMiss, Route, NoRoute, Refuse, At
<1>3. ASSUME NEW place
      PROVE  /\ Shaped(Moved(r, place)) /\ Moved(r, place).pc = place
             /\ Moved(r, place).status # "success"
             /\ \A v : /\ Shaped([Moved(r, place) EXCEPT !.targets = v])
                       /\ [Moved(r, place) EXCEPT !.targets = v].pc = place
                       /\ [Moved(r, place) EXCEPT !.targets = v].status # "success"
  BY <1>1, <1>2, FilledShaped
<1>4. cache' = cache /\ passed' = passed
  BY DEF Limit, CheckPrompt, CacheMiss, Route, NoRoute, Refuse, Go
<1>5. PICK record :
        /\ Shaped(record) /\ req' = [req EXCEPT ![r] = record]
        /\ record.pc \notin {"verdict", "store", "respond"} /\ record.status # "success"
  <2>1. CASE Limit(r) \/ CheckPrompt(r) \/ CacheMiss(r)
    BY <2>1, <1>3 DEF Limit, CheckPrompt, CacheMiss, Go
  <2>2. CASE Route(r)
    <3>1. PICK ordered : Go(r, [Moved(r, "complete") EXCEPT !.targets = ordered])
      BY <2>2 DEF Route
    <3> DEFINE routed == [Moved(r, "complete") EXCEPT !.targets = ordered]
    <3>2. Shaped(routed) /\ routed.pc = "complete" /\ routed.status # "success"
      BY <1>3
    <3>3. req' = [req EXCEPT ![r] = routed]
      BY <3>1 DEF Go
    <3> HIDE DEF routed
    <3> QED
      BY <3>2, <3>3
  <2>3. CASE NoRoute(r) \/ Refuse(r)
    <3>1. PICK status \in {"failed", "blocked", "refused"} : Go(r, Ended(r, status))
      BY <2>3 DEF NoRoute, Refuse
    <3>2. /\ Shaped(Ended(r, status)) /\ Ended(r, status).pc = "ended"
          /\ Ended(r, status).status # "success"
      BY EndedShaped
    <3> QED
      BY <3>1, <3>2 DEF Go
  <2> QED
    BY <2>1, <2>2, <2>3
<1> QED
  BY <1>4, <1>5, QuietStep

\* A hit delivers what the cache holds.
LEMMA CacheHitChecked ==
  ASSUME ChatAssumption, CheckedInv, NEW r \in Request, CacheHit(r)
  PROVE  CheckedInv'
<1> DEFINE hit == [Moved(r, "respond") EXCEPT !.result = cache[slot(r)], !.hit = TRUE]
<1>1. Shaped(hit) /\ hit.pc = "respond" /\ hit.result = cache[slot(r)] /\ hit.status = req[r].status
  <2>1. RequestsShaped
    BY DEF CheckedInv
  <2>2. Carries(hit, r, "respond", cache[slot(r)])
    BY <2>1, HitShaped
  <2> HIDE DEF hit
  <2> QED
    BY <2>2 DEF Carries
<1>2. req' = [req EXCEPT ![r] = hit] /\ cache' = cache /\ passed' = passed
  BY DEF CacheHit, Go
<1> HIDE DEF hit
<1>3. PICK record : record = hit
  OBVIOUS
<1>4. req[r].status # "success"
  BY DEF CheckedInv, TextChecked, CacheHit, At
<1>5. endpoint(r) = "chat" => LetThrough(cache[slot(r)].text)
  <2>1. slot(r) \in Endpoint \X Prompt /\ slot(r)[1] = endpoint(r)
    BY DEF ChatAssumption, slot, endpoint
  <2>2. cache[slot(r)] # None
    BY DEF CacheHit
  <2> QED
    BY <2>1, <2>2 DEF CheckedInv, CacheChecked
<1>6. TextChecked(r, record)'
  BY <1>1, <1>2, <1>3, <1>4, <1>5 DEF TextChecked, LetThrough
<1>7. CacheChecked'
  BY <1>2, CacheStays DEF CheckedInv
<1> QED
  BY <1>1, <1>2, <1>3, <1>6, <1>7, CheckedStep

\* An answer to a chat waits for its verdict; a vector needs none.
LEMMA AnswerChecked ==
  ASSUME CheckedInv, NEW r \in Request, Complete(r) \/ Embed(r)
  PROVE  CheckedInv'
<1>1. PICK place : /\ Answered(r, place)
                   /\ endpoint(r) = "chat" => place = "verdict"
  BY DEF Complete, Embed
<1>2. PICK target, name, provider :
        Go(r, [Moved(r, place) EXCEPT
                 !.served = target,
                 !.result = [text |-> [by |-> r, form |-> "raw"], name |-> name, provider |-> provider]])
  BY <1>1 DEF Answered
<1> DEFINE result == [text |-> [by |-> r, form |-> "raw"], name |-> name, provider |-> provider]
           answer == [Moved(r, place) EXCEPT !.served = target, !.result = result]
<1>3. result = [text |-> [by |-> r, form |-> "raw"], name |-> result.name,
                provider |-> result.provider]
  OBVIOUS
<1>4. req' = [req EXCEPT ![r] = answer] /\ cache' = cache /\ passed' = passed
  BY <1>2 DEF Go
<1> HIDE DEF result
<1>5. Shaped(answer) /\ answer.pc = place /\ answer.result = result /\ answer.status = req[r].status
  <2>1. RequestsShaped
    BY DEF CheckedInv
  <2>2. Carries(answer, r, place, result)
    BY <2>1, AnswerShaped
  <2> HIDE DEF answer
  <2> QED
    BY <2>2 DEF Carries
<1> HIDE DEF answer
<1>6. PICK record : record = answer
  OBVIOUS
<1>7. req[r].status # "success"
  BY DEF CheckedInv, TextChecked, Complete, Embed, At
<1>8. TextChecked(r, record)'
  BY <1>1, <1>3, <1>5, <1>6, <1>7 DEF TextChecked
<1>9. CacheChecked'
  BY <1>4, CacheStays DEF CheckedInv
<1> QED
  BY <1>4, <1>5, <1>6, <1>8, <1>9, CheckedStep

\* The text of a verdict has its type, and the guardrail has let it through.
LEMMA DeliveredText ==
  ASSUME NEW verdict \in Verdict, NEW seen, verdict \in seen
  PROVE  LET text == Delivered(verdict)
         IN  /\ text \in Text
             /\ text \in seen \/ (text.form = "raw" /\ [by |-> text.by, form |-> "empty"] \in seen)
<1>1. Delivered(verdict) = [by |-> verdict.by, form |-> Delivered(verdict).form]
  BY DEF Delivered, Verdict
<1>2. CASE verdict.form = "empty"
  <2>1. Delivered(verdict).form = "raw" /\ verdict = [by |-> verdict.by, form |-> "empty"]
    BY <1>2 DEF Delivered, Verdict
  <2> QED
    BY <1>1, <2>1 DEF Text, Verdict
<1>3. CASE verdict.form # "empty"
  <2>1. Delivered(verdict) = verdict
    BY <1>3 DEF Delivered, Verdict
  <2> QED
    BY <1>3, <2>1 DEF Text, Verdict
<1> QED
  BY <1>2, <1>3

\* The verdict puts into the result the text that is made of what it lets through.
LEMMA VerdictChecked ==
  ASSUME CheckedInv, NEW r \in Request, CheckResponse(r)
  PROVE  CheckedInv'
<1>1. PICK verdict \in Verdict :
        /\ req' = [req EXCEPT ![r] = [Moved(r, "store") EXCEPT !.result.text = Delivered(verdict)]]
        /\ passed' = passed \cup {verdict} /\ cache' = cache
  BY DEF CheckResponse
<1>2. RequestsShaped /\ TextChecked(r, req[r]) /\ req[r].pc = "verdict"
  BY DEF CheckedInv, CheckResponse, At
<1> DEFINE text == Delivered(verdict)
           checked == [Moved(r, "store") EXCEPT !.result.text = text]
<1>3. LetThrough(text)'
  BY <1>1, DeliveredText DEF LetThrough
<1>4. req' = [req EXCEPT ![r] = checked]
  BY <1>1
<1> HIDE DEF text
<1>5. checked = [pc |-> "store", targets |-> req[r].targets, served |-> req[r].served,
                 result |-> [req[r].result EXCEPT !.text = text],
                 hit |-> req[r].hit, status |-> req[r].status]
      /\ Shaped(checked)
  BY <1>2, VerdictShaped
<1> HIDE DEF checked
<1>6. endpoint(r) = "chat" => checked.result.text = text
  <2> SUFFICES ASSUME endpoint(r) = "chat" PROVE checked.result.text = text
    OBVIOUS
  <2>1. req[r].result = [text |-> [by |-> r, form |-> "raw"], name |-> req[r].result.name,
                         provider |-> req[r].result.provider]
    BY <1>2 DEF TextChecked
  <2>2. [req[r].result EXCEPT !.text = text].text = text
    BY <2>1
  <2> QED
    BY <1>5, <2>2
<1>7. checked.pc = "store" /\ checked.status # "success"
  BY <1>2, <1>5 DEF TextChecked
<1>8. PICK record : record = checked
  OBVIOUS
<1>9. TextChecked(r, record)'
  BY <1>3, <1>6, <1>7, <1>8 DEF TextChecked
<1>10. CacheChecked'
  BY <1>1, CacheStays DEF CheckedInv
<1> QED
  BY <1>1, <1>4, <1>5, <1>8, <1>9, <1>10, CheckedStep

\* Only a text that has been let through is cached.
LEMMA StoreChecked ==
  ASSUME ChatAssumption, CheckedInv, NEW r \in Request, Store(r)
  PROVE  CheckedInv'
<1>1. RequestsShaped /\ TextChecked(r, req[r]) /\ CacheChecked /\ req[r].pc = "store"
  BY DEF CheckedInv, Store, At
<1>2. req' = [req EXCEPT ![r] = Moved(r, "respond")] /\ passed' = passed
  BY DEF Store
<1>3. /\ Shaped(Moved(r, "respond")) /\ Moved(r, "respond").pc = "respond"
      /\ Moved(r, "respond").result = req[r].result
      /\ Moved(r, "respond").status = req[r].status
  BY <1>1, FilledShaped
<1>4. PICK record : record = Moved(r, "respond")
  OBVIOUS
<1>5. TextChecked(r, record)'
  BY <1>1, <1>2, <1>3, <1>4 DEF TextChecked, LetThrough
<1>6. CacheChecked'
  <2>1. CASE cache' = cache
    BY <2>1, <1>1, <1>2, CacheStays
  <2>2. CASE cache' = [cache EXCEPT ![slot(r)] = req[r].result]
    <3>1. slot(r) \in Endpoint \X Prompt /\ slot(r)[1] = endpoint(r)
      BY DEF ChatAssumption, slot, endpoint
    <3>2. cache' = [s \in Endpoint \X Prompt |-> cache'[s]]
      BY <2>2, <1>1 DEF CacheChecked
    <3>3. ASSUME NEW s \in Endpoint \X Prompt, s[1] = "chat", cache'[s] # None
          PROVE  LetThrough(cache[s].text)'
      <4>1. CASE s = slot(r)
        <5>1. cache'[s] = req[r].result
          BY <4>1, <2>2, <3>1, <1>1 DEF CacheChecked
        <5> QED
          BY <5>1, <4>1, <3>1, <3>3, <1>1, <1>2 DEF TextChecked, LetThrough
      <4>2. CASE s # slot(r)
        <5>1. cache'[s] = cache[s]
          BY <4>2, <2>2, <1>1 DEF CacheChecked
        <5> QED
          BY <5>1, <3>3, <1>1, <1>2 DEF CacheChecked, LetThrough
      <4> QED
        BY <4>1, <4>2
    <3> QED
      BY <3>2, <3>3 DEF CacheChecked, LetThrough
  <2> QED
    BY <2>1, <2>2 DEF Store
<1> QED
  BY <1>2, <1>3, <1>4, <1>5, <1>6, CheckedStep

\* The response is delivered as it is, and its row is written.
LEMMA DeliveryChecked ==
  ASSUME CheckedInv, NEW r \in Request, Respond(r) \/ Record(r)
  PROVE  CheckedInv'
<1>1. RequestsShaped /\ TextChecked(r, req[r]) /\ CacheChecked
  BY DEF CheckedInv
<1>2. cache' = cache /\ passed' = passed
  BY DEF Respond, Record, Go
<1>3. CacheChecked'
  BY <1>1, <1>2, CacheStays
<1>4. CASE Respond(r)
  <2> DEFINE sent == [Moved(r, "record") EXCEPT !.status = "success"]
  <2>1. Shaped(sent) /\ sent.pc = "record" /\ sent.status = "success" /\ sent.result = req[r].result
    BY <1>1, FilledShaped
  <2>2. req' = [req EXCEPT ![r] = sent] /\ req[r].pc = "respond"
    BY <1>4 DEF Respond, Go, At
  <2> HIDE DEF sent
  <2>3. PICK record : record = sent
    OBVIOUS
  <2>4. TextChecked(r, record)'
    BY <1>1, <1>2, <2>1, <2>2, <2>3 DEF TextChecked, LetThrough
  <2> QED
    BY <1>2, <1>3, <2>1, <2>2, <2>3, <2>4, CheckedStep
<1>5. CASE Record(r)
  <2>1. /\ Shaped(Moved(r, "ended")) /\ Moved(r, "ended").pc = "ended"
        /\ Moved(r, "ended").result = req[r].result /\ Moved(r, "ended").status = req[r].status
    BY <1>1, FilledShaped
  <2>2. req' = [req EXCEPT ![r] = Moved(r, "ended")]
    BY <1>5 DEF Record
  <2>3. PICK record : record = Moved(r, "ended")
    OBVIOUS
  <2>4. TextChecked(r, record)'
    BY <1>1, <1>2, <2>1, <2>3 DEF TextChecked, LetThrough
  <2> QED
    BY <1>2, <1>3, <2>1, <2>2, <2>3, <2>4, CheckedStep
<1> QED
  BY <1>4, <1>5

\* A step that leaves the requests and the texts alone, and at most forgets a response.
LEMMA RestChecked ==
  ASSUME CheckedInv, req' = req, passed' = passed,
         cache' = cache \/ \E s \in Endpoint \X Prompt : cache' = [cache EXCEPT ![s] = None]
  PROVE  CheckedInv'
<1>1. RequestsShaped'
  BY DEF CheckedInv, RequestsShaped, Shaped
<1>2. \A r \in Request : TextChecked(r, req[r])'
  BY DEF CheckedInv, TextChecked, LetThrough
<1>3. CacheChecked'
  <2>1. CASE cache' = cache
    BY <2>1, CacheStays DEF CheckedInv
  <2>2. ASSUME NEW s \in Endpoint \X Prompt, cache' = [cache EXCEPT ![s] = None]
        PROVE  CacheChecked'
    <3>1. \A t \in Endpoint \X Prompt : cache'[t] = None \/ cache'[t] = cache[t]
      BY <2>2 DEF CheckedInv, CacheChecked
    <3>2. cache' = [t \in Endpoint \X Prompt |-> cache'[t]]
      BY <2>2 DEF CheckedInv, CacheChecked
    <3> QED
      BY <3>1, <3>2 DEF CheckedInv, CacheChecked, LetThrough
  <2> QED
    BY <2>1, <2>2
<1> QED
  BY <1>1, <1>2, <1>3 DEF CheckedInv

\* At first nothing is cached and nothing has been delivered.
LEMMA InitChecked == Init => CheckedInv
<1> SUFFICES ASSUME Init PROVE CheckedInv
  OBVIOUS
<1>1. /\ req = [r \in Request |-> Fresh]
      /\ cache = [s \in Endpoint \X Prompt |-> None]
  BY DEF Init
<1>2. Shaped(Fresh) /\ Fresh.pc = "idle" /\ Fresh.status = "none"
  BY EndedShaped
<1>3. \A r \in Request : req[r] = Fresh
  BY <1>1
<1>4. RequestsShaped
  BY <1>1, <1>2, <1>3 DEF RequestsShaped
<1>5. CacheChecked
  BY <1>1 DEF CacheChecked
<1>6. \A r \in Request : TextChecked(r, req[r])
  BY <1>2, <1>3 DEF TextChecked
<1> QED
  BY <1>4, <1>5, <1>6 DEF CheckedInv

\* Every step keeps the invariant.
LEMMA NextChecked == CheckedInv /\ [Next]_vars => CheckedInv'
<1> SUFFICES ASSUME CheckedInv, [Next]_vars PROVE CheckedInv'
  OBVIOUS
<1>1. CASE UNCHANGED vars
  BY <1>1, RestChecked DEF vars
<1>2. CASE Next
  <2>1. ASSUME NEW r \in Request, Step(r) PROVE CheckedInv'
    BY <2>1, ChatAssumption, VerifyChecked, TextlessChecked, CacheHitChecked, AnswerChecked,
       VerdictChecked, StoreChecked, DeliveryChecked DEF Step
  <2>2. ASSUME NEW k \in Passing, KeyStep(k) PROVE CheckedInv'
    <3>1. req' = req /\ passed' = passed /\ cache' = cache
      BY <2>2 DEF KeyStep, Issue, RevokeLoad, RevokeFlush, RevokeDrop, RevokeCommit, RevokeDies
    <3> QED
      BY <3>1, RestChecked
  <2>3. ASSUME NEW k \in Key, ForgetKey(k) PROVE CheckedInv'
    BY <2>3, RestChecked DEF ForgetKey
  <2>4. ASSUME NEW s \in Endpoint \X Prompt, Expire(s) PROVE CheckedInv'
    BY <2>4, RestChecked DEF Expire
  <2> QED
    BY <1>2, <2>1, <2>2, <2>3, <2>4 DEF Next
<1> QED
  BY <1>1, <1>2

\* A chat text is delivered as the response guardrail returned it, for this request
\* or the one that cached it; raw against that only where the guardrail returned an
\* empty text (create_chat_completion, "masked_text or completion_text").
THEOREM DeliveredAsChecked == Spec => []DeliveredWasChecked
<1>1. CheckedInv => DeliveredWasChecked
  BY DEF CheckedInv, TextChecked, DeliveredWasChecked
<1> QED
  BY <1>1, InitChecked, NextChecked, PTL DEF Spec

-----------------------------------------------------------------------------
\* What a request is charged, and the types.

\* A set of positions has a first one.
LEMMA FirstPosition ==
  ASSUME NEW S, S \subseteq Nat, S # {}
  PROVE  \E i \in S : \A k \in S : i <= k
<1> DEFINE R == OpToRel(<, Nat)
<1>1. IsWellFoundedOn(R, Nat)
  BY NatLessThanWellFounded
<1>2. \A a, b \in Nat : a < b => <<a, b>> \in R
  BY DEF OpToRel
<1> HIDE DEF R
<1>3. PICK i \in S : \A k \in S : <<k, i>> \notin R
  BY <1>1, WFMin, Zenon
<1>4. \A k \in S : i \in Nat /\ k \in Nat /\ ~(k < i)
  BY <1>2, <1>3
<1>5. \A k \in S : i <= k
  BY <1>4
<1> QED
  BY <1>3, <1>5

\* When a target has the model, the provider found is that of a target that has it.
LEMMA NamedProvider ==
  ASSUME NEW targets \in Seq(Target), NEW name,
         NEW i \in DOMAIN targets, ModelOf[targets[i]] = name
  PROVE  \E k \in DOMAIN targets : /\ ModelOf[targets[k]] = name
                                   /\ ProviderForModel(targets, name) = ProviderOf[targets[k]]
<1> DEFINE named == {n \in DOMAIN targets : ModelOf[targets[n]] = name}
           first == CHOOSE n \in named : \A k \in named : n <= k
<1>1. named # {} /\ named \subseteq Nat
  OBVIOUS
<1>2. ProviderForModel(targets, name) = ProviderOf[targets[first]]
  BY <1>1 DEF ProviderForModel
<1>3. first \in named
  <2> HIDE DEF named
  <2>1. \E n \in named : \A k \in named : n <= k
    BY <1>1, FirstPosition
  <2> QED
    BY <2>1
<1> HIDE DEF first
<1> QED
  BY <1>2, <1>3

\* The provider that is found for a model is one of a target.
LEMMA ProviderFound ==
  ASSUME NEW targets \in Seq(Target), targets # <<>>, NEW name
  PROVE  \E i \in DOMAIN targets : ProviderForModel(targets, name) = ProviderOf[targets[i]]
<1> DEFINE named == {i \in DOMAIN targets : ModelOf[targets[i]] = name}
<1>1. CASE named = {}
  <2>1. ProviderForModel(targets, name) = ProviderOf[targets[1]]
    BY <1>1 DEF ProviderForModel
  <2>2. 1 \in DOMAIN targets
    OBVIOUS
  <2> QED
    BY <2>1, <2>2
<1>2. CASE named # {}
  <2>1. PICK k \in DOMAIN targets : ModelOf[targets[k]] = name
    BY <1>2
  <2> QED
    BY <2>1, NamedProvider
<1> QED
  BY <1>1, <1>2

\* The places of a request that no target and no cached response has answered.
Unanswered == {"idle", "verify", "by_id", "by_hash", "remember", "touch", "touched", "limit",
               "prompt", "lookup", "route", "complete"}

\* The response is a target's of the rule, with the provider that is found for it.
Honest(record) ==
  \E i \in DOMAIN record.targets :
    /\ record.served = record.targets[i]
    /\ record.result.provider = ProviderForModel(record.targets, record.result.name)

AnsweredOK(record) ==
  /\ record.result \in Response
  /\ IF record.hit THEN record.served = None ELSE Honest(record)

\* A request that is under way or was served has its response, and says where it
\* is from; only a delivered one is a success.
RecordOK(record) ==
  /\ record.targets \in Seq(Target) /\ record.hit \in BOOLEAN
  /\ record.result \in Response \cup {None}
  /\ record.pc \in Unanswered => record.served = None /\ ~record.hit
  /\ record.pc \in {"verdict", "store", "respond"} \/ record.status = "success" => AnsweredOK(record)
  /\ record.pc \notin {"record", "ended"} => record.status # "success"
  /\ record.pc = "record" => record.status = "success"

RecordsOK == RequestsShaped /\ \A r \in Request : RecordOK(req[r])

StoresOK ==
  /\ keys \in [Key -> {"unissued", "active", "revoked"}] /\ known \subseteq Key
  /\ cache \in [Endpoint \X Prompt -> Response \cup {None}]
  /\ passed \subseteq Verdict

LocksOK ==
  /\ holder \in [Key -> Request \cup {"revoke", None}]
  /\ revoking \in [Key -> {"no", "loaded", "flushed", "dropped"}]
  /\ \A k \in Key : holder[k] = "revoke" <=> revoking[k] \in {"flushed", "dropped"}
  /\ \A r \in Request : At(r, "touched") <=> holder[key(r)] = r

LedgerOK ==
  \A c \in ledger :
    /\ c.request \in Request /\ c = Bill(c.request)
    /\ req[c.request].pc = "ended" /\ req[c.request].status = "success"

\* The invariant: every row is the bill of a request that is over and delivered.
BillingInv == RecordsOK /\ StoresOK /\ LocksOK /\ LedgerOK

\* A step that writes a good record leaves good records.
LEMMA RecordWritten ==
  ASSUME RecordsOK, NEW r \in Request, NEW record, Shaped(record), RecordOK(record),
         req' = [req EXCEPT ![r] = record]
  PROVE  RecordsOK' /\ req'[r] = record /\ \A q \in Request \ {r} : req'[q] = req[q]
<1>1. RequestsShaped' /\ req'[r] = record /\ \A q \in Request \ {r} : req'[q] = req[q]
  BY OthersStay DEF RecordsOK
<1>2. ASSUME NEW q \in Request PROVE RecordOK(req'[q])
  BY <1>1 DEF RecordsOK
<1>3. \A q \in Request : RecordOK(req[q])'
  BY <1>2 DEF RecordOK, AnsweredOK, Honest, ProviderForModel
<1> QED
  BY <1>1, <1>3 DEF RecordsOK

\* Before an answer, a request may be moved, or ended without success.
LEMMA UnansweredMoves ==
  ASSUME RecordsOK, NEW r \in Request, req[r].pc \in Unanswered, NEW place \in Unanswered
  PROVE  Shaped(Moved(r, place)) /\ RecordOK(Moved(r, place)) /\ Moved(r, place).pc = place
<1> DEFINE moved == Moved(r, place)
<1>1. moved = [pc |-> place, targets |-> req[r].targets, served |-> req[r].served,
               result |-> req[r].result, hit |-> req[r].hit, status |-> req[r].status]
  BY MovedShaped DEF RecordsOK, RequestsShaped
<1> HIDE DEF moved
<1>2. RecordOK(req[r]) /\ req[r].status # "success"
  BY DEF RecordsOK, RecordOK, Unanswered
<1>3. /\ Shaped(moved) /\ moved.pc = place /\ moved.targets = req[r].targets
      /\ moved.served = req[r].served /\ moved.result = req[r].result /\ moved.hit = req[r].hit
      /\ moved.status = req[r].status
  BY <1>1 DEF Shaped
<1>4. RecordOK(moved)
  BY <1>2, <1>3 DEF RecordOK, Unanswered
<1> QED
  BY <1>3, <1>4 DEF moved

\* A request that ends without success has nothing to be charged for.
LEMMA EndsUnserved ==
  ASSUME NEW r, NEW status, status # "success"
  PROVE  /\ Shaped(Ended(r, status)) /\ RecordOK(Ended(r, status))
         /\ Ended(r, status).pc = "ended"
<1> DEFINE placed == [Fresh EXCEPT !.pc = "ended"]
<1>1. /\ Shaped(placed) /\ placed.pc = "ended" /\ placed.targets = <<>> /\ placed.result = None
      /\ placed.hit \in BOOLEAN
  <2>1. Shaped(Fresh)
    BY EndedShaped
  <2>2. Fresh.targets = <<>> /\ Fresh.result = None /\ Fresh.hit \in BOOLEAN
    BY DEF Fresh
  <2> QED
    BY <2>1, <2>2 DEF Shaped
<1>2. Ended(r, status) = [placed EXCEPT !.status = status]
  BY DEF Ended
<1> HIDE DEF placed
<1> DEFINE ended == Ended(r, status)
<1>3. /\ Shaped(ended) /\ ended.pc = "ended" /\ ended.targets = <<>> /\ ended.result = None
      /\ ended.hit \in BOOLEAN /\ ended.status = status
  BY <1>1, <1>2 DEF Shaped
<1> HIDE DEF ended
<1>4. RecordOK(ended)
  BY <1>3 DEF RecordOK, Unanswered
<1> QED
  BY <1>3, <1>4 DEF ended


\* An answer stays as good as it was, whatever its place and the form of its text.
LEMMA AnswerKept ==
  ASSUME NEW old, NEW record, RecordOK(old), AnsweredOK(old),
         record.targets = old.targets, record.served = old.served, record.hit = old.hit,
         record.result \in Response, record.result.provider = old.result.provider,
         record.result.name = old.result.name,
         \/ record.pc \in {"store", "respond"} /\ record.status # "success"
         \/ record.pc \in {"record", "ended"} /\ record.status = "success"
  PROVE  RecordOK(record)
<1>1. AnsweredOK(record)
  BY DEF AnsweredOK, Honest
<1> QED
  BY <1>1 DEF RecordOK, Unanswered

\* The steps before an answer, and those that end a request without one.
LEMMA UnansweredStep ==
  ASSUME ChatAssumption, RecordsOK, NEW r \in Request,
         \/ Arrive(r) \/ KnownKey(r) \/ UnknownKey(r) \/ LoadById(r) \/ LoadByHash(r)
         \/ NoSuchKey(r) \/ Remember(r) \/ Touch(r) \/ Touched(r)
         \/ Limit(r) \/ CheckPrompt(r) \/ CacheMiss(r) \/ NoRoute(r) \/ Refuse(r)
  PROVE  RecordsOK'
<1>1. req[r].pc \in Unanswered =>
        \A place \in Unanswered : Shaped(Moved(r, place)) /\ RecordOK(Moved(r, place))
  BY UnansweredMoves
<1>2. \A status \in {"unauthorized", "failed", "blocked", "refused"} :
        Shaped(Ended(r, status)) /\ RecordOK(Ended(r, status))
  BY EndsUnserved
<1>3. PICK record : Shaped(record) /\ RecordOK(record) /\ req' = [req EXCEPT ![r] = record]
  <2>1. CASE Arrive(r) \/ KnownKey(r) \/ UnknownKey(r) \/ LoadByHash(r)
    BY <2>1, <1>1 DEF Arrive, KnownKey, UnknownKey, LoadByHash, Go, At, Unanswered
  <2>2. CASE LoadById(r)
    <3>1. PICK place \in {"limit", "by_hash"} : Go(r, Moved(r, place))
      BY <2>2 DEF LoadById
    <3> QED
      BY <3>1, <2>2, <1>1 DEF LoadById, Go, At, Unanswered
  <2>3. CASE NoSuchKey(r) \/ NoRoute(r) \/ Refuse(r)
    BY <2>3, <1>2 DEF NoSuchKey, NoRoute, Refuse, Go
  <2>4. CASE Remember(r) \/ Touch(r)
    BY <2>4, <1>1 DEF Remember, Touch, At, Unanswered
  <2>5. CASE Touched(r)
    BY <2>5, <1>1, <1>2 DEF Touched, At, Unanswered
  <2>6. CASE Limit(r) \/ CheckPrompt(r) \/ CacheMiss(r)
    BY <2>6, <1>1 DEF Limit, CheckPrompt, CacheMiss, Go, At, Unanswered
  <2> QED
    BY <2>1, <2>2, <2>3, <2>4, <2>5, <2>6
<1> QED
  BY <1>3, RecordWritten

\* An order of the targets of a rule is one of its targets, and has one.
LEMMA OrderTyped ==
  ASSUME NEW targets \in Seq(Target), NEW ordered \in Orders(targets)
  PROVE  ordered \in Seq(Target)
<1>1. PICK p \in [DOMAIN targets -> DOMAIN targets] :
        ordered = [i \in DOMAIN targets |-> targets[p[i]]]
  BY DEF Orders
<1>2. Len(targets) \in Nat /\ DOMAIN targets = 1 .. Len(targets)
  OBVIOUS
<1>3. \A i \in 1 .. Len(targets) : targets[p[i]] \in Target
  BY <1>1, <1>2
<1> QED
  BY <1>1, <1>2, <1>3

\* A route is made of the targets of a rule.
LEMMA RouteStep ==
  ASSUME ChatAssumption, RecordsOK, NEW r \in Request, Route(r)
  PROVE  RecordsOK'
<1>1. PICK rules \in RuleTables : \E rule \in BestMatches(r, rules) : \E ordered \in Orders(rule.targets) :
        Go(r, [Moved(r, "complete") EXCEPT !.targets = ordered])
  BY DEF Route
<1>2. PICK rule \in BestMatches(r, rules) : \E ordered \in Orders(rule.targets) :
        Go(r, [Moved(r, "complete") EXCEPT !.targets = ordered])
  BY <1>1
<1>3. PICK ordered \in Orders(rule.targets) :
        Go(r, [Moved(r, "complete") EXCEPT !.targets = ordered])
  BY <1>2
<1>4. rule \in Rule
  BY <1>1, <1>2 DEF RuleTables, BestMatches, Matching
<1>5. rule.targets \in Seq(Target)
  BY <1>4 DEF ChatAssumption
<1>6. ordered \in Seq(Target)
  BY <1>5, OrderTyped
<1> DEFINE moved == Moved(r, "complete")
           routed == [moved EXCEPT !.targets = ordered]
<1>7. moved = [pc |-> "complete", targets |-> req[r].targets, served |-> req[r].served,
               result |-> req[r].result, hit |-> req[r].hit, status |-> req[r].status]
  BY MovedShaped DEF RecordsOK, RequestsShaped
<1>8. req' = [req EXCEPT ![r] = routed]
  BY <1>3 DEF Go
<1> HIDE DEF moved
<1>9. routed = [pc |-> "complete", targets |-> ordered, served |-> req[r].served,
                result |-> req[r].result, hit |-> req[r].hit, status |-> req[r].status]
  BY <1>7
<1> HIDE DEF routed
<1>10. RecordOK(req[r]) /\ req[r].pc = "route"
  BY DEF RecordsOK, Route, At
<1>11. Shaped(routed) /\ RecordOK(routed)
  BY <1>6, <1>9, <1>10 DEF RecordOK, Shaped, Unanswered
<1> QED
  BY <1>8, <1>11, RecordWritten


\* A hit is a response that the cache holds, and no target's answer.
LEMMA HitStep ==
  ASSUME ChatAssumption, RecordsOK, StoresOK, NEW r \in Request, CacheHit(r)
  PROVE  RecordsOK'
<1> DEFINE moved == Moved(r, "respond")
           carrying == [moved EXCEPT !.result = cache[slot(r)]]
           hit == [moved EXCEPT !.result = cache[slot(r)], !.hit = TRUE]
<1>1. moved = [pc |-> "respond", targets |-> req[r].targets, served |-> req[r].served,
               result |-> req[r].result, hit |-> req[r].hit, status |-> req[r].status]
  BY MovedShaped DEF RecordsOK, RequestsShaped
<1>2. req' = [req EXCEPT ![r] = hit]
  BY DEF CacheHit, Go
<1>3. hit = [carrying EXCEPT !.hit = TRUE]
  OBVIOUS
<1> HIDE DEF moved
<1>4. carrying = [pc |-> "respond", targets |-> req[r].targets, served |-> req[r].served,
                  result |-> cache[slot(r)], hit |-> req[r].hit, status |-> req[r].status]
  BY <1>1
<1> HIDE DEF carrying, hit
<1>5. hit = [pc |-> "respond", targets |-> req[r].targets, served |-> req[r].served,
             result |-> cache[slot(r)], hit |-> TRUE, status |-> req[r].status]
  BY <1>3, <1>4
<1>6. cache[slot(r)] \in Response
  <2>1. slot(r) \in Endpoint \X Prompt
    BY DEF ChatAssumption, slot
  <2> QED
    BY <2>1 DEF CacheHit, StoresOK
<1>7. RecordOK(req[r]) /\ req[r].pc = "lookup"
  BY DEF RecordsOK, CacheHit, At
<1>8. AnsweredOK(hit)
  BY <1>5, <1>6, <1>7 DEF RecordOK, AnsweredOK, Unanswered
<1>9. Shaped(hit) /\ RecordOK(hit)
  BY <1>5, <1>6, <1>7, <1>8 DEF RecordOK, Shaped, Unanswered
<1> QED
  BY <1>2, <1>9, RecordWritten

\* An answer is that of a target, with the provider that is found for it.
LEMMA AnswerStep ==
  ASSUME ChatAssumption, RecordsOK, NEW r \in Request, Complete(r) \/ Embed(r)
  PROVE  RecordsOK'
<1>1. PICK place \in {"verdict", "store"} : Answered(r, place)
  BY DEF Complete, Embed
<1> DEFINE targets == req[r].targets
<1>2. RecordOK(req[r]) /\ req[r].pc = "complete"
  BY DEF RecordsOK, Complete, Embed, At
<1>3. PICK i \in DOMAIN targets : \E name \in {ModelOf[targets[i]], OtherName} :
        Go(r, [Moved(r, place) EXCEPT
                 !.served = targets[i],
                 !.result = [text |-> [by |-> r, form |-> "raw"], name |-> name,
                             provider |-> ProviderForModel(targets, name)]])
  BY <1>1 DEF Answered
<1>4. PICK name \in {ModelOf[targets[i]], OtherName} :
        Go(r, [Moved(r, place) EXCEPT
                 !.served = targets[i],
                 !.result = [text |-> [by |-> r, form |-> "raw"], name |-> name,
                             provider |-> ProviderForModel(targets, name)]])
  BY <1>3
<1> DEFINE result == [text |-> [by |-> r, form |-> "raw"], name |-> name,
                      provider |-> ProviderForModel(targets, name)]
           moved == Moved(r, place)
           served == [moved EXCEPT !.served = targets[i]]
           answer == [moved EXCEPT !.served = targets[i], !.result = result]
<1>5. result \in Response /\ result.name = name
      /\ result.provider = ProviderForModel(targets, name)
  <2>1. targets \in Seq(Target) /\ targets # <<>> /\ targets[i] \in Target
    BY <1>2 DEF RecordOK
  <2>2. PICK k \in DOMAIN targets : ProviderForModel(targets, name) = ProviderOf[targets[k]]
    <3> HIDE DEF targets
    <3>1. \E k \in DOMAIN targets : ProviderForModel(targets, name) = ProviderOf[targets[k]]
      BY <2>1, ProviderFound
    <3> QED
      BY <3>1
  <2>3. targets[k] \in Target
    BY <2>1
  <2>4. ProviderForModel(targets, name) \in {ProviderOf[t] : t \in Target}
    BY <2>2, <2>3
  <2>5. name \in {ModelOf[t] : t \in Target} \cup {OtherName}
    BY <2>1
  <2> QED
    BY <2>4, <2>5 DEF Response, Text
<1>6. req' = [req EXCEPT ![r] = answer]
  BY <1>4 DEF Go
<1>7. moved = [pc |-> place, targets |-> req[r].targets, served |-> req[r].served,
               result |-> req[r].result, hit |-> req[r].hit, status |-> req[r].status]
  BY MovedShaped DEF RecordsOK, RequestsShaped
<1>8. answer = [served EXCEPT !.result = result]
  OBVIOUS
<1> HIDE DEF moved, result
<1>9. served = [pc |-> place, targets |-> targets, served |-> targets[i],
                result |-> req[r].result, hit |-> req[r].hit, status |-> req[r].status]
  BY <1>7
<1> HIDE DEF served, answer
<1>10. answer = [pc |-> place, targets |-> targets, served |-> targets[i],
                 result |-> result, hit |-> req[r].hit, status |-> req[r].status]
  BY <1>8, <1>9
<1>11. /\ answer.pc = place /\ answer.targets = targets /\ answer.served = targets[i]
       /\ answer.result = result /\ answer.hit = req[r].hit /\ answer.status = req[r].status
       /\ Shaped(answer)
  BY <1>10 DEF Shaped
<1> HIDE DEF targets
<1>12. AnsweredOK(answer)
  <2>1. Honest(answer)
    BY <1>5, <1>11 DEF Honest
  <2> QED
    BY <2>1, <1>2, <1>5, <1>11 DEF AnsweredOK, RecordOK, Unanswered
<1>13. RecordOK(answer)
  BY <1>2, <1>5, <1>11, <1>12 DEF RecordOK, Unanswered, targets
<1> QED
  BY <1>6, <1>11, <1>13, RecordWritten

\* The verdict may mask the text, and keeps the rest.
LEMMA VerdictStep ==
  ASSUME RecordsOK, NEW r \in Request, CheckResponse(r)
  PROVE  RecordsOK'
<1>1. PICK text \in Text :
        req' = [req EXCEPT ![r] = [Moved(r, "store") EXCEPT !.result.text = text]]
  BY DeliveredText DEF CheckResponse
<1>2. RecordOK(req[r]) /\ AnsweredOK(req[r]) /\ req[r].pc = "verdict"
  BY DEF RecordsOK, RecordOK, CheckResponse, At
<1> DEFINE old == req[r].result
           masked == [old EXCEPT !.text = text]
           checked == [Moved(r, "store") EXCEPT !.result.text = text]
<1>3. masked \in Response /\ masked.provider = old.provider /\ masked.name = old.name
  <2>1. old \in Response
    BY <1>2 DEF AnsweredOK
  <2> HIDE DEF old
  <2> QED
    BY <2>1 DEF Response
<1>4. req' = [req EXCEPT ![r] = checked]
  BY <1>1
<1>5. checked = [pc |-> "store", targets |-> req[r].targets, served |-> req[r].served,
                 result |-> masked, hit |-> req[r].hit, status |-> req[r].status]
      /\ Shaped(checked)
  BY VerdictShaped DEF RecordsOK
<1> HIDE DEF masked, checked, old
<1>6. /\ Shaped(checked) /\ checked.pc = "store" /\ checked.result = masked
      /\ checked.targets = req[r].targets /\ checked.served = req[r].served
      /\ checked.hit = req[r].hit /\ checked.status = req[r].status
  BY <1>5
<1>7. checked.status # "success"
  BY <1>2, <1>6 DEF RecordOK
<1>8. RecordOK(checked)
  BY <1>2, <1>3, <1>6, <1>7, AnswerKept DEF old
<1> QED
  BY <1>4, <1>6, <1>8, RecordWritten

\* Caching, delivering and recording keep the answer.
LEMMA ServedStep ==
  ASSUME RecordsOK, NEW r \in Request, Store(r) \/ Respond(r) \/ Record(r)
  PROVE  RecordsOK'
<1>1. RecordOK(req[r]) /\ AnsweredOK(req[r]) /\ req[r].result \in Response
  BY DEF RecordsOK, RecordOK, AnsweredOK, Store, Respond, Record, At
<1>2. PICK place, status :
        /\ req' = [req EXCEPT ![r] = [Moved(r, place) EXCEPT !.status = status]]
        /\ \/ place = "respond" /\ status # "success"
           \/ place \in {"record", "ended"} /\ status = "success"
  <2>1. \A place : Moved(r, place) = [Moved(r, place) EXCEPT !.status = req[r].status]
    BY MovedShaped DEF RecordsOK, RequestsShaped
  <2>2. CASE Store(r)
    BY <2>1, <2>2, <1>1 DEF Store, At, RecordOK
  <2>3. CASE Respond(r)
    BY <2>3 DEF Respond, Go
  <2>4. CASE Record(r)
    BY <2>1, <2>4, <1>1 DEF Record, At, RecordOK
  <2> QED
    BY <2>2, <2>3, <2>4
<1> DEFINE record == [Moved(r, place) EXCEPT !.status = status]
<1>3. record = [pc |-> place, targets |-> req[r].targets, served |-> req[r].served,
                result |-> req[r].result, hit |-> req[r].hit, status |-> status]
  BY MovedShaped DEF RecordsOK, RequestsShaped
<1>4. req' = [req EXCEPT ![r] = record]
  BY <1>2
<1> HIDE DEF record
<1>5. /\ Shaped(record) /\ record.pc = place /\ record.result = req[r].result
      /\ record.targets = req[r].targets /\ record.served = req[r].served
      /\ record.hit = req[r].hit /\ record.status = status
  BY <1>3 DEF Shaped
<1>6. RecordOK(record)
  BY <1>1, <1>2, <1>5, AnswerKept
<1> QED
  BY <1>4, <1>5, <1>6, RecordWritten


\* Every step of a request leaves good records.
LEMMA StepRecords ==
  ASSUME ChatAssumption, RecordsOK, StoresOK, NEW r \in Request, Step(r)
  PROVE  RecordsOK'
BY UnansweredStep, RouteStep, HitStep, AnswerStep, VerdictStep, ServedStep DEF Step

\* What every step of a request does to the places: the other requests stay, and
\* one that is over stays over.
LEMMA StepPlaces ==
  ASSUME RecordsOK, RecordsOK', NEW r \in Request, Step(r)
  PROVE  /\ \A q \in Request \ {r} : req'[q] = req[q]
         /\ req[r].pc # "ended"
<1>1. \E record : req' = [req EXCEPT ![r] = record]
  <2>1. CASE \/ Arrive(r) \/ KnownKey(r) \/ UnknownKey(r) \/ LoadById(r) \/ LoadByHash(r)
             \/ NoSuchKey(r) \/ Limit(r) \/ CheckPrompt(r) \/ CacheMiss(r) \/ NoRoute(r)
             \/ Refuse(r) \/ CacheHit(r) \/ Route(r) \/ Complete(r) \/ Embed(r) \/ Respond(r)
    <3>1. PICK record : Go(r, record)
      BY <2>1 DEF Arrive, KnownKey, UnknownKey, LoadById, LoadByHash, NoSuchKey, Limit, CheckPrompt,
                  CacheMiss, NoRoute, Refuse, CacheHit, Route, Complete, Embed, Answered, Respond
    <3> QED
      BY <3>1 DEF Go
  <2>2. CASE Remember(r) \/ Touch(r) \/ Touched(r) \/ CheckResponse(r) \/ Store(r) \/ Record(r)
    BY <2>2 DEF Remember, Touch, Touched, CheckResponse, Store, Record
  <2> QED
    BY <2>1, <2>2 DEF Step
<1>2. req[r].pc # "ended"
  BY DEF Step, Arrive, KnownKey, UnknownKey, LoadById, LoadByHash, NoSuchKey, Remember, Touch, Touched,
         Limit, CheckPrompt, CacheHit, CacheMiss, Route, NoRoute, Complete, Embed, CheckResponse, Store,
         Respond, Record, Refuse, At
<1> QED
  BY <1>1, <1>2 DEF RecordsOK, RequestsShaped

\* Moved moves.
LEMMA MovedPlace ==
  ASSUME RecordsOK, NEW r \in Request
  PROVE  \A place : Moved(r, place).pc = place
BY MovedShaped DEF RecordsOK, RequestsShaped

\* The steps of a request but for the touch and its end take no lock.
LEMMA Lockless ==
  ASSUME RecordsOK, NEW r \in Request, Step(r), ~Touch(r), ~Touched(r)
  PROVE  holder' = holder /\ revoking' = revoking /\ req[r].pc # "touched" /\ req'[r].pc # "touched"
<1>1. holder' = holder /\ revoking' = revoking
  BY DEF Step, Arrive, KnownKey, UnknownKey, LoadById, LoadByHash, NoSuchKey, Remember,
         Limit, CheckPrompt, CacheHit, CacheMiss, Route, NoRoute, Complete, Embed, Answered,
         CheckResponse, Store, Respond, Record, Refuse, Go, admin
<1>2. req[r].pc # "touched"
  BY DEF Step, Arrive, KnownKey, UnknownKey, LoadById, LoadByHash, NoSuchKey, Remember,
         Limit, CheckPrompt, CacheHit, CacheMiss, Route, NoRoute, Complete, Embed, CheckResponse, Store,
         Respond, Record, Refuse, At
<1>3. PICK record : req' = [req EXCEPT ![r] = record] /\ record.pc # "touched"
  <2>1. \A place : Moved(r, place).pc = place
    BY MovedShaped DEF RecordsOK, RequestsShaped
  <2>2. \A status : Ended(r, status).pc = "ended"
    BY EndedShaped
  <2>3. CASE \/ Arrive(r) \/ KnownKey(r) \/ UnknownKey(r) \/ LoadById(r) \/ LoadByHash(r)
             \/ NoSuchKey(r) \/ Limit(r) \/ CheckPrompt(r) \/ CacheMiss(r) \/ NoRoute(r)
             \/ Refuse(r)
    <3>1. PICK record : Go(r, record) /\ record.pc # "touched"
      <4>1. CASE LoadById(r)
        <5>1. PICK place \in {"limit", "by_hash"} : Go(r, Moved(r, place))
          BY <4>1 DEF LoadById
        <5> QED
          BY <5>1, <2>1
      <4>2. CASE Arrive(r) \/ KnownKey(r) \/ UnknownKey(r) \/ LoadByHash(r)
        BY <4>2, <2>1 DEF Arrive, KnownKey, UnknownKey, LoadByHash
      <4>3. CASE Limit(r) \/ CheckPrompt(r) \/ CacheMiss(r)
        BY <4>3, <2>1 DEF Limit, CheckPrompt, CacheMiss
      <4>4. CASE NoSuchKey(r) \/ NoRoute(r) \/ Refuse(r)
        BY <4>4, <2>2 DEF NoSuchKey, NoRoute, Refuse
      <4> QED
        BY <2>3, <4>1, <4>2, <4>3, <4>4
    <3> QED
      BY <3>1 DEF Go
  <2>4. CASE CacheHit(r)
    <3> DEFINE hit == [Moved(r, "respond") EXCEPT !.result = cache[slot(r)], !.hit = TRUE]
    <3>1. Carries(hit, r, "respond", cache[slot(r)])
      BY HitShaped DEF RecordsOK
    <3>2. req' = [req EXCEPT ![r] = hit]
      BY <2>4 DEF CacheHit, Go
    <3> HIDE DEF hit
    <3> QED
      BY <3>1, <3>2 DEF Carries
  <2>5. CASE Route(r)
    <3>1. PICK ordered : Go(r, [Moved(r, "complete") EXCEPT !.targets = ordered])
      BY <2>5 DEF Route
    <3>2. [Moved(r, "complete") EXCEPT !.targets = ordered].pc = "complete"
      BY FilledShaped DEF RecordsOK
    <3> QED
      BY <3>1, <3>2 DEF Go
  <2>6. CASE Complete(r) \/ Embed(r)
    <3>1. PICK place \in {"verdict", "store"} : Answered(r, place)
      BY <2>6 DEF Complete, Embed
    <3>2. PICK target, result :
            Go(r, [Moved(r, place) EXCEPT !.served = target, !.result = result])
      BY <3>1 DEF Answered
    <3> DEFINE answer == [Moved(r, place) EXCEPT !.served = target, !.result = result]
    <3>3. Carries(answer, r, place, result)
      BY AnswerShaped DEF RecordsOK
    <3>4. req' = [req EXCEPT ![r] = answer]
      BY <3>2 DEF Go
    <3> HIDE DEF answer
    <3> QED
      BY <3>3, <3>4 DEF Carries
  <2>7. CASE CheckResponse(r)
    <3>1. PICK text : req' = [req EXCEPT ![r] = [Moved(r, "store") EXCEPT !.result.text = text]]
      BY <2>7 DEF CheckResponse
    <3>2. [Moved(r, "store") EXCEPT !.result.text = text].pc = "store"
      BY VerdictShaped DEF RecordsOK
    <3> QED
      BY <3>1, <3>2
  <2>8. CASE Store(r) \/ Record(r) \/ Remember(r)
    BY <2>8, <2>1 DEF Store, Record, Remember
  <2>9. CASE Respond(r)
    <3> DEFINE sent == [Moved(r, "record") EXCEPT !.status = "success"]
    <3>1. sent.pc = "record"
      BY FilledShaped DEF RecordsOK
    <3>2. req' = [req EXCEPT ![r] = sent]
      BY <2>9 DEF Respond, Go
    <3> HIDE DEF sent
    <3> QED
      BY <3>1, <3>2
  <2> QED
    BY <2>3, <2>4, <2>5, <2>6, <2>7, <2>8, <2>9 DEF Step
<1> QED
  BY <1>1, <1>2, <1>3 DEF RecordsOK, RequestsShaped

\* The lock of a key is its holder's until it lets go.
LEMMA StepLocks ==
  ASSUME ChatAssumption, RecordsOK, RecordsOK', LocksOK, NEW r \in Request, Step(r)
  PROVE  LocksOK'
<1>1. \A q \in Request \ {r} : req'[q] = req[q]
  BY StepPlaces
<1>2. \A q \in Request : key(q) \in Key
  BY DEF ChatAssumption, key
<1>3. \A place : Moved(r, place).pc = place
  BY MovedPlace
<1>4. CASE Touch(r)
  <2>1. /\ holder[key(r)] = None /\ holder' = [holder EXCEPT ![key(r)] = r]
        /\ revoking' = revoking
        /\ req' = [req EXCEPT ![r] = Moved(r, "touched")]
    BY <1>4 DEF Touch
  <2>2. req'[r].pc = "touched"
    BY <2>1, <1>3 DEF RecordsOK, RequestsShaped
  <2>3. holder'[key(r)] = r /\ \A k \in Key \ {key(r)} : holder'[k] = holder[k]
    BY <2>1, <1>2 DEF LocksOK
  <2>4. holder' \in [Key -> Request \cup {"revoke", None}]
    BY <2>1, <1>2 DEF LocksOK
  <2>5. \A k \in Key : holder'[k] = "revoke" <=> revoking'[k] \in {"flushed", "dropped"}
    BY <2>1, <2>3 DEF LocksOK, ChatAssumption
  <2>6. \A q \in Request : req'[q].pc = "touched" <=> holder'[key(q)] = q
    BY <1>1, <1>2, <2>1, <2>2, <2>3 DEF LocksOK, ChatAssumption, At
  <2> QED
    BY <2>1, <2>4, <2>5, <2>6 DEF LocksOK, At
<1>5. CASE Touched(r)
  <2>1. /\ holder' = [holder EXCEPT ![key(r)] = None] /\ revoking' = revoking
        /\ req[r].pc = "touched"
    BY <1>5 DEF Touched, At
  <2>2. req'[r].pc # "touched"
    <3>1. Ended(r, "unauthorized").pc = "ended"
      BY EndedShaped
    <3> QED
      BY <1>5, <1>3, <3>1 DEF Touched, RecordsOK, RequestsShaped
  <2>3. holder'[key(r)] = None /\ \A k \in Key \ {key(r)} : holder'[k] = holder[k]
    BY <2>1, <1>2 DEF LocksOK
  <2>4. holder' \in [Key -> Request \cup {"revoke", None}]
    BY <2>1, <1>2 DEF LocksOK
  <2>5. holder[key(r)] = r
    BY <2>1 DEF LocksOK, At
  <2>6. \A k \in Key : holder'[k] = "revoke" <=> revoking'[k] \in {"flushed", "dropped"}
    BY <2>1, <2>3, <2>5 DEF LocksOK, ChatAssumption
  <2>7. \A q \in Request : req'[q].pc = "touched" <=> holder'[key(q)] = q
    BY <1>1, <1>2, <2>2, <2>3, <2>5 DEF LocksOK, ChatAssumption, At
  <2> QED
    BY <2>1, <2>4, <2>6, <2>7 DEF LocksOK, At
<1>6. CASE ~Touch(r) /\ ~Touched(r)
  <2>1. /\ holder' = holder /\ revoking' = revoking
        /\ req[r].pc # "touched" /\ req'[r].pc # "touched"
    BY <1>6, Lockless
  <2>2. \A q \in Request : req'[q].pc = "touched" <=> req[q].pc = "touched"
    BY <1>1, <2>1
  <2> QED
    BY <2>1, <2>2 DEF LocksOK, At
<1> QED
  BY <1>4, <1>5, <1>6


\* A step of a request keeps the types of the stores: what it caches is a
\* response, what it lets through is a verdict.
LEMMA StepStores ==
  ASSUME ChatAssumption, RecordsOK, StoresOK, NEW r \in Request, Step(r)
  PROVE  StoresOK'
<1>1. keys' = keys
  BY DEF Step, Arrive, KnownKey, UnknownKey, LoadById, LoadByHash, NoSuchKey, Remember, Touch, Touched,
         Limit, CheckPrompt, CacheHit, CacheMiss, Route, NoRoute, Complete, Embed, Answered,
         CheckResponse, Store, Respond, Record, Refuse, Go, admin
<1>2. CASE Remember(r)
  <2>1. key(r) \in Key
    BY DEF ChatAssumption, key
  <2> QED
    BY <1>1, <1>2, <2>1 DEF Remember, StoresOK
<1>3. CASE CheckResponse(r)
  <2>1. PICK verdict \in Verdict : passed' = passed \cup {verdict}
    BY <1>3 DEF CheckResponse
  <2> QED
    BY <1>1, <1>3, <2>1 DEF CheckResponse, StoresOK
<1>4. CASE Store(r)
  <2>1. req[r].result \in Response
    BY <1>4 DEF RecordsOK, RecordOK, AnsweredOK, Store, At
  <2>2. cache' \in [Endpoint \X Prompt -> Response \cup {None}]
    BY <1>4, <2>1 DEF Store, StoresOK
  <2> QED
    BY <1>1, <1>4, <2>2 DEF Store, StoresOK
<1>5. CASE ~Remember(r) /\ ~CheckResponse(r) /\ ~Store(r)
  <2>1. known' = known /\ cache' = cache /\ passed' = passed
    BY <1>5 DEF Step, Arrive, KnownKey, UnknownKey, LoadById, LoadByHash, NoSuchKey, Touch, Touched,
         Limit, CheckPrompt, CacheHit, CacheMiss, Route, NoRoute, Complete, Embed, Answered,
         Respond, Record, Refuse, Go
  <2> QED
    BY <1>1, <2>1 DEF StoresOK
<1> QED
  BY <1>2, <1>3, <1>4, <1>5

\* A row is written when its request ends, from what was delivered.
LEMMA StepLedger ==
  ASSUME ChatAssumption, RecordsOK, RecordsOK', LedgerOK, NEW r \in Request, Step(r)
  PROVE  LedgerOK'
<1>1. /\ \A q \in Request \ {r} : req'[q] = req[q]
      /\ req[r].pc # "ended"
  BY StepPlaces
<1>2. \A c \in ledger : /\ c.request \in Request \ {r} /\ c = Bill(c.request)
                        /\ req[c.request].pc = "ended" /\ req[c.request].status = "success"
  BY <1>1 DEF LedgerOK
<1>3. \A q \in Request \ {r} : Bill(q)' = Bill(q)
  BY <1>1 DEF Bill
<1>4. \A c \in ledger : /\ c.request \in Request /\ c = Bill(c.request)'
                        /\ req'[c.request].pc = "ended" /\ req'[c.request].status = "success"
  BY <1>1, <1>2, <1>3
<1>5. CASE Record(r)
  <2> DEFINE moved == Moved(r, "ended")
  <2>1. moved = [pc |-> "ended", targets |-> req[r].targets, served |-> req[r].served,
                 result |-> req[r].result, hit |-> req[r].hit, status |-> req[r].status]
    BY MovedShaped DEF RecordsOK, RequestsShaped
  <2>2. req' = [req EXCEPT ![r] = moved]
    BY <1>5 DEF Record
  <2> HIDE DEF moved
  <2>3. /\ moved.pc = "ended" /\ moved.result = req[r].result /\ moved.hit = req[r].hit
        /\ moved.status = req[r].status
    BY <2>1
  <2>4. req'[r] = moved
    BY <2>2 DEF RecordsOK, RequestsShaped
  <2>5. req[r].status = "success"
    BY <1>5 DEF RecordsOK, RecordOK, Record, At
  <2>6. Bill(r)' = Bill(r) /\ Bill(r).request = r
    BY <2>3, <2>4 DEF Bill
  <2>7. ledger' \subseteq ledger \cup {Bill(r)}
    BY <1>5 DEF Record
  <2>8. ASSUME NEW c \in ledger'
        PROVE  /\ c.request \in Request /\ c = Bill(c.request)'
               /\ req'[c.request].pc = "ended" /\ req'[c.request].status = "success"
    <3>1. CASE c \in ledger
      BY <1>4, <3>1
    <3>2. CASE c = Bill(r)
      BY <3>2, <2>3, <2>4, <2>5, <2>6
    <3> QED
      BY <2>7, <3>1, <3>2
  <2> QED
    BY <2>8 DEF LedgerOK
<1>6. CASE ~Record(r)
  <2>1. ledger' = ledger
    BY <1>6 DEF Step, Arrive, KnownKey, UnknownKey, LoadById, LoadByHash, NoSuchKey, Remember, Touch,
         Touched, Limit, CheckPrompt, CacheHit, CacheMiss, Route, NoRoute, Complete, Embed, Answered,
         CheckResponse, Store, Respond, Refuse, Go
  <2> QED
    BY <1>4, <2>1 DEF LedgerOK
<1> QED
  BY <1>5, <1>6

\* The steps of the administrators and of time leave requests and ledger alone.
LEMMA RestBilling ==
  ASSUME BillingInv, req' = req, ledger' = ledger, StoresOK', LocksOK'
  PROVE  BillingInv'
<1>1. RecordsOK'
  <2>1. RequestsShaped'
    BY DEF BillingInv, RecordsOK, RequestsShaped, Shaped
  <2>2. \A r \in Request : RecordOK(req'[r])
    BY DEF BillingInv, RecordsOK
  <2>3. \A r \in Request : RecordOK(req[r])'
    BY <2>2 DEF RecordOK, AnsweredOK, Honest, ProviderForModel
  <2> QED
    BY <2>1, <2>3 DEF RecordsOK
<1>2. LedgerOK'
  BY DEF BillingInv, LedgerOK, Bill
<1> QED
  BY <1>1, <1>2 DEF BillingInv

\* A revocation holds the row from its flush to its commit, or until it dies.
LEMMA KeyBilling ==
  ASSUME ChatAssumption, BillingInv, NEW k \in Passing, KeyStep(k)
  PROVE  BillingInv'
<1>1. req' = req /\ ledger' = ledger /\ cache' = cache /\ passed' = passed
  BY DEF KeyStep, Issue, RevokeLoad, RevokeFlush, RevokeDrop, RevokeCommit, RevokeDies
<1>2. k \in Key /\ StoresOK /\ LocksOK
  BY DEF ChatAssumption, BillingInv
<1>3. StoresOK'
  BY <1>1, <1>2 DEF StoresOK, KeyStep, Issue, RevokeLoad, RevokeFlush, RevokeDrop, RevokeCommit, RevokeDies
<1>4. LocksOK'
  <2>1. \A q \in Request : At(q, "touched")' = At(q, "touched")
    BY <1>1 DEF At
  <2>2. CASE Issue(k)
    BY <1>2, <2>1, <2>2 DEF Issue, LocksOK
  <2>3. CASE RevokeLoad(k) \/ RevokeDrop(k)
    <3>1. CASE RevokeLoad(k)
      BY <1>2, <2>1, <3>1 DEF RevokeLoad, Revoking, LocksOK
    <3>2. CASE RevokeDrop(k)
      BY <1>2, <2>1, <3>2 DEF RevokeDrop, Revoking, LocksOK
    <3> QED
      BY <2>3, <3>1, <3>2
  <2>4. CASE RevokeFlush(k)
    <3>1. /\ holder[k] = None /\ holder' = [holder EXCEPT ![k] = "revoke"]
          /\ revoking[k] = "loaded" /\ revoking' = [revoking EXCEPT ![k] = "flushed"]
      BY <2>4 DEF RevokeFlush, Revoking
    <3>2. holder'[k] = "revoke" /\ revoking'[k] = "flushed"
          /\ \A other \in Key \ {k} : holder'[other] = holder[other] /\ revoking'[other] = revoking[other]
      BY <1>2, <3>1 DEF LocksOK
    <3>3. \A q \in Request : holder'[key(q)] = q <=> holder[key(q)] = q
      BY <3>1, <3>2 DEF ChatAssumption, key
    <3> QED
      BY <1>2, <2>1, <3>1, <3>2, <3>3 DEF LocksOK
  <2>5. CASE RevokeCommit(k)
    <3>1. /\ holder' = [holder EXCEPT ![k] = None]
          /\ revoking[k] = "dropped" /\ revoking' = [revoking EXCEPT ![k] = "no"]
      BY <2>5 DEF RevokeCommit, Revoking
    <3>2. holder'[k] = None /\ revoking'[k] = "no" /\ holder[k] = "revoke"
          /\ \A other \in Key \ {k} : holder'[other] = holder[other] /\ revoking'[other] = revoking[other]
      BY <1>2, <3>1 DEF LocksOK
    <3>3. \A q \in Request : holder'[key(q)] = q <=> holder[key(q)] = q
      BY <3>1, <3>2 DEF ChatAssumption, key
    <3> QED
      BY <1>2, <2>1, <3>1, <3>2, <3>3 DEF LocksOK, ChatAssumption
  <2>6. CASE RevokeDies(k)
    <3>1. /\ holder' = [holder EXCEPT ![k] = IF @ = "revoke" THEN None ELSE @]
          /\ revoking' = [revoking EXCEPT ![k] = "no"]
      BY <2>6 DEF RevokeDies
    <3>2. holder'[k] = (IF holder[k] = "revoke" THEN None ELSE holder[k]) /\ revoking'[k] = "no"
          /\ \A other \in Key \ {k} : holder'[other] = holder[other] /\ revoking'[other] = revoking[other]
      BY <1>2, <3>1 DEF LocksOK
    <3>3. \A q \in Request : holder'[key(q)] = q <=> holder[key(q)] = q
      BY <3>1, <3>2 DEF ChatAssumption, key
    <3> QED
      BY <1>2, <2>1, <3>1, <3>2, <3>3 DEF LocksOK, ChatAssumption
  <2> QED
    BY <2>2, <2>3, <2>4, <2>5, <2>6 DEF KeyStep
<1> QED
  BY <1>1, <1>3, <1>4, RestBilling

\* Nothing is held, cached or charged at first.
LEMMA InitBilling == Init => BillingInv
<1> SUFFICES ASSUME Init PROVE BillingInv
  OBVIOUS
<1> USE ChatAssumption
<1>1. /\ req = [r \in Request |-> Fresh] /\ ledger = {} /\ known = {} /\ passed = {}
      /\ cache = [s \in Endpoint \X Prompt |-> None]
      /\ holder = [k \in Key |-> None] /\ revoking = [k \in Key |-> "no"]
      /\ keys \in [Key -> {"unissued", "active"}]
  BY DEF Init
<1>2. Shaped(Fresh) /\ Fresh.pc = "idle" /\ Fresh.status = "none"
  BY EndedShaped
<1>3. Fresh.targets = <<>> /\ Fresh.result = None /\ Fresh.served = None /\ ~Fresh.hit
      /\ Fresh.hit \in BOOLEAN
  BY DEF Fresh
<1>4. RecordOK(Fresh)
  BY <1>2, <1>3 DEF RecordOK
<1>5. \A r \in Request : req[r] = Fresh
  BY <1>1
<1>6. RecordsOK
  BY <1>1, <1>2, <1>4, <1>5 DEF RecordsOK, RequestsShaped
<1>7. StoresOK
  BY <1>1 DEF StoresOK
<1>8. LocksOK
  <2>1. \A r \in Request : holder[key(r)] = None
    BY <1>1 DEF ChatAssumption, key
  <2> QED
    BY <1>1, <1>2, <1>5, <2>1 DEF LocksOK, At, ChatAssumption
<1>9. LedgerOK
  BY <1>1 DEF LedgerOK
<1> QED
  BY <1>6, <1>7, <1>8, <1>9 DEF BillingInv

\* Every step keeps the invariant.
LEMMA NextBilling == BillingInv /\ [Next]_vars => BillingInv'
<1> SUFFICES ASSUME BillingInv, [Next]_vars PROVE BillingInv'
  OBVIOUS
<1>0. ChatAssumption
  BY ChatAssumption
<1>1. CASE UNCHANGED vars
  <2>1. StoresOK' /\ LocksOK'
    BY <1>1 DEF BillingInv, StoresOK, LocksOK, At, vars, admin
  <2> QED
    BY <1>1, <2>1, RestBilling DEF vars
<1>2. CASE Next
  <2>1. ASSUME NEW r \in Request, Step(r) PROVE BillingInv'
    <3>1. RecordsOK /\ StoresOK /\ LocksOK /\ LedgerOK
      BY DEF BillingInv
    <3>2. RecordsOK'
      BY <1>0, <2>1, <3>1, StepRecords
    <3>3. StoresOK' /\ LocksOK' /\ LedgerOK'
      BY <1>0, <2>1, <3>1, <3>2, StepStores, StepLocks, StepLedger
    <3> QED
      BY <3>2, <3>3 DEF BillingInv
  <2>2. ASSUME NEW k \in Passing, KeyStep(k) PROVE BillingInv'
    BY <1>0, <2>2, KeyBilling
  <2>3. ASSUME NEW k \in Key, ForgetKey(k) PROVE BillingInv'
    <3>1. StoresOK' /\ LocksOK'
      BY <2>3 DEF ForgetKey, BillingInv, StoresOK, LocksOK, At, admin
    <3> QED
      BY <2>3, <3>1, RestBilling DEF ForgetKey
  <2>4. ASSUME NEW s \in Endpoint \X Prompt, Expire(s) PROVE BillingInv'
    <3>1. StoresOK' /\ LocksOK'
      BY <2>4 DEF Expire, BillingInv, StoresOK, LocksOK, At, admin
    <3> QED
      BY <2>4, <3>1, RestBilling DEF Expire
  <2> QED
    BY <1>2, <2>1, <2>2, <2>3, <2>4 DEF Next
<1> QED
  BY <1>1, <1>2

\* The variables have their types, a row lock is held by who is between its flush
\* and its commit (verify_api_key, revoke_api_key), and no request is charged twice.
THEOREM TypesHold == Spec => []TypeOK
<1>1. BillingInv => TypeOK
  <2> SUFFICES ASSUME BillingInv PROVE TypeOK
    OBVIOUS
  <2>1. \A r \in Request : req[r].result \in Response \cup {None}
    BY DEF BillingInv, RecordsOK, RecordOK
  <2>2. \A c \in ledger : c \in Charge
    <3> SUFFICES ASSUME NEW c \in ledger PROVE c \in Charge
      OBVIOUS
    <3>1. /\ c.request \in Request /\ c = Bill(c.request)
          /\ RecordOK(req[c.request]) /\ AnsweredOK(req[c.request])
      BY DEF BillingInv, LedgerOK, RecordsOK, RecordOK
    <3>2. req[c.request].result \in Response /\ req[c.request].hit \in BOOLEAN
      BY <3>1 DEF RecordOK, AnsweredOK
    <3> QED
      BY <3>1, <3>2 DEF Bill, Charge, Response
  <2>3. \A a, b \in ledger : a.request = b.request => a = b
    BY DEF BillingInv, LedgerOK
  <2> QED
    BY <2>1, <2>2, <2>3 DEF BillingInv, StoresOK, LocksOK, TypeOK
<1> QED
  BY <1>1, InitBilling, NextBilling, PTL DEF Spec

\* The row of a request is the price of the target that answered it, nothing for
\* a hit, when the model the provider reports is that target's alone
\* (GatewayRouter._provider_for_model, CostService.calculate, record_request).
THEOREM ChargesAreOwed == Spec => []ChargedAsServed
<1>1. BillingInv => ChargedAsServed
  <2> SUFFICES ASSUME BillingInv, NEW c \in ledger
               PROVE  LET r == c.request
                          t == req[r].served
                      IN  /\ req[r].status = "success"
                          /\ c.free <=> t = None
                          /\ ~c.free /\ c.name = ModelOf[t]
                               /\ (\A i \in DOMAIN req[r].targets :
                                     ModelOf[req[r].targets[i]] = c.name => req[r].targets[i] = t)
                             => c.provider = ProviderOf[t]
    BY DEF ChargedAsServed
  <2> DEFINE r == c.request
             record == req[r]
             t == record.served
  <2>1. /\ r \in Request /\ c = Bill(r) /\ record.status = "success"
        /\ RecordOK(record) /\ AnsweredOK(record)
    BY DEF BillingInv, LedgerOK, RecordsOK, RecordOK
  <2>2. c.free = record.hit /\ c.provider = record.result.provider /\ c.name = record.result.name
    BY <2>1 DEF Bill
  <2>3. record.targets \in Seq(Target) /\ record.hit \in BOOLEAN
    BY <2>1 DEF RecordOK
  <2> HIDE DEF record
  <2>4. CASE record.hit
    <3>1. t = None
      BY <2>1, <2>4 DEF AnsweredOK
    <3> QED
      BY <2>1, <2>2, <2>4, <3>1 DEF record
  <2>5. CASE ~record.hit
    <3>1. PICK i \in DOMAIN record.targets :
            t = record.targets[i]
            /\ record.result.provider = ProviderForModel(record.targets, record.result.name)
      BY <2>1, <2>5 DEF AnsweredOK, Honest
    <3>2. t \in Target /\ t # None
      BY <2>3, <3>1, ChatAssumption DEF ChatAssumption
    <3>3. ASSUME c.name = ModelOf[t],
                 \A n \in DOMAIN record.targets :
                   ModelOf[record.targets[n]] = c.name => record.targets[n] = t
          PROVE  c.provider = ProviderOf[t]
      <4>1. PICK k \in DOMAIN record.targets :
              /\ ModelOf[record.targets[k]] = c.name
              /\ ProviderForModel(record.targets, c.name) = ProviderOf[record.targets[k]]
        BY <2>3, <3>1, <3>3, NamedProvider
      <4> QED
        BY <2>2, <3>1, <3>3, <4>1
    <3> QED
      BY <2>1, <2>2, <2>5, <3>2, <3>3 DEF record
  <2> QED
    BY <2>3, <2>4, <2>5
<1> QED
  BY <1>1, InitBilling, NextBilling, PTL DEF Spec


=============================================================================
