-------------------------- MODULE SecretCache_proofs --------------------------
(***************************************************************************)
(* For any TTL, margin and token lifetimes, and any callers and secrets:   *)
(* how stale a cached credential can be, that a cached token is not sent   *)
(* after it expired, and that a get returns nothing older than a change    *)
(* the cache was brought up to; and the types of all variables.            *)
(***************************************************************************)
EXTENDS SecretCacheProps, TLAPS

\* A job record has the fields of Idle.
Shaped(record) ==
  record = [kind |-> record.kind, pc |-> record.pc, agenda |-> record.agenda,
            value |-> record.value, since |-> record.since, floor |-> record.floor,
            wrote |-> record.wrote, token |-> record.token, outcome |-> record.outcome]

\* What matters of a record: where it is, since when, its token, its outcome.
Says(record, pc, since, held, outcome) ==
  /\ Shaped(record) /\ record.pc = pc /\ record.since = since
  /\ record.token = held /\ record.outcome = outcome

\* A change of one field of a shaped record.
LEMMA OneField ==
  ASSUME NEW record, NEW pc, NEW since, NEW held, NEW outcome,
         Says(record, pc, since, held, outcome), NEW v
  PROVE  /\ Says([record EXCEPT !.kind = v], pc, since, held, outcome)
         /\ Says([record EXCEPT !.pc = v], v, since, held, outcome)
         /\ Says([record EXCEPT !.agenda = v], pc, since, held, outcome)
         /\ Says([record EXCEPT !.value = v], pc, since, held, outcome)
         /\ Says([record EXCEPT !.since = v], pc, v, held, outcome)
         /\ Says([record EXCEPT !.floor = v], pc, since, held, outcome)
         /\ Says([record EXCEPT !.wrote = v], pc, since, held, outcome)
         /\ Says([record EXCEPT !.token = v], pc, since, v, outcome)
         /\ Says([record EXCEPT !.outcome = v], pc, since, held, v)
<1>1. Says([record EXCEPT !.kind = v], pc, since, held, outcome)
  BY DEF Says, Shaped
<1>2. Says([record EXCEPT !.pc = v], v, since, held, outcome)
  BY DEF Says, Shaped
<1>3. Says([record EXCEPT !.agenda = v], pc, since, held, outcome)
  BY DEF Says, Shaped
<1>4. Says([record EXCEPT !.value = v], pc, since, held, outcome)
  BY DEF Says, Shaped
<1>5. Says([record EXCEPT !.since = v], pc, v, held, outcome)
  BY DEF Says, Shaped
<1>6. Says([record EXCEPT !.floor = v], pc, since, held, outcome)
  BY DEF Says, Shaped
<1>7. Says([record EXCEPT !.wrote = v], pc, since, held, outcome)
  BY DEF Says, Shaped
<1>8. Says([record EXCEPT !.token = v], pc, since, v, outcome)
  BY DEF Says, Shaped
<1>9. Says([record EXCEPT !.outcome = v], pc, since, held, v)
  BY DEF Says, Shaped
<1> QED
  BY <1>1, <1>2, <1>3, <1>4, <1>5, <1>6, <1>7, <1>8, <1>9

\* Idle and Ended records.
LEMMA EndedSays ==
  ASSUME NEW j, NEW outcome
  PROVE  /\ Says(Idle, "idle", 0, NoToken, "none")
         /\ Says(Ended(j, outcome), "idle", 0, NoToken, outcome)
<1>1. Says(Idle, "idle", 0, NoToken, "none")
  BY DEF Says, Shaped, Idle
<1> DEFINE kindly == [Idle EXCEPT !.kind = job[j].kind]
<1>2. Says(kindly, "idle", 0, NoToken, "none")
  BY <1>1, OneField
<1>3. Ended(j, outcome) = [kindly EXCEPT !.outcome = outcome]
  BY DEF Ended
<1> HIDE DEF kindly
<1>4. Says([kindly EXCEPT !.outcome = outcome], "idle", 0, NoToken, outcome)
  BY <1>2, OneField
<1> QED
  BY <1>1, <1>3, <1>4

-----------------------------------------------------------------------------
\* The invariant.

\* A token as the endpoint granted it at this time.
Granted(t, at) == t = [expires |-> at + t.life, until |-> 0, life |-> t.life] /\ t.life \in Nat

\* Nothing older than CallTime is on its way to a cache, and a token was sent
\* before it expired.
RecordTimely(record) ==
  /\ Shaped(record) /\ record.since \in Nat
  /\ record.pc \in {"fill", "keep"} => now <= record.since + CallTime
  /\ record.pc = "keep" => Granted(record.token, record.since)
  /\ record.outcome = "sent" =>
       /\ record.pc = "idle"
       /\ record.since < record.token.expires \/ record.token.life < Least + CallTime

\* An entry is served until a TTL after it was written, and it was written within
\* CallTime of the answer it comes from.
CacheTimely ==
  /\ cache = [n \in Name |-> cache[n]]
  /\ \A n \in Name : /\ cache[n].until \in Nat /\ cache[n].asOf \in Nat
                     /\ cache[n].until <= cache[n].asOf + Ttl + CallTime

\* A cached token is served no longer than it lives, unless it lives too short.
TokenTimely ==
  /\ token.until \in Nat /\ token.expires \in Nat /\ token.life \in Nat
  /\ token.until <= token.expires \/ token.life < Least + CallTime

TimeInv ==
  /\ now \in Nat /\ CacheTimely /\ TokenTimely
  /\ job = [j \in Job |-> job[j]]
  /\ \A j \in Job : RecordTimely(job[j])

\* A record that is on its way to no cache and has sent no token.
Quiet(record) ==
  /\ Shaped(record) /\ record.since \in Nat
  /\ record.pc \notin {"fill", "keep"} /\ record.outcome # "sent"

\* A step of one job that keeps the caches timely keeps the invariant.
LEMMA JobStep ==
  ASSUME TimeInv, NEW j \in Job, NEW record, RecordTimely(record),
         job' = [job EXCEPT ![j] = record], now' = now, CacheTimely', TokenTimely'
  PROVE  TimeInv'
<1>1. /\ job' = [k \in Job |-> job'[k]] /\ job'[j] = record
      /\ \A k \in Job \ {j} : job'[k] = job[k]
  BY DEF TimeInv
<1>2. \A k \in Job : RecordTimely(job'[k])
  BY <1>1 DEF TimeInv
<1>3. \A k \in Job : RecordTimely(job[k])'
  BY <1>2 DEF RecordTimely
<1> QED
  BY <1>1, <1>3 DEF TimeInv

\* A step that changes one job only, and leaves it quiet.
LEMMA QuietStep ==
  ASSUME TimeInv, NEW j \in Job, NEW record, Quiet(record),
         job' = [job EXCEPT ![j] = record], UNCHANGED <<now, cache, token>>
  PROVE  TimeInv'
<1>1. RecordTimely(record)
  BY DEF Quiet, RecordTimely
<1>2. CacheTimely' /\ TokenTimely'
  BY DEF TimeInv, CacheTimely, TokenTimely
<1> QED
  BY <1>1, <1>2, JobStep

-----------------------------------------------------------------------------
\* The records the steps write.

\* A job that moves on keeps what it knows of times.
LEMMA MovedSays ==
  ASSUME TimeInv, NEW j \in Job, NEW place
  PROVE  Says(Moved(j, place), place, job[j].since, job[j].token, job[j].outcome)
<1>1. Says(job[j], job[j].pc, job[j].since, job[j].token, job[j].outcome)
  BY DEF TimeInv, RecordTimely, Says
<1>2. Says([job[j] EXCEPT !.pc = place], place, job[j].since, job[j].token, job[j].outcome)
  BY <1>1, OneField
<1> QED
  BY <1>2 DEF Moved

\* A job under way moves on quietly, unless it moves to a cache write.
LEMMA MovedQuiet ==
  ASSUME TimeInv, NEW j \in Job, job[j].pc # "idle", NEW place, place \notin {"fill", "keep"}
  PROVE  Quiet(Moved(j, place))
<1>1. job[j].since \in Nat /\ job[j].outcome # "sent"
  BY DEF TimeInv, RecordTimely
<1> QED
  BY <1>1, MovedSays DEF Says, Quiet

\* It ends quietly, unless it sends a token.
LEMMA EndedQuiet ==
  ASSUME NEW j, NEW outcome, outcome # "sent"
  PROVE  /\ Quiet(Ended(j, outcome))
         /\ \A value, floor : Quiet([Ended(j, outcome) EXCEPT !.value = value, !.floor = floor])
         /\ \A stamp : Quiet([Ended(j, outcome) EXCEPT !.wrote = stamp])
<1> DEFINE ended == Ended(j, outcome)
<1>1. Says(ended, "idle", 0, NoToken, outcome)
  BY EndedSays
<1> HIDE DEF ended
<1>2. Quiet(ended)
  BY <1>1 DEF Says, Quiet
<1>3. ASSUME NEW value, NEW floor PROVE Quiet([ended EXCEPT !.value = value, !.floor = floor])
  <2> DEFINE valued == [ended EXCEPT !.value = value]
             floored == [ended EXCEPT !.value = value, !.floor = floor]
  <2>1. Says(valued, "idle", 0, NoToken, outcome)
    BY <1>1, OneField
  <2>2. floored = [valued EXCEPT !.floor = floor]
    OBVIOUS
  <2> HIDE DEF valued, floored
  <2>3. Says([valued EXCEPT !.floor = floor], "idle", 0, NoToken, outcome)
    BY <2>1, OneField
  <2>4. Quiet(floored)
    BY <2>2, <2>3 DEF Says, Quiet
  <2> QED
    BY <2>4 DEF floored
<1>4. ASSUME NEW stamp PROVE Quiet([ended EXCEPT !.wrote = stamp])
  <2>1. Says([ended EXCEPT !.wrote = stamp], "idle", 0, NoToken, outcome)
    BY <1>1, OneField
  <2> QED
    BY <2>1 DEF Says, Quiet
<1> QED
  BY <1>2, <1>3, <1>4 DEF ended

\* A value was had: the job ends, or reads on for its token.
LEMMA GotQuiet ==
  ASSUME NEW j, NEW answer
  PROVE  Quiet(Got(j, answer))
<1>1. CASE job[j].kind = "get"
  BY <1>1, EndedQuiet DEF Got
<1>2. CASE job[j].kind = "rotate"
  <2>1. PICK outcome \in {"rotated", "error"} : Got(j, answer) = Ended(j, outcome)
    BY <1>2 DEF Got
  <2> QED
    BY <2>1, EndedQuiet
<1>3. CASE Got(j, answer) = Ended(j, "no_token")
  BY <1>3, EndedQuiet
<1>4. CASE job[j].kind \notin {"get", "rotate"} /\ Got(j, answer) # Ended(j, "no_token")
  <2>1. PICK place \in {"read", "exchange"}, outcome \in {"none", "no_token"} : Got(j, answer) =
          [Idle EXCEPT !.kind = "call", !.agenda = Tail(job[j].agenda), !.pc = place,
                       !.outcome = outcome]
    BY <1>4 DEF Got
  <2> DEFINE calling == [Idle EXCEPT !.kind = "call"]
             reading == [calling EXCEPT !.agenda = Tail(job[j].agenda)]
             placed == [reading EXCEPT !.pc = place]
             on == [placed EXCEPT !.outcome = outcome]
  <2>2. Says(calling, "idle", 0, NoToken, "none")
    BY EndedSays, OneField
  <2>3. Got(j, answer) = on
    BY <2>1
  <2> HIDE DEF calling
  <2>4. Says(reading, "idle", 0, NoToken, "none")
    BY <2>2, OneField
  <2> HIDE DEF reading
  <2>5. Says(placed, place, 0, NoToken, "none")
    BY <2>4, OneField
  <2> HIDE DEF placed
  <2>6. Says(on, place, 0, NoToken, outcome)
    BY <2>5, OneField
  <2> HIDE DEF on
  <2> QED
    BY <2>3, <2>6 DEF Says, Quiet
<1> QED
  BY <1>1, <1>2, <1>3, <1>4

\* A job starts at its first place, which is no cache write.
LEMMA StartQuiet ==
  ASSUME SecretAssumption, NEW kind \in Kind, NEW agenda, NEW floor
  PROVE  Quiet([Idle EXCEPT !.kind = kind, !.pc = First(kind), !.agenda = agenda, !.floor = floor])
<1>1. First(kind) \notin {"fill", "keep"}
  BY DEF SecretAssumption, First
<1> DEFINE kindly == [Idle EXCEPT !.kind = kind]
           placed == [kindly EXCEPT !.pc = First(kind)]
           reading == [placed EXCEPT !.agenda = agenda]
           floored == [reading EXCEPT !.floor = floor]
           started == [Idle EXCEPT !.kind = kind, !.pc = First(kind), !.agenda = agenda,
                                   !.floor = floor]
<1>2. Says(kindly, "idle", 0, NoToken, "none")
  BY EndedSays, OneField
<1>3. started = floored
  OBVIOUS
<1> HIDE DEF kindly
<1>4. Says(placed, First(kind), 0, NoToken, "none")
  BY <1>2, OneField
<1> HIDE DEF placed
<1>5. Says(reading, First(kind), 0, NoToken, "none")
  BY <1>4, OneField
<1> HIDE DEF reading
<1>6. Says(floored, First(kind), 0, NoToken, "none")
  BY <1>5, OneField
<1> HIDE DEF floored, started
<1>7. Quiet(started)
  BY <1>1, <1>3, <1>6 DEF Says, Quiet
<1> QED
  BY <1>7 DEF started

\* The write of a secret leaves the caches alone, for the moment.
LEMMA WrittenQuiet ==
  ASSUME TimeInv, NEW j \in Job, job[j].pc # "idle", NEW has, Written(j, has)
  PROVE  TimeInv'
<1>1. PICK told \in BOOLEAN :
        job' = [job EXCEPT ![j] =
          IF told THEN [Moved(j, "invalidate") EXCEPT !.wrote = store[secret(j)].stamp + 1]
          ELSE Ended(j, "error")]
  BY DEF Written
<1>2. UNCHANGED <<now, cache, token>>
  BY DEF Written
<1>3. CASE told
  <2> DEFINE noted == [Moved(j, "invalidate") EXCEPT !.wrote = store[secret(j)].stamp + 1]
  <2>1. Says(Moved(j, "invalidate"), "invalidate", job[j].since, job[j].token, job[j].outcome)
    BY MovedSays
  <2>2. Says(noted, "invalidate", job[j].since, job[j].token, job[j].outcome)
    BY <2>1, OneField
  <2>3. job' = [job EXCEPT ![j] = noted]
    BY <1>1, <1>3
  <2> HIDE DEF noted
  <2>4. job[j].since \in Nat /\ job[j].outcome # "sent"
    BY DEF TimeInv, RecordTimely
  <2>5. Quiet(noted)
    BY <2>2, <2>4 DEF Says, Quiet
  <2> QED
    BY <1>2, <2>3, <2>5, QuietStep
<1>4. CASE ~told
  <2>1. job' = [job EXCEPT ![j] = Ended(j, "error")] /\ Quiet(Ended(j, "error"))
    BY <1>1, <1>4, EndedQuiet
  <2> QED
    BY <1>2, <2>1, QuietStep
<1> QED
  BY <1>3, <1>4

\* What a set or a deletion ends with.
LEMMA DoneQuiet ==
  ASSUME NEW j
  PROVE  Quiet(Done(j))
<1>1. CASE job[j].kind = "set"
  BY <1>1, EndedQuiet DEF Done
<1>2. CASE job[j].kind # "set"
  BY <1>2, EndedQuiet DEF Done
<1> QED
  BY <1>1, <1>2

-----------------------------------------------------------------------------
\* The steps.

\* The steps that write no cache and have no answer in hand.
LEMMA QuietSteps ==
  ASSUME SecretAssumption, TimeInv, NEW j \in Job,
         \/ Start(j) \/ Hit(j) \/ Miss(j) \/ FetchFails(j) \/ FillFails(j)
         \/ Put(j) \/ PutFindsNothing(j) \/ Create(j) \/ CreateConflicts(j)
         \/ CheckContainer(j) \/ CreateContainer(j) \/ AddVersion(j) \/ AddFindsNothing(j)
         \/ Delete(j) \/ DeleteFindsNothing(j) \/ WriteFails(j) \/ InvalidateFails(j)
         \/ TokenMiss(j) \/ TokenFails(j)
  PROVE  TimeInv'
<1>1. CASE Start(j)
  <2>1. PICK kind \in Kind, n \in Name :
          job' = [job EXCEPT ![j] =
            [Idle EXCEPT !.kind = kind, !.pc = First(kind),
                         !.agenda = IF kind = "call" THEN ClientRefs ELSE <<n>>,
                         !.floor = IF kind = "get" THEN settled[n] ELSE 0]]
    BY <1>1 DEF Start
  <2>2. PICK agenda, floor :
          job' = [job EXCEPT ![j] =
            [Idle EXCEPT !.kind = kind, !.pc = First(kind), !.agenda = agenda, !.floor = floor]]
    BY <2>1
  <2>3. UNCHANGED <<now, cache, token>>
    BY <1>1 DEF Start
  <2> QED
    BY <2>2, <2>3, StartQuiet, QuietStep
<1>2. CASE Hit(j) \/ FillFails(j)
  <2>1. PICK answer : Go(j, Got(j, answer))
    BY <1>2 DEF Hit, FillFails
  <2> QED
    BY <2>1, GotQuiet, QuietStep DEF Go
<1>3. CASE \/ Miss(j) \/ PutFindsNothing(j) \/ CheckContainer(j) \/ DeleteFindsNothing(j)
           \/ TokenMiss(j)
  <2>1. PICK place \in {"fetch", "create", "add", "container", "invalidate", "read"} :
          Go(j, Moved(j, place))
    BY <1>3 DEF Miss, PutFindsNothing, CheckContainer, DeleteFindsNothing, TokenMiss
  <2>2. job[j].pc # "idle"
    BY <1>3 DEF Miss, PutFindsNothing, CheckContainer, DeleteFindsNothing, TokenMiss, At
  <2> QED
    BY <2>1, <2>2, MovedQuiet, QuietStep DEF Go
<1>4. CASE \/ FetchFails(j) \/ CreateConflicts(j) \/ AddFindsNothing(j) \/ WriteFails(j)
           \/ TokenFails(j)
  <2>1. Go(j, Ended(j, "error"))
    BY <1>4 DEF FetchFails, CreateConflicts, AddFindsNothing, WriteFails, TokenFails
  <2> QED
    BY <2>1, EndedQuiet, QuietStep DEF Go
<1>5. CASE Put(j) \/ Create(j) \/ AddVersion(j) \/ Delete(j)
  <2>1. PICK has \in BOOLEAN : Written(j, has)
    BY <1>5 DEF Put, Create, AddVersion, Delete
  <2>2. job[j].pc # "idle"
    BY <1>5 DEF Put, Create, AddVersion, Delete, At
  <2> QED
    BY <2>1, <2>2, WrittenQuiet
<1>6. CASE CreateContainer(j)
  <2>1. job' = [job EXCEPT ![j] = Moved(j, "add")] /\ UNCHANGED <<now, cache, token>>
        /\ job[j].pc # "idle"
    BY <1>6 DEF CreateContainer, At
  <2> QED
    BY <2>1, MovedQuiet, QuietStep
<1>7. CASE InvalidateFails(j)
  BY <1>7, DoneQuiet, QuietStep DEF InvalidateFails, Go
<1> QED
  BY <1>1, <1>2, <1>3, <1>4, <1>5, <1>6, <1>7

\* A cache in which an entry was replaced by a timely one is timely.
LEMMA EntryReplaced ==
  ASSUME CacheTimely, NEW n, NEW entry, cache' = [cache EXCEPT ![n] = entry],
         entry.until \in Nat, entry.asOf \in Nat, entry.until <= entry.asOf + Ttl + CallTime
  PROVE  CacheTimely'
<1>1. cache' = [m \in Name |-> cache'[m]]
  BY DEF CacheTimely
<1>2. \A m \in Name : cache'[m] = cache[m] \/ cache'[m] = entry
  BY DEF CacheTimely
<1> QED
  BY <1>1, <1>2 DEF CacheTimely

\* No entry is a timely one.
LEMMA NoEntryTimely ==
  ASSUME SecretAssumption
  PROVE  /\ NoEntry.until \in Nat /\ NoEntry.asOf \in Nat
         /\ NoEntry.until <= NoEntry.asOf + Ttl + CallTime
<1>1. Ttl \in Nat /\ CallTime \in Nat
  BY DEF SecretAssumption
<1> QED
  BY <1>1 DEF NoEntry

\* An answer is written to the cache within CallTime, for a TTL.
LEMMA FillTimely ==
  ASSUME SecretAssumption, TimeInv, NEW j \in Job, Fill(j)
  PROVE  TimeInv'
<1>1. /\ job[j].pc = "fill" /\ job' = [job EXCEPT ![j] = Got(j, job[j].value)]
      /\ cache' = [cache EXCEPT ![secret(j)] = Filled(job[j].value, job[j].since)]
      /\ now' = now /\ token' = token
  BY DEF Fill, At
<1>2. now \in Nat /\ job[j].since \in Nat /\ now <= job[j].since + CallTime
  BY <1>1 DEF TimeInv, RecordTimely
<1>3. Ttl \in Nat /\ CallTime \in Nat
  BY DEF SecretAssumption
<1> DEFINE entry == Filled(job[j].value, job[j].since)
<1>4. entry.until \in Nat /\ entry.asOf \in Nat /\ entry.until <= entry.asOf + Ttl + CallTime
  <2>1. CASE job[j].value.has
    <3>1. entry.until = now + Ttl /\ entry.asOf = job[j].since
      BY <2>1 DEF Filled
    <3> HIDE DEF entry
    <3> QED
      BY <3>1, <1>2, <1>3
  <2>2. CASE ~job[j].value.has
    <3>1. entry = NoEntry
      BY <2>2 DEF Filled
    <3> HIDE DEF entry
    <3> QED
      BY <3>1, NoEntryTimely
  <2> QED
    BY <2>1, <2>2
<1>5. cache' = [cache EXCEPT ![secret(j)] = entry]
  BY <1>1
<1> HIDE DEF entry
<1>7. CacheTimely'
  BY <1>4, <1>5, EntryReplaced DEF TimeInv
<1>8. TokenTimely'
  BY <1>1 DEF TimeInv, TokenTimely
<1>9. PICK record : record = Got(j, job[j].value)
  OBVIOUS
<1>10. RecordTimely(record)
  <2>1. Quiet(record)
    BY <1>9, GotQuiet
  <2> QED
    BY <2>1 DEF Quiet, RecordTimely
<1> QED
  BY <1>1, <1>7, <1>8, <1>9, <1>10, JobStep

\* A change drops the entry.
LEMMA InvalidateTimely ==
  ASSUME SecretAssumption, TimeInv, NEW j \in Job, Invalidate(j)
  PROVE  TimeInv'
<1>1. /\ job' = [job EXCEPT ![j] = Done(j)]
      /\ cache' = [cache EXCEPT ![secret(j)] = NoEntry] /\ now' = now /\ token' = token
  BY DEF Invalidate
<1>2. CacheTimely'
  BY <1>1, NoEntryTimely, EntryReplaced DEF TimeInv
<1>3. TokenTimely'
  BY <1>1 DEF TimeInv, TokenTimely
<1>4. PICK record : record = Done(j)
  OBVIOUS
<1>5. RecordTimely(record)
  <2>1. Quiet(record)
    BY <1>4, DoneQuiet
  <2> QED
    BY <2>1 DEF Quiet, RecordTimely
<1> QED
  BY <1>1, <1>2, <1>3, <1>4, <1>5, JobStep

\* The answer of the backend, and the grant of a token, are as new as can be.
LEMMA AnsweredTimely ==
  ASSUME SecretAssumption, TimeInv, NEW j \in Job, Fetch(j) \/ Exchange(j)
  PROVE  TimeInv'
<1>1. now \in Nat /\ CallTime \in Nat /\ job[j].outcome # "sent"
  BY DEF SecretAssumption, TimeInv, RecordTimely, Fetch, Exchange, At
<1>2. UNCHANGED <<now, cache, token>>
  BY DEF Fetch, Exchange, Go
<1>3. CacheTimely' /\ TokenTimely'
  BY <1>2 DEF TimeInv, CacheTimely, TokenTimely
<1>4. CASE Fetch(j)
  <2>1. PICK value : Go(j, [job[j] EXCEPT !.pc = "fill", !.value = value, !.since = now])
    BY <1>4 DEF Fetch
  <2> DEFINE moved == Moved(j, "fill")
             valued == [moved EXCEPT !.value = value]
             fetched == [valued EXCEPT !.since = now]
  <2>2. job' = [job EXCEPT ![j] = fetched]
    BY <2>1 DEF Go, Moved
  <2>3. Says(moved, "fill", job[j].since, job[j].token, job[j].outcome)
    BY MovedSays
  <2> HIDE DEF moved
  <2>4. Says(valued, "fill", job[j].since, job[j].token, job[j].outcome)
    BY <2>3, OneField
  <2> HIDE DEF valued
  <2>5. Says(fetched, "fill", now, job[j].token, job[j].outcome)
    BY <2>4, OneField
  <2> HIDE DEF fetched
  <2>6. PICK record : record = fetched
    OBVIOUS
  <2>7. RecordTimely(record)
    BY <1>1, <2>5, <2>6 DEF Says, RecordTimely
  <2> QED
    BY <1>2, <1>3, <2>2, <2>6, <2>7, JobStep
<1>5. CASE Exchange(j)
  <2>1. PICK life \in ExpiresIn :
          Go(j, [Moved(j, "keep") EXCEPT
                   !.token = [expires |-> now + life, until |-> 0, life |-> life], !.since = now])
    BY <1>5 DEF Exchange
  <2> DEFINE granted == [expires |-> now + life, until |-> 0, life |-> life]
             moved == Moved(j, "keep")
             holding == [moved EXCEPT !.token = granted]
             exchanged == [holding EXCEPT !.since = now]
  <2>2. job' = [job EXCEPT ![j] = exchanged]
    BY <2>1 DEF Go
  <2>3. Granted(granted, now)
    BY DEF Granted, SecretAssumption
  <2> HIDE DEF granted
  <2>4. Says(moved, "keep", job[j].since, job[j].token, job[j].outcome)
    BY MovedSays
  <2> HIDE DEF moved
  <2>5. Says(holding, "keep", job[j].since, granted, job[j].outcome)
    BY <2>4, OneField
  <2> HIDE DEF holding
  <2>6. Says(exchanged, "keep", now, granted, job[j].outcome)
    BY <2>5, OneField
  <2> HIDE DEF exchanged
  <2>7. PICK record : record = exchanged
    OBVIOUS
  <2>8. RecordTimely(record)
    BY <1>1, <2>3, <2>6, <2>7 DEF Says, RecordTimely
  <2> QED
    BY <1>2, <1>3, <2>2, <2>7, <2>8, JobStep
<1> QED
  BY <1>4, <1>5

\* The record of a job that has sent a token.
LEMMA SentSays ==
  ASSUME NEW j, NEW t
  PROVE  Says(Sent(j, t), "idle", now, t, "sent")
<1> DEFINE ended == Ended(j, "sent")
           holding == [ended EXCEPT !.token = t]
           sent == [holding EXCEPT !.since = now]
<1>1. Sent(j, t) = sent
  BY DEF Sent
<1>2. Says(ended, "idle", 0, NoToken, "sent")
  BY EndedSays
<1> HIDE DEF ended
<1>3. Says(holding, "idle", 0, t, "sent")
  BY <1>2, OneField
<1> HIDE DEF holding
<1>4. Says(sent, "idle", now, t, "sent")
  BY <1>3, OneField
<1> HIDE DEF sent
<1> QED
  BY <1>1, <1>4

\* A token from the cache has not expired: the cache dropped it before.
LEMMA TokenHitTimely ==
  ASSUME SecretAssumption, TimeInv, NEW j \in Job, TokenHit(j)
  PROVE  TimeInv'
<1>1. /\ job' = [job EXCEPT ![j] = Sent(j, token)] /\ UNCHANGED <<now, cache, token>>
      /\ now < token.until
  BY DEF TokenHit, Go
<1>2. CacheTimely' /\ TokenTimely'
  BY <1>1 DEF TimeInv, CacheTimely, TokenTimely
<1>3. PICK record : record = Sent(j, token)
  OBVIOUS
<1>4. Says(record, "idle", now, token, "sent")
  BY <1>3, SentSays
<1>5. now < token.expires \/ token.life < Least + CallTime
  <2>1. {now, token.until, token.expires, token.life, Least, CallTime} \subseteq Nat
    BY DEF TimeInv, TokenTimely, SecretAssumption
  <2> QED
    BY <2>1, <1>1 DEF TimeInv, TokenTimely
<1>6. RecordTimely(record)
  BY <1>4, <1>5 DEF Says, RecordTimely, TimeInv
<1> QED
  BY <1>1, <1>2, <1>3, <1>6, JobStep

\* A token is kept for less than it lives, by more than its way to the cache took,
\* unless it lives too short.
LEMMA KeptTimely ==
  ASSUME SecretAssumption, NEW life \in Nat, NEW since \in Nat, NEW at \in Nat,
         at <= since + CallTime
  PROVE  /\ KeptFor(life) \in Nat
         /\ life < Least + CallTime \/ (at + KeptFor(life) <= since + life /\ at < since + life)
<1>1. Margin \in Nat /\ Least \in Nat /\ CallTime \in Nat /\ CallTime <= Margin /\ Least > 0
  BY DEF SecretAssumption
<1>2. CASE life > Least + Margin
  BY <1>1, <1>2 DEF KeptFor
<1>3. CASE life <= Least + Margin
  BY <1>1, <1>3 DEF KeptFor
<1> QED
  BY <1>1, <1>2, <1>3

\* The granted token is kept and sent.
LEMMA KeepTimely ==
  ASSUME SecretAssumption, TimeInv, NEW j \in Job, Keep(j)
  PROVE  TimeInv'
<1> DEFINE granted == job[j].token
           life == granted.life
           kept == [granted EXCEPT !.until = now + KeptFor(life)]
<1>1. token' = kept /\ job' = [job EXCEPT ![j] = Sent(j, kept)] /\ now' = now /\ cache' = cache
  BY DEF Keep
<1>2. /\ now \in Nat /\ job[j].since \in Nat /\ now <= job[j].since + CallTime
      /\ Granted(granted, job[j].since)
  BY DEF Keep, At, TimeInv, RecordTimely
<1>3. life \in Nat /\ granted = [expires |-> job[j].since + life, until |-> 0, life |-> life]
  BY <1>2 DEF Granted
<1>4. /\ KeptFor(life) \in Nat
      /\ \/ life < Least + CallTime
         \/ now + KeptFor(life) <= job[j].since + life /\ now < job[j].since + life
  BY <1>2, <1>3, KeptTimely
<1> HIDE DEF life
<1>5. kept = [expires |-> job[j].since + life, until |-> now + KeptFor(life), life |-> life]
  <2> HIDE DEF granted
  <2> QED
    BY <1>3
<1> HIDE DEF kept
<1>6. TokenTimely'
  <2>1. /\ token'.expires = job[j].since + life /\ token'.until = now + KeptFor(life)
        /\ token'.life = life
    BY <1>1, <1>5
  <2>2. token'.until \in Nat /\ token'.expires \in Nat /\ token'.life \in Nat
    <3>1. now \in Nat /\ job[j].since \in Nat /\ life \in Nat /\ KeptFor(life) \in Nat
      BY <1>2, <1>3, <1>4
    <3>2. \A a, b \in Nat : a + b \in Nat
      OBVIOUS
    <3>3. now + KeptFor(life) \in Nat /\ job[j].since + life \in Nat
      BY <3>1, <3>2, Zenon
    <3> QED
      BY <2>1, <3>1, <3>3
  <2>3. token'.until <= token'.expires \/ token'.life < Least + CallTime
    BY <2>1, <1>4
  <2> QED
    BY <2>2, <2>3 DEF TokenTimely
<1>7. CacheTimely'
  BY <1>1 DEF TimeInv, CacheTimely
<1>8. PICK record : record = Sent(j, kept)
  OBVIOUS
<1>9. Says(record, "idle", now, kept, "sent")
  BY <1>8, SentSays
<1>10. RecordTimely(record)
  BY <1>2, <1>3, <1>4, <1>5, <1>9 DEF Says, RecordTimely
<1> QED
  BY <1>1, <1>6, <1>7, <1>8, <1>10, JobStep

\* Time passes only while no answer has been waiting for CallTime.
LEMMA TickTimely ==
  ASSUME SecretAssumption, TimeInv, Tick
  PROVE  TimeInv'
<1>1. /\ now' = now + 1 /\ UNCHANGED <<job, cache, token>>
      /\ \A j \in Job : job[j].pc \in {"fill", "keep"} => now < job[j].since + CallTime
  BY DEF Tick
<1>2. now \in Nat /\ CallTime \in Nat
  BY DEF TimeInv, SecretAssumption
<1>3. ASSUME NEW j \in Job PROVE RecordTimely(job[j])'
  <2>1. RecordTimely(job[j])
    BY DEF TimeInv
  <2>2. job' = job /\ now' \in Nat /\ now < now'
    BY <1>1, <1>2
  <2>3. /\ job[j].since \in Nat
        /\ job[j].pc \in {"fill", "keep"} => now' <= job[j].since + CallTime
    <3>1. job[j].since \in Nat
      BY <2>1 DEF RecordTimely
    <3>2. now' = now + 1 /\ (job[j].pc \in {"fill", "keep"} => now < job[j].since + CallTime)
      BY <1>1
    <3> QED
      BY <1>2, <3>1, <3>2
  <2>4. Shaped(job[j])' /\ (job[j].pc = "keep" => Granted(job[j].token, job[j].since))'
    BY <2>1, <2>2 DEF RecordTimely, Shaped, Granted
  <2>5. (job[j].outcome = "sent" =>
          /\ job[j].pc = "idle"
          /\ job[j].since < job[j].token.expires \/ job[j].token.life < Least + CallTime)'
    BY <2>1, <2>2 DEF RecordTimely
  <2> QED
    BY <2>2, <2>3, <2>4, <2>5 DEF RecordTimely
<1>4. CacheTimely' /\ TokenTimely'
  BY <1>1 DEF TimeInv, CacheTimely, TokenTimely
<1>5. job' = [j \in Job |-> job'[j]]
  BY <1>1 DEF TimeInv
<1> QED
  BY <1>1, <1>2, <1>3, <1>4, <1>5 DEF TimeInv

\* At first there is nothing that could be stale.
LEMMA InitTimely == Init => TimeInv
<1> SUFFICES ASSUME Init PROVE TimeInv
  OBVIOUS
<1>1. /\ now = 0 /\ cache = [n \in Name |-> NoEntry] /\ token = NoToken
      /\ job = [j \in Job |-> Idle]
  BY DEF Init
<1>2. CacheTimely
  <2>1. \A n \in Name : cache[n] = NoEntry
    BY <1>1
  <2> QED
    BY <1>1, <2>1, SecretAssumption, NoEntryTimely DEF CacheTimely
<1>3. TokenTimely
  BY <1>1 DEF TokenTimely, NoToken
<1>4. ASSUME NEW j \in Job PROVE RecordTimely(job[j])
  <2>1. Says(Idle, "idle", 0, NoToken, "none")
    BY EndedSays
  <2>2. job[j] = Idle
    BY <1>1
  <2> QED
    BY <2>1, <2>2 DEF Says, RecordTimely
<1> QED
  BY <1>1, <1>2, <1>3, <1>4 DEF TimeInv

\* Every step keeps the invariant.
LEMMA NextTimely == TimeInv /\ [Next]_vars => TimeInv'
<1> SUFFICES ASSUME TimeInv, [Next]_vars PROVE TimeInv'
  OBVIOUS
<1>1. ASSUME UNCHANGED <<now, cache, token, job>> PROVE TimeInv'
  BY <1>1 DEF TimeInv, CacheTimely, TokenTimely, RecordTimely
<1>2. CASE UNCHANGED vars
  BY <1>1, <1>2 DEF vars
<1>3. CASE Tick
  BY <1>3, SecretAssumption, TickTimely
<1>4. ASSUME NEW n \in Name, ChangeOutside(n) PROVE TimeInv'
  BY <1>1, <1>4 DEF ChangeOutside
<1>5. ASSUME NEW j \in Job, Step(j) PROVE TimeInv'
  BY <1>5, SecretAssumption, QuietSteps, FillTimely, InvalidateTimely, AnsweredTimely,
     TokenHitTimely, KeepTimely DEF Step
<1> QED
  BY <1>2, <1>3, <1>4, <1>5 DEF Next

\* What the cache serves was the backend's value within the last TTL and the time
\* an answer may take to reach the cache (SecretService.get_secret).
THEOREM StaleForATtl == Spec => []StaleAtMostTtl
<1>1. TimeInv => StaleAtMostTtl
  <2> SUFFICES ASSUME TimeInv, NEW n \in Name, Fresh(cache[n])
               PROVE  now < cache[n].asOf + Ttl + CallTime
    BY DEF StaleAtMostTtl
  <2>1. now \in Nat /\ Ttl \in Nat /\ CallTime \in Nat
    BY SecretAssumption DEF TimeInv, SecretAssumption
  <2>2. /\ cache[n].until \in Nat /\ cache[n].asOf \in Nat
        /\ cache[n].until <= cache[n].asOf + Ttl + CallTime
    BY DEF TimeInv, CacheTimely
  <2>3. now < cache[n].until
    BY DEF Fresh
  <2> QED
    BY <2>1, <2>2, <2>3
<1> QED
  BY <1>1, InitTimely, NextTimely, PTL DEF Spec

\* A tool call sends no token that has expired, unless the token lives too short
\* for the shortest TTL (RestExecutor._get_oauth2_token).
THEOREM TokensSentInTime == Spec => []SentTokenIsValid
<1>1. TimeInv => SentTokenIsValid
  BY DEF TimeInv, RecordTimely, SentTokenIsValid
<1> QED
  BY <1>1, InitTimely, NextTimely, PTL DEF Spec

-----------------------------------------------------------------------------
\* What a get returns, and what the cache was brought up to.

\* A job record with these fields.
Is(record, kind, pc, agenda, value, since, floor, wrote, held, outcome) ==
  record = [kind |-> kind, pc |-> pc, agenda |-> agenda, value |-> value, since |-> since,
            floor |-> floor, wrote |-> wrote, token |-> held, outcome |-> outcome]

\* A change of one of them.
LEMMA FieldSet ==
  ASSUME NEW kind, NEW pc, NEW agenda, NEW value, NEW since, NEW floor, NEW wrote, NEW held,
         NEW outcome, NEW v, NEW record,
         Is(record, kind, pc, agenda, value, since, floor, wrote, held, outcome)
  PROVE  /\ Is([record EXCEPT !.kind = v], v, pc, agenda, value, since, floor, wrote, held, outcome)
         /\ Is([record EXCEPT !.pc = v], kind, v, agenda, value, since, floor, wrote, held, outcome)
         /\ Is([record EXCEPT !.agenda = v], kind, pc, v, value, since, floor, wrote, held, outcome)
         /\ Is([record EXCEPT !.value = v], kind, pc, agenda, v, since, floor, wrote, held, outcome)
         /\ Is([record EXCEPT !.since = v], kind, pc, agenda, value, v, floor, wrote, held, outcome)
         /\ Is([record EXCEPT !.floor = v], kind, pc, agenda, value, since, v, wrote, held, outcome)
         /\ Is([record EXCEPT !.wrote = v], kind, pc, agenda, value, since, floor, v, held, outcome)
         /\ Is([record EXCEPT !.token = v], kind, pc, agenda, value, since, floor, wrote, v, outcome)
         /\ Is([record EXCEPT !.outcome = v], kind, pc, agenda, value, since, floor, wrote, held, v)
<1>1. Is([record EXCEPT !.kind = v], v, pc, agenda, value, since, floor, wrote, held, outcome)
  BY DEF Is
<1>2. Is([record EXCEPT !.pc = v], kind, v, agenda, value, since, floor, wrote, held, outcome)
  BY DEF Is
<1>3. Is([record EXCEPT !.agenda = v], kind, pc, v, value, since, floor, wrote, held, outcome)
  BY DEF Is
<1>4. Is([record EXCEPT !.value = v], kind, pc, agenda, v, since, floor, wrote, held, outcome)
  BY DEF Is
<1>5. Is([record EXCEPT !.since = v], kind, pc, agenda, value, v, floor, wrote, held, outcome)
  BY DEF Is
<1>6. Is([record EXCEPT !.floor = v], kind, pc, agenda, value, since, v, wrote, held, outcome)
  BY DEF Is
<1>7. Is([record EXCEPT !.wrote = v], kind, pc, agenda, value, since, floor, v, held, outcome)
  BY DEF Is
<1>8. Is([record EXCEPT !.token = v], kind, pc, agenda, value, since, floor, wrote, v, outcome)
  BY DEF Is
<1>9. Is([record EXCEPT !.outcome = v], kind, pc, agenda, value, since, floor, wrote, held, v)
  BY DEF Is
<1> QED
  BY <1>1, <1>2, <1>3, <1>4, <1>5, <1>6, <1>7, <1>8, <1>9

\* The records of Idle, Ended and Moved.
LEMMA RecordsAre ==
  ASSUME NEW j, NEW place, NEW outcome
  PROVE  /\ Is(Idle, "get", "idle", <<>>, Nothing, 0, 0, 0, NoToken, "none")
         /\ Is(Ended(j, outcome), job[j].kind, "idle", <<>>, Nothing, 0, 0, 0, NoToken, outcome)
         /\ Shaped(job[j]) =>
              Is(Moved(j, place), job[j].kind, place, job[j].agenda, job[j].value, job[j].since,
                 job[j].floor, job[j].wrote, job[j].token, job[j].outcome)
<1>1. Is(Idle, "get", "idle", <<>>, Nothing, 0, 0, 0, NoToken, "none")
  BY DEF Idle, Is
<1> DEFINE kindly == [Idle EXCEPT !.kind = job[j].kind]
<1>2. Is(kindly, job[j].kind, "idle", <<>>, Nothing, 0, 0, 0, NoToken, "none")
  BY <1>1, FieldSet
<1>3. Ended(j, outcome) = [kindly EXCEPT !.outcome = outcome]
  BY DEF Ended
<1> HIDE DEF kindly
<1>4. Is([kindly EXCEPT !.outcome = outcome], job[j].kind, "idle", <<>>, Nothing, 0, 0, 0,
         NoToken, outcome)
  BY <1>2, FieldSet
<1>5. ASSUME Shaped(job[j])
      PROVE  Is(Moved(j, place), job[j].kind, place, job[j].agenda, job[j].value, job[j].since,
                job[j].floor, job[j].wrote, job[j].token, job[j].outcome)
  <2>1. Is(job[j], job[j].kind, job[j].pc, job[j].agenda, job[j].value, job[j].since,
           job[j].floor, job[j].wrote, job[j].token, job[j].outcome)
    BY <1>5 DEF Shaped, Is
  <2>2. Moved(j, place) = [job[j] EXCEPT !.pc = place]
    BY DEF Moved
  <2>3. Is([job[j] EXCEPT !.pc = place], job[j].kind, place, job[j].agenda, job[j].value,
           job[j].since, job[j].floor, job[j].wrote, job[j].token, job[j].outcome)
    BY <2>1, FieldSet
  <2> QED
    BY <2>2, <2>3
<1> QED
  BY <1>1, <1>3, <1>4, <1>5

\* The invariant.  A job that has an answer in hand is no older than what the
\* cache was brought up to, or bringing it there would not count; a get was
\* started at a settled stamp that still is one.
RecordSeen(record) ==
  /\ Shaped(record) /\ record.floor \in Nat /\ record.wrote \in Nat
  /\ record.pc \notin {"idle", "invalidate"} => record.wrote = 0
  /\ record.pc \notin {"idle", "exchange", "keep"} => record.agenda \in Seq(Name) \ {<<>>}
  /\ record.pc = "invalidate" => record.wrote <= store[Head(record.agenda)].stamp
  /\ record.pc = "fill" =>
       /\ record.value.stamp \in Nat
       /\ settled[Head(record.agenda)] <= record.value.stamp
       /\ record.value.stamp <= store[Head(record.agenda)].stamp
  /\ record.kind = "get" /\ record.pc # "idle" =>
       /\ record.pc \in {"read", "fetch", "fill"}
       /\ record.floor <= settled[Head(record.agenda)]
  /\ record.kind = "get" /\ record.outcome = "answered" =>
       record.pc = "idle" /\ record.value.stamp \in Nat /\ record.floor <= record.value.stamp

\* The backend counts the changes of a secret.
StoreShaped ==
  /\ store = [n \in Name |-> store[n]]
  /\ \A n \in Name :
       /\ store[n] = [stamp |-> store[n].stamp, has |-> store[n].has,
                      container |-> store[n].container]
       /\ store[n].stamp \in Nat

\* Nothing is settled that the backend has not reached, and the cache holds
\* nothing older.
CacheSeen ==
  /\ settled = [n \in Name |-> settled[n]] /\ cache = [n \in Name |-> cache[n]]
  /\ \A n \in Name :
       /\ settled[n] \in Nat /\ settled[n] <= store[n].stamp
       /\ cache[n].until # 0 => cache[n].stamp \in Nat /\ settled[n] <= cache[n].stamp

SeenInv ==
  /\ now \in Nat /\ StoreShaped /\ CacheSeen
  /\ job = [j \in Job |-> job[j]]
  /\ \A j \in Job : RecordSeen(job[j])

\* A record that is not at a place where the backend or the cache matter to it.
Loose(record) ==
  /\ Shaped(record) /\ record.floor \in Nat /\ record.wrote \in Nat
  /\ record.pc \notin {"fill", "invalidate"}
  /\ record.pc # "idle" => record.wrote = 0 /\ record.kind # "get"
  /\ record.pc \notin {"idle", "exchange", "keep"} => record.agenda \in Seq(Name) \ {<<>>}
  /\ record.kind = "get" /\ record.outcome = "answered" =>
       record.value.stamp \in Nat /\ record.floor <= record.value.stamp

\* It stays as good whatever they do.
LEMMA LooseSeen ==
  ASSUME NEW record, Loose(record)
  PROVE  RecordSeen(record) /\ RecordSeen(record)'
BY DEF Loose, RecordSeen

\* The head of an agenda is a secret.
LEMMA HeadIsName ==
  ASSUME NEW agenda \in Seq(Name) \ {<<>>}
  PROVE  Head(agenda) \in Name
OBVIOUS

\* The backend went on, or stayed.
Grown ==
  /\ StoreShaped'
  /\ \A n \in Name : store[n].stamp <= store'[n].stamp

\* What was no newer than the backend still is.
LEMMA GrownSeen ==
  ASSUME StoreShaped, Grown, settled' = settled, NEW record, RecordSeen(record)
  PROVE  RecordSeen(record)'
<1>1. \A n \in Name : /\ store[n].stamp \in Nat /\ store'[n].stamp \in Nat
                      /\ store[n].stamp <= store'[n].stamp
  BY DEF StoreShaped, Grown
<1>2. CASE record.pc \in {"fill", "invalidate"}
  <2>1. Head(record.agenda) \in Name
    BY <1>2, HeadIsName DEF RecordSeen
  <2> QED
    BY <1>1, <1>2, <2>1 DEF RecordSeen
<1>3. CASE record.pc \notin {"fill", "invalidate"}
  BY <1>3 DEF RecordSeen
<1> QED
  BY <1>2, <1>3

\* A step of one job that settles nothing and leaves the cache alone.
LEMMA SeenStep ==
  ASSUME SeenInv, NEW j \in Job, NEW record, RecordSeen(record)',
         job' = [job EXCEPT ![j] = record], Grown, UNCHANGED <<now, cache, settled>>
  PROVE  SeenInv'
<1>1. /\ job' = [k \in Job |-> job'[k]] /\ job'[j] = record
      /\ \A k \in Job \ {j} : job'[k] = job[k]
  BY DEF SeenInv
<1>2. ASSUME NEW k \in Job \ {j} PROVE RecordSeen(job[k])'
  <2>1. PICK old : old = job[k]
    OBVIOUS
  <2>2. RecordSeen(old)'
    BY <2>1, GrownSeen DEF SeenInv
  <2> QED
    BY <1>1, <2>1, <2>2
<1>3. RecordSeen(job[j])'
  BY <1>1
<1>4. CacheSeen'
  <2>1. \A n \in Name : /\ store[n].stamp \in Nat /\ store'[n].stamp \in Nat
                        /\ store[n].stamp <= store'[n].stamp
    BY DEF SeenInv, StoreShaped, Grown
  <2> QED
    BY <2>1 DEF SeenInv, CacheSeen
<1> QED
  BY <1>1, <1>2, <1>3, <1>4 DEF SeenInv, Grown

\* A step that changes nothing but a job.
LEMMA SeenGo ==
  ASSUME SeenInv, NEW j \in Job, NEW record, RecordSeen(record),
         job' = [job EXCEPT ![j] = record], UNCHANGED <<now, cache, settled, store>>
  PROVE  SeenInv'
<1>1. Grown
  BY DEF SeenInv, StoreShaped, Grown
<1>2. RecordSeen(record)'
  BY <1>1, GrownSeen DEF SeenInv
<1> QED
  BY <1>1, <1>2, SeenStep

-----------------------------------------------------------------------------
\* The records, again.

\* The fields of such a record.
LEMMA FieldsAre ==
  ASSUME NEW kind, NEW pc, NEW agenda, NEW value, NEW since, NEW floor, NEW wrote, NEW held,
         NEW outcome, NEW record,
         Is(record, kind, pc, agenda, value, since, floor, wrote, held, outcome)
  PROVE  /\ Shaped(record) /\ record.kind = kind /\ record.pc = pc /\ record.agenda = agenda
         /\ record.value = value /\ record.floor = floor /\ record.wrote = wrote
         /\ record.outcome = outcome
BY DEF Is, Shaped

\* A job that ends in any way but with an answer or a change is loose.
LEMMA EndedLoose ==
  ASSUME NEW j, NEW outcome, outcome # "answered"
  PROVE  Loose(Ended(j, outcome))
<1>1. Is(Ended(j, outcome), job[j].kind, "idle", <<>>, Nothing, 0, 0, 0, NoToken, outcome)
  BY RecordsAre
<1>2. /\ Shaped(Ended(j, outcome)) /\ Ended(j, outcome).pc = "idle"
      /\ Ended(j, outcome).floor = 0 /\ Ended(j, outcome).wrote = 0
      /\ Ended(j, outcome).outcome = outcome
  BY <1>1, FieldsAre
<1> QED
  BY <1>2 DEF Loose

\* So is one that has sent a token.
LEMMA SentLoose ==
  ASSUME NEW j, NEW t
  PROVE  Loose(Sent(j, t))
<1> DEFINE ended == Ended(j, "sent")
           holding == [ended EXCEPT !.token = t]
           sent == [holding EXCEPT !.since = now]
<1>1. Is(ended, job[j].kind, "idle", <<>>, Nothing, 0, 0, 0, NoToken, "sent")
  BY RecordsAre
<1>2. Sent(j, t) = sent
  BY DEF Sent
<1> HIDE DEF ended
<1>3. Is(holding, job[j].kind, "idle", <<>>, Nothing, 0, 0, 0, t, "sent")
  BY <1>1, FieldSet
<1> HIDE DEF holding
<1>4. Is(sent, job[j].kind, "idle", <<>>, Nothing, now, 0, 0, t, "sent")
  BY <1>3, FieldSet
<1> HIDE DEF sent
<1>5. Shaped(sent) /\ sent.pc = "idle" /\ sent.floor = 0 /\ sent.wrote = 0 /\ sent.outcome = "sent"
  BY <1>4, FieldsAre
<1>6. Loose(sent)
  BY <1>5 DEF Loose
<1> QED
  BY <1>2, <1>6

\* And one that has changed a secret.
LEMMA DoneLoose ==
  ASSUME SeenInv, NEW j \in Job
  PROVE  Loose(Done(j))
<1>1. CASE job[j].kind = "set"
  <2> DEFINE ended == Ended(j, "set")
             done == [ended EXCEPT !.wrote = job[j].wrote]
  <2>1. Is(ended, job[j].kind, "idle", <<>>, Nothing, 0, 0, 0, NoToken, "set")
    BY RecordsAre
  <2>2. Done(j) = done
    BY <1>1 DEF Done
  <2> HIDE DEF ended
  <2>3. Is(done, job[j].kind, "idle", <<>>, Nothing, 0, 0, job[j].wrote, NoToken, "set")
    BY <2>1, FieldSet
  <2> HIDE DEF done
  <2>4. Shaped(done) /\ done.pc = "idle" /\ done.floor = 0 /\ done.wrote = job[j].wrote
        /\ done.outcome = "set"
    BY <2>3, FieldsAre
  <2>5. Loose(done)
    BY <2>4 DEF Loose, SeenInv, RecordSeen
  <2> QED
    BY <2>2, <2>5
<1>2. CASE job[j].kind # "set"
  BY <1>2, EndedLoose DEF Done
<1> QED
  BY <1>1, <1>2

\* What is left of an agenda of two or more.
LEMMA TailOfMany ==
  ASSUME NEW agenda \in Seq(Name), Len(agenda) > 1
  PROVE  Tail(agenda) \in Seq(Name) \ {<<>>}
<1>1. agenda # <<>> /\ Len(agenda) \in Nat
  OBVIOUS
<1>2. Tail(agenda) \in Seq(Name) /\ Len(Tail(agenda)) = Len(agenda) - 1
  BY <1>1
<1>3. Len(Tail(agenda)) # 0
  BY <1>1, <1>2
<1> QED
  BY <1>2, <1>3

\* A job that has its answer: a get ends with it, if it is none too old.
LEMMA GotLoose ==
  ASSUME SeenInv, NEW j \in Job, job[j].pc \in {"read", "fill"}, NEW answer,
         job[j].kind = "get" => answer.stamp \in Nat /\ job[j].floor <= answer.stamp
  PROVE  Loose(Got(j, answer))
<1>1. Shaped(job[j]) /\ job[j].floor \in Nat /\ job[j].agenda \in Seq(Name) \ {<<>>}
  BY DEF SeenInv, RecordSeen
<1>2. CASE job[j].kind = "get"
  <2> DEFINE ended == Ended(j, "answered")
             valued == [ended EXCEPT !.value = answer]
             floored == [valued EXCEPT !.floor = job[j].floor]
  <2>1. Is(ended, job[j].kind, "idle", <<>>, Nothing, 0, 0, 0, NoToken, "answered")
    BY RecordsAre
  <2>2. Got(j, answer) = floored
    BY <1>2 DEF Got
  <2> HIDE DEF ended
  <2>3. Is(valued, job[j].kind, "idle", <<>>, answer, 0, 0, 0, NoToken, "answered")
    BY <2>1, FieldSet
  <2> HIDE DEF valued
  <2>4. Is(floored, job[j].kind, "idle", <<>>, answer, 0, job[j].floor, 0, NoToken, "answered")
    BY <2>3, FieldSet
  <2> HIDE DEF floored
  <2>5. /\ Shaped(floored) /\ floored.pc = "idle" /\ floored.value = answer
        /\ floored.floor = job[j].floor /\ floored.wrote = 0
    BY <2>4, FieldsAre
  <2>6. Loose(floored)
    BY <1>1, <1>2, <2>5 DEF Loose
  <2> QED
    BY <2>2, <2>6
<1>3. CASE job[j].kind = "rotate"
  <2>1. PICK outcome \in {"rotated", "error"} : Got(j, answer) = Ended(j, outcome)
    BY <1>3 DEF Got
  <2> QED
    BY <2>1, EndedLoose
<1>4. CASE Got(j, answer) = Ended(j, "no_token")
  BY <1>4, EndedLoose
<1>5. CASE job[j].kind \notin {"get", "rotate"} /\ Got(j, answer) # Ended(j, "no_token")
  <2>1. PICK place \in {"read", "exchange"}, outcome \in {"none", "no_token"} :
          /\ Got(j, answer) =
               [Idle EXCEPT !.kind = "call", !.agenda = Tail(job[j].agenda), !.pc = place,
                            !.outcome = outcome]
          /\ place = "read" => Len(job[j].agenda) > 1
    BY <1>5 DEF Got
  <2> DEFINE rest == Tail(job[j].agenda)
             calling == [Idle EXCEPT !.kind = "call"]
             reading == [calling EXCEPT !.agenda = rest]
             placed == [reading EXCEPT !.pc = place]
             on == [placed EXCEPT !.outcome = outcome]
  <2>2. place = "read" => rest \in Seq(Name) \ {<<>>}
    BY <1>1, <2>1, TailOfMany
  <2>3. Is(calling, "call", "idle", <<>>, Nothing, 0, 0, 0, NoToken, "none")
    <3>1. Is(Idle, "get", "idle", <<>>, Nothing, 0, 0, 0, NoToken, "none")
      BY RecordsAre
    <3> QED
      BY <3>1, FieldSet
  <2>4. Got(j, answer) = on
    BY <2>1
  <2> HIDE DEF calling, rest
  <2>5. Is(reading, "call", "idle", rest, Nothing, 0, 0, 0, NoToken, "none")
    BY <2>3, FieldSet
  <2> HIDE DEF reading
  <2>6. Is(placed, "call", place, rest, Nothing, 0, 0, 0, NoToken, "none")
    BY <2>5, FieldSet
  <2> HIDE DEF placed
  <2>7. Is(on, "call", place, rest, Nothing, 0, 0, 0, NoToken, outcome)
    BY <2>6, FieldSet
  <2> HIDE DEF on
  <2>8. /\ Shaped(on) /\ on.kind = "call" /\ on.pc = place /\ on.agenda = rest
        /\ on.floor = 0 /\ on.wrote = 0
    BY <2>7, FieldsAre
  <2>9. Loose(on)
    BY <2>2, <2>8 DEF Loose
  <2> QED
    BY <2>4, <2>9
<1> QED
  BY <1>2, <1>3, <1>4, <1>5

\* A job that moves on, to any place but a cache write.
LEMMA MovedSeen ==
  ASSUME SeenInv, NEW j \in Job, job[j].pc \notin {"idle", "exchange", "keep", "invalidate", "fill"},
         NEW place \in {"fetch", "create", "add", "container", "invalidate", "read"},
         job[j].pc \in {"read", "fetch"} => place = "fetch"
  PROVE  RecordSeen(Moved(j, place))
<1>1. RecordSeen(job[j])
  BY DEF SeenInv
<1>2. Is(Moved(j, place), job[j].kind, place, job[j].agenda, job[j].value, job[j].since,
         job[j].floor, job[j].wrote, job[j].token, job[j].outcome)
  BY <1>1, RecordsAre DEF RecordSeen
<1>3. /\ Shaped(Moved(j, place)) /\ Moved(j, place).kind = job[j].kind
      /\ Moved(j, place).pc = place /\ Moved(j, place).agenda = job[j].agenda
      /\ Moved(j, place).value = job[j].value /\ Moved(j, place).floor = job[j].floor
      /\ Moved(j, place).wrote = job[j].wrote /\ Moved(j, place).outcome = job[j].outcome
  BY <1>2, FieldsAre
<1>4. /\ job[j].wrote = 0 /\ job[j].agenda \in Seq(Name) \ {<<>>}
      /\ job[j].kind = "get" => job[j].pc \in {"read", "fetch"}
  BY <1>1 DEF RecordSeen
<1>5. store[Head(job[j].agenda)].stamp \in Nat
  BY <1>4, HeadIsName DEF SeenInv, StoreShaped
<1> QED
  BY <1>1, <1>3, <1>4, <1>5 DEF RecordSeen

-----------------------------------------------------------------------------
\* The steps, again.

\* A get starts at what is settled, and reads.
LEMMA StartSeen ==
  ASSUME SecretAssumption, SeenInv, NEW j \in Job, Start(j)
  PROVE  SeenInv'
<1>1. PICK kind \in Kind, n \in Name :
        job' = [job EXCEPT ![j] =
          [Idle EXCEPT !.kind = kind, !.pc = First(kind),
                       !.agenda = IF kind = "call" THEN ClientRefs ELSE <<n>>,
                       !.floor = IF kind = "get" THEN settled[n] ELSE 0]]
  BY DEF Start
<1>2. PICK agenda, floor :
        /\ agenda = IF kind = "call" THEN ClientRefs ELSE <<n>>
        /\ floor = IF kind = "get" THEN settled[n] ELSE 0
  OBVIOUS
<1> DEFINE kindly == [Idle EXCEPT !.kind = kind]
           placed == [kindly EXCEPT !.pc = First(kind)]
           reading == [placed EXCEPT !.agenda = agenda]
           started == [reading EXCEPT !.floor = floor]
<1>3. job' = [job EXCEPT ![j] = started]
  BY <1>1, <1>2
<1>4. Is(kindly, kind, "idle", <<>>, Nothing, 0, 0, 0, NoToken, "none")
  BY RecordsAre, FieldSet
<1> HIDE DEF kindly
<1>5. Is(placed, kind, First(kind), <<>>, Nothing, 0, 0, 0, NoToken, "none")
  BY <1>4, FieldSet
<1> HIDE DEF placed
<1>6. Is(reading, kind, First(kind), agenda, Nothing, 0, 0, 0, NoToken, "none")
  BY <1>5, FieldSet
<1> HIDE DEF reading
<1>7. Is(started, kind, First(kind), agenda, Nothing, 0, floor, 0, NoToken, "none")
  BY <1>6, FieldSet
<1> HIDE DEF started
<1>8. /\ Shaped(started) /\ started.kind = kind /\ started.pc = First(kind)
      /\ started.agenda = agenda /\ started.floor = floor /\ started.wrote = 0
      /\ started.outcome = "none"
  BY <1>7, FieldsAre
<1>9. /\ First(kind) \notin {"fill", "invalidate"}
      /\ kind = "get" => First(kind) = "read"
  BY DEF SecretAssumption, First
<1>10. agenda \in Seq(Name) \ {<<>>} /\ (kind = "get" => agenda = <<n>>)
  BY <1>2 DEF SecretAssumption
<1>11. floor \in Nat /\ (kind = "get" => floor = settled[Head(agenda)])
  BY <1>2, <1>10 DEF SeenInv, CacheSeen
<1>12. kind = "get" => settled[Head(agenda)] \in Nat
  BY <1>10, HeadIsName DEF SeenInv, CacheSeen
<1>13. RecordSeen(started)
  BY <1>8, <1>9, <1>10, <1>11, <1>12 DEF RecordSeen
<1>14. UNCHANGED <<now, cache, settled, store>>
  BY DEF Start
<1>15. PICK record : record = started
  OBVIOUS
<1> QED
  BY <1>3, <1>13, <1>14, <1>15, SeenGo

\* A hit returns nothing older than what is settled.
LEMMA HitSeen ==
  ASSUME SeenInv, NEW j \in Job, Hit(j)
  PROVE  SeenInv'
<1> DEFINE answer == [stamp |-> cache[secret(j)].stamp, has |-> TRUE]
<1>1. /\ job[j].pc = "read" /\ Fresh(cache[secret(j)])
      /\ job' = [job EXCEPT ![j] = Got(j, answer)] /\ UNCHANGED <<now, cache, settled, store>>
  BY DEF Hit, At, Go
<1>2. secret(j) \in Name
  BY <1>1, HeadIsName DEF SeenInv, RecordSeen, secret
<1>3. now \in Nat /\ now < cache[secret(j)].until
  BY <1>1 DEF SeenInv, Fresh
<1>4. answer.stamp \in Nat /\ settled[secret(j)] <= answer.stamp
  BY <1>2, <1>3 DEF SeenInv, CacheSeen
<1>5. job[j].kind = "get" => job[j].floor <= answer.stamp
  <2>1. settled[secret(j)] \in Nat /\ job[j].floor \in Nat
    BY <1>2 DEF SeenInv, CacheSeen, RecordSeen
  <2>2. job[j].kind = "get" => job[j].floor <= settled[secret(j)]
    BY <1>1 DEF SeenInv, RecordSeen, secret
  <2> QED
    BY <1>4, <2>1, <2>2
<1> HIDE DEF answer
<1>6. PICK record : record = Got(j, answer)
  OBVIOUS
<1>7. RecordSeen(record)
  BY <1>1, <1>4, <1>5, <1>6, GotLoose, LooseSeen
<1> QED
  BY <1>1, <1>6, <1>7, SeenGo

\* An answer of the backend is as new as anything settled.
LEMMA FetchSeen ==
  ASSUME SeenInv, NEW j \in Job, Fetch(j)
  PROVE  SeenInv'
<1> DEFINE value == [stamp |-> store[secret(j)].stamp, has |-> store[secret(j)].has]
<1>1. /\ Go(j, [job[j] EXCEPT !.pc = "fill", !.value = value, !.since = now])
      /\ value.stamp = store[secret(j)].stamp /\ job[j].pc = "fetch"
  BY DEF Fetch, At
<1> HIDE DEF value
<1> DEFINE moved == Moved(j, "fill")
           valued == [moved EXCEPT !.value = value]
           fetched == [valued EXCEPT !.since = now]
<1>2. job' = [job EXCEPT ![j] = fetched] /\ UNCHANGED <<now, cache, settled, store>>
  BY <1>1 DEF Go, Moved
<1>3. RecordSeen(job[j])
  BY DEF SeenInv
<1>4. Is(moved, job[j].kind, "fill", job[j].agenda, job[j].value, job[j].since, job[j].floor,
         job[j].wrote, job[j].token, job[j].outcome)
  BY <1>3, RecordsAre DEF RecordSeen
<1> HIDE DEF moved
<1>5. Is(valued, job[j].kind, "fill", job[j].agenda, value, job[j].since, job[j].floor,
         job[j].wrote, job[j].token, job[j].outcome)
  BY <1>4, FieldSet
<1> HIDE DEF valued
<1>6. Is(fetched, job[j].kind, "fill", job[j].agenda, value, now, job[j].floor,
         job[j].wrote, job[j].token, job[j].outcome)
  BY <1>5, FieldSet
<1> HIDE DEF fetched
<1>7. /\ Shaped(fetched) /\ fetched.kind = job[j].kind /\ fetched.pc = "fill"
      /\ fetched.agenda = job[j].agenda /\ fetched.value = value
      /\ fetched.floor = job[j].floor /\ fetched.wrote = job[j].wrote
      /\ fetched.outcome = job[j].outcome
  BY <1>6, FieldsAre
<1>8. job[j].agenda \in Seq(Name) \ {<<>>} /\ secret(j) \in Name /\ secret(j) = Head(job[j].agenda)
  BY <1>1, <1>3, HeadIsName DEF RecordSeen, secret
<1>9. /\ store[secret(j)].stamp \in Nat /\ settled[secret(j)] \in Nat
      /\ settled[secret(j)] <= store[secret(j)].stamp
  BY <1>8 DEF SeenInv, StoreShaped, CacheSeen
<1>10. RecordSeen(fetched)
  BY <1>1, <1>3, <1>7, <1>8, <1>9 DEF RecordSeen
<1>11. PICK record : record = fetched
  OBVIOUS
<1> QED
  BY <1>2, <1>10, <1>11, SeenGo

\* What a job in hand of an answer ends with.
LEMMA FilledLoose ==
  ASSUME SeenInv, NEW j \in Job, job[j].pc = "fill"
  PROVE  /\ Loose(Got(j, job[j].value))
         /\ secret(j) \in Name /\ job[j].value.stamp \in Nat
         /\ settled[secret(j)] <= job[j].value.stamp
         /\ job[j].value.stamp <= store[secret(j)].stamp
<1>1. RecordSeen(job[j])
  BY DEF SeenInv
<1>2. secret(j) \in Name
  BY <1>1, HeadIsName DEF RecordSeen, secret
<1>3. /\ job[j].value.stamp \in Nat /\ settled[secret(j)] <= job[j].value.stamp
      /\ job[j].value.stamp <= store[secret(j)].stamp
  BY <1>1 DEF RecordSeen, secret
<1>4. job[j].kind = "get" => job[j].floor <= job[j].value.stamp
  <2>1. settled[secret(j)] \in Nat /\ job[j].floor \in Nat
    BY <1>1, <1>2 DEF SeenInv, CacheSeen, RecordSeen
  <2>2. job[j].kind = "get" => job[j].floor <= settled[secret(j)]
    BY <1>1 DEF RecordSeen, secret
  <2> QED
    BY <1>3, <2>1, <2>2
<1> QED
  BY <1>2, <1>3, <1>4, GotLoose

\* The cache is brought up to a stamp, or an older answer is on its way to it and
\* nothing is settled: either way what is settled is kept.
LEMMA SettleSeen ==
  ASSUME SeenInv, NEW j \in Job, NEW stamp \in Nat, NEW record, Loose(record), NEW entry,
         secret(j) \in Name, stamp <= store[secret(j)].stamp,
         Settle(j, secret(j), stamp), UNCHANGED <<now, store>>,
         job' = [job EXCEPT ![j] = record], cache' = [cache EXCEPT ![secret(j)] = entry],
         entry.until # 0 => /\ entry.stamp \in Nat /\ stamp <= entry.stamp
                            /\ settled[secret(j)] <= entry.stamp
  PROVE  SeenInv'
<1>1. /\ job' = [k \in Job |-> job'[k]] /\ job'[j] = record
      /\ \A k \in Job \ {j} : job'[k] = job[k]
  BY DEF SeenInv
<1>2. /\ settled' = [n \in Name |-> settled'[n]]
      /\ \A n \in Name \ {secret(j)} : settled'[n] = settled[n]
      /\ \/ settled'[secret(j)] = settled[secret(j)]
         \/ settled'[secret(j)] = stamp /\ ~OlderOnItsWay(j, secret(j), stamp)
  BY DEF Settle, SeenInv, CacheSeen
<1>3. \A n \in Name : settled[n] \in Nat /\ settled[n] <= store[n].stamp /\ store[n].stamp \in Nat
  BY DEF SeenInv, CacheSeen, StoreShaped
<1>4. \A n \in Name : settled'[n] \in Nat /\ settled[n] <= settled'[n]
  BY <1>2, <1>3 DEF Settle, SeenInv, CacheSeen
<1>5. ASSUME NEW k \in Job \ {j} PROVE RecordSeen(job[k])'
  <2>1. RecordSeen(job[k])
    BY DEF SeenInv
  <2>2. job[k].pc \notin {"idle", "exchange", "keep"} => Head(job[k].agenda) \in Name
    BY <2>1, HeadIsName DEF RecordSeen
  <2>3. job[k].pc = "fill" => settled'[Head(job[k].agenda)] <= job[k].value.stamp
    <3> SUFFICES ASSUME job[k].pc = "fill"
                 PROVE  settled'[Head(job[k].agenda)] <= job[k].value.stamp
      OBVIOUS
    <3>1. /\ job[k].value.stamp \in Nat
          /\ settled[Head(job[k].agenda)] <= job[k].value.stamp
      BY <2>1 DEF RecordSeen
    <3>2. CASE settled'[Head(job[k].agenda)] = settled[Head(job[k].agenda)]
      BY <3>1, <3>2
    <3>3. CASE settled'[Head(job[k].agenda)] # settled[Head(job[k].agenda)]
      <4>1. /\ Head(job[k].agenda) = secret(j) /\ settled'[secret(j)] = stamp
            /\ ~OlderOnItsWay(j, secret(j), stamp)
        BY <1>2, <2>2, <3>3
      <4>2. ~(job[k].value.stamp < stamp)
        BY <4>1 DEF OlderOnItsWay, At, secret
      <4> QED
        BY <3>1, <4>1, <4>2
    <3> QED
      BY <3>2, <3>3
  <2>4. job[k].kind = "get" /\ job[k].pc # "idle" =>
          job[k].floor <= settled'[Head(job[k].agenda)]
    <3> SUFFICES ASSUME job[k].kind = "get", job[k].pc # "idle"
                 PROVE  job[k].floor <= settled'[Head(job[k].agenda)]
      OBVIOUS
    <3>1. job[k].floor <= settled[Head(job[k].agenda)] /\ job[k].floor \in Nat
          /\ Head(job[k].agenda) \in Name
      BY <2>1, <2>2 DEF RecordSeen
    <3> QED
      BY <3>1, <1>3, <1>4
  <2>5. PICK old : old = job[k]
    OBVIOUS
  <2>6. RecordSeen(old)'
    BY <2>1, <2>3, <2>4, <2>5 DEF RecordSeen
  <2> QED
    BY <1>1, <2>5, <2>6
<1>6. RecordSeen(job[j])'
  BY <1>1, LooseSeen
<1>7. CacheSeen'
  <2>1. cache' = [n \in Name |-> cache'[n]] /\ cache'[secret(j)] = entry
        /\ \A n \in Name \ {secret(j)} : cache'[n] = cache[n]
    BY DEF SeenInv, CacheSeen
  <2>2. ASSUME NEW n \in Name
        PROVE  /\ settled'[n] <= store'[n].stamp
               /\ cache'[n].until # 0 => cache'[n].stamp \in Nat /\ settled'[n] <= cache'[n].stamp
    <3>1. CASE n = secret(j)
      BY <1>2, <1>3, <2>1, <3>1
    <3>2. CASE n # secret(j)
      BY <1>2, <1>3, <2>1, <3>2 DEF SeenInv, CacheSeen
    <3> QED
      BY <3>1, <3>2
  <2> QED
    BY <1>2, <1>4, <2>1, <2>2 DEF CacheSeen
<1>8. StoreShaped'
  BY DEF SeenInv, StoreShaped
<1> QED
  BY <1>1, <1>5, <1>6, <1>7, <1>8 DEF SeenInv

\* An answer is put into the cache.
LEMMA FillSeen ==
  ASSUME SeenInv, NEW j \in Job, Fill(j)
  PROVE  SeenInv'
<1>1. /\ job[j].pc = "fill" /\ job' = [job EXCEPT ![j] = Got(j, job[j].value)]
      /\ cache' = [cache EXCEPT ![secret(j)] = Filled(job[j].value, job[j].since)]
      /\ Settle(j, secret(j), job[j].value.stamp) /\ UNCHANGED <<now, store>>
  BY DEF Fill, At
<1>2. /\ Loose(Got(j, job[j].value)) /\ secret(j) \in Name /\ job[j].value.stamp \in Nat
      /\ settled[secret(j)] <= job[j].value.stamp
      /\ job[j].value.stamp <= store[secret(j)].stamp
  BY <1>1, FilledLoose
<1> DEFINE entry == Filled(job[j].value, job[j].since)
<1>3. entry.until # 0 => entry.stamp = job[j].value.stamp
  BY DEF Filled, NoEntry
<1>4. cache' = [cache EXCEPT ![secret(j)] = entry]
  BY <1>1
<1> HIDE DEF entry
<1>5. entry.until # 0 => /\ entry.stamp \in Nat /\ job[j].value.stamp <= entry.stamp
                         /\ settled[secret(j)] <= entry.stamp
  BY <1>2, <1>3
<1>6. PICK record, made : record = Got(j, job[j].value) /\ made = entry
  OBVIOUS
<1> QED
  BY <1>1, <1>2, <1>4, <1>5, <1>6, SettleSeen

\* The entry is dropped, and the change settled.
LEMMA InvalidateSeen ==
  ASSUME SeenInv, NEW j \in Job, Invalidate(j)
  PROVE  SeenInv'
<1>1. /\ job[j].pc = "invalidate" /\ job' = [job EXCEPT ![j] = Done(j)]
      /\ cache' = [cache EXCEPT ![secret(j)] = NoEntry]
      /\ Settle(j, secret(j), job[j].wrote) /\ UNCHANGED <<now, store>>
  BY DEF Invalidate, At
<1>2. RecordSeen(job[j])
  BY DEF SeenInv
<1>3. /\ secret(j) \in Name /\ job[j].wrote \in Nat /\ job[j].wrote <= store[secret(j)].stamp
  BY <1>1, <1>2, HeadIsName DEF RecordSeen, secret
<1>4. NoEntry.until = 0
  BY DEF NoEntry
<1>5. Loose(Done(j))
  BY DoneLoose
<1>6. PICK record : record = Done(j)
  OBVIOUS
<1> QED
  BY <1>1, <1>3, <1>4, <1>5, <1>6, SettleSeen

\* A change of a secret makes the backend go on.
LEMMA ChangeGrows ==
  ASSUME StoreShaped, NEW n, NEW has, Change(n, has)
  PROVE  /\ Grown
         /\ n \in Name => store'[n].stamp = store[n].stamp + 1
<1> DEFINE changed == [stamp |-> store[n].stamp + 1, has |-> has, container |-> has]
<1>1. store' = [store EXCEPT ![n] = changed]
  BY DEF Change
<1>2. \A m \in Name : store'[m] = IF m = n THEN changed ELSE store[m]
  BY <1>1 DEF StoreShaped
<1>3. store' = [m \in Name |-> store'[m]]
  BY <1>1 DEF StoreShaped
<1>4. ASSUME NEW m \in Name
      PROVE  /\ store'[m] = [stamp |-> store'[m].stamp, has |-> store'[m].has,
                             container |-> store'[m].container]
             /\ store'[m].stamp \in Nat /\ store[m].stamp <= store'[m].stamp
             /\ m = n => store'[m].stamp = store[m].stamp + 1
  <2>1. store[m].stamp \in Nat
    BY DEF StoreShaped
  <2>2. CASE m = n
    <3>1. /\ store'[m].stamp = store[m].stamp + 1 /\ store'[m].has = has
          /\ store'[m].container = has
      BY <1>2, <2>2
    <3>2. store'[m] = [stamp |-> store'[m].stamp, has |-> store'[m].has,
                       container |-> store'[m].container]
      BY <1>2, <2>2
    <3> QED
      BY <2>1, <2>2, <3>1, <3>2
  <2>3. CASE m # n
    <3>1. store'[m] = store[m]
      BY <1>2, <2>3
    <3> QED
      BY <2>1, <2>3, <3>1 DEF StoreShaped
  <2> QED
    BY <2>2, <2>3
<1> QED
  BY <1>3, <1>4 DEF Grown, StoreShaped

\* A job writes a secret, and hears of it or not.
LEMMA WrittenSeen ==
  ASSUME SeenInv, NEW j \in Job, job[j].pc \in {"put", "create", "add", "delete"}, NEW has,
         Written(j, has)
  PROVE  SeenInv'
<1>1. PICK told \in BOOLEAN :
        job' = [job EXCEPT ![j] =
          IF told THEN [Moved(j, "invalidate") EXCEPT !.wrote = store[secret(j)].stamp + 1]
          ELSE Ended(j, "error")]
  BY DEF Written
<1>2. Change(secret(j), has) /\ UNCHANGED <<now, cache, settled>>
  BY DEF Written
<1>3. RecordSeen(job[j])
  BY DEF SeenInv
<1>4. secret(j) \in Name /\ job[j].agenda \in Seq(Name) \ {<<>>} /\ job[j].kind # "get"
  BY <1>3, HeadIsName DEF RecordSeen, secret
<1>5. Grown /\ store'[secret(j)].stamp = store[secret(j)].stamp + 1
  BY <1>2, <1>4, ChangeGrows DEF SeenInv
<1>6. CASE told
  <2> DEFINE moved == Moved(j, "invalidate")
             wrote == store[secret(j)].stamp + 1
             noted == [moved EXCEPT !.wrote = wrote]
  <2>1. job' = [job EXCEPT ![j] = noted]
    BY <1>1, <1>6
  <2>2. wrote \in Nat
    BY <1>4 DEF SeenInv, StoreShaped
  <2>3. Is(moved, job[j].kind, "invalidate", job[j].agenda, job[j].value, job[j].since,
           job[j].floor, job[j].wrote, job[j].token, job[j].outcome)
    BY <1>3, RecordsAre DEF RecordSeen
  <2> HIDE DEF moved, wrote
  <2>4. Is(noted, job[j].kind, "invalidate", job[j].agenda, job[j].value, job[j].since,
           job[j].floor, wrote, job[j].token, job[j].outcome)
    BY <2>3, FieldSet
  <2> HIDE DEF noted
  <2>5. /\ Shaped(noted) /\ noted.kind = job[j].kind /\ noted.pc = "invalidate"
        /\ noted.agenda = job[j].agenda /\ noted.floor = job[j].floor /\ noted.wrote = wrote
    BY <2>4, FieldsAre
  <2>6. wrote <= store'[Head(job[j].agenda)].stamp
    BY <1>5, <2>2 DEF wrote, secret
  <2>7. PICK record : record = noted
    OBVIOUS
  <2>8. RecordSeen(record)'
    BY <1>3, <1>4, <2>2, <2>5, <2>6, <2>7 DEF RecordSeen
  <2> QED
    BY <1>2, <1>5, <2>1, <2>7, <2>8, SeenStep
<1>7. CASE ~told
  <2>1. PICK record : record = Ended(j, "error")
    OBVIOUS
  <2>2. RecordSeen(record)'
    BY <2>1, EndedLoose, LooseSeen
  <2> QED
    BY <1>1, <1>2, <1>5, <1>7, <2>1, <2>2, SeenStep
<1> QED
  BY <1>6, <1>7

\* The steps that change nothing but their job, and leave it loose or move it on.
LEMMA PlainSeen ==
  ASSUME SeenInv, NEW j \in Job,
         \/ Miss(j) \/ FetchFails(j) \/ FillFails(j) \/ PutFindsNothing(j) \/ CreateConflicts(j)
         \/ CheckContainer(j) \/ AddFindsNothing(j) \/ DeleteFindsNothing(j) \/ WriteFails(j)
         \/ InvalidateFails(j) \/ TokenHit(j) \/ TokenMiss(j) \/ TokenFails(j)
  PROVE  SeenInv'
<1>1. PICK record : RecordSeen(record) /\ Go(j, record)
  <2>1. CASE \/ Miss(j) \/ PutFindsNothing(j) \/ CheckContainer(j) \/ DeleteFindsNothing(j)
             \/ TokenMiss(j)
    <3>1. PICK place \in {"fetch", "create", "add", "container", "invalidate", "read"} :
            Go(j, Moved(j, place)) /\ (job[j].pc \in {"read", "fetch"} => place = "fetch")
      BY <2>1 DEF Miss, PutFindsNothing, CheckContainer, DeleteFindsNothing, TokenMiss, At
    <3>2. job[j].pc \notin {"idle", "exchange", "keep", "invalidate", "fill"}
      BY <2>1 DEF Miss, PutFindsNothing, CheckContainer, DeleteFindsNothing, TokenMiss, At
    <3> QED
      BY <3>1, <3>2, MovedSeen
  <2>2. CASE \/ FetchFails(j) \/ CreateConflicts(j) \/ AddFindsNothing(j) \/ WriteFails(j)
             \/ TokenFails(j)
    <3>1. Go(j, Ended(j, "error"))
      BY <2>2 DEF FetchFails, CreateConflicts, AddFindsNothing, WriteFails, TokenFails
    <3> QED
      BY <3>1, EndedLoose, LooseSeen
  <2>3. CASE FillFails(j)
    <3>1. Go(j, Got(j, job[j].value)) /\ job[j].pc = "fill"
      BY <2>3 DEF FillFails, At
    <3> QED
      BY <3>1, FilledLoose, LooseSeen
  <2>4. CASE InvalidateFails(j)
    <3>1. Go(j, Done(j))
      BY <2>4 DEF InvalidateFails
    <3> QED
      BY <3>1, DoneLoose, LooseSeen
  <2>5. CASE TokenHit(j)
    <3>1. Go(j, Sent(j, token))
      BY <2>5 DEF TokenHit
    <3> QED
      BY <3>1, SentLoose, LooseSeen
  <2> QED
    BY <2>1, <2>2, <2>3, <2>4, <2>5
<1> QED
  BY <1>1, SeenGo DEF Go

\* A token is granted, and kept.
LEMMA TokenSeen ==
  ASSUME SeenInv, NEW j \in Job, Exchange(j) \/ Keep(j)
  PROVE  SeenInv'
<1>1. CASE Exchange(j)
  <2>1. PICK life \in ExpiresIn :
          Go(j, [Moved(j, "keep") EXCEPT
                   !.token = [expires |-> now + life, until |-> 0, life |-> life], !.since = now])
    BY <1>1 DEF Exchange
  <2> DEFINE granted == [expires |-> now + life, until |-> 0, life |-> life]
             moved == Moved(j, "keep")
             holding == [moved EXCEPT !.token = granted]
             exchanged == [holding EXCEPT !.since = now]
  <2>2. Go(j, exchanged) /\ job[j].pc = "exchange"
    BY <1>1, <2>1 DEF Exchange, At
  <2>3. RecordSeen(job[j])
    BY DEF SeenInv
  <2> HIDE DEF granted
  <2>4. Is(moved, job[j].kind, "keep", job[j].agenda, job[j].value, job[j].since, job[j].floor,
           job[j].wrote, job[j].token, job[j].outcome)
    BY <2>3, RecordsAre DEF RecordSeen
  <2> HIDE DEF moved
  <2>5. Is(holding, job[j].kind, "keep", job[j].agenda, job[j].value, job[j].since, job[j].floor,
           job[j].wrote, granted, job[j].outcome)
    BY <2>4, FieldSet
  <2> HIDE DEF holding
  <2>6. Is(exchanged, job[j].kind, "keep", job[j].agenda, job[j].value, now, job[j].floor,
           job[j].wrote, granted, job[j].outcome)
    BY <2>5, FieldSet
  <2> HIDE DEF exchanged
  <2>7. /\ Shaped(exchanged) /\ exchanged.kind = job[j].kind /\ exchanged.pc = "keep"
        /\ exchanged.floor = job[j].floor /\ exchanged.wrote = job[j].wrote
    BY <2>6, FieldsAre
  <2>8. RecordSeen(exchanged)
    BY <2>2, <2>3, <2>7 DEF RecordSeen
  <2>9. PICK record : record = exchanged
    OBVIOUS
  <2> QED
    BY <2>2, <2>8, <2>9, SeenGo DEF Go
<1>2. CASE Keep(j)
  <2>1. PICK t : job' = [job EXCEPT ![j] = Sent(j, t)]
    BY <1>2 DEF Keep
  <2>2. UNCHANGED <<now, cache, settled, store>>
    BY <1>2 DEF Keep
  <2>3. PICK record : record = Sent(j, t)
    OBVIOUS
  <2>4. RecordSeen(record)
    BY <2>3, SentLoose, LooseSeen
  <2> QED
    BY <2>1, <2>2, <2>3, <2>4, SeenGo
<1> QED
  BY <1>1, <1>2

\* A container is created.
LEMMA ContainerSeen ==
  ASSUME SeenInv, NEW j \in Job, CreateContainer(j)
  PROVE  SeenInv'
<1>1. /\ job[j].pc = "container" /\ job' = [job EXCEPT ![j] = Moved(j, "add")]
      /\ store' = [store EXCEPT ![secret(j)].container = TRUE]
      /\ UNCHANGED <<now, cache, settled>>
  BY DEF CreateContainer, At
<1> DEFINE contained == [store[secret(j)] EXCEPT !.container = TRUE]
<1>2. store' = [store EXCEPT ![secret(j)] = contained]
  BY <1>1
<1>3. secret(j) \in Name
  BY <1>1, HeadIsName DEF SeenInv, RecordSeen, secret
<1>4. PICK old : old = store[secret(j)]
  OBVIOUS
<1>5. contained.stamp = store[secret(j)].stamp
      /\ contained = [stamp |-> contained.stamp, has |-> contained.has,
                      container |-> contained.container]
  <2>1. old = [stamp |-> old.stamp, has |-> old.has, container |-> old.container]
    BY <1>3, <1>4 DEF SeenInv, StoreShaped
  <2>2. ASSUME NEW v
        PROVE  LET new == [old EXCEPT !.container = v]
               IN  new.stamp = old.stamp
                   /\ new = [stamp |-> new.stamp, has |-> new.has, container |-> new.container]
    BY <2>1
  <2> QED
    BY <1>4, <2>2
<1> HIDE DEF contained
<1>6. /\ store' = [n \in Name |-> store'[n]] /\ store'[secret(j)] = contained
      /\ \A n \in Name \ {secret(j)} : store'[n] = store[n]
  BY <1>2, <1>3 DEF SeenInv, StoreShaped
<1>7. ASSUME NEW n \in Name
      PROVE  /\ store'[n] = [stamp |-> store'[n].stamp, has |-> store'[n].has,
                             container |-> store'[n].container]
             /\ store'[n].stamp \in Nat /\ store[n].stamp <= store'[n].stamp
  <2>1. store[n].stamp \in Nat
    BY DEF SeenInv, StoreShaped
  <2>2. CASE n = secret(j)
    <3>1. store'[n].stamp = store[n].stamp
      BY <1>5, <1>6, <2>2
    <3>2. store'[n] = [stamp |-> store'[n].stamp, has |-> store'[n].has,
                       container |-> store'[n].container]
      BY <1>5, <1>6, <2>2
    <3> QED
      BY <2>1, <3>1, <3>2
  <2>3. CASE n # secret(j)
    <3>1. store'[n] = store[n]
      BY <1>6, <2>3
    <3> QED
      BY <2>1, <3>1 DEF SeenInv, StoreShaped
  <2> QED
    BY <2>2, <2>3
<1>8. Grown
  BY <1>6, <1>7 DEF Grown, StoreShaped
<1>9. PICK record : record = Moved(j, "add")
  OBVIOUS
<1>10. RecordSeen(record)
  BY <1>1, <1>9, MovedSeen
<1>11. RecordSeen(record)'
  BY <1>1, <1>8, <1>10, GrownSeen DEF SeenInv
<1> QED
  BY <1>1, <1>8, <1>9, <1>11, SeenStep

\* At first nothing is settled.
LEMMA InitSeen == Init => SeenInv
<1> SUFFICES ASSUME Init PROVE SeenInv
  OBVIOUS
<1> DEFINE nothing == [stamp |-> 0, has |-> FALSE, container |-> FALSE]
<1>1. /\ now = 0 /\ store = [n \in Name |-> nothing] /\ cache = [n \in Name |-> NoEntry]
      /\ job = [j \in Job |-> Idle] /\ settled = [n \in Name |-> 0]
  BY DEF Init
<1>2. nothing.stamp = 0 /\ nothing = [stamp |-> nothing.stamp, has |-> nothing.has,
                                      container |-> nothing.container]
  OBVIOUS
<1> HIDE DEF nothing
<1>3. \A n \in Name : store[n] = nothing /\ cache[n] = NoEntry /\ settled[n] = 0
  BY <1>1
<1>4. StoreShaped
  BY <1>1, <1>2, <1>3 DEF StoreShaped
<1>5. CacheSeen
  <2>1. NoEntry.until = 0
    BY DEF NoEntry
  <2> QED
    BY <1>1, <1>2, <1>3, <2>1 DEF CacheSeen
<1>6. ASSUME NEW j \in Job PROVE RecordSeen(job[j])
  <2>1. job[j] = Idle
    BY <1>1
  <2>2. Is(Idle, "get", "idle", <<>>, Nothing, 0, 0, 0, NoToken, "none")
    BY RecordsAre
  <2>3. Shaped(Idle) /\ Idle.pc = "idle" /\ Idle.floor = 0 /\ Idle.wrote = 0
        /\ Idle.outcome = "none"
    BY <2>2, FieldsAre
  <2> QED
    BY <2>1, <2>3 DEF RecordSeen
<1> QED
  BY <1>1, <1>4, <1>5, <1>6 DEF SeenInv

\* Every step keeps the invariant.
LEMMA NextSeen == SeenInv /\ [Next]_vars => SeenInv'
<1> SUFFICES ASSUME SeenInv, [Next]_vars PROVE SeenInv'
  OBVIOUS
<1>1. ASSUME job' = job, now' \in Nat, Grown, UNCHANGED <<cache, settled>> PROVE SeenInv'
  <2>1. ASSUME NEW j \in Job PROVE RecordSeen(job[j])'
    <3>1. PICK old : old = job[j]
      OBVIOUS
    <3>2. RecordSeen(old)'
      BY <1>1, <3>1, GrownSeen DEF SeenInv
    <3> QED
      BY <1>1, <3>1, <3>2
  <2>2. \A n \in Name : /\ store[n].stamp \in Nat /\ store'[n].stamp \in Nat
                        /\ store[n].stamp <= store'[n].stamp
    BY <1>1 DEF SeenInv, StoreShaped, Grown
  <2>3. CacheSeen'
    BY <1>1, <2>2 DEF SeenInv, CacheSeen
  <2>4. job' = [j \in Job |-> job'[j]]
    BY <1>1 DEF SeenInv
  <2> QED
    BY <1>1, <2>1, <2>3, <2>4 DEF SeenInv, Grown
<1>2. ASSUME store' = store PROVE Grown
  BY <1>2 DEF SeenInv, StoreShaped, Grown
<1>3. CASE UNCHANGED vars
  BY <1>1, <1>2, <1>3 DEF vars, SeenInv
<1>4. CASE Tick
  BY <1>1, <1>2, <1>4 DEF Tick, SeenInv
<1>5. ASSUME NEW n \in Name, ChangeOutside(n) PROVE SeenInv'
  <2>1. PICK has \in BOOLEAN : Change(n, has)
    BY <1>5 DEF ChangeOutside
  <2>2. UNCHANGED <<now, cache, job, settled>>
    BY <1>5 DEF ChangeOutside
  <2> QED
    BY <1>1, <2>1, <2>2, ChangeGrows DEF SeenInv
<1>6. ASSUME NEW j \in Job, Step(j) PROVE SeenInv'
  <2>1. CASE Put(j) \/ Create(j) \/ AddVersion(j) \/ Delete(j)
    <3>1. PICK has \in BOOLEAN : Written(j, has)
      BY <2>1 DEF Put, Create, AddVersion, Delete
    <3>2. job[j].pc \in {"put", "create", "add", "delete"}
      BY <2>1 DEF Put, Create, AddVersion, Delete, At
    <3> QED
      BY <3>1, <3>2, WrittenSeen
  <2>2. CASE ~(Put(j) \/ Create(j) \/ AddVersion(j) \/ Delete(j))
    BY <1>6, <2>2, SecretAssumption, StartSeen, HitSeen, FetchSeen, FillSeen, InvalidateSeen,
       PlainSeen, TokenSeen, ContainerSeen DEF Step
  <2> QED
    BY <2>1, <2>2
<1> QED
  BY <1>3, <1>4, <1>5, <1>6 DEF Next

\* Once the cache was brought up to a change and no older answer was on its way to
\* it, no later get returns anything older (SecretService.set_secret, get_secret).
THEOREM SettledIsSeenAlways == Spec => []SettledIsSeen
<1>1. SeenInv => SettledIsSeen
  <2> SUFFICES ASSUME SeenInv, NEW j \in Job, job[j].kind = "get", job[j].outcome = "answered"
               PROVE  job[j].value.stamp >= job[j].floor
    BY DEF SettledIsSeen
  <2>1. job[j].value.stamp \in Nat /\ job[j].floor \in Nat /\ job[j].floor <= job[j].value.stamp
    BY DEF SeenInv, RecordSeen
  <2> QED
    BY <2>1
<1> QED
  BY <1>1, InitSeen, NextSeen, PTL DEF Spec

-----------------------------------------------------------------------------
\* The types, and that the cache never says that there is no secret.

\* What a record holds.
Typed(record) ==
  /\ record.value \in Answer /\ record.since \in Time
  /\ record.wrote \in Stamp /\ record.floor \in Stamp /\ record.token \in Token

\* The rest of TypeOK.
StoreTyped ==
  /\ store \in [Name -> Stored]
  /\ \A n \in Name : store[n].has => store[n].container

CacheTyped ==
  /\ cache \in [Name -> Entry]
  /\ \A n \in Name : cache[n].until # 0 => cache[n].has

WorldTyped ==
  /\ backend \in Backend /\ now \in Time /\ starts \in 0..MaxStart
  /\ StoreTyped /\ CacheTyped
  /\ token \in Token /\ settled \in [Name -> Stamp]

TypeInv == WorldTyped /\ \A j \in Job : Typed(job[j])

\* A record of typed fields.
LEMMA FieldsTyped ==
  ASSUME NEW kind, NEW pc, NEW agenda, NEW value \in Answer, NEW since \in Time,
         NEW floor \in Stamp, NEW wrote \in Stamp, NEW held \in Token, NEW outcome, NEW record,
         Is(record, kind, pc, agenda, value, since, floor, wrote, held, outcome)
  PROVE  Typed(record)
BY DEF Is, Typed

\* What a job starts and ends with is typed.
LEMMA NothingTyped ==
  ASSUME SecretAssumption
  PROVE  Nothing \in Answer /\ 0 \in Time /\ 0 \in Stamp /\ NoToken \in Token
<1>1. MaxNow \in Nat /\ MaxStamp \in Nat
  BY DEF SecretAssumption
<1>2. 0 \in Time /\ 0 \in Stamp
  BY <1>1 DEF Time, Stamp
<1>3. Nothing \in Answer
  <2>1. PICK has \in BOOLEAN : has = FALSE
    OBVIOUS
  <2>2. Nothing = [stamp |-> 0, has |-> has]
    BY <2>1, Zenon DEF Nothing
  <2> QED
    BY <1>2, <2>2 DEF Answer
<1>4. NoToken \in Token
  BY DEF NoToken, Token
<1> QED
  BY <1>2, <1>3, <1>4

\* A job that ends has the types.
LEMMA EndedTyped ==
  ASSUME SecretAssumption, NEW j, NEW outcome
  PROVE  Typed(Ended(j, outcome))
<1>1. Is(Ended(j, outcome), job[j].kind, "idle", <<>>, Nothing, 0, 0, 0, NoToken, outcome)
  BY RecordsAre
<1>2. PICK record : record = Ended(j, outcome)
  OBVIOUS
<1>3. Is(record, job[j].kind, "idle", <<>>, Nothing, 0, 0, 0, NoToken, outcome)
  BY <1>1, <1>2
<1>4. Typed(record)
  BY <1>3, NothingTyped, FieldsTyped
<1> QED
  BY <1>2, <1>4

\* A job that moves on keeps its types.
LEMMA MovedTyped ==
  ASSUME SeenInv, NEW j \in Job, Typed(job[j]), NEW place
  PROVE  /\ Is(Moved(j, place), job[j].kind, place, job[j].agenda, job[j].value, job[j].since,
               job[j].floor, job[j].wrote, job[j].token, job[j].outcome)
         /\ Typed(Moved(j, place))
<1>1. Is(Moved(j, place), job[j].kind, place, job[j].agenda, job[j].value, job[j].since,
         job[j].floor, job[j].wrote, job[j].token, job[j].outcome)
  BY RecordsAre DEF SeenInv, RecordSeen
<1>2. Typed(Moved(j, place))
  <2>1. PICK record : record = Moved(j, place)
    OBVIOUS
  <2>2. Is(record, job[j].kind, place, job[j].agenda, job[j].value, job[j].since, job[j].floor,
           job[j].wrote, job[j].token, job[j].outcome)
    BY <1>1, <2>1
  <2>3. Typed(record)
    BY <2>2, FieldsTyped DEF Typed
  <2> QED
    BY <2>1, <2>3
<1> QED
  BY <1>1, <1>2

\* A job that has sent a token.
LEMMA SentTyped ==
  ASSUME SecretAssumption, NEW j, NEW t \in Token, now \in Time
  PROVE  Typed(Sent(j, t))
<1> DEFINE ended == Ended(j, "sent")
           holding == [ended EXCEPT !.token = t]
           sent == [holding EXCEPT !.since = now]
<1>1. Is(ended, job[j].kind, "idle", <<>>, Nothing, 0, 0, 0, NoToken, "sent")
  BY RecordsAre
<1>2. Sent(j, t) = sent
  BY DEF Sent
<1> HIDE DEF ended
<1>3. Is(holding, job[j].kind, "idle", <<>>, Nothing, 0, 0, 0, t, "sent")
  BY <1>1, FieldSet
<1> HIDE DEF holding
<1>4. Is(sent, job[j].kind, "idle", <<>>, Nothing, now, 0, 0, t, "sent")
  BY <1>3, FieldSet
<1> HIDE DEF sent
<1>5. PICK record : record = sent
  OBVIOUS
<1>6. Is(record, job[j].kind, "idle", <<>>, Nothing, now, 0, 0, t, "sent")
  BY <1>4, <1>5
<1>7. Typed(record)
  BY <1>6, NothingTyped, FieldsTyped
<1> QED
  BY <1>2, <1>5, <1>7

\* One that has changed a secret.
LEMMA DoneTyped ==
  ASSUME SecretAssumption, NEW j \in Job, Typed(job[j])
  PROVE  Typed(Done(j))
<1>1. CASE job[j].kind = "set"
  <2> DEFINE ended == Ended(j, "set")
             done == [ended EXCEPT !.wrote = job[j].wrote]
  <2>1. Is(ended, job[j].kind, "idle", <<>>, Nothing, 0, 0, 0, NoToken, "set")
    BY RecordsAre
  <2>2. Done(j) = done
    BY <1>1 DEF Done
  <2> HIDE DEF ended
  <2>3. Is(done, job[j].kind, "idle", <<>>, Nothing, 0, 0, job[j].wrote, NoToken, "set")
    BY <2>1, FieldSet
  <2> HIDE DEF done
  <2>4. PICK record : record = done
    OBVIOUS
  <2>5. Is(record, job[j].kind, "idle", <<>>, Nothing, 0, 0, job[j].wrote, NoToken, "set")
    BY <2>3, <2>4
  <2>6. Typed(record)
    BY <2>5, NothingTyped, FieldsTyped DEF Typed
  <2> QED
    BY <2>2, <2>4, <2>6
<1>2. CASE job[j].kind # "set"
  BY <1>2, EndedTyped DEF Done
<1> QED
  BY <1>1, <1>2

\* One that has its answer.
LEMMA GotTyped ==
  ASSUME SecretAssumption, NEW j \in Job, Typed(job[j]), NEW answer \in Answer
  PROVE  Typed(Got(j, answer))
<1>1. CASE job[j].kind = "get"
  <2> DEFINE ended == Ended(j, "answered")
             valued == [ended EXCEPT !.value = answer]
             floored == [valued EXCEPT !.floor = job[j].floor]
  <2>1. Is(ended, job[j].kind, "idle", <<>>, Nothing, 0, 0, 0, NoToken, "answered")
    BY RecordsAre
  <2>2. Got(j, answer) = floored
    BY <1>1 DEF Got
  <2> HIDE DEF ended
  <2>3. Is(valued, job[j].kind, "idle", <<>>, answer, 0, 0, 0, NoToken, "answered")
    BY <2>1, FieldSet
  <2> HIDE DEF valued
  <2>4. Is(floored, job[j].kind, "idle", <<>>, answer, 0, job[j].floor, 0, NoToken, "answered")
    BY <2>3, FieldSet
  <2> HIDE DEF floored
  <2>5. PICK record : record = floored
    OBVIOUS
  <2>6. Is(record, job[j].kind, "idle", <<>>, answer, 0, job[j].floor, 0, NoToken, "answered")
    BY <2>4, <2>5
  <2>7. Typed(record)
    BY <2>6, NothingTyped, FieldsTyped DEF Typed
  <2> QED
    BY <2>2, <2>5, <2>7
<1>2. CASE job[j].kind = "rotate"
  <2>1. PICK outcome \in {"rotated", "error"} : Got(j, answer) = Ended(j, outcome)
    BY <1>2 DEF Got
  <2> QED
    BY <2>1, EndedTyped
<1>3. CASE Got(j, answer) = Ended(j, "no_token")
  BY <1>3, EndedTyped
<1>4. CASE job[j].kind \notin {"get", "rotate"} /\ Got(j, answer) # Ended(j, "no_token")
  <2>1. PICK place \in {"read", "exchange"}, outcome \in {"none", "no_token"} :
          Got(j, answer) =
               [Idle EXCEPT !.kind = "call", !.agenda = Tail(job[j].agenda), !.pc = place,
                            !.outcome = outcome]
    BY <1>4 DEF Got
  <2> DEFINE rest == Tail(job[j].agenda)
             calling == [Idle EXCEPT !.kind = "call"]
             reading == [calling EXCEPT !.agenda = rest]
             placed == [reading EXCEPT !.pc = place]
             on == [placed EXCEPT !.outcome = outcome]
  <2>2. Is(calling, "call", "idle", <<>>, Nothing, 0, 0, 0, NoToken, "none")
    <3>1. Is(Idle, "get", "idle", <<>>, Nothing, 0, 0, 0, NoToken, "none")
      BY RecordsAre
    <3> QED
      BY <3>1, FieldSet
  <2>3. Got(j, answer) = on
    BY <2>1
  <2> HIDE DEF calling, rest
  <2>4. Is(reading, "call", "idle", rest, Nothing, 0, 0, 0, NoToken, "none")
    BY <2>2, FieldSet
  <2> HIDE DEF reading
  <2>5. Is(placed, "call", place, rest, Nothing, 0, 0, 0, NoToken, "none")
    BY <2>4, FieldSet
  <2> HIDE DEF placed
  <2>6. Is(on, "call", place, rest, Nothing, 0, 0, 0, NoToken, outcome)
    BY <2>5, FieldSet
  <2> HIDE DEF on
  <2>7. PICK record : record = on
    OBVIOUS
  <2>8. Is(record, "call", place, rest, Nothing, 0, 0, 0, NoToken, outcome)
    BY <2>6, <2>7
  <2>9. Typed(record)
    BY <2>8, NothingTyped, FieldsTyped
  <2> QED
    BY <2>3, <2>7, <2>9
<1> QED
  BY <1>1, <1>2, <1>3, <1>4

\* A step of one job.
LEMMA JobTyped ==
  ASSUME TypeInv, SeenInv, NEW j \in Job, NEW record, Typed(record),
         job' = [job EXCEPT ![j] = record], WorldTyped'
  PROVE  TypeInv'
<1>1. job'[j] = record /\ \A k \in Job \ {j} : job'[k] = job[k]
  BY DEF SeenInv
<1>2. \A k \in Job : Typed(job'[k])
  BY <1>1 DEF TypeInv
<1>3. \A k \in Job : Typed(job[k])'
  BY <1>2 DEF Typed
<1> QED
  BY <1>3 DEF TypeInv

\* One that changes nothing else.
LEMMA GoTyped ==
  ASSUME TypeInv, SeenInv, NEW j \in Job, NEW record, Typed(record), Go(j, record)
  PROVE  TypeInv'
<1>1. WorldTyped'
  BY DEF TypeInv, WorldTyped, StoreTyped, CacheTyped, Go
<1> QED
  BY <1>1, JobTyped DEF Go

\* The steps that change nothing but their job, and end it or move it on.
LEMMA PlainTyped ==
  ASSUME SecretAssumption, TypeInv, SeenInv, NEW j \in Job,
         \/ Hit(j) \/ Miss(j) \/ FetchFails(j) \/ FillFails(j) \/ PutFindsNothing(j)
         \/ CreateConflicts(j) \/ CheckContainer(j) \/ AddFindsNothing(j) \/ DeleteFindsNothing(j)
         \/ WriteFails(j) \/ InvalidateFails(j) \/ TokenHit(j) \/ TokenMiss(j) \/ TokenFails(j)
  PROVE  TypeInv'
<1>1. Typed(job[j])
  BY DEF TypeInv
<1>2. PICK record : Typed(record) /\ Go(j, record)
  <2>1. CASE \/ Miss(j) \/ PutFindsNothing(j) \/ CheckContainer(j) \/ DeleteFindsNothing(j)
             \/ TokenMiss(j)
    <3>1. PICK place : Go(j, Moved(j, place))
      BY <2>1 DEF Miss, PutFindsNothing, CheckContainer, DeleteFindsNothing, TokenMiss
    <3> QED
      BY <1>1, <3>1, MovedTyped
  <2>2. CASE \/ FetchFails(j) \/ CreateConflicts(j) \/ AddFindsNothing(j) \/ WriteFails(j)
             \/ TokenFails(j)
    <3>1. Go(j, Ended(j, "error"))
      BY <2>2 DEF FetchFails, CreateConflicts, AddFindsNothing, WriteFails, TokenFails
    <3> QED
      BY <3>1, EndedTyped
  <2>3. CASE Hit(j)
    <3>1. PICK yes \in BOOLEAN : yes = TRUE
      OBVIOUS
    <3> DEFINE answer == [stamp |-> cache[secret(j)].stamp, has |-> yes]
    <3>2. Go(j, Got(j, answer)) /\ job[j].pc = "read"
      BY <2>3, <3>1 DEF Hit, At
    <3>3. secret(j) \in Name
      BY <3>2, HeadIsName DEF SeenInv, RecordSeen, secret
    <3>4. cache[secret(j)].stamp \in Stamp
      BY <3>3 DEF TypeInv, WorldTyped, CacheTyped, Entry
    <3>5. answer \in Answer
      BY <3>4 DEF Answer
    <3> HIDE DEF answer
    <3> QED
      BY <1>1, <3>2, <3>5, GotTyped
  <2>4. CASE FillFails(j)
    <3>1. Go(j, Got(j, job[j].value)) /\ job[j].value \in Answer
      BY <1>1, <2>4 DEF FillFails, Typed
    <3> QED
      BY <1>1, <3>1, GotTyped
  <2>5. CASE InvalidateFails(j)
    <3>1. Go(j, Done(j))
      BY <2>5 DEF InvalidateFails
    <3> QED
      BY <1>1, <3>1, DoneTyped
  <2>6. CASE TokenHit(j)
    <3>1. Go(j, Sent(j, token)) /\ token \in Token /\ now \in Time
      BY <2>6 DEF TokenHit, TypeInv, WorldTyped
    <3> QED
      BY <3>1, SentTyped
  <2> QED
    BY <2>1, <2>2, <2>3, <2>4, <2>5, <2>6
<1> QED
  BY <1>2, GoTyped

\* A job starts.
LEMMA StartTyped ==
  ASSUME SecretAssumption, TypeInv, SeenInv, NEW j \in Job, Start(j)
  PROVE  TypeInv'
<1>1. PICK kind \in Kind, n \in Name :
        job' = [job EXCEPT ![j] =
          [Idle EXCEPT !.kind = kind, !.pc = First(kind),
                       !.agenda = IF kind = "call" THEN ClientRefs ELSE <<n>>,
                       !.floor = IF kind = "get" THEN settled[n] ELSE 0]]
  BY DEF Start
<1>2. PICK agenda, floor :
        /\ agenda = IF kind = "call" THEN ClientRefs ELSE <<n>>
        /\ floor = IF kind = "get" THEN settled[n] ELSE 0
  OBVIOUS
<1> DEFINE kindly == [Idle EXCEPT !.kind = kind]
           placed == [kindly EXCEPT !.pc = First(kind)]
           reading == [placed EXCEPT !.agenda = agenda]
           started == [reading EXCEPT !.floor = floor]
<1>3. job' = [job EXCEPT ![j] = started]
  BY <1>1, <1>2
<1>4. Is(kindly, kind, "idle", <<>>, Nothing, 0, 0, 0, NoToken, "none")
  BY RecordsAre, FieldSet
<1> HIDE DEF kindly
<1>5. Is(placed, kind, First(kind), <<>>, Nothing, 0, 0, 0, NoToken, "none")
  BY <1>4, FieldSet
<1> HIDE DEF placed
<1>6. Is(reading, kind, First(kind), agenda, Nothing, 0, 0, 0, NoToken, "none")
  BY <1>5, FieldSet
<1> HIDE DEF reading
<1>7. Is(started, kind, First(kind), agenda, Nothing, 0, floor, 0, NoToken, "none")
  BY <1>6, FieldSet
<1> HIDE DEF started
<1>8. floor \in Stamp
  BY <1>2, NothingTyped DEF TypeInv, WorldTyped
<1>9. PICK record : record = started
  OBVIOUS
<1>10. Is(record, kind, First(kind), agenda, Nothing, 0, floor, 0, NoToken, "none")
  BY <1>7, <1>9
<1>11. Typed(record)
  BY <1>8, <1>10, NothingTyped, FieldsTyped
<1>12. WorldTyped'
  <2>1. starts' \in 0..MaxStart
    BY DEF Start, TypeInv, WorldTyped, SecretAssumption
  <2> QED
    BY <2>1 DEF Start, TypeInv, WorldTyped, StoreTyped, CacheTyped
<1> QED
  BY <1>3, <1>9, <1>11, <1>12, JobTyped

\* The backend answers.
LEMMA FetchTyped ==
  ASSUME TypeInv, SeenInv, NEW j \in Job, Fetch(j)
  PROVE  TypeInv'
<1> DEFINE value == [stamp |-> store[secret(j)].stamp, has |-> store[secret(j)].has]
<1>1. Go(j, [job[j] EXCEPT !.pc = "fill", !.value = value, !.since = now]) /\ job[j].pc = "fetch"
  BY DEF Fetch, At
<1>2. secret(j) \in Name
  BY <1>1, HeadIsName DEF SeenInv, RecordSeen, secret
<1>3. value \in Answer
  <2>1. PICK s \in Stored : s = store[secret(j)]
    BY <1>2 DEF TypeInv, WorldTyped, StoreTyped
  <2>2. [stamp |-> s.stamp, has |-> s.has] \in Answer
    BY DEF Stored, Answer
  <2> QED
    BY <2>1, <2>2
<1> HIDE DEF value
<1> DEFINE moved == Moved(j, "fill")
           valued == [moved EXCEPT !.value = value]
           fetched == [valued EXCEPT !.since = now]
<1>4. Go(j, fetched)
  BY <1>1 DEF Moved
<1>5. Typed(job[j]) /\ now \in Time
  BY DEF TypeInv, WorldTyped
<1>6. Is(moved, job[j].kind, "fill", job[j].agenda, job[j].value, job[j].since, job[j].floor,
         job[j].wrote, job[j].token, job[j].outcome)
  BY <1>5, MovedTyped
<1> HIDE DEF moved
<1>7. Is(valued, job[j].kind, "fill", job[j].agenda, value, job[j].since, job[j].floor,
         job[j].wrote, job[j].token, job[j].outcome)
  BY <1>6, FieldSet
<1> HIDE DEF valued
<1>8. Is(fetched, job[j].kind, "fill", job[j].agenda, value, now, job[j].floor,
         job[j].wrote, job[j].token, job[j].outcome)
  BY <1>7, FieldSet
<1> HIDE DEF fetched
<1>9. PICK record : record = fetched
  OBVIOUS
<1>10. Is(record, job[j].kind, "fill", job[j].agenda, value, now, job[j].floor,
          job[j].wrote, job[j].token, job[j].outcome)
  BY <1>8, <1>9
<1>11. Typed(record)
  BY <1>3, <1>5, <1>10, FieldsTyped DEF Typed
<1> QED
  BY <1>4, <1>9, <1>11, GoTyped

\* What is settled is a stamp.
LEMMA SettleTyped ==
  ASSUME TypeInv, NEW j, NEW n, NEW stamp \in Stamp, Settle(j, n, stamp)
  PROVE  settled' \in [Name -> Stamp]
BY DEF TypeInv, WorldTyped, Settle

\* An answer is put into the cache, if it is a secret.
LEMMA FillTyped ==
  ASSUME SecretAssumption, TypeInv, SeenInv, NEW j \in Job, Fill(j)
  PROVE  TypeInv'
<1>1. /\ job' = [job EXCEPT ![j] = Got(j, job[j].value)]
      /\ cache' = [cache EXCEPT ![secret(j)] = Filled(job[j].value, job[j].since)]
      /\ Settle(j, secret(j), job[j].value.stamp)
      /\ UNCHANGED <<backend, now, starts, store, token>>
  BY DEF Fill
<1>2. Typed(job[j]) /\ job[j].value \in Answer /\ job[j].since \in Time
  BY DEF TypeInv, Typed
<1>3. job[j].value.stamp \in Stamp
  BY <1>2 DEF Answer
<1>4. settled' \in [Name -> Stamp]
  BY <1>1, <1>3, SettleTyped
<1> DEFINE entry == Filled(job[j].value, job[j].since)
<1>5. entry \in Entry /\ (entry.until # 0 => entry.has)
  <2>1. CASE job[j].value.has
    <3>1. PICK yes \in BOOLEAN : yes = TRUE
      OBVIOUS
    <3>2. entry = [stamp |-> job[j].value.stamp, has |-> yes, until |-> now + Ttl,
                   asOf |-> job[j].since]
      BY <2>1, <3>1 DEF Filled
    <3>3. now + Ttl \in Nat
      BY DEF SecretAssumption, TypeInv, WorldTyped, Time
    <3>4. entry \in Entry
      BY <1>2, <1>3, <3>2, <3>3 DEF Entry
    <3>5. entry.has = yes
      BY <3>2
    <3> QED
      BY <3>1, <3>4, <3>5
  <2>2. CASE ~job[j].value.has
    <3>1. PICK no \in BOOLEAN : no = FALSE
      OBVIOUS
    <3>2. entry = [stamp |-> 0, has |-> no, until |-> 0, asOf |-> 0]
      BY <2>2, <3>1 DEF Filled, NoEntry
    <3>3. entry \in Entry /\ entry.until = 0
      BY <3>2, NothingTyped DEF Entry
    <3> QED
      BY <3>3
  <2> QED
    BY <2>1, <2>2
<1>6. cache' = [cache EXCEPT ![secret(j)] = entry]
  BY <1>1
<1> HIDE DEF entry
<1>7. CacheTyped'
  BY <1>5, <1>6 DEF TypeInv, WorldTyped, CacheTyped
<1>8. WorldTyped'
  BY <1>1, <1>4, <1>7 DEF TypeInv, WorldTyped, StoreTyped
<1>9. PICK record : record = Got(j, job[j].value)
  OBVIOUS
<1>10. Typed(record)
  BY <1>2, <1>9, GotTyped
<1> QED
  BY <1>1, <1>8, <1>9, <1>10, JobTyped

\* The entry of a changed secret is dropped.
LEMMA InvalidateTyped ==
  ASSUME SecretAssumption, TypeInv, SeenInv, NEW j \in Job, Invalidate(j)
  PROVE  TypeInv'
<1>1. /\ job' = [job EXCEPT ![j] = Done(j)]
      /\ cache' = [cache EXCEPT ![secret(j)] = NoEntry]
      /\ Settle(j, secret(j), job[j].wrote)
      /\ UNCHANGED <<backend, now, starts, store, token>>
  BY DEF Invalidate
<1>2. Typed(job[j]) /\ job[j].wrote \in Stamp
  BY DEF TypeInv, Typed
<1>3. settled' \in [Name -> Stamp]
  BY <1>1, <1>2, SettleTyped
<1>4. PICK entry : entry = NoEntry
  OBVIOUS
<1>5. entry \in Entry /\ entry.until = 0
  <2>1. PICK no \in BOOLEAN : no = FALSE
    OBVIOUS
  <2>2. entry = [stamp |-> 0, has |-> no, until |-> 0, asOf |-> 0]
    BY <1>4, <2>1 DEF NoEntry
  <2> QED
    BY <2>2, NothingTyped DEF Entry
<1>6. CacheTyped'
  BY <1>1, <1>4, <1>5 DEF TypeInv, WorldTyped, CacheTyped
<1>7. WorldTyped'
  BY <1>1, <1>3, <1>6 DEF TypeInv, WorldTyped, StoreTyped
<1>8. PICK record : record = Done(j)
  OBVIOUS
<1>9. Typed(record)
  BY <1>2, <1>8, DoneTyped
<1> QED
  BY <1>1, <1>7, <1>8, <1>9, JobTyped

\* A changed secret has its container exactly if there is one.
LEMMA ChangeTyped ==
  ASSUME SecretAssumption, TypeInv, NEW n \in Name, NEW has \in BOOLEAN, Change(n, has)
  PROVE  StoreTyped' /\ store[n].stamp + 1 \in Stamp
<1> DEFINE changed == [stamp |-> store[n].stamp + 1, has |-> has, container |-> has]
<1>1. store' = [store EXCEPT ![n] = changed] /\ store[n].stamp < MaxStamp
  BY DEF Change
<1>2. store[n].stamp \in Stamp
  BY DEF TypeInv, WorldTyped, StoreTyped, Stored
<1>3. store[n].stamp + 1 \in Stamp
  <2>1. MaxStamp \in Nat
    BY DEF SecretAssumption
  <2>2. \A k \in 0..MaxStamp : k < MaxStamp => k + 1 \in 0..MaxStamp
    BY <2>1
  <2> QED
    BY <1>1, <1>2, <2>2 DEF Stamp
<1>4. changed \in Stored /\ changed.has = has /\ changed.container = has
  BY <1>3 DEF Stored
<1> HIDE DEF changed
<1>5. StoreTyped'
  BY <1>1, <1>4 DEF TypeInv, WorldTyped, StoreTyped
<1> QED
  BY <1>3, <1>5

\* A job writes a secret, and hears of it or not.
LEMMA WrittenTyped ==
  ASSUME SecretAssumption, TypeInv, SeenInv, NEW j \in Job,
         job[j].pc \in {"put", "create", "add", "delete"}, NEW has \in BOOLEAN, Written(j, has)
  PROVE  TypeInv'
<1>1. PICK told \in BOOLEAN :
        job' = [job EXCEPT ![j] =
          IF told THEN [Moved(j, "invalidate") EXCEPT !.wrote = store[secret(j)].stamp + 1]
          ELSE Ended(j, "error")]
  BY DEF Written
<1>2. Change(secret(j), has) /\ UNCHANGED <<backend, now, starts, cache, token, settled>>
  BY DEF Written
<1>3. secret(j) \in Name /\ Typed(job[j])
  BY HeadIsName DEF SeenInv, RecordSeen, secret, TypeInv
<1>4. StoreTyped' /\ store[secret(j)].stamp + 1 \in Stamp
  BY <1>2, <1>3, ChangeTyped
<1>5. WorldTyped'
  BY <1>2, <1>4 DEF TypeInv, WorldTyped, CacheTyped
<1>6. CASE told
  <2> DEFINE moved == Moved(j, "invalidate")
             wrote == store[secret(j)].stamp + 1
             noted == [moved EXCEPT !.wrote = wrote]
  <2>1. job' = [job EXCEPT ![j] = noted]
    BY <1>1, <1>6
  <2>2. Is(moved, job[j].kind, "invalidate", job[j].agenda, job[j].value, job[j].since,
           job[j].floor, job[j].wrote, job[j].token, job[j].outcome)
    BY <1>3, MovedTyped
  <2>3. wrote \in Stamp
    BY <1>4
  <2> HIDE DEF moved, wrote
  <2>4. Is(noted, job[j].kind, "invalidate", job[j].agenda, job[j].value, job[j].since,
           job[j].floor, wrote, job[j].token, job[j].outcome)
    BY <2>2, FieldSet
  <2> HIDE DEF noted
  <2>5. PICK record : record = noted
    OBVIOUS
  <2>6. Is(record, job[j].kind, "invalidate", job[j].agenda, job[j].value, job[j].since,
           job[j].floor, wrote, job[j].token, job[j].outcome)
    BY <2>4, <2>5
  <2>7. Typed(record)
    BY <1>3, <2>3, <2>6, FieldsTyped DEF Typed
  <2> QED
    BY <1>5, <2>1, <2>5, <2>7, JobTyped
<1>7. CASE ~told
  <2>1. PICK record : record = Ended(j, "error")
    OBVIOUS
  <2>2. Typed(record)
    BY <2>1, EndedTyped
  <2> QED
    BY <1>1, <1>5, <1>7, <2>1, <2>2, JobTyped
<1> QED
  BY <1>6, <1>7

\* A container is created.
LEMMA ContainerTyped ==
  ASSUME TypeInv, SeenInv, NEW j \in Job, CreateContainer(j)
  PROVE  TypeInv'
<1>1. PICK yes \in BOOLEAN : yes = TRUE
  OBVIOUS
<1> DEFINE contained == [store[secret(j)] EXCEPT !.container = yes]
<1>2. /\ job[j].pc = "container" /\ job' = [job EXCEPT ![j] = Moved(j, "add")]
      /\ store' = [store EXCEPT ![secret(j)] = contained]
      /\ UNCHANGED <<backend, now, starts, cache, token, settled>>
  BY <1>1 DEF CreateContainer, At
<1>3. secret(j) \in Name
  BY <1>2, HeadIsName DEF SeenInv, RecordSeen, secret
<1>4. contained \in Stored /\ contained.container = yes
  <2>1. PICK s \in Stored : s = store[secret(j)]
    BY <1>3 DEF TypeInv, WorldTyped, StoreTyped
  <2>2. [s EXCEPT !.container = yes] \in Stored /\ [s EXCEPT !.container = yes].container = yes
    BY DEF Stored
  <2> QED
    BY <2>1, <2>2
<1> HIDE DEF contained
<1>5. StoreTyped'
  BY <1>1, <1>2, <1>3, <1>4 DEF TypeInv, WorldTyped, StoreTyped
<1>6. WorldTyped'
  BY <1>2, <1>5 DEF TypeInv, WorldTyped, CacheTyped
<1>7. PICK record : record = Moved(j, "add")
  OBVIOUS
<1>8. Typed(record)
  BY <1>7, MovedTyped DEF TypeInv
<1> QED
  BY <1>2, <1>6, <1>7, <1>8, JobTyped

\* The endpoint grants a token.
LEMMA ExchangeTyped ==
  ASSUME SecretAssumption, TypeInv, SeenInv, NEW j \in Job, Exchange(j)
  PROVE  TypeInv'
<1>1. PICK life \in ExpiresIn :
        Go(j, [Moved(j, "keep") EXCEPT
                 !.token = [expires |-> now + life, until |-> 0, life |-> life], !.since = now])
  BY DEF Exchange
<1>2. Typed(job[j]) /\ now \in Time /\ now \in Nat /\ life \in Nat
  BY DEF SecretAssumption, TypeInv, WorldTyped, Time
<1> DEFINE granted == [expires |-> now + life, until |-> 0, life |-> life]
           moved == Moved(j, "keep")
           holding == [moved EXCEPT !.token = granted]
           exchanged == [holding EXCEPT !.since = now]
<1>3. Go(j, exchanged)
  BY <1>1
<1>4. granted \in Token
  BY <1>2 DEF Token
<1>5. Is(moved, job[j].kind, "keep", job[j].agenda, job[j].value, job[j].since, job[j].floor,
         job[j].wrote, job[j].token, job[j].outcome)
  BY <1>2, MovedTyped
<1> HIDE DEF granted, moved
<1>6. Is(holding, job[j].kind, "keep", job[j].agenda, job[j].value, job[j].since, job[j].floor,
         job[j].wrote, granted, job[j].outcome)
  BY <1>5, FieldSet
<1> HIDE DEF holding
<1>7. Is(exchanged, job[j].kind, "keep", job[j].agenda, job[j].value, now, job[j].floor,
         job[j].wrote, granted, job[j].outcome)
  BY <1>6, FieldSet
<1> HIDE DEF exchanged
<1>8. PICK record : record = exchanged
  OBVIOUS
<1>9. Is(record, job[j].kind, "keep", job[j].agenda, job[j].value, now, job[j].floor,
         job[j].wrote, granted, job[j].outcome)
  BY <1>7, <1>8
<1>10. Typed(record)
  BY <1>2, <1>4, <1>9, FieldsTyped DEF Typed
<1> QED
  BY <1>3, <1>8, <1>10, GoTyped

\* It is kept.
LEMMA KeepTyped ==
  ASSUME SecretAssumption, TypeInv, SeenInv, NEW j \in Job, Keep(j)
  PROVE  TypeInv'
<1> DEFINE t == [job[j].token EXCEPT !.until = now + KeptFor(job[j].token.life)]
<1>1. /\ token' = t /\ job' = [job EXCEPT ![j] = Sent(j, t)]
      /\ UNCHANGED <<backend, now, starts, store, cache, settled>>
  BY DEF Keep
<1>2. job[j].token \in Token /\ now \in Time /\ now \in Nat
  BY DEF SecretAssumption, TypeInv, Typed, WorldTyped, Time
<1>3. job[j].token.life \in Nat /\ Least \in Nat /\ Margin \in Nat
  BY <1>2 DEF Token, SecretAssumption
<1>4. now + KeptFor(job[j].token.life) \in Nat
  <2>1. \A life \in Nat : KeptFor(life) \in Nat
    BY <1>3 DEF KeptFor
  <2>2. PICK kept \in Nat : kept = KeptFor(job[j].token.life)
    BY <1>3, <2>1
  <2>3. now + kept \in Nat
    BY <1>2
  <2> QED
    BY <2>2, <2>3
<1>5. t \in Token
  BY <1>2, <1>4 DEF Token
<1> HIDE DEF t
<1>6. WorldTyped'
  BY <1>1, <1>5 DEF TypeInv, WorldTyped, StoreTyped, CacheTyped
<1>7. PICK record : record = Sent(j, t)
  OBVIOUS
<1>8. Typed(record)
  BY <1>2, <1>5, <1>7, SentTyped
<1> QED
  BY <1>1, <1>6, <1>7, <1>8, JobTyped

\* At first nothing is stored, cached, held or settled.
LEMMA InitTyped ==
  ASSUME SecretAssumption, Init
  PROVE  TypeInv
<1>1. PICK no \in BOOLEAN : no = FALSE
  OBVIOUS
<1> DEFINE nothing == [stamp |-> 0, has |-> no, container |-> no]
           empty == [stamp |-> 0, has |-> no, until |-> 0, asOf |-> 0]
<1>2. /\ backend \in Backend /\ now = 0 /\ starts = 0
      /\ store = [n \in Name |-> nothing] /\ cache = [n \in Name |-> empty]
      /\ token = NoToken /\ job = [j \in Job |-> Idle] /\ settled = [n \in Name |-> 0]
  BY <1>1 DEF Init, NoEntry
<1>3. 0 \in Time /\ 0 \in Stamp /\ NoToken \in Token /\ Nothing \in Answer
  BY NothingTyped
<1>4. nothing \in Stored /\ nothing.has = no
  BY <1>3 DEF Stored
<1>5. empty \in Entry /\ empty.until = 0
  BY <1>3 DEF Entry
<1> HIDE DEF nothing, empty
<1>6. StoreTyped
  BY <1>1, <1>2, <1>4 DEF StoreTyped
<1>7. CacheTyped
  BY <1>2, <1>5 DEF CacheTyped
<1>8. 0 \in 0..MaxStart
  BY DEF SecretAssumption
<1>9. WorldTyped
  BY <1>2, <1>3, <1>6, <1>7, <1>8 DEF WorldTyped
<1>10. Typed(Idle)
  <2>1. PICK record : record = Idle
    OBVIOUS
  <2>2. Is(record, "get", "idle", <<>>, Nothing, 0, 0, 0, NoToken, "none")
    BY <2>1, RecordsAre
  <2>3. Typed(record)
    BY <1>3, <2>2, FieldsTyped
  <2> QED
    BY <2>1, <2>3
<1> QED
  BY <1>2, <1>9, <1>10 DEF TypeInv

\* Every step keeps the types.
LEMMA NextTyped ==
  ASSUME SecretAssumption, TypeInv, SeenInv, [Next]_vars
  PROVE  TypeInv'
<1>1. ASSUME job' = job, WorldTyped' PROVE TypeInv'
  BY <1>1 DEF TypeInv, Typed
<1>2. CASE UNCHANGED vars
  BY <1>1, <1>2 DEF vars, TypeInv, WorldTyped, StoreTyped, CacheTyped
<1>3. CASE Tick
  <2>1. now' \in Time
    BY <1>3 DEF Tick, TypeInv, WorldTyped, Time, SecretAssumption
  <2> QED
    BY <1>1, <1>3, <2>1 DEF Tick, TypeInv, WorldTyped, StoreTyped, CacheTyped
<1>4. ASSUME NEW n \in Name, ChangeOutside(n) PROVE TypeInv'
  <2>1. PICK has \in BOOLEAN : Change(n, has)
    BY <1>4 DEF ChangeOutside
  <2>2. UNCHANGED <<backend, now, starts, cache, token, job, settled>>
    BY <1>4 DEF ChangeOutside
  <2>3. StoreTyped'
    BY <2>1, ChangeTyped
  <2> QED
    BY <1>1, <2>2, <2>3 DEF TypeInv, WorldTyped, CacheTyped
<1>5. ASSUME NEW j \in Job, Step(j) PROVE TypeInv'
  <2>1. CASE Put(j) \/ Create(j) \/ AddVersion(j) \/ Delete(j)
    <3>1. PICK has \in BOOLEAN : Written(j, has)
      BY <2>1 DEF Put, Create, AddVersion, Delete
    <3>2. job[j].pc \in {"put", "create", "add", "delete"}
      BY <2>1 DEF Put, Create, AddVersion, Delete, At
    <3> QED
      BY <3>1, <3>2, WrittenTyped
  <2>2. CASE ~(Put(j) \/ Create(j) \/ AddVersion(j) \/ Delete(j))
    BY <1>5, <2>2, StartTyped, FetchTyped, FillTyped, InvalidateTyped, PlainTyped,
       ExchangeTyped, KeepTyped, ContainerTyped DEF Step
  <2> QED
    BY <2>1, <2>2
<1> QED
  BY <1>2, <1>3, <1>4, <1>5 DEF Next

\* The variables have their types, no cache entry says that there is no secret,
\* and a value in the backend has its container.
THEOREM TypesHold == Spec => []TypeOK
<1>1. Init => TypeInv
  BY SecretAssumption, InitTyped
<1>2. SeenInv /\ TypeInv /\ [Next]_vars => TypeInv'
  BY SecretAssumption, NextTyped
<1>3. TypeInv => TypeOK
  BY DEF TypeInv, WorldTyped, StoreTyped, CacheTyped, Typed, TypeOK
<1> QED
  BY <1>1, <1>2, <1>3, InitSeen, NextSeen, PTL DEF Spec

=============================================================================
