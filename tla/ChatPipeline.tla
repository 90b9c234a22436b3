---------------------------- MODULE ChatPipeline ----------------------------
(***************************************************************************)
(* POST /v1/chat/completions and POST /v1/embeddings, from the bearer      *)
(* token to the ledger: the API key (services/auth_service.py), the prompt *)
(* guardrail, the response cache, routing, the provider, the response      *)
(* guardrail, the cost, and the row that a background task writes after    *)
(* the response (api/v1/chat.py, api/v1/embeddings.py).                    *)
(*                                                                         *)
(* Requests interleave at every await; keys are issued and revoked, rules  *)
(* change and cache entries expire meanwhile; Valkey, the guardrail        *)
(* service, the secret backend and the providers may fail at every call.   *)
(***************************************************************************)
EXTENDS Naturals, Sequences, FiniteSets

CONSTANTS
  Key, ProjectOf,        \* API keys; Key -> Project
  Project, User,         \* body.user
  Prompt,                \* what a response is cached under, but for the endpoint
  Target,                \* provider and model pairs
  ProviderOf, ModelOf,   \* of a target
  OtherName,             \* a model name none of the targets has
  Rule,                  \* routing rules that may be active
  Request, Ask,          \* requests, and what they ask: endpoint, key, user, prompt
  Every, None,             \* no project or user in a rule; nothing
  Passing,               \* bound: the keys that are issued and revoked meanwhile
  Standing,              \* bound: the rules that are always active
  MaxArrival             \* bound: how many of the requests arrive

Endpoint == {"chat", "embeddings"}

ASSUME ChatAssumption ==
  /\ ProjectOf \in [Key -> Project]
  /\ Rule \subseteq [endpoint : Endpoint, project : Project \cup {Every}, user : User \cup {Every},
                     priority : Nat, targets : Seq(Target)]
  /\ \A rule \in Rule : rule.targets # <<>>
  /\ Ask \in [Request -> [endpoint : Endpoint, key : Key, user : User \cup {Every}, prompt : Prompt]]
  /\ OtherName \notin {ModelOf[t] : t \in Target}
  /\ Standing \subseteq Rule /\ Passing \subseteq Key
  /\ Every \notin Project \cup User /\ None \notin Request \cup Target
  /\ "revoke" \notin Request \cup {None}
  /\ MaxArrival \in Nat

VARIABLES
  keys,      \* api_keys, committed: "unissued", "active", "revoked"
  known,     \* Valkey: the keys whose id is cached under their hash
  holder,    \* the row locks of api_keys: a request, "revoke", or None
  revoking,  \* the revocation of a key: "no", "loaded", "flushed", "dropped"
  cache,     \* Valkey: endpoint and prompt -> response
  req,       \* the requests
  ledger,    \* request_logs with their cost_ledger row
  passed,    \* history: the verdicts of the response guardrail that let a text through
  window     \* history: request -> whether its key was active since it came

admin == <<keys, holder, revoking>>
vars == <<admin, known, cache, req, ledger, passed, window>>

\* A text is named by the request it was made for, and is as the provider gave
\* it or as the guardrail masked it.
Text == [by : Request, form : {"raw", "masked"}]

\* GuardrailVerdict.masked_text of an allowed text: as it was, masked, or nothing.
Verdict == [by : Request, form : {"raw", "masked", "empty"}]
Response == [text : Text, provider : {ProviderOf[t] : t \in Target},
             name : {ModelOf[t] : t \in Target} \cup {OtherName}]

endpoint(r) == Ask[r].endpoint
key(r) == Ask[r].key
slot(r) == <<Ask[r].endpoint, Ask[r].prompt>>

\*   targets   of the rule, ordered
\*   served    history: the target that answered
\*   result    the response
\*   hit       whether it came from the cache
\*   status    how the request ended
Fresh == [pc |-> "idle", targets |-> <<>>, served |-> None, result |-> None, hit |-> FALSE, status |-> "none"]

At(r, place) == req[r].pc = place
Moved(r, place) == [req[r] EXCEPT !.pc = place]
Ended(r, status) == [Fresh EXCEPT !.pc = "ended", !.status = status]

\* A step that changes nothing but the request.
Go(r, record) ==
  req' = [req EXCEPT ![r] = record]
  /\ UNCHANGED <<admin, known, cache, ledger, passed>>

Init ==
  /\ keys \in [Key -> {"unissued", "active"}] /\ \A k \in Key \ Passing : keys[k] = "active"
  /\ known = {} /\ holder = [k \in Key |-> None] /\ revoking = [k \in Key |-> "no"]
  /\ cache = [s \in Endpoint \X Prompt |-> None]
  /\ req = [r \in Request |-> Fresh]
  /\ ledger = {} /\ passed = {}
  /\ window = [r \in Request |-> FALSE]

\* Every step notes whether the keys of the requests in progress are active.
Observe ==
  window' = [r \in Request |->
    IF req'[r].pc \in {"idle", "ended"} THEN window[r]
    ELSE window[r] \/ keys[key(r)] = "active" \/ keys'[key(r)] = "active"]

-----------------------------------------------------------------------------
\* API keys.

\* create_key, as committed.
Issue(k) ==
  /\ keys[k] = "unissued"
  /\ keys' = [keys EXCEPT ![k] = "active"]
  /\ UNCHANGED <<holder, revoking, known, cache, req, ledger, passed>>

Revoking(k, from, to) == revoking[k] = from /\ revoking' = [revoking EXCEPT ![k] = to]

\* Revoking a key again would change nothing.
RevokeLoad(k) ==
  /\ Revoking(k, "no", "loaded") /\ keys[k] = "active"
  /\ UNCHANGED <<keys, holder, known, cache, req, ledger, passed>>

RevokeFlush(k) ==
  /\ Revoking(k, "loaded", "flushed") /\ holder[k] = None
  /\ holder' = [holder EXCEPT ![k] = "revoke"]
  /\ UNCHANGED <<keys, known, cache, req, ledger, passed>>

\* The cached id is dropped, unless Valkey does not answer.
RevokeDrop(k) ==
  /\ Revoking(k, "flushed", "dropped")
  /\ known' \in {known, known \ {k}}
  /\ UNCHANGED <<keys, holder, cache, req, ledger, passed>>

RevokeCommit(k) ==
  /\ Revoking(k, "dropped", "no")
  /\ keys' = [keys EXCEPT ![k] = "revoked"]
  /\ holder' = [holder EXCEPT ![k] = None]
  /\ UNCHANGED <<known, cache, req, ledger, passed>>

\* The process dies, and PostgreSQL rolls back.
RevokeDies(k) ==
  /\ revoking[k] # "no" /\ revoking' = [revoking EXCEPT ![k] = "no"]
  /\ holder' = [holder EXCEPT ![k] = IF @ = "revoke" THEN None ELSE @]
  /\ UNCHANGED <<keys, known, cache, req, ledger, passed>>

-----------------------------------------------------------------------------
\* verify_api_key, in a transaction of its own (AuthMiddleware.dispatch).

Arrive(r) ==
  /\ At(r, "idle") /\ Cardinality({q \in Request : ~At(q, "idle")}) < MaxArrival
  /\ Go(r, Moved(r, "verify"))

KnownKey(r) == At(r, "verify") /\ key(r) \in known /\ Go(r, Moved(r, "by_id"))

\* Not cached, or Valkey does not answer.
UnknownKey(r) == At(r, "verify") /\ Go(r, Moved(r, "by_hash"))

\* Fault: a cached id is as good as the row.
LoadByIdUnchecked(r) == At(r, "by_id") /\ Go(r, Moved(r, "limit"))

LoadById(r) ==
  At(r, "by_id") /\ Go(r, Moved(r, IF keys[key(r)] = "active" THEN "limit" ELSE "by_hash"))

LoadByHash(r) ==
  At(r, "by_hash") /\ keys[key(r)] = "active" /\ Go(r, Moved(r, "remember"))

NoSuchKey(r) ==
  At(r, "by_hash") /\ keys[key(r)] # "active" /\ Go(r, Ended(r, "unauthorized"))

Remember(r) ==
  /\ At(r, "remember")
  /\ known' \in {known, known \cup {key(r)}}
  /\ req' = [req EXCEPT ![r] = Moved(r, "touch")]
  /\ UNCHANGED <<admin, cache, ledger, passed>>

\* touch_last_used waits for the row.
Touch(r) ==
  /\ At(r, "touch") /\ holder[key(r)] = None
  /\ holder' = [holder EXCEPT ![key(r)] = r]
  /\ req' = [req EXCEPT ![r] = Moved(r, "touched")]
  /\ UNCHANGED <<keys, revoking, known, cache, ledger, passed>>

\* Fault: the failure of the commit keeps the row locked.
TouchedLeaks(r) ==
  /\ At(r, "touched")
  /\ \/ holder' = [holder EXCEPT ![key(r)] = None] /\ req' = [req EXCEPT ![r] = Moved(r, "limit")]
     \/ UNCHANGED holder /\ req' = [req EXCEPT ![r] = Ended(r, "unauthorized")]
  /\ UNCHANGED <<keys, revoking, known, cache, ledger, passed>>

\* The commit, or its failure.
Touched(r) ==
  /\ At(r, "touched")
  /\ holder' = [holder EXCEPT ![key(r)] = None]
  /\ req' \in {[req EXCEPT ![r] = Moved(r, "limit")], [req EXCEPT ![r] = Ended(r, "unauthorized")]}
  /\ UNCHANGED <<keys, revoking, known, cache, ledger, passed>>

-----------------------------------------------------------------------------
\* The pipeline.

\* RateLimitMiddleware, and the project of the key.
Limit(r) == At(r, "limit") /\ Go(r, Moved(r, "prompt"))

CheckPrompt(r) == At(r, "prompt") /\ Go(r, Moved(r, "lookup"))

CacheHit(r) ==
  /\ At(r, "lookup") /\ cache[slot(r)] # None
  /\ Go(r, [Moved(r, "respond") EXCEPT !.result = cache[slot(r)], !.hit = TRUE])

CacheMiss(r) == At(r, "lookup") /\ Go(r, Moved(r, "route"))

\* What the administrators may have made of the rules by now: a request reads
\* them once.
RuleTables == {rules \in SUBSET Rule : Standing \subseteq rules}

\* RoutingRuleRepo.find_best_match.
Matching(r, rules) ==
  {rule \in rules : rule.endpoint = endpoint(r)
                    /\ rule.project \in {Every, ProjectOf[key(r)]} /\ rule.user \in {Every, Ask[r].user}}

Specificity(rule) ==
  (IF rule.project # Every THEN 1 ELSE 0) + (IF rule.user # Every THEN 1 ELSE 0)

Above(a, b) ==
  Specificity(a) > Specificity(b) \/ (Specificity(a) = Specificity(b) /\ a.priority > b.priority)

BestMatches(r, rules) ==
  {rule \in Matching(r, rules) : ~\E other \in Matching(r, rules) : Above(other, rule)}

\* _order_targets: by weight, price or latency, as the strategy has it.
Orders(targets) ==
  {[i \in DOMAIN targets |-> targets[p[i]]] :
     p \in {q \in [DOMAIN targets -> DOMAIN targets] : \A i, k \in DOMAIN targets : q[i] = q[k] => i = k}}

Route(r) ==
  /\ At(r, "route")
  /\ \E rules \in RuleTables : \E rule \in BestMatches(r, rules) : \E ordered \in Orders(rule.targets) :
       Go(r, [Moved(r, "complete") EXCEPT !.targets = ordered])

NoRoute(r) ==
  /\ At(r, "route") /\ \E rules \in RuleTables : Matching(r, rules) = {}
  /\ Go(r, Ended(r, "failed"))

\* Fault: the first of the targets was meant.
FirstProvider(targets, name) == ProviderOf[targets[1]]

\* _provider_for_model: of the first target with this model, or the first.
ProviderForModel(targets, name) ==
  LET named == {i \in DOMAIN targets : ModelOf[targets[i]] = name}
  IN  IF named = {} THEN ProviderOf[targets[1]]
      ELSE ProviderOf[targets[CHOOSE i \in named : \A k \in named : i <= k]]

\* The provider of any of the targets answers, and says which model that was.
Answered(r, place) ==
  \E i \in DOMAIN req[r].targets : \E name \in {ModelOf[req[r].targets[i]], OtherName} :
    Go(r, [Moved(r, place) EXCEPT
             !.served = req[r].targets[i],
             !.result = [text |-> [by |-> r, form |-> "raw"], name |-> name,
                         provider |-> ProviderForModel(req[r].targets, name)]])

Complete(r) == At(r, "complete") /\ endpoint(r) = "chat" /\ Answered(r, "verdict")

\* A vector is not text: no guardrail looks at it.
Embed(r) == At(r, "complete") /\ endpoint(r) = "embeddings" /\ Answered(r, "store")

\* Fault: the completion goes out as the provider gave it.
CheckResponseUnmasked(r) ==
  /\ At(r, "verdict")
  /\ \E verdict \in Verdict :
       /\ verdict.by = r
       /\ req' = [req EXCEPT ![r] = Moved(r, "store")]
       /\ passed' = passed \cup {verdict}
  /\ UNCHANGED <<admin, known, cache, ledger>>

\* masked_text or completion_text: an empty masked text is taken for none.
Delivered(verdict) == [verdict EXCEPT !.form = IF @ = "empty" THEN "raw" ELSE @]

\* The response guardrail allows the text, and may mask it.
CheckResponse(r) ==
  /\ At(r, "verdict")
  /\ \E verdict \in Verdict :
       /\ verdict.by = r
       /\ req' = [req EXCEPT ![r] = [Moved(r, "store") EXCEPT !.result.text = Delivered(verdict)]]
       /\ passed' = passed \cup {verdict}
  /\ UNCHANGED <<admin, known, cache, ledger>>

\* The response is cached, unless Valkey does not answer.
Store(r) ==
  /\ At(r, "store")
  /\ cache' \in {cache, [cache EXCEPT ![slot(r)] = req[r].result]}
  /\ req' = [req EXCEPT ![r] = Moved(r, "respond")]
  /\ UNCHANGED <<admin, known, ledger, passed>>

Respond(r) ==
  At(r, "respond") /\ Go(r, [Moved(r, "record") EXCEPT !.status = "success"])

\* Fault: the price of the response is charged for a hit as well.
BillAnyway(r) ==
  [request |-> r, free |-> FALSE, provider |-> req[r].result.provider, name |-> req[r].result.name]

\* What a request is charged: the price of provider and model, a hit nothing.
Bill(r) ==
  [request |-> r, free |-> req[r].hit, provider |-> req[r].result.provider, name |-> req[r].result.name]

\* record_request; it may fail, and nobody notices.
Record(r) ==
  /\ At(r, "record")
  /\ ledger' \in {ledger, ledger \cup {Bill(r)}}
  /\ req' = [req EXCEPT ![r] = Moved(r, "ended")]
  /\ UNCHANGED <<admin, known, cache, passed>>

\* A limit, a guardrail, the secret backend or all providers refuse or fail.  The
\* exception takes the task that would log it with it.
Refuse(r) ==
  \/ At(r, "limit") /\ Go(r, Ended(r, "refused"))
  \/ req[r].pc \in {"prompt", "verdict"} /\ \E status \in {"blocked", "failed"} : Go(r, Ended(r, status))
  \/ At(r, "complete") /\ Go(r, Ended(r, "failed"))

-----------------------------------------------------------------------------

\* The TTLs of the two caches.
ForgetKey(k) ==
  /\ k \in known /\ known' = known \ {k}
  /\ UNCHANGED <<admin, cache, req, ledger, passed>>

Expire(s) ==
  /\ cache[s] # None /\ cache' = [cache EXCEPT ![s] = None]
  /\ UNCHANGED <<admin, known, req, ledger, passed>>

Step(r) ==
  \/ Arrive(r) \/ KnownKey(r) \/ UnknownKey(r) \/ LoadById(r) \/ LoadByHash(r) \/ NoSuchKey(r)
  \/ Remember(r) \/ Touch(r) \/ Touched(r)
  \/ Limit(r) \/ CheckPrompt(r) \/ CacheHit(r) \/ CacheMiss(r) \/ Route(r) \/ NoRoute(r)
  \/ Complete(r) \/ Embed(r) \/ CheckResponse(r) \/ Store(r) \/ Respond(r) \/ Record(r) \/ Refuse(r)

KeyStep(k) ==
  \/ Issue(k) \/ RevokeLoad(k) \/ RevokeFlush(k) \/ RevokeDrop(k) \/ RevokeCommit(k) \/ RevokeDies(k)

Next ==
  /\ \/ \E r \in Request : Step(r)
     \/ \E k \in Passing : KeyStep(k)
     \/ \E k \in Key : ForgetKey(k)
     \/ \E s \in Endpoint \X Prompt : Expire(s)
  /\ Observe

Spec == Init /\ [][Next]_vars

=============================================================================
