----------------------------- MODULE SecretCache -----------------------------
(***************************************************************************)
(* Credentials: the secret backend, the cache SecretService keeps in front *)
(* of it (secrets/service.py), and the OAuth2 tokens RestExecutor caches   *)
(* in front of that (services/api_registry/rest_executor.py).              *)
(*                                                                         *)
(* A job is one caller: an LLM or agent call that reads a secret, an       *)
(* administrator that sets or rotates one, a REST tool call that needs a   *)
(* token.  Jobs run on several workers and interleave at every call of the *)
(* backend, of Valkey and of the token endpoint; each of those calls may   *)
(* fail.  Time is discrete: a cache entry is served until its TTL is over. *)
(***************************************************************************)
EXTENDS Naturals, Sequences

CONSTANTS
  Name,       \* secrets: a tenant and a secret name
  ClientRefs, \* client_id_ref and client_secret_ref, in the order they are read
  Job, Kind,  \* callers, and what they may do
  Backend,    \* the backends SECRET_PROVIDER may name
  Ttl,        \* secret_cache_ttl_seconds
  CallTime,   \* bound on the time from an answer to its cache write
  ExpiresIn,  \* the token lifetimes the endpoint may announce
  Margin,     \* _OAUTH2_TOKEN_EXPIRY_SAFETY_MARGIN_SECONDS
  Least,      \* the shortest TTL of a cached token (30)
  MaxStamp,   \* bound: changes of each secret
  MaxNow,     \* bound: the clock
  MaxStart    \* bound: how often a job starts

\* Postgres, Vault and Azure upsert; AWS and Infisical update, and create what
\* they do not find; GCP creates a container and adds versions to it.
Backends == {"upsert", "put_or_create", "versions"}

ASSUME SecretAssumption ==
  /\ Backend \subseteq Backends
  /\ Kind \subseteq {"get", "rotate", "set", "delete", "call"}
  /\ ClientRefs \in Seq(Name) \ {<<>>}
  /\ ExpiresIn \subseteq Nat
  /\ {Ttl, CallTime, Margin, Least, MaxStamp, MaxNow, MaxStart} \subseteq Nat
  /\ CallTime <= Margin /\ Least > 0

VARIABLES
  backend,     \* the backend of this deployment
  now,
  starts,      \* how many jobs have started
  store,       \* the backend: name -> its state
  cache,       \* Valkey: name -> value and expiry
  token,       \* Valkey: the token of the service
  job,
  settled      \* history: name -> no get that starts now may return less

vars == <<backend, now, starts, store, cache, token, job, settled>>

\* Every change of a secret, deletions too, has a stamp.
Stamp == 0..MaxStamp
Time == 0..MaxNow
Answer == [stamp : Stamp, has : BOOLEAN]
Nothing == [stamp |-> 0, has |-> FALSE]

\* For a backend with versions, the container outlives a failed first write.
Stored == [stamp : Stamp, has : BOOLEAN, container : BOOLEAN]

\* until: when it expires; asOf: history, when the backend said so.
Entry == [stamp : Stamp, has : BOOLEAN, until : Nat, asOf : Time]
NoEntry == [stamp |-> 0, has |-> FALSE, until |-> 0, asOf |-> 0]

Token == [expires : Nat, until : Nat, life : Nat]
NoToken == [expires |-> 0, until |-> 0, life |-> 0]

\*   agenda   the secrets it still has to read, the first one being read
\*   value    what it last read
\*   since    when that was answered
\*   floor    history: settled, when it started
\*   wrote    history: the stamp of its own change
\*   token    the token it has
\*   outcome  how it ended, or will once its secrets are read
Idle ==
  [kind |-> "get", pc |-> "idle", agenda |-> <<>>, value |-> Nothing, since |-> 0,
   floor |-> 0, wrote |-> 0, token |-> NoToken, outcome |-> "none"]

At(j, place) == job[j].pc = place
secret(j) == Head(job[j].agenda)
Ended(j, outcome) == [Idle EXCEPT !.kind = job[j].kind, !.outcome = outcome]
Moved(j, place) == [job[j] EXCEPT !.pc = place]

\* A step of j that changes nothing else.
Go(j, record) ==
  job' = [job EXCEPT ![j] = record] /\ UNCHANGED <<backend, now, starts, store, cache, token, settled>>

Init ==
  /\ backend \in Backend
  /\ now = 0 /\ starts = 0
  /\ store = [n \in Name |-> [stamp |-> 0, has |-> FALSE, container |-> FALSE]]
  /\ cache = [n \in Name |-> NoEntry]
  /\ token = NoToken
  /\ job = [j \in Job |-> Idle]
  /\ settled = [n \in Name |-> 0]

-----------------------------------------------------------------------------
\* Jobs start.

First(kind) ==
  CASE kind = "get" -> "read"
    [] kind = "rotate" -> "fetch"
    [] kind = "set" -> IF backend = "versions" THEN "check" ELSE "put"
    [] kind = "delete" -> "delete"
    [] kind = "call" -> "token"

Start(j) ==
  /\ At(j, "idle") /\ starts < MaxStart /\ starts' = starts + 1
  /\ \E kind \in Kind, n \in Name :
       job' = [job EXCEPT ![j] =
         [Idle EXCEPT !.kind = kind, !.pc = First(kind),
                      !.agenda = IF kind = "call" THEN ClientRefs ELSE <<n>>,
                      !.floor = IF kind = "get" THEN settled[n] ELSE 0]]
  /\ UNCHANGED <<backend, now, store, cache, token, settled>>

-----------------------------------------------------------------------------
\* get_secret.

Fresh(entry) == now < entry.until

\* A value was had: the end, or for a token the next secret.  A tool call reads
\* the second one even if the first is missing.
Got(j, answer) ==
  CASE job[j].kind = "get" -> [Ended(j, "answered") EXCEPT !.value = answer, !.floor = job[j].floor]
    [] job[j].kind = "rotate" -> Ended(j, IF answer.has THEN "rotated" ELSE "error")
    [] OTHER ->
         LET missing == ~answer.has \/ job[j].outcome = "no_token"
             more == Len(job[j].agenda) > 1
         IN  IF missing /\ ~more THEN Ended(j, "no_token")
             ELSE [Idle EXCEPT !.kind = "call", !.agenda = Tail(job[j].agenda),
                               !.pc = IF more THEN "read" ELSE "exchange",
                               !.outcome = IF missing THEN "no_token" ELSE "none"]

\* Fault: an entry that is used is kept longer.
HitSliding(j) ==
  /\ At(j, "read") /\ Fresh(cache[secret(j)])
  /\ job' = [job EXCEPT ![j] = Got(j, [stamp |-> cache[secret(j)].stamp, has |-> TRUE])]
  /\ cache' = [cache EXCEPT ![secret(j)].until = now + Ttl]
  /\ UNCHANGED <<backend, now, starts, store, token, settled>>

Hit(j) ==
  /\ At(j, "read") /\ Fresh(cache[secret(j)])
  /\ Go(j, Got(j, [stamp |-> cache[secret(j)].stamp, has |-> TRUE]))

\* There is no entry, or Valkey does not answer.
Miss(j) == At(j, "read") /\ Go(j, Moved(j, "fetch"))

\* provider.get_secret.
Fetch(j) ==
  /\ At(j, "fetch")
  /\ LET s == store[secret(j)]
     IN  Go(j, [job[j] EXCEPT !.pc = "fill", !.value = [stamp |-> s.stamp, has |-> s.has],
                              !.since = now])

\* ProviderError.
FetchFails(j) == At(j, "fetch") /\ Go(j, Ended(j, "error"))

\* Another job holds an older value and may still put it into the cache.
OlderOnItsWay(j, n, stamp) ==
  \E k \in Job \ {j} : At(k, "fill") /\ secret(k) = n /\ job[k].value.stamp < stamp

\* The cache was brought up to this stamp.
Settle(j, n, stamp) ==
  settled' = [settled EXCEPT ![n] = IF stamp > @ /\ ~OlderOnItsWay(j, n, stamp) THEN stamp ELSE @]

\* Fault: that there is no secret is cached as well.
FilledAnything(answer, asOf) ==
  [stamp |-> answer.stamp, has |-> answer.has, until |-> now + Ttl, asOf |-> asOf]

\* _cache_write: a value with its TTL, or the key deleted.
Filled(answer, asOf) ==
  IF answer.has THEN [stamp |-> answer.stamp, has |-> TRUE, until |-> now + Ttl, asOf |-> asOf]
  ELSE NoEntry

Fill(j) ==
  /\ At(j, "fill")
  /\ job' = [job EXCEPT ![j] = Got(j, job[j].value)]
  /\ cache' = [cache EXCEPT ![secret(j)] = Filled(job[j].value, job[j].since)]
  /\ Settle(j, secret(j), job[j].value.stamp)
  /\ UNCHANGED <<backend, now, starts, store, token>>

\* Valkey does not answer: the value is used all the same.
FillFails(j) == At(j, "fill") /\ Go(j, Got(j, job[j].value))

-----------------------------------------------------------------------------
\* set_secret and delete_secret.

\* The next state of the backend when n is changed, by a job or by an operator.
Change(n, has) ==
  /\ store[n].stamp < MaxStamp
  /\ store' = [store EXCEPT ![n] = [stamp |-> @.stamp + 1, has |-> has, container |-> has]]

\* The backend makes the change for j, and its answer arrives or is lost.
Written(j, has) ==
  /\ Change(secret(j), has)
  /\ \E told \in BOOLEAN : job' = [job EXCEPT ![j] =
       IF told THEN [Moved(j, "invalidate") EXCEPT !.wrote = store[secret(j)].stamp + 1]
       ELSE Ended(j, "error")]
  /\ UNCHANGED <<backend, now, starts, cache, token, settled>>

\* One upsert, or an update of what is there.
Put(j) ==
  /\ At(j, "put")
  /\ backend = "upsert" \/ store[secret(j)].has
  /\ Written(j, TRUE)

PutFindsNothing(j) ==
  /\ At(j, "put") /\ backend = "put_or_create" /\ ~store[secret(j)].has
  /\ Go(j, Moved(j, "create"))

Create(j) == At(j, "create") /\ ~store[secret(j)].has /\ Written(j, TRUE)

\* Another job created it since the update found nothing.
CreateConflicts(j) ==
  At(j, "create") /\ store[secret(j)].has /\ Go(j, Ended(j, "error"))

\* GCP: is there a container?
CheckContainer(j) ==
  At(j, "check") /\ Go(j, Moved(j, IF store[secret(j)].container THEN "add" ELSE "container"))

\* A container that was created meanwhile is as good.
CreateContainer(j) ==
  /\ At(j, "container")
  /\ store' = [store EXCEPT ![secret(j)].container = TRUE]
  /\ job' = [job EXCEPT ![j] = Moved(j, "add")]
  /\ UNCHANGED <<backend, now, starts, cache, token, settled>>

AddVersion(j) ==
  At(j, "add") /\ store[secret(j)].container /\ Written(j, TRUE)

\* The container was deleted meanwhile.
AddFindsNothing(j) ==
  At(j, "add") /\ ~store[secret(j)].container /\ Go(j, Ended(j, "error"))

Delete(j) ==
  At(j, "delete") /\ store[secret(j)].container /\ Written(j, FALSE)

\* What is not there counts as deleted.
DeleteFindsNothing(j) ==
  At(j, "delete") /\ ~store[secret(j)].container /\ Go(j, Moved(j, "invalidate"))

\* ProviderError, and the backend did nothing.
WriteFails(j) ==
  /\ job[j].pc \in {"put", "create", "check", "container", "add", "delete"}
  /\ Go(j, Ended(j, "error"))

Done(j) ==
  IF job[j].kind = "set" THEN [Ended(j, "set") EXCEPT !.wrote = job[j].wrote] ELSE Ended(j, "deleted")

\* Fault: the new value is put into the cache.
InvalidatePrewarms(j) ==
  /\ At(j, "invalidate")
  /\ job' = [job EXCEPT ![j] = Done(j)]
  /\ cache' = [cache EXCEPT ![secret(j)] =
                 Filled([stamp |-> job[j].wrote, has |-> job[j].kind = "set"], now)]
  /\ Settle(j, secret(j), job[j].wrote)
  /\ UNCHANGED <<backend, now, starts, store, token>>

\* The key is deleted.
Invalidate(j) ==
  /\ At(j, "invalidate")
  /\ job' = [job EXCEPT ![j] = Done(j)]
  /\ cache' = [cache EXCEPT ![secret(j)] = NoEntry]
  /\ Settle(j, secret(j), job[j].wrote)
  /\ UNCHANGED <<backend, now, starts, store, token>>

InvalidateFails(j) == At(j, "invalidate") /\ Go(j, Done(j))

-----------------------------------------------------------------------------
\* RestExecutor._get_oauth2_token.  A failure of Valkey fails the tool call.

Sent(j, t) == [Ended(j, "sent") EXCEPT !.token = t, !.since = now]

TokenHit(j) == At(j, "token") /\ now < token.until /\ Go(j, Sent(j, token))

TokenMiss(j) == At(j, "token") /\ now >= token.until /\ Go(j, Moved(j, "read"))

\* The endpoint grants a token and announces its lifetime.
Exchange(j) ==
  /\ At(j, "exchange")
  /\ \E life \in ExpiresIn :
       Go(j, [Moved(j, "keep") EXCEPT
                !.token = [expires |-> now + life, until |-> 0, life |-> life], !.since = now])

\* Fault: the token is kept for all of its lifetime.
KeptForLife(life) == IF life > Least THEN life ELSE Least

\* max(expires_in - margin, 30)
KeptFor(life) == IF life > Least + Margin THEN life - Margin ELSE Least

Keep(j) ==
  /\ At(j, "keep")
  /\ LET t == [job[j].token EXCEPT !.until = now + KeptFor(job[j].token.life)]
     IN  token' = t /\ job' = [job EXCEPT ![j] = Sent(j, t)]
  /\ UNCHANGED <<backend, now, starts, store, cache, settled>>

\* Valkey or the token endpoint fails.
TokenFails(j) ==
  job[j].pc \in {"token", "exchange", "keep"} /\ Go(j, Ended(j, "error"))

-----------------------------------------------------------------------------

\* An operator changes the secret in the backend itself.
ChangeOutside(n) ==
  /\ \E has \in BOOLEAN : (has \/ store[n].container) /\ Change(n, has)
  /\ UNCHANGED <<backend, now, starts, cache, token, job, settled>>

\* Time passes, but no answer waits longer than CallTime for its cache write.
Tick ==
  /\ now < MaxNow
  /\ \A j \in Job : job[j].pc \in {"fill", "keep"} => now < job[j].since + CallTime
  /\ now' = now + 1
  /\ UNCHANGED <<backend, starts, store, cache, token, job, settled>>

Step(j) ==
  \/ Start(j) \/ Hit(j) \/ Miss(j) \/ Fetch(j) \/ FetchFails(j) \/ Fill(j) \/ FillFails(j)
  \/ Put(j) \/ PutFindsNothing(j) \/ Create(j) \/ CreateConflicts(j)
  \/ CheckContainer(j) \/ CreateContainer(j) \/ AddVersion(j) \/ AddFindsNothing(j)
  \/ Delete(j) \/ DeleteFindsNothing(j) \/ WriteFails(j) \/ Invalidate(j) \/ InvalidateFails(j)
  \/ TokenHit(j) \/ TokenMiss(j) \/ Exchange(j) \/ Keep(j) \/ TokenFails(j)

Next == Tick \/ (\E n \in Name : ChangeOutside(n)) \/ \E j \in Job : Step(j)

Spec == Init /\ [][Next]_vars

=============================================================================
