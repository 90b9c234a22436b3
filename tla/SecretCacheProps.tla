-------------------------- MODULE SecretCacheProps --------------------------
(***************************************************************************)
(* How stale a credential can be.                                          *)
(***************************************************************************)
EXTENDS SecretCache

\* The variables have their types; no cache entry says that there is no secret
\* (SecretService._cache_write deletes the key for None), and a value has its
\* container.
TypeOK ==
  /\ backend \in Backend /\ now \in Time /\ starts \in 0..MaxStart
  /\ store \in [Name -> Stored]
  /\ \A n \in Name : store[n].has => store[n].container
  /\ cache \in [Name -> Entry]
  /\ \A n \in Name : cache[n].until # 0 => cache[n].has
  /\ token \in Token
  /\ \A j \in Job : job[j].value \in Answer /\ job[j].since \in Time
                    /\ job[j].wrote \in Stamp /\ job[j].floor \in Stamp
  /\ settled \in [Name -> Stamp]

\* What the cache serves was the backend's value within the last TTL and the
\* time an answer may take to reach the cache, whatever failed and whoever
\* overlapped (SecretService: "it only risks a stale cached value for up to
\* cache_ttl_seconds").
StaleAtMostTtl ==
  \A n \in Name : Fresh(cache[n]) => now < cache[n].asOf + Ttl + CallTime

\* Once the cache was brought up to a change, by a set, a rotation or any read,
\* and no older answer was then on its way to it, no later get returns anything
\* older (SecretService.set_secret: a set followed by a get "can never observe a
\* stale cached value").
SettledIsSeen ==
  \A j \in Job : job[j].kind = "get" /\ job[j].outcome = "answered"
                   => job[j].value.stamp >= job[j].floor

\* A tool call sends no token that has expired, unless the token lived too short
\* for the shortest TTL (RestExecutor._get_oauth2_token, the safety margin).
SentTokenIsValid ==
  \A j \in Job : job[j].outcome = "sent" =>
    job[j].since < job[j].token.expires \/ job[j].token.life < Least + CallTime

=============================================================================
