-------------------------- MODULE ChatPipelineProps --------------------------
(***************************************************************************)
(* Who may use the pipeline, what it delivers and what it charges.         *)
(***************************************************************************)
EXTENDS ChatPipeline

Charge == [request : Request, free : BOOLEAN, provider : {ProviderOf[t] : t \in Target},
           name : {ModelOf[t] : t \in Target} \cup {OtherName}]

\* The variables have their types, a row lock is held by who is between its
\* flush and its commit, and no request is charged twice.
TypeOK ==
  /\ keys \in [Key -> {"unissued", "active", "revoked"}] /\ known \subseteq Key
  /\ cache \in [Endpoint \X Prompt -> Response \cup {None}]
  /\ \A r \in Request : req[r].result \in Response \cup {None}
  /\ passed \subseteq Verdict
  /\ \A k \in Key : holder[k] = "revoke" <=> revoking[k] \in {"flushed", "dropped"}
  /\ \A r \in Request : At(r, "touched") <=> holder[key(r)] = r
  /\ ledger \subseteq Charge
  /\ \A a, b \in ledger : a.request = b.request => a = b

\* A request gets past the middleware only with a key that was active at some
\* time since it came: neither a cached id nor a lookup that overlaps the
\* revocation lets a revoked key in (verify_api_key, revoke_api_key).
AdmittedKeyWasActive ==
  \A r \in Request :
    req[r].pc \in {"limit", "prompt", "lookup", "route", "complete", "verdict", "store", "respond", "record"}
      => window[r]

\* The guardrail returned this text, or nothing for what it is made of.
LetThrough(text) ==
  text \in passed \/ (text.form = "raw" /\ [by |-> text.by, form |-> "empty"] \in passed)

\* A chat text is delivered as the response guardrail returned it, for this request
\* or for the one that cached it, masked if it was masked; as the provider gave it,
\* against a guardrail that did not return it so, only if that returned an empty
\* text, which the gateway takes for no masking (create_chat_completion,
\* "masked_text or completion_text").
DeliveredWasChecked ==
  \A r \in Request :
    req[r].status = "success" /\ endpoint(r) = "chat" => LetThrough(req[r].result.text)

\* The row of a request is the price of the target that answered it, nothing if
\* it was answered from the cache, as long as the provider reports a model of
\* the rule and no other target of the rule has that model
\* (GatewayRouter._provider_for_model, CostService.calculate, record_request).
ChargedAsServed ==
  \A c \in ledger :
    LET r == c.request
        t == req[r].served
    IN  /\ req[r].status = "success"
        /\ c.free <=> t = None
        /\ ~c.free /\ c.name = ModelOf[t]
             /\ (\A i \in DOMAIN req[r].targets :
                   ModelOf[req[r].targets[i]] = c.name => req[r].targets[i] = t)
           => c.provider = ProviderOf[t]

=============================================================================
