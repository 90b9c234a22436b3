--------------------------- MODULE MCChatPipeline ---------------------------
(***************************************************************************)
(* Instances of ChatPipeline for TLC.                                      *)
(***************************************************************************)
EXTENDS ChatPipelineProps, TLC

CONSTANTS k1, k2, pr1, pr2, ann, hello, t1, t2, t3, pa, pb, big, small, r1, r2, r3

MCProjectOf == [k \in Key |-> IF k = k1 THEN pr1 ELSE pr2]

\* t1 and t2 are two models of one provider; t3 is the second of them at another.
MCProviderOf == [t \in Target |-> IF t = t3 THEN pb ELSE pa]
MCModelOf == [t \in Target |-> IF t = t1 THEN big ELSE small]

Routed(path, project, user, targets) ==
  [endpoint |-> path, project |-> project, user |-> user, priority |-> 1, targets |-> targets]

ForEmbeddings == Routed("embeddings", Every, Every, <<t1, t3>>)

\* For everybody, for a project; and for embeddings.
MCRule ==
  { Routed("chat", Every, Every, <<t1, t2>>), Routed("chat", pr1, Every, <<t2, t3>>),
    ForEmbeddings }

MCStanding == {ForEmbeddings}

Asked(e, k) == [endpoint |-> e, key |-> k, user |-> ann, prompt |-> hello]

MCAsk ==
  [r \in Request |->
     CASE r = r1 -> Asked("chat", k1)
       [] r = r2 -> Asked("chat", k2)
       [] OTHER  -> Asked("embeddings", k1)]

=============================================================================
