------------------------------ MODULE MCPlatform ------------------------------
(* Instances for TLC of the parts between the clients and the workers: the  *)
(* connectors' sync and OAuth, the calls to models, the search, the gateway *)
(* and the hooks of a client.                                               *)
EXTENDS ConnectorSync, ConnectorOAuth, ModelCalls, Retrieval, Gateway, ReactHooks, TLC

CONSTANTS j1, j2, p1, p2, db

(* Two syncs of a workspace of two pages; the second page is archived, and   *)
(* both are in a database.                                                   *)
MCModeOf == (j1 :> "incremental" @@ j2 :> "incremental")
MCPageLists == <<{}, {p1}>>
MCDatabaseLists == <<{db}>>
MCPagesIn == (p1 :> {} @@ p2 :> {} @@ db :> {p1, p2})

CONSTANTS f1, f2, b1, b2, b3, u1

MCFlowOf == (b1 :> f1 @@ b2 :> f2 @@ b3 :> f1)

CONSTANTS c1, c2, c3, c4, s1

MCProviderOf == (c1 :> "openai chat" @@ c2 :> "embeddings" @@ c3 :> "anthropic chat"
                 @@ c4 :> "embedding")
MCCallers == <<c1, c2, c3, c4>>
MCConversation == <<[role |-> "system", text |-> "a"], [role |-> "user", text |-> "b"]>>

CONSTANTS k1, k2, k3, k4, q1

(* Chunks of two documents of one workspace, and one of another workspace.   *)
MCChunkData ==
    (k1 :> [workspace |-> "w1", document |-> "d1", created |-> 1, tags |-> {"t"},
            metadata |-> <<"number", "1">>]
     @@ k2 :> [workspace |-> "w1", document |-> "d1", created |-> 2, tags |-> {},
               metadata |-> <<"string", "1">>]
     @@ k3 :> [workspace |-> "w1", document |-> "d2", created |-> 3, tags |-> {"t"},
               metadata |-> <<>>]
     @@ k4 :> [workspace |-> "w2", document |-> "d3", created |-> 3, tags |-> {"t"},
               metadata |-> <<"number", "1">>])

NoFilter == [documents |-> {}, tags |-> {}, after |-> 0, before |-> 0, metadata |-> <<>>]
Ask(filter, topK, hybrid, embedded, rerank) ==
    [workspace |-> "w1", filter |-> filter, topK |-> topK, hybrid |-> hybrid,
     embedded |-> embedded, rerank |-> rerank]

MCSearchRequests ==
    {Ask(NoFilter, 2, TRUE, TRUE, 0), Ask(NoFilter, 3, TRUE, TRUE, 2),
     Ask(NoFilter, 1, TRUE, FALSE, 0), Ask(NoFilter, 2, FALSE, TRUE, 1),
     Ask(NoFilter, 2, FALSE, FALSE, 2),
     Ask([NoFilter EXCEPT !.metadata = <<"number", "1">>], 2, TRUE, TRUE, 0),
     Ask([NoFilter EXCEPT !.tags = {"t"}, !.after = 2, !.documents = {"d1", "d2"}],
         2, TRUE, TRUE, 0)}
MCScores == {[num |-> 0, den |-> 1], [num |-> 1, den |-> 40]}

Passages(n) == [1..n -> {[header |-> 3, text |-> l] : l \in {1, 5, 34}}]
MCContextRequests ==
    {[passages |-> ps, max |-> m] : ps \in UNION {Passages(n) : n \in 0..3},
                                    m \in {0, 1, 5, 6, 13, 20}}

(* Requests to the gateway: each route once with a valid body and a token,   *)
(* and bodies, tokens and keys that are refused.                             *)
Token(verifies, sub, workspace) == [verifies |-> verifies, sub |-> sub, workspace |-> workspace]
ApiKey(long, workspace) == [long |-> long, workspace |-> workspace]
Request(route, body, token, key) == [route |-> route, body |-> body, token |-> token, key |-> key]
UserOfW1 == Token(TRUE, "u", "w1")

MCGatewayRequests ==
    {Request(route, "valid", UserOfW1, <<>>) :
         route \in {"POST /v1/search", "POST /v1/context", "GET /v1/memories/:id",
                    "POST /v1/connectors/:type/sync", "GET /v1/usage", "GET /v1/documents"}}
    \cup {Request("GET /v1/documents/:id", "valid", UserOfW1, ApiKey(TRUE, "w2")),
          Request("POST /v1/search", "invalid", <<>>, ApiKey(TRUE, "w2")),
          Request("POST /v1/documents", "broken", <<>>, <<>>),
          Request("POST /v1/documents", "invalid", UserOfW1, <<>>),
          Request("POST /v1/documents", "valid", Token(FALSE, "u", "w1"), ApiKey(TRUE, "w1")),
          Request("POST /v1/documents", "valid", Token(TRUE, "u", ""), <<>>),
          Request("POST /v1/documents", "valid", <<>>, <<>>),
          Request("POST /v1/documents", "valid", <<>>, ApiKey(FALSE, "w1")),
          Request("POST /v1/context", "invalid", UserOfW1, <<>>),
          Request("GET /health", "valid", <<>>, <<>>)}
MCLimitOf ==
    [r \in {q.route : q \in MCGatewayRequests} |->
         [name |-> r, max |-> IF r = "POST /v1/search" THEN 1 ELSE 2]]
MCRepliesOf == ("ingestion" :> {201} @@ "retrieval" :> {200}
                @@ "retrieval, unknown path" :> {404} @@ "connector" :> {202})

CONSTANTS d1, d2, d3, d4, h1, h2, h3

(* Two of the documents were created in the same millisecond.                *)
MCCreatedAt == (d1 :> 1 @@ d2 :> 2 @@ d3 :> 2 @@ d4 :> 3)
MCStatusOf == (d1 :> "ready" @@ d2 :> "ready" @@ d3 :> "failed" @@ d4 :> "ready")
MCListParams == {[limit |-> 1, status |-> "any"], [limit |-> 2, status |-> "ready"]}

(* The parts share no state: one of them moves in each behaviour.            *)
VARIABLE focus

MCInit ==
    /\ SyncInit /\ OAuthInit /\ ModelInit /\ RetrievalInit /\ GatewayInit /\ HooksInit
    /\ focus \in {"two syncs", "syncs in turn", "oauth", "rate", "retries", "search", "context",
                  "gateway", "hooks"}

MCVars == <<syncVars, oauthVars, modelVars, retrievalVars, gatewayVars, hookVars, focus>>

(* Two syncs at once of a source that stays as it is, or one after the other *)
(* of a source that changes, the first of which may fail.                    *)
Over == At(j1) \notin Executing \cup {"idle", "create", "request"}
SyncFocus ==
    IF focus = "two syncs" THEN UNCHANGED <<source, now>>
    ELSE /\ ~Over => UNCHANGED syncs[j2]
         /\ source'[p2] = source[p2]
         /\ syncFaults' <= 1 /\ (Over => syncFaults' = syncFaults)

(* Two callbacks, of two flows or of one.                                    *)
OAuthFocus ==
    callbacks'[b3] # NewCallback => callbacks'[b2] = NewCallback /\ users'[u1] = NewUser

(* Callers of the rate limiter whose requests succeed, one coming after the  *)
(* other, or one caller whose requests are refused.                         *)
ModelFocus ==
    IF focus = "rate"
    THEN /\ UNCHANGED streams
         /\ \A c \in ModelCallers : calls'[c].pc # "asked"
         /\ \A i \in 1..3 : calls'[MCCallers[i]] = NewCall => calls'[MCCallers[i + 1]] = NewCall
         /\ resets' = 0 \/ calls'[c4] = NewCall
    ELSE /\ resets' = 0
         /\ \A c \in ModelCallers : calls[c] # calls'[c] =>
                /\ \A d \in ModelCallers \ {c} : calls[d] = NewCall
                /\ streams[s1].pc = "idle"
         /\ streams' # streams => \A c \in ModelCallers : calls[c] = NewCall

(* Searches whose index changes between two lists, or the contexts of       *)
(* single requests.                                                         *)
RetrievalFocus ==
    IF focus = "search"
    THEN /\ SearchNext
         /\ indexed' # indexed => /\ SearchAt(q1) = "searching"
                                  /\ \E index \in {"vector", "keyword"} :
                                        searches[q1][index] \notin {Pending, <<>>}
    ELSE (contextWindow = <<>> /\ PostContext) \/ AssemblePassage

(* Any single request, or several that count against one of two limits.      *)
GatewayFocus ==
    LET Limited(call) == /\ call.key # <<>> /\ call.key[1] = "w1"
                         /\ call.route \in {"POST /v1/search", "GET /v1/documents/:id"}
    IN /\ Len(gatewayCalls') > Len(gatewayCalls) /\ gatewayCalls # <<>> =>
              Limited(gatewayCalls[1]) /\ Limited(gatewayCalls'[Len(gatewayCalls')])
       /\ Len(gatewayCalls') = Len(gatewayCalls) /\ gatewayCalls' # gatewayCalls
          /\ gatewayRestarts' = gatewayRestarts => Len(gatewayCalls) = 1

(* Calls of the hooks, begun in one order.                                   *)
HooksFocus ==
    /\ hookCalls'[h1] = NoCall => hookCalls'[h2] = NoCall
    /\ hookCalls'[h2] = NoCall => hookCalls'[h3] = NoCall

MCNext ==
    /\ UNCHANGED focus
    /\ \/ /\ focus \in {"two syncs", "syncs in turn"} /\ SyncNext /\ SyncFocus
          /\ UNCHANGED <<oauthVars, modelVars, retrievalVars, gatewayVars, hookVars>>
       \/ /\ focus = "oauth" /\ OAuthNext /\ OAuthFocus
          /\ UNCHANGED <<syncVars, modelVars, retrievalVars, gatewayVars, hookVars>>
       \/ /\ focus \in {"rate", "retries"} /\ ModelNext /\ ModelFocus
          /\ UNCHANGED <<syncVars, oauthVars, retrievalVars, gatewayVars, hookVars>>
       \/ /\ focus \in {"search", "context"} /\ RetrievalFocus
          /\ UNCHANGED <<syncVars, oauthVars, modelVars, gatewayVars, hookVars>>
       \/ /\ focus = "gateway" /\ GatewayNext /\ GatewayFocus
          /\ UNCHANGED <<syncVars, oauthVars, modelVars, retrievalVars, hookVars>>
       \/ /\ focus = "hooks" /\ HooksNext /\ HooksFocus
          /\ UNCHANGED <<syncVars, oauthVars, modelVars, retrievalVars, gatewayVars>>

MCSpec == MCInit /\ [][MCNext]_MCVars

-----------------------------------------------------------------------------
(* The type invariants of the parts.                                         *)
PlatformTypeOK ==
    /\ SyncTypeOK /\ OAuthTypeOK /\ ModelTypeOK /\ RetrievalTypeOK /\ GatewayTypeOK /\ HooksTypeOK
=============================================================================
