---------------------------- MODULE ConnectorOAuth ----------------------------
(***************************************************************************)
(* OAuth in services/connector-service: OAuthManager (oauth-manager.ts), the *)
(* callback of routes/connectors.ts, and the rows they use, for one          *)
(* connector type of one workspace.                                         *)
(*                                                                         *)
(* The provider is external.  It numbers the grants it gives: the n-th has   *)
(* access token n and, if it comes with one, refresh token n.  It honours    *)
(* the last refresh token it gave, and may or may not take a code again.    *)
(***************************************************************************)
EXTENDS Integers, Sequences, FiniteSets, FiniteSetsExt, SequencesExt

CONSTANTS
    Flows,            \* OAuth flows, each with its state and its code
    Callbacks,        \* the requests to the callback
    FlowOf,           \* FlowOf[b]: the flow a callback is about
    TokenUsers,       \* callers of getValidAccessToken, for the account found first
    MaxGrants,        \* the provider gives no more of them
    MaxOAuthFaults    \* how many calls may fail

ASSUME OAuthAssumption ==
    /\ FlowOf \in [Callbacks -> Flows] /\ IsFiniteSet(Callbacks)
    /\ MaxGrants \in Nat /\ MaxOAuthFaults \in Nat

VARIABLES
    oauthStates,      \* oauth_states: "none", "stored", "expired" or "deleted"
    accountIds,       \* connector_accounts: how many were created
    tokens,           \* connector_tokens, in the order of created_at
    grants,           \* external: the grants of the provider
    honoured,         \* external: the refresh token it honours
    codes,            \* external: the codes it has taken
    callbacks,        \* each callback: where it is, the account and the grant it holds
    users,            \* each caller of getValidAccessToken
    raced,            \* history: what happened while something else was under way
    oauthFaults

oauthVars == <<oauthStates, accountIds, tokens, grants, honoured, codes, callbacks, users, raced, oauthFaults>>
providerVars == <<grants, honoured, codes>>

NewCallback == [pc |-> "idle", account |-> 0, grant |-> 0, refresh |-> FALSE]
NewUser == [pc |-> "idle", account |-> 0, token |-> 0, grant |-> 0, refresh |-> FALSE]

OAuthInit ==
    /\ oauthStates = [f \in Flows |-> "none"]
    /\ accountIds = 0
    /\ tokens = <<>>
    /\ grants = 0 /\ honoured = 0 /\ codes = {}
    /\ callbacks = [b \in Callbacks |-> NewCallback]
    /\ users = [u \in TokenUsers |-> NewUser]
    /\ raced = [accounts |-> FALSE, tokens |-> FALSE]
    /\ oauthFaults = 0

-----------------------------------------------------------------------------
CallbackAt(b) == callbacks[b].pc
UserAt(u) == users[u].pc
CallbackGoes(b, pc) == callbacks' = [callbacks EXCEPT ![b].pc = pc]
UserGoes(u, pc) == users' = [users EXCEPT ![u].pc = pc]

(* A callback from reading the state to creating the account, and anybody    *)
(* from getting a grant (for a caller, from reading the refresh token) to    *)
(* having stored its tokens.                                                *)
Connecting == {b \in Callbacks : CallbackAt(b) \in {"exchange", "delete", "find", "create"}}
Granting == {b \in Callbacks : CallbackAt(b) \in {"exchange", "delete", "find", "create", "access", "refresh"}}
            \cup {u \in TokenUsers : UserAt(u) \in {"ask", "access", "refresh"}}

OAuthFault == oauthFaults < MaxOAuthFaults /\ oauthFaults' = oauthFaults + 1

(* initiateOAuth stores the state of a flow, for ten minutes.               *)
InitiateOAuth(f) ==
    /\ oauthStates[f] = "none"
    /\ oauthStates' = [oauthStates EXCEPT ![f] = "stored"]
    /\ UNCHANGED <<accountIds, tokens, providerVars, callbacks, users, raced, oauthFaults>>

StateExpires(f) ==
    /\ oauthStates[f] = "stored"
    /\ oauthStates' = [oauthStates EXCEPT ![f] = "expired"]
    /\ UNCHANGED <<accountIds, tokens, providerVars, callbacks, users, raced, oauthFaults>>

(* The callback reads the state: the type of the plugin is in it, then it is *)
(* read again by handleCallback.  An expired state is deleted.              *)
GetOAuthState(b) ==
    /\ CallbackAt(b) = "idle"
    /\ LET f == FlowOf[b]
       IN  /\ CallbackGoes(b, IF oauthStates[f] = "stored" THEN "exchange" ELSE "failed")
           /\ oauthStates' = IF oauthStates[f] = "expired"
                             THEN [oauthStates EXCEPT ![f] = "deleted"] ELSE oauthStates
           /\ raced' = IF oauthStates[f] # "stored" THEN raced
                       ELSE [accounts |-> raced.accounts \/ Connecting # {},
                             tokens |-> raced.tokens \/ Granting # {}]
    /\ UNCHANGED <<accountIds, tokens, providerVars, users, oauthFaults>>

(* exchangeCodeForTokens.                                                   *)
ExchangeCode(b) ==
    /\ CallbackAt(b) = "exchange"
    /\ grants < MaxGrants
    /\ \/ /\ grants' = grants + 1
          /\ codes' = codes \cup {FlowOf[b]}
          /\ \E withRefresh \in BOOLEAN :
                /\ callbacks' = [callbacks EXCEPT ![b].pc = "delete", ![b].grant = grants + 1,
                                                  ![b].refresh = withRefresh]
                /\ honoured' = IF withRefresh THEN grants + 1 ELSE honoured
       \/ /\ FlowOf[b] \in codes
          /\ CallbackGoes(b, "failed")
          /\ UNCHANGED providerVars
    /\ UNCHANGED <<oauthStates, accountIds, tokens, users, raced, oauthFaults>>

DeleteOAuthState(b) ==
    /\ CallbackAt(b) = "delete"
    /\ oauthStates' = [oauthStates EXCEPT ![FlowOf[b]] = "deleted"]
    /\ CallbackGoes(b, "find")
    /\ UNCHANGED <<accountIds, tokens, providerVars, users, raced, oauthFaults>>

(* getAccountByTypeAndWorkspace: any account of them, without an order.     *)
FindAccount(b) ==
    /\ CallbackAt(b) = "find"
    /\ \/ /\ accountIds = 0
          /\ CallbackGoes(b, "create")
       \/ \E a \in 1..accountIds :
             callbacks' = [callbacks EXCEPT ![b].pc = "access", ![b].account = a]
    /\ UNCHANGED <<oauthStates, accountIds, tokens, providerVars, users, raced, oauthFaults>>

CreateAccount(b) ==
    /\ CallbackAt(b) = "create"
    /\ accountIds' = accountIds + 1
    /\ callbacks' = [callbacks EXCEPT ![b].pc = "access", ![b].account = accountIds + 1]
    /\ UNCHANGED <<oauthStates, tokens, providerVars, users, raced, oauthFaults>>

(* storeTokens: the access token, then the refresh token if there is one.   *)
TokenRow(x, type) == [account |-> x.account, type |-> type, grant |-> x.grant]

(* Mutant: the refresh token is left out.                                   *)
WithoutRefresh(x) == "ok"
AfterAccess(x) == IF x.refresh THEN "refresh" ELSE "ok"

CallbackStores(b) ==
    /\ CallbackAt(b) \in {"access", "refresh"}
    /\ tokens' = Append(tokens, TokenRow(callbacks[b], CallbackAt(b)))
    /\ CallbackGoes(b, IF CallbackAt(b) = "access" THEN AfterAccess(callbacks[b]) ELSE "ok")
    /\ UNCHANGED <<oauthStates, accountIds, providerVars, users, raced, oauthFaults>>

-----------------------------------------------------------------------------
(* getLatestToken: the last one stored, 0 when there is none.               *)
LatestToken(account, type) ==
    LET rows == {n \in DOMAIN tokens : tokens[n].account = account /\ tokens[n].type = type}
    IN  IF rows = {} THEN 0 ELSE tokens[Max(rows)].grant

(* getValidAccessToken: the access token is read; it may have expired, or    *)
(* the provider may find it invalid; then it is refreshed.                  *)
GetLatestToken(u) ==
    /\ UserAt(u) = "idle"
    /\ \E a \in 1..accountIds :
          users' = [users EXCEPT ![u].account = a,
                        ![u].pc = IF LatestToken(a, "access") = 0 THEN "failed" ELSE "validate",
                        ![u].token = LatestToken(a, "access")]
    /\ UNCHANGED <<oauthStates, accountIds, tokens, providerVars, callbacks, raced, oauthFaults>>

ValidateCredentials(u) ==
    /\ UserAt(u) = "validate"
    /\ \E valid \in BOOLEAN : UserGoes(u, IF valid THEN "ok" ELSE "read")
    /\ UNCHANGED <<oauthStates, accountIds, tokens, providerVars, callbacks, raced, oauthFaults>>

(* refreshAccessToken: the refresh token is read, and given to the provider. *)
GetRefreshToken(u) ==
    /\ UserAt(u) = "read"
    /\ LET token == LatestToken(users[u].account, "refresh")
       IN  /\ users' = [users EXCEPT ![u].pc = IF token = 0 THEN "failed" ELSE "ask", ![u].token = token]
           /\ raced' = [raced EXCEPT !.tokens = @ \/ (token # 0 /\ Granting # {})]
    /\ UNCHANGED <<oauthStates, accountIds, tokens, providerVars, callbacks, oauthFaults>>

(* The provider gives another grant, and with it, or not, a refresh token    *)
(* that replaces the one it was given.                                      *)
RefreshAccessToken(u) ==
    /\ UserAt(u) = "ask"
    /\ grants < MaxGrants
    /\ \/ /\ users[u].token = honoured
          /\ grants' = grants + 1
          /\ \E withRefresh \in BOOLEAN :
                /\ users' = [users EXCEPT ![u].pc = "access", ![u].grant = grants + 1,
                                          ![u].refresh = withRefresh]
                /\ honoured' = IF withRefresh THEN grants + 1 ELSE honoured
       \/ /\ users[u].token # honoured
          /\ UserGoes(u, "failed")
          /\ UNCHANGED <<grants, honoured>>
    /\ UNCHANGED <<oauthStates, accountIds, tokens, codes, callbacks, raced, oauthFaults>>

UserStores(u) ==
    /\ UserAt(u) \in {"access", "refresh"}
    /\ tokens' = Append(tokens, TokenRow(users[u], UserAt(u)))
    /\ UserGoes(u, IF UserAt(u) = "access" THEN AfterAccess(users[u]) ELSE "ok")
    /\ UNCHANGED <<oauthStates, accountIds, providerVars, callbacks, raced, oauthFaults>>

(* A caller that is done may come again.                                    *)
UserAgain(u) ==
    /\ UserAt(u) \in {"ok", "failed"}
    /\ UserGoes(u, "idle")
    /\ UNCHANGED <<oauthStates, accountIds, tokens, providerVars, callbacks, raced, oauthFaults>>

(* A call fails, and with it the callback or the refresh.  What the provider *)
(* granted before is not stored, or not all of it.                          *)
OAuthCallFails ==
    /\ OAuthFault
    /\ \/ \E b \in Callbacks :
             /\ CallbackAt(b) \in {"exchange", "delete", "find", "create", "access", "refresh"}
             /\ raced' = [raced EXCEPT !.tokens = @ \/ CallbackAt(b) # "exchange"]
             /\ CallbackGoes(b, "failed")
             /\ UNCHANGED users
       \/ \E u \in TokenUsers :
             /\ UserAt(u) \in {"validate", "read", "ask", "access", "refresh"}
             /\ raced' = [raced EXCEPT !.tokens = @ \/ UserAt(u) \in {"access", "refresh"}]
             /\ UserGoes(u, "failed")
             /\ UNCHANGED callbacks
    /\ UNCHANGED <<oauthStates, accountIds, tokens, providerVars>>

OAuthNext ==
    \/ \E f \in Flows : InitiateOAuth(f) \/ StateExpires(f)
    \/ \E b \in Callbacks :
          \/ GetOAuthState(b) \/ ExchangeCode(b) \/ DeleteOAuthState(b) \/ FindAccount(b)
          \/ CreateAccount(b) \/ CallbackStores(b)
    \/ \E u \in TokenUsers :
          \/ GetLatestToken(u) \/ ValidateCredentials(u) \/ GetRefreshToken(u)
          \/ RefreshAccessToken(u) \/ UserStores(u) \/ UserAgain(u)
    \/ OAuthCallFails

OAuthSpec == OAuthInit /\ [][OAuthNext]_oauthVars

-----------------------------------------------------------------------------
(* Type correctness.                                                        *)
OAuthTypeOK ==
    /\ oauthStates \in [Flows -> {"none", "stored", "expired", "deleted"}]
    /\ accountIds \in 0..Cardinality(Callbacks)
    /\ grants \in 0..MaxGrants
    /\ codes \subseteq Flows
    /\ \A n \in DOMAIN tokens : /\ tokens[n].account \in 1..accountIds
                                /\ tokens[n].type \in {"access", "refresh"}
                                /\ tokens[n].grant \in 1..grants
    /\ oauthFaults \in 0..MaxOAuthFaults

(* A workspace has one account of a type, unless two callbacks were between  *)
(* reading their state and creating the account at once: the state is no     *)
(* lock, it is deleted after the exchange (oauth-manager.ts:122-138,         *)
(* routes/connectors.ts:68-85).                                             *)
OneAccountInTurn == ~raced.accounts => accountIds <= 1

(* What is stored last is what the provider honours, so that an account can  *)
(* go on without being connected again: unless two grants were under way at  *)
(* once, or one was lost on the way (oauth-manager.ts:152-223).             *)
StoredTokensAreCurrent ==
    ~raced.tokens /\ Granting = {} => \A a \in 1..accountIds :
       LatestToken(a, "access") = grants /\ LatestToken(a, "refresh") = honoured

(* One account, and the tokens the provider honours: what interleavings that *)
(* overlap may break, and nothing else does.                                *)
TokensAreTheAccounts == OneAccountInTurn /\ StoredTokensAreCurrent
=============================================================================
