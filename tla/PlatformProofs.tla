--------------------------- MODULE PlatformProofs ---------------------------
(***************************************************************************)
(* What is proved of the components at the platform's edge: the tokens of   *)
(* ConnectorOAuth, the syncs of ConnectorSync, the rate limits of Gateway,   *)
(* and the lists of ReactHooks; and of the parts of MCPlatform together.     *)
(***************************************************************************)
EXTENDS MCPlatform, SharedProofs, SequenceTheorems
-----------------------------------------------------------------------------
(***************************************************************************)
(* ConnectorOAuth.  What is true of the stored tokens while one grant is    *)
(* under way, by where its callback or its caller stands.                   *)
(***************************************************************************)
TokenRows == [account : Nat \ {0}, type : {"access", "refresh"}, grant : Nat]
CallbackRecords ==
    [pc : {"idle", "exchange", "delete", "find", "create", "access", "refresh", "ok", "failed"},
     account : Nat, grant : Nat, refresh : BOOLEAN]
UserRecords ==
    [pc : {"idle", "validate", "read", "ask", "access", "refresh", "ok", "failed"},
     account : Nat, token : Nat, grant : Nat, refresh : BOOLEAN]

OAuthTypes ==
    /\ oauthStates \in [Flows -> {"none", "stored", "expired", "deleted"}]
    /\ accountIds \in Nat /\ grants \in Nat /\ honoured \in Nat
    /\ tokens \in Seq(TokenRows)
    /\ callbacks \in [Callbacks -> CallbackRecords]
    /\ users \in [TokenUsers -> UserRecords]
    /\ raced \in [accounts : BOOLEAN, tokens : BOOLEAN]

(* Rows and grants are of accounts that exist.                               *)
OfAccounts ==
    /\ \A n \in DOMAIN tokens : tokens[n].account \in 1..accountIds
    /\ \A b \in Callbacks : CallbackAt(b) \in {"access", "refresh"} => callbacks[b].account \in 1..accountIds
    /\ \A u \in TokenUsers : UserAt(u) \in {"validate", "read", "ask", "access", "refresh"} =>
                                users[u].account \in 1..accountIds

OneConnecting ==
    /\ raced.accounts => raced.tokens
    /\ ~raced.accounts => /\ accountIds <= 1
                          /\ \A b, c \in Connecting : b = c
                          /\ \A b \in Connecting : CallbackAt(b) = "create" => accountIds = 0

Current ==
    /\ accountIds = 0 => grants = 0 /\ honoured = 0
    /\ \A a \in 1..accountIds : LatestToken(a, "access") = grants /\ LatestToken(a, "refresh") = honoured

(* The grant of x is the last, and nothing of it is stored.                  *)
Holding(x) ==
    /\ x.grant = grants
    /\ IF x.refresh THEN honoured = grants
       ELSE /\ accountIds = 0 => honoured = 0
            /\ \A a \in 1..accountIds : LatestToken(a, "refresh") = honoured

(* Its access token is stored, its refresh token is not.                     *)
HalfStored(x) ==
    /\ x.grant = grants /\ honoured = grants
    /\ \A a \in 1..accountIds : LatestToken(a, "access") = grants

Stands(x) ==
    CASE x.pc \in {"exchange", "ask"} -> Current
      [] x.pc = "refresh" -> HalfStored(x)
      [] OTHER -> Holding(x)

GrantingCallbacks ==
    {b \in Callbacks : CallbackAt(b) \in {"exchange", "delete", "find", "create", "access", "refresh"}}
GrantingUsers == {u \in TokenUsers : UserAt(u) \in {"ask", "access", "refresh"}}

OneGranting ==
    ~raced.tokens =>
        /\ GrantingCallbacks = {} /\ GrantingUsers = {} => Current
        /\ \A b \in GrantingCallbacks :
              /\ GrantingCallbacks = {b} /\ GrantingUsers = {}
              /\ \A x \in {callbacks[b]} : Stands(x)
        /\ \A u \in GrantingUsers :
              /\ GrantingUsers = {u} /\ GrantingCallbacks = {}
              /\ \A x \in {users[u]} : Stands(x)

OAuthInv == OAuthTypes /\ OfAccounts /\ OneConnecting /\ OneGranting

(* Appending a row makes it the latest of its account and type.              *)
LEMMA LatestAfterAppend ==
    ASSUME tokens \in Seq(TokenRows), NEW row \in TokenRows, tokens' = Append(tokens, row),
           NEW a, NEW type
    PROVE  LatestToken(a, type)' = IF row.account = a /\ row.type = type THEN row.grant
                                   ELSE LatestToken(a, type)
<1> DEFINE n == Len(tokens)
           stored == {i \in DOMAIN tokens : tokens[i].account = a /\ tokens[i].type = type}
           rowsNext == {i \in DOMAIN tokens' : tokens'[i].account = a /\ tokens'[i].type = type}
<1>1. /\ n \in Nat /\ DOMAIN tokens = 1..n /\ DOMAIN tokens' = 1..(n + 1)
      /\ tokens'[n + 1] = row /\ \A i \in 1..n : tokens'[i] = tokens[i]
  BY AppendProperties, LenProperties
<1>2. /\ LatestToken(a, type) = IF stored = {} THEN 0 ELSE tokens[Max(stored)].grant
      /\ LatestToken(a, type)' = IF rowsNext = {} THEN 0 ELSE tokens'[Max(rowsNext)].grant
  BY DEF LatestToken
<1>3. CASE row.account = a /\ row.type = type
  <2>1. n + 1 \in rowsNext /\ rowsNext \subseteq 1..(n + 1)
    BY <1>1, <1>3
  <2>2. Max(rowsNext) \in rowsNext /\ Max(rowsNext) >= n + 1
    <3> HIDE DEF rowsNext
    <3>1. n + 1 \in Nat
      BY <1>1
    <3> QED BY <2>1, <3>1, MaxOfIndices
  <2>3. Max(rowsNext) = n + 1
    <3> DEFINE m == Max(rowsNext)
    <3>1. m \in 1..(n + 1) /\ m >= n + 1
      BY <2>1, <2>2
    <3> HIDE DEF m
    <3>2. m = n + 1
      BY <1>1, <3>1
    <3> QED BY <3>2 DEF m
  <2> HIDE DEF rowsNext, stored, n
  <2> QED BY <1>1, <1>2, <1>3, <2>1, <2>3
<1>4. CASE ~(row.account = a /\ row.type = type)
  <2>1. rowsNext = stored /\ stored \subseteq 1..n
    <3>1. \A i \in 1..(n + 1) : i \in 1..n \/ i = n + 1
      BY <1>1
    <3>2. 1..n \subseteq 1..(n + 1)
      BY <1>1
    <3> QED BY <1>1, <1>4, <3>1, <3>2
  <2>2. CASE stored = {}
    BY <1>2, <1>4, <2>1, <2>2
  <2>3. CASE stored # {}
    <3> HIDE DEF stored, rowsNext, n
    <3>1. Max(stored) \in 1..n
      BY <1>1, <2>1, <2>3, MaxOfIndices
    <3> QED BY <1>1, <1>2, <1>4, <2>1, <2>3, <3>1
  <2> QED BY <2>2, <2>3
<1> QED BY <1>3, <1>4

(* A new account has no tokens.                                              *)
LEMMA NoTokensYet ==
    ASSUME OfAccounts, NEW a, a \notin 1..accountIds, NEW type
    PROVE  LatestToken(a, type) = 0
BY DEF OfAccounts, LatestToken

(* The latest token of an account is a grant, or 0.                          *)
LEMMA LatestIsNat ==
    ASSUME OAuthTypes, NEW a, NEW type
    PROVE  LatestToken(a, type) \in Nat
<1> USE DEF OAuthTypes
<1> DEFINE stored == {i \in DOMAIN tokens : tokens[i].account = a /\ tokens[i].type = type}
<1>1. LatestToken(a, type) = IF stored = {} THEN 0 ELSE tokens[Max(stored)].grant
  BY DEF LatestToken
<1>2. CASE stored # {}
  <2>1. Len(tokens) \in Nat /\ stored \subseteq 1..Len(tokens) /\ DOMAIN tokens = 1..Len(tokens)
    BY LenProperties
  <2> HIDE DEF stored
  <2>2. Max(stored) \in DOMAIN tokens
    BY <1>2, <2>1, MaxOfIndices
  <2>3. tokens[Max(stored)] \in TokenRows
    BY <2>2, ElementOfSeq, <2>1
  <2> QED BY <1>1, <1>2, <2>3 DEF TokenRows
<1> QED BY <1>1, <1>2

(* A stored row keeps the stored typed, and of accounts that exist.            *)
LEMMA RowStored ==
    ASSUME OAuthTypes, OfAccounts, NEW row \in TokenRows, row.account \in 1..accountIds,
           tokens' = Append(tokens, row), UNCHANGED accountIds
    PROVE  tokens' \in Seq(TokenRows) /\ \A n \in DOMAIN tokens' : tokens'[n].account \in 1..accountIds'
<1> USE DEF OAuthTypes
<1>1. /\ tokens' \in Seq(TokenRows) /\ DOMAIN tokens' = 1..(Len(tokens) + 1) /\ Len(tokens) \in Nat
      /\ DOMAIN tokens = 1..Len(tokens)
      /\ tokens'[Len(tokens) + 1] = row /\ \A i \in 1..Len(tokens) : tokens'[i] = tokens[i]
  BY AppendProperties, LenProperties
<1>2. ASSUME NEW n \in 1..(Len(tokens) + 1) PROVE tokens'[n].account \in 1..accountIds
  <2>1. n \in 1..Len(tokens) \/ n = Len(tokens) + 1
    BY <1>1
  <2> QED BY <1>1, <2>1 DEF OfAccounts
<1> QED BY <1>1, <1>2

-----------------------------------------------------------------------------
(* One callback changes, to one that is at pc; or one caller does.          *)
CallbackBecomes(b, pc) ==
    /\ callbacks' \in [Callbacks -> CallbackRecords]
    /\ \A c \in Callbacks \ {b} : callbacks'[c] = callbacks[c]
    /\ callbacks'[b].pc = pc /\ UNCHANGED users
UserBecomes(u, pc) ==
    /\ users' \in [TokenUsers -> UserRecords]
    /\ \A v \in TokenUsers \ {u} : users'[v] = users[v]
    /\ users'[u].pc = pc /\ UNCHANGED callbacks

GrantingPcs == {"exchange", "delete", "find", "create", "access", "refresh", "ask"}

(* A grant is under way when nothing else is, goes on, or ends.              *)
GrantGoesOn(x, y) ==
    ~raced'.tokens =>
       /\ ~raced.tokens
       /\ IF x.pc \in GrantingPcs
          THEN Stands(x) => IF y.pc \in GrantingPcs THEN Stands(y)' ELSE Current'
          ELSE IF y.pc \in GrantingPcs
               THEN Granting = {} /\ (Current => Stands(y)')
               ELSE UNCHANGED <<accountIds, tokens, grants, honoured>>

(* While one grant is under way, a step of its callback leaves one.          *)
LEMMA CallbackKeepsOneGranting ==
    ASSUME OAuthTypes, OneGranting, NEW b \in Callbacks, NEW pc, CallbackBecomes(b, pc),
           \A x \in {callbacks[b]} : \A y \in {callbacks'[b]} : GrantGoesOn(x, y)
    PROVE  OneGranting'
<1> SUFFICES ASSUME ~raced'.tokens PROVE OneGranting'
  BY DEF OneGranting
<1>b. \A c \in Callbacks : callbacks[c] \in CallbackRecords /\ callbacks'[c] \in CallbackRecords
  BY DEF OAuthTypes, CallbackBecomes
<1>1. /\ \A c \in Callbacks : c \in GrantingCallbacks <=> callbacks[c].pc \in GrantingPcs
      /\ \A c \in Callbacks : c \in GrantingCallbacks' <=> callbacks'[c].pc \in GrantingPcs
  BY <1>b DEF GrantingCallbacks, GrantingPcs, CallbackAt, CallbackRecords
<1>2. GrantingCallbacks \subseteq Callbacks /\ GrantingCallbacks' \subseteq Callbacks
  BY DEF GrantingCallbacks
<1>3. \A c \in Callbacks \ {b} : c \in GrantingCallbacks' <=> c \in GrantingCallbacks
  BY <1>1 DEF CallbackBecomes
<1>4. GrantingUsers' = GrantingUsers /\ Granting = GrantingCallbacks \cup GrantingUsers
  BY DEF GrantingUsers, UserAt, CallbackBecomes, Granting, GrantingCallbacks
<1>5. ~raced.tokens
  BY DEF GrantGoesOn
<1>6. CASE b \in GrantingCallbacks
  <2>1. GrantingCallbacks = {b} /\ GrantingUsers = {} /\ \A x \in {callbacks[b]} : Stands(x)
    BY <1>5, <1>6 DEF OneGranting
  <2>2. IF b \in GrantingCallbacks' THEN \A y \in {callbacks'[b]} : Stands(y)' ELSE Current'
    BY <1>1, <1>6, <2>1 DEF GrantGoesOn
  <2>3. GrantingCallbacks' = IF b \in GrantingCallbacks' THEN {b} ELSE {}
    BY <1>2, <1>3, <2>1
  <2> QED BY <1>4, <2>1, <2>2, <2>3 DEF OneGranting
<1>7. CASE b \notin GrantingCallbacks /\ b \in GrantingCallbacks'
  <2>1. Granting = {} /\ (Current => \A y \in {callbacks'[b]} : Stands(y)')
    BY <1>1, <1>7 DEF GrantGoesOn
  <2>2. Current
    BY <1>4, <1>5, <2>1 DEF OneGranting
  <2>3. GrantingCallbacks' = {b} /\ GrantingUsers' = {}
    BY <1>2, <1>3, <1>4, <1>7, <2>1
  <2> QED BY <2>1, <2>2, <2>3 DEF OneGranting
<1>8. CASE b \notin GrantingCallbacks /\ b \notin GrantingCallbacks'
  <2>1. UNCHANGED <<accountIds, tokens, grants, honoured>>
    BY <1>1, <1>8 DEF GrantGoesOn
  <2>2. GrantingCallbacks' = GrantingCallbacks
    BY <1>2, <1>3, <1>8
  <2>3. Current' <=> Current
    BY <2>1 DEF Current, LatestToken
  <2>4. \A x : Stands(x)' <=> Stands(x)
    BY <2>1, <2>3 DEF Stands, HalfStored, Holding, LatestToken
  <2>5. \A c \in GrantingCallbacks : callbacks'[c] = callbacks[c]
    BY <1>2, <1>8 DEF CallbackBecomes
  <2>6. users' = users
    BY DEF CallbackBecomes
  <2> QED BY <1>4, <1>5, <2>2, <2>3, <2>4, <2>5, <2>6 DEF OneGranting
<1> QED BY <1>6, <1>7, <1>8

(* So does a step of its caller, whose grant is a refresh.                   *)
LEMMA UserKeepsOneGranting ==
    ASSUME OAuthTypes, OneGranting, NEW u \in TokenUsers, NEW pc, UserBecomes(u, pc),
           \A x \in {users[u]} : \A y \in {users'[u]} : GrantGoesOn(x, y)
    PROVE  OneGranting'
<1> SUFFICES ASSUME ~raced'.tokens PROVE OneGranting'
  BY DEF OneGranting
<1>b. \A v \in TokenUsers : users[v] \in UserRecords /\ users'[v] \in UserRecords
  BY DEF OAuthTypes, UserBecomes
<1>1. /\ \A v \in TokenUsers : v \in GrantingUsers <=> users[v].pc \in GrantingPcs
      /\ \A v \in TokenUsers : v \in GrantingUsers' <=> users'[v].pc \in GrantingPcs
  BY <1>b DEF GrantingUsers, GrantingPcs, UserAt, UserRecords
<1>2. GrantingUsers \subseteq TokenUsers /\ GrantingUsers' \subseteq TokenUsers
  BY DEF GrantingUsers
<1>3. \A v \in TokenUsers \ {u} : v \in GrantingUsers' <=> v \in GrantingUsers
  BY <1>1 DEF UserBecomes
<1>4. GrantingCallbacks' = GrantingCallbacks /\ Granting = GrantingCallbacks \cup GrantingUsers
  BY DEF GrantingUsers, CallbackAt, UserBecomes, Granting, GrantingCallbacks
<1>5. ~raced.tokens
  BY DEF GrantGoesOn
<1>6. CASE u \in GrantingUsers
  <2>1. GrantingUsers = {u} /\ GrantingCallbacks = {} /\ \A x \in {users[u]} : Stands(x)
    BY <1>5, <1>6 DEF OneGranting
  <2>2. IF u \in GrantingUsers' THEN \A y \in {users'[u]} : Stands(y)' ELSE Current'
    BY <1>1, <1>6, <2>1 DEF GrantGoesOn
  <2>3. GrantingUsers' = IF u \in GrantingUsers' THEN {u} ELSE {}
    BY <1>2, <1>3, <2>1
  <2> QED BY <1>4, <2>1, <2>2, <2>3 DEF OneGranting
<1>7. CASE u \notin GrantingUsers /\ u \in GrantingUsers'
  <2>1. Granting = {} /\ (Current => \A y \in {users'[u]} : Stands(y)')
    BY <1>1, <1>7 DEF GrantGoesOn
  <2>2. Current
    BY <1>4, <1>5, <2>1 DEF OneGranting
  <2>3. GrantingUsers' = {u} /\ GrantingCallbacks' = {}
    BY <1>2, <1>3, <1>4, <1>7, <2>1
  <2> QED BY <2>1, <2>2, <2>3 DEF OneGranting
<1>8. CASE u \notin GrantingUsers /\ u \notin GrantingUsers'
  <2>1. UNCHANGED <<accountIds, tokens, grants, honoured>>
    BY <1>1, <1>8 DEF GrantGoesOn
  <2>2. GrantingUsers' = GrantingUsers
    BY <1>2, <1>3, <1>8
  <2>3. Current' <=> Current
    BY <2>1 DEF Current, LatestToken
  <2>4. \A x : Stands(x)' <=> Stands(x)
    BY <2>1, <2>3 DEF Stands, HalfStored, Holding, LatestToken
  <2>5. \A v \in GrantingUsers : users'[v] = users[v]
    BY <1>2, <1>8 DEF UserBecomes
  <2>6. callbacks' = callbacks
    BY DEF UserBecomes
  <2> QED BY <1>4, <1>5, <2>2, <2>3, <2>4, <2>5, <2>6 DEF OneGranting
<1> QED BY <1>6, <1>7, <1>8

(* Where one callback or one caller changes, and no row.                     *)
LEMMA CallbackOfAccounts ==
    ASSUME OAuthTypes, OfAccounts, NEW b \in Callbacks, NEW pc, CallbackBecomes(b, pc),
           UNCHANGED tokens, accountIds' \in Nat, accountIds' >= accountIds,
           pc \in {"access", "refresh"} => callbacks'[b].account \in 1..accountIds'
    PROVE  OfAccounts'
<1>1. 1..accountIds \subseteq 1..accountIds'
  BY DEF OAuthTypes
<1>2. callbacks'[b].pc = pc /\ users' = users /\ tokens' = tokens
      /\ \A c \in Callbacks \ {b} : callbacks'[c] = callbacks[c]
  BY DEF CallbackBecomes
<1> QED BY <1>1, <1>2 DEF OfAccounts, CallbackAt, UserAt

(* The same where one caller changes.                                       *)
LEMMA UserOfAccounts ==
    ASSUME OAuthTypes, OfAccounts, NEW u \in TokenUsers, NEW pc, UserBecomes(u, pc),
           UNCHANGED <<tokens, accountIds>>,
           pc \in {"validate", "read", "ask", "access", "refresh"} => users'[u].account \in 1..accountIds
    PROVE  OfAccounts'
<1>2. users'[u].pc = pc /\ callbacks' = callbacks
      /\ \A v \in TokenUsers \ {u} : users'[v] = users[v]
  BY DEF UserBecomes
<1> QED BY <1>2 DEF OfAccounts, CallbackAt, UserAt

ConnectingPcs == {"exchange", "delete", "find", "create"}

(* No caller, and no callback that goes on or leaves, breaks OneConnecting.  *)
LEMMA ConnectingGoesOn ==
    ASSUME OAuthTypes, OneConnecting, NEW b \in Callbacks, NEW pc, CallbackBecomes(b, pc),
           raced'.accounts = raced.accounts, raced.tokens => raced'.tokens, UNCHANGED accountIds,
           pc \in ConnectingPcs => callbacks[b].pc \in ConnectingPcs,
           pc = "create" => accountIds = 0
    PROVE  OneConnecting'
<1>1. /\ callbacks'[b].pc = pc /\ Connecting \subseteq Callbacks /\ Connecting' \subseteq Callbacks
      /\ \A c \in Callbacks \ {b} : callbacks'[c] = callbacks[c]
  BY DEF CallbackBecomes, Connecting
<1>2. Connecting' \subseteq Connecting
  BY <1>1 DEF Connecting, CallbackAt, ConnectingPcs
<1>3. \A c \in Connecting' : CallbackAt(c)' = "create" => CallbackAt(c) = "create" \/ accountIds = 0
  BY <1>1 DEF CallbackAt
<1> QED BY <1>1, <1>2, <1>3 DEF OneConnecting, OAuthTypes

(* A caller has no account to connect.                                      *)
LEMMA UsersDoNotConnect ==
    ASSUME OAuthTypes, OneConnecting, UNCHANGED <<callbacks, accountIds>>, raced'.accounts = raced.accounts,
           raced.tokens => raced'.tokens
    PROVE  OneConnecting'
BY DEF OneConnecting, Connecting, CallbackAt

(* The access token of a grant is stored, then its refresh token if it has   *)
(* one.                                                                      *)
LEMMA AccessStored ==
    ASSUME OAuthTypes, OfAccounts, accountIds <= 1, NEW x, NEW y, y.grant = x.grant,
           TokenRow(x, "access") \in TokenRows, x.account \in 1..accountIds,
           tokens' = Append(tokens, TokenRow(x, "access")),
           UNCHANGED <<accountIds, grants, honoured>>, Holding(x)
    PROVE  IF x.refresh THEN HalfStored(y)' ELSE Current'
<1> DEFINE row == TokenRow(x, "access")
<1>1. row.account = x.account /\ row.type = "access" /\ row.grant = x.grant
  BY DEF TokenRow
<1>2. \A a, type : LatestToken(a, type)' = IF row.account = a /\ row.type = type THEN row.grant
                                           ELSE LatestToken(a, type)
  <2> HIDE DEF row
  <2>1. row \in TokenRows /\ tokens' = Append(tokens, row)
    BY DEF row
  <2> QED BY <2>1, LatestAfterAppend DEF OAuthTypes
<1>3. \A a \in 1..accountIds : a = x.account
  BY DEF OAuthTypes
<1>4. \A a \in 1..accountIds : LatestToken(a, "access")' = grants
  BY <1>1, <1>2, <1>3 DEF Holding
<1>5. \A a \in 1..accountIds : LatestToken(a, "refresh")' = LatestToken(a, "refresh")
  BY <1>1, <1>2
<1>6. accountIds # 0
  BY DEF OAuthTypes
<1> QED BY <1>4, <1>5, <1>6 DEF Holding, HalfStored, Current

(* The refresh token is what completes a grant that has one.                *)
LEMMA RefreshStored ==
    ASSUME OAuthTypes, OfAccounts, accountIds <= 1, NEW x,
           TokenRow(x, "refresh") \in TokenRows, x.account \in 1..accountIds,
           tokens' = Append(tokens, TokenRow(x, "refresh")),
           UNCHANGED <<accountIds, grants, honoured>>, HalfStored(x)
    PROVE  Current'
<1> DEFINE row == TokenRow(x, "refresh")
<1>1. row.account = x.account /\ row.type = "refresh" /\ row.grant = x.grant
  BY DEF TokenRow
<1>2. \A a, type : LatestToken(a, type)' = IF row.account = a /\ row.type = type THEN row.grant
                                           ELSE LatestToken(a, type)
  <2> HIDE DEF row
  <2>1. row \in TokenRows /\ tokens' = Append(tokens, row)
    BY DEF row
  <2> QED BY <2>1, LatestAfterAppend DEF OAuthTypes
<1>3. \A a \in 1..accountIds : a = x.account
  BY DEF OAuthTypes
<1>4. \A a \in 1..accountIds : LatestToken(a, "refresh")' = honoured
  BY <1>1, <1>2, <1>3 DEF HalfStored
<1>5. \A a \in 1..accountIds : LatestToken(a, "access")' = LatestToken(a, "access")
  BY <1>1, <1>2
<1>6. accountIds # 0
  BY DEF OAuthTypes
<1> QED BY <1>4, <1>5, <1>6 DEF HalfStored, Current

(* What stays where the stored and the numbers do.                             *)
LEMMA StandsStill ==
    ASSUME UNCHANGED <<accountIds, tokens, grants, honoured>>, NEW x, NEW y,
           y.grant = x.grant, y.refresh = x.refresh
    PROVE  /\ Current' <=> Current
           /\ Holding(x) => Holding(y)'
<1>1. \A a, type : LatestToken(a, type)' = LatestToken(a, type)
  BY DEF LatestToken
<1> QED BY <1>1 DEF Current, Holding

-----------------------------------------------------------------------------
(* A step that only touches what is not in the invariant.                    *)
LEMMA NothingHappens ==
    ASSUME OAuthInv, UNCHANGED <<accountIds, tokens, grants, honoured, callbacks, users, raced>>,
           oauthStates' \in [Flows -> {"none", "stored", "expired", "deleted"}]
    PROVE  OAuthInv'
<1> USE DEF OAuthInv
<1>1. OAuthTypes' /\ OfAccounts'
  BY DEF OAuthTypes, OfAccounts, CallbackAt, UserAt
<1>2. OneConnecting'
  BY DEF OneConnecting, Connecting, CallbackAt
<1>3. OneGranting'
  <2>1. \A a, type : LatestToken(a, type)' = LatestToken(a, type)
    BY DEF LatestToken
  <2>2. Current' <=> Current
    BY <2>1 DEF Current
  <2>3. \A x : Stands(x)' <=> Stands(x)
    BY <2>1, <2>2 DEF Stands, HalfStored, Holding
  <2> QED BY <2>2, <2>3 DEF OneGranting, GrantingCallbacks, GrantingUsers, CallbackAt, UserAt
<1> QED BY <1>1, <1>2, <1>3

(* Every action keeps the invariant.                                         *)
LEMMA OAuthStep ==
    ASSUME OAuthInv, [OAuthNext]_oauthVars
    PROVE  OAuthInv'
<1> USE DEF OAuthInv
<1>b. \A b \in Callbacks : callbacks[b] \in CallbackRecords
  BY DEF OAuthTypes
<1>u. \A u \in TokenUsers : users[u] \in UserRecords
  BY DEF OAuthTypes
<1>n. accountIds \in Nat /\ grants \in Nat /\ honoured \in Nat
  BY DEF OAuthTypes
<1>1. ASSUME NEW f \in Flows, InitiateOAuth(f) \/ StateExpires(f) PROVE OAuthInv'
  <2>1. UNCHANGED <<accountIds, tokens, grants, honoured, callbacks, users, raced>>
        /\ oauthStates' \in [Flows -> {"none", "stored", "expired", "deleted"}]
    BY <1>1 DEF InitiateOAuth, StateExpires, providerVars, OAuthTypes
  <2> QED BY <2>1, NothingHappens
<1>2. ASSUME NEW b \in Callbacks, GetOAuthState(b) PROVE OAuthInv'
  <2> DEFINE pc == IF oauthStates[FlowOf[b]] = "stored" THEN "exchange" ELSE "failed"
  <2>1. /\ callbacks[b].pc = "idle" /\ CallbackBecomes(b, pc)
        /\ UNCHANGED <<accountIds, tokens, grants, honoured>>
        /\ raced' = IF pc # "exchange" THEN raced
                    ELSE [accounts |-> raced.accounts \/ Connecting # {}, tokens |-> raced.tokens \/ Granting # {}]
    BY <1>2, <1>b DEF GetOAuthState, CallbackBecomes, CallbackGoes, CallbackAt, providerVars, CallbackRecords, OAuthTypes
  <2>2. oauthStates' \in [Flows -> {"none", "stored", "expired", "deleted"}]
    BY <1>2 DEF GetOAuthState, OAuthTypes
  <2>p. pc \in {"exchange", "failed"}
    OBVIOUS
  <2> HIDE DEF pc
  <2>r. /\ raced' \in [accounts : BOOLEAN, tokens : BOOLEAN]
        /\ raced.accounts => raced'.accounts
        /\ raced.tokens => raced'.tokens
        /\ pc = "exchange" /\ ~raced'.accounts => Connecting = {}
        /\ pc = "exchange" /\ ~raced'.tokens => Granting = {}
        /\ pc # "exchange" => raced' = raced
        /\ pc = "exchange" => (raced'.accounts <=> raced.accounts \/ Connecting # {})
        /\ pc = "exchange" => (raced'.tokens <=> raced.tokens \/ Granting # {})
    BY <2>1 DEF OAuthTypes
  <2>3. OAuthTypes'
    BY <1>n, <2>1, <2>2, <2>r DEF OAuthTypes, CallbackBecomes
  <2>4. OfAccounts'
    BY <1>n, <2>1, <2>p, CallbackOfAccounts
  <2>5. OneConnecting'
    <3>1. CASE pc = "failed"
      <4>1. pc \notin ConnectingPcs /\ raced' = raced /\ pc # "create"
        BY <3>1, <2>r DEF ConnectingPcs
      <4> QED BY <2>1, <4>1, ConnectingGoesOn
    <3>2. CASE pc = "exchange"
      <4>1. Connecting \subseteq Granting
        BY DEF Connecting, Granting
      <4>2. raced'.accounts => raced'.tokens
        BY <2>r, <3>2, <4>1 DEF OneConnecting
      <4>3. ~raced'.accounts => Connecting' \subseteq {b}
        BY <2>1, <2>r, <3>2 DEF Connecting, CallbackBecomes, CallbackAt
      <4>4. CallbackAt(b)' = "exchange"
        BY <2>1, <3>2 DEF CallbackBecomes, CallbackAt
      <4> QED BY <2>1, <2>r, <4>2, <4>3, <4>4 DEF OneConnecting
    <3> QED BY <2>p, <3>1, <3>2
  <2>6. OneGranting'
    <3>1. ASSUME NEW x \in {callbacks[b]}, NEW y \in {callbacks'[b]} PROVE GrantGoesOn(x, y)
      <4>1. x.pc = "idle" /\ y.pc = pc
        BY <2>1 DEF CallbackBecomes
      <4>2. Current' <=> Current
        BY <2>1, StandsStill
      <4> QED BY <2>1, <2>p, <2>r, <4>1, <4>2 DEF GrantGoesOn, GrantingPcs, Stands
    <3> QED BY <2>1, <3>1, CallbackKeepsOneGranting
  <2> QED BY <2>3, <2>4, <2>5, <2>6
<1>3. ASSUME NEW b \in Callbacks, ExchangeCode(b) PROVE OAuthInv'
  <2>1. /\ callbacks[b].pc = "exchange" /\ UNCHANGED <<oauthStates, accountIds, tokens, raced>>
    BY <1>3 DEF ExchangeCode, CallbackAt
  <2>2. \/ /\ CallbackBecomes(b, "delete") /\ grants' = grants + 1 /\ callbacks'[b].grant = grants + 1
           /\ honoured' = IF callbacks'[b].refresh THEN grants + 1 ELSE honoured
        \/ CallbackBecomes(b, "failed") /\ UNCHANGED <<grants, honoured>>
    <3>1. ASSUME NEW r \in BOOLEAN,
                 callbacks' = [callbacks EXCEPT ![b].pc = "delete", ![b].grant = grants + 1, ![b].refresh = r],
                 UNCHANGED users
          PROVE  /\ CallbackBecomes(b, "delete") /\ callbacks'[b].grant = grants + 1
                 /\ callbacks'[b].refresh = r
      <4> DEFINE k == grants + 1
      <4>1. k \in Nat /\ callbacks' = [callbacks EXCEPT ![b].pc = "delete", ![b].grant = k, ![b].refresh = r]
        BY <3>1, <1>n
      <4> HIDE DEF k
      <4>2. callbacks \in [Callbacks -> CallbackRecords]
        BY DEF OAuthTypes
      <4>3. /\ callbacks' \in [Callbacks -> CallbackRecords] /\ callbacks'[b].pc = "delete"
            /\ \A c \in Callbacks \ {b} : callbacks'[c] = callbacks[c]
            /\ callbacks'[b].grant = k /\ callbacks'[b].refresh = r
        <5>1. CASE r = TRUE
          BY <5>1, <1>b, <4>1, <4>2 DEF CallbackRecords
        <5>2. CASE r = FALSE
          BY <5>2, <1>b, <4>1, <4>2 DEF CallbackRecords
        <5> QED BY <3>1, <5>1, <5>2
      <4> QED BY <3>1, <4>3 DEF CallbackBecomes, k
    <3>2. ASSUME CallbackGoes(b, "failed"), UNCHANGED users PROVE CallbackBecomes(b, "failed")
      BY <3>2, <1>b DEF CallbackBecomes, CallbackRecords, OAuthTypes, CallbackGoes
    <3>3. CASE \E r \in BOOLEAN :
                 /\ callbacks' = [callbacks EXCEPT ![b].pc = "delete", ![b].grant = grants + 1, ![b].refresh = r]
                 /\ honoured' = IF r THEN grants + 1 ELSE honoured
                 /\ grants' = grants + 1
      BY <1>3, <3>1, <3>3 DEF ExchangeCode
    <3>4. CASE CallbackGoes(b, "failed") /\ UNCHANGED providerVars
      BY <1>3, <3>2, <3>4 DEF ExchangeCode, providerVars
    <3> QED BY <1>3, <3>3, <3>4 DEF ExchangeCode
  <2> DEFINE pc == callbacks'[b].pc
  <2>3. CallbackBecomes(b, pc) /\ pc \in {"delete", "failed"} /\ grants' \in Nat /\ honoured' \in Nat
    BY <1>n, <2>2 DEF CallbackBecomes
  <2>4. OAuthTypes'
    BY <1>n, <2>1, <2>3 DEF OAuthTypes, CallbackBecomes
  <2>5. OfAccounts'
    <3> HIDE DEF pc
    <3> QED BY <1>n, <2>1, <2>3, CallbackOfAccounts
  <2>6. OneConnecting'
    <3>1. callbacks[b].pc \in ConnectingPcs
      BY <2>1 DEF ConnectingPcs
    <3> HIDE DEF pc
    <3> QED BY <2>1, <2>3, <3>1, ConnectingGoesOn
  <2>7. OneGranting'
    <3>1. ASSUME NEW x \in {callbacks[b]}, NEW y \in {callbacks'[b]} PROVE GrantGoesOn(x, y)
      <4>1. x.pc = "exchange" /\ y.pc = pc /\ (Stands(x) <=> Current)
        BY <2>1 DEF Stands
      <4>2. \A a, type : LatestToken(a, type)' = LatestToken(a, type)
        BY <2>1 DEF LatestToken
      <4>3. CASE pc = "delete"
        <5>1. /\ grants' = grants + 1 /\ y.grant = grants + 1
              /\ honoured' = IF y.refresh THEN grants + 1 ELSE honoured
          BY <2>2, <4>3 DEF CallbackBecomes
        <5>2. Current => Holding(y)'
          BY <2>1, <4>2, <5>1 DEF Current, Holding
        <5>3. Stands(y)' <=> Holding(y)'
          BY <4>1, <4>3 DEF Stands
        <5> QED BY <2>1, <4>1, <4>3, <5>2, <5>3 DEF GrantGoesOn, GrantingPcs
      <4>4. CASE pc = "failed"
        <5>1. UNCHANGED <<grants, honoured>>
          BY <2>2, <4>4 DEF CallbackBecomes
        <5>2. Current' <=> Current
          BY <2>1, <4>2, <5>1 DEF Current
        <5> QED BY <2>1, <4>1, <4>4, <5>2 DEF GrantGoesOn, GrantingPcs
      <4> QED BY <2>3, <4>3, <4>4
    <3> QED BY <2>3, <3>1, CallbackKeepsOneGranting
  <2> QED BY <2>4, <2>5, <2>6, <2>7
<1>w. ASSUME NEW b \in Callbacks, NEW pc \in {"find", "create", "access"}, CallbackBecomes(b, pc),
             callbacks[b].pc \in {"delete", "find"}, pc = "create" => accountIds = 0,
             pc = "access" => callbacks'[b].account \in 1..accountIds,
             callbacks'[b].grant = callbacks[b].grant, callbacks'[b].refresh = callbacks[b].refresh,
             UNCHANGED <<accountIds, tokens, grants, honoured, raced>>,
             oauthStates' \in [Flows -> {"none", "stored", "expired", "deleted"}]
      PROVE  OAuthInv'
  <2>1. OAuthTypes'
    BY <1>n, <1>w DEF OAuthTypes, CallbackBecomes
  <2>2. OfAccounts'
    BY <1>n, <1>w, CallbackOfAccounts
  <2>3. OneConnecting'
    <3>1. callbacks[b].pc \in ConnectingPcs
      BY <1>w DEF ConnectingPcs
    <3> QED BY <1>w, <3>1, ConnectingGoesOn
  <2>4. OneGranting'
    <3>1. ASSUME NEW x \in {callbacks[b]}, NEW y \in {callbacks'[b]} PROVE GrantGoesOn(x, y)
      <4>1. x.pc \in {"delete", "find"} /\ y.pc = pc /\ y.grant = x.grant /\ y.refresh = x.refresh
        BY <1>w DEF CallbackBecomes
      <4>2. Holding(x) => Holding(y)'
        BY <1>w, <4>1, StandsStill
      <4>3. (Stands(x) <=> Holding(x)) /\ (Stands(y)' <=> Holding(y)')
        BY <1>w, <4>1 DEF Stands
      <4> QED BY <1>w, <4>1, <4>2, <4>3 DEF GrantGoesOn, GrantingPcs
    <3> QED BY <1>w, <3>1, CallbackKeepsOneGranting
  <2> QED BY <2>1, <2>2, <2>3, <2>4
<1>4. ASSUME NEW b \in Callbacks, DeleteOAuthState(b) PROVE OAuthInv'
  <2>1. /\ CallbackBecomes(b, "find") /\ callbacks[b].pc = "delete"
        /\ callbacks'[b].grant = callbacks[b].grant /\ callbacks'[b].refresh = callbacks[b].refresh
        /\ UNCHANGED <<accountIds, tokens, grants, honoured, raced>>
    BY <1>4, <1>b DEF DeleteOAuthState, CallbackBecomes, CallbackGoes, CallbackAt, providerVars, CallbackRecords, OAuthTypes
  <2>2. oauthStates' \in [Flows -> {"none", "stored", "expired", "deleted"}]
    BY <1>4 DEF DeleteOAuthState, OAuthTypes
  <2> QED BY <2>1, <2>2, <1>w
<1>5. ASSUME NEW b \in Callbacks, FindAccount(b) PROVE OAuthInv'
  <2>1. callbacks[b].pc = "find" /\ UNCHANGED <<accountIds, tokens, grants, honoured, raced, oauthStates, users>>
    BY <1>5 DEF FindAccount, CallbackAt, providerVars
  <2>o. oauthStates' \in [Flows -> {"none", "stored", "expired", "deleted"}]
    BY <2>1 DEF OAuthTypes
  <2>2. CASE accountIds = 0 /\ CallbackGoes(b, "create")
    <3>1. /\ CallbackBecomes(b, "create")
          /\ callbacks'[b].grant = callbacks[b].grant /\ callbacks'[b].refresh = callbacks[b].refresh
      BY <2>1, <2>2, <1>b DEF CallbackBecomes, CallbackGoes, CallbackRecords, OAuthTypes
    <3> QED BY <2>1, <2>o, <2>2, <3>1, <1>w
  <2>3. ASSUME NEW a \in 1..accountIds,
               callbacks' = [callbacks EXCEPT ![b].pc = "access", ![b].account = a]
        PROVE  OAuthInv'
    <3>1. /\ CallbackBecomes(b, "access") /\ callbacks'[b].account = a
          /\ callbacks'[b].grant = callbacks[b].grant /\ callbacks'[b].refresh = callbacks[b].refresh
      <4>1. a \in Nat /\ callbacks \in [Callbacks -> CallbackRecords]
        BY <1>n DEF OAuthTypes
      <4>2. /\ callbacks' \in [Callbacks -> CallbackRecords] /\ callbacks'[b].pc = "access"
            /\ (\A c \in Callbacks \ {b} : callbacks'[c] = callbacks[c]) /\ callbacks'[b].account = a
            /\ callbacks'[b].grant = callbacks[b].grant /\ callbacks'[b].refresh = callbacks[b].refresh
        BY <2>3, <1>b, <4>1 DEF CallbackRecords
      <4> QED BY <2>1, <4>2 DEF CallbackBecomes
    <3> QED BY <2>1, <2>o, <3>1, <1>w
  <2> QED BY <1>5, <2>2, <2>3 DEF FindAccount
<1>6. ASSUME NEW b \in Callbacks, CreateAccount(b) PROVE OAuthInv'
  <2>1. /\ callbacks[b].pc = "create" /\ accountIds' = accountIds + 1
        /\ UNCHANGED <<tokens, grants, honoured, raced, oauthStates, users>>
    BY <1>6 DEF CreateAccount, CallbackAt, providerVars
  <2>2. /\ CallbackBecomes(b, "access") /\ callbacks'[b].account = accountIds'
        /\ callbacks'[b].grant = callbacks[b].grant /\ callbacks'[b].refresh = callbacks[b].refresh
    <3>1. accountIds' \in Nat /\ callbacks \in [Callbacks -> CallbackRecords]
          /\ callbacks' = [callbacks EXCEPT ![b].pc = "access", ![b].account = accountIds']
      BY <1>6, <1>n, <2>1 DEF OAuthTypes, CreateAccount
    <3>2. /\ callbacks' \in [Callbacks -> CallbackRecords] /\ callbacks'[b].pc = "access"
          /\ (\A c \in Callbacks \ {b} : callbacks'[c] = callbacks[c]) /\ callbacks'[b].account = accountIds'
          /\ callbacks'[b].grant = callbacks[b].grant /\ callbacks'[b].refresh = callbacks[b].refresh
      BY <1>b, <3>1 DEF CallbackRecords
    <3> QED BY <2>1, <3>2 DEF CallbackBecomes
  <2>n. accountIds' \in Nat /\ accountIds' >= accountIds /\ accountIds' \in 1..accountIds'
    BY <1>n, <2>1
  <2>3. OAuthTypes'
    BY <1>n, <2>1, <2>2, <2>n DEF OAuthTypes, CallbackBecomes
  <2>4. OfAccounts'
    BY <2>1, <2>2, <2>n, CallbackOfAccounts
  <2>5. ~raced.accounts => Connecting = {b} /\ accountIds = 0
    BY <2>1 DEF OneConnecting, Connecting, CallbackAt
  <2>6. OneConnecting'
    <3>1. Connecting' \subseteq Connecting \ {b}
      BY <2>2 DEF Connecting, CallbackBecomes, CallbackAt
    <3> QED BY <1>n, <2>1, <2>5, <3>1 DEF OneConnecting
  <2>7. OneGranting'
    <3>1. ASSUME NEW x \in {callbacks[b]}, NEW y \in {callbacks'[b]}, ~raced'.tokens PROVE GrantGoesOn(x, y)
      <4>1. x.pc = "create" /\ y.pc = "access" /\ y.grant = x.grant /\ y.refresh = x.refresh
        BY <2>1, <2>2 DEF CallbackBecomes
      <4>2. accountIds = 0 /\ accountIds' = 1
        BY <2>1, <2>5, <3>1 DEF OneConnecting
      <4>3. LatestToken(1, "refresh")' = 0
        <5>1. LatestToken(1, "refresh") = 0
          BY <4>2, NoTokensYet
        <5> QED BY <2>1, <5>1 DEF LatestToken
      <4>4. Holding(x) => Holding(y)'
        BY <2>1, <4>1, <4>2, <4>3 DEF Holding
      <4>5. (Stands(x) <=> Holding(x)) /\ (Stands(y)' <=> Holding(y)')
        BY <4>1 DEF Stands
      <4> QED BY <2>1, <4>1, <4>4, <4>5 DEF GrantGoesOn, GrantingPcs
    <3>2. \A x \in {callbacks[b]} : \A y \in {callbacks'[b]} : GrantGoesOn(x, y)
      BY <3>1 DEF GrantGoesOn
    <3> QED BY <2>2, <3>2, CallbackKeepsOneGranting
  <2> QED BY <2>3, <2>4, <2>6, <2>7
<1>7. ASSUME NEW b \in Callbacks, CallbackStores(b) PROVE OAuthInv'
  <2> DEFINE at == callbacks[b].pc
             row == TokenRow(callbacks[b], at)
             pc == callbacks'[b].pc
  <2>1. /\ at \in {"access", "refresh"} /\ tokens' = Append(tokens, row)
        /\ UNCHANGED <<accountIds, grants, honoured, raced, oauthStates, users>>
    BY <1>7 DEF CallbackStores, CallbackAt, providerVars
  <2>2. /\ CallbackBecomes(b, pc)
        /\ pc = IF at = "access" /\ callbacks[b].refresh THEN "refresh" ELSE "ok"
        /\ callbacks'[b].account = callbacks[b].account /\ callbacks'[b].grant = callbacks[b].grant
    BY <1>7, <1>b DEF CallbackStores, CallbackBecomes, CallbackGoes, CallbackAt, AfterAccess, CallbackRecords, OAuthTypes
  <2>3. row \in TokenRows /\ row.account = callbacks[b].account /\ callbacks[b].account \in 1..accountIds
    BY <1>b, <2>1 DEF TokenRow, TokenRows, CallbackRecords, OfAccounts, CallbackAt
  <2>4. tokens' \in Seq(TokenRows) /\ \A n \in DOMAIN tokens' : tokens'[n].account \in 1..accountIds'
    <3> HIDE DEF row
    <3>1. row.account \in 1..accountIds
      BY <2>3
    <3> QED BY <2>1, <2>3, <3>1, RowStored
  <2>5. OAuthTypes'
    BY <2>1, <2>2, <2>4 DEF OAuthTypes, CallbackBecomes
  <2>6. OfAccounts'
    <3>1. \A c \in Callbacks : callbacks'[c].pc \in {"access", "refresh"} => callbacks[c].pc \in {"access", "refresh"}
      BY <2>1, <2>2 DEF CallbackBecomes
    <3>2. \A c \in Callbacks : callbacks'[c].account = callbacks[c].account
      BY <2>2 DEF CallbackBecomes
    <3> QED BY <2>1, <2>4, <3>1, <3>2 DEF OfAccounts, CallbackAt, UserAt
  <2>7. OneConnecting'
    <3> HIDE DEF pc
    <3>1. pc \notin ConnectingPcs /\ pc # "create"
      BY <2>2 DEF ConnectingPcs
    <3> QED BY <2>1, <2>2, <3>1, ConnectingGoesOn
  <2>8. OneGranting'
    <3>1. ASSUME NEW x \in {callbacks[b]}, NEW y \in {callbacks'[b]}, ~raced'.tokens PROVE GrantGoesOn(x, y)
      <4>1. /\ x.pc = at /\ y.pc = pc /\ y.grant = x.grant /\ TokenRow(x, at) = row
            /\ x.account \in 1..accountIds
        BY <2>2, <2>3
      <4>2. accountIds <= 1
        BY <2>1, <3>1 DEF OneConnecting
      <4>3. CASE at = "access"
        <5>1. Stands(x) <=> Holding(x)
          BY <4>1, <4>3 DEF Stands
        <5>2. TokenRow(x, "access") \in TokenRows /\ tokens' = Append(tokens, TokenRow(x, "access"))
          BY <2>1, <2>3, <4>1, <4>3
        <5>3. Holding(x) => IF x.refresh THEN HalfStored(y)' ELSE Current'
          <6> HIDE DEF at, row, pc
          <6> QED BY <2>1, <4>1, <4>2, <5>2, AccessStored
        <5>4. pc = IF x.refresh THEN "refresh" ELSE "ok"
          BY <2>2, <4>3
        <5>5. pc = "refresh" => (Stands(y)' <=> HalfStored(y)')
          BY <4>1 DEF Stands
        <5> HIDE DEF at, pc
        <5> QED BY <2>1, <3>1, <4>1, <4>3, <5>1, <5>3, <5>4, <5>5 DEF GrantGoesOn, GrantingPcs
      <4>4. CASE at = "refresh"
        <5>1. Stands(x) <=> HalfStored(x)
          BY <4>1, <4>4 DEF Stands
        <5>2. TokenRow(x, "refresh") \in TokenRows /\ tokens' = Append(tokens, TokenRow(x, "refresh"))
          BY <2>1, <2>3, <4>1, <4>4
        <5>3. HalfStored(x) => Current'
          <6> HIDE DEF at, row, pc
          <6> QED BY <2>1, <4>1, <4>2, <5>2, RefreshStored
        <5>4. pc = "ok"
          BY <2>2, <4>4
        <5> HIDE DEF at, pc
        <5> QED BY <2>1, <3>1, <4>1, <4>4, <5>1, <5>3, <5>4 DEF GrantGoesOn, GrantingPcs
      <4> QED BY <2>1, <4>3, <4>4
    <3>2. \A x \in {callbacks[b]} : \A y \in {callbacks'[b]} : GrantGoesOn(x, y)
      BY <3>1 DEF GrantGoesOn
    <3> HIDE DEF pc
    <3> QED BY <2>2, <3>2, CallbackKeepsOneGranting
  <2> QED BY <2>5, <2>6, <2>7, <2>8
<1>q. ASSUME NEW u \in TokenUsers, NEW pc \in {"ok", "failed", "idle", "validate", "read"}, UserBecomes(u, pc),
             users[u].pc \notin GrantingPcs,
             pc \in {"validate", "read"} => users'[u].account \in 1..accountIds,
             UNCHANGED <<oauthStates, accountIds, tokens, grants, honoured>>,
             raced' \in [accounts : BOOLEAN, tokens : BOOLEAN],
             raced'.accounts = raced.accounts, raced.tokens => raced'.tokens
      PROVE  OAuthInv'
  <2>1. OAuthTypes'
    BY <1>n, <1>q DEF OAuthTypes, UserBecomes
  <2>2. OfAccounts'
    BY <1>q, UserOfAccounts
  <2>3. OneConnecting'
    BY <1>q, UsersDoNotConnect DEF UserBecomes
  <2>4. OneGranting'
    <3>1. \A x \in {users[u]} : \A y \in {users'[u]} : GrantGoesOn(x, y)
      BY <1>q DEF GrantGoesOn, GrantingPcs, UserBecomes
    <3> QED BY <1>q, <3>1, UserKeepsOneGranting
  <2> QED BY <2>1, <2>2, <2>3, <2>4
<1>8. ASSUME NEW u \in TokenUsers, GetLatestToken(u) PROVE OAuthInv'
  <2>1. PICK a \in 1..accountIds :
          users' = [users EXCEPT ![u].account = a,
                        ![u].pc = IF LatestToken(a, "access") = 0 THEN "failed" ELSE "validate",
                        ![u].token = LatestToken(a, "access")]
    BY <1>8 DEF GetLatestToken
  <2>2. /\ users[u].pc = "idle"
        /\ UNCHANGED <<oauthStates, accountIds, tokens, grants, honoured, callbacks, raced>>
    BY <1>8 DEF GetLatestToken, providerVars, UserAt
  <2> DEFINE k == LatestToken(a, "access")
             pc == IF k = 0 THEN "failed" ELSE "validate"
  <2>3. users' = [users EXCEPT ![u].account = a, ![u].pc = pc, ![u].token = k] /\ k \in Nat /\ a \in Nat
        /\ pc \in {"failed", "validate"}
    BY <2>1, <1>n, LatestIsNat
  <2> HIDE DEF k, pc
  <2>4. users \in [TokenUsers -> UserRecords]
    BY DEF OAuthTypes
  <2>5. users' \in [TokenUsers -> UserRecords] /\ users'[u].account = a /\ users'[u].pc = pc
        /\ \A v \in TokenUsers \ {u} : users'[v] = users[v]
    <3>1. PICK new : new = [users[u] EXCEPT !.account = a, !.pc = pc, !.token = k]
      OBVIOUS
    <3>2. new \in UserRecords /\ new.account = a /\ new.pc = pc
      BY <2>3, <2>4, <1>u, <3>1 DEF UserRecords
    <3>3. users' = [users EXCEPT ![u] = new]
      BY <2>3, <3>1
    <3> QED BY <2>4, <3>2, <3>3, <1>u
  <2>6. UserBecomes(u, pc) /\ users[u].pc \notin GrantingPcs /\ raced' \in [accounts : BOOLEAN, tokens : BOOLEAN]
    BY <2>2, <2>5 DEF UserBecomes, GrantingPcs, OAuthTypes
  <2> QED BY <2>2, <2>3, <2>5, <2>6, <1>q
<1>9. ASSUME NEW u \in TokenUsers, ValidateCredentials(u) PROVE OAuthInv'
  <2>1. PICK pc \in {"ok", "read"} : UserGoes(u, pc)
    BY <1>9 DEF ValidateCredentials
  <2>2. /\ users[u].pc = "validate"
        /\ UNCHANGED <<oauthStates, accountIds, tokens, grants, honoured, callbacks, raced>>
    BY <1>9 DEF ValidateCredentials, providerVars, UserAt
  <2>3. UserBecomes(u, pc) /\ users'[u].account = users[u].account
    BY <2>1, <2>2, <1>u DEF UserBecomes, UserGoes, UserRecords, OAuthTypes
  <2>4. users[u].account \in 1..accountIds
    BY <2>2 DEF OfAccounts, UserAt
  <2>5. users[u].pc \notin GrantingPcs /\ raced' \in [accounts : BOOLEAN, tokens : BOOLEAN]
    BY <2>2 DEF GrantingPcs, OAuthTypes
  <2> QED BY <2>1, <2>2, <2>3, <2>4, <2>5, <1>q
<1>10. ASSUME NEW u \in TokenUsers, GetRefreshToken(u) PROVE OAuthInv'
  <2> DEFINE k == LatestToken(users[u].account, "refresh")
             pc == IF k = 0 THEN "failed" ELSE "ask"
  <2>1. k \in Nat
    BY LatestIsNat
  <2>2. /\ users[u].pc = "read"
        /\ users' = [users EXCEPT ![u].pc = pc, ![u].token = k]
        /\ raced' = [raced EXCEPT !.tokens = @ \/ (k # 0 /\ Granting # {})]
        /\ UNCHANGED <<oauthStates, accountIds, tokens, grants, honoured, callbacks>>
    BY <1>10 DEF GetRefreshToken, providerVars, UserAt
  <2>3. pc \in {"failed", "ask"} /\ (pc = "ask" <=> k # 0)
    OBVIOUS
  <2> HIDE DEF k, pc
  <2>4. /\ raced' \in [accounts : BOOLEAN, tokens : BOOLEAN]
        /\ raced'.accounts = raced.accounts /\ (raced.tokens => raced'.tokens)
        /\ k # 0 /\ ~raced'.tokens => Granting = {}
    BY <2>2 DEF OAuthTypes
  <2>5. UserBecomes(u, pc) /\ users'[u].account = users[u].account
    BY <2>1, <2>2, <2>3, <1>u DEF UserBecomes, UserRecords, OAuthTypes
  <2>6. users[u].account \in 1..accountIds
    BY <2>2 DEF OfAccounts, UserAt
  <2>7. CASE pc = "failed"
    <3>1. users[u].pc \notin GrantingPcs
      BY <2>2 DEF GrantingPcs
    <3> QED BY <2>2, <2>4, <2>5, <2>7, <3>1, <1>q
  <2>8. CASE pc = "ask"
    <3>1. OAuthTypes'
      BY <1>n, <2>2, <2>4, <2>5 DEF OAuthTypes, UserBecomes
    <3>2. OfAccounts'
      BY <2>2, <2>5, <2>6, UserOfAccounts
    <3>3. OneConnecting'
      BY <2>2, <2>4, UsersDoNotConnect
    <3>4. OneGranting'
      <4>1. ASSUME NEW x \in {users[u]}, NEW y \in {users'[u]} PROVE GrantGoesOn(x, y)
        <5>1. x.pc = "read" /\ y.pc = "ask"
          BY <2>2, <2>5, <2>8 DEF UserBecomes
        <5>2. Current' <=> Current
          BY <2>2, StandsStill
        <5> QED BY <2>3, <2>4, <2>8, <5>1, <5>2 DEF GrantGoesOn, GrantingPcs, Stands
      <4> QED BY <2>5, <4>1, UserKeepsOneGranting
    <3> QED BY <3>1, <3>2, <3>3, <3>4
  <2> QED BY <2>3, <2>7, <2>8
<1>11. ASSUME NEW u \in TokenUsers, RefreshAccessToken(u) PROVE OAuthInv'
  <2>1. /\ users[u].pc = "ask" /\ UNCHANGED <<oauthStates, accountIds, tokens, callbacks, raced>>
    BY <1>11 DEF RefreshAccessToken, UserAt
  <2>2. \/ /\ UserBecomes(u, "access") /\ grants' = grants + 1 /\ users'[u].grant = grants + 1
           /\ users'[u].account = users[u].account
           /\ honoured' = IF users'[u].refresh THEN grants + 1 ELSE honoured
        \/ /\ UserBecomes(u, "failed") /\ UNCHANGED <<grants, honoured>>
           /\ users'[u].account = users[u].account
    <3>1. ASSUME NEW r \in BOOLEAN,
                 users' = [users EXCEPT ![u].pc = "access", ![u].grant = grants + 1, ![u].refresh = r]
          PROVE  /\ UserBecomes(u, "access") /\ users'[u].grant = grants + 1
                 /\ users'[u].refresh = r /\ users'[u].account = users[u].account
      <4> DEFINE k == grants + 1
      <4>1. k \in Nat /\ users' = [users EXCEPT ![u].pc = "access", ![u].grant = k, ![u].refresh = r]
        BY <3>1, <1>n
      <4> HIDE DEF k
      <4>2. users \in [TokenUsers -> UserRecords]
        BY DEF OAuthTypes
      <4>3. /\ users' \in [TokenUsers -> UserRecords] /\ users'[u].pc = "access"
            /\ \A c \in TokenUsers \ {u} : users'[c] = users[c]
        <5>1. PICK new : new = [users[u] EXCEPT !.pc = "access", !.grant = k, !.refresh = r]
          OBVIOUS
        <5>2. new \in UserRecords /\ new.pc = "access"
          <6>1. PICK old \in UserRecords : old = users[u]
            BY <4>2, <1>u
          <6>2. new = [old EXCEPT !.pc = "access", !.grant = k, !.refresh = r] /\ k \in Nat
            BY <4>1, <5>1, <6>1
          <6>3. CASE r = TRUE
            BY <6>2, <6>3 DEF UserRecords
          <6>4. CASE r = FALSE
            BY <6>2, <6>4 DEF UserRecords
          <6> QED BY <3>1, <6>3, <6>4
        <5>3. users' = [users EXCEPT ![u] = new]
          BY <4>1, <5>1
        <5> QED BY <4>2, <5>2, <5>3, <1>u
      <4>4. users'[u].grant = k /\ users'[u].refresh = r /\ users'[u].account = users[u].account
        BY <3>1, <1>u, <4>1, <4>2 DEF UserRecords
      <4> QED BY <2>1, <4>3, <4>4 DEF UserBecomes, k
    <3>2. ASSUME UserGoes(u, "failed") PROVE UserBecomes(u, "failed") /\ users'[u].account = users[u].account
      BY <3>2, <2>1, <1>u DEF UserBecomes, UserRecords, OAuthTypes, UserGoes
    <3>3. CASE \E r \in BOOLEAN :
                 /\ users' = [users EXCEPT ![u].pc = "access", ![u].grant = grants + 1, ![u].refresh = r]
                 /\ honoured' = IF r THEN grants + 1 ELSE honoured
                 /\ grants' = grants + 1
      BY <3>1, <3>3
    <3>4. CASE UserGoes(u, "failed") /\ UNCHANGED <<grants, honoured>>
      BY <3>2, <3>4
    <3> QED BY <1>11, <3>3, <3>4 DEF RefreshAccessToken
  <2> DEFINE pc == users'[u].pc
  <2>3. /\ UserBecomes(u, pc) /\ pc \in {"access", "failed"} /\ grants' \in Nat /\ honoured' \in Nat
        /\ users'[u].account = users[u].account
    BY <1>n, <2>2 DEF UserBecomes
  <2>4. OAuthTypes'
    BY <1>n, <2>1, <2>3 DEF OAuthTypes, UserBecomes
  <2>a. users[u].account \in 1..accountIds
    BY <2>1 DEF OfAccounts, UserAt
  <2>5. OfAccounts'
    <3> HIDE DEF pc
    <3> QED BY <2>1, <2>3, <2>a, UserOfAccounts
  <2>6. OneConnecting'
    BY <2>1, UsersDoNotConnect
  <2>7. OneGranting'
    <3>1. ASSUME NEW x \in {users[u]}, NEW y \in {users'[u]} PROVE GrantGoesOn(x, y)
      <4>1. x.pc = "ask" /\ y.pc = pc /\ (Stands(x) <=> Current)
        BY <2>1 DEF Stands
      <4>2. \A a, type : LatestToken(a, type)' = LatestToken(a, type)
        BY <2>1 DEF LatestToken
      <4>3. CASE pc = "access"
        <5>1. /\ grants' = grants + 1 /\ y.grant = grants + 1
              /\ honoured' = IF y.refresh THEN grants + 1 ELSE honoured
          BY <2>2, <4>3 DEF UserBecomes
        <5>2. Current => Holding(y)'
          BY <2>1, <4>2, <5>1 DEF Current, Holding
        <5>3. Stands(y)' <=> Holding(y)'
          BY <4>1, <4>3 DEF Stands
        <5> QED BY <2>1, <4>1, <4>3, <5>2, <5>3 DEF GrantGoesOn, GrantingPcs
      <4>4. CASE pc = "failed"
        <5>1. UNCHANGED <<grants, honoured>>
          BY <2>2, <4>4 DEF UserBecomes
        <5>2. Current' <=> Current
          BY <2>1, <4>2, <5>1 DEF Current
        <5> QED BY <2>1, <4>1, <4>4, <5>2 DEF GrantGoesOn, GrantingPcs
      <4> QED BY <2>3, <4>3, <4>4
    <3> QED BY <2>3, <3>1, UserKeepsOneGranting
  <2> QED BY <2>4, <2>5, <2>6, <2>7
<1>12. ASSUME NEW u \in TokenUsers, UserStores(u) PROVE OAuthInv'
  <2> DEFINE at == users[u].pc
             row == TokenRow(users[u], at)
             pc == users'[u].pc
  <2>1. /\ at \in {"access", "refresh"} /\ tokens' = Append(tokens, row)
        /\ UNCHANGED <<accountIds, grants, honoured, raced, oauthStates, callbacks>>
    BY <1>12 DEF UserStores, UserAt, providerVars
  <2>2. /\ UserBecomes(u, pc)
        /\ pc = IF at = "access" /\ users[u].refresh THEN "refresh" ELSE "ok"
        /\ users'[u].account = users[u].account /\ users'[u].grant = users[u].grant
    BY <1>12, <1>u DEF UserStores, UserBecomes, UserGoes, UserAt, AfterAccess, UserRecords, OAuthTypes
  <2>3. row \in TokenRows /\ row.account = users[u].account /\ users[u].account \in 1..accountIds
    BY <1>u, <2>1 DEF TokenRow, TokenRows, UserRecords, OfAccounts, UserAt
  <2>4. tokens' \in Seq(TokenRows) /\ \A n \in DOMAIN tokens' : tokens'[n].account \in 1..accountIds'
    <3> HIDE DEF row
    <3>1. row.account \in 1..accountIds
      BY <2>3
    <3> QED BY <2>1, <2>3, <3>1, RowStored
  <2>5. OAuthTypes'
    BY <2>1, <2>2, <2>4 DEF OAuthTypes, UserBecomes
  <2>6. OfAccounts'
    <3>1. \A v \in TokenUsers : users'[v].pc \in {"validate", "read", "ask", "access", "refresh"} =>
                                 users[v].pc \in {"validate", "read", "ask", "access", "refresh"}
      BY <2>1, <2>2 DEF UserBecomes
    <3>2. \A v \in TokenUsers : users'[v].account = users[v].account
      BY <2>2 DEF UserBecomes
    <3> QED BY <2>1, <2>4, <3>1, <3>2 DEF OfAccounts, CallbackAt, UserAt
  <2>7. OneConnecting'
    BY <2>1, UsersDoNotConnect
  <2>8. OneGranting'
    <3>1. ASSUME NEW x \in {users[u]}, NEW y \in {users'[u]}, ~raced'.tokens PROVE GrantGoesOn(x, y)
      <4>1. /\ x.pc = at /\ y.pc = pc /\ y.grant = x.grant /\ TokenRow(x, at) = row
            /\ x.account \in 1..accountIds
        BY <2>2, <2>3
      <4>2. accountIds <= 1
        BY <2>1, <3>1 DEF OneConnecting
      <4>3. CASE at = "access"
        <5>1. Stands(x) <=> Holding(x)
          BY <4>1, <4>3 DEF Stands
        <5>2. TokenRow(x, "access") \in TokenRows /\ tokens' = Append(tokens, TokenRow(x, "access"))
          BY <2>1, <2>3, <4>1, <4>3
        <5>3. Holding(x) => IF x.refresh THEN HalfStored(y)' ELSE Current'
          <6> HIDE DEF at, row, pc
          <6> QED BY <2>1, <4>1, <4>2, <5>2, AccessStored
        <5>4. pc = IF x.refresh THEN "refresh" ELSE "ok"
          BY <2>2, <4>3
        <5>5. pc = "refresh" => (Stands(y)' <=> HalfStored(y)')
          BY <4>1 DEF Stands
        <5> HIDE DEF at, pc
        <5> QED BY <2>1, <3>1, <4>1, <4>3, <5>1, <5>3, <5>4, <5>5 DEF GrantGoesOn, GrantingPcs
      <4>4. CASE at = "refresh"
        <5>1. Stands(x) <=> HalfStored(x)
          BY <4>1, <4>4 DEF Stands
        <5>2. TokenRow(x, "refresh") \in TokenRows /\ tokens' = Append(tokens, TokenRow(x, "refresh"))
          BY <2>1, <2>3, <4>1, <4>4
        <5>3. HalfStored(x) => Current'
          <6> HIDE DEF at, row, pc
          <6> QED BY <2>1, <4>1, <4>2, <5>2, RefreshStored
        <5>4. pc = "ok"
          BY <2>2, <4>4
        <5> HIDE DEF at, pc
        <5> QED BY <2>1, <3>1, <4>1, <4>4, <5>1, <5>3, <5>4 DEF GrantGoesOn, GrantingPcs
      <4> QED BY <2>1, <4>3, <4>4
    <3>2. \A x \in {users[u]} : \A y \in {users'[u]} : GrantGoesOn(x, y)
      BY <3>1 DEF GrantGoesOn
    <3> HIDE DEF pc
    <3> QED BY <2>2, <3>2, UserKeepsOneGranting
  <2> QED BY <2>5, <2>6, <2>7, <2>8
<1>13. ASSUME NEW u \in TokenUsers, UserAgain(u) PROVE OAuthInv'
  <2>1. /\ users[u].pc \in {"ok", "failed"}
        /\ UNCHANGED <<oauthStates, accountIds, tokens, grants, honoured, callbacks, raced>>
    BY <1>13 DEF UserAgain, providerVars, UserAt
  <2>2. UserBecomes(u, "idle")
    BY <1>13, <1>u DEF UserAgain, UserBecomes, UserGoes, UserRecords, OAuthTypes
  <2>3. users[u].pc \notin GrantingPcs /\ raced' \in [accounts : BOOLEAN, tokens : BOOLEAN]
    BY <2>1 DEF GrantingPcs, OAuthTypes
  <2> QED BY <2>1, <2>2, <2>3, <1>q
<1>14. ASSUME OAuthCallFails PROVE OAuthInv'
  <2>1. UNCHANGED <<oauthStates, accountIds, tokens, grants, honoured>>
    BY <1>14 DEF OAuthCallFails, providerVars
  <2>2. ASSUME NEW b \in Callbacks, callbacks[b].pc \in {"exchange", "delete", "find", "create", "access", "refresh"},
               CallbackGoes(b, "failed"), UNCHANGED users,
               raced' = [raced EXCEPT !.tokens = @ \/ callbacks[b].pc # "exchange"]
        PROVE  OAuthInv'
    <3>1. CallbackBecomes(b, "failed")
      BY <2>2, <1>b DEF CallbackBecomes, CallbackGoes, CallbackRecords, OAuthTypes
    <3>2. /\ raced' \in [accounts : BOOLEAN, tokens : BOOLEAN]
          /\ raced'.accounts = raced.accounts /\ (raced.tokens => raced'.tokens)
          /\ ~raced'.tokens => callbacks[b].pc = "exchange" /\ ~raced.tokens
      BY <2>2 DEF OAuthTypes
    <3>3. OAuthTypes'
      BY <1>n, <2>1, <3>1, <3>2 DEF OAuthTypes, CallbackBecomes
    <3>4. OfAccounts'
      BY <1>n, <2>1, <3>1, CallbackOfAccounts
    <3>5. OneConnecting'
      <4>1. "failed" \notin ConnectingPcs
        BY DEF ConnectingPcs
      <4> QED BY <2>1, <3>1, <3>2, <4>1, ConnectingGoesOn
    <3>6. OneGranting'
      <4>1. ASSUME NEW x \in {callbacks[b]}, NEW y \in {callbacks'[b]} PROVE GrantGoesOn(x, y)
        <5>1. Current' <=> Current
          BY <2>1, StandsStill
        <5>2. y.pc = "failed"
          BY <3>1 DEF CallbackBecomes
        <5> QED BY <3>2, <5>1, <5>2 DEF GrantGoesOn, GrantingPcs, Stands
      <4> QED BY <3>1, <4>1, CallbackKeepsOneGranting
    <3> QED BY <3>3, <3>4, <3>5, <3>6
  <2>3. ASSUME NEW u \in TokenUsers, users[u].pc \in {"validate", "read", "ask", "access", "refresh"},
               UserGoes(u, "failed"), UNCHANGED callbacks,
               raced' = [raced EXCEPT !.tokens = @ \/ users[u].pc \in {"access", "refresh"}]
        PROVE  OAuthInv'
    <3>1. UserBecomes(u, "failed")
      BY <2>3, <1>u DEF UserBecomes, UserGoes, UserRecords, OAuthTypes
    <3>2. /\ raced' \in [accounts : BOOLEAN, tokens : BOOLEAN]
          /\ raced'.accounts = raced.accounts /\ (raced.tokens => raced'.tokens)
          /\ ~raced'.tokens => users[u].pc \in {"validate", "read", "ask"} /\ ~raced.tokens
      BY <2>3 DEF OAuthTypes
    <3>3. OAuthTypes'
      BY <1>n, <2>1, <3>1, <3>2 DEF OAuthTypes, UserBecomes
    <3>4. OfAccounts'
      BY <2>1, <3>1, UserOfAccounts
    <3>5. OneConnecting'
      BY <2>1, <2>3, <3>2, UsersDoNotConnect
    <3>6. OneGranting'
      <4>1. ASSUME NEW x \in {users[u]}, NEW y \in {users'[u]} PROVE GrantGoesOn(x, y)
        <5>1. Current' <=> Current
          BY <2>1, StandsStill
        <5>2. y.pc = "failed"
          BY <3>1 DEF UserBecomes
        <5> QED BY <2>1, <3>2, <5>1, <5>2 DEF GrantGoesOn, GrantingPcs, Stands
      <4> QED BY <3>1, <4>1, UserKeepsOneGranting
    <3> QED BY <3>3, <3>4, <3>5, <3>6
  <2> QED BY <1>14, <2>2, <2>3 DEF OAuthCallFails, CallbackAt, UserAt
<1>15. CASE UNCHANGED oauthVars
  BY <1>15, NothingHappens DEF oauthVars, OAuthTypes
<1> QED
  BY <1>1, <1>2, <1>3, <1>4, <1>5, <1>6, <1>7, <1>8, <1>9, <1>10, <1>11, <1>12, <1>13, <1>14, <1>15 DEF OAuthNext

LEMMA OAuthInvariant == OAuthSpec => []OAuthInv
<1>1. OAuthInit => OAuthInv
  <2> SUFFICES ASSUME OAuthInit PROVE OAuthInv
    OBVIOUS
  <2> USE DEF OAuthInit
  <2>1. OAuthTypes
    BY DEF OAuthTypes, NewCallback, NewUser, CallbackRecords, UserRecords
  <2>2. OfAccounts
    BY DEF OfAccounts, CallbackAt, UserAt, NewCallback, NewUser
  <2>3. OneConnecting
    BY DEF OneConnecting, Connecting, CallbackAt, NewCallback
  <2>4. OneGranting
    <3>1. GrantingCallbacks = {} /\ GrantingUsers = {}
      BY DEF GrantingCallbacks, GrantingUsers, CallbackAt, UserAt, NewCallback, NewUser
    <3>2. Current
      BY DEF Current
    <3> QED BY <3>1, <3>2 DEF OneGranting
  <2> QED BY <2>1, <2>2, <2>3, <2>4 DEF OAuthInv
<1> QED BY <1>1, OAuthStep, PTL DEF OAuthSpec

(* The workspace has one account, unless two callbacks connected it at once, *)
(* and stored last is what the provider honours, unless two grants were     *)
(* under way at once or one was lost.                                       *)
THEOREM AccountsKeepTheirTokens == OAuthSpec => []TokensAreTheAccounts
<1>1. OAuthInv => TokensAreTheAccounts
  <2>1. Granting = GrantingCallbacks \cup GrantingUsers
    BY DEF Granting, GrantingCallbacks, GrantingUsers
  <2> QED
    BY <2>1 DEF OAuthInv, OneConnecting, OneGranting, Current, TokensAreTheAccounts, OneAccountInTurn,
                StoredTokensAreCurrent
<1> QED BY <1>1, OAuthInvariant, PTL

-----------------------------------------------------------------------------
(* What is held and stored was granted; an account was made by a callback,   *)
(* which has no account before it finds or creates one.                      *)
WithoutAccount == {"idle", "exchange", "delete", "find", "create"}
HoldsGrant == {"delete", "find", "create", "access", "refresh"}
Made == {b \in Callbacks : callbacks[b].account # 0}
OAuthBounds ==
    /\ grants <= MaxGrants /\ codes \subseteq Flows /\ oauthFaults \in 0..MaxOAuthFaults
    /\ \A n \in DOMAIN tokens : tokens[n].grant \in 1..grants
    /\ \A b \in Callbacks : /\ CallbackAt(b) \in HoldsGrant => callbacks[b].grant \in 1..grants
                            /\ CallbackAt(b) \in WithoutAccount => callbacks[b].account = 0
    /\ \A u \in TokenUsers : UserAt(u) \in {"access", "refresh"} => users[u].grant \in 1..grants

AccountsAreMade == accountIds <= Cardinality(Made)

LEMMA OAuthBoundsStep ==
    ASSUME OAuthInv, OAuthBounds, [OAuthNext]_oauthVars
    PROVE  OAuthBounds'
<1> USE DEF CallbackAt, UserAt, HoldsGrant, WithoutAccount, providerVars, CallbackGoes, UserGoes
<1>b. callbacks \in [Callbacks -> CallbackRecords]
  BY DEF OAuthInv, OAuthTypes
<1>u. users \in [TokenUsers -> UserRecords]
  BY DEF OAuthInv, OAuthTypes
<1>n. accountIds \in Nat /\ grants \in Nat /\ tokens \in Seq(TokenRows) /\ MaxGrants \in Nat /\ MaxOAuthFaults \in Nat
  BY OAuthAssumption DEF OAuthInv, OAuthTypes
<1>f. \A b \in Callbacks : FlowOf[b] \in Flows
  BY OAuthAssumption
<1>1. ASSUME UNCHANGED <<tokens, callbacks, users, grants, codes, oauthFaults>> PROVE OAuthBounds'
  BY <1>1 DEF OAuthBounds
<1>2. ASSUME NEW f \in Flows, InitiateOAuth(f) \/ StateExpires(f) PROVE OAuthBounds'
  BY <1>1, <1>2 DEF InitiateOAuth, StateExpires
<1>3. ASSUME NEW b \in Callbacks, GetOAuthState(b) PROVE OAuthBounds'
  BY <1>3, <1>b DEF GetOAuthState, OAuthBounds, CallbackRecords
<1>4. ASSUME NEW b \in Callbacks, ExchangeCode(b) PROVE OAuthBounds'
  <2>1. CASE CallbackGoes(b, "failed") /\ UNCHANGED providerVars
    BY <1>4, <1>b, <2>1 DEF ExchangeCode, OAuthBounds, CallbackRecords
  <2>2. ASSUME NEW r \in BOOLEAN, grants' = grants + 1, codes' = codes \cup {FlowOf[b]},
               callbacks' = [callbacks EXCEPT ![b].pc = "delete", ![b].grant = grants + 1, ![b].refresh = r]
        PROVE  OAuthBounds'
    <3>1. /\ callbacks'[b].pc = "delete" /\ callbacks'[b].grant = grants + 1
          /\ callbacks'[b].account = callbacks[b].account
      BY <1>b, <2>2 DEF CallbackRecords
    <3>2. \A c \in Callbacks \ {b} : callbacks'[c] = callbacks[c]
      BY <1>b, <2>2
    <3>3. callbacks[b].account = 0
      BY <1>4 DEF ExchangeCode, OAuthBounds
    <3>4. 1..grants \subseteq 1..(grants + 1) /\ grants + 1 \in 1..(grants + 1)
      BY <1>n
    <3>5. codes' \subseteq Flows /\ grants' <= MaxGrants /\ UNCHANGED <<tokens, users, oauthFaults>>
      BY <1>4, <1>n, <1>f, <2>2 DEF ExchangeCode, OAuthBounds
    <3> QED BY <2>2, <3>1, <3>2, <3>3, <3>4, <3>5 DEF OAuthBounds
  <2> QED BY <1>4, <2>1, <2>2 DEF ExchangeCode
<1>5. ASSUME NEW b \in Callbacks, DeleteOAuthState(b) PROVE OAuthBounds'
  BY <1>5, <1>b DEF DeleteOAuthState, OAuthBounds, CallbackRecords
<1>6. ASSUME NEW b \in Callbacks, FindAccount(b) PROVE OAuthBounds'
  <2>1. CASE CallbackGoes(b, "create")
    BY <1>6, <1>b, <2>1 DEF FindAccount, OAuthBounds, CallbackRecords
  <2>2. ASSUME NEW a \in 1..accountIds,
               callbacks' = [callbacks EXCEPT ![b].pc = "access", ![b].account = a]
        PROVE  OAuthBounds'
    <3>1. callbacks'[b].pc = "access" /\ callbacks'[b].grant = callbacks[b].grant
      BY <1>b, <2>2 DEF CallbackRecords
    <3>2. \A c \in Callbacks \ {b} : callbacks'[c] = callbacks[c]
      BY <1>b, <2>2
    <3> QED BY <1>6, <3>1, <3>2 DEF FindAccount, OAuthBounds
  <2> QED BY <1>6, <2>1, <2>2 DEF FindAccount
<1>7. ASSUME NEW b \in Callbacks, CreateAccount(b) PROVE OAuthBounds'
  BY <1>7, <1>b, <1>n DEF CreateAccount, OAuthBounds, CallbackRecords
<1>8. ASSUME NEW row, row.grant \in 1..grants, tokens' = Append(tokens, row), UNCHANGED grants
      PROVE  (\A n \in DOMAIN tokens : tokens[n].grant \in 1..grants)
                => \A n \in DOMAIN tokens' : tokens'[n].grant \in 1..grants
  BY <1>8, <1>n, AppendProperties
<1>9. ASSUME NEW b \in Callbacks, CallbackStores(b) PROVE OAuthBounds'
  <2>1. PICK row : row = TokenRow(callbacks[b], CallbackAt(b))
    OBVIOUS
  <2>2. row.grant \in 1..grants /\ tokens' = Append(tokens, row) /\ UNCHANGED grants
    BY <1>9, <2>1 DEF CallbackStores, TokenRow, OAuthBounds
  <2>3. \A n \in DOMAIN tokens' : tokens'[n].grant \in 1..grants'
    BY <2>2, <1>8 DEF OAuthBounds
  <2> QED BY <1>9, <1>b, <2>2, <2>3 DEF CallbackStores, OAuthBounds, CallbackRecords, AfterAccess
<1>10. ASSUME NEW u \in TokenUsers, GetLatestToken(u) PROVE OAuthBounds'
  BY <1>10, <1>u DEF GetLatestToken, OAuthBounds, UserRecords
<1>11. ASSUME NEW u \in TokenUsers, ValidateCredentials(u) PROVE OAuthBounds'
  BY <1>11, <1>u DEF ValidateCredentials, OAuthBounds, UserRecords
<1>12. ASSUME NEW u \in TokenUsers, GetRefreshToken(u) PROVE OAuthBounds'
  BY <1>12, <1>u DEF GetRefreshToken, OAuthBounds, UserRecords
<1>13. ASSUME NEW u \in TokenUsers, RefreshAccessToken(u) PROVE OAuthBounds'
  <2>1. CASE UserGoes(u, "failed") /\ UNCHANGED grants
    BY <1>13, <1>u, <2>1 DEF RefreshAccessToken, OAuthBounds, UserRecords
  <2>2. ASSUME NEW r \in BOOLEAN, grants' = grants + 1,
               users' = [users EXCEPT ![u].pc = "access", ![u].grant = grants + 1, ![u].refresh = r]
        PROVE  OAuthBounds'
    <3>1. users'[u].grant = grants + 1
      BY <1>u, <2>2 DEF UserRecords
    <3>2. \A v \in TokenUsers \ {u} : users'[v] = users[v]
      BY <1>u, <2>2
    <3>3. 1..grants \subseteq 1..(grants + 1) /\ grants + 1 \in 1..(grants + 1)
      BY <1>n
    <3>4. grants' <= MaxGrants /\ UNCHANGED <<tokens, codes, callbacks, oauthFaults>>
      BY <1>13, <1>n, <2>2 DEF RefreshAccessToken, OAuthBounds
    <3> QED BY <2>2, <3>1, <3>2, <3>3, <3>4 DEF OAuthBounds
  <2> QED BY <1>13, <2>1, <2>2 DEF RefreshAccessToken
<1>14. ASSUME NEW u \in TokenUsers, UserStores(u) PROVE OAuthBounds'
  <2>1. PICK row : row = TokenRow(users[u], UserAt(u))
    OBVIOUS
  <2>2. row.grant \in 1..grants /\ tokens' = Append(tokens, row) /\ UNCHANGED grants
    BY <1>14, <2>1 DEF UserStores, TokenRow, OAuthBounds
  <2>3. \A n \in DOMAIN tokens' : tokens'[n].grant \in 1..grants'
    BY <2>2, <1>8 DEF OAuthBounds
  <2> QED BY <1>14, <1>u, <2>2, <2>3 DEF UserStores, OAuthBounds, UserRecords, AfterAccess
<1>15. ASSUME NEW u \in TokenUsers, UserAgain(u) PROVE OAuthBounds'
  BY <1>15, <1>u DEF UserAgain, OAuthBounds, UserRecords
<1>16. CASE OAuthCallFails
  <2>1. oauthFaults' \in 0..MaxOAuthFaults
    BY <1>16, <1>n DEF OAuthCallFails, OAuthFault, OAuthBounds
  <2>2. UNCHANGED <<tokens, grants, codes>>
    BY <1>16 DEF OAuthCallFails
  <2>3. CASE \E b \in Callbacks : /\ callbacks[b].pc \in WithoutAccount \cup HoldsGrant
                                 /\ CallbackGoes(b, "failed") /\ UNCHANGED users
    BY <1>b, <2>1, <2>2, <2>3 DEF OAuthBounds, CallbackRecords
  <2>4. CASE \E u \in TokenUsers : UserGoes(u, "failed") /\ UNCHANGED callbacks
    BY <1>u, <2>1, <2>2, <2>4 DEF OAuthBounds, UserRecords
  <2> QED BY <1>16, <2>3, <2>4 DEF OAuthCallFails
<1> QED
  BY <1>1, <1>2, <1>3, <1>4, <1>5, <1>6, <1>7, <1>9, <1>10, <1>11, <1>12, <1>13, <1>14, <1>15, <1>16
  DEF OAuthNext, oauthVars

(* An account is one that a callback has made, and no callback loses its own. *)
LEMMA AccountsAreMadeStep ==
    ASSUME OAuthInv, OAuthBounds, AccountsAreMade, [OAuthNext]_oauthVars
    PROVE  AccountsAreMade'
<1>b. callbacks \in [Callbacks -> CallbackRecords] /\ accountIds \in Nat
  BY DEF OAuthInv, OAuthTypes
<1>1. PICK made \in SUBSET Callbacks : made = Made
  BY DEF Made
<1>2. PICK more \in SUBSET Callbacks : more = {b \in Callbacks : callbacks'[b].account # 0}
  OBVIOUS
<1>3. AccountsAreMade' <=> accountIds' <= Cardinality(more)
  BY <1>2 DEF AccountsAreMade, Made
<1>4. accountIds <= Cardinality(made)
  BY <1>1 DEF AccountsAreMade
<1>5. /\ IsFiniteSet(made) /\ IsFiniteSet(more)
      /\ Cardinality(made) \in Nat /\ Cardinality(more) \in Nat
  BY OAuthAssumption, FS_Subset, FS_CardinalityType
<1>6. ASSUME accountIds' = accountIds, made \subseteq more
      PROVE  AccountsAreMade'
  <2>1. Cardinality(made) <= Cardinality(more)
    BY <1>5, <1>6, FS_Subset
  <2> QED BY <1>b, <1>3, <1>4, <1>5, <1>6, <2>1
<1>7. ASSUME NEW b \in Callbacks, CreateAccount(b) PROVE AccountsAreMade'
  <2>1. b \notin made /\ more = made \cup {b} /\ accountIds' = accountIds + 1
    BY <1>b, <1>1, <1>2, <1>7 DEF Made, CreateAccount, CallbackAt, OAuthBounds, WithoutAccount, CallbackRecords
  <2>2. Cardinality(more) = Cardinality(made) + 1
    BY <1>5, <2>1, FS_AddElement
  <2> QED BY <1>b, <1>3, <1>4, <1>5, <2>1, <2>2
<1>8. ASSUME accountIds' = accountIds, \A b \in Callbacks : callbacks'[b].account = callbacks[b].account
      PROVE  AccountsAreMade'
  BY <1>1, <1>2, <1>6, <1>8 DEF Made
<1>9. ASSUME NEW b \in Callbacks, FindAccount(b) PROVE AccountsAreMade'
  <2>1. made \subseteq more
    BY <1>b, <1>1, <1>2, <1>9 DEF Made, FindAccount, CallbackGoes, CallbackRecords
  <2> QED BY <1>6, <1>9, <2>1 DEF FindAccount
<1>10. ASSUME NEW b \in Callbacks,
              GetOAuthState(b) \/ ExchangeCode(b) \/ DeleteOAuthState(b) \/ CallbackStores(b)
       PROVE  AccountsAreMade'
  <2>1. accountIds' = accountIds
    BY <1>10 DEF GetOAuthState, ExchangeCode, DeleteOAuthState, CallbackStores
  <2>2. CASE \E pc : CallbackGoes(b, pc)
    <3>1. \A c \in Callbacks : callbacks'[c].account = callbacks[c].account
      BY <1>b, <2>2 DEF CallbackGoes, CallbackRecords
    <3> QED BY <1>8, <2>1, <3>1
  <2>3. CASE ExchangeCode(b) /\ ~CallbackGoes(b, "failed")
    <3>1. \A c \in Callbacks : callbacks'[c].account = callbacks[c].account
      BY <1>b, <2>3 DEF ExchangeCode, CallbackRecords
    <3> QED BY <1>8, <2>1, <3>1
  <2> QED BY <1>10, <2>2, <2>3 DEF GetOAuthState, DeleteOAuthState, CallbackStores
<1>11. CASE UNCHANGED <<accountIds, callbacks>>
  BY <1>8, <1>11
<1>12. ASSUME NEW f \in Flows, InitiateOAuth(f) \/ StateExpires(f) PROVE AccountsAreMade'
  BY <1>11, <1>12 DEF InitiateOAuth, StateExpires
<1>13. ASSUME NEW u \in TokenUsers,
              \/ GetLatestToken(u) \/ ValidateCredentials(u) \/ GetRefreshToken(u)
              \/ RefreshAccessToken(u) \/ UserStores(u) \/ UserAgain(u)
       PROVE  AccountsAreMade'
  BY <1>11, <1>13 DEF GetLatestToken, ValidateCredentials, GetRefreshToken, RefreshAccessToken, UserStores, UserAgain
<1>14. CASE OAuthCallFails
  BY <1>b, <1>8, <1>11, <1>14 DEF OAuthCallFails, CallbackGoes, CallbackRecords
<1> QED
  BY <1>7, <1>9, <1>10, <1>11, <1>12, <1>13, <1>14 DEF OAuthNext, oauthVars

THEOREM OAuthTypeCorrect == OAuthSpec => []OAuthTypeOK
<1>1. OAuthInit => OAuthBounds /\ AccountsAreMade
  <2> SUFFICES ASSUME OAuthInit PROVE OAuthBounds /\ AccountsAreMade
    OBVIOUS
  <2>1. OAuthBounds
    BY OAuthAssumption DEF OAuthInit, OAuthBounds, CallbackAt, UserAt, HoldsGrant, WithoutAccount, NewCallback, NewUser
  <2>2. Made = {}
    BY DEF OAuthInit, Made, NewCallback
  <2> QED BY <2>1, <2>2, FS_EmptySet DEF OAuthInit, AccountsAreMade
<1>2. OAuthInv /\ OAuthBounds /\ AccountsAreMade => OAuthTypeOK
  <2> SUFFICES ASSUME OAuthInv, OAuthBounds, AccountsAreMade PROVE OAuthTypeOK
    OBVIOUS
  <2>1. PICK made \in SUBSET Callbacks : made = Made
    BY DEF Made
  <2>2. Cardinality(made) <= Cardinality(Callbacks) /\ Cardinality(made) \in Nat /\ Cardinality(Callbacks) \in Nat
    BY OAuthAssumption, FS_Subset, FS_CardinalityType
  <2>3. accountIds \in Nat /\ accountIds <= Cardinality(made)
    BY <2>1 DEF AccountsAreMade, OAuthInv, OAuthTypes
  <2>4. accountIds \in 0..Cardinality(Callbacks)
    BY <2>2, <2>3
  <2>5. \A n \in DOMAIN tokens : tokens[n] \in TokenRows
    BY ElementOfSeq DEF OAuthInv, OAuthTypes
  <2> QED BY <2>4, <2>5, OAuthAssumption DEF OAuthTypeOK, OAuthInv, OAuthTypes, OAuthBounds, OfAccounts, TokenRows
<1> QED BY <1>1, <1>2, OAuthBoundsStep, AccountsAreMadeStep, OAuthInvariant, PTL DEF OAuthSpec

-----------------------------------------------------------------------------
(***************************************************************************)
(* ConnectorSync, with NotionSync.  The invariant says, of each sync: where  *)
(* its counters and its lists are at each stage (StageFacts); that what it   *)
(* owes is gathered or in a list that it will still ask for, and heard of    *)
(* when it is processed (NewsFacts); and what becomes of its job (JobFacts). *)
(* Of the account, that what was edited before last_synced_at was heard of.  *)
(***************************************************************************)
Things ==
    {e \in [id : SourceItems, checksum : 1..MaxNow, deleted : BOOLEAN] :
        e.deleted <=> e.id \in Archived}
PluginRecords ==
    [at : {"pages", "databases", "query", "returned"}, page : Nat \ {0}, since : Nat,
     found : Seq(Things), local : Seq(Things), queue : Seq(Things), retries : 0..NotionRetries]
JobRecords ==
    [status : {"none", "pending", "scanning", "processing", "completed", "failed"},
     discovered : Nat, processed : Nat, skipped : Nat, errors : Nat]
SyncRecords ==
    [pc : SyncPcs, plugin : PluginRecords, todo : Seq(Things), processed : Nat, skipped : Nat,
     errors : Nat, begun : [SourceItems -> 1..MaxNow] \cup {<<>>}, syncedAt : Nat]

SyncTypes ==
    /\ statements \in {"applied", "rejected"}
    /\ syncJobs \in [SyncCalls -> JobRecords]
    /\ syncs \in [SyncCalls -> SyncRecords]
    /\ now \in 1..MaxNow /\ lastSynced \in 0..now
    /\ activeJobIds \subseteq SyncCalls
    /\ source \in [SourceItems -> 1..now]
    /\ announced \subseteq Things /\ excused \subseteq SourceItems
    /\ \A e \in told : e[1] = "deleted" => e[2] \in Archived
    /\ syncFaults \in 0..MaxSyncFaults

(* Where a plugin is in its listings.                                        *)
PluginFacts(p) ==
    /\ p.at = "pages" => p.page <= Len(PageLists)
    /\ p.at = "databases" => p.page <= Len(DatabaseLists)
    /\ p.at = "query" <=> p.queue # <<>>
    /\ p.at = "query" => Head(p.queue) \in ToSet(p.local)
    /\ p.at = "returned" => p.local = <<>>

Gathered(p) == ToSet(p.found) \cup ToSet(p.local) \cup ToSet(p.queue)
StillListed(p, i) ==
    \/ /\ p.at = "pages"
       /\ \/ \E n \in p.page..Len(PageLists) : i \in PageLists[n]
          \/ \E n \in 1..Len(DatabaseLists) : i \in DatabaseLists[n]
    \/ /\ p.at \in {"databases", "query"}
       /\ \E n \in p.page..Len(DatabaseLists) : i \in DatabaseLists[n]

Unread == {"idle", "create", "request", "load"}
Asking == {"scanning", "started", "token", "plugin"}
Taking == {"item", "discovered", "updated"}
Taken == {"completed", "upsert", "lastSync"}
Scanned == {"processing"} \cup Taking \cup Taken

StageFacts(s) ==
    /\ PluginFacts(s.plugin)
    /\ s.pc \in Unread \cup Asking => s.processed = 0 /\ s.skipped = 0 /\ s.errors = 0
    /\ s.pc \in Asking => s.plugin.at # "returned"
    /\ s.pc \in Scanned => s.plugin.at = "returned"
    /\ s.pc \in {"processing", "completed"} \cup Taking =>
          s.processed + s.skipped + s.errors + Len(s.todo) = Len(s.plugin.found)
    /\ s.pc \in Taking => s.todo # <<>>
    /\ s.pc \in {"discovered", "updated"} => ~Head(s.todo).deleted
    /\ s.pc \in Taken => s.todo = <<>>
    /\ s.pc = "lastSync" => s.syncedAt <= now

(* What consumers are owed: the items that are there and not excused.        *)
Owed == SourceItems \ (Archived \cup excused)
Handled(e) == e \in announced \/ e.id \in excused \/ <<"deleted", e.id>> \in told

(* What is owed and was edited since is gathered, or still to be listed.     *)
Finding(p, begun) ==
    \A i \in Owed : Recent(i, begun, p.since) =>
        ExternalItem(i, begun) \in Gathered(p) \/ StillListed(p, i)

NewsFacts(s) ==
    /\ s.pc \in Reading =>
          /\ \A i \in SourceItems \ excused : s.begun[i] = source[i]
          /\ \A i \in Owed : s.begun[i] < s.plugin.since => ExternalItem(i, s.begun) \in announced
          /\ Finding(s.plugin, s.begun)
    /\ s.pc \in Scanned => \A e \in ToSet(s.plugin.found) \ ToSet(s.todo) : Handled(e)
    /\ s.pc \in {"tell", "done"} => \A i \in Owed : ExternalItem(i, s.begun) \in announced

JobFacts(c) ==
    /\ c \in activeJobIds <=> At(c) \in Executing
    /\ syncJobs[c].status = "completed" =>
          syncJobs[c].discovered = syncJobs[c].processed + syncJobs[c].skipped + syncJobs[c].errors
    /\ At(c) \in {"upsert", "lastSync", "tell", "done"} => syncJobs[c].status = "completed"
    /\ At(c) = "tellFailed" => syncJobs[c].status = "failed"
    /\ <<"completed", c>> \in told => At(c) = "done"
    /\ <<"failed", c>> \in told => At(c) = "threw" /\ syncJobs[c].status = "failed"

HeardBefore == \A i \in Owed : source[i] < lastSynced => ExternalItem(i, source) \in announced

JobsFacts == \A c \in SyncCalls : JobFacts(c)
SyncsFacts == \A c \in SyncCalls : \A s \in {syncs[c]} : StageFacts(s) /\ NewsFacts(s)

SyncInv == SyncTypes /\ JobsFacts /\ SyncsFacts /\ HeardBefore /\ KnownIsAnnounced

LEMMA ThingOf ==
    ASSUME NEW f \in [SourceItems -> 1..MaxNow], NEW i \in SourceItems
    PROVE  ExternalItem(i, f) \in Things
<1> DEFINE e == ExternalItem(i, f)
<1>1. e.deleted = (i \in Archived) /\ e.id = i /\ e.checksum = f[i]
  BY DEF ExternalItem
<1>2. e \in [id : SourceItems, checksum : 1..MaxNow, deleted : BOOLEAN]
  <2>1. (i \in Archived) \in BOOLEAN
    OBVIOUS
  <2> QED BY <2>1 DEF ExternalItem
<1> QED BY <1>1, <1>2 DEF Things

(* What an answer gives is what was asked of it, in some order.              *)
LEMMA AnswerElements ==
    ASSUME NEW f \in [SourceItems -> 1..MaxNow], NEW I, I \subseteq SourceItems
    PROVE  /\ ExternalItems(I, f) \in Seq(Things)
           /\ ToSet(ExternalItems(I, f)) = {ExternalItem(i, f) : i \in I}
<1> DEFINE T == {ExternalItem(i, f) : i \in I}
           g == [i \in I |-> ExternalItem(i, f)]
<1>1. IsFiniteSet(I)
  BY SyncAssumption, FS_Subset
<1>2. g \in Surjection(I, T)
  BY DEF Surjection
<1>3. IsFiniteSet(T)
  <2> HIDE DEF T, g
  <2> QED BY <1>1, <1>2, FS_Surjection
<1>4. T \subseteq Things
  BY ThingOf
<1> HIDE DEF T
<1>5. SetToSeq(T) \in Seq(T) /\ ToSet(SetToSeq(T)) = T
  BY <1>3, SetAsSequence
<1>6. SetToSeq(T) \in Seq(Things)
  BY <1>4, <1>5
<1>7. ExternalItems(I, f) = SetToSeq(T)
  BY DEF ExternalItems, T
<1> QED BY <1>5, <1>6, <1>7 DEF T

LEMMA ListsOfItems ==
    /\ Len(PageLists) \in Nat \ {0} /\ Len(DatabaseLists) \in Nat \ {0}
    /\ \A n \in 1..Len(PageLists) : PageLists[n] \subseteq SourceItems
    /\ \A n \in 1..Len(DatabaseLists) : DatabaseLists[n] \subseteq SourceItems
    /\ \A i \in SourceItems : PagesIn[i] \subseteq SourceItems
    /\ \A i \in SourceItems \ Archived :
          \/ \E n \in 1..Len(PageLists) : i \in PageLists[n]
          \/ \E n \in 1..Len(DatabaseLists) : i \in DatabaseLists[n]
<1> DEFINE Subsets == SUBSET SourceItems
<1>1. /\ PageLists \in Seq(Subsets) /\ PageLists # <<>>
      /\ DatabaseLists \in Seq(Subsets) /\ DatabaseLists # <<>>
      /\ PagesIn \in [SourceItems -> Subsets]
      /\ SourceItems \ Archived \subseteq UNION (ToSet(PageLists) \cup ToSet(DatabaseLists))
  BY SyncAssumption
<1>2. /\ Len(PageLists) \in Nat \ {0} /\ Len(DatabaseLists) \in Nat \ {0}
      /\ \A n \in 1..Len(PageLists) : PageLists[n] \in Subsets
      /\ \A n \in 1..Len(DatabaseLists) : DatabaseLists[n] \in Subsets
  <2> HIDE DEF Subsets
  <2> QED BY <1>1
<1>3. /\ \A x : x \in ToSet(PageLists) <=> \E n \in 1..Len(PageLists) : PageLists[n] = x
      /\ \A x : x \in ToSet(DatabaseLists) <=> \E n \in 1..Len(DatabaseLists) : DatabaseLists[n] = x
  <2> HIDE DEF Subsets
  <2> QED BY <1>1, ElementsByPosition
<1>4. \A i \in SourceItems \ Archived :
          \/ \E n \in 1..Len(PageLists) : i \in PageLists[n]
          \/ \E n \in 1..Len(DatabaseLists) : i \in DatabaseLists[n]
  BY <1>1, <1>3
<1> QED BY <1>1, <1>2, <1>4

(* The elements of two sequences, one after the other.                       *)
LEMMA JoinedElements ==
    ASSUME NEW S, NEW s \in Seq(S), NEW t \in Seq(S)
    PROVE  /\ s \o t \in Seq(S)
           /\ ToSet(s \o t) = ToSet(s) \cup ToSet(t)
<1> DEFINE j == s \o t
<1>1. /\ j \in Seq(S) /\ Len(s) \in Nat /\ Len(t) \in Nat /\ Len(j) = Len(s) + Len(t)
      /\ \A n \in 1..Len(s) : j[n] = s[n]
      /\ \A n \in 1..Len(t) : j[Len(s) + n] = t[n]
  BY ConcatProperties
<1> HIDE DEF j
<1>2. ASSUME NEW x \in ToSet(j) PROVE x \in ToSet(s) \cup ToSet(t)
  <2>1. PICK n \in 1..Len(j) : j[n] = x
    BY <1>1, ElementsByPosition
  <2>2. CASE n \in 1..Len(s)
    BY <1>1, <2>1, <2>2, ElementsByPosition
  <2>3. CASE n \notin 1..Len(s)
    <3>1. n - Len(s) \in 1..Len(t) /\ Len(s) + (n - Len(s)) = n
      BY <1>1, <2>3
    <3>2. t[n - Len(s)] = x
      BY <1>1, <2>1, <3>1
    <3> QED BY <3>1, <3>2, ElementsByPosition
  <2> QED BY <2>2, <2>3
<1>3. ASSUME NEW x \in ToSet(s) PROVE x \in ToSet(j)
  <2>1. PICK n \in 1..Len(s) : s[n] = x
    BY ElementsByPosition
  <2>2. n \in 1..Len(j)
    BY <1>1
  <2> QED BY <1>1, <2>1, <2>2, ElementsByPosition
<1>4. ASSUME NEW x \in ToSet(t) PROVE x \in ToSet(j)
  <2>1. PICK n \in 1..Len(t) : t[n] = x
    BY ElementsByPosition
  <2>2. Len(s) + n \in 1..Len(j)
    BY <1>1
  <2> QED BY <1>1, <2>1, <2>2, ElementsByPosition
<1> QED BY <1>1, <1>2, <1>3, <1>4 DEF j

LEMMA EmptyList == <<>> \in Seq(Things)
  OBVIOUS

(* The function under way returns.                                           *)
LEMMA ReturnedKeeps ==
    ASSUME NEW p \in PluginRecords, p.queue = <<>>, NEW next \in {"databases", "returned"}
    PROVE  /\ Returned(p, next) \in PluginRecords
           /\ Returned(p, next).at = next /\ Returned(p, next).page = 1
           /\ Returned(p, next).since = p.since
           /\ Returned(p, next).local = <<>> /\ Returned(p, next).queue = <<>>
           /\ Gathered(p) \subseteq Gathered(Returned(p, next))
<1>1. /\ p.found \in Seq(Things) /\ p.local \in Seq(Things)
      /\ p.found \o p.local \in Seq(Things)
      /\ ToSet(p.found \o p.local) = ToSet(p.found) \cup ToSet(p.local)
  <2>1. p.found \in Seq(Things) /\ p.local \in Seq(Things)
    BY DEF PluginRecords
  <2> QED BY <2>1, JoinedElements
<1>2. PICK joined : joined = p.found \o p.local
  OBVIOUS
<1>3. Returned(p, next) = [p EXCEPT !.at = next, !.page = 1, !.found = joined, !.local = <<>>]
  BY <1>2 DEF Returned
<1>4. joined \in Seq(Things) /\ ToSet(joined) = ToSet(p.found) \cup ToSet(p.local)
  BY <1>1, <1>2
<1>5. PICK q : q = [p EXCEPT !.at = next, !.page = 1, !.found = joined, !.local = <<>>]
  OBVIOUS
<1>6. /\ q \in PluginRecords /\ q.at = next /\ q.page = 1 /\ q.since = p.since
      /\ q.local = <<>> /\ q.queue = <<>> /\ q.found = joined
  <2>1. q = [at |-> next, page |-> 1, since |-> p.since, found |-> joined, local |-> <<>>,
             queue |-> p.queue, retries |-> p.retries]
    BY <1>5 DEF PluginRecords
  <2>2. p.since \in Nat /\ p.retries \in 0..NotionRetries
    BY DEF PluginRecords
  <2> QED BY <1>4, <2>1, <2>2, EmptyList DEF PluginRecords
<1>7. Gathered(p) \subseteq Gathered(q)
  BY <1>4, <1>6, EmptyElements DEF Gathered
<1> QED BY <1>3, <1>5, <1>6, <1>7

LEMMA PluginLiteral ==
    ASSUME NEW p \in PluginRecords
    PROVE  /\ p = [at |-> p.at, page |-> p.page, since |-> p.since, found |-> p.found,
                   local |-> p.local, queue |-> p.queue, retries |-> p.retries]
           /\ p.at \in {"pages", "databases", "query", "returned"}
           /\ p.page \in Nat \ {0} /\ p.since \in Nat /\ p.retries \in 0..NotionRetries
           /\ p.found \in Seq(Things) /\ p.local \in Seq(Things) /\ p.queue \in Seq(Things)
BY DEF PluginRecords

LEMMA PluginOf ==
    ASSUME NEW at \in {"pages", "databases", "query", "returned"}, NEW page \in Nat \ {0},
           NEW since \in Nat, NEW found \in Seq(Things), NEW local \in Seq(Things),
           NEW queue \in Seq(Things), NEW retries \in 0..NotionRetries
    PROVE  [at |-> at, page |-> page, since |-> since, found |-> found, local |-> local,
            queue |-> queue, retries |-> retries] \in PluginRecords
BY DEF PluginRecords

(* A database is looked at, and asked for its pages; or the listing goes on, *)
(* or ends.  Nothing gathered is lost, and what is still listed stays so.    *)
LEMMA LooksAt ==
    ASSUME NEW p \in PluginRecords
    PROVE  /\ LookAt(p) \in PluginRecords /\ PluginFacts(LookAt(p))
           /\ LookAt(p).since = p.since
           /\ Gathered(p) \subseteq Gathered(LookAt(p))
           /\ \A i : (\E n \in p.page..Len(DatabaseLists) : i \in DatabaseLists[n])
                        => StillListed(LookAt(p), i)
<1>1. /\ p = [at |-> p.at, page |-> p.page, since |-> p.since, found |-> p.found,
              local |-> p.local, queue |-> p.queue, retries |-> p.retries]
      /\ p.page \in Nat \ {0} /\ p.since \in Nat /\ p.retries \in 0..NotionRetries
      /\ p.found \in Seq(Things) /\ p.local \in Seq(Things) /\ p.queue \in Seq(Things)
  BY PluginLiteral
<1>2. Len(DatabaseLists) \in Nat \ {0}
  BY ListsOfItems
<1>3. CASE p.since # 0 /\ p.queue # <<>>
  <2>1. PICK more : more = Append(p.local, Head(p.queue))
    OBVIOUS
  <2>2. PICK q : q = [at |-> "query", page |-> p.page, since |-> p.since, found |-> p.found,
                      local |-> more, queue |-> p.queue, retries |-> p.retries]
    OBVIOUS
  <2>3. LookAt(p) = q
    <3>1. LookAt(p) = [p EXCEPT !.at = "query", !.local = more]
      BY <1>3, <2>1 DEF LookAt
    <3> QED BY <1>1, <2>2, <3>1
  <2>4. more \in Seq(Things) /\ ToSet(p.local) \cup {Head(p.queue)} \subseteq ToSet(more)
    <3>1. Head(p.queue) \in Things
      BY <1>1, <1>3, TailElements
    <3>2. /\ Append(p.local, Head(p.queue)) \in Seq(Things)
          /\ ToSet(Append(p.local, Head(p.queue))) = ToSet(p.local) \cup {Head(p.queue)}
      BY <1>1, <3>1, AppendElements
    <3> QED BY <2>1, <3>2
  <2>5. q \in PluginRecords
    BY <1>1, <2>2, <2>4, PluginOf
  <2>6. PluginFacts(q) /\ q.since = p.since
    BY <1>3, <2>2, <2>4 DEF PluginFacts
  <2>7. Gathered(p) \subseteq Gathered(q)
    BY <2>2, <2>4 DEF Gathered
  <2>8. \A i : (\E n \in p.page..Len(DatabaseLists) : i \in DatabaseLists[n]) => StillListed(q, i)
    BY <2>2 DEF StillListed
  <2> QED BY <2>3, <2>5, <2>6, <2>7, <2>8
<1>4. CASE ~(p.since # 0 /\ p.queue # <<>>)
  <2>1. PICK more : more = p.local \o p.queue
    OBVIOUS
  <2>2. PICK q : q = [p EXCEPT !.at = "databases", !.local = more, !.queue = <<>>]
    OBVIOUS
  <2>3. LookAt(p) = IF p.page > Len(DatabaseLists) THEN Returned(q, "returned") ELSE q
    BY <1>4, <2>1, <2>2 DEF LookAt
  <2>4. q = [at |-> "databases", page |-> p.page, since |-> p.since, found |-> p.found,
             local |-> more, queue |-> <<>>, retries |-> p.retries]
    BY <2>2 DEF PluginRecords
  <2>5. more \in Seq(Things) /\ ToSet(more) = ToSet(p.local) \cup ToSet(p.queue)
    BY <1>1, <2>1, JoinedElements
  <2>6. q \in PluginRecords
    BY <1>1, <2>4, <2>5, EmptyList, PluginOf
  <2>7. Gathered(p) \subseteq Gathered(q)
    BY <2>4, <2>5 DEF Gathered
  <2>8. CASE p.page > Len(DatabaseLists)
    <3>1. PICK r : r = Returned(q, "returned")
      OBVIOUS
    <3>2. /\ r \in PluginRecords /\ r.at = "returned" /\ r.page = 1 /\ r.since = p.since
          /\ r.local = <<>> /\ r.queue = <<>> /\ Gathered(q) \subseteq Gathered(r)
      BY <2>4, <2>6, <3>1, ReturnedKeeps
    <3>3. PluginFacts(r)
      BY <3>2 DEF PluginFacts
    <3>4. \A n \in p.page..Len(DatabaseLists) : FALSE
      BY <1>1, <1>2, <2>8
    <3> QED BY <2>3, <2>7, <2>8, <3>1, <3>2, <3>3, <3>4
  <2>9. CASE ~(p.page > Len(DatabaseLists))
    <3>1. PluginFacts(q)
      BY <1>1, <1>2, <2>4, <2>9 DEF PluginFacts
    <3>2. \A i : (\E n \in p.page..Len(DatabaseLists) : i \in DatabaseLists[n]) => StillListed(q, i)
      BY <2>4 DEF StillListed
    <3> QED BY <2>4, <2>3, <2>6, <2>7, <2>9, <3>1, <3>2
  <2> QED BY <2>8, <2>9
<1> QED BY <1>3, <1>4

(* What an item that is not excused was when the job began, it still is.     *)
LEMMA SameItem ==
    ASSUME NEW begun \in [SourceItems -> 1..MaxNow],
           \A i \in SourceItems \ excused : begun[i] = source[i], NEW i \in Owed, NEW since
    PROVE  /\ ExternalItem(i, begun) = ExternalItem(i, source)
           /\ Recent(i, begun, since) => Recent(i, source, since) /\ Wanted(i, source, since)
<1>1. begun[i] = source[i] /\ i \notin Archived
  BY DEF Owed
<1> QED BY <1>1 DEF ExternalItem, Recent, Wanted

LEMMA PagesAnswer ==
    ASSUME source \in [SourceItems -> 1..MaxNow], NEW begun \in [SourceItems -> 1..MaxNow],
           \A i \in SourceItems \ excused : begun[i] = source[i],
           NEW p \in PluginRecords, PluginFacts(p), Finding(p, begun), p.at = "pages"
    PROVE  /\ PagesListed(p, source) \in PluginRecords /\ PluginFacts(PagesListed(p, source))
           /\ PagesListed(p, source).since = p.since
           /\ Finding(PagesListed(p, source), begun)
<1>1. /\ p.page \in Nat \ {0} /\ p.since \in Nat /\ p.retries \in 0..NotionRetries
      /\ p.found \in Seq(Things) /\ p.local \in Seq(Things) /\ p.queue \in Seq(Things)
  BY PluginLiteral
<1>2. /\ p.page \in 1..Len(PageLists) /\ p.queue = <<>>
      /\ Len(PageLists) \in Nat \ {0} /\ Len(DatabaseLists) \in Nat \ {0}
  BY <1>1, ListsOfItems DEF PluginFacts
<1>3. PICK answer : answer = Listed(PageLists[p.page], source, p.since)
  OBVIOUS
<1>4. /\ answer \in Seq(Things)
      /\ \A i \in PageLists[p.page] : Wanted(i, source, p.since) =>
            ExternalItem(i, source) \in ToSet(answer)
  <2> DEFINE I == {i \in PageLists[p.page] : Wanted(i, source, p.since)}
  <2>1. I \subseteq SourceItems
    BY <1>2, ListsOfItems
  <2>2. answer = ExternalItems(I, source)
    BY <1>3 DEF Listed
  <2>3. /\ ExternalItems(I, source) \in Seq(Things)
        /\ ToSet(ExternalItems(I, source)) = {ExternalItem(i, source) : i \in I}
    <3> HIDE DEF I
    <3> QED BY <2>1, AnswerElements
  <2> QED BY <2>2, <2>3
<1>5. PICK more : more = p.local \o answer
  OBVIOUS
<1>6. more \in Seq(Things) /\ ToSet(more) = ToSet(p.local) \cup ToSet(answer)
  BY <1>1, <1>4, <1>5, JoinedElements
<1>7. PICK q : q = [p EXCEPT !.page = p.page + 1, !.retries = 0, !.local = more]
  OBVIOUS
<1>8. q = [at |-> p.at, page |-> p.page + 1, since |-> p.since, found |-> p.found,
           local |-> more, queue |-> p.queue, retries |-> 0]
  BY <1>7 DEF PluginRecords
<1>9. q \in PluginRecords
  <2>1. p.page + 1 \in Nat \ {0} /\ 0 \in 0..NotionRetries
    BY <1>1, SyncAssumption
  <2>2. p.at \in {"pages", "databases", "query", "returned"}
    BY PluginLiteral
  <2> QED BY <1>1, <1>6, <1>8, <2>1, <2>2, PluginOf
<1>10. PagesListed(p, source) = IF p.page = Len(PageLists) THEN Returned(q, "databases") ELSE q
  BY <1>3, <1>5, <1>7 DEF PagesListed
<1>11. PICK r : r = PagesListed(p, source)
  OBVIOUS
<1>12. /\ r \in PluginRecords /\ PluginFacts(r) /\ r.since = p.since
       /\ Gathered(q) \subseteq Gathered(r)
       /\ \A i : \/ \E n \in (p.page + 1)..Len(PageLists) : i \in PageLists[n]
                 \/ \E n \in 1..Len(DatabaseLists) : i \in DatabaseLists[n]
                 => StillListed(r, i)
  <2>1. CASE p.page = Len(PageLists)
    <3>1. r = Returned(q, "databases")
      BY <1>10, <1>11, <2>1
    <3>2. /\ r \in PluginRecords /\ r.at = "databases" /\ r.page = 1 /\ r.since = p.since
          /\ r.local = <<>> /\ r.queue = <<>> /\ Gathered(q) \subseteq Gathered(r)
      BY <1>2, <1>8, <1>9, <3>1, ReturnedKeeps
    <3>3. PluginFacts(r)
      BY <1>2, <3>2 DEF PluginFacts
    <3>4. \A n \in (p.page + 1)..Len(PageLists) : FALSE
      BY <1>2, <2>1
    <3> QED BY <3>2, <3>3, <3>4 DEF StillListed
  <2>2. CASE p.page # Len(PageLists)
    <3>1. r = q /\ q.at = "pages" /\ q.page = p.page + 1
      BY <1>8, <1>10, <1>11, <2>2
    <3>2. PluginFacts(q)
      BY <1>2, <1>8, <2>2 DEF PluginFacts
    <3> QED BY <1>8, <1>9, <3>1, <3>2 DEF StillListed
  <2> QED BY <2>1, <2>2
<1>13. Gathered(p) \subseteq Gathered(q) /\ ToSet(answer) \subseteq Gathered(q)
  BY <1>6, <1>8 DEF Gathered
<1>14. ASSUME NEW i \in Owed, Recent(i, begun, p.since)
       PROVE  ExternalItem(i, begun) \in Gathered(r) \/ StillListed(r, i)
  <2>1. ExternalItem(i, begun) \in Gathered(p) \/ StillListed(p, i)
    BY <1>14 DEF Finding
  <2>2. ExternalItem(i, begun) = ExternalItem(i, source) /\ Wanted(i, source, p.since)
    BY <1>14, SameItem
  <2>3. ASSUME StillListed(p, i)
        PROVE  \/ i \in PageLists[p.page]
               \/ \E n \in (p.page + 1)..Len(PageLists) : i \in PageLists[n]
               \/ \E n \in 1..Len(DatabaseLists) : i \in DatabaseLists[n]
    <3>1. \A n \in p.page..Len(PageLists) : n = p.page \/ n \in (p.page + 1)..Len(PageLists)
      BY <1>2
    <3> QED BY <2>3, <3>1 DEF StillListed
  <2> QED BY <1>4, <1>12, <1>13, <2>1, <2>2, <2>3
<1> QED BY <1>11, <1>12, <1>14 DEF Finding

LEMMA DatabasesAnswer ==
    ASSUME source \in [SourceItems -> 1..MaxNow], NEW begun \in [SourceItems -> 1..MaxNow],
           \A i \in SourceItems \ excused : begun[i] = source[i],
           NEW p \in PluginRecords, PluginFacts(p), Finding(p, begun), p.at = "databases"
    PROVE  /\ DatabasesListed(p, source) \in PluginRecords
           /\ PluginFacts(DatabasesListed(p, source))
           /\ DatabasesListed(p, source).since = p.since
           /\ Finding(DatabasesListed(p, source), begun)
<1>1. /\ p.page \in Nat \ {0} /\ p.since \in Nat /\ p.retries \in 0..NotionRetries
      /\ p.found \in Seq(Things) /\ p.local \in Seq(Things) /\ p.queue \in Seq(Things)
  BY PluginLiteral
<1>2. p.page \in 1..Len(DatabaseLists) /\ p.queue = <<>> /\ Len(DatabaseLists) \in Nat \ {0}
  BY <1>1, ListsOfItems DEF PluginFacts
<1>3. PICK answer : answer = Listed(DatabaseLists[p.page], source, p.since)
  OBVIOUS
<1>4. /\ answer \in Seq(Things)
      /\ \A i \in DatabaseLists[p.page] : Wanted(i, source, p.since) =>
            ExternalItem(i, source) \in ToSet(answer)
  <2> DEFINE I == {i \in DatabaseLists[p.page] : Wanted(i, source, p.since)}
  <2>1. I \subseteq SourceItems
    BY <1>2, ListsOfItems
  <2>2. answer = ExternalItems(I, source)
    BY <1>3 DEF Listed
  <2>3. /\ ExternalItems(I, source) \in Seq(Things)
        /\ ToSet(ExternalItems(I, source)) = {ExternalItem(i, source) : i \in I}
    <3> HIDE DEF I
    <3> QED BY <2>1, AnswerElements
  <2> QED BY <2>2, <2>3
<1>5. PICK q : q = [p EXCEPT !.page = p.page + 1, !.retries = 0, !.queue = answer]
  OBVIOUS
<1>6. q = [at |-> p.at, page |-> p.page + 1, since |-> p.since, found |-> p.found,
           local |-> p.local, queue |-> answer, retries |-> 0]
  BY <1>5 DEF PluginRecords
<1>7. q \in PluginRecords
  <2>1. p.page + 1 \in Nat \ {0} /\ 0 \in 0..NotionRetries
    BY <1>1, SyncAssumption
  <2>2. p.at \in {"pages", "databases", "query", "returned"}
    BY PluginLiteral
  <2> QED BY <1>1, <1>4, <1>6, <2>1, <2>2, PluginOf
<1>8. PICK r : r = DatabasesListed(p, source)
  OBVIOUS
<1>9. r = LookAt(q)
  BY <1>3, <1>5, <1>8 DEF DatabasesListed
<1>10. /\ r \in PluginRecords /\ PluginFacts(r) /\ r.since = p.since
       /\ Gathered(q) \subseteq Gathered(r)
       /\ \A i : (\E n \in (p.page + 1)..Len(DatabaseLists) : i \in DatabaseLists[n])
                    => StillListed(r, i)
  <2>1. q.page = p.page + 1 /\ q.since = p.since
    BY <1>6
  <2> QED BY <1>7, <1>9, <2>1, LooksAt
<1>11. Gathered(p) \subseteq Gathered(q) /\ ToSet(answer) \subseteq Gathered(q)
  BY <1>2, <1>6, EmptyElements DEF Gathered
<1>12. ASSUME NEW i \in Owed, Recent(i, begun, p.since)
       PROVE  ExternalItem(i, begun) \in Gathered(r) \/ StillListed(r, i)
  <2>1. ExternalItem(i, begun) \in Gathered(p) \/ StillListed(p, i)
    BY <1>12 DEF Finding
  <2>2. ExternalItem(i, begun) = ExternalItem(i, source) /\ Wanted(i, source, p.since)
    BY <1>12, SameItem
  <2>3. ASSUME StillListed(p, i)
        PROVE  \/ i \in DatabaseLists[p.page]
               \/ \E n \in (p.page + 1)..Len(DatabaseLists) : i \in DatabaseLists[n]
    <3>1. \A n \in p.page..Len(DatabaseLists) : n = p.page \/ n \in (p.page + 1)..Len(DatabaseLists)
      BY <1>2
    <3> QED BY <2>3, <3>1 DEF StillListed
  <2> QED BY <1>4, <1>10, <1>11, <2>1, <2>2, <2>3
<1> QED BY <1>8, <1>10, <1>12 DEF Finding

LEMMA QueryAnswer ==
    ASSUME source \in [SourceItems -> 1..MaxNow], NEW begun \in [SourceItems -> 1..MaxNow],
           NEW p \in PluginRecords, PluginFacts(p), Finding(p, begun), p.at = "query"
    PROVE  /\ DatabaseQueried(p, source) \in PluginRecords
           /\ PluginFacts(DatabaseQueried(p, source))
           /\ DatabaseQueried(p, source).since = p.since
           /\ Finding(DatabaseQueried(p, source), begun)
<1>1. /\ p.page \in Nat \ {0} /\ p.since \in Nat
      /\ p.found \in Seq(Things) /\ p.local \in Seq(Things) /\ p.queue \in Seq(Things)
  BY PluginLiteral
<1>2. p.queue # <<>> /\ Head(p.queue) \in ToSet(p.local)
  BY DEF PluginFacts
<1>3. /\ Tail(p.queue) \in Seq(Things) /\ Head(p.queue) \in Things
      /\ ToSet(p.queue) = ToSet(Tail(p.queue)) \cup {Head(p.queue)}
  BY <1>1, <1>2, TailElements
<1>4. PICK answer : answer = InDatabase(Head(p.queue).id, source, p.since)
  OBVIOUS
<1>5. answer \in Seq(Things)
  <2> DEFINE d == Head(p.queue).id
             I == {i \in PagesIn[d] : Recent(i, source, p.since)}
  <2>1. d \in SourceItems
    BY <1>3 DEF Things
  <2>2. I \subseteq SourceItems
    BY <2>1, ListsOfItems
  <2>3. answer = ExternalItems(I, source)
    BY <1>4 DEF InDatabase
  <2> HIDE DEF I
  <2> QED BY <2>2, <2>3, AnswerElements
<1>6. PICK more : more = p.local \o answer
  OBVIOUS
<1>7. more \in Seq(Things) /\ ToSet(p.local) \subseteq ToSet(more)
  BY <1>1, <1>5, <1>6, JoinedElements
<1>8. PICK rest : rest = Tail(p.queue)
  OBVIOUS
<1>9. PICK q : q = [p EXCEPT !.retries = 0, !.queue = rest, !.local = more]
  OBVIOUS
<1>10. q = [at |-> p.at, page |-> p.page, since |-> p.since, found |-> p.found,
            local |-> more, queue |-> rest, retries |-> 0]
  BY <1>9 DEF PluginRecords
<1>11. q \in PluginRecords
  <2>1. 0 \in 0..NotionRetries
    BY SyncAssumption
  <2>2. p.at \in {"pages", "databases", "query", "returned"} /\ rest \in Seq(Things)
    BY <1>3, <1>8, PluginLiteral
  <2> QED BY <1>1, <1>7, <1>10, <2>1, <2>2, PluginOf
<1>12. PICK r : r = DatabaseQueried(p, source)
  OBVIOUS
<1>13. r = LookAt(q)
  BY <1>4, <1>6, <1>8, <1>9, <1>12 DEF DatabaseQueried
<1>14. /\ r \in PluginRecords /\ PluginFacts(r) /\ r.since = p.since
       /\ Gathered(q) \subseteq Gathered(r)
       /\ \A i : (\E n \in p.page..Len(DatabaseLists) : i \in DatabaseLists[n])
                    => StillListed(r, i)
  <2>1. q.page = p.page /\ q.since = p.since
    BY <1>10
  <2> QED BY <1>11, <1>13, <2>1, LooksAt
<1>15. Gathered(p) \subseteq Gathered(q)
  BY <1>2, <1>3, <1>7, <1>8, <1>10 DEF Gathered
<1>16. \A i : StillListed(p, i) => StillListed(r, i)
  BY <1>14 DEF StillListed
<1> QED BY <1>12, <1>14, <1>15, <1>16 DEF Finding

(* An answer of Notion: nothing that is owed is lost.                        *)
LEMMA NotionAnswer ==
    ASSUME source \in [SourceItems -> 1..MaxNow], NEW begun \in [SourceItems -> 1..MaxNow],
           \A i \in SourceItems \ excused : begun[i] = source[i],
           NEW p \in PluginRecords, PluginFacts(p), Finding(p, begun), p.at # "returned"
    PROVE  /\ NotionAnswered(p, source) \in PluginRecords
           /\ PluginFacts(NotionAnswered(p, source))
           /\ NotionAnswered(p, source).since = p.since
           /\ Finding(NotionAnswered(p, source), begun)
<1>1. p.at \in {"pages", "databases", "query"}
  BY PluginLiteral
<1>2. CASE p.at = "pages"
  BY <1>2, PagesAnswer DEF NotionAnswered
<1>3. CASE p.at = "databases"
  BY <1>3, DatabasesAnswer DEF NotionAnswered
<1>4. CASE p.at = "query"
  BY <1>4, QueryAnswer DEF NotionAnswered
<1> QED BY <1>1, <1>2, <1>3, <1>4

(* A refusal: the sync waits, or is cut short.                               *)
LEMMA NotionRefusal ==
    ASSUME NEW p \in PluginRecords, PluginFacts(p),
           NEW q \in {SyncCut(p), Throttled(p)}
    PROVE  /\ q \in PluginRecords /\ PluginFacts(q) /\ q.since = p.since
           /\ \/ q.at = "returned"
              \/ /\ q.at = p.at /\ Gathered(q) = Gathered(p)
                 /\ \A i : StillListed(p, i) => StillListed(q, i)
<1>1. /\ p.at \in {"pages", "databases", "query", "returned"}
      /\ p.page \in Nat \ {0} /\ p.since \in Nat /\ p.retries \in 0..NotionRetries
      /\ p.found \in Seq(Things) /\ p.local \in Seq(Things) /\ p.queue \in Seq(Things)
  BY PluginLiteral
<1>2. CASE q = SyncCut(p)
  <2>1. q = [at |-> "returned", page |-> p.page, since |-> p.since, found |-> p.found,
             local |-> <<>>, queue |-> <<>>, retries |-> p.retries]
    BY <1>2 DEF SyncCut, PluginRecords
  <2>2. q \in PluginRecords
    BY <1>1, <2>1, EmptyList, PluginOf
  <2>3. PluginFacts(q) /\ q.since = p.since /\ q.at = "returned"
    BY <2>1 DEF PluginFacts
  <2> QED BY <2>2, <2>3
<1>3. CASE q = Throttled(p) /\ p.retries < NotionRetries
  <2>1. q = [p EXCEPT !.retries = @ + 1]
    BY <1>1, <1>3, SyncAssumption DEF Throttled
  <2>2. q = [at |-> p.at, page |-> p.page, since |-> p.since, found |-> p.found,
             local |-> p.local, queue |-> p.queue, retries |-> p.retries + 1]
    BY <2>1 DEF PluginRecords
  <2>3. p.retries + 1 \in 0..NotionRetries
    BY <1>1, <1>3, SyncAssumption
  <2>4. q \in PluginRecords
    BY <1>1, <2>2, <2>3, PluginOf
  <2>5. PluginFacts(q) /\ q.since = p.since /\ q.at = p.at
    BY <2>2 DEF PluginFacts
  <2>6. Gathered(q) = Gathered(p) /\ \A i : StillListed(p, i) => StillListed(q, i)
    BY <2>2 DEF Gathered, StillListed
  <2> QED BY <2>4, <2>5, <2>6
<1>4. CASE q = Throttled(p) /\ ~(p.retries < NotionRetries)
  BY <1>1, <1>2, <1>4, SyncAssumption DEF Throttled
<1> QED BY <1>2, <1>3, <1>4

-----------------------------------------------------------------------------
LEMMA SyncFields ==
    ASSUME NEW s \in SyncRecords
    PROVE  /\ s.pc \in SyncPcs /\ s.plugin \in PluginRecords /\ s.todo \in Seq(Things)
           /\ s.processed \in Nat /\ s.skipped \in Nat /\ s.errors \in Nat
           /\ s.begun \in [SourceItems -> 1..MaxNow] \cup {<<>>} /\ s.syncedAt \in Nat
BY DEF SyncRecords

(* One sync becomes t; the others stay.                                      *)
Becomes(c, t) ==
    /\ t \in SyncRecords
    /\ syncs' \in [SyncCalls -> SyncRecords]
    /\ \A d \in SyncCalls : syncs'[d] = IF d = c THEN t ELSE syncs[d]

LEMMA SyncGoesOn ==
    ASSUME SyncTypes, NEW c \in SyncCalls, NEW s, s = syncs[c], NEW pc \in SyncPcs, SyncGoes(c, pc)
    PROVE  \E t \in SyncRecords :
              /\ Becomes(c, t) /\ t.pc = pc
              /\ t.plugin = s.plugin /\ t.todo = s.todo /\ t.processed = s.processed
              /\ t.skipped = s.skipped /\ t.errors = s.errors /\ t.begun = s.begun
              /\ t.syncedAt = s.syncedAt
<1>1. s \in SyncRecords /\ syncs \in [SyncCalls -> SyncRecords]
  BY DEF SyncTypes
<1>2. PICK t : t = [s EXCEPT !.pc = pc]
  OBVIOUS
<1>3. t = [pc |-> pc, plugin |-> s.plugin, todo |-> s.todo, processed |-> s.processed,
           skipped |-> s.skipped, errors |-> s.errors, begun |-> s.begun, syncedAt |-> s.syncedAt]
  BY <1>1, <1>2 DEF SyncRecords
<1>4. t \in SyncRecords
  BY <1>1, <1>3, SyncFields DEF SyncRecords
<1>5. syncs' = [syncs EXCEPT ![c] = t]
  BY <1>1, <1>2 DEF SyncGoes
<1>6. Becomes(c, t)
  BY <1>1, <1>4, <1>5 DEF Becomes
<1> QED BY <1>3, <1>4, <1>6

(* What was heard of stays so, and what is excused.                          *)
NewsGrow == announced \subseteq announced' /\ told \subseteq told' /\ excused \subseteq excused'

(* What was found, owed or heard of still is.                                *)
LEMMA NewsGoOn ==
    ASSUME NEW s, NEW t, t.plugin = s.plugin, t.todo = s.todo, t.begun = s.begun,
           NewsFacts(s), NewsGrow,
           t.pc \in Reading => /\ s.pc \in Reading
                               /\ \A i \in SourceItems \ excused' : source'[i] = source[i],
           t.pc \in Scanned => s.pc \in Scanned,
           t.pc \in {"tell", "done"} => s.pc \in {"tell", "done"}
    PROVE  NewsFacts(t)'
<1>1. ASSUME t.pc \in Reading
      PROVE  /\ \A i \in SourceItems \ excused' : t.begun[i] = source'[i]
             /\ \A i \in Owed' : t.begun[i] < t.plugin.since => ExternalItem(i, t.begun) \in announced'
             /\ Finding(t.plugin, t.begun)'
  <2>1. /\ \A i \in SourceItems \ excused : s.begun[i] = source[i]
        /\ \A i \in Owed : s.begun[i] < s.plugin.since => ExternalItem(i, s.begun) \in announced
        /\ Finding(s.plugin, s.begun)
    BY <1>1 DEF NewsFacts
  <2>2. SourceItems \ excused' \subseteq SourceItems \ excused /\ Owed' \subseteq Owed
    BY DEF NewsGrow, Owed
  <2>3. \A i \in SourceItems \ excused' : t.begun[i] = source'[i]
    BY <1>1, <2>1, <2>2
  <2>4. \A i \in Owed' : t.begun[i] < t.plugin.since => ExternalItem(i, t.begun) \in announced'
    BY <2>1, <2>2 DEF NewsGrow
  <2>5. Finding(t.plugin, t.begun)'
    BY <2>1, <2>2 DEF Finding
  <2> QED BY <2>3, <2>4, <2>5
<1>2. ASSUME t.pc \in Scanned
      PROVE  \A e \in ToSet(t.plugin.found) \ ToSet(t.todo) : Handled(e)'
  BY <1>2 DEF NewsFacts, NewsGrow, Handled
<1>3. ASSUME t.pc \in {"tell", "done"}
      PROVE  \A i \in Owed' : ExternalItem(i, t.begun) \in announced'
  <2>1. Owed' \subseteq Owed
    BY DEF NewsGrow, Owed
  <2> QED BY <1>3, <2>1 DEF NewsFacts, NewsGrow
<1> QED BY <1>1, <1>2, <1>3 DEF NewsFacts

(* The syncs that do not move.                                              *)
LEMMA OthersGoOn ==
    ASSUME SyncsFacts, NewsGrow, now' = now, source' = source,
           NEW c \in SyncCalls, NEW t, Becomes(c, t), StageFacts(t)', NewsFacts(t)'
    PROVE  SyncsFacts'
<1>1. ASSUME NEW d \in SyncCalls, NEW s \in {syncs'[d]}
      PROVE  StageFacts(s)' /\ NewsFacts(s)'
  <2>1. CASE d = c
    BY <1>1, <2>1 DEF Becomes
  <2>2. CASE d # c
    <3>1. s = syncs[d] /\ StageFacts(s) /\ NewsFacts(s)
      BY <1>1, <2>2 DEF Becomes, SyncsFacts
    <3>2. StageFacts(s)'
      BY <3>1 DEF StageFacts
    <3>3. NewsFacts(s)'
      BY <3>1, NewsGoOn
    <3> QED BY <3>2, <3>3
  <2> QED BY <2>1, <2>2
<1> QED BY <1>1 DEF SyncsFacts

(* Its job aside, the jobs stay as they are.                                 *)
OtherJobs(c) ==
    \A d \in SyncCalls \ {c} :
       /\ syncJobs'[d] = syncJobs[d]
       /\ d \in activeJobIds' <=> d \in activeJobIds
       /\ <<"completed", d>> \in told' => <<"completed", d>> \in told
       /\ <<"failed", d>> \in told' => <<"failed", d>> \in told

LEMMA OtherJobsStay ==
    ASSUME JobsFacts, NEW c \in SyncCalls, NEW t, Becomes(c, t), OtherJobs(c), JobFacts(c)'
    PROVE  JobsFacts'
<1>1. ASSUME NEW d \in SyncCalls
      PROVE  JobFacts(d)'
  <2>1. CASE d = c
    BY <2>1
  <2>2. CASE d # c
    <3>1. JobFacts(d) /\ syncs'[d] = syncs[d]
      BY <2>2 DEF JobsFacts, Becomes
    <3>2. /\ syncJobs'[d] = syncJobs[d]
          /\ d \in activeJobIds' <=> d \in activeJobIds
          /\ <<"completed", d>> \in told' => <<"completed", d>> \in told
          /\ <<"failed", d>> \in told' => <<"failed", d>> \in told
      BY <2>2 DEF OtherJobs
    <3>3. PICK job : job = syncJobs[d]
      OBVIOUS
    <3>4. PICK pc : pc = syncs[d].pc
      OBVIOUS
    <3> QED BY <3>1, <3>2, <3>3, <3>4 DEF JobFacts, At
  <2> QED BY <2>1, <2>2
<1> QED BY <1>1 DEF JobsFacts

(* What was known or heard of before stays so.                              *)
LEMMA AccountStays ==
    ASSUME HeardBefore, KnownIsAnnounced, NewsGrow, UNCHANGED <<source, lastSynced, syncState>>
    PROVE  HeardBefore' /\ KnownIsAnnounced'
<1>1. HeardBefore'
  <2>1. Owed' \subseteq Owed
    BY DEF NewsGrow, Owed
  <2>2. ASSUME NEW i \in Owed', source'[i] < lastSynced'
        PROVE  ExternalItem(i, source)' \in announced'
    BY <2>1, <2>2 DEF HeardBefore, NewsGrow, ExternalItem
  <2> QED BY <2>2 DEF HeardBefore
<1>2. KnownIsAnnounced'
  BY DEF KnownIsAnnounced, NewsGrow
<1> QED BY <1>1, <1>2

(* Steps of a sync that only say where it is.                               *)
Outside == {"refused", "abandoned", "threw", "crashed", "catch", "tellFailed"}
MayGo(s, pc) ==
    \/ pc \in Outside
    \/ s.pc \in Unread /\ pc \in Unread
    \/ s.pc \in Asking \ {"plugin"} /\ pc \in Asking
    \/ s.pc = "processing" /\ pc = IF s.todo = <<>> THEN "completed" ELSE "item"
    \/ s.pc = "item" /\ pc = "discovered" /\ ~Head(s.todo).deleted
    \/ s.pc = "discovered" /\ pc = "updated"
    \/ s.pc = "completed" /\ pc = "upsert"
    \/ s.pc = "tell" /\ pc = "done"

LEMMA SyncOnlyGoes ==
    ASSUME SyncTypes, SyncsFacts, NewsGrow, source' = source, now' = now,
           NEW c \in SyncCalls, NEW pc \in SyncPcs, SyncGoes(c, pc),
           \A s \in {syncs[c]} : MayGo(s, pc)
    PROVE  /\ SyncsFacts'
           /\ \E t \in SyncRecords : Becomes(c, t) /\ t.pc = pc
<1>1. PICK s : s = syncs[c]
  OBVIOUS
<1>2. s \in SyncRecords /\ StageFacts(s) /\ NewsFacts(s) /\ MayGo(s, pc)
  BY <1>1 DEF SyncTypes, SyncsFacts
<1>3. PICK t \in SyncRecords :
         /\ Becomes(c, t) /\ t.pc = pc
         /\ t.plugin = s.plugin /\ t.todo = s.todo /\ t.processed = s.processed
         /\ t.skipped = s.skipped /\ t.errors = s.errors /\ t.begun = s.begun
         /\ t.syncedAt = s.syncedAt
  BY <1>1, SyncGoesOn
<1>4. StageFacts(t)'
  <2>1. Len(s.todo) = 0 <=> s.todo = <<>>
    <3>1. s.todo \in Seq(Things)
      BY <1>2, SyncFields
    <3> QED BY <3>1
  <2> QED BY <1>2, <1>3, <2>1 DEF StageFacts, MayGo, Outside, Unread, Asking, Taking, Taken, Scanned
<1>5. NewsFacts(t)'
  <2>1. /\ t.pc \in Reading => s.pc \in Reading
        /\ t.pc \in Scanned => s.pc \in Scanned
        /\ t.pc \in {"tell", "done"} => s.pc \in {"tell", "done"}
    BY <1>2, <1>3 DEF MayGo, Outside, Unread, Asking, Taking, Taken, Scanned, Reading, Executing
  <2>2. \A i \in SourceItems \ excused' : source'[i] = source[i]
    OBVIOUS
  <2> QED BY <1>2, <1>3, <2>1, <2>2, NewsGoOn
<1>6. SyncsFacts'
  BY <1>3, <1>4, <1>5, OthersGoOn
<1> QED BY <1>3, <1>6

(* The types, when one sync moves.                                          *)
LEMMA TypesStay ==
    ASSUME SyncTypes, NEW c \in SyncCalls, NEW t, Becomes(c, t),
           UNCHANGED <<statements, now, source>>, lastSynced' \in 0..now,
           syncJobs' \in [SyncCalls -> JobRecords], activeJobIds' \subseteq SyncCalls,
           announced' \subseteq Things, excused' \subseteq SourceItems,
           \A e \in told' : e \in told \/ (e[1] = "deleted" => e[2] \in Archived),
           syncFaults' \in 0..MaxSyncFaults
    PROVE  SyncTypes'
BY DEF SyncTypes, Becomes

LEMMA SyncAt ==
    ASSUME SyncTypes, NEW c \in SyncCalls, NEW pc, SyncGoes(c, pc)
    PROVE  syncs'[c].pc = pc
<1>1. syncs \in [SyncCalls -> SyncRecords]
  BY DEF SyncTypes
<1>2. PICK s : s = syncs[c]
  OBVIOUS
<1>3. PICK t : t = [s EXCEPT !.pc = pc]
  OBVIOUS
<1>4. t.pc = pc
  BY <1>1, <1>2, <1>3 DEF SyncRecords
<1>5. syncs' = [syncs EXCEPT ![c] = t]
  BY <1>1, <1>2, <1>3 DEF SyncGoes
<1> QED BY <1>1, <1>4, <1>5

(* The news of a step are of its sync.                                      *)
NewsOf(c) ==
    \A e \in told' \ told : e[1] # "deleted" /\ (e[1] \in {"completed", "failed"} => e[2] = c)

LEMMA NewsOfOne ==
    ASSUME SyncTypes, NEW c \in SyncCalls, NewsOf(c),
           syncJobs' = [syncJobs EXCEPT ![c] = syncJobs'[c]],
           \A d \in SyncCalls \ {c} : d \in activeJobIds' <=> d \in activeJobIds
    PROVE  OtherJobs(c)
<1>1. \A d \in SyncCalls \ {c} : syncJobs'[d] = syncJobs[d]
  BY DEF SyncTypes
<1>2. ASSUME NEW d \in SyncCalls \ {c}
      PROVE  /\ <<"completed", d>> \in told' => <<"completed", d>> \in told
             /\ <<"failed", d>> \in told' => <<"failed", d>> \in told
  BY DEF NewsOf
<1> QED BY <1>1, <1>2 DEF OtherJobs

LEMMA SyncGoesKeeps ==
    ASSUME SyncInv, NEW c \in SyncCalls, NEW pc \in SyncPcs, SyncGoes(c, pc),
           \A s \in {syncs[c]} : MayGo(s, pc),
           UNCHANGED <<envVars, accountVars, announced, excused>>, told \subseteq told', NewsOf(c),
           syncJobs' \in [SyncCalls -> JobRecords],
           syncJobs' = [syncJobs EXCEPT ![c] = syncJobs'[c]],
           activeJobIds' \subseteq SyncCalls,
           \A d \in SyncCalls \ {c} : d \in activeJobIds' <=> d \in activeJobIds,
           syncFaults' \in 0..MaxSyncFaults, JobFacts(c)'
    PROVE  SyncInv'
<1>1. /\ SyncTypes /\ JobsFacts /\ SyncsFacts /\ HeardBefore /\ KnownIsAnnounced
      /\ UNCHANGED <<statements, source, now, syncState, lastSynced, announced, excused>>
  BY DEF SyncInv, envVars, accountVars
<1>2. NewsGrow
  BY <1>1 DEF NewsGrow
<1>3. SyncsFacts' /\ \E t \in SyncRecords : Becomes(c, t) /\ t.pc = pc
  BY <1>1, <1>2, SyncOnlyGoes
<1>4. PICK t \in SyncRecords : Becomes(c, t)
  BY <1>3
<1>5. OtherJobs(c)
  BY <1>1, NewsOfOne
<1>6. JobsFacts'
  BY <1>1, <1>4, <1>5, OtherJobsStay
<1>7. HeardBefore' /\ KnownIsAnnounced'
  BY <1>1, <1>2, AccountStays
<1>8. SyncTypes'
  <2>1. /\ lastSynced' \in 0..now /\ announced' \subseteq Things /\ excused' \subseteq SourceItems
        /\ \A e \in told' : e \in told \/ (e[1] = "deleted" => e[2] \in Archived)
    BY <1>1 DEF SyncTypes, NewsOf
  <2> QED BY <1>1, <1>4, <2>1, TypesStay
<1> QED BY <1>3, <1>6, <1>7, <1>8 DEF SyncInv

-----------------------------------------------------------------------------
(* The steps, one by one: the request, and the start of the execution.       *)
LEMMA RequestSteps ==
    ASSUME SyncInv, NEW c \in SyncCalls, PostSync(c) \/ CreateSyncJob(c) \/ PublishSyncRequested(c)
    PROVE  SyncInv'
<1>1. SyncTypes /\ JobFacts(c) /\ syncJobs \in [SyncCalls -> JobRecords] /\ syncJobs[c] \in JobRecords
      /\ activeJobIds \subseteq SyncCalls /\ syncFaults \in 0..MaxSyncFaults
  BY DEF SyncInv, SyncTypes, JobsFacts
<1>2. CASE PostSync(c)
  <2>1. /\ SyncGoes(c, "create") /\ syncs[c].pc = "idle"
        /\ UNCHANGED <<envVars, accountVars, announced, told, excused, syncFaults, syncJobs, activeJobIds>>
    BY <1>2 DEF PostSync, At, newsVars, historyVars
  <2>2. syncs'[c].pc = "create"
    BY <1>1, <2>1, SyncAt
  <2>3. JobFacts(c)'
    BY <1>1, <2>1, <2>2 DEF JobFacts, At, Executing
  <2>4. "create" \in SyncPcs /\ \A s \in {syncs[c]} : MayGo(s, "create")
    BY <2>1 DEF SyncPcs, MayGo, Unread
  <2>5. NewsOf(c) /\ syncJobs' = [syncJobs EXCEPT ![c] = syncJobs'[c]]
    BY <1>1, <2>1 DEF NewsOf
  <2> QED BY <1>1, <2>1, <2>3, <2>4, <2>5, SyncGoesKeeps
<1>3. CASE CreateSyncJob(c)
  <2>1. /\ SyncGoes(c, "request") /\ syncs[c].pc = "create"
        /\ UNCHANGED <<envVars, accountVars, announced, told, excused, syncFaults, activeJobIds>>
        /\ syncJobs' = [syncJobs EXCEPT ![c].status = "pending"]
    BY <1>3 DEF CreateSyncJob, At, newsVars, historyVars
  <2>2. syncs'[c].pc = "request"
    BY <1>1, <2>1, SyncAt
  <2>3. /\ syncJobs' \in [SyncCalls -> JobRecords] /\ syncJobs'[c].status = "pending"
        /\ syncJobs' = [syncJobs EXCEPT ![c] = syncJobs'[c]]
    BY <1>1, <2>1 DEF JobRecords
  <2>4. JobFacts(c)'
    BY <1>1, <2>1, <2>2, <2>3 DEF JobFacts, At, Executing
  <2>5. "request" \in SyncPcs /\ \A s \in {syncs[c]} : MayGo(s, "request")
    BY <2>1 DEF SyncPcs, MayGo, Unread
  <2>6. NewsOf(c)
    BY <2>1 DEF NewsOf
  <2> QED BY <1>1, <2>1, <2>3, <2>4, <2>5, <2>6, SyncGoesKeeps
<1>4. CASE PublishSyncRequested(c)
  <2>1. /\ SyncGoes(c, "load") /\ syncs[c].pc = "request"
        /\ UNCHANGED <<envVars, accountVars, announced, excused, syncFaults, syncJobs>>
        /\ activeJobIds' = activeJobIds \cup {c}
        /\ told' = told \cup {<<"requested", c>>}
    BY <1>4 DEF PublishSyncRequested, At, historyVars
  <2>2. syncs'[c].pc = "load"
    BY <1>1, <2>1, SyncAt
  <2>3. JobFacts(c)'
    BY <1>1, <2>1, <2>2 DEF JobFacts, At, Executing
  <2>4. "load" \in SyncPcs /\ \A s \in {syncs[c]} : MayGo(s, "load")
    BY <2>1 DEF SyncPcs, MayGo, Unread, Executing
  <2>5. NewsOf(c) /\ syncJobs' = [syncJobs EXCEPT ![c] = syncJobs'[c]]
    BY <1>1, <2>1 DEF NewsOf
  <2> QED BY <1>1, <2>1, <2>3, <2>4, <2>5, SyncGoesKeeps
<1> QED BY <1>2, <1>3, <1>4

LEMMA JobUpdated ==
    ASSUME SyncTypes, NEW c \in SyncCalls, NEW job \in JobRecords, NEW pc, NEW next,
           UpdateSyncJobStatus(c, pc, job, next)
    PROVE  /\ SyncGoes(c, next) /\ syncs[c].pc = pc /\ syncs'[c].pc = next
           /\ UNCHANGED <<envVars, accountVars, announced, told, excused, syncFaults, activeJobIds>>
           /\ syncJobs' \in [SyncCalls -> JobRecords] /\ syncJobs'[c] = job
           /\ syncJobs' = [syncJobs EXCEPT ![c] = syncJobs'[c]]
           /\ NewsOf(c) /\ told \subseteq told' /\ activeJobIds' \subseteq SyncCalls
           /\ syncFaults' \in 0..MaxSyncFaults
<1>1. /\ SyncGoes(c, next) /\ syncs[c].pc = pc /\ syncJobs' = [syncJobs EXCEPT ![c] = job]
      /\ UNCHANGED <<envVars, accountVars, announced, told, excused, syncFaults, activeJobIds>>
  BY DEF UpdateSyncJobStatus, At, newsVars, historyVars
<1>2. syncs'[c].pc = next
  BY <1>1, SyncAt
<1>3. syncJobs' \in [SyncCalls -> JobRecords] /\ syncJobs'[c] = job
      /\ syncJobs' = [syncJobs EXCEPT ![c] = syncJobs'[c]]
  BY <1>1 DEF SyncTypes
<1>4. NewsOf(c) /\ told \subseteq told' /\ activeJobIds' \subseteq SyncCalls
      /\ syncFaults' \in 0..MaxSyncFaults
  BY <1>1 DEF SyncTypes, NewsOf
<1> QED BY <1>1, <1>2, <1>3, <1>4

LEMMA JobWith ==
    ASSUME NEW job \in JobRecords,
           NEW status \in {"none", "pending", "scanning", "processing", "completed", "failed"}
    PROVE  /\ [job EXCEPT !.status = status] \in JobRecords
           /\ [job EXCEPT !.status = status].status = status
BY DEF JobRecords

LEMMA MarkSteps ==
    ASSUME SyncInv, NEW c \in SyncCalls,
           MarkScanning(c) \/ MarkProcessing(c) \/ MarkCompleted(c) \/ MarkFailed(c)
    PROVE  SyncInv'
<1>1. /\ SyncTypes /\ JobFacts(c) /\ syncJobs[c] \in JobRecords
      /\ \A s \in {syncs[c]} : s \in SyncRecords /\ StageFacts(s)
  BY DEF SyncInv, SyncTypes, JobsFacts, SyncsFacts
<1>2. PICK s : s = syncs[c]
  OBVIOUS
<1>3. PICK row : row = syncJobs[c]
  OBVIOUS
<1>4. row \in JobRecords /\ s \in SyncRecords /\ StageFacts(s)
  BY <1>1, <1>2, <1>3
<1>5. /\ s.todo \in Seq(Things) /\ s.plugin.found \in Seq(Things)
      /\ s.processed \in Nat /\ s.skipped \in Nat /\ s.errors \in Nat
  BY <1>4, SyncFields, PluginLiteral
<1>6. CASE MarkScanning(c)
  <2>1. PICK job : job = [row EXCEPT !.status = "scanning"]
    OBVIOUS
  <2>2. job \in JobRecords /\ job.status = "scanning"
    BY <1>4, <2>1, JobWith
  <2>3. UpdateSyncJobStatus(c, "scanning", job, "started")
    BY <1>3, <1>6, <2>1 DEF MarkScanning
  <2>4. /\ SyncGoes(c, "started") /\ syncs[c].pc = "scanning" /\ syncs'[c].pc = "started"
        /\ UNCHANGED <<envVars, accountVars, announced, told, excused, syncFaults, activeJobIds>>
        /\ syncJobs' \in [SyncCalls -> JobRecords] /\ syncJobs'[c] = job
        /\ syncJobs' = [syncJobs EXCEPT ![c] = syncJobs'[c]]
        /\ NewsOf(c) /\ told \subseteq told' /\ activeJobIds' \subseteq SyncCalls
        /\ syncFaults' \in 0..MaxSyncFaults
    BY <1>1, <2>2, <2>3, JobUpdated
  <2>5. JobFacts(c)'
    BY <1>1, <2>2, <2>4 DEF JobFacts, At, Executing
  <2>6. "started" \in SyncPcs /\ \A x \in {syncs[c]} : MayGo(x, "started")
    BY <2>4 DEF SyncPcs, Executing, MayGo, Asking
  <2> QED BY <2>4, <2>5, <2>6, SyncGoesKeeps
<1>7. CASE MarkProcessing(c)
  <2>1. PICK job : job = [row EXCEPT !.status = "processing", !.discovered = Len(s.todo)]
    OBVIOUS
  <2>2. job \in JobRecords /\ job.status = "processing"
    <3>1. Len(s.todo) \in Nat
      BY <1>5
    <3> QED BY <1>4, <2>1, <3>1 DEF JobRecords
  <2>3. PICK next : next = IF s.todo = <<>> THEN "completed" ELSE "item"
    OBVIOUS
  <2>4. UpdateSyncJobStatus(c, "processing", job, next)
    BY <1>2, <1>3, <1>7, <2>1, <2>3 DEF MarkProcessing
  <2>5. /\ SyncGoes(c, next) /\ syncs[c].pc = "processing" /\ syncs'[c].pc = next
        /\ UNCHANGED <<envVars, accountVars, announced, told, excused, syncFaults, activeJobIds>>
        /\ syncJobs' \in [SyncCalls -> JobRecords] /\ syncJobs'[c] = job
        /\ syncJobs' = [syncJobs EXCEPT ![c] = syncJobs'[c]]
        /\ NewsOf(c) /\ told \subseteq told' /\ activeJobIds' \subseteq SyncCalls
        /\ syncFaults' \in 0..MaxSyncFaults
    BY <1>1, <2>2, <2>4, JobUpdated
  <2>6. JobFacts(c)'
    BY <1>1, <2>2, <2>3, <2>5 DEF JobFacts, At, Executing
  <2>7. next \in SyncPcs /\ \A x \in {syncs[c]} : MayGo(x, next)
    BY <1>2, <2>3, <2>5 DEF SyncPcs, Executing, MayGo
  <2> QED BY <2>5, <2>6, <2>7, SyncGoesKeeps
<1>8. CASE MarkCompleted(c)
  <2>1. PICK job : job = [Counts(c) EXCEPT !.status = "completed"]
    OBVIOUS
  <2>2. UpdateSyncJobStatus(c, "completed", job, "upsert")
    BY <1>8, <2>1 DEF MarkCompleted
  <2>3. job = [status |-> "completed", discovered |-> Len(s.plugin.found),
               processed |-> s.processed, skipped |-> s.skipped, errors |-> s.errors]
    BY <1>2, <2>1 DEF Counts, NoJob
  <2>4. Len(s.plugin.found) \in Nat
    BY <1>5
  <2>5. job \in JobRecords
    BY <1>5, <2>3, <2>4 DEF JobRecords
  <2>6. /\ SyncGoes(c, "upsert") /\ syncs[c].pc = "completed" /\ syncs'[c].pc = "upsert"
        /\ UNCHANGED <<envVars, accountVars, announced, told, excused, syncFaults, activeJobIds>>
        /\ syncJobs' \in [SyncCalls -> JobRecords] /\ syncJobs'[c] = job
        /\ syncJobs' = [syncJobs EXCEPT ![c] = syncJobs'[c]]
        /\ NewsOf(c) /\ told \subseteq told' /\ activeJobIds' \subseteq SyncCalls
        /\ syncFaults' \in 0..MaxSyncFaults
    BY <1>1, <2>2, <2>5, JobUpdated
  <2>7. job.discovered = job.processed + job.skipped + job.errors
    <3>1. s.todo = <<>> /\ s.processed + s.skipped + s.errors + Len(s.todo) = Len(s.plugin.found)
      BY <1>2, <1>4, <2>6 DEF StageFacts, Taken
    <3> QED BY <1>5, <2>3, <2>4, <3>1
  <2>8. JobFacts(c)'
    BY <1>1, <2>3, <2>6, <2>7 DEF JobFacts, At, Executing
  <2>9. "upsert" \in SyncPcs /\ \A x \in {syncs[c]} : MayGo(x, "upsert")
    BY <2>6 DEF SyncPcs, Executing, MayGo
  <2> QED BY <2>6, <2>8, <2>9, SyncGoesKeeps
<1>9. CASE MarkFailed(c)
  <2>1. PICK job : job = [row EXCEPT !.status = "failed"]
    OBVIOUS
  <2>2. job \in JobRecords /\ job.status = "failed"
    BY <1>4, <2>1, JobWith
  <2>3. UpdateSyncJobStatus(c, "catch", job, "tellFailed")
    BY <1>3, <1>9, <2>1 DEF MarkFailed
  <2>4. /\ SyncGoes(c, "tellFailed") /\ syncs[c].pc = "catch" /\ syncs'[c].pc = "tellFailed"
        /\ UNCHANGED <<envVars, accountVars, announced, told, excused, syncFaults, activeJobIds>>
        /\ syncJobs' \in [SyncCalls -> JobRecords] /\ syncJobs'[c] = job
        /\ syncJobs' = [syncJobs EXCEPT ![c] = syncJobs'[c]]
        /\ NewsOf(c) /\ told \subseteq told' /\ activeJobIds' \subseteq SyncCalls
        /\ syncFaults' \in 0..MaxSyncFaults
    BY <1>1, <2>2, <2>3, JobUpdated
  <2>5. JobFacts(c)'
    BY <1>1, <2>2, <2>4 DEF JobFacts, At, Executing
  <2>6. "tellFailed" \in SyncPcs /\ \A x \in {syncs[c]} : MayGo(x, "tellFailed")
    BY <2>4 DEF SyncPcs, Executing, MayGo, Outside
  <2> QED BY <2>4, <2>5, <2>6, SyncGoesKeeps
<1> QED BY <1>6, <1>7, <1>8, <1>9

(* A step that only tells something, or fails, and goes on.                  *)
LEMMA ToldKeeps ==
    ASSUME SyncInv, NEW c \in SyncCalls, NEW pc \in SyncPcs, SyncGoes(c, pc),
           \A s \in {syncs[c]} : MayGo(s, pc),
           UNCHANGED <<envVars, accountVars, announced, excused, syncJobs>>,
           told \subseteq told', NewsOf(c),
           activeJobIds' = activeJobIds \/ activeJobIds' = activeJobIds \ {c},
           syncFaults' \in 0..MaxSyncFaults,
           c \in activeJobIds' <=> pc \in Executing,
           pc \in {"upsert", "lastSync", "tell", "done"} => syncJobs[c].status = "completed",
           pc = "tellFailed" => syncJobs[c].status = "failed",
           <<"completed", c>> \in told' => pc = "done",
           <<"failed", c>> \in told' => pc = "threw" /\ syncJobs[c].status = "failed"
    PROVE  SyncInv'
<1>1. SyncTypes /\ JobFacts(c)
  BY DEF SyncInv, JobsFacts
<1>2. syncs'[c].pc = pc
  BY <1>1, SyncAt
<1>3. JobFacts(c)'
  BY <1>1, <1>2 DEF JobFacts, At
<1>4. /\ syncJobs' \in [SyncCalls -> JobRecords]
      /\ syncJobs' = [syncJobs EXCEPT ![c] = syncJobs'[c]]
      /\ activeJobIds' \subseteq SyncCalls
  BY <1>1 DEF SyncTypes
<1> QED BY <1>3, <1>4, SyncGoesKeeps

LEMMA TellSteps ==
    ASSUME SyncInv, NEW c \in SyncCalls,
           \/ UpdateRefused(c) \/ PublishSyncStarted(c) \/ GetAccessToken(c)
           \/ PublishDocumentDiscovered(c) \/ PublishSyncCompleted(c) \/ PublishSyncFailed(c)
    PROVE  SyncInv'
<1>1. /\ JobFacts(c) /\ syncFaults \in 0..MaxSyncFaults
      /\ \A s \in {syncs[c]} : StageFacts(s)
  BY DEF SyncInv, SyncTypes, JobsFacts, SyncsFacts
<1>2. CASE UpdateRefused(c)
  <2>1. /\ SyncGoes(c, "threw") /\ syncs[c].pc = "scanning" /\ activeJobIds' = activeJobIds \ {c}
        /\ UNCHANGED <<envVars, accountVars, announced, told, excused, syncFaults, syncJobs>>
    BY <1>2 DEF UpdateRefused, Release, At, newsVars, historyVars
  <2>2. "threw" \in SyncPcs /\ "threw" \notin Executing /\ \A s \in {syncs[c]} : MayGo(s, "threw")
    BY DEF SyncPcs, Executing, MayGo, Outside
  <2>3. NewsOf(c) /\ told \subseteq told'
    BY <2>1 DEF NewsOf
  <2>4. <<"completed", c>> \notin told /\ <<"failed", c>> \notin told
    BY <1>1, <2>1 DEF JobFacts, At
  <2> QED BY <1>1, <2>1, <2>2, <2>3, <2>4, ToldKeeps
<1>3. CASE PublishSyncStarted(c)
  <2>1. /\ SyncGoes(c, "token") /\ syncs[c].pc = "started" /\ activeJobIds' = activeJobIds
        /\ UNCHANGED <<envVars, accountVars, announced, excused, syncFaults, syncJobs>>
        /\ told' = told \cup {<<"started", c>>}
    BY <1>3 DEF PublishSyncStarted, At, historyVars
  <2>2. "token" \in SyncPcs /\ "token" \in Executing /\ \A s \in {syncs[c]} : MayGo(s, "token")
    BY <2>1 DEF SyncPcs, Executing, MayGo, Asking
  <2>3. NewsOf(c) /\ told \subseteq told'
    BY <2>1 DEF NewsOf
  <2>4. <<"completed", c>> \notin told' /\ <<"failed", c>> \notin told' /\ c \in activeJobIds
    BY <1>1, <2>1 DEF JobFacts, At, Executing
  <2> QED BY <1>1, <2>1, <2>2, <2>3, <2>4, ToldKeeps
<1>4. CASE GetAccessToken(c)
  <2>1. /\ SyncGoes(c, "plugin") /\ syncs[c].pc = "token" /\ activeJobIds' = activeJobIds
        /\ UNCHANGED <<envVars, accountVars, announced, told, excused, syncFaults, syncJobs>>
    BY <1>4 DEF GetAccessToken, At, newsVars, historyVars
  <2>2. "plugin" \in SyncPcs /\ "plugin" \in Executing /\ \A s \in {syncs[c]} : MayGo(s, "plugin")
    BY <2>1 DEF SyncPcs, Executing, MayGo, Asking
  <2>3. NewsOf(c) /\ told \subseteq told'
    BY <2>1 DEF NewsOf
  <2>4. <<"completed", c>> \notin told' /\ <<"failed", c>> \notin told' /\ c \in activeJobIds
    BY <1>1, <2>1 DEF JobFacts, At, Executing
  <2> QED BY <1>1, <2>1, <2>2, <2>3, <2>4, ToldKeeps
<1>5. CASE PublishDocumentDiscovered(c)
  <2>1. PICK id : id = Item(c).id
    OBVIOUS
  <2>2. /\ SyncGoes(c, "updated") /\ syncs[c].pc = "discovered" /\ activeJobIds' = activeJobIds
        /\ UNCHANGED <<envVars, accountVars, announced, excused, syncFaults, syncJobs>>
        /\ told' = told \cup {<<"discovered", id>>}
    BY <1>5, <2>1 DEF PublishDocumentDiscovered, At, historyVars
  <2>3. "updated" \in SyncPcs /\ "updated" \in Executing /\ \A s \in {syncs[c]} : MayGo(s, "updated")
    BY <2>2 DEF SyncPcs, Executing, MayGo
  <2>4. NewsOf(c) /\ told \subseteq told'
    BY <2>2 DEF NewsOf
  <2>5. <<"completed", c>> \notin told' /\ <<"failed", c>> \notin told' /\ c \in activeJobIds
    BY <1>1, <2>2 DEF JobFacts, At, Executing
  <2> QED BY <1>1, <2>2, <2>3, <2>4, <2>5, ToldKeeps
<1>6. CASE PublishSyncCompleted(c)
  <2>1. /\ SyncGoes(c, "done") /\ syncs[c].pc = "tell" /\ activeJobIds' = activeJobIds \ {c}
        /\ UNCHANGED <<envVars, accountVars, announced, excused, syncFaults, syncJobs>>
        /\ told' = told \cup {<<"completed", c>>}
    BY <1>6 DEF PublishSyncCompleted, Release, At, historyVars
  <2>2. "done" \in SyncPcs /\ "done" \notin Executing /\ \A s \in {syncs[c]} : MayGo(s, "done")
    BY <2>1 DEF SyncPcs, Executing, MayGo
  <2>3. NewsOf(c) /\ told \subseteq told'
    BY <2>1 DEF NewsOf
  <2>4. <<"failed", c>> \notin told' /\ syncJobs[c].status = "completed"
    BY <1>1, <2>1 DEF JobFacts, At
  <2> QED BY <1>1, <2>1, <2>2, <2>3, <2>4, ToldKeeps
<1>7. CASE PublishSyncFailed(c)
  <2>1. /\ SyncGoes(c, "threw") /\ syncs[c].pc = "tellFailed" /\ activeJobIds' = activeJobIds \ {c}
        /\ UNCHANGED <<envVars, accountVars, announced, excused, syncFaults, syncJobs>>
        /\ told' = told \cup {<<"failed", c>>}
    BY <1>7 DEF PublishSyncFailed, Release, At, historyVars
  <2>2. "threw" \in SyncPcs /\ "threw" \notin Executing /\ \A s \in {syncs[c]} : MayGo(s, "threw")
    BY DEF SyncPcs, Executing, MayGo, Outside
  <2>3. NewsOf(c) /\ told \subseteq told'
    BY <2>1 DEF NewsOf
  <2>4. <<"completed", c>> \notin told' /\ syncJobs[c].status = "failed"
    BY <1>1, <2>1 DEF JobFacts, At
  <2> QED BY <1>1, <2>1, <2>2, <2>3, <2>4, ToldKeeps
<1> QED BY <1>2, <1>3, <1>4, <1>5, <1>6, <1>7

LEMMA FailSteps ==
    ASSUME SyncInv, NEW c \in SyncCalls, SyncCallFails(c)
    PROVE  SyncInv'
<1>1. JobFacts(c) /\ syncFaults \in 0..MaxSyncFaults /\ MaxSyncFaults \in Nat
  BY SyncAssumption DEF SyncInv, SyncTypes, JobsFacts
<1>2. PICK pc : pc = SyncFailsTo(syncs[c].pc)
  OBVIOUS
<1>3. /\ SyncGoes(c, pc)
      /\ syncs[c].pc \in {"create", "request", "load", "scanning", "started", "token", "processing",
                          "completed", "upsert", "lastSync", "tell", "catch", "tellFailed"}
      /\ syncFaults' \in 0..MaxSyncFaults
      /\ activeJobIds' = IF pc \in {"done", "threw"} THEN activeJobIds \ {c} ELSE activeJobIds
      /\ UNCHANGED <<envVars, accountVars, announced, told, excused, syncJobs>>
  BY <1>1, <1>2 DEF SyncCallFails, Release, At, newsVars
<1>4. /\ pc \in {"refused", "abandoned", "threw", "catch"}
      /\ pc = "catch" => syncs[c].pc \in Executing
      /\ pc \in {"refused", "abandoned"} => syncs[c].pc \notin Executing
  BY <1>2, <1>3 DEF SyncFailsTo, Executing
<1>5. pc \in SyncPcs /\ \A s \in {syncs[c]} : MayGo(s, pc)
  BY <1>4 DEF SyncPcs, Executing, MayGo, Outside
<1>6. NewsOf(c) /\ told \subseteq told'
  BY <1>3 DEF NewsOf
<1>7. <<"completed", c>> \notin told /\ <<"failed", c>> \notin told
  BY <1>1, <1>3 DEF JobFacts, At
<1>8. c \in activeJobIds' <=> pc \in Executing
  BY <1>1, <1>3, <1>4 DEF JobFacts, At, Executing
<1> QED BY <1>3, <1>4, <1>5, <1>6, <1>7, <1>8, ToldKeeps

-----------------------------------------------------------------------------
(* A step within an execution.                                              *)
LEMMA SyncMoves ==
    ASSUME SyncInv, NEW c \in SyncCalls, NEW t, Becomes(c, t), StageFacts(t)', NewsFacts(t)',
           NewsGrow, UNCHANGED <<envVars, syncJobs, activeJobIds>>,
           announced' \subseteq Things, excused' \subseteq SourceItems,
           \A e \in told' \ told : /\ e[1] \notin {"completed", "failed"}
                                   /\ e[1] = "deleted" => e[2] \in Archived,
           lastSynced' \in 0..now, syncFaults' \in 0..MaxSyncFaults,
           syncs[c].pc \in Executing \ {"tellFailed"}, t.pc \in Executing \ {"tellFailed"},
           t.pc \in {"upsert", "lastSync", "tell"} => syncJobs[c].status = "completed",
           HeardBefore', KnownIsAnnounced'
    PROVE  SyncInv'
<1>1. /\ SyncTypes /\ JobsFacts /\ SyncsFacts /\ JobFacts(c)
      /\ UNCHANGED <<statements, source, now>>
  BY DEF SyncInv, JobsFacts, envVars
<1>2. SyncsFacts'
  BY <1>1, OthersGoOn
<1>3. \A d \in SyncCalls : /\ <<"completed", d>> \in told' => <<"completed", d>> \in told
                           /\ <<"failed", d>> \in told' => <<"failed", d>> \in told
  OBVIOUS
<1>4. JobFacts(c)'
  <2>1. syncs'[c].pc = t.pc
    BY DEF Becomes
  <2>2. "done" \notin Executing /\ "threw" \notin Executing
    BY DEF Executing
  <2>3. c \in activeJobIds' /\ <<"completed", c>> \notin told' /\ <<"failed", c>> \notin told'
    BY <1>1, <1>3, <2>2 DEF JobFacts, At
  <2> QED BY <1>1, <2>1, <2>2, <2>3 DEF JobFacts, At
<1>5. OtherJobs(c)
  BY <1>3 DEF OtherJobs
<1>6. JobsFacts'
  BY <1>1, <1>4, <1>5, OtherJobsStay
<1>7. SyncTypes'
  <2>1. syncJobs' \in [SyncCalls -> JobRecords] /\ activeJobIds' \subseteq SyncCalls
    BY <1>1 DEF SyncTypes
  <2> QED BY <1>1, <2>1, TypesStay
<1> QED BY <1>2, <1>6, <1>7 DEF SyncInv

(* The source and the account are as the invariant says.                     *)
LEMMA SourceTypes ==
    ASSUME SyncTypes
    PROVE  /\ source \in [SourceItems -> 1..MaxNow] /\ now \in Nat /\ now <= MaxNow
           /\ lastSynced \in Nat
           /\ \A i \in SourceItems : source[i] \in Nat \ {0} /\ source[i] <= now
BY SyncAssumption DEF SyncTypes

LEMMA LoadSteps ==
    ASSUME SyncInv, NEW c \in SyncCalls, LoadJob(c)
    PROVE  SyncInv'
<1>1. /\ SyncTypes /\ SyncsFacts /\ HeardBefore /\ KnownIsAnnounced
      /\ syncs[c].pc = "load"
      /\ UNCHANGED <<envVars, syncState, lastSynced, announced, told, excused, syncFaults, syncJobs, activeJobIds>>
  BY DEF SyncInv, LoadJob, At, accountVars, newsVars, historyVars
<1>2. PICK s : s = syncs[c]
  OBVIOUS
<1>3. s \in SyncRecords /\ StageFacts(s) /\ s.pc = "load"
  BY <1>1, <1>2 DEF SyncTypes, SyncsFacts
<1>4. PICK f : f = source
  OBVIOUS
<1>5. PICK since : since = IF ModeOf[c] = "incremental" THEN lastSynced ELSE 0
  OBVIOUS
<1>6. since \in Nat /\ (since = 0 \/ since = lastSynced)
  BY <1>1, <1>5, SourceTypes
<1>7. PICK p : p = StartSync(since)
  OBVIOUS
<1>8. /\ p = [at |-> "pages", page |-> 1, since |-> since, found |-> <<>>, local |-> <<>>,
              queue |-> <<>>, retries |-> 0]
      /\ p \in PluginRecords
  <2>1. 0 \in 0..NotionRetries
    BY SyncAssumption
  <2>2. p = [at |-> "pages", page |-> 1, since |-> since, found |-> <<>>, local |-> <<>>,
             queue |-> <<>>, retries |-> 0]
    BY <1>7 DEF StartSync
  <2>3. 1 \in Nat \ {0}
    OBVIOUS
  <2> QED BY <1>6, <2>1, <2>2, <2>3, EmptyList, PluginOf
<1>9. PICK t : t = [s EXCEPT !.pc = "scanning", !.plugin = p, !.begun = f]
  OBVIOUS
<1>10. t = [pc |-> "scanning", plugin |-> p, todo |-> s.todo, processed |-> s.processed,
            skipped |-> s.skipped, errors |-> s.errors, begun |-> f, syncedAt |-> s.syncedAt]
  BY <1>3, <1>9 DEF SyncRecords
<1>11. f \in [SourceItems -> 1..MaxNow]
  BY <1>1, <1>4, SourceTypes
<1>12. t \in SyncRecords
  <2>1. "scanning" \in SyncPcs
    BY DEF SyncPcs, Executing
  <2> QED BY <1>3, <1>8, <1>10, <1>11, <2>1, SyncFields DEF SyncRecords
<1>13. Becomes(c, t)
  <2>1. syncs \in [SyncCalls -> SyncRecords]
    BY <1>1 DEF SyncTypes
  <2>2. syncs' = [syncs EXCEPT ![c].pc = "scanning", ![c].plugin = p, ![c].begun = f]
    BY <1>4, <1>5, <1>7 DEF LoadJob
  <2>3. syncs' = [syncs EXCEPT ![c] = t]
    BY <1>2, <1>9, <2>1, <2>2
  <2> QED BY <1>12, <2>1, <2>3 DEF Becomes
<1>14. NewsGrow
  BY <1>1 DEF NewsGrow
<1>15. StageFacts(t)'
  <2>1. PluginFacts(p)
    BY <1>8, ListsOfItems DEF PluginFacts
  <2>2. s.processed = 0 /\ s.skipped = 0 /\ s.errors = 0
    BY <1>3 DEF StageFacts, Unread
  <2> QED BY <1>8, <1>10, <2>1, <2>2 DEF StageFacts, Unread, Asking, Taking, Taken, Scanned
<1>16. NewsFacts(t)'
  <2>1. t.begun = f /\ t.plugin = p /\ t.pc = "scanning" /\ p.since = since /\ p.at = "pages" /\ p.page = 1
    BY <1>8, <1>10
  <2>2. \A i \in SourceItems \ excused' : f[i] = source'[i]
    BY <1>1, <1>4 DEF envVars
  <2>3. ASSUME NEW i \in Owed', f[i] < since
        PROVE  ExternalItem(i, f) \in announced'
    <3>1. i \in Owed /\ i \in SourceItems
      BY <1>1 DEF Owed
    <3>2. since = lastSynced
      BY <1>6, <1>11, <2>3, <3>1
    <3>3. ExternalItem(i, source) = ExternalItem(i, f)
      BY <1>4 DEF ExternalItem
    <3> QED BY <1>1, <1>4, <2>3, <3>1, <3>2, <3>3 DEF HeardBefore
  <2>4. Finding(p, f)'
    <3>1. ASSUME NEW i \in Owed'
          PROVE  StillListed(p, i)
      BY <2>1, ListsOfItems DEF Owed, StillListed
    <3> QED BY <3>1 DEF Finding
  <2> QED BY <2>1, <2>2, <2>3, <2>4 DEF NewsFacts, Scanned, Taking, Taken
<1>17. HeardBefore' /\ KnownIsAnnounced'
  BY <1>1, <1>14, AccountStays DEF envVars
<1>18. /\ announced' \subseteq Things /\ excused' \subseteq SourceItems
       /\ lastSynced' \in 0..now /\ syncFaults' \in 0..MaxSyncFaults /\ told' \ told = {}
  BY <1>1 DEF SyncTypes
<1>19. {syncs[c].pc, t.pc} \subseteq Executing \ {"tellFailed"} /\ t.pc \notin {"upsert", "lastSync", "tell"}
  BY <1>1, <1>10 DEF Executing
<1> QED BY <1>1, <1>13, <1>14, <1>15, <1>16, <1>17, <1>18, <1>19, SyncMoves

(* The answers and the refusals of Notion.                                  *)
LEMMA PluginBecomes ==
    ASSUME SyncTypes, NEW c \in SyncCalls, NEW s, s = syncs[c], NEW q \in PluginRecords, PluginIs(c, q)
    PROVE  \E t \in SyncRecords :
              /\ Becomes(c, t) /\ t.plugin = q
              /\ t.pc = IF q.at = "returned" THEN "processing" ELSE "plugin"
              /\ t.todo = IF q.at = "returned" THEN q.found ELSE <<>>
              /\ t.processed = s.processed /\ t.skipped = s.skipped /\ t.errors = s.errors
              /\ t.begun = s.begun
<1>1. s \in SyncRecords /\ syncs \in [SyncCalls -> SyncRecords]
  BY DEF SyncTypes
<1>2. PICK pc : pc = IF q.at = "returned" THEN "processing" ELSE "plugin"
  OBVIOUS
<1>3. PICK todo : todo = IF q.at = "returned" THEN q.found ELSE <<>>
  OBVIOUS
<1>4. PICK t : t = [s EXCEPT !.plugin = q, !.pc = pc, !.todo = todo]
  OBVIOUS
<1>5. t = [pc |-> pc, plugin |-> q, todo |-> todo, processed |-> s.processed,
           skipped |-> s.skipped, errors |-> s.errors, begun |-> s.begun, syncedAt |-> s.syncedAt]
  BY <1>1, <1>4 DEF SyncRecords
<1>6. t \in SyncRecords
  <2>1. pc \in SyncPcs
    BY <1>2 DEF SyncPcs, Executing
  <2>2. q.found \in Seq(Things)
    BY PluginLiteral
  <2>3. todo \in Seq(Things)
    BY <1>3, <2>2, EmptyList
  <2> QED BY <1>1, <1>5, <2>1, <2>3, SyncFields DEF SyncRecords
<1>7. syncs' = [syncs EXCEPT ![c].plugin = q, ![c].pc = pc, ![c].todo = todo]
  BY <1>2, <1>3 DEF PluginIs
<1>8. syncs' = [syncs EXCEPT ![c] = t]
  BY <1>1, <1>4, <1>7
<1>9. Becomes(c, t)
  BY <1>1, <1>6, <1>8 DEF Becomes
<1> QED BY <1>2, <1>3, <1>5, <1>6, <1>9

LEMMA PluginMoves ==
    ASSUME SyncInv, NEW c \in SyncCalls, NEW s, s = syncs[c], s.pc = "plugin",
           NEW q \in PluginRecords, PluginFacts(q), PluginIs(c, q), q.since = s.plugin.since,
           NewsGrow, excused' \subseteq SourceItems, Finding(q, s.begun)',
           UNCHANGED <<envVars, accountVars, newsVars, syncJobs, activeJobIds>>,
           syncFaults' \in 0..MaxSyncFaults
    PROVE  SyncInv'
<1>1. /\ SyncTypes /\ SyncsFacts /\ HeardBefore /\ KnownIsAnnounced
      /\ UNCHANGED <<source, now, syncState, lastSynced, announced, told>>
      /\ s \in SyncRecords /\ StageFacts(s) /\ NewsFacts(s)
  BY DEF SyncInv, SyncTypes, SyncsFacts, envVars, accountVars, newsVars
<1>2. PICK t \in SyncRecords :
         /\ Becomes(c, t) /\ t.plugin = q
         /\ t.pc = IF q.at = "returned" THEN "processing" ELSE "plugin"
         /\ t.todo = IF q.at = "returned" THEN q.found ELSE <<>>
         /\ t.processed = s.processed /\ t.skipped = s.skipped /\ t.errors = s.errors
         /\ t.begun = s.begun
  BY <1>1, PluginBecomes
<1>3. StageFacts(t)'
  <2>1. s.processed = 0 /\ s.skipped = 0 /\ s.errors = 0
    BY <1>1 DEF StageFacts, Asking
  <2>2. Len(q.found) \in Nat
    <3>1. q.found \in Seq(Things)
      BY PluginLiteral
    <3> QED BY <3>1
  <2> QED BY <1>2, <2>1, <2>2 DEF StageFacts, Unread, Asking, Taking, Taken, Scanned
<1>4. NewsFacts(t)'
  <2>1. /\ \A i \in SourceItems \ excused : s.begun[i] = source[i]
        /\ \A i \in Owed : s.begun[i] < s.plugin.since => ExternalItem(i, s.begun) \in announced
    BY <1>1 DEF NewsFacts, Reading, Executing
  <2>2. Owed' \subseteq Owed /\ SourceItems \ excused' \subseteq SourceItems \ excused
    BY DEF NewsGrow, Owed
  <2>3. \A i \in SourceItems \ excused' : t.begun[i] = source'[i]
    BY <1>1, <1>2, <2>1, <2>2
  <2>4. \A i \in Owed' : t.begun[i] < t.plugin.since => ExternalItem(i, t.begun) \in announced'
    BY <1>1, <1>2, <2>1, <2>2
  <2>5. Finding(t.plugin, t.begun)'
    BY <1>2 DEF Finding
  <2>6. t.pc \in Scanned => ToSet(t.plugin.found) \ ToSet(t.todo) = {}
    BY <1>2 DEF Scanned, Taking, Taken
  <2>7. t.pc \notin {"tell", "done"}
    BY <1>2
  <2> QED BY <2>3, <2>4, <2>5, <2>6, <2>7 DEF NewsFacts
<1>5. HeardBefore' /\ KnownIsAnnounced'
  BY <1>1, AccountStays
<1>6. announced' \subseteq Things /\ lastSynced' \in 0..now /\ told' \ told = {}
  BY <1>1 DEF SyncTypes
<1>7. {syncs[c].pc, t.pc} \subseteq Executing \ {"tellFailed"} /\ t.pc \notin {"upsert", "lastSync", "tell"}
  BY <1>2 DEF Executing
<1> QED BY <1>2, <1>3, <1>4, <1>5, <1>6, <1>7, SyncMoves

LEMMA NotionSteps ==
    ASSUME SyncInv, NEW c \in SyncCalls, NotionAnswers(c) \/ NotionRefuses(c)
    PROVE  SyncInv'
<1>1. SyncTypes /\ SyncsFacts /\ source \in [SourceItems -> 1..MaxNow] /\ MaxSyncFaults \in Nat
  BY SourceTypes, SyncAssumption DEF SyncInv
<1>2. PICK s : s = syncs[c]
  OBVIOUS
<1>3. s \in SyncRecords /\ StageFacts(s) /\ NewsFacts(s)
  BY <1>1, <1>2 DEF SyncTypes, SyncsFacts
<1>4. s.pc = "plugin"
  BY <1>2 DEF NotionAnswers, NotionRefuses, At
<1>5. PICK p : p = s.plugin
  OBVIOUS
<1>6. p \in PluginRecords /\ PluginFacts(p) /\ p.at # "returned"
  BY <1>3, <1>4, <1>5, SyncFields DEF StageFacts, Asking
<1>7. PICK f : f = s.begun
  OBVIOUS
<1>8. (\A i \in SourceItems \ excused : f[i] = source[i]) /\ Finding(p, f)
  BY <1>3, <1>4, <1>5, <1>7 DEF NewsFacts, Reading, Executing
<1>9. CASE NotionAnswers(c)
  <2>1. PICK q : q = NotionAnswered(p, source)
    OBVIOUS
  <2>2. /\ PluginIs(c, q)
        /\ UNCHANGED <<envVars, accountVars, newsVars, excused, syncFaults, syncJobs, activeJobIds>>
    BY <1>2, <1>5, <1>9, <2>1 DEF NotionAnswers, historyVars
  <2>3. PICK g : g = source
    OBVIOUS
  <2>4. g \in [SourceItems -> 1..MaxNow] /\ \A i \in Owed : g[i] = f[i]
    BY <1>1, <1>8, <2>3 DEF Owed
  <2>5. Finding(p, g)
    BY <1>8, <2>4 DEF Finding, Recent, ExternalItem
  <2>6. \A i \in SourceItems \ excused : g[i] = source[i]
    BY <2>3
  <2>7. q \in PluginRecords /\ PluginFacts(q) /\ q.since = p.since /\ Finding(q, g)
    BY <1>1, <1>6, <2>1, <2>4, <2>5, <2>6, NotionAnswer
  <2>8. Finding(q, f)
    BY <2>4, <2>7 DEF Finding, Recent, ExternalItem
  <2>9. Finding(q, f)' /\ NewsGrow /\ excused' \subseteq SourceItems /\ syncFaults' \in 0..MaxSyncFaults
    BY <1>1, <2>2, <2>8 DEF Finding, Owed, NewsGrow, newsVars, SyncTypes
  <2> QED BY <1>2, <1>4, <1>5, <1>7, <2>2, <2>7, <2>9, PluginMoves
<1>10. CASE NotionRefuses(c)
  <2>1. PICK q \in {SyncCut(p), Throttled(p)} :
           PluginIs(c, q) /\ excused' = IF q.at = "returned" THEN SourceItems ELSE excused
    BY <1>2, <1>5, <1>10 DEF NotionRefuses
  <2>2. /\ syncFaults < MaxSyncFaults /\ syncFaults' = syncFaults + 1
        /\ UNCHANGED <<envVars, accountVars, newsVars, syncJobs, activeJobIds>>
    BY <1>10 DEF NotionRefuses
  <2>3. /\ q \in PluginRecords /\ PluginFacts(q) /\ q.since = p.since
        /\ \/ q.at = "returned"
           \/ /\ q.at = p.at /\ Gathered(q) = Gathered(p)
              /\ \A i : StillListed(p, i) => StillListed(q, i)
    BY <1>6, NotionRefusal
  <2>4. /\ NewsGrow /\ excused' \subseteq SourceItems /\ syncFaults' \in 0..MaxSyncFaults
    BY <1>1, <2>1, <2>2 DEF NewsGrow, newsVars, SyncTypes
  <2>5. Finding(q, f)'
    <3>1. CASE q.at = "returned"
      BY <2>1, <3>1 DEF Finding, Owed
    <3>2. CASE q.at # "returned"
      <4>1. Owed' = Owed
        BY <2>1, <3>2 DEF Owed
      <4> QED BY <1>8, <2>3, <3>2, <4>1 DEF Finding
    <3> QED BY <3>1, <3>2
  <2> QED BY <1>2, <1>4, <1>5, <1>7, <2>1, <2>2, <2>3, <2>4, <2>5, PluginMoves
<1> QED BY <1>9, <1>10

-----------------------------------------------------------------------------
(* The items.  One more is counted, of the items that were left.             *)
CountedBy(u, s) ==
    /\ u \in SyncRecords /\ u.plugin = s.plugin /\ u.todo = s.todo /\ u.begun = s.begun
    /\ u.processed + u.skipped + u.errors = s.processed + s.skipped + s.errors + 1

LEMMA CountedOnce ==
    ASSUME NEW s \in SyncRecords, NEW u,
           \/ u = [s EXCEPT !.processed = @ + 1]
           \/ u = [s EXCEPT !.skipped = @ + 1]
           \/ u = [s EXCEPT !.errors = @ + 1]
    PROVE  CountedBy(u, s)
<1>1. s.processed \in Nat /\ s.skipped \in Nat /\ s.errors \in Nat
  BY SyncFields
<1>2. CASE u = [s EXCEPT !.processed = @ + 1]
  <2>1. u = [pc |-> s.pc, plugin |-> s.plugin, todo |-> s.todo, processed |-> s.processed + 1,
             skipped |-> s.skipped, errors |-> s.errors, begun |-> s.begun, syncedAt |-> s.syncedAt]
    BY <1>2 DEF SyncRecords
  <2>2. u \in SyncRecords
    BY <1>1, <2>1, SyncFields DEF SyncRecords
  <2> QED BY <1>1, <2>1, <2>2 DEF CountedBy
<1>3. CASE u = [s EXCEPT !.skipped = @ + 1]
  <2>1. u = [pc |-> s.pc, plugin |-> s.plugin, todo |-> s.todo, processed |-> s.processed,
             skipped |-> s.skipped + 1, errors |-> s.errors, begun |-> s.begun, syncedAt |-> s.syncedAt]
    BY <1>3 DEF SyncRecords
  <2>2. u \in SyncRecords
    BY <1>1, <2>1, SyncFields DEF SyncRecords
  <2> QED BY <1>1, <2>1, <2>2 DEF CountedBy
<1>4. CASE u = [s EXCEPT !.errors = @ + 1]
  <2>1. u = [pc |-> s.pc, plugin |-> s.plugin, todo |-> s.todo, processed |-> s.processed,
             skipped |-> s.skipped, errors |-> s.errors + 1, begun |-> s.begun, syncedAt |-> s.syncedAt]
    BY <1>4 DEF SyncRecords
  <2>2. u \in SyncRecords
    BY <1>1, <2>1, SyncFields DEF SyncRecords
  <2> QED BY <1>1, <2>1, <2>2 DEF CountedBy
<1> QED BY <1>2, <1>3, <1>4

LEMMA NextBecomes ==
    ASSUME SyncTypes, NEW c \in SyncCalls, NEW s, s = syncs[c], StageFacts(s), s.pc \in Taking,
           NEW u, CountedBy(u, s), syncs' = [syncs EXCEPT ![c] = NextItem(u)]
    PROVE  \E t \in SyncRecords :
              /\ Becomes(c, t) /\ StageFacts(t)' /\ t.pc \in {"item", "completed"}
              /\ t.plugin = s.plugin /\ t.begun = s.begun /\ t.todo = Tail(s.todo)
<1>1. s \in SyncRecords /\ syncs \in [SyncCalls -> SyncRecords] /\ u \in SyncRecords
  BY DEF SyncTypes, CountedBy
<1>2. s.todo \in Seq(Things) /\ s.todo # <<>> /\ s.plugin.at = "returned" /\ PluginFacts(s.plugin)
  BY <1>1, SyncFields DEF StageFacts, Scanned
<1>3. PICK rest : rest = Tail(s.todo)
  OBVIOUS
<1>4. rest \in Seq(Things) /\ Len(rest) = Len(s.todo) - 1 /\ Len(s.todo) \in Nat \ {0}
      /\ (rest = <<>> <=> Len(s.todo) = 1)
  <2>1. Tail(s.todo) \in Seq(Things) /\ Len(Tail(s.todo)) = Len(s.todo) - 1
    BY <1>2, HeadTailProperties
  <2>2. Len(s.todo) \in Nat \ {0}
    BY <1>2, EmptySeq, LenProperties
  <2>3. \A q \in Seq(Things) : q = <<>> <=> Len(q) = 0
    BY EmptySeq
  <2>4. PICK n : n = Len(s.todo)
    OBVIOUS
  <2>5. rest \in Seq(Things) /\ Len(rest) = n - 1 /\ n \in Nat \ {0}
    BY <1>3, <2>1, <2>2, <2>4
  <2>6. rest = <<>> <=> Len(rest) = 0
    BY <2>3, <2>5
  <2>7. rest = <<>> <=> n = 1
    BY <2>5, <2>6
  <2> QED BY <2>4, <2>5, <2>7
<1>5. PICK pc : pc = IF Len(s.todo) = 1 THEN "completed" ELSE "item"
  OBVIOUS
<1>6. PICK t : t = [u EXCEPT !.todo = rest, !.pc = pc]
  OBVIOUS
<1>7. t = [pc |-> pc, plugin |-> u.plugin, todo |-> rest, processed |-> u.processed,
           skipped |-> u.skipped, errors |-> u.errors, begun |-> u.begun, syncedAt |-> u.syncedAt]
  BY <1>1, <1>6 DEF SyncRecords
<1>8. t \in SyncRecords
  <2>1. pc \in SyncPcs
    BY <1>5 DEF SyncPcs, Executing
  <2> QED BY <1>1, <1>4, <1>7, <2>1, SyncFields DEF SyncRecords
<1>9. NextItem(u) = t
  <2>1. u.todo = s.todo
    BY DEF CountedBy
  <2> QED BY <1>3, <1>5, <1>6, <2>1 DEF NextItem
<1>10. Becomes(c, t)
  BY <1>1, <1>8, <1>9 DEF Becomes
<1>11. StageFacts(t)'
  <2>1. /\ u.processed + u.skipped + u.errors = s.processed + s.skipped + s.errors + 1
        /\ s.processed + s.skipped + s.errors + Len(s.todo) = Len(s.plugin.found)
        /\ u.plugin = s.plugin
    BY DEF CountedBy, StageFacts
  <2>2. /\ u.processed \in Nat /\ u.skipped \in Nat /\ u.errors \in Nat
        /\ s.processed \in Nat /\ s.skipped \in Nat /\ s.errors \in Nat
    BY <1>1, SyncFields
  <2>3. Len(s.plugin.found) \in Nat
    <3>1. s.plugin.found \in Seq(Things)
      BY <1>1, SyncFields, PluginLiteral
    <3> QED BY <3>1
  <2>4. u.processed + u.skipped + u.errors + Len(rest) = Len(s.plugin.found)
    <3>1. PICK n : n = Len(s.todo)
      OBVIOUS
    <3>2. PICK m : m = Len(rest)
      OBVIOUS
    <3>3. n \in Nat /\ m = n - 1
      BY <1>4, <3>1, <3>2
    <3>4. PICK a : a = u.processed + u.skipped + u.errors
      OBVIOUS
    <3>5. PICK b : b = s.processed + s.skipped + s.errors
      OBVIOUS
    <3>6. a \in Nat /\ b \in Nat
      BY <2>2, <3>4, <3>5
    <3>7. a = b + 1 /\ b + n = Len(s.plugin.found)
      BY <2>1, <3>1, <3>4, <3>5
    <3>8. a + m = Len(s.plugin.found)
      BY <3>3, <3>6, <3>7
    <3> QED BY <3>2, <3>4, <3>8
  <2>5. /\ t.pc = pc /\ t.plugin = s.plugin /\ t.todo = rest /\ t.processed = u.processed
        /\ t.skipped = u.skipped /\ t.errors = u.errors
    BY <1>7, <2>1
  <2>6. pc \in {"item", "completed"} /\ (pc = "item" => rest # <<>>) /\ (pc = "completed" => rest = <<>>)
    BY <1>4, <1>5
  <2> QED BY <1>2, <2>4, <2>5, <2>6 DEF StageFacts, Unread, Asking, Taking, Taken, Scanned
<1> QED BY <1>3, <1>5, <1>7, <1>8, <1>10, <1>11 DEF CountedBy

LEMMA ItemDone ==
    ASSUME SyncInv, NEW c \in SyncCalls, NEW s, s = syncs[c], s.pc \in Taking,
           NEW u, CountedBy(u, s), syncs' = [syncs EXCEPT ![c] = NextItem(u)],
           NEW e, e = Head(s.todo), Handled(e)', NewsGrow,
           UNCHANGED <<envVars, accountVars, syncJobs, activeJobIds>>,
           announced' \subseteq Things, excused' \subseteq SourceItems,
           \A x \in told' \ told : /\ x[1] \notin {"completed", "failed"}
                                   /\ x[1] = "deleted" => x[2] \in Archived,
           syncFaults' \in 0..MaxSyncFaults
    PROVE  SyncInv'
<1>1. /\ SyncTypes /\ SyncsFacts /\ HeardBefore /\ KnownIsAnnounced
      /\ UNCHANGED <<source, now, syncState, lastSynced>>
      /\ s \in SyncRecords /\ StageFacts(s) /\ NewsFacts(s)
  BY DEF SyncInv, SyncTypes, SyncsFacts, envVars, accountVars
<1>2. PICK t \in SyncRecords :
         /\ Becomes(c, t) /\ StageFacts(t)' /\ t.pc \in {"item", "completed"}
         /\ t.plugin = s.plugin /\ t.begun = s.begun /\ t.todo = Tail(s.todo)
  BY <1>1, NextBecomes
<1>3. ToSet(s.todo) = ToSet(t.todo) \cup {e}
  <2>1. s.todo \in Seq(Things) /\ s.todo # <<>>
    BY <1>1, SyncFields DEF StageFacts
  <2> QED BY <1>2, <2>1, TailElements
<1>4. NewsFacts(t)'
  <2>1. /\ \A i \in SourceItems \ excused : s.begun[i] = source[i]
        /\ \A i \in Owed : s.begun[i] < s.plugin.since => ExternalItem(i, s.begun) \in announced
        /\ Finding(s.plugin, s.begun)
        /\ \A x \in ToSet(s.plugin.found) \ ToSet(s.todo) : Handled(x)
    <3>1. s.pc \in Reading /\ s.pc \in Scanned
      BY DEF Taking, Scanned, Reading, Executing
    <3> QED BY <1>1, <3>1 DEF NewsFacts
  <2>2. SourceItems \ excused' \subseteq SourceItems \ excused /\ Owed' \subseteq Owed
    BY DEF NewsGrow, Owed
  <2>3. \A i \in SourceItems \ excused' : t.begun[i] = source'[i]
    BY <1>1, <1>2, <2>1, <2>2
  <2>4. \A i \in Owed' : t.begun[i] < t.plugin.since => ExternalItem(i, t.begun) \in announced'
    BY <1>2, <2>1, <2>2 DEF NewsGrow
  <2>5. Finding(t.plugin, t.begun)'
    BY <1>2, <2>1, <2>2 DEF Finding
  <2>6. \A x \in ToSet(t.plugin.found) \ ToSet(t.todo) : Handled(x)'
    <3>1. \A x : Handled(x) => Handled(x)'
      BY DEF Handled, NewsGrow
    <3> QED BY <1>2, <1>3, <2>1, <3>1
  <2>7. t.pc \notin {"tell", "done"}
    BY <1>2
  <2> QED BY <2>3, <2>4, <2>5, <2>6, <2>7 DEF NewsFacts
<1>5. HeardBefore' /\ KnownIsAnnounced'
  BY <1>1, AccountStays
<1>6. lastSynced' \in 0..now
  BY <1>1 DEF SyncTypes
<1>7. {syncs[c].pc, t.pc} \subseteq Executing \ {"tellFailed"} /\ t.pc \notin {"upsert", "lastSync", "tell"}
  BY <1>2 DEF Executing, Taking
<1> QED BY <1>2, <1>4, <1>5, <1>6, <1>7, SyncMoves

(* A known item is one that consumers heard of, or is excused.              *)
LEMMA KnownIsHandled ==
    ASSUME SyncTypes, KnownIsAnnounced, NEW e \in Things, Known(e)
    PROVE  Handled(e)
<1>1. e.id \in DOMAIN syncState.checksums /\ syncState.checksums[e.id] = e.checksum
  BY DEF Known
<1>2. CASE \E x \in announced : x.id = e.id /\ x.checksum = e.checksum
  <2>1. PICK x \in announced : x.id = e.id /\ x.checksum = e.checksum
    BY <1>2
  <2>2. x \in Things
    BY DEF SyncTypes
  <2>3. x = [id |-> x.id, checksum |-> x.checksum, deleted |-> x.deleted]
        /\ x.deleted \in BOOLEAN /\ (x.deleted <=> x.id \in Archived)
    BY <2>2 DEF Things
  <2>4. e = [id |-> e.id, checksum |-> e.checksum, deleted |-> e.deleted]
        /\ e.deleted \in BOOLEAN /\ (e.deleted <=> e.id \in Archived)
    BY DEF Things
  <2>5. x.deleted = e.deleted
    BY <2>1, <2>3, <2>4
  <2>6. x = e
    BY <2>1, <2>3, <2>4, <2>5
  <2> QED BY <2>6 DEF Handled
<1>3. CASE e.id \in excused \/ <<"deleted", e.id>> \in told
  BY <1>3 DEF Handled
<1> QED BY <1>1, <1>2, <1>3 DEF KnownIsAnnounced

LEMMA ItemSteps ==
    ASSUME SyncInv, NEW c \in SyncCalls,
           PublishDocumentDeleted(c) \/ TakeItem(c) \/ PublishDocumentUpdated(c) \/ ItemFails(c)
    PROVE  SyncInv'
<1>1. /\ SyncTypes /\ SyncsFacts /\ KnownIsAnnounced /\ announced \subseteq Things
      /\ excused \subseteq SourceItems /\ syncFaults \in 0..MaxSyncFaults /\ MaxSyncFaults \in Nat
      /\ syncs \in [SyncCalls -> SyncRecords]
  BY SyncAssumption DEF SyncInv, SyncTypes
<1>2. PICK s : s = syncs[c]
  OBVIOUS
<1>3. s \in SyncRecords /\ StageFacts(s) /\ s.pc \in Taking
  BY <1>1, <1>2 DEF SyncsFacts, PublishDocumentDeleted, TakeItem, PublishDocumentUpdated, ItemFails,
                    At, Taking
<1>4. PICK e : e = Head(s.todo)
  OBVIOUS
<1>5. e \in Things /\ e.id \in SourceItems /\ (e.deleted <=> e.id \in Archived) /\ Item(c) = e
  <2>1. s.todo \in Seq(Things) /\ s.todo # <<>>
    BY <1>3, SyncFields DEF StageFacts
  <2>2. e \in Things
    BY <1>4, <2>1, TailElements
  <2> QED BY <1>2, <1>4, <2>2 DEF Things, Item
<1>6. CASE PublishDocumentDeleted(c)
  <2>1. PICK u : u = Processed(s)
    OBVIOUS
  <2>2. CountedBy(u, s)
    BY <1>3, <2>1, CountedOnce DEF Processed, Skipped, Erred
  <2>3. /\ syncs' = [syncs EXCEPT ![c] = NextItem(u)] /\ e.deleted
        /\ told' = told \cup {<<"deleted", e.id>>}
        /\ UNCHANGED <<envVars, accountVars, announced, excused, syncFaults, syncJobs, activeJobIds>>
    <3>1. syncs' = [syncs EXCEPT ![c] = NextItem(u)]
      BY <1>2, <1>5, <1>6, <2>1 DEF PublishDocumentDeleted
    <3> QED BY <1>5, <1>6, <3>1 DEF PublishDocumentDeleted, historyVars
  <2>4. Handled(e)' /\ NewsGrow
    BY <2>3 DEF Handled, NewsGrow
  <2>5. \A x \in told' \ told : /\ x[1] \notin {"completed", "failed"}
                                /\ x[1] = "deleted" => x[2] \in Archived
    BY <1>5, <2>3
  <2> QED BY <1>1, <1>2, <1>3, <1>4, <2>2, <2>3, <2>4, <2>5, ItemDone
<1>7. CASE TakeItem(c) /\ Known(e)
  <2>1. PICK u : u = Skipped(s)
    OBVIOUS
  <2>2. CountedBy(u, s)
    BY <1>3, <2>1, CountedOnce DEF Processed, Skipped, Erred
  <2>3. /\ syncs' = [syncs EXCEPT ![c] = NextItem(u)]
        /\ UNCHANGED <<envVars, accountVars, announced, told, excused, syncFaults, syncJobs, activeJobIds>>
    <3>1. syncs' = [syncs EXCEPT ![c] = NextItem(u)]
      BY <1>2, <1>5, <1>7, <2>1 DEF TakeItem
    <3> QED BY <1>5, <1>7, <3>1 DEF TakeItem, newsVars, historyVars
  <2>4. Handled(e)' /\ NewsGrow
    <3>1. Handled(e)
      BY <1>1, <1>5, <1>7, KnownIsHandled
    <3> QED BY <2>3, <3>1 DEF Handled, NewsGrow
  <2>5. told' \ told = {}
    BY <2>3
  <2> QED BY <1>1, <1>2, <1>3, <1>4, <2>2, <2>3, <2>4, <2>5, ItemDone
<1>8. CASE TakeItem(c) /\ ~Known(e)
  <2>1. /\ SyncGoes(c, "discovered") /\ s.pc = "item" /\ ~e.deleted
        /\ UNCHANGED <<envVars, accountVars, announced, told, excused, syncFaults, syncJobs, activeJobIds>>
    BY <1>1, <1>2, <1>5, <1>8 DEF TakeItem, SyncGoes, At, newsVars, historyVars
  <2>2. "discovered" \in SyncPcs /\ "discovered" \in Executing /\ \A x \in {syncs[c]} : MayGo(x, "discovered")
    BY <1>2, <1>4, <2>1 DEF SyncPcs, Executing, MayGo
  <2>3. NewsOf(c) /\ told \subseteq told'
    BY <2>1 DEF NewsOf
  <2>4. <<"completed", c>> \notin told' /\ <<"failed", c>> \notin told' /\ c \in activeJobIds
    BY <1>2, <2>1 DEF SyncInv, JobsFacts, JobFacts, At, Executing
  <2> QED BY <1>1, <2>1, <2>2, <2>3, <2>4, ToldKeeps
<1>9. CASE PublishDocumentUpdated(c)
  <2>1. PICK u : u = Processed(s)
    OBVIOUS
  <2>2. CountedBy(u, s)
    BY <1>3, <2>1, CountedOnce DEF Processed, Skipped, Erred
  <2>3. /\ syncs' = [syncs EXCEPT ![c] = NextItem(u)]
        /\ announced' = announced \cup {e}
        /\ UNCHANGED <<envVars, accountVars, told, excused, syncFaults, syncJobs, activeJobIds>>
    <3>1. syncs' = [syncs EXCEPT ![c] = NextItem(u)]
      BY <1>2, <1>5, <1>9, <2>1 DEF PublishDocumentUpdated
    <3> QED BY <1>5, <1>9, <3>1 DEF PublishDocumentUpdated, historyVars
  <2>4. Handled(e)' /\ NewsGrow /\ announced' \subseteq Things
    BY <1>1, <1>5, <2>3 DEF Handled, NewsGrow
  <2>5. told' \ told = {}
    BY <2>3
  <2> QED BY <1>1, <1>2, <1>3, <1>4, <2>2, <2>3, <2>4, <2>5, ItemDone
<1>10. CASE ItemFails(c)
  <2>1. PICK u : u = Erred(s)
    OBVIOUS
  <2>2. CountedBy(u, s)
    BY <1>3, <2>1, CountedOnce DEF Processed, Skipped, Erred
  <2>3. /\ syncs' = [syncs EXCEPT ![c] = NextItem(u)]
        /\ excused' = excused \cup {e.id}
        /\ syncFaults < MaxSyncFaults /\ syncFaults' = syncFaults + 1
        /\ UNCHANGED <<envVars, accountVars, announced, told, syncJobs, activeJobIds>>
    <3>1. syncs' = [syncs EXCEPT ![c] = NextItem(u)]
      BY <1>2, <1>5, <1>10, <2>1 DEF ItemFails
    <3> QED BY <1>5, <1>10, <3>1 DEF ItemFails, newsVars
  <2>4. Handled(e)' /\ NewsGrow /\ excused' \subseteq SourceItems /\ syncFaults' \in 0..MaxSyncFaults
    BY <1>1, <1>5, <2>3 DEF Handled, NewsGrow
  <2>5. told' \ told = {}
    BY <2>3
  <2> QED BY <1>1, <1>2, <1>3, <1>4, <2>2, <2>3, <2>4, <2>5, ItemDone
<1> QED BY <1>6, <1>7, <1>8, <1>9, <1>10

-----------------------------------------------------------------------------
(* The end of a job: the checksums, and the time of the account.             *)
LEMMA ChecksumsOfFound ==
    ASSUME NEW found \in Seq(Things), NEW id \in DOMAIN ChecksumMap(found)
    PROVE  \E e \in ToSet(found) : e.id = id /\ ChecksumMap(found)[id] = e.checksum
<1>1. /\ Len(found) \in Nat /\ DOMAIN found = 1..Len(found)
      /\ \A n \in 1..Len(found) : found[n] \in ToSet(found)
  BY LenProperties, ElementsByPosition
<1> DEFINE N == {n \in DOMAIN found : found[n].id = id}
           IsLast(n) == found[n].id = id /\ \A m \in DOMAIN found : found[m].id = id => m <= n
<1>2. N \subseteq 1..Len(found) /\ N # {}
  BY <1>1 DEF ChecksumMap
<1>3. \E n \in DOMAIN found : IsLast(n)
  <2>1. Max(N) \in N /\ \A n \in N : Max(N) >= n
    <3> HIDE DEF N
    <3> QED BY <1>1, <1>2, MaxOfIndices
  <2>2. PICK n : n = Max(N)
    OBVIOUS
  <2>3. n \in N /\ \A m \in N : m <= n
    BY <1>1, <2>1, <2>2
  <2> QED BY <2>3
<1>4. PICK last : last = CHOOSE n \in DOMAIN found : IsLast(n)
  OBVIOUS
<1>5. last \in DOMAIN found /\ found[last].id = id
  BY <1>3, <1>4
<1>6. ChecksumMap(found)[id] = found[last].checksum
  BY <1>4 DEF ChecksumMap
<1> QED BY <1>1, <1>5, <1>6

LEMMA AllHeard ==
    ASSUME SyncTypes, NEW s \in SyncRecords, StageFacts(s), NewsFacts(s), s.pc \in Taken,
           NEW i \in Owed
    PROVE  ExternalItem(i, s.begun) \in announced
<1>1. /\ s.plugin.at = "returned" /\ s.todo = <<>> /\ s.plugin.local = <<>> /\ s.plugin.queue = <<>>
  BY DEF StageFacts, PluginFacts, Taken, Scanned
<1>2. s.pc \in Reading /\ s.pc \in Scanned
  BY DEF Taken, Scanned, Reading, Executing
<1>3. i \in SourceItems /\ i \notin Archived /\ i \notin excused
  BY DEF Owed
<1>4. s.begun[i] = source[i] /\ source[i] \in Nat /\ s.plugin.since \in Nat
  BY <1>2, <1>3, SourceTypes, SyncFields, PluginLiteral DEF NewsFacts
<1>5. CASE Recent(i, s.begun, s.plugin.since)
  <2>1. ExternalItem(i, s.begun) \in ToSet(s.plugin.found)
    BY <1>1, <1>2, <1>5, EmptyElements DEF NewsFacts, Finding, Gathered, StillListed
  <2>2. PICK e : e = ExternalItem(i, s.begun)
    OBVIOUS
  <2>3. Handled(e)
    BY <1>1, <1>2, <2>1, <2>2, EmptyElements DEF NewsFacts
  <2>4. e.id = i
    BY <2>2 DEF ExternalItem
  <2>5. <<"deleted", i>> \notin told
    BY <1>3 DEF SyncTypes
  <2> QED BY <1>3, <2>2, <2>3, <2>4, <2>5 DEF Handled
<1>6. CASE ~Recent(i, s.begun, s.plugin.since)
  <2>1. s.begun[i] < s.plugin.since
    BY <1>4, <1>6 DEF Recent
  <2> QED BY <1>2, <2>1 DEF NewsFacts
<1> QED BY <1>5, <1>6

LEMMA UpsertSteps ==
    ASSUME SyncInv, NEW c \in SyncCalls, UpsertSyncState(c)
    PROVE  SyncInv'
<1>1. /\ SyncTypes /\ JobFacts(c) /\ JobsFacts /\ SyncsFacts /\ HeardBefore
      /\ syncs \in [SyncCalls -> SyncRecords] /\ syncFaults \in 0..MaxSyncFaults
      /\ MaxSyncFaults \in Nat
  BY SyncAssumption DEF SyncInv, SyncTypes, JobsFacts
<1>2. PICK s : s = syncs[c]
  OBVIOUS
<1>3. s \in SyncRecords /\ StageFacts(s) /\ NewsFacts(s) /\ s.pc = "upsert"
  BY <1>1, <1>2 DEF SyncsFacts, UpsertSyncState, At
<1>4. PICK sums : sums = ChecksumMap(s.plugin.found)
  OBVIOUS
<1>5. /\ syncState'.checksums = sums
      /\ UNCHANGED <<envVars, lastSynced, announced, told, excused, syncJobs, activeJobIds>>
      /\ UNCHANGED <<statements, source, now>>
  BY <1>2, <1>4 DEF UpsertSyncState, newsVars, envVars
<1>6. NewsGrow
  BY <1>5 DEF NewsGrow
<1>7. HeardBefore'
  BY <1>1, <1>5 DEF HeardBefore, Owed, ExternalItem
<1>8. KnownIsAnnounced'
  <2>1. s.plugin.found \in Seq(Things)
    BY <1>3, SyncFields, PluginLiteral
  <2>2. \A e \in ToSet(s.plugin.found) : Handled(e)
    BY <1>3, EmptyElements DEF StageFacts, NewsFacts, Taken, Scanned
  <2>3. ASSUME NEW id \in DOMAIN sums
        PROVE  \/ \E x \in announced : x.id = id /\ x.checksum = sums[id]
               \/ id \in excused \/ <<"deleted", id>> \in told
    <3>1. PICK e \in ToSet(s.plugin.found) : e.id = id /\ sums[id] = e.checksum
      BY <1>4, <2>1, <2>3, ChecksumsOfFound
    <3> QED BY <2>2, <3>1 DEF Handled
  <2> QED BY <1>5, <2>3 DEF KnownIsAnnounced
<1>9. CASE syncs' = [syncs EXCEPT ![c].pc = "lastSync", ![c].syncedAt = now] /\ UNCHANGED syncFaults
  <2>1. PICK time : time = now
    OBVIOUS
  <2>2. PICK t : t = [s EXCEPT !.pc = "lastSync", !.syncedAt = time]
    OBVIOUS
  <2>3. t = [pc |-> "lastSync", plugin |-> s.plugin, todo |-> s.todo, processed |-> s.processed,
             skipped |-> s.skipped, errors |-> s.errors, begun |-> s.begun, syncedAt |-> time]
    BY <1>3, <2>2 DEF SyncRecords
  <2>4. time \in Nat
    BY <1>1, <2>1, SourceTypes
  <2>5. t \in SyncRecords
    <3>1. "lastSync" \in SyncPcs
      BY DEF SyncPcs, Executing
    <3> QED BY <1>3, <2>3, <2>4, <3>1, SyncFields DEF SyncRecords
  <2>6. syncs' = [syncs EXCEPT ![c] = t]
    <3>1. syncs' = [syncs EXCEPT ![c].pc = "lastSync", ![c].syncedAt = time]
      BY <1>9, <2>1
    <3> QED BY <1>1, <1>2, <2>2, <3>1
  <2>7. Becomes(c, t)
    BY <1>1, <2>5, <2>6 DEF Becomes
  <2>8. StageFacts(t)'
    <3>1. time <= now'
      BY <1>5, <2>1, <2>4
    <3> QED BY <1>3, <2>3, <3>1 DEF StageFacts, Unread, Asking, Taking, Taken, Scanned
  <2>9. NewsFacts(t)'
    <3>1. t.pc \in Reading /\ s.pc \in Reading /\ s.pc \in Scanned /\ t.pc \notin {"tell", "done"}
      BY <1>3, <2>3 DEF Reading, Executing, Taken, Scanned
    <3>2. \A i \in SourceItems \ excused' : source'[i] = source[i]
      BY <1>5
    <3>3. t.plugin = s.plugin /\ t.todo = s.todo /\ t.begun = s.begun
      BY <2>3
    <3> QED BY <1>3, <1>6, <3>1, <3>2, <3>3, NewsGoOn
  <2>10. syncJobs[c].status = "completed"
    BY <1>1, <1>2, <1>3 DEF JobFacts, At
  <2>11. /\ announced' \subseteq Things /\ excused' \subseteq SourceItems /\ told' \ told = {}
         /\ lastSynced' \in 0..now /\ syncFaults' \in 0..MaxSyncFaults
    BY <1>1, <1>5, <1>9 DEF SyncTypes
  <2>12. {syncs[c].pc, t.pc} \subseteq Executing \ {"tellFailed"}
    BY <1>2, <1>3, <2>3 DEF Executing
  <2> QED BY <1>5, <1>6, <1>7, <1>8, <2>7, <2>8, <2>9, <2>10, <2>11, <2>12, SyncMoves
<1>10. CASE SyncGoes(c, "catch") /\ syncFaults < MaxSyncFaults /\ syncFaults' = syncFaults + 1
  <2>1. "catch" \in SyncPcs /\ \A x \in {syncs[c]} : MayGo(x, "catch")
    BY DEF SyncPcs, Executing, MayGo, Outside
  <2>2. SyncsFacts' /\ \E t \in SyncRecords : Becomes(c, t) /\ t.pc = "catch"
    BY <1>1, <1>5, <1>6, <1>10, <2>1, SyncOnlyGoes
  <2>3. PICK t \in SyncRecords : Becomes(c, t) /\ t.pc = "catch"
    BY <2>2
  <2>4. syncs[c].pc = "upsert" /\ syncs'[c].pc = "catch"
    BY <1>2, <1>3, <2>3 DEF Becomes
  <2>5. JobFacts(c)'
    BY <1>1, <1>5, <2>4 DEF JobFacts, At, Executing
  <2>6. JobsFacts'
    <3>1. OtherJobs(c)
      BY <1>5 DEF OtherJobs
    <3> QED BY <1>1, <2>3, <2>5, <3>1, OtherJobsStay
  <2>7. SyncTypes'
    <3>1. /\ announced' \subseteq Things /\ excused' \subseteq SourceItems
          /\ \A e \in told' : e \in told
          /\ lastSynced' \in 0..now /\ syncFaults' \in 0..MaxSyncFaults
          /\ syncJobs' \in [SyncCalls -> JobRecords] /\ activeJobIds' \subseteq SyncCalls
      BY <1>1, <1>5, <1>10 DEF SyncTypes
    <3> QED BY <1>1, <1>5, <2>3, <3>1, TypesStay
  <2> QED BY <1>7, <1>8, <2>2, <2>6, <2>7 DEF SyncInv
<1> QED BY <1>9, <1>10 DEF UpsertSyncState

LEMMA LastSyncSteps ==
    ASSUME SyncInv, NEW c \in SyncCalls, UpdateAccountLastSync(c)
    PROVE  SyncInv'
<1>1. /\ SyncTypes /\ SyncsFacts /\ KnownIsAnnounced /\ SyncGoes(c, "tell")
      /\ UNCHANGED <<envVars, syncState, announced, told, excused, syncFaults, syncJobs, activeJobIds>>
      /\ UNCHANGED <<source, now>>
  BY DEF SyncInv, UpdateAccountLastSync, newsVars, historyVars, envVars
<1>2. PICK s : s = syncs[c]
  OBVIOUS
<1>3. s \in SyncRecords /\ StageFacts(s) /\ NewsFacts(s) /\ s.pc = "lastSync"
  BY <1>1, <1>2 DEF SyncTypes, SyncsFacts, UpdateAccountLastSync, At
<1>4. PICK t \in SyncRecords :
         /\ Becomes(c, t) /\ t.pc = "tell"
         /\ t.plugin = s.plugin /\ t.todo = s.todo /\ t.processed = s.processed
         /\ t.skipped = s.skipped /\ t.errors = s.errors /\ t.begun = s.begun
         /\ t.syncedAt = s.syncedAt
  <2>1. "tell" \in SyncPcs
    BY DEF SyncPcs, Executing
  <2> QED BY <1>1, <1>2, <2>1, SyncGoesOn
<1>5. \A i \in Owed : ExternalItem(i, s.begun) \in announced
  BY <1>1, <1>3, AllHeard DEF Taken
<1>6. StageFacts(t)'
  BY <1>3, <1>4 DEF StageFacts, Unread, Asking, Taking, Taken, Scanned
<1>7. NewsFacts(t)'
  <2>1. t.pc \notin Reading /\ t.pc \notin Scanned
    BY <1>4 DEF Reading, Executing, Scanned, Taking, Taken
  <2>2. Owed' = Owed
    BY <1>1 DEF Owed
  <2> QED BY <1>1, <1>4, <1>5, <2>1, <2>2 DEF NewsFacts
<1>8. HeardBefore'
  <2>1. \A i \in Owed : s.begun[i] = source[i]
    BY <1>3 DEF NewsFacts, Owed, Reading, Executing
  <2>2. \A i \in Owed : ExternalItem(i, source) \in announced
    BY <1>5, <2>1 DEF ExternalItem
  <2> QED BY <1>1, <2>2 DEF HeardBefore, Owed, ExternalItem
<1>9. KnownIsAnnounced'
  BY <1>1 DEF KnownIsAnnounced
<1>10. NewsGrow
  BY <1>1 DEF NewsGrow
<1>11. /\ announced' \subseteq Things /\ excused' \subseteq SourceItems /\ told' \ told = {}
       /\ syncFaults' \in 0..MaxSyncFaults
  BY <1>1 DEF SyncTypes
<1>12. lastSynced' \in 0..now
  <2>1. s.syncedAt \in Nat /\ s.syncedAt <= now
    BY <1>3, SyncFields DEF StageFacts
  <2> QED BY <1>1, <1>2, <2>1, SourceTypes DEF UpdateAccountLastSync
<1>13. {syncs[c].pc, t.pc} \subseteq Executing \ {"tellFailed"} /\ syncJobs[c].status = "completed"
  BY <1>2, <1>3, <1>4 DEF SyncInv, JobsFacts, JobFacts, At, Executing
<1> QED BY <1>1, <1>4, <1>6, <1>7, <1>8, <1>9, <1>10, <1>11, <1>12, <1>13, SyncMoves

-----------------------------------------------------------------------------
(* An item is edited, or time goes by, and no sync moves.                   *)
LEMMA SourceSteps ==
    ASSUME SyncInv, UNCHANGED <<statements, accountVars, announced, told, syncFaults, syncJobs, activeJobIds, syncs>>,
           now' \in now..MaxNow, source' \in [SourceItems -> 1..now'],
           excused \subseteq excused', excused' \subseteq SourceItems,
           \A i \in SourceItems : source'[i] = source[i] \/ source'[i] >= now,
           \A i \in SourceItems \ excused' :
              source'[i] = source[i] \/ \A c \in SyncCalls : At(c) \notin Reading
    PROVE  SyncInv'
<1>1. /\ SyncTypes /\ JobsFacts /\ SyncsFacts /\ HeardBefore /\ KnownIsAnnounced
      /\ UNCHANGED <<syncState, lastSynced>> /\ now \in Nat
  BY SourceTypes DEF SyncInv, accountVars
<1>2. NewsGrow
  BY DEF NewsGrow
<1>3. SyncTypes'
  <2>1. now' \in 1..MaxNow /\ lastSynced' \in 0..now'
    BY <1>1, SyncAssumption DEF SyncTypes
  <2> QED BY <1>1, <2>1 DEF SyncTypes
<1>4. JobsFacts'
  BY <1>1 DEF JobsFacts, JobFacts, At
<1>5. SyncsFacts'
  <2>1. ASSUME NEW c \in SyncCalls, NEW s \in {syncs'[c]}
        PROVE  StageFacts(s)' /\ NewsFacts(s)'
    <3>1. s = syncs[c] /\ s \in SyncRecords /\ StageFacts(s) /\ NewsFacts(s)
      BY <1>1, <2>1 DEF SyncsFacts, SyncTypes
    <3>2. StageFacts(s)'
      <4>1. s.syncedAt \in Nat /\ now <= now' /\ now' \in Nat
        BY <1>1, <3>1, SyncFields, SyncAssumption
      <4>2. s.syncedAt <= now => s.syncedAt <= now'
        BY <1>1, <4>1
      <4> QED BY <3>1, <4>2 DEF StageFacts
    <3>3. s.pc \in Reading => \A i \in SourceItems \ excused' : source'[i] = source[i]
      BY <3>1 DEF At
    <3> QED BY <1>2, <3>1, <3>2, <3>3, NewsGoOn
  <2> QED BY <2>1 DEF SyncsFacts
<1>6. HeardBefore'
  <2>1. ASSUME NEW i \in Owed', source'[i] < lastSynced'
        PROVE  ExternalItem(i, source)' \in announced'
    <3>1. i \in Owed /\ i \in SourceItems
      BY DEF Owed
    <3>2. lastSynced \in 0..now /\ source[i] \in Nat
      BY <1>1, <3>1, SourceTypes DEF SyncTypes
    <3>3. source'[i] = source[i]
      BY <1>1, <2>1, <3>1, <3>2
    <3>4. ExternalItem(i, source) \in announced
      BY <1>1, <2>1, <3>1, <3>3 DEF HeardBefore
    <3> QED BY <3>3, <3>4 DEF ExternalItem
  <2> QED BY <2>1 DEF HeardBefore
<1>7. KnownIsAnnounced'
  BY <1>1, <1>2 DEF KnownIsAnnounced, NewsGrow
<1> QED BY <1>3, <1>4, <1>5, <1>6, <1>7 DEF SyncInv

LEMMA EditSteps ==
    ASSUME SyncInv, NEW i \in SourceItems, EditItem(i)
    PROVE  SyncInv'
<1>1. /\ now \in Nat /\ MaxNow \in Nat /\ now >= 1 /\ excused \subseteq SourceItems
      /\ source \in [SourceItems -> 1..now]
  BY SyncAssumption DEF SyncInv, SyncTypes
<1>2. PICK t \in {now, now + 1} : /\ t <= MaxNow
                                  /\ source' = [source EXCEPT ![i] = t] /\ now' = t
  BY DEF EditItem
<1>3. now' \in now..MaxNow /\ source' \in [SourceItems -> 1..now']
  <2>1. t \in now..MaxNow /\ 1..now \subseteq 1..t /\ t \in 1..t
    BY <1>1, <1>2
  <2> QED BY <1>1, <1>2, <2>1
<1>4. /\ source'[i] = t /\ t >= now
      /\ \A j \in SourceItems \ {i} : source'[j] = source[j]
  BY <1>1, <1>2
<1>5. excused' = IF \E c \in SyncCalls : At(c) \in Reading THEN excused \cup {i} ELSE excused
  BY DEF EditItem
<1>6. excused \subseteq excused' /\ excused' \subseteq SourceItems
  BY <1>1, <1>5
<1>7. \A j \in SourceItems : source'[j] = source[j] \/ source'[j] >= now
  BY <1>4
<1>8. \A j \in SourceItems \ excused' :
         source'[j] = source[j] \/ \A c \in SyncCalls : At(c) \notin Reading
  BY <1>4, <1>5
<1>9. UNCHANGED <<statements, accountVars, announced, told, syncFaults, syncJobs, activeJobIds, syncs>>
  BY DEF EditItem, newsVars
<1> QED BY <1>3, <1>6, <1>7, <1>8, <1>9, SourceSteps

LEMMA TimeSteps ==
    ASSUME SyncInv, TimePasses
    PROVE  SyncInv'
<1>1. now \in Nat /\ MaxNow \in Nat /\ source \in [SourceItems -> 1..now] /\ excused \subseteq SourceItems
  BY SyncAssumption DEF SyncInv, SyncTypes
<1>2. /\ now < MaxNow /\ now' = now + 1
      /\ UNCHANGED <<statements, accountVars, announced, told, excused, source, syncFaults, syncJobs, activeJobIds, syncs>>
  BY DEF TimePasses, newsVars, historyVars
<1>3. now' \in now..MaxNow /\ source' \in [SourceItems -> 1..now']
  <2>1. 1..now \subseteq 1..(now + 1)
    BY <1>1
  <2> QED BY <1>1, <1>2, <2>1
<1> QED BY <1>1, <1>2, <1>3, SourceSteps

(* The process ends.                                                        *)
LEMMA CrashSteps ==
    ASSUME SyncInv, ConnectorCrash
    PROVE  SyncInv'
<1>1. /\ SyncTypes /\ JobsFacts /\ SyncsFacts /\ HeardBefore /\ KnownIsAnnounced
      /\ MaxSyncFaults \in Nat /\ syncFaults \in 0..MaxSyncFaults
      /\ syncs \in [SyncCalls -> SyncRecords]
  BY SyncAssumption DEF SyncInv, SyncTypes
<1>2. /\ syncFaults < MaxSyncFaults /\ syncFaults' = syncFaults + 1 /\ activeJobIds' = {}
      /\ UNCHANGED <<statements, source, now, syncState, lastSynced, announced, told, excused, syncJobs>>
  BY DEF ConnectorCrash, envVars, accountVars, newsVars
<1> DEFINE Runs(c) == At(c) \in Executing \cup {"create", "request"}
<1>3. syncs' = [c \in SyncCalls |-> IF Runs(c) THEN [syncs[c] EXCEPT !.pc = "crashed"] ELSE syncs[c]]
  BY DEF ConnectorCrash
<1>4. ASSUME NEW c \in SyncCalls
      PROVE  /\ syncs'[c] \in SyncRecords /\ syncs'[c].pc \notin Executing
             /\ (syncs'[c] = syncs[c]
                 \/ (/\ syncs'[c].pc = "crashed" /\ syncs'[c].plugin = syncs[c].plugin
                     /\ syncs[c].pc \notin {"done", "threw"}))
  <2>1. PICK s : s = syncs[c]
    OBVIOUS
  <2>2. s \in SyncRecords
    BY <1>1, <2>1
  <2>3. CASE Runs(c)
    <3>1. PICK t : t = [s EXCEPT !.pc = "crashed"]
      OBVIOUS
    <3>2. t = [pc |-> "crashed", plugin |-> s.plugin, todo |-> s.todo, processed |-> s.processed,
               skipped |-> s.skipped, errors |-> s.errors, begun |-> s.begun, syncedAt |-> s.syncedAt]
      BY <2>2, <3>1 DEF SyncRecords
    <3>3. t \in SyncRecords
      <4>1. "crashed" \in SyncPcs
        BY DEF SyncPcs
      <4> QED BY <2>2, <3>2, <4>1, SyncFields DEF SyncRecords
    <3>4. syncs'[c] = t
      BY <1>3, <2>1, <2>3, <3>1
    <3>5. s.pc \notin {"done", "threw"} /\ t.pc \notin Executing /\ t.pc = "crashed" /\ t.plugin = s.plugin
      BY <2>1, <2>3, <3>2 DEF Executing, At
    <3> QED BY <2>1, <3>3, <3>4, <3>5
  <2>4. CASE ~Runs(c)
    <3>1. syncs'[c] = s /\ s.pc \notin Executing
      BY <1>3, <2>1, <2>4 DEF At
    <3> QED BY <2>1, <2>2, <3>1
  <2> QED BY <2>3, <2>4
<1> HIDE DEF Runs
<1>5. SyncTypes'
  <2> DEFINE After(c) == IF Runs(c) THEN [syncs[c] EXCEPT !.pc = "crashed"] ELSE syncs[c]
  <2>1. syncs' = [c \in SyncCalls |-> After(c)]
    BY <1>3
  <2> HIDE DEF After
  <2>2. syncs' \in [SyncCalls -> SyncRecords]
    <3>1. ASSUME NEW c \in SyncCalls PROVE After(c) \in SyncRecords
      <4>1. syncs'[c] = After(c)
        BY <2>1
      <4> QED BY <1>4, <4>1
    <3> QED BY <2>1, <3>1
  <2>3. syncFaults' \in 0..MaxSyncFaults
    BY <1>1, <1>2
  <2> QED BY <1>1, <1>2, <2>2, <2>3 DEF SyncTypes
<1>6. JobsFacts'
  <2>1. ASSUME NEW c \in SyncCalls
        PROVE  JobFacts(c)'
    <3>1. JobFacts(c)
      BY <1>1 DEF JobsFacts
    <3> QED BY <1>2, <1>4, <3>1 DEF JobFacts, At, Executing
  <2> QED BY <2>1 DEF JobsFacts
<1>7. SyncsFacts'
  <2>1. ASSUME NEW c \in SyncCalls, NEW t \in {syncs'[c]}
        PROVE  StageFacts(t)' /\ NewsFacts(t)'
    <3>1. PICK s : s = syncs[c]
      OBVIOUS
    <3>2. StageFacts(s) /\ NewsFacts(s)
      BY <1>1, <3>1 DEF SyncsFacts
    <3>3. CASE t = s
      <4>1. NewsFacts(s)'
        <5>1. NewsGrow
          BY <1>2 DEF NewsGrow
        <5> QED BY <1>2, <3>2, <5>1, NewsGoOn
      <4> QED BY <1>2, <3>2, <3>3, <4>1 DEF StageFacts
    <3>4. CASE t # s
      <4>1. t.pc = "crashed" /\ t.plugin = s.plugin
        BY <1>4, <2>1, <3>1, <3>4
      <4> QED BY <3>2, <4>1 DEF StageFacts, NewsFacts, Reading, Executing, Unread, Asking, Taking, Taken, Scanned
    <3> QED BY <3>3, <3>4
  <2> QED BY <2>1 DEF SyncsFacts
<1>8. NewsGrow
  BY <1>2 DEF NewsGrow
<1>9. HeardBefore' /\ KnownIsAnnounced'
  BY <1>1, <1>2, <1>8, AccountStays
<1> QED BY <1>5, <1>6, <1>7, <1>9 DEF SyncInv

LEMMA SyncInitInv == SyncInit => SyncInv
<1> SUFFICES ASSUME SyncInit PROVE SyncInv
  OBVIOUS
<1>1. PICK p : p = [at |-> "pages", page |-> 1, since |-> 0, found |-> <<>>, local |-> <<>>,
                    queue |-> <<>>, retries |-> 0]
  OBVIOUS
<1>2. PICK s : s = [pc |-> "idle", plugin |-> p, todo |-> <<>>, processed |-> 0, skipped |-> 0,
                    errors |-> 0, begun |-> <<>>, syncedAt |-> 0]
  OBVIOUS
<1>3. s = NewSync
  BY <1>1, <1>2 DEF NewSync, StartSync
<1>4. p \in PluginRecords
  <2>1. 0 \in 0..NotionRetries
    BY SyncAssumption
  <2> QED BY <1>1, <2>1, EmptyList DEF PluginRecords
<1>5. s \in SyncRecords
  <2>1. "idle" \in SyncPcs
    BY DEF SyncPcs
  <2> QED BY <1>2, <1>4, <2>1, EmptyList DEF SyncRecords
<1>6. NoJob \in JobRecords /\ NoJob.status = "none"
  BY DEF NoJob, JobRecords
<1>7. SyncTypes
  BY <1>3, <1>5, <1>6, SyncAssumption DEF SyncInit, SyncTypes
<1>8. ASSUME NEW c \in SyncCalls
      PROVE  JobFacts(c) /\ syncs[c] = s /\ At(c) = "idle"
  BY <1>2, <1>3, <1>6 DEF SyncInit, JobFacts, At, Executing
<1>9. StageFacts(s) /\ NewsFacts(s)
  <2>1. PluginFacts(p)
    BY <1>1, ListsOfItems DEF PluginFacts
  <2> QED BY <1>1, <1>2, <2>1
        DEF StageFacts, NewsFacts, Reading, Executing, Unread, Asking, Scanned, Taking, Taken
<1>10. HeardBefore /\ KnownIsAnnounced
  BY DEF SyncInit, HeardBefore, KnownIsAnnounced, Owed
<1> QED BY <1>7, <1>8, <1>9, <1>10 DEF SyncInv, JobsFacts, SyncsFacts

LEMMA SyncStepInv == SyncInv /\ [SyncNext]_syncVars => SyncInv'
<1> SUFFICES ASSUME SyncInv, [SyncNext]_syncVars PROVE SyncInv'
  OBVIOUS
<1>1. ASSUME NEW c \in SyncCalls, SyncStep(c) PROVE SyncInv'
  <2>1. CASE PostSync(c) \/ CreateSyncJob(c) \/ PublishSyncRequested(c)
    BY <2>1, RequestSteps
  <2>2. CASE LoadJob(c)
    BY <2>2, LoadSteps
  <2>3. CASE MarkScanning(c) \/ MarkProcessing(c) \/ MarkCompleted(c) \/ MarkFailed(c)
    BY <2>3, MarkSteps
  <2>4. CASE \/ UpdateRefused(c) \/ PublishSyncStarted(c) \/ GetAccessToken(c)
             \/ PublishDocumentDiscovered(c) \/ PublishSyncCompleted(c) \/ PublishSyncFailed(c)
    BY <2>4, TellSteps
  <2>5. CASE NotionAnswers(c) \/ NotionRefuses(c)
    BY <2>5, NotionSteps
  <2>6. CASE PublishDocumentDeleted(c) \/ TakeItem(c) \/ PublishDocumentUpdated(c) \/ ItemFails(c)
    BY <2>6, ItemSteps
  <2>7. CASE UpsertSyncState(c)
    BY <2>7, UpsertSteps
  <2>8. CASE UpdateAccountLastSync(c)
    BY <2>8, LastSyncSteps
  <2>9. CASE SyncCallFails(c)
    BY <2>9, FailSteps
  <2> QED BY <1>1, <2>1, <2>2, <2>3, <2>4, <2>5, <2>6, <2>7, <2>8, <2>9 DEF SyncStep
<1>2. ASSUME NEW i \in SourceItems, EditItem(i) PROVE SyncInv'
  BY <1>2, EditSteps
<1>3. CASE TimePasses
  BY <1>3, TimeSteps
<1>4. CASE ConnectorCrash
  BY <1>4, CrashSteps
<1>5. CASE UNCHANGED syncVars
  <2>1. UNCHANGED <<statements, accountVars, announced, told, excused, syncFaults, syncJobs,
                    activeJobIds, syncs, source, now>>
    BY <1>5 DEF syncVars, envVars, newsVars, historyVars
  <2>2. now \in 1..MaxNow /\ source \in [SourceItems -> 1..now] /\ excused \subseteq SourceItems
    BY DEF SyncInv, SyncTypes
  <2> QED BY <2>1, <2>2, SourceSteps, SyncAssumption
<1> QED BY <1>1, <1>2, <1>3, <1>4, <1>5 DEF SyncNext

(* What is known of the syncs of an account, and of what consumers were told  *)
(* of it, holds after every step: of the requests, of the executions, of     *)
(* Notion, of a crash (routes/connectors.ts:141-188, worker.ts:41-206).      *)
THEOREM SyncInvariant == SyncSpec => []SyncInv
<1>1. SyncInit => SyncInv
  BY SyncInitInv
<1>2. SyncInv /\ [SyncNext]_syncVars => SyncInv'
  BY SyncStepInv
<1> QED BY <1>1, <1>2, PTL DEF SyncSpec

(* The rows, the records of the executions and the plugin stay well-formed;   *)
(* last_synced_at is never in the future.                                    *)
THEOREM SyncTypeCorrect == SyncSpec => []SyncTypeOK
<1>1. SyncInv => SyncTypeOK
  <2> SUFFICES ASSUME SyncInv PROVE SyncTypeOK
    OBVIOUS
  <2>1. SyncTypes
    BY DEF SyncInv
  <2>2. ASSUME NEW c \in SyncCalls
        PROVE  /\ syncJobs[c].status \in {"none", "pending", "scanning", "processing", "completed", "failed"}
               /\ syncs[c].pc \in SyncPcs
               /\ syncs[c].plugin.retries \in 0..NotionRetries
    BY <2>1 DEF SyncTypes, SyncRecords, JobRecords, PluginRecords
  <2> QED BY <2>1, <2>2 DEF SyncTypes, SyncTypeOK
<1> QED BY <1>1, SyncInvariant, PTL

(* The slot of the scheduler is held by the executions under way and by no    *)
(* other, whatever failed in them; what is announced of a job is what its row *)
(* says, and a completed row accounts for every item found (worker.ts:54-139).*)
THEOREM JobsSettle == SyncSpec => []JobsAreSettled
<1>1. SyncInv => JobsAreSettled
  BY DEF SyncInv, JobsFacts, JobFacts, JobsAreSettled
<1> QED BY <1>1, SyncInvariant, PTL

(* Consumers have heard of every item that a job which is done was to tell    *)
(* of, and no item is ever skipped that they did not hear of, however many   *)
(* syncs of the account run at once (worker.ts:61-96, 145-206).              *)
THEOREM SyncsAreWhole == SyncSpec => []SyncIsWhole
<1>1. SyncInv => SyncIsWhole
  <2> SUFFICES ASSUME SyncInv PROVE SyncIsWhole
    OBVIOUS
  <2>1. ASSUME NEW c \in SyncCalls, At(c) = "done", NEW i \in SourceItems \ (Archived \cup excused)
        PROVE  ExternalItem(i, syncs[c].begun) \in announced
    BY <2>1 DEF SyncInv, SyncsFacts, NewsFacts, Owed, At
  <2> QED BY <2>1 DEF SyncInv, SyncIsWhole, NothingMissed
<1> QED BY <1>1, SyncInvariant, PTL

-----------------------------------------------------------------------------
(***************************************************************************)
(* Gateway.  The limit of a key is that of every route with its name.        *)
(***************************************************************************)
Keys == {LimitKey(request) : request \in GatewayRequests}
GatewayCallRecords ==
    [key : Keys \cup {<<>>}, route : DOMAIN LimitOf, at : Nat, status : Int, from : UpstreamServices \cup {"gateway"}]

KeyMax(key) == LimitOf[CHOOSE route \in DOMAIN LimitOf : LimitOf[route].name = key[2]].max

GatewayTypes ==
    /\ gatewayCalls \in Seq(GatewayCallRecords)
    /\ gatewayClock \in Nat /\ restartedAt \in 0..Len(gatewayCalls)
    /\ \A key \in DOMAIN limits : limits[key] \in [count : Nat \ {0}, resetAt : Nat]

(* A call is under way where a service has it, and counts for its route.     *)
CallsAreKnown ==
    \A n \in DOMAIN gatewayCalls :
        /\ gatewayCalls[n].at <= gatewayClock
        /\ gatewayCalls[n].status = UnderWay => gatewayCalls[n].from # "gateway"
        /\ gatewayCalls[n].key # <<>> => gatewayCalls[n].key[2] = LimitOf[gatewayCalls[n].route].name

(* What was let through of a key from one time on, and between two.          *)
Since(key, from) == {n \in LetThrough(key) : gatewayCalls[n].at >= from}
Between(key, from, to) == {n \in LetThrough(key) : gatewayCalls[n].at >= from /\ gatewayCalls[n].at < to}

(* A window that is over leaves fewer than the limit in the span before now;  *)
(* one that is not has what it counts, which is fewer but for the request    *)
(* it started with, and fewer still came just before it.                    *)
OverAt(key, time) ==
    /\ \A n \in LetThrough(key) : gatewayCalls[n].at < time
    /\ Cardinality(Since(key, time - WindowMs + 1)) < KeyMax(key)
OpenSince(key, start, time, count) ==
    /\ start <= time
    /\ Cardinality(Since(key, start)) = IF count <= KeyMax(key) THEN count ELSE KeyMax(key)
    /\ \E n \in LetThrough(key) : gatewayCalls[n].at = start
    /\ Cardinality(Between(key, start - WindowMs + 1, start)) < KeyMax(key)

WindowsCount ==
    \A key \in Keys :
        IF Expired(key) THEN \A time \in {gatewayClock} : OverAt(key, time)
        ELSE \A start \in {limits[key].resetAt - WindowMs} : \A time \in {gatewayClock} :
                 \A count \in {limits[key].count} : OpenSince(key, start, time, count)

GatewayInv == GatewayTypes /\ CallsAreKnown /\ WindowsCount /\ LimitIsKept

(* The calls are a sequence of calls, and came at a time.                    *)
LEMMA CallsDomain ==
    ASSUME GatewayTypes
    PROVE  /\ Len(gatewayCalls) \in Nat /\ DOMAIN gatewayCalls = 1..Len(gatewayCalls)
           /\ \A n \in DOMAIN gatewayCalls : gatewayCalls[n] \in GatewayCallRecords
           /\ \A n \in DOMAIN gatewayCalls : n \in Nat /\ gatewayCalls[n].at \in Nat
<1>1. /\ Len(gatewayCalls) \in Nat /\ DOMAIN gatewayCalls = 1..Len(gatewayCalls)
      /\ \A n \in 1..Len(gatewayCalls) : gatewayCalls[n] \in GatewayCallRecords
  BY LenProperties, ElementOfSeq DEF GatewayTypes
<1> QED BY <1>1 DEF GatewayCallRecords

(* What was let through is finite, and so are the parts of it.               *)
LEMMA LetThroughFinite ==
    ASSUME GatewayTypes, NEW key, NEW S, S \subseteq LetThrough(key)
    PROVE  IsFiniteSet(S) /\ Cardinality(S) \in Nat
<1>1. S \subseteq 1..Len(gatewayCalls) /\ Len(gatewayCalls) \in Nat
  BY CallsDomain DEF LetThrough
<1>2. IsFiniteSet(1..Len(gatewayCalls))
  BY <1>1, FS_Interval
<1> QED BY <1>1, <1>2, FS_Subset, FS_CardinalityType

(* The limit of a key is the limit of the routes that count for it.          *)
LEMMA KeyMaxIsOfItsRoutes ==
    ASSUME NEW route \in DOMAIN LimitOf, NEW key, key[2] = LimitOf[route].name
    PROVE  KeyMax(key) = LimitOf[route].max /\ KeyMax(key) \in Nat \ {0}
<1> DEFINE r == CHOOSE r \in DOMAIN LimitOf : LimitOf[r].name = key[2]
<1>1. r \in DOMAIN LimitOf /\ LimitOf[r].name = key[2]
  OBVIOUS
<1>2. KeyMax(key) = LimitOf[r].max
  BY DEF KeyMax
<1> HIDE DEF r
<1> QED BY <1>1, <1>2, GatewayAssumption

(* The key of a request is one of the keys, with the limit of its route.    *)
LEMMA KeysHaveLimits ==
    ASSUME NEW request \in GatewayRequests
    PROVE  /\ LimitKey(request) \in Keys /\ LimitKey(request) # <<>>
           /\ LimitKey(request)[2] = LimitOf[request.route].name
           /\ KeyMax(LimitKey(request)) = LimitOf[request.route].max
           /\ KeyMax(LimitKey(request)) \in Nat \ {0}
<1>1. request.route \in DOMAIN LimitOf
  BY GatewayAssumption
<1>2. LimitKey(request)[2] = LimitOf[request.route].name /\ LimitKey(request) # <<>>
  BY DEF LimitKey
<1>3. LimitKey(request) \in Keys
  BY DEF Keys
<1> HIDE DEF LimitKey
<1> QED BY <1>1, <1>2, <1>3, KeyMaxIsOfItsRoutes

(* A request that comes is the last of the calls.                            *)
LEMMA CallComes ==
    ASSUME GatewayTypes, NEW call \in GatewayCallRecords, gatewayCalls' = Append(gatewayCalls, call),
           UNCHANGED restartedAt
    PROVE  /\ gatewayCalls' \in Seq(GatewayCallRecords)
           /\ Len(gatewayCalls') = Len(gatewayCalls) + 1
           /\ DOMAIN gatewayCalls' = 1..(Len(gatewayCalls) + 1)
           /\ gatewayCalls'[Len(gatewayCalls) + 1] = call
           /\ \A n \in DOMAIN gatewayCalls : gatewayCalls'[n] = gatewayCalls[n]
           /\ restartedAt' \in 0..Len(gatewayCalls')
           /\ \A key : LetThrough(key)' = LetThrough(key) \cup
                  {n \in {Len(gatewayCalls) + 1} :
                      call.key = key /\ ~(call.status = 429 /\ call.from = "gateway")}
<1>1. /\ gatewayCalls' \in Seq(GatewayCallRecords)
      /\ Len(gatewayCalls') = Len(gatewayCalls) + 1
      /\ DOMAIN gatewayCalls' = 1..(Len(gatewayCalls) + 1)
      /\ gatewayCalls'[Len(gatewayCalls) + 1] = call
      /\ \A n \in 1..Len(gatewayCalls) : gatewayCalls'[n] = gatewayCalls[n]
  BY AppendProperties, LenProperties DEF GatewayTypes
<1>2. DOMAIN gatewayCalls = 1..Len(gatewayCalls) /\ Len(gatewayCalls) \in Nat
  BY CallsDomain
<1>3. restartedAt \in 0..Len(gatewayCalls) /\ restartedAt' = restartedAt
  BY DEF GatewayTypes
<1>4. ASSUME NEW key
      PROVE  LetThrough(key)' = LetThrough(key) \cup {n \in {Len(gatewayCalls) + 1} :
                      call.key = key /\ ~(call.status = 429 /\ call.from = "gateway")}
  <2>1. ASSUME NEW n \in 1..(Len(gatewayCalls) + 1)
        PROVE  n \in LetThrough(key)' <=>
                 \/ n \in LetThrough(key)
                 \/ n = Len(gatewayCalls) + 1 /\ call.key = key /\ ~(call.status = 429 /\ call.from = "gateway")
    <3>1. CASE n \in 1..Len(gatewayCalls)
      <4>1. n # Len(gatewayCalls) + 1 /\ gatewayCalls'[n] = gatewayCalls[n]
        BY <1>1, <1>2, <3>1
      <4> QED BY <1>1, <1>2, <1>3, <3>1, <4>1 DEF LetThrough, Refused
    <3>2. CASE n = Len(gatewayCalls) + 1
      <4>1. n \notin DOMAIN gatewayCalls /\ n > restartedAt
        BY <1>2, <1>3, <3>2
      <4> QED BY <1>1, <1>2, <1>3, <3>2, <4>1 DEF LetThrough, Refused
    <3> QED BY <1>2, <3>1, <3>2
  <2>2. LetThrough(key)' \subseteq 1..(Len(gatewayCalls) + 1)
    BY <1>1 DEF LetThrough
  <2>3. LetThrough(key) \subseteq 1..(Len(gatewayCalls) + 1)
    BY <1>2 DEF LetThrough
  <2> QED BY <1>2, <2>1, <2>2, <2>3
<1>5. restartedAt' \in 0..Len(gatewayCalls')
  BY <1>1, <1>2, <1>3
<1> QED BY <1>1, <1>2, <1>4, <1>5

(* What was let through before, of the calls that were there.                *)
LEMMA BeforeStays ==
    ASSUME GatewayTypes, NEW call \in GatewayCallRecords, gatewayCalls' = Append(gatewayCalls, call),
           UNCHANGED restartedAt, NEW n \in DOMAIN gatewayCalls
    PROVE  LetThroughBefore(n)' = LetThroughBefore(n) /\ MaxOf(n)' = MaxOf(n) /\ (Refused(n)' <=> Refused(n))
           /\ gatewayCalls'[n] = gatewayCalls[n]
<1>1. /\ \A m \in DOMAIN gatewayCalls : gatewayCalls'[m] = gatewayCalls[m]
      /\ \A key : LetThrough(key)' = LetThrough(key) \cup
                  {m \in {Len(gatewayCalls) + 1} :
                      call.key = key /\ ~(call.status = 429 /\ call.from = "gateway")}
  BY CallComes
<1>2. DOMAIN gatewayCalls = 1..Len(gatewayCalls) /\ Len(gatewayCalls) \in Nat
  BY CallsDomain
<1>3. ~(Len(gatewayCalls) + 1 <= n)
  BY <1>2
<1>4. \A key : LetThrough(key) \subseteq DOMAIN gatewayCalls
  BY DEF LetThrough
<1>5. \A m : m \in LetThroughBefore(n)' <=> m \in LetThroughBefore(n)
  BY <1>1, <1>3, <1>4 DEF LetThroughBefore
<1> QED BY <1>1, <1>5 DEF LetThroughBefore, MaxOf, Refused

(* Windows over what was let through stay what they are while it stays.      *)
LEMMA WindowStays ==
    ASSUME GatewayTypes, NEW key, LetThrough(key)' = LetThrough(key),
           \A n \in LetThrough(key) : gatewayCalls'[n].at = gatewayCalls[n].at
    PROVE  /\ \A time : OverAt(key, time)' <=> OverAt(key, time)
           /\ \A start, time, count : OpenSince(key, start, time, count)' <=> OpenSince(key, start, time, count)
<1>1. \A from : Since(key, from)' = Since(key, from)
  BY DEF Since
<1>2. \A from, to : Between(key, from, to)' = Between(key, from, to)
  BY DEF Between
<1>3. KeyMax(key)' = KeyMax(key)
  BY DEF KeyMax
<1> QED BY <1>1, <1>2, <1>3 DEF OverAt, OpenSince

(* So does what is said of a key that nothing was let through of.            *)
LEMMA KeysStay ==
    ASSUME GatewayTypes, WindowsCount, UNCHANGED gatewayClock, NEW key \in Keys,
           (key \in DOMAIN limits)' <=> key \in DOMAIN limits,
           key \in DOMAIN limits => limits'[key] = limits[key],
           LetThrough(key)' = LetThrough(key),
           \A n \in LetThrough(key) : gatewayCalls'[n].at = gatewayCalls[n].at
    PROVE  IF Expired(key)' THEN \A time \in {gatewayClock'} : OverAt(key, time)'
           ELSE \A start \in {limits'[key].resetAt - WindowMs} : \A time \in {gatewayClock'} :
                 \A count \in {limits'[key].count} : OpenSince(key, start, time, count)'
<1>1. Expired(key)' <=> Expired(key)
  BY DEF Expired
<1>2. ~Expired(key) => limits'[key] = limits[key]
  BY DEF Expired
<1> QED BY <1>1, <1>2, WindowStays DEF WindowsCount

(* The windows of one key, over the requests let through of it: when each    *)
(* came is all that matters of them.  First the request that opens one.      *)
From(S, at, from) == {m \in S : at[m] >= from}
Among(S, at, from, to) == {m \in S : at[m] >= from /\ at[m] < to}
InSpan(S, at, time) == {m \in S : time - at[m] < WindowMs}

(* It opens the window with less than the limit in the span before it.       *)
LEMMA WindowOpens ==
    ASSUME NEW key, NEW time \in Nat, NEW S, NEW at, NEW n, NEW T,
           KeyMax(key) \in Nat \ {0}, IsFiniteSet(S), \A m \in S : at[m] \in Nat, \A m \in S : at[m] < time,
           n \notin S, at[n] = time,
           Cardinality(From(S, at, time - WindowMs + 1)) < KeyMax(key),
           T = S \cup {n}
    PROVE  /\ Cardinality(From(T, at, time)) = 1
           /\ Cardinality(Among(T, at, time - WindowMs + 1, time)) < KeyMax(key)
           /\ Cardinality(InSpan(T, at, time)) <= KeyMax(key)
<1> USE DEF From, Among, InSpan
<1> DEFINE Old == {m \in S : at[m] >= time - WindowMs + 1}
<1>1. WindowMs \in Nat \ {0}
  BY GatewayAssumption
<1>2. Cardinality({m \in S \cup {n} : at[m] >= time}) = 1
  <2>1. {m \in S \cup {n} : at[m] >= time} = {n}
    OBVIOUS
  <2> QED BY <2>1, FS_Singleton
<1>3. {m \in S \cup {n} : at[m] >= time - WindowMs + 1 /\ at[m] < time} = Old
  BY <1>1
<1>4. {m \in S \cup {n} : time - at[m] < WindowMs} = Old \cup {n}
  <2>1. \A m \in S : time - at[m] < WindowMs <=> at[m] >= time - WindowMs + 1
    BY <1>1
  <2>2. time - at[n] < WindowMs
    BY <1>1
  <2> QED BY <2>1, <2>2
<1>5. IsFiniteSet(Old) /\ Cardinality(Old) \in Nat
  BY FS_Subset, FS_CardinalityType
<1>6. Cardinality(Old \cup {n}) <= Cardinality(Old) + 1
  <2>1. n \notin Old
    OBVIOUS
  <2> HIDE DEF Old
  <2>2. Cardinality(Old \cup {n}) = Cardinality(Old) + 1
    BY <1>5, <2>1, FS_AddElement
  <2> QED BY <1>5, <2>2
<1>7. Cardinality(Old) < KeyMax(key)
  OBVIOUS
<1> HIDE DEF Old
<1>8. Cardinality(Old \cup {n}) <= KeyMax(key)
  <2>1. Cardinality(Old \cup {n}) \in Nat
    BY <1>5, FS_AddElement, FS_CardinalityType
  <2> QED BY <1>5, <1>6, <1>7, <2>1
<1> QED BY <1>2, <1>3, <1>4, <1>7, <1>8 DEF Old

(* Then another request of it, which is let through or refused.              *)
LEMMA WindowGoesOn ==
    ASSUME NEW key, NEW time \in Nat, NEW start \in Int, NEW count \in Nat, NEW S, NEW at, NEW n, NEW T,
           KeyMax(key) \in Nat \ {0},
           start <= time, time - start < WindowMs, IsFiniteSet(S), \A m \in S : at[m] \in Nat, n \notin S, at[n] = time,
           Cardinality(From(S, at, start)) = IF count <= KeyMax(key) THEN count ELSE KeyMax(key),
           Cardinality(Among(S, at, start - WindowMs + 1, start)) < KeyMax(key),
           T = IF count + 1 <= KeyMax(key) THEN S \cup {n} ELSE S
    PROVE  /\ Cardinality(From(T, at, start)) = IF count + 1 <= KeyMax(key) THEN count + 1 ELSE KeyMax(key)
           /\ Cardinality(Among(T, at, start - WindowMs + 1, start)) < KeyMax(key)
           /\ Cardinality(InSpan(T, at, time)) < 2 * KeyMax(key)
           /\ ~(count + 1 <= KeyMax(key)) => Cardinality(InSpan(T, at, time)) >= KeyMax(key)
<1> USE DEF From, Among, InSpan
<1> DEFINE This == {m \in S : at[m] >= start}
           Next == {m \in T : at[m] >= start}
           Before == {m \in S : at[m] >= start - WindowMs + 1 /\ at[m] < start}
           Span == {m \in T : time - at[m] < WindowMs}
<1>1. WindowMs \in Nat \ {0}
  BY GatewayAssumption
<1>2. S \subseteq T /\ T \subseteq S \cup {n} /\ (\A m \in T : at[m] \in Nat) /\ IsFiniteSet(T)
  <2>1. IsFiniteSet(S \cup {n})
    BY FS_AddElement
  <2> QED BY <2>1
<1>3. {m \in T : at[m] >= start - WindowMs + 1 /\ at[m] < start} = Before
  BY <1>1, <1>2
<1>4. /\ IsFiniteSet(This) /\ IsFiniteSet(Next) /\ IsFiniteSet(Before) /\ IsFiniteSet(Span)
      /\ Cardinality(This) \in Nat /\ Cardinality(Next) \in Nat /\ Cardinality(Before) \in Nat
      /\ Cardinality(Span) \in Nat
  <2>1. IsFiniteSet(This) /\ IsFiniteSet(Next) /\ IsFiniteSet(Before) /\ IsFiniteSet(Span)
    BY <1>2, FS_Subset
  <2> HIDE DEF This, Next, Before, Span
  <2> QED BY <2>1, FS_CardinalityType
<1>5. Cardinality(Next) = IF count + 1 <= KeyMax(key) THEN count + 1 ELSE KeyMax(key)
  <2>1. Cardinality(This) = IF count <= KeyMax(key) THEN count ELSE KeyMax(key)
    OBVIOUS
  <2>2. n \notin This
    OBVIOUS
  <2>3. CASE count + 1 <= KeyMax(key)
    <3>1. Next = This \cup {n}
      BY <2>3
    <3> HIDE DEF This, Next
    <3>2. Cardinality(Next) = Cardinality(This) + 1
      BY <1>4, <2>2, <3>1, FS_AddElement
    <3> QED BY <2>1, <2>3, <3>2
  <2>4. CASE ~(count + 1 <= KeyMax(key))
    <3>1. Next = This
      BY <2>4
    <3> HIDE DEF This, Next
    <3> QED BY <2>1, <2>4, <3>1
  <2> QED BY <2>3, <2>4
<1>6. Span \subseteq Next \cup Before
  <2> SUFFICES ASSUME NEW m \in T, time - at[m] < WindowMs PROVE m \in Next \/ m \in Before
    OBVIOUS
  <2>1. at[m] \in Nat
    BY <1>2
  <2>2. CASE at[m] >= start
    BY <2>2
  <2>3. CASE ~(at[m] >= start)
    <3>1. at[m] >= start - WindowMs + 1 /\ at[m] < start
      BY <1>1, <2>1, <2>3
    <3>2. m \in {x \in T : at[x] >= start - WindowMs + 1 /\ at[x] < start}
      BY <3>1
    <3> QED BY <1>3, <3>2
  <2> QED BY <2>2, <2>3
<1>7. Next \subseteq Span
  <2> SUFFICES ASSUME NEW m \in T, at[m] >= start PROVE time - at[m] < WindowMs
    OBVIOUS
  <2>1. at[m] \in Nat
    BY <1>2
  <2> QED BY <1>1, <2>1
<1>8. Cardinality(Before) < KeyMax(key)
  OBVIOUS
<1> HIDE DEF This, Next, Before, Span
<1>9. Cardinality(Span) <= Cardinality(Next) + Cardinality(Before)
  <2> DEFINE Both == Next \cap Before
             Either == Next \cup Before
  <2>1. IsFiniteSet(Both)
    <3>1. Both \subseteq Next
      OBVIOUS
    <3> HIDE DEF Both
    <3> QED BY <1>4, <3>1, FS_Subset
  <2>2. Cardinality(Both) \in Nat
    BY <2>1, FS_CardinalityType
  <2>3. IsFiniteSet(Either) /\ Cardinality(Either) = Cardinality(Next) + Cardinality(Before) - Cardinality(Both)
    BY <1>4, FS_Union
  <2>4. Cardinality(Span) <= Cardinality(Either)
    <3>1. Span \subseteq Either
      BY <1>6
    <3> HIDE DEF Either
    <3> QED BY <2>3, <3>1, FS_Subset
  <2> HIDE DEF Both, Either
  <2> QED BY <1>4, <2>2, <2>3, <2>4
<1>10. Cardinality(Next) <= Cardinality(Span)
  BY <1>4, <1>7, FS_Subset
<1>11. Cardinality(Span) < 2 * KeyMax(key)
  BY <1>4, <1>5, <1>8, <1>9
<1>12. ~(count + 1 <= KeyMax(key)) => Cardinality(Span) >= KeyMax(key)
  BY <1>4, <1>5, <1>10
<1> QED BY <1>3, <1>5, <1>8, <1>11, <1>12 DEF Next, Before, Span

(* A call of no key changes nothing that is counted.                         *)
LEMMA UncountedComes ==
    ASSUME GatewayInv, NEW call \in GatewayCallRecords, gatewayCalls' = Append(gatewayCalls, call),
           call.key = <<>>, call.at = gatewayClock, call.from = "gateway" /\ call.status # UnderWay,
           UNCHANGED <<limits, gatewayClock, restartedAt>>
    PROVE  GatewayInv'
<1> USE DEF GatewayInv
<1>1. GatewayTypes'
  BY CallComes DEF GatewayTypes
<1>2. CallsAreKnown'
  BY CallComes, CallsDomain DEF CallsAreKnown, GatewayTypes
<1>k. \A key \in Keys : key # <<>>
  BY KeysHaveLimits DEF Keys
<1>3. WindowsCount'
  <2> SUFFICES ASSUME NEW key \in Keys
               PROVE  IF Expired(key)' THEN \A time \in {gatewayClock'} : OverAt(key, time)'
                      ELSE \A start \in {limits'[key].resetAt - WindowMs} : \A time \in {gatewayClock'} :
                             \A count \in {limits'[key].count} : OpenSince(key, start, time, count)'
    BY DEF WindowsCount
  <2>1. LetThrough(key)' = LetThrough(key)
    <3>1. call.key # key
      BY <1>k
    <3>2. LetThrough(key)' = LetThrough(key) \cup {n \in {Len(gatewayCalls) + 1} :
                      call.key = key /\ ~(call.status = 429 /\ call.from = "gateway")}
      BY CallComes
    <3> QED BY <3>1, <3>2
  <2>2. \A n \in LetThrough(key) : gatewayCalls'[n].at = gatewayCalls[n].at
    BY CallComes DEF LetThrough
  <2> QED BY <2>1, <2>2, KeysStay
<1>4. LimitIsKept'
  <2> SUFFICES ASSUME NEW n \in DOMAIN gatewayCalls', n > restartedAt, gatewayCalls'[n].key # <<>>
               PROVE  /\ Cardinality(LetThroughBefore(n)') < 2 * MaxOf(n)'
                      /\ Refused(n)' => Cardinality(LetThroughBefore(n)') >= MaxOf(n)'
    BY DEF LimitIsKept
  <2>1. n \in DOMAIN gatewayCalls
    BY CallComes, CallsDomain
  <2> QED BY <2>1, BeforeStays DEF LimitIsKept
<1> QED BY <1>1, <1>2, <1>3, <1>4

(* A counted call: its key's window opens, or goes on.                       *)
LEMMA CountedComes ==
    ASSUME GatewayInv, NEW request \in GatewayRequests, NEW key, key = LimitKey(request), Count(key),
           NEW call \in GatewayCallRecords, gatewayCalls' = Append(gatewayCalls, call),
           call.key = key, call.route = request.route, call.at = gatewayClock,
           call.status = UnderWay => call.from # "gateway",
           (call.status = 429 /\ call.from = "gateway") <=> Exceeds(request),
           UNCHANGED <<gatewayClock, restartedAt>>
    PROVE  GatewayInv'
<1> USE DEF GatewayInv
<1> DEFINE refused == call.status = 429 /\ call.from = "gateway"
<1>k. /\ key \in Keys /\ key # <<>> /\ key[2] = LimitOf[request.route].name
      /\ KeyMax(key) = LimitOf[request.route].max /\ KeyMax(key) \in Nat \ {0}
  BY KeysHaveLimits
<1>w. WindowMs \in Nat \ {0} /\ gatewayClock \in Nat
  BY GatewayAssumption DEF GatewayTypes
<1>b. /\ DOMAIN limits' = DOMAIN limits \cup {key}
      /\ limits'[key] = Bucket(key)
      /\ \A k \in DOMAIN limits \ {key} : limits'[k] = limits[k]
  BY DEF Count
<1>c. ~Expired(key) => /\ key \in DOMAIN limits /\ limits[key].resetAt > gatewayClock
                       /\ limits[key].count \in Nat \ {0} /\ limits[key].resetAt \in Nat
                       /\ limits[key] \in [count : Nat \ {0}, resetAt : Nat]
  BY <1>w DEF Expired, GatewayTypes
<1>d. Bucket(key) \in [count : Nat \ {0}, resetAt : Nat]
  <2>1. CASE Expired(key)
    BY <1>w, <2>1 DEF Bucket
  <2>2. CASE ~Expired(key)
    BY <1>c, <2>2 DEF Bucket
  <2> QED BY <2>1, <2>2
<1>1. GatewayTypes'
  <2>1. \A k \in DOMAIN limits' : limits'[k] \in [count : Nat \ {0}, resetAt : Nat]
    BY <1>b, <1>d DEF GatewayTypes
  <2> QED BY <2>1, CallComes DEF GatewayTypes
<1>2. CallsAreKnown'
  <2>1. ASSUME NEW n \in DOMAIN gatewayCalls'
        PROVE  /\ gatewayCalls'[n].at <= gatewayClock
               /\ gatewayCalls'[n].status = UnderWay => gatewayCalls'[n].from # "gateway"
               /\ gatewayCalls'[n].key # <<>> =>
                     gatewayCalls'[n].key[2] = LimitOf[gatewayCalls'[n].route].name
    <3>1. n \in DOMAIN gatewayCalls \/ n = Len(gatewayCalls) + 1
      BY CallComes, CallsDomain
    <3>2. CASE n \in DOMAIN gatewayCalls
      <4>1. gatewayCalls'[n] = gatewayCalls[n]
        BY <3>2, CallComes
      <4> QED BY <3>2, <4>1 DEF CallsAreKnown
    <3>3. CASE n = Len(gatewayCalls) + 1
      <4>1. gatewayCalls'[n] = call
        BY <3>3, CallComes
      <4> QED BY <1>k, <1>w, <4>1
    <3> QED BY <3>1, <3>2, <3>3
  <2> QED BY <2>1 DEF CallsAreKnown, UnderWay
<1> DEFINE at == [m \in DOMAIN gatewayCalls' |-> gatewayCalls'[m].at]
           S == LetThrough(key)
           T == LetThrough(key)'
           new == Len(gatewayCalls) + 1
<1>a. /\ IsFiniteSet(S) /\ new \notin S /\ S \subseteq DOMAIN gatewayCalls /\ \A m \in S : m <= new
      /\ new \in Nat
  <2>1. S \subseteq DOMAIN gatewayCalls
    BY DEF LetThrough
  <2> HIDE DEF S
  <2>2. new \notin DOMAIN gatewayCalls /\ new \in Nat /\ \A m \in DOMAIN gatewayCalls : m <= new
    BY CallsDomain
  <2>3. IsFiniteSet(S)
    BY <2>1, LetThroughFinite DEF S
  <2> QED BY <2>1, <2>2, <2>3
<1>e. /\ \A m \in DOMAIN gatewayCalls : at[m] = gatewayCalls[m].at /\ gatewayCalls'[m].at = gatewayCalls[m].at
      /\ at[new] = gatewayClock /\ gatewayCalls'[new] = call
      /\ new \in DOMAIN gatewayCalls'
      /\ T = IF refused THEN S ELSE S \cup {new}
  <2>1. /\ gatewayCalls'[new] = call /\ new \in DOMAIN gatewayCalls'
        /\ DOMAIN gatewayCalls \subseteq DOMAIN gatewayCalls'
        /\ \A m \in DOMAIN gatewayCalls : gatewayCalls'[m] = gatewayCalls[m]
        /\ T = S \cup {m \in {new} : call.key = key /\ ~refused}
    BY CallComes, CallsDomain
  <2> HIDE DEF new, S, T, refused
  <2>2. T = IF refused THEN S ELSE S \cup {new}
    BY <2>1
  <2> QED BY <2>1, <2>2
<1>f. \A m \in S : at[m] \in Nat /\ at[m] = gatewayCalls[m].at
  BY <1>a, <1>e, CallsDomain
<1>g. /\ \A from : Since(key, from) = From(S, at, from)
      /\ \A from, to : Between(key, from, to) = Among(S, at, from, to)
  BY <1>f DEF Since, Between, From, Among
<1>t. T \subseteq DOMAIN gatewayCalls' /\ \A m \in T : at[m] = gatewayCalls'[m].at /\ m <= new
  <2>1. T \subseteq DOMAIN gatewayCalls'
    BY DEF LetThrough
  <2>2. \A m \in T : at[m] = gatewayCalls'[m].at
    BY <2>1
  <2>3. \A m \in T : m <= new
    BY <1>a, <1>e
  <2> QED BY <2>1, <2>2, <2>3
<1>h. ASSUME NEW from PROVE Since(key, from)' = From(T, at, from)
  <2>1. Since(key, from)' = {m \in T : gatewayCalls'[m].at >= from}
    BY DEF Since
  <2> HIDE DEF T, at
  <2> QED BY <1>t, <2>1 DEF From
<1>i. ASSUME NEW from, NEW to PROVE Between(key, from, to)' = Among(T, at, from, to)
  <2>1. Between(key, from, to)' = {m \in T : gatewayCalls'[m].at >= from /\ gatewayCalls'[m].at < to}
    BY DEF Between
  <2> HIDE DEF T, at
  <2> QED BY <1>t, <2>1 DEF Among
<1>j. ASSUME NEW n, n = new PROVE LetThroughBefore(n)' = InSpan(T, at, gatewayClock)
  <2>1. LetThroughBefore(n)' = {m \in T : m <= n /\ gatewayClock - gatewayCalls'[m].at < WindowMs}
    BY <1>e, <1>j DEF LetThroughBefore
  <2> HIDE DEF T, new, at
  <2> QED BY <1>t, <1>j, <2>1 DEF InSpan
<1> HIDE DEF at, S, T, new, refused
<1>m. KeyMax(key)' = KeyMax(key) /\ (Expired(key)' <=> limits'[key].resetAt <= gatewayClock) /\ gatewayClock' = gatewayClock
  BY <1>b DEF KeyMax, Expired
<1> DEFINE kept ==
             /\ ~Expired(key)'
             /\ \A start \in {limits'[key].resetAt - WindowMs} : \A time \in {gatewayClock'} :
                    \A count \in {limits'[key].count} : OpenSince(key, start, time, count)'
             /\ Cardinality(InSpan(T, at, gatewayClock)) < 2 * KeyMax(key)
             /\ refused => Cardinality(InSpan(T, at, gatewayClock)) >= KeyMax(key)
<1>5. ASSUME Expired(key) PROVE kept
  <2>1. OverAt(key, gatewayClock)
    BY <1>5, <1>k DEF WindowsCount
  <2>2. \A m \in S : at[m] < gatewayClock
    BY <1>f, <2>1 DEF OverAt, S
  <2>3. Cardinality(From(S, at, gatewayClock - WindowMs + 1)) < KeyMax(key)
    BY <1>g, <2>1 DEF OverAt
  <2>4. T = S \cup {new}
    BY <1>5, <1>e DEF refused, Exceeds
  <2>5. /\ Cardinality(From(T, at, gatewayClock)) = 1
        /\ Cardinality(Among(T, at, gatewayClock - WindowMs + 1, gatewayClock)) < KeyMax(key)
        /\ Cardinality(InSpan(T, at, gatewayClock)) <= KeyMax(key)
    BY <1>k, <1>w, <1>a, <1>e, <1>f, <2>2, <2>3, <2>4, WindowOpens
  <2>6. key \in DOMAIN limits' /\ limits'[key].count = 1 /\ limits'[key].resetAt = gatewayClock + WindowMs
    BY <1>5, <1>b DEF Bucket
  <2>7. ~Expired(key)'
    BY <1>m, <1>w, <2>6, SMTT(20)
  <2>8. OpenSince(key, gatewayClock, gatewayClock, 1)'
    <3>1. \E n \in T : gatewayCalls'[n].at = gatewayClock
      BY <1>e, <2>4
    <3>2. gatewayClock <= gatewayClock /\ 1 <= KeyMax(key)
      BY <1>k, <1>w
    <3> QED BY <1>h, <1>i, <1>m, <2>5, <3>1, <3>2 DEF OpenSince, T
  <2>9. limits'[key].resetAt - WindowMs = gatewayClock
    BY <1>w, <2>6
  <2>10. Cardinality(InSpan(T, at, gatewayClock)) < 2 * KeyMax(key)
    <3>1. IsFiniteSet(InSpan(T, at, gatewayClock))
      <4>1. IsFiniteSet(T)
        BY <1>a, <2>4, FS_AddElement
      <4>2. InSpan(T, at, gatewayClock) \subseteq T
        BY DEF InSpan
      <4> QED BY <4>1, <4>2, FS_Subset
    <3>2. Cardinality(InSpan(T, at, gatewayClock)) \in Nat
      BY <3>1, FS_CardinalityType
    <3> QED BY <1>k, <2>5, <3>2
  <2>11. ~refused
    BY <1>5 DEF refused, Exceeds
  <2> QED BY <1>m, <2>6, <2>7, <2>8, <2>9, <2>10, <2>11
<1>6. ASSUME ~Expired(key) PROVE kept
  <2>0. PICK start, count : start = limits[key].resetAt - WindowMs /\ count = limits[key].count
    OBVIOUS
  <2>1. OpenSince(key, start, gatewayClock, count)
    BY <1>6, <1>k, <2>0 DEF WindowsCount
  <2>2. /\ start \in Int /\ count \in Nat /\ gatewayClock - start < WindowMs /\ start <= gatewayClock
    BY <1>6, <1>c, <1>w, <2>0, <2>1 DEF OpenSince
  <2>3. /\ Cardinality(From(S, at, start)) = IF count <= KeyMax(key) THEN count ELSE KeyMax(key)
        /\ Cardinality(Among(S, at, start - WindowMs + 1, start)) < KeyMax(key)
    <3> QED BY <1>g, <2>1 DEF OpenSince
  <2>4. /\ refused <=> ~(count + 1 <= KeyMax(key))
        /\ T = IF count + 1 <= KeyMax(key) THEN S \cup {new} ELSE S
    <3>1. Exceeds(request) <=> count + 1 > LimitOf[request.route].max
      BY <1>6, <1>c, <2>0 DEF Exceeds, Bucket
    <3>2. Exceeds(request) <=> ~(count + 1 <= KeyMax(key))
      BY <1>k, <2>2, <3>1
    <3> QED BY <1>e, <3>2 DEF refused
  <2>5. /\ Cardinality(From(T, at, start)) = IF count + 1 <= KeyMax(key) THEN count + 1 ELSE KeyMax(key)
        /\ Cardinality(Among(T, at, start - WindowMs + 1, start)) < KeyMax(key)
        /\ Cardinality(InSpan(T, at, gatewayClock)) < 2 * KeyMax(key)
        /\ ~(count + 1 <= KeyMax(key)) => Cardinality(InSpan(T, at, gatewayClock)) >= KeyMax(key)
    <3> QED BY <1>k, <1>w, <1>a, <1>e, <1>f, <2>2, <2>3, <2>4, WindowGoesOn
  <2>6. /\ key \in DOMAIN limits' /\ limits'[key].count = limits[key].count + 1
        /\ limits'[key].resetAt = limits[key].resetAt
    BY <1>6, <1>b, <1>c DEF Bucket
  <2>7. ~Expired(key)'
    BY <1>6, <1>c, <1>m, <1>w, <2>6
  <2>8. OpenSince(key, start, gatewayClock, count + 1)'
    <3>1. \E n \in T : gatewayCalls'[n].at = start
      <4>1. PICK n \in S : gatewayCalls[n].at = start
        <5> QED BY <2>1 DEF OpenSince, S
      <4>2. n \in T
        BY <2>4
      <4> QED BY <1>a, <1>e, <4>1, <4>2
    <3>2. /\ Cardinality(Since(key, start)') = IF count + 1 <= KeyMax(key)' THEN count + 1 ELSE KeyMax(key)'
          /\ Cardinality(Between(key, start - WindowMs + 1, start)') < KeyMax(key)'
      BY <1>h, <1>i, <1>m, <2>5
    <3> QED BY <1>m, <2>2, <3>1, <3>2 DEF OpenSince, T
  <2>9. limits'[key].resetAt - WindowMs = start /\ limits'[key].count = count + 1
    BY <2>0, <2>6
  <2>10. /\ Cardinality(InSpan(T, at, gatewayClock)) < 2 * KeyMax(key)
         /\ refused => Cardinality(InSpan(T, at, gatewayClock)) >= KeyMax(key)
    BY <2>4, <2>5
  <2> QED BY <1>m, <2>7, <2>8, <2>9, <2>10
<1>7. kept
  BY <1>5, <1>6
<1>8. WindowsCount'
  <2> SUFFICES ASSUME NEW k \in Keys
               PROVE  IF Expired(k)' THEN \A time \in {gatewayClock'} : OverAt(k, time)'
                      ELSE \A start \in {limits'[k].resetAt - WindowMs} : \A time \in {gatewayClock'} :
                             \A count \in {limits'[k].count} : OpenSince(k, start, time, count)'
    BY DEF WindowsCount
  <2>1. CASE k = key
    BY <1>7, <2>1
  <2>2. CASE k # key
    <3>1. LetThrough(k)' = LetThrough(k)
      <4>1. LetThrough(k)' = LetThrough(k) \cup {n \in {Len(gatewayCalls) + 1} :
                      call.key = k /\ ~(call.status = 429 /\ call.from = "gateway")}
        BY CallComes
      <4> QED BY <2>2, <4>1
    <3>2. \A n \in LetThrough(k) : gatewayCalls'[n].at = gatewayCalls[n].at
      BY CallComes DEF LetThrough
    <3>3. ((k \in DOMAIN limits)' <=> k \in DOMAIN limits) /\ (k \in DOMAIN limits => limits'[k] = limits[k])
      BY <1>b, <2>2
    <3> QED BY <3>1, <3>2, <3>3, KeysStay
  <2> QED BY <2>1, <2>2
<1>9. LimitIsKept'
  <2> SUFFICES ASSUME NEW n \in DOMAIN gatewayCalls', n > restartedAt', gatewayCalls'[n].key # <<>>
               PROVE  /\ Cardinality(LetThroughBefore(n)') < 2 * MaxOf(n)'
                      /\ Refused(n)' => Cardinality(LetThroughBefore(n)') >= MaxOf(n)'
    BY DEF LimitIsKept
  <2>1. n \in DOMAIN gatewayCalls \/ n = new
    BY CallComes, CallsDomain DEF new
  <2>2. CASE n \in DOMAIN gatewayCalls
    BY <2>2, BeforeStays DEF LimitIsKept
  <2>3. CASE n = new
    <3>1. LetThroughBefore(n)' = InSpan(T, at, gatewayClock)
      BY <1>j, <2>3
    <3>2. MaxOf(n)' = KeyMax(key) /\ (Refused(n)' <=> refused)
      BY <1>e, <1>k, <2>3 DEF MaxOf, Refused, refused
    <3> QED BY <1>7, <3>1, <3>2
  <2> QED BY <2>1, <2>2, <2>3
<1> QED BY <1>1, <1>2, <1>8, <1>9

(* The statuses of the errors that are raised here.                          *)
LEMMA ErrorStatuses ==
    /\ StatusOfError("SyntaxError") = 400 /\ StatusOfError("VALIDATION_ERROR") = 400
    /\ StatusOfError("MISSING_REQUIRED_FIELD") = 400 /\ StatusOfError("UNAUTHORIZED") = 401
    /\ StatusOfError("RATE_LIMIT_EXCEEDED") = 429 /\ StatusOfError("INTERNAL_ERROR") = 500
<1>1. StatusOfError("SyntaxError") = 400 /\ StatusOfError("VALIDATION_ERROR") = 400
      /\ StatusOfError("MISSING_REQUIRED_FIELD") = 400
  BY DEF StatusOfError
<1>2. StatusOfError("UNAUTHORIZED") = 401
  BY DEF StatusOfError
<1>3. StatusOfError("RATE_LIMIT_EXCEEDED") = 429
  BY DEF StatusOfError
<1>4. StatusOfError("INTERNAL_ERROR") = 500
  BY DEF StatusOfError
<1> QED BY <1>1, <1>2, <1>3, <1>4

(* A route never answers for a service, and never 429 by itself.             *)
LEMMA RouteGives ==
    ASSUME NEW request
    PROVE  /\ Route(request).status \in Int /\ Route(request).from \in UpstreamServices \cup {"gateway"}
           /\ Route(request).status = UnderWay => Route(request).from # "gateway"
           /\ Route(request).status # 429
<1> DEFINE Given(answer) == /\ answer.status \in Int /\ answer.from \in UpstreamServices \cup {"gateway"}
                            /\ answer.status = UnderWay => answer.from # "gateway"
                            /\ answer.status # 429
<1>1. /\ Given(Answered(200)) /\ Given(Answered(404)) /\ Given(Answered(400))
  BY DEF Answered, UnderWay
<1>2. \A service \in UpstreamServices : Given(Forwarded(service))
  <2>1. \A service \in UpstreamServices : service # "gateway"
    BY DEF UpstreamServices
  <2> QED BY <2>1 DEF Forwarded, UnderWay
<1>3. StatusOfError("VALIDATION_ERROR") = 400 /\ StatusOfError("MISSING_REQUIRED_FIELD") = 400
  BY ErrorStatuses
<1>4. {"ingestion", "retrieval", "retrieval, unknown path", "connector"} = UpstreamServices
  BY DEF UpstreamServices
<1> HIDE DEF Given
<1>5. Given(DocumentsRoutes(request)) /\ Given(MemoriesRoute(request)) /\ Given(ConnectorsRoute(request))
      /\ Given(UsageRoute(request))
  BY <1>1, <1>2, <1>3, <1>4 DEF DocumentsRoutes, MemoriesRoute, ConnectorsRoute, UsageRoute
<1>6. Given(SearchRoutes(request))
  BY <1>1, <1>2, <1>3, <1>4 DEF SearchRoutes
<1>7. Given(Route(request))
  BY <1>1, <1>5, <1>6 DEF Route
<1> QED BY <1>7 DEF Given

(* What is answered before it is counted has no key.                        *)
LEMMA AnswerUncountedStep ==
    ASSUME GatewayInv, AnswerUncounted
    PROVE  GatewayInv'
<1>0. PICK request \in GatewayRequests :
          \/ Respond(request, <<>>, Answered(StatusOfError("SyntaxError"))) \/ Respond(request, <<>>, Answered(200))
          \/ Respond(request, <<>>, Answered(StatusOfError("UNAUTHORIZED")))
  BY DEF AnswerUncounted
<1>1. PICK status \in {400, 200, 401} : Respond(request, <<>>, Answered(status))
  BY <1>0, ErrorStatuses
<1> DEFINE call == [key |-> <<>>, route |-> request.route, at |-> gatewayClock, status |-> status, from |-> "gateway"]
<1>2. gatewayCalls' = Append(gatewayCalls, call)
  BY <1>1 DEF Respond, Answered
<1>3. gatewayClock \in Nat /\ request.route \in DOMAIN LimitOf
  BY GatewayAssumption DEF GatewayInv, GatewayTypes
<1>4. /\ call \in GatewayCallRecords /\ call.key = <<>> /\ call.at = gatewayClock
      /\ call.from = "gateway" /\ call.status # UnderWay
  BY <1>3 DEF GatewayCallRecords, UnderWay
<1>5. UNCHANGED <<limits, gatewayClock, restartedAt>>
  BY DEF AnswerUncounted
<1> HIDE DEF call
<1> QED BY <1>2, <1>4, <1>5, UncountedComes

(* What exceeds the limit is answered 429 by the gateway.                    *)
LEMMA RefuseExceedingStep ==
    ASSUME GatewayInv, RefuseExceeding
    PROVE  GatewayInv'
<1>1. PICK request \in GatewayRequests :
          /\ Exceeds(request) /\ Count(LimitKey(request))
          /\ Respond(request, LimitKey(request), Answered(StatusOfError("RATE_LIMIT_EXCEEDED")))
  BY DEF RefuseExceeding
<1>0. PICK key : key = LimitKey(request)
  OBVIOUS
<1> DEFINE call == [key |-> key, route |-> request.route, at |-> gatewayClock, status |-> 429, from |-> "gateway"]
<1>2. gatewayCalls' = Append(gatewayCalls, call)
  BY <1>0, <1>1, ErrorStatuses DEF Respond, Answered
<1>3. gatewayClock \in Nat /\ request.route \in DOMAIN LimitOf
  BY GatewayAssumption DEF GatewayInv, GatewayTypes
<1>4. key \in Keys
  BY <1>0, KeysHaveLimits
<1>5. /\ call \in GatewayCallRecords /\ call.key = key /\ call.route = request.route /\ call.at = gatewayClock
      /\ call.from = "gateway" /\ call.status = 429 /\ (call.status = UnderWay => call.from # "gateway")
  BY <1>3, <1>4 DEF GatewayCallRecords, UnderWay
<1>6. UNCHANGED <<gatewayClock, restartedAt>>
  BY DEF RefuseExceeding
<1> HIDE DEF call
<1>7. (call.status = 429 /\ call.from = "gateway") <=> Exceeds(request)
  BY <1>1, <1>5
<1>8. Count(key)
  BY <1>0, <1>1
<1> QED BY <1>0, <1>2, <1>5, <1>6, <1>7, <1>8, CountedComes

(* What does not is answered or forwarded, and never refused.                *)
LEMMA AdmitStep ==
    ASSUME GatewayInv, Admit
    PROVE  GatewayInv'
<1>1. PICK request \in GatewayRequests :
          /\ ~Exceeds(request) /\ Count(LimitKey(request))
          /\ Respond(request, LimitKey(request), Route(request))
  BY DEF Admit
<1>0. PICK key, answer : key = LimitKey(request) /\ answer = Route(request)
  OBVIOUS
<1> DEFINE call == [key |-> key, route |-> request.route, at |-> gatewayClock,
                    status |-> answer.status, from |-> answer.from]
<1>2. gatewayCalls' = Append(gatewayCalls, call)
  BY <1>0, <1>1 DEF Respond
<1>3. gatewayClock \in Nat /\ request.route \in DOMAIN LimitOf
  BY GatewayAssumption DEF GatewayInv, GatewayTypes
<1>4. /\ key \in Keys
      /\ answer.status \in Int /\ answer.from \in UpstreamServices \cup {"gateway"}
      /\ (answer.status = UnderWay => answer.from # "gateway") /\ answer.status # 429
  BY <1>0, KeysHaveLimits, RouteGives
<1>5. /\ call \in GatewayCallRecords /\ call.key = key /\ call.route = request.route /\ call.at = gatewayClock
      /\ (call.status = UnderWay => call.from # "gateway") /\ call.status # 429
  BY <1>3, <1>4 DEF GatewayCallRecords
<1>6. UNCHANGED <<gatewayClock, restartedAt>>
  BY DEF Admit
<1> HIDE DEF call
<1>7. (call.status = 429 /\ call.from = "gateway") <=> Exceeds(request)
  BY <1>1, <1>5
<1>8. Count(key)
  BY <1>0, <1>1
<1> QED BY <1>0, <1>2, <1>5, <1>6, <1>7, <1>8, CountedComes

(* A service's reply is of a call that was let through, and stays so.        *)
LEMMA ServiceRepliesStep ==
    ASSUME GatewayInv, ServiceReplies
    PROVE  GatewayInv'
<1> USE DEF GatewayInv
<1>1. PICK c \in DOMAIN gatewayCalls :
          /\ gatewayCalls[c].status = UnderWay
          /\ \E status \in RepliesOf[gatewayCalls[c].from] \cup {StatusOfError("INTERNAL_ERROR")} :
                 gatewayCalls' = [gatewayCalls EXCEPT ![c].status = status]
  BY DEF ServiceReplies
<1>2. /\ gatewayCalls[c] \in GatewayCallRecords /\ gatewayCalls[c].from # "gateway"
      /\ gatewayCalls[c].from \in UpstreamServices
  BY <1>1, CallsDomain DEF CallsAreKnown, GatewayCallRecords
<1>3. PICK status \in 200..599 : gatewayCalls' = [gatewayCalls EXCEPT ![c].status = status]
  <2>1. RepliesOf[gatewayCalls[c].from] \subseteq 200..599
    BY <1>2, GatewayAssumption
  <2>2. StatusOfError("INTERNAL_ERROR") \in 200..599
    BY ErrorStatuses
  <2> QED BY <1>1, <2>1, <2>2
<1>4. [gatewayCalls[c] EXCEPT !.status = status] \in GatewayCallRecords
  <2>1. status \in Int
    BY <1>3
  <2> QED BY <1>2, <2>1 DEF GatewayCallRecords
<1>5. /\ gatewayCalls' \in Seq(GatewayCallRecords) /\ Len(gatewayCalls') = Len(gatewayCalls)
      /\ DOMAIN gatewayCalls' = DOMAIN gatewayCalls
  BY <1>3, <1>4, CallsDomain, ExceptSeq DEF GatewayTypes
<1>6. \A n \in DOMAIN gatewayCalls :
          /\ gatewayCalls'[n].key = gatewayCalls[n].key /\ gatewayCalls'[n].route = gatewayCalls[n].route
          /\ gatewayCalls'[n].at = gatewayCalls[n].at /\ gatewayCalls'[n].from = gatewayCalls[n].from
          /\ (n # c => gatewayCalls'[n] = gatewayCalls[n])
          /\ (n = c => gatewayCalls'[n].status = status)
  BY <1>2, <1>3 DEF GatewayCallRecords
<1>7. UNCHANGED <<limits, gatewayClock, restartedAt>>
  BY DEF ServiceReplies
<1>8. \A n \in DOMAIN gatewayCalls : Refused(n)' <=> Refused(n)
  BY <1>2, <1>6 DEF Refused
<1>9. \A key : LetThrough(key)' = LetThrough(key)
  BY <1>5, <1>6, <1>7, <1>8 DEF LetThrough
<1>10. GatewayTypes'
  BY <1>5, <1>7 DEF GatewayTypes
<1>11. CallsAreKnown'
  BY <1>2, <1>5, <1>6, <1>7 DEF CallsAreKnown
<1>12. \A key : \A n \in LetThrough(key) : gatewayCalls'[n].at = gatewayCalls[n].at
  BY <1>6 DEF LetThrough
<1>13. WindowsCount'
  BY <1>7, <1>9, <1>12, KeysStay DEF WindowsCount
<1>14. LimitIsKept'
  <2>1. \A n \in DOMAIN gatewayCalls : LetThroughBefore(n)' = LetThroughBefore(n) /\ MaxOf(n)' = MaxOf(n)
    BY <1>6, <1>9, <1>12 DEF LetThroughBefore, MaxOf
  <2> QED BY <1>5, <1>6, <1>7, <1>8, <2>1 DEF LimitIsKept
<1> QED BY <1>10, <1>11, <1>13, <1>14

(* Only windows that are over are dropped.                                   *)
LEMMA CleanUpStep ==
    ASSUME GatewayInv, CleanUpLimits
    PROVE  GatewayInv'
<1> USE DEF GatewayInv
<1>1. UNCHANGED <<gatewayCalls, gatewayClock, restartedAt>>
  BY DEF CleanUpLimits
<1>2. /\ DOMAIN limits' = {k \in DOMAIN limits : ~Expired(k)}
      /\ \A k \in DOMAIN limits' : limits'[k] = limits[k]
  BY DEF CleanUpLimits
<1>3. \A key : (Expired(key)' <=> Expired(key)) /\ (~Expired(key) => limits'[key] = limits[key])
  BY <1>1, <1>2 DEF Expired
<1>4. \A key : LetThrough(key)' = LetThrough(key)
  BY <1>1 DEF LetThrough, Refused
<1>5. GatewayTypes'
  BY <1>1, <1>2 DEF GatewayTypes
<1>6. CallsAreKnown'
  BY <1>1 DEF CallsAreKnown
<1>7. WindowsCount'
  BY <1>1, <1>3, <1>4, WindowStays DEF WindowsCount
<1>8. LimitIsKept'
  BY <1>1, <1>4 DEF LimitIsKept, LetThroughBefore, MaxOf, Refused
<1> QED BY <1>5, <1>6, <1>7, <1>8

(* Nothing was let through since the process started.                       *)
LEMMA RestartStep ==
    ASSUME GatewayInv, RestartGateway
    PROVE  GatewayInv'
<1> USE DEF GatewayInv
<1>1. /\ limits' = <<>> /\ restartedAt' = Len(gatewayCalls) /\ gatewayClock' = gatewayClock
      /\ gatewayCalls' = [n \in DOMAIN gatewayCalls |->
             [gatewayCalls[n] EXCEPT !.status = IF @ = UnderWay THEN Lost ELSE @]]
  BY DEF RestartGateway
<1>2. DOMAIN gatewayCalls = 1..Len(gatewayCalls) /\ Len(gatewayCalls) \in Nat
      /\ \A n \in DOMAIN gatewayCalls : gatewayCalls[n] \in GatewayCallRecords
  BY CallsDomain
<1>3. DOMAIN gatewayCalls' = 1..Len(gatewayCalls)
  BY <1>1, <1>2
<1>4. ASSUME NEW n \in DOMAIN gatewayCalls
      PROVE  /\ gatewayCalls'[n] \in GatewayCallRecords
             /\ gatewayCalls'[n].key = gatewayCalls[n].key /\ gatewayCalls'[n].route = gatewayCalls[n].route
             /\ gatewayCalls'[n].at = gatewayCalls[n].at
             /\ gatewayCalls'[n].status # UnderWay
  <2>1. gatewayCalls'[n] = [gatewayCalls[n] EXCEPT !.status = IF gatewayCalls[n].status = UnderWay THEN Lost
                                                                  ELSE gatewayCalls[n].status]
    BY <1>1
  <2>2. gatewayCalls[n] \in GatewayCallRecords
    BY <1>2
  <2> QED BY <2>1, <2>2 DEF GatewayCallRecords, UnderWay, Lost
<1>5. gatewayCalls' \in Seq(GatewayCallRecords) /\ Len(gatewayCalls') = Len(gatewayCalls)
  BY <1>1, <1>2, <1>3, <1>4, IsASeq, LenProperties
<1>6. \A key : LetThrough(key)' = {}
  BY <1>1, <1>2, <1>3 DEF LetThrough
<1>7. GatewayTypes'
  BY <1>1, <1>2, <1>5 DEF GatewayTypes
<1>8. CallsAreKnown'
  BY <1>1, <1>2, <1>3, <1>4 DEF CallsAreKnown
<1>9. WindowsCount'
  <2>1. \A key : Expired(key)'
    BY <1>1 DEF Expired
  <2>2. \A key, from : Since(key, from)' = {}
    BY <1>6 DEF Since
  <2>3. \A key \in Keys : \A time : OverAt(key, time)'
    <3>1. \A key \in Keys : KeyMax(key)' \in Nat \ {0}
      BY KeysHaveLimits DEF Keys, KeyMax
    <3> QED BY <1>6, <2>2, <3>1, FS_EmptySet DEF OverAt
  <2> QED BY <2>1, <2>3 DEF WindowsCount
<1>10. LimitIsKept'
  BY <1>1, <1>2, <1>3 DEF LimitIsKept
<1> QED BY <1>7, <1>8, <1>9, <1>10

(* Time passes: a window that is over stays over, one that is not goes on,   *)
(* and when it ends the request it started with is out of the span.         *)
LEMMA TimePassesOver ==
    ASSUME GatewayTypes, NEW key \in Keys, NEW time \in Nat, NEW later, later = time + 1, OverAt(key, time)
    PROVE  OverAt(key, later)
<1> DEFINE old == Since(key, time - WindowMs + 1)
           next == Since(key, later - WindowMs + 1)
<1>1. \A n \in LetThrough(key) : gatewayCalls[n].at \in Nat /\ gatewayCalls[n].at < time
  BY CallsDomain DEF OverAt, LetThrough
<1>2. next \subseteq old /\ old \subseteq LetThrough(key)
  BY <1>1, GatewayAssumption DEF Since
<1>3. Cardinality(old) < KeyMax(key) /\ KeyMax(key) \in Nat
  BY KeysHaveLimits DEF OverAt, Keys
<1>4. Cardinality(next) < KeyMax(key)
  <2> HIDE DEF old, next
  <2>1. IsFiniteSet(old) /\ Cardinality(old) \in Nat /\ Cardinality(next) \in Nat
    BY <1>2, LetThroughFinite
  <2>2. Cardinality(next) <= Cardinality(old)
    BY <1>2, <2>1, FS_Subset
  <2> QED BY <1>3, <2>1, <2>2
<1>5. \A n \in LetThrough(key) : gatewayCalls[n].at < later
  BY <1>1
<1> QED BY <1>4, <1>5 DEF OverAt

(* A window that ends leaves out the request it started with.               *)
LEMMA WindowEnds ==
    ASSUME GatewayTypes, CallsAreKnown, NEW key \in Keys, NEW time, time = gatewayClock, NEW later, later = time + 1,
           NEW start \in Int, NEW count \in Nat, OpenSince(key, start, time, count), start + WindowMs = later
    PROVE  OverAt(key, later)
<1> DEFINE old == Since(key, start)
           next == Since(key, later - WindowMs + 1)
<1>1. /\ WindowMs \in Nat \ {0} /\ time \in Nat
      /\ \A n \in LetThrough(key) : gatewayCalls[n].at \in Nat /\ gatewayCalls[n].at <= time
  BY GatewayAssumption, CallsDomain DEF GatewayTypes, CallsAreKnown, LetThrough
<1>2. next \subseteq old /\ old \subseteq LetThrough(key)
  BY <1>1 DEF Since
<1>3. \E n \in old : n \notin next
  <2>1. PICK n \in LetThrough(key) : gatewayCalls[n].at = start
    BY DEF OpenSince
  <2> QED BY <1>1, <2>1 DEF Since
<1>4. Cardinality(old) = (IF count <= KeyMax(key) THEN count ELSE KeyMax(key)) /\ KeyMax(key) \in Nat
  BY KeysHaveLimits DEF OpenSince, Keys
<1>5. Cardinality(next) < KeyMax(key)
  <2> HIDE DEF old, next
  <2>1. IsFiniteSet(old) /\ Cardinality(old) \in Nat /\ Cardinality(next) \in Nat
    BY <1>2, LetThroughFinite
  <2>2. next # old
    BY <1>3
  <2>3. Cardinality(next) < Cardinality(old)
    BY <1>2, <2>1, <2>2, FS_Subset
  <2> QED BY <1>4, <2>1, <2>3
<1>6. \A n \in LetThrough(key) : gatewayCalls[n].at < later
  BY <1>1
<1> QED BY <1>5, <1>6 DEF OverAt

(* Every millisecond.                                                       *)
LEMMA TickStep ==
    ASSUME GatewayInv, GatewayTick
    PROVE  GatewayInv'
<1> USE DEF GatewayInv
<1>1. /\ UNCHANGED <<limits, gatewayCalls, restartedAt>> /\ gatewayClock' = gatewayClock + 1
      /\ gatewayClock \in Nat /\ WindowMs \in Nat \ {0}
  BY GatewayAssumption DEF GatewayTick, GatewayTypes
<1>2. GatewayTypes'
  BY <1>1 DEF GatewayTypes
<1>3. CallsAreKnown'
  <2>1. \A n \in DOMAIN gatewayCalls : gatewayCalls[n].at \in Nat /\ gatewayCalls[n].at <= gatewayClock
    BY CallsDomain DEF CallsAreKnown
  <2>2. \A n \in DOMAIN gatewayCalls : gatewayCalls[n].at <= gatewayClock + 1
    BY <1>1, <2>1
  <2> QED BY <1>1, <2>2 DEF CallsAreKnown
<1>4. \A key : LetThrough(key)' = LetThrough(key)
  BY <1>1 DEF LetThrough, Refused
<1>5. LimitIsKept'
  BY <1>1, <1>4 DEF LimitIsKept, LetThroughBefore, MaxOf, Refused
<1>6. WindowsCount'
  <2> SUFFICES ASSUME NEW key \in Keys
               PROVE  IF Expired(key)' THEN \A time \in {gatewayClock'} : OverAt(key, time)'
                      ELSE \A start \in {limits'[key].resetAt - WindowMs} : \A time \in {gatewayClock'} :
                             \A count \in {limits'[key].count} : OpenSince(key, start, time, count)'
    BY DEF WindowsCount
  <2>0. PICK time, later : time = gatewayClock /\ later = time + 1
    OBVIOUS
  <2>1. /\ \A n : OverAt(key, n)' <=> OverAt(key, n)
        /\ \A start, n, count : OpenSince(key, start, n, count)' <=> OpenSince(key, start, n, count)
    BY <1>1, <1>4, WindowStays
  <2>2. CASE Expired(key)
    <3>1. Expired(key)'
      BY <1>1, <2>2 DEF Expired, GatewayTypes
    <3>2. OverAt(key, time)
      BY <2>0, <2>2 DEF WindowsCount
    <3>3. OverAt(key, later)
      BY <1>1, <2>0, <3>2, TimePassesOver
    <3> QED BY <1>1, <2>0, <2>1, <3>1, <3>3
  <2>3. CASE ~Expired(key)
    <3>0. PICK start, count : start = limits[key].resetAt - WindowMs /\ count = limits[key].count
      OBVIOUS
    <3>1. /\ OpenSince(key, start, time, count) /\ key \in DOMAIN limits
          /\ limits[key].resetAt > gatewayClock
          /\ limits[key].resetAt \in Nat /\ start \in Int /\ count \in Nat
      <4>1. key \in DOMAIN limits /\ limits[key] \in [count : Nat \ {0}, resetAt : Nat]
            /\ ~(limits[key].resetAt <= gatewayClock)
        BY <2>3 DEF Expired, GatewayTypes
      <4>2. OpenSince(key, start, time, count)
        BY <2>0, <2>3, <3>0 DEF WindowsCount
      <4> QED BY <1>1, <3>0, <4>1, <4>2
    <3>2. Expired(key)' <=> limits[key].resetAt <= later
      BY <1>1, <2>0, <3>1 DEF Expired
    <3>3. CASE limits[key].resetAt <= later
      <4>1. start + WindowMs = later
        BY <1>1, <2>0, <3>0, <3>1, <3>3
      <4>2. OverAt(key, later)
        BY <2>0, <3>1, <4>1, WindowEnds
      <4> QED BY <1>1, <2>0, <2>1, <3>2, <3>3, <4>2
    <3>4. CASE ~(limits[key].resetAt <= later)
      <4>1. start <= later
        BY <1>1, <2>0, <3>1 DEF OpenSince
      <4>2. OpenSince(key, start, later, count)
        BY <3>1, <4>1 DEF OpenSince
      <4> QED BY <1>1, <2>0, <2>1, <3>0, <3>2, <3>4, <4>2
    <3> QED BY <3>3, <3>4
  <2> QED BY <2>2, <2>3
<1> QED BY <1>2, <1>3, <1>5, <1>6

(* Nothing has come yet.                                                    *)
LEMMA GatewayStart == GatewayInit => GatewayInv
<1> SUFFICES ASSUME GatewayInit PROVE GatewayInv
  OBVIOUS
<1>1. limits = <<>> /\ gatewayCalls = <<>> /\ gatewayClock = 0 /\ restartedAt = 0
  BY DEF GatewayInit
<1>2. GatewayTypes
  <2>1. <<>> \in Seq(GatewayCallRecords) /\ Len(<<>>) = 0
    OBVIOUS
  <2> QED BY <1>1, <2>1 DEF GatewayTypes
<1>3. CallsAreKnown /\ LimitIsKept
  BY <1>1 DEF CallsAreKnown, LimitIsKept
<1>4. WindowsCount
  <2>1. \A key : Expired(key)
    BY <1>1 DEF Expired
  <2>2. \A key : LetThrough(key) = {}
    BY <1>1 DEF LetThrough
  <2>3. \A key, from : Since(key, from) = {}
    BY <2>2 DEF Since
  <2>4. \A key \in Keys : KeyMax(key) \in Nat \ {0}
    BY KeysHaveLimits DEF Keys
  <2> QED BY <2>1, <2>2, <2>3, <2>4, FS_EmptySet DEF WindowsCount, OverAt
<1> QED BY <1>2, <1>3, <1>4 DEF GatewayInv

(* Steps of the gateway keep what its windows count.                         *)
LEMMA GatewayStep == GatewayInv /\ [GatewayNext]_gatewayVars => GatewayInv'
<1> SUFFICES ASSUME GatewayInv, [GatewayNext]_gatewayVars PROVE GatewayInv'
  OBVIOUS
<1>1. CASE UNCHANGED gatewayVars
  <2>1. UNCHANGED <<limits, gatewayCalls, gatewayClock, restartedAt>>
    BY <1>1 DEF gatewayVars
  <2>2. GatewayTypes' /\ CallsAreKnown'
    BY <2>1 DEF GatewayInv, GatewayTypes, CallsAreKnown
  <2>3. \A key : LetThrough(key)' = LetThrough(key)
    BY <2>1 DEF LetThrough, Refused
  <2>4. LimitIsKept'
    BY <2>1, <2>3 DEF GatewayInv, LimitIsKept, LetThroughBefore, MaxOf, Refused
  <2>5. \A key : Expired(key)' <=> Expired(key)
    BY <2>1 DEF Expired
  <2>6. WindowsCount'
    BY <2>1, <2>3, <2>5, WindowStays DEF GatewayInv, WindowsCount
  <2> QED BY <2>2, <2>4, <2>6 DEF GatewayInv
<1> QED BY <1>1, AnswerUncountedStep, RefuseExceedingStep, AdmitStep, ServiceRepliesStep, CleanUpStep,
           RestartStep, TickStep DEF GatewayNext

(* Gateway.  Of one key, less than twice the limit is let through in any     *)
(* window-long span, and a request is refused only where the limit was let   *)
(* through in the window before it.                                         *)
THEOREM GatewayKeepsLimits == GatewaySpec => []LimitIsKept
<1>1. GatewayInv => LimitIsKept
  BY DEF GatewayInv
<1> QED BY <1>1, GatewayStart, GatewayStep, PTL DEF GatewaySpec

-----------------------------------------------------------------------------
(* A window counts no more requests than came, and ends a window from now at *)
(* the latest; what is answered has a status of HTTP.                        *)
IsStatus(status) == status \in {UnderWay, Lost} \cup 200..599
GatewayBounds ==
    /\ Len(gatewayCalls) <= MaxGatewayCalls
    /\ gatewayClock \in 0..MaxGatewayClock /\ gatewayRestarts \in 0..MaxGatewayRestarts
    /\ \A n \in DOMAIN gatewayCalls : IsStatus(gatewayCalls[n].status)
    /\ \A key \in DOMAIN limits :
          /\ limits[key].count <= Len(gatewayCalls)
          /\ limits[key].resetAt <= gatewayClock + WindowMs

(* Every answer has a status of HTTP, or is of a service.                    *)
LEMMA RoutesAnswer == ASSUME NEW request PROVE IsStatus(Route(request).status)
<1> DEFINE Given(answer) == IsStatus(answer.status)
<1>1. /\ Given(Answered(200)) /\ Given(Answered(404)) /\ Given(Answered(400))
  BY DEF Answered, IsStatus
<1>2. \A service \in UpstreamServices : Given(Forwarded(service))
  BY DEF Forwarded, IsStatus
<1>3. StatusOfError("VALIDATION_ERROR") = 400 /\ StatusOfError("MISSING_REQUIRED_FIELD") = 400
  BY ErrorStatuses
<1>0. {"ingestion", "retrieval", "retrieval, unknown path", "connector"} = UpstreamServices
  BY DEF UpstreamServices
<1> HIDE DEF Given
<1>4. Given(DocumentsRoutes(request)) /\ Given(MemoriesRoute(request)) /\ Given(ConnectorsRoute(request))
      /\ Given(UsageRoute(request))
  BY <1>0, <1>1, <1>2, <1>3 DEF DocumentsRoutes, MemoriesRoute, ConnectorsRoute, UsageRoute
<1>5. Given(SearchRoutes(request))
  BY <1>0, <1>1, <1>2, <1>3 DEF SearchRoutes
<1>6. Given(Route(request))
  BY <1>1, <1>4, <1>5 DEF Route
<1> QED BY <1>6 DEF Given

(* One more call, with a status.                                             *)
LEMMA CallHasStatus ==
    ASSUME GatewayInv, GatewayBounds, CanReceive, NEW request, NEW key, NEW answer,
           Respond(request, key, answer), IsStatus(answer.status)
    PROVE  /\ Len(gatewayCalls') = Len(gatewayCalls) + 1 /\ Len(gatewayCalls') <= MaxGatewayCalls
           /\ \A n \in DOMAIN gatewayCalls' : IsStatus(gatewayCalls'[n].status)
<1>1. PICK call : /\ gatewayCalls' = Append(gatewayCalls, call) /\ call.status = answer.status
  BY DEF Respond
<1>2. gatewayCalls \in Seq(GatewayCallRecords) /\ MaxGatewayCalls \in Nat
  BY GatewayAssumption DEF GatewayInv, GatewayTypes
<1>3. /\ Len(gatewayCalls) \in Nat /\ Len(gatewayCalls') = Len(gatewayCalls) + 1
      /\ DOMAIN gatewayCalls = 1..Len(gatewayCalls) /\ DOMAIN gatewayCalls' = 1..(Len(gatewayCalls) + 1)
      /\ gatewayCalls'[Len(gatewayCalls) + 1] = call
      /\ \A n \in DOMAIN gatewayCalls : gatewayCalls'[n] = gatewayCalls[n]
  BY <1>1, <1>2, AppendProperties, LenProperties
<1>4. Len(gatewayCalls') <= MaxGatewayCalls
  BY <1>2, <1>3 DEF CanReceive
<1>5. \A n \in 1..(Len(gatewayCalls) + 1) : n \in 1..Len(gatewayCalls) \/ n = Len(gatewayCalls) + 1
  BY <1>3
<1> QED BY <1>1, <1>3, <1>4, <1>5 DEF GatewayBounds

(* The window of the key has counted one request more, or starts.            *)
LEMMA CountIsBounded ==
    ASSUME GatewayInv, GatewayBounds, NEW key, Count(key), UNCHANGED gatewayClock,
           Len(gatewayCalls') = Len(gatewayCalls) + 1
    PROVE  \A k \in DOMAIN limits' : /\ limits'[k].count <= Len(gatewayCalls')
                                     /\ limits'[k].resetAt <= gatewayClock' + WindowMs
<1>1. Len(gatewayCalls) \in Nat /\ gatewayClock \in Nat /\ WindowMs \in Nat
  BY GatewayAssumption, CallsDomain DEF GatewayInv, GatewayTypes
<1>2. \A k \in DOMAIN limits : limits[k] \in [count : Nat \ {0}, resetAt : Nat]
  BY DEF GatewayInv, GatewayTypes
<1>3. PICK counted : counted = Bucket(key)
  OBVIOUS
<1>4. counted.count <= Len(gatewayCalls) + 1 /\ counted.resetAt <= gatewayClock + WindowMs
  <2>1. CASE Expired(key)
    BY <1>1, <1>3, <2>1 DEF Bucket
  <2>2. CASE ~Expired(key)
    <3>1. key \in DOMAIN limits
      BY <2>2 DEF Expired
    <3>2. counted = [limits[key] EXCEPT !.count = limits[key].count + 1]
      BY <1>3, <2>2 DEF Bucket
    <3>3. counted.count = limits[key].count + 1 /\ counted.resetAt = limits[key].resetAt
      BY <1>2, <3>1, <3>2
    <3>4. limits[key].count \in Nat /\ limits[key].count <= Len(gatewayCalls)
      BY <1>2, <3>1 DEF GatewayBounds
    <3> QED BY <1>1, <3>1, <3>3, <3>4 DEF GatewayBounds
  <2> QED BY <2>1, <2>2
<1>5. /\ DOMAIN limits' = DOMAIN limits \cup {key}
      /\ \A k \in DOMAIN limits' : limits'[k] = IF k = key THEN counted ELSE limits[k]
  BY <1>3 DEF Count
<1>6. ASSUME NEW k \in DOMAIN limits', k # key
      PROVE  limits'[k].count <= Len(gatewayCalls) + 1 /\ limits'[k].resetAt <= gatewayClock + WindowMs
  <2>1. k \in DOMAIN limits /\ limits'[k] = limits[k]
    BY <1>5, <1>6
  <2>2. limits[k].count \in Nat /\ limits[k].count <= Len(gatewayCalls)
    BY <1>2, <2>1 DEF GatewayBounds
  <2> QED BY <1>1, <2>1, <2>2 DEF GatewayBounds
<1>7. limits'[key] = counted
  BY <1>5
<1> QED BY <1>4, <1>6, <1>7

LEMMA GatewayBoundsStep ==
    ASSUME GatewayInv, GatewayBounds, [GatewayNext]_gatewayVars
    PROVE  GatewayBounds'
<1>0. /\ MaxGatewayCalls \in Nat /\ MaxGatewayClock \in Nat /\ MaxGatewayRestarts \in Nat /\ WindowMs \in Nat
      /\ gatewayClock \in Nat
  BY GatewayAssumption DEF GatewayInv, GatewayTypes
<1>1. CASE UNCHANGED gatewayVars
  BY <1>1 DEF gatewayVars, GatewayBounds
<1>2. CASE AnswerUncounted
  <2>1. PICK request \in GatewayRequests :
            \/ Respond(request, <<>>, Answered(StatusOfError("SyntaxError"))) \/ Respond(request, <<>>, Answered(200))
            \/ Respond(request, <<>>, Answered(StatusOfError("UNAUTHORIZED")))
    BY <1>2 DEF AnswerUncounted
  <2>2. PICK status \in {400, 200, 401} : Respond(request, <<>>, Answered(status))
    BY <2>1, ErrorStatuses
  <2>3. PICK answer : answer = Answered(status) /\ IsStatus(answer.status)
    <3>1. IsStatus(Answered(status).status)
      BY DEF Answered, IsStatus
    <3> QED BY <3>1
  <2>4. CanReceive /\ UNCHANGED <<limits, gatewayClock, gatewayRestarts>>
    BY <1>2 DEF AnswerUncounted
  <2>5. /\ Len(gatewayCalls') = Len(gatewayCalls) + 1 /\ Len(gatewayCalls') <= MaxGatewayCalls
        /\ \A n \in DOMAIN gatewayCalls' : IsStatus(gatewayCalls'[n].status)
    BY <2>2, <2>3, <2>4, CallHasStatus
  <2>6. \A k \in DOMAIN limits : limits[k].count \in Nat /\ Len(gatewayCalls) \in Nat
    BY CallsDomain DEF GatewayInv, GatewayTypes
  <2>7. \A k \in DOMAIN limits' : limits'[k].count <= Len(gatewayCalls')
    BY <2>4, <2>5, <2>6 DEF GatewayBounds
  <2> QED BY <2>4, <2>5, <2>7 DEF GatewayBounds
<1>3. CASE RefuseExceeding
  <2>1. PICK request \in GatewayRequests :
            /\ Count(LimitKey(request))
            /\ Respond(request, LimitKey(request), Answered(StatusOfError("RATE_LIMIT_EXCEEDED")))
    BY <1>3 DEF RefuseExceeding
  <2>2. PICK key, answer : key = LimitKey(request) /\ answer = Answered(429) /\ IsStatus(answer.status)
    <3>1. IsStatus(Answered(429).status)
      BY DEF Answered, IsStatus
    <3> QED BY <3>1
  <2>3. CanReceive /\ UNCHANGED <<gatewayClock, gatewayRestarts>> /\ Count(key) /\ Respond(request, key, answer)
    BY <1>3, <2>1, <2>2, ErrorStatuses DEF RefuseExceeding
  <2> QED BY <2>2, <2>3, CallHasStatus, CountIsBounded DEF GatewayBounds
<1>4. CASE Admit
  <2>1. PICK request \in GatewayRequests :
            Count(LimitKey(request)) /\ Respond(request, LimitKey(request), Route(request))
    BY <1>4 DEF Admit
  <2>2. PICK key, answer : key = LimitKey(request) /\ answer = Route(request) /\ IsStatus(answer.status)
    BY RoutesAnswer
  <2>3. CanReceive /\ UNCHANGED <<gatewayClock, gatewayRestarts>> /\ Count(key) /\ Respond(request, key, answer)
    BY <1>4, <2>1, <2>2 DEF Admit
  <2> QED BY <2>2, <2>3, CallHasStatus, CountIsBounded DEF GatewayBounds
<1>5. CASE ServiceReplies
  <2>1. PICK c \in DOMAIN gatewayCalls :
            /\ gatewayCalls[c].status = UnderWay
            /\ \E status \in RepliesOf[gatewayCalls[c].from] \cup {StatusOfError("INTERNAL_ERROR")} :
                   gatewayCalls' = [gatewayCalls EXCEPT ![c].status = status]
    BY <1>5 DEF ServiceReplies
  <2>2. gatewayCalls[c] \in GatewayCallRecords /\ gatewayCalls[c].from \in UpstreamServices
    BY <2>1, CallsDomain DEF GatewayInv, CallsAreKnown, GatewayCallRecords
  <2>3. PICK status \in 200..599 : gatewayCalls' = [gatewayCalls EXCEPT ![c].status = status]
    <3>1. RepliesOf[gatewayCalls[c].from] \subseteq 200..599
      BY <2>2, GatewayAssumption
    <3>2. StatusOfError("INTERNAL_ERROR") \in 200..599
      BY ErrorStatuses
    <3> QED BY <2>1, <3>1, <3>2
  <2>4. /\ DOMAIN gatewayCalls' = DOMAIN gatewayCalls
        /\ \A n \in DOMAIN gatewayCalls : n # c => gatewayCalls'[n] = gatewayCalls[n]
        /\ gatewayCalls'[c].status = status
    BY <2>2, <2>3 DEF GatewayCallRecords
  <2>5. Len(gatewayCalls') = Len(gatewayCalls)
    <3>0. status \in Int
      BY <2>3
    <3>1. [gatewayCalls[c] EXCEPT !.status = status] \in GatewayCallRecords
      BY <2>2, <3>0 DEF GatewayCallRecords
    <3> QED BY <2>3, <3>1, ExceptSeq DEF GatewayInv, GatewayTypes
  <2>6. IsStatus(status)
    BY DEF IsStatus
  <2>7. UNCHANGED <<limits, gatewayClock, gatewayRestarts>>
    BY <1>5 DEF ServiceReplies
  <2> QED BY <2>4, <2>5, <2>6, <2>7 DEF GatewayBounds
<1>6. CASE CleanUpLimits
  <2>1. /\ DOMAIN limits' \subseteq DOMAIN limits /\ \A k \in DOMAIN limits' : limits'[k] = limits[k]
        /\ UNCHANGED <<gatewayCalls, gatewayClock, gatewayRestarts>>
    BY <1>6 DEF CleanUpLimits
  <2> QED BY <2>1 DEF GatewayBounds
<1>7. CASE RestartGateway
  <2>1. /\ DOMAIN gatewayCalls' = DOMAIN gatewayCalls /\ limits' = <<>> /\ gatewayClock' = gatewayClock
        /\ gatewayRestarts' = gatewayRestarts + 1 /\ gatewayRestarts < MaxGatewayRestarts
        /\ gatewayCalls' = [n \in DOMAIN gatewayCalls |->
               [gatewayCalls[n] EXCEPT !.status = IF @ = UnderWay THEN Lost ELSE @]]
    BY <1>7 DEF RestartGateway
  <2>2. ASSUME NEW n \in DOMAIN gatewayCalls PROVE IsStatus(gatewayCalls'[n].status)
    <3>1. gatewayCalls'[n] = [gatewayCalls[n] EXCEPT !.status = IF gatewayCalls[n].status = UnderWay THEN Lost
                                                                    ELSE gatewayCalls[n].status]
      BY <2>1
    <3>2. gatewayCalls[n] \in GatewayCallRecords
      BY CallsDomain DEF GatewayInv
    <3>3. gatewayCalls'[n].status \in {Lost, gatewayCalls[n].status}
      BY <3>1, <3>2 DEF GatewayCallRecords
    <3> QED BY <3>3 DEF IsStatus, GatewayBounds
  <2>3. Len(gatewayCalls') = Len(gatewayCalls)
    <3>1. RestartGateway => restartedAt' = Len(gatewayCalls)
      BY DEF RestartGateway
    <3>2. DOMAIN gatewayCalls = 1..Len(gatewayCalls) /\ Len(gatewayCalls) \in Nat
      BY CallsDomain DEF GatewayInv
    <3> QED BY <2>1, <3>2, IsASeq, LenProperties
  <2>4. DOMAIN limits' = {} /\ gatewayRestarts' \in 0..MaxGatewayRestarts
    BY <1>0, <2>1 DEF GatewayBounds
  <2> QED BY <2>1, <2>2, <2>3, <2>4 DEF GatewayBounds
<1>8. CASE GatewayTick
  <2>1. /\ gatewayClock' = gatewayClock + 1 /\ gatewayClock < MaxGatewayClock
        /\ UNCHANGED <<limits, gatewayCalls, gatewayRestarts>>
    BY <1>8 DEF GatewayTick
  <2>2. \A k \in DOMAIN limits : limits[k].resetAt \in Nat
    BY DEF GatewayInv, GatewayTypes
  <2>3. \A k \in DOMAIN limits' : limits'[k].resetAt <= gatewayClock' + WindowMs
    BY <1>0, <2>1, <2>2 DEF GatewayBounds
  <2> QED BY <1>0, <2>1, <2>3 DEF GatewayBounds
<1> QED BY <1>1, <1>2, <1>3, <1>4, <1>5, <1>6, <1>7, <1>8 DEF GatewayNext

(* Gateway: its counts, its times and its statuses stay within their ranges. *)
THEOREM GatewayTypeCorrect == GatewaySpec => []GatewayTypeOK
<1>1. GatewayInit => GatewayBounds
  BY GatewayAssumption DEF GatewayInit, GatewayBounds
<1>2. GatewayInv /\ GatewayBounds => GatewayTypeOK
  <2> SUFFICES ASSUME GatewayInv, GatewayBounds PROVE GatewayTypeOK
    OBVIOUS
  <2>1. /\ Len(gatewayCalls) \in Nat /\ MaxGatewayCalls \in Nat /\ WindowMs \in Nat
        /\ gatewayClock \in 0..MaxGatewayClock /\ MaxGatewayClock \in Nat
        /\ Len(gatewayCalls) <= MaxGatewayCalls
    BY CallsDomain, GatewayAssumption DEF GatewayInv, GatewayBounds
  <2>2. ASSUME NEW key \in DOMAIN limits
        PROVE  limits[key].count \in 1..MaxGatewayCalls /\ limits[key].resetAt \in 0..MaxGatewayClock + WindowMs
    <3>1. limits[key].count \in Nat \ {0} /\ limits[key].resetAt \in Nat
      BY DEF GatewayInv, GatewayTypes
    <3>2. limits[key].count <= Len(gatewayCalls) /\ limits[key].resetAt <= gatewayClock + WindowMs
      BY DEF GatewayBounds
    <3> QED BY <2>1, <3>1, <3>2
  <2> QED BY <2>1, <2>2 DEF GatewayTypeOK, GatewayInv, GatewayTypes, GatewayBounds, IsStatus
<1> QED BY <1>1, <1>2, GatewayStart, GatewayStep, GatewayBoundsStep, PTL DEF GatewaySpec

-----------------------------------------------------------------------------
(***************************************************************************)
(* ReactHooks.                                                              *)
(***************************************************************************)
HookParams == ListParams \cup {AnyDocuments}
DocumentOps == {"list", "loadMore"}
HookCallRecords ==
    [pc : {"idle", "asked", "served", "over"}, hook : HookNames,
     op : DocumentOps \cup {"search", "fetchStatus", "sync"}, id : Nat, cursor : Nat, params : HookParams,
     page : Seq(ListedDocs), next : Nat, seen : SUBSET ListedDocs]

HookTypes ==
    /\ rows \subseteq ListedDocs
    /\ latest \in [HookNames -> Nat] /\ loading \in [HookNames -> BOOLEAN]
    /\ shown \in [HookNames -> HookCalls \cup {"none"}]
    /\ items \in Seq(ListedDocs) /\ cursorRef \in Nat
    /\ hookCalls \in [HookCalls -> HookCallRecords]
    /\ listed \in [seen : SUBSET ListedDocs, params : HookParams]
    /\ overlapped \in BOOLEAN /\ wasReset \subseteq HookNames

(* The calls of a hook that no reset met are numbered, and it shows or waits  *)
(* for the latest.                                                          *)
ShowsLatest(hook) ==
    /\ \A c \in InFlight(hook) : hookCalls[c].id \in 1..latest[hook]
    /\ \A c, d \in InFlight(hook) : hookCalls[c].id = hookCalls[d].id => c = d
    /\ loading[hook] <=> \E c \in InFlight(hook) : hookCalls[c].id = latest[hook]
    /\ ~loading[hook] /\ latest[hook] # 0 =>
           shown[hook] \in HookCalls /\ hookCalls[shown[hook]].pc = "over" /\ hookCalls[shown[hook]].id = latest[hook]

Numbered == \A hook \in HookNames \ wasReset : ShowsLatest(hook)

(* The pages.  A page holds what its call selected, newest first, up to the  *)
(* cursor that continues it.                                                *)
Descends(seq) == \A i, j \in DOMAIN seq : i <= j => CreatedAt[seq[i]] >= CreatedAt[seq[j]]
Reached(d, seq, cursor) == CreatedAt[d] < cursor \/ \E i \in DOMAIN seq : CreatedAt[d] = CreatedAt[seq[i]]
PageIsSound(call) ==
    /\ IsInjective(call.page) /\ Descends(call.page)
    /\ \A i \in DOMAIN call.page : CreatedAt[call.page[i]] >= call.next
    /\ call.cursor # 0 => \A i \in DOMAIN call.page : CreatedAt[call.page[i]] < call.cursor
    /\ call.next # 0 => call.page # <<>>
    /\ call.params.status = "any" =>
           \A d \in call.seen \ ToSet(call.page) :
               (call.cursor # 0 => CreatedAt[d] < call.cursor) => Reached(d, call.page, call.next)

DocumentCalls ==
    \A c \in HookCalls :
        /\ hookCalls[c].seen \subseteq rows
        /\ hookCalls[c].pc \in {"asked", "served"} =>
               /\ hookCalls[c].op \in DocumentOps <=> hookCalls[c].hook = "documents"
               /\ hookCalls[c].op = "list" => hookCalls[c].cursor = 0
               /\ hookCalls[c].op = "loadMore" => hookCalls[c].cursor # 0 /\ hookCalls[c].params.status = "any"
        /\ hookCalls[c].pc = "served" /\ hookCalls[c].hook = "documents" => PageIsSound(hookCalls[c])

(* While calls follow each other, the one under way is the latest and asks   *)
(* for what comes after the list.                                           *)
OneAfterAnother ==
    /\ listed.seen \subseteq rows
    /\ ~overlapped =>
        /\ \A c, d \in InFlight("documents") : c = d
        /\ \A c \in InFlight("documents") :
               /\ hookCalls[c].id = latest["documents"]
               /\ hookCalls[c].op = "loadMore" =>
                      hookCalls[c].cursor = cursorRef /\ (hookCalls[c].pc = "served" => listed.seen \subseteq hookCalls[c].seen)

ListIsSound(list, cursor, seen) ==
    /\ IsInjective(list) /\ Descends(list)
    /\ \A i \in DOMAIN list : CreatedAt[list[i]] >= cursor
    /\ \A d \in seen \ ToSet(list) : Reached(d, list, cursor)

ListGoesOn ==
    ~overlapped /\ listed.params.status = "any" => \A seen \in {listed.seen} : ListIsSound(items, cursorRef, seen)

HooksInv == HookTypes /\ Numbered /\ DocumentCalls /\ OneAfterAnother /\ ListGoesOn

-----------------------------------------------------------------------------
(* Rows that are in order one by one are in order.                           *)
LEMMA OrderedDescends ==
    ASSUME NEW n \in Nat, NEW seq \in [1..n -> ListedDocs],
           \A i \in 1..n - 1 : CreatedAt[seq[i]] >= CreatedAt[seq[i + 1]]
    PROVE  Descends(seq)
<1> SUFFICES ASSUME NEW i \in 1..n, NEW j \in 1..n, i <= j, ~(CreatedAt[seq[i]] >= CreatedAt[seq[j]])
             PROVE  FALSE
  BY DEF Descends
<1>1. \A k \in 1..n : CreatedAt[seq[k]] \in Nat
  BY HooksAssumption
<1> DEFINE S == {k \in 1..n : k <= j /\ ~(CreatedAt[seq[k]] >= CreatedAt[seq[j]])}
<1>2. S \subseteq 1..n /\ S # {}
  OBVIOUS
<1>3. Max(S) \in S /\ \A y \in S : Max(S) >= y
  <2> HIDE DEF S
  <2> QED BY <1>2, MaxOfIndices
<1>4. PICK k \in 1..n : /\ k <= j /\ ~(CreatedAt[seq[k]] >= CreatedAt[seq[j]])
                       /\ \A y \in S : k >= y
  BY <1>3
<1>5. k # j
  BY <1>1, <1>4
<1>6. k \in 1..n - 1 /\ k + 1 \in 1..n /\ k + 1 <= j
  BY <1>4, <1>5
<1>7. k + 1 \notin S
  BY <1>4, <1>6
<1>8. CreatedAt[seq[k + 1]] >= CreatedAt[seq[j]]
  BY <1>6, <1>7
<1>9. CreatedAt[seq[k]] >= CreatedAt[seq[k + 1]]
  BY <1>6
<1> QED BY <1>1, <1>4, <1>6, <1>8, <1>9

(* A list of all rows has each of them.                                     *)
LEMMA AllAreListed ==
    ASSUME NEW set, IsFiniteSet(set), NEW seq \in [1..Cardinality(set) -> set], IsInjective(seq), NEW d \in set
    PROVE  \E i \in 1..Cardinality(set) : seq[i] = d
<1>1. Cardinality(set) \in Nat
  BY FS_CardinalityType
<1> DEFINE n == Cardinality(set)
<1>2. Cardinality(1..n) = n
  BY <1>1, FS_Interval
<1>3. seq \in Injection(1..n, set)
  BY DEF Injection
<1> HIDE DEF n
<1>4. seq \in Surjection(1..n, set)
  <2>1. Cardinality(1..n) = Cardinality(set)
    BY <1>2 DEF n
  <2> QED BY <1>3, <2>1, FS_Injection
<1> QED BY <1>4 DEF Surjection, n

(* What is served of the rows that were selected.                            *)
LEMMA PageServed ==
    ASSUME NEW set, set \subseteq ListedDocs, NEW seq \in InOrder(set), NEW limit \in Nat \ {0},
           NEW page, page = Page(seq, limit), NEW next, next = NextCursor(seq, limit)
    PROVE  /\ page \in Seq(ListedDocs) /\ next \in Nat
           /\ IsInjective(page) /\ Descends(page)
           /\ \A i \in DOMAIN page : page[i] \in set /\ CreatedAt[page[i]] >= next
           /\ next # 0 => page # <<>>
           /\ \A d \in set \ ToSet(page) : Reached(d, page, next)
<1> DEFINE n == Cardinality(set)
           m == IF n > limit THEN limit ELSE n
<1>1. IsFiniteSet(set) /\ n \in Nat
  BY HooksAssumption, FS_Subset, FS_CardinalityType
<1>2. /\ seq \in [1..n -> set] /\ seq \in [1..n -> ListedDocs] /\ IsInjective(seq)
      /\ \A i \in 1..n - 1 : CreatedAt[seq[i]] >= CreatedAt[seq[i + 1]]
  BY DEF InOrder
<1>a. \A d \in set : \E i \in 1..n : seq[i] = d
  BY <1>1, <1>2, AllAreListed
<1> HIDE DEF n
<1>3. Descends(seq)
  BY <1>1, <1>2, OrderedDescends
<1>4. seq \in Seq(ListedDocs) /\ Len(seq) = n /\ DOMAIN seq = 1..n
  <2>1. seq \in Seq(ListedDocs)
    BY <1>1, <1>2, IsASeq
  <2> QED BY <1>1, <1>2, <2>1, LenProperties
<1>5. m \in 0..n /\ m <= limit /\ m \in Nat
  BY <1>1
<1>6. /\ page = SubSeq(seq, 1, m)
      /\ next = IF n > limit THEN CreatedAt[seq[limit]] ELSE 0
  BY <1>4 DEF Page, NextCursor
<1>7. /\ page \in Seq(ListedDocs) /\ Len(page) = m /\ \A i \in 1..m : page[i] = seq[i]
  <2> HIDE DEF m
  <2>1. \A i \in 1..m : seq[i] \in ListedDocs
    BY <1>1, <1>2, <1>5
  <2>2. 1 \in Int /\ m \in Int /\ m - 1 + 1 = m /\ (IF 1 <= m THEN m - 1 + 1 ELSE 0) = m
    BY <1>5
  <2>3. /\ page \in Seq(ListedDocs) /\ Len(page) = (IF 1 <= m THEN m - 1 + 1 ELSE 0)
        /\ \A i \in 1..m - 1 + 1 : page[i] = seq[1 + i - 1]
    BY <1>6, <2>1, <2>2, SubSeqProperties
  <2>4. \A i \in 1..m : 1 + i - 1 = i
    BY <1>5
  <2> QED BY <2>2, <2>3, <2>4
<1>8. DOMAIN page = 1..m
  BY <1>7, LenProperties
<1>9. 1..m \subseteq 1..n
  <2> HIDE DEF m
  <2> QED BY <1>1, <1>5
<1>10. \A i \in 1..n : CreatedAt[seq[i]] \in Nat \ {0}
  BY <1>2, HooksAssumption
<1>11. n > limit => m = limit /\ limit \in 1..n
  BY <1>1
<1>12. next \in Nat
  BY <1>6, <1>10, <1>11
<1>13. IsInjective(page)
  <2> HIDE DEF m
  <2> QED BY <1>2, <1>4, <1>7, <1>8, <1>9 DEF IsInjective
<1>14. Descends(page)
  <2> HIDE DEF m
  <2> QED BY <1>3, <1>4, <1>7, <1>8, <1>9 DEF Descends
<1>15. \A i \in DOMAIN page : page[i] \in set /\ CreatedAt[page[i]] >= next
  <2> SUFFICES ASSUME NEW i \in 1..m PROVE page[i] \in set /\ CreatedAt[page[i]] >= next
    BY <1>8
  <2>1. page[i] = seq[i] /\ i \in 1..n
    BY <1>7, <1>9
  <2>2. CASE n > limit
    <3>1. i <= limit /\ limit \in 1..n /\ next = CreatedAt[seq[limit]]
      BY <1>6, <1>11, <2>2
    <3> QED BY <1>2, <1>3, <1>4, <2>1, <3>1 DEF Descends
  <2>3. CASE ~(n > limit)
    <3>1. next = 0 /\ CreatedAt[page[i]] \in Nat
      BY <1>6, <1>10, <2>1, <2>3
    <3>2. page[i] \in set
      BY <1>2, <2>1
    <3> QED BY <3>1, <3>2
  <2> QED BY <2>2, <2>3
<1>16. next # 0 => page # <<>>
  <2> SUFFICES ASSUME next # 0 PROVE page # <<>>
    OBVIOUS
  <2>1. n > limit
    BY <1>6
  <2>2. Len(page) # 0
    BY <1>7, <1>11, <2>1
  <2> QED BY <1>7, <2>2, EmptySeq
<1>17. \A d \in set \ ToSet(page) : Reached(d, page, next)
  <2> SUFFICES ASSUME NEW d \in set, d \notin ToSet(page) PROVE Reached(d, page, next)
    OBVIOUS
  <2>1. PICK i \in 1..n : seq[i] = d
    BY <1>a
  <2>2. i \notin 1..m
    BY <1>7, <1>8, <2>1 DEF ToSet
  <2>3. n > limit /\ limit <= i /\ limit \in 1..n
    BY <1>1, <2>2
  <2>4. CreatedAt[seq[limit]] >= CreatedAt[d] /\ next = CreatedAt[seq[limit]]
    BY <1>3, <1>4, <1>6, <2>1, <2>3 DEF Descends
  <2>5. limit \in DOMAIN page /\ page[limit] = seq[limit]
    BY <1>7, <1>8, <1>11, <2>3
  <2>6. CreatedAt[d] \in Nat /\ next \in Nat
    BY <1>10, <1>12, <2>1
  <2> QED BY <2>4, <2>5, <2>6 DEF Reached
<1> QED BY <1>7, <1>12, <1>13, <1>14, <1>15, <1>16, <1>17

(* The next page of a list is what comes after its cursor, and put behind it. *)
PageFollows(page, cursor, next, seen) ==
    /\ IsInjective(page) /\ Descends(page)
    /\ \A i \in DOMAIN page : CreatedAt[page[i]] >= next
    /\ \A i \in DOMAIN page : CreatedAt[page[i]] < cursor
    /\ next # 0 => page # <<>>
    /\ \A d \in seen \ ToSet(page) : CreatedAt[d] < cursor => Reached(d, page, next)

(* A list with its next page behind it is sound up to the page's cursor.      *)
LEMMA ListExtends ==
    ASSUME NEW list \in Seq(ListedDocs), NEW page \in Seq(ListedDocs), NEW cursor \in Nat \ {0}, NEW next \in Nat,
           NEW old, NEW seen, NEW all, all = list \o page,
           old \subseteq seen, seen \subseteq ListedDocs,
           ListIsSound(list, cursor, old), PageFollows(page, cursor, next, seen)
    PROVE  ListIsSound(all, next, old)
<1> USE DEF ListIsSound, PageFollows
<1> DEFINE n == Len(list)
           m == Len(page)
<1>1. /\ n \in Nat /\ m \in Nat /\ DOMAIN list = 1..n /\ DOMAIN page = 1..m
      /\ all \in Seq(ListedDocs) /\ Len(all) = n + m
      /\ \A i \in 1..n + m : all[i] = IF i <= n THEN list[i] ELSE page[i - n]
  BY ConcatProperties, LenProperties
<1>2. /\ \A i \in 1..n : list[i] \in ListedDocs /\ CreatedAt[list[i]] \in Nat
      /\ \A i \in 1..m : page[i] \in ListedDocs /\ CreatedAt[page[i]] \in Nat
  BY <1>1, ElementOfSeq, HooksAssumption
<1> HIDE DEF n, m
<1>3. DOMAIN all = 1..n + m
  BY <1>1, LenProperties
<1>4. \A i \in 1..n + m :
          \/ i \in 1..n /\ all[i] = list[i]
          \/ i - n \in 1..m /\ ~(i <= n) /\ all[i] = page[i - n]
  <2>1. ASSUME NEW i \in 1..n + m, i <= n PROVE i \in 1..n /\ all[i] = list[i]
    BY <1>1, <2>1
  <2>2. ASSUME NEW i \in 1..n + m, ~(i <= n) PROVE i - n \in 1..m /\ all[i] = page[i - n]
    BY <1>1, <2>2
  <2> QED BY <1>1, <2>1, <2>2
<1>5. /\ \A i \in 1..n : i \in 1..n + m /\ all[i] = list[i]
      /\ \A i \in 1..m : n + i \in 1..n + m /\ all[n + i] = page[i]
  BY <1>1
<1>6. \A i \in 1..n : \A j \in 1..m : CreatedAt[list[i]] > CreatedAt[page[j]] /\ list[i] # page[j]
  <2> SUFFICES ASSUME NEW i \in 1..n, NEW j \in 1..m
               PROVE  CreatedAt[list[i]] > CreatedAt[page[j]] /\ list[i] # page[j]
    OBVIOUS
  <2>1. CreatedAt[list[i]] >= cursor /\ CreatedAt[page[j]] < cursor
    BY <1>1
  <2>2. CreatedAt[list[i]] \in Nat /\ CreatedAt[page[j]] \in Nat
    BY <1>2
  <2>3. CreatedAt[list[i]] > CreatedAt[page[j]]
    BY <2>1, <2>2
  <2>4. CreatedAt[list[i]] # CreatedAt[page[j]]
    BY <2>2, <2>3
  <2> QED BY <2>3, <2>4
<1>7. IsInjective(all)
  <2> SUFFICES ASSUME NEW i \in 1..n + m, NEW j \in 1..n + m, all[i] = all[j] PROVE i = j
    BY <1>3 DEF IsInjective
  <2>1. CASE i \in 1..n /\ all[i] = list[i] /\ j \in 1..n /\ all[j] = list[j]
    BY <1>1, <2>1 DEF IsInjective
  <2>2. CASE i - n \in 1..m /\ all[i] = page[i - n] /\ j - n \in 1..m /\ all[j] = page[j - n]
    <3>1. i - n = j - n
      BY <1>1, <2>2 DEF IsInjective
    <3> QED BY <1>1, <3>1
  <2> QED BY <1>4, <1>6, <2>1, <2>2
<1>8. Descends(all)
  <2> SUFFICES ASSUME NEW i \in 1..n + m, NEW j \in 1..n + m, i <= j
               PROVE  CreatedAt[all[i]] >= CreatedAt[all[j]]
    BY <1>3 DEF Descends
  <2>1. CASE i \in 1..n /\ all[i] = list[i] /\ j \in 1..n /\ all[j] = list[j]
    BY <1>1, <2>1 DEF Descends
  <2>2. CASE i - n \in 1..m /\ all[i] = page[i - n] /\ j - n \in 1..m /\ all[j] = page[j - n]
    <3>1. i - n <= j - n
      BY <1>1
    <3> QED BY <1>1, <2>2, <3>1 DEF Descends
  <2>3. CASE i \in 1..n /\ all[i] = list[i] /\ j - n \in 1..m /\ all[j] = page[j - n]
    BY SMTT(30), <1>2, <1>6, <2>3
  <2>4. CASE ~(i <= n) /\ j \in 1..n
    BY <1>1, <2>4
  <2> QED BY <1>4, <2>1, <2>2, <2>3, <2>4
<1>9. \A i \in DOMAIN all : CreatedAt[all[i]] >= next
  <2> SUFFICES ASSUME NEW i \in 1..n + m PROVE CreatedAt[all[i]] >= next
    BY <1>3
  <2>1. CASE i - n \in 1..m /\ all[i] = page[i - n]
    BY <1>1, <2>1
  <2>2. CASE i \in 1..n /\ all[i] = list[i]
    <3>1. CASE next = 0
      BY <1>2, <2>2, <3>1
    <3>2. CASE next # 0
      <4>1. m # 0
        BY <3>2, EmptySeq DEF m
      <4>2. 1 \in 1..m
        BY <1>1, <4>1
      <4>3. CreatedAt[page[1]] >= next /\ CreatedAt[page[1]] \in Nat /\ CreatedAt[list[i]] > CreatedAt[page[1]]
        BY <1>1, <1>2, <1>6, <2>2, <4>2
      <4> QED BY <1>2, <2>2, <4>3
    <3> QED BY <3>1, <3>2
  <2> QED BY <1>4, <2>1, <2>2
<1>10. ASSUME NEW d \in old, d \notin ToSet(all) PROVE Reached(d, all, next)
  <2>1. d \notin ToSet(list) /\ d \notin ToSet(page)
    <3>1. \A i \in 1..n + m : all[i] # d
      BY <1>3, <1>10 DEF ToSet
    <3>2. \A i \in 1..n : list[i] # d
      BY <1>5, <3>1
    <3>3. ASSUME NEW i \in 1..m PROVE page[i] # d
      <4>1. n + i \in 1..n + m /\ all[n + i] = page[i]
        BY <1>5
      <4> QED BY <3>1, <4>1
    <3> QED BY <1>1, <3>2, <3>3 DEF ToSet
  <2>2. CASE \E i \in DOMAIN list : CreatedAt[d] = CreatedAt[list[i]]
    BY <1>1, <1>3, <1>5, <2>2 DEF Reached
  <2>3. CASE CreatedAt[d] < cursor
    <3>1. Reached(d, page, next)
      BY <2>1, <2>3
    <3>2. CASE CreatedAt[d] < next
      BY <3>2 DEF Reached
    <3>3. CASE \E i \in 1..m : CreatedAt[d] = CreatedAt[page[i]]
      <4>1. PICK i \in 1..m : CreatedAt[d] = CreatedAt[page[i]]
        BY <3>3
      <4>2. n + i \in 1..n + m /\ all[n + i] = page[i]
        BY <1>5
      <4> QED BY <1>3, <4>1, <4>2 DEF Reached
    <3> QED BY <1>1, <3>1, <3>2, <3>3 DEF Reached
  <2> QED BY <2>1, <2>2, <2>3 DEF Reached
<1> QED BY <1>7, <1>8, <1>9, <1>10

-----------------------------------------------------------------------------
(* A call there is not yet is one.                                          *)
LEMMA NoCallIsOne == NoCall \in HookCallRecords /\ NoCall.seen = {}
<1>1. <<>> \in Seq(ListedDocs)
  BY EmptySeq
<1>2. "documents" \in HookNames /\ "list" \in DocumentOps /\ AnyDocuments \in HookParams
  BY DEF HookNames, DocumentOps, HookParams
<1> QED BY <1>1, <1>2 DEF NoCall, HookCallRecords

(* One call changes.                                                        *)
LEMMA CallMoves ==
    ASSUME HookTypes, NEW c \in HookCalls, NEW r \in HookCallRecords, hookCalls' = [hookCalls EXCEPT ![c] = r]
    PROVE  /\ hookCalls' \in [HookCalls -> HookCallRecords] /\ hookCalls'[c] = r
           /\ \A d \in HookCalls \ {c} : hookCalls'[d] = hookCalls[d]
<1>1. hookCalls \in [HookCalls -> HookCallRecords]
  BY DEF HookTypes
<1> HIDE DEF HookCallRecords
<1> QED BY <1>1

(* A hook shows what it did, if the call that changes is none of its own.    *)
LEMMA OtherHooksShow ==
    ASSUME NEW hook, ShowsLatest(hook), NEW c \in HookCalls,
           \A d \in HookCalls \ {c} : hookCalls'[d] = hookCalls[d],
           c \notin InFlight(hook), c \notin InFlight(hook)', hookCalls[c].pc # "over",
           latest'[hook] = latest[hook], loading'[hook] = loading[hook], shown'[hook] = shown[hook]
    PROVE  ShowsLatest(hook)'
<1>1. InFlight(hook)' = InFlight(hook)
  <2>1. \A d \in HookCalls \ {c} : d \in InFlight(hook)' <=> d \in InFlight(hook)
    BY DEF InFlight
  <2>2. InFlight(hook) \subseteq HookCalls /\ InFlight(hook)' \subseteq HookCalls
    BY DEF InFlight
  <2> QED BY <2>1, <2>2
<1>2. \A d \in InFlight(hook) : hookCalls'[d] = hookCalls[d]
  BY DEF InFlight
<1> QED BY <1>1, <1>2 DEF ShowsLatest

(* A call comes to its end, answered or failed.                             *)
LEMMA CallEnds ==
    ASSUME HookTypes, Numbered, NEW c \in HookCalls, NEW hook, hook = hookCalls[c].hook,
           hookCalls[c].pc \in {"asked", "served"},
           hookCalls'[c].pc = "over", hookCalls'[c].id = hookCalls[c].id,
           \A d \in HookCalls \ {c} : hookCalls'[d] = hookCalls[d],
           loading' = (IF hookCalls[c].id = latest[hook] THEN [loading EXCEPT ![hook] = FALSE] ELSE loading),
           shown' = (IF hookCalls[c].id = latest[hook] THEN [shown EXCEPT ![hook] = c] ELSE shown),
           UNCHANGED <<latest, wasReset>>
    PROVE  Numbered'
<1> SUFFICES ASSUME NEW k \in HookNames \ wasReset PROVE ShowsLatest(k)'
  BY DEF Numbered
<1>0. ShowsLatest(k) /\ hook \in HookNames
  BY DEF Numbered, HookTypes, HookCallRecords
<1>1. /\ c \notin InFlight(k)'
      /\ k # hook => c \notin InFlight(k)
  BY DEF InFlight
<1>2. CASE k # hook
  <2>1. loading'[k] = loading[k] /\ shown'[k] = shown[k]
    BY <1>0, <1>2 DEF HookTypes
  <2> QED BY <1>0, <1>1, <1>2, <2>1, OtherHooksShow
<1>3. CASE k = hook
  <2>1. /\ c \in InFlight(k) /\ InFlight(k)' = InFlight(k) \ {c}
        /\ \A d \in InFlight(k)' : hookCalls'[d] = hookCalls[d]
    BY <1>3 DEF InFlight
  <2>2. CASE hookCalls[c].id = latest[hook]
    <3>1. loading'[k] = FALSE /\ shown'[k] = c
      BY <1>0, <1>3, <2>2 DEF HookTypes
    <3>2. ~\E d \in InFlight(k)' : hookCalls'[d].id = latest'[k]
      BY <1>0, <1>3, <2>1, <2>2 DEF ShowsLatest
    <3> QED BY <1>0, <1>3, <2>1, <2>2, <3>1, <3>2 DEF ShowsLatest
  <2>3. CASE hookCalls[c].id # latest[hook]
    <3>1. loading'[k] = loading[k] /\ shown'[k] = shown[k]
      BY <2>3
    <3>2. shown[k] # c \/ hookCalls[c].pc # "over"
      OBVIOUS
    <3>3. (\E d \in InFlight(k)' : hookCalls'[d].id = latest'[k]) <=> \E d \in InFlight(k) : hookCalls[d].id = latest[k]
      BY <1>3, <2>1, <2>3
    <3>4. ~loading[k] /\ latest[k] # 0 => shown[k] \in HookCalls \ {c}
      BY <1>0 DEF ShowsLatest
    <3> QED BY <1>0, <1>3, <2>1, <3>1, <3>3, <3>4 DEF ShowsLatest
  <2> QED BY <2>2, <2>3
<1> QED BY <1>2, <1>3

-----------------------------------------------------------------------------
(* A call that begins is the latest of its hook, which waits for it.         *)
LEMMA CallBegins ==
    ASSUME HooksInv, NEW c \in HookCalls, NEW hook \in HookNames,
           NEW op \in DocumentOps \cup {"search", "fetchStatus", "sync"}, NEW cursor \in Nat, NEW params \in HookParams,
           op \in DocumentOps <=> hook = "documents", op = "list" => cursor = 0,
           op = "loadMore" => cursor # 0 /\ cursor = cursorRef /\ params.status = "any",
           Begin(c, hook, op, cursor, params)
    PROVE  HooksInv'
<1> USE DEF HooksInv
<1> DEFINE r == [NoCall EXCEPT !.pc = "asked", !.hook = hook, !.op = op, !.id = latest[hook] + 1,
                               !.cursor = cursor, !.params = params]
<1>1. /\ hookCalls[c].pc = "idle" /\ latest' = [latest EXCEPT ![hook] = latest[hook] + 1]
      /\ loading' = [loading EXCEPT ![hook] = TRUE] /\ hookCalls' = [hookCalls EXCEPT ![c] = r]
      /\ overlapped' = (overlapped \/ (hook = "documents" /\ InFlight(hook) # {}))
      /\ UNCHANGED <<rows, shown, items, cursorRef, listed, wasReset>>
  BY DEF Begin
<1>2. latest[hook] \in Nat
  BY DEF HookTypes
<1>3. /\ r.pc = "asked" /\ r.hook = hook /\ r.op = op /\ r.id = latest[hook] + 1 /\ r.cursor = cursor
      /\ r.params = params /\ r.seen = {} /\ r \in HookCallRecords
  <2>1. latest[hook] + 1 \in Nat
    BY <1>2
  <2> QED BY <2>1, NoCallIsOne DEF HookCallRecords
<1> HIDE DEF r
<1>4. /\ hookCalls' \in [HookCalls -> HookCallRecords] /\ hookCalls'[c] = r
      /\ \A d \in HookCalls \ {c} : hookCalls'[d] = hookCalls[d]
  BY <1>1, <1>3, CallMoves
<1>5. /\ latest'[hook] = latest[hook] + 1 /\ loading'[hook] = TRUE
      /\ \A k \in HookNames \ {hook} : latest'[k] = latest[k] /\ loading'[k] = loading[k]
  BY <1>1 DEF HookTypes
<1>6. HookTypes'
  BY <1>1, <1>2, <1>4 DEF HookTypes
<1>7. \A k : \A d \in HookCalls : d \in InFlight(k)' <=> (d \in InFlight(k) \/ (d = c /\ k = hook))
  <2>1. \A k : \A d \in HookCalls \ {c} : d \in InFlight(k)' <=> d \in InFlight(k)
    BY <1>4 DEF InFlight
  <2>2. \A k : c \notin InFlight(k) /\ (c \in InFlight(k)' <=> k = hook)
    BY <1>1, <1>3, <1>4 DEF InFlight
  <2> QED BY <2>1, <2>2
<1>8. \A k : InFlight(k) \subseteq HookCalls \ {c} /\ InFlight(k)' \subseteq HookCalls
  BY <1>1 DEF InFlight
<1>9. Numbered'
  <2> SUFFICES ASSUME NEW k \in HookNames \ wasReset PROVE ShowsLatest(k)'
    BY <1>1 DEF Numbered
  <2>1. ShowsLatest(k)
    BY DEF Numbered
  <2>2. CASE k # hook
    <3>1. c \notin InFlight(k) /\ c \notin InFlight(k)'
      BY <1>7, <1>8, <2>2
    <3> QED BY <1>1, <1>4, <1>5, <2>1, <2>2, <3>1, OtherHooksShow
  <2>3. CASE k = hook
    <3>1. \A d \in InFlight(k) : hookCalls'[d].id = hookCalls[d].id /\ hookCalls[d].id \in 1..latest[k]
      BY <1>4, <1>8, <2>1 DEF ShowsLatest
    <3>2. \A d \in InFlight(k)' : d \in InFlight(k) \/ d = c
      BY <1>7, <1>8
    <3>3. c \in InFlight(k)' /\ hookCalls'[c].id = latest[k] + 1 /\ latest'[k] = latest[k] + 1 /\ loading'[k] = TRUE
      BY <1>3, <1>4, <1>5, <1>7, <2>3
    <3>4. \A d \in InFlight(k)' : hookCalls'[d].id \in 1..latest'[k]
      BY <1>2, <2>3, <3>1, <3>2, <3>3
    <3>5. ASSUME NEW d \in InFlight(k)', NEW e \in InFlight(k)', hookCalls'[d].id = hookCalls'[e].id
          PROVE  d = e
      <4>1. \A f \in InFlight(k) : hookCalls'[f].id # latest[k] + 1
        BY <1>2, <2>3, <3>1
      <4> QED BY <2>1, <3>1, <3>2, <3>3, <3>5, <4>1 DEF ShowsLatest
    <3> QED BY <3>3, <3>4, <3>5 DEF ShowsLatest
  <2> QED BY <2>2, <2>3
<1>10. DocumentCalls'
  <2> SUFFICES ASSUME NEW d \in HookCalls
               PROVE  /\ hookCalls'[d].seen \subseteq rows
                      /\ hookCalls'[d].pc \in {"asked", "served"} =>
                           /\ hookCalls'[d].op \in DocumentOps <=> hookCalls'[d].hook = "documents"
                           /\ hookCalls'[d].op = "list" => hookCalls'[d].cursor = 0
                           /\ hookCalls'[d].op = "loadMore" => hookCalls'[d].cursor # 0 /\ hookCalls'[d].params.status = "any"
                      /\ hookCalls'[d].pc = "served" /\ hookCalls'[d].hook = "documents" => PageIsSound(hookCalls'[d])
    BY <1>1 DEF DocumentCalls, PageIsSound
  <2>1. CASE d = c
    BY <1>3, <1>4, <2>1
  <2>2. CASE d # c
    BY <1>4, <2>2 DEF DocumentCalls
  <2> QED BY <2>1, <2>2
<1>11. OneAfterAnother'
  <2>1. CASE hook = "documents"
    <3> SUFFICES ASSUME ~overlapped' PROVE OneAfterAnother'
      BY <1>1 DEF OneAfterAnother
    <3>1. InFlight("documents") = {}
      BY <1>1, <2>1
    <3>2. \A d \in InFlight("documents")' : d = c
      BY <1>7, <1>8, <3>1
    <3> QED BY <1>1, <1>3, <1>4, <1>5, <2>1, <3>2 DEF OneAfterAnother
  <2>2. CASE hook # "documents"
    <3>1. InFlight("documents")' = InFlight("documents")
      BY <1>7, <1>8, <2>2
    <3>2. \A d \in InFlight("documents") : hookCalls'[d] = hookCalls[d]
      BY <1>4, <1>8
    <3>3. latest'["documents"] = latest["documents"]
      BY <1>5, <2>2 DEF HookNames
    <3>4. overlapped' = overlapped
      BY <1>1, <2>2 DEF HookTypes
    <3> QED BY <1>1, <3>1, <3>2, <3>3, <3>4 DEF OneAfterAnother
  <2> QED BY <2>1, <2>2
<1>12. ListGoesOn'
  BY <1>1 DEF ListGoesOn, ListIsSound, Descends, Reached
<1> QED BY <1>6, <1>9, <1>10, <1>11, <1>12

(* The page a call is served holds what it selected.                         *)
LEMMA CallIsServed ==
    ASSUME HooksInv, NEW c \in HookCalls, Serve(c)
    PROVE  HooksInv'
<1> USE DEF HooksInv
<1>0. PICK call \in HookCallRecords : call = hookCalls[c] /\ call.pc = "asked"
  BY DEF Serve, HookTypes
<1>1. UNCHANGED <<rows, latest, loading, shown, items, cursorRef, listed, overlapped, wasReset>>
  BY DEF Serve
<1>2. PICK r \in HookCallRecords :
          /\ hookCalls' = [hookCalls EXCEPT ![c] = r]
          /\ r.pc = "served" /\ r.hook = call.hook /\ r.op = call.op /\ r.id = call.id /\ r.cursor = call.cursor
          /\ r.params = call.params /\ r.seen \subseteq rows
          /\ call.hook = "documents" => PageIsSound(r) /\ r.seen = rows
  <2>1. CASE call.hook = "documents"
    <3>1. PICK seq \in InOrder(Selected(call)) :
              hookCalls' = [hookCalls EXCEPT ![c] =
                  [call EXCEPT !.pc = "served", !.seen = rows, !.page = Page(seq, call.params.limit),
                               !.next = NextCursor(seq, call.params.limit)]]
      BY <1>0, <2>1 DEF Serve
    <3>2. PICK page, next : page = Page(seq, call.params.limit) /\ next = NextCursor(seq, call.params.limit)
      OBVIOUS
    <3> DEFINE r == [call EXCEPT !.pc = "served", !.seen = rows, !.page = page, !.next = next]
    <3>3. hookCalls' = [hookCalls EXCEPT ![c] = r]
      BY <3>1, <3>2
    <3>4. call.params.limit \in Nat \ {0} /\ Selected(call) \subseteq ListedDocs
      BY HooksAssumption DEF HookCallRecords, HookParams, AnyDocuments, Selected, HookTypes
    <3>5. /\ page \in Seq(ListedDocs) /\ next \in Nat
          /\ IsInjective(page) /\ Descends(page)
          /\ \A i \in DOMAIN page : page[i] \in Selected(call) /\ CreatedAt[page[i]] >= next
          /\ next # 0 => page # <<>>
          /\ \A d \in Selected(call) \ ToSet(page) : Reached(d, page, next)
      BY <3>2, <3>4, PageServed
    <3>6. rows \subseteq ListedDocs
      BY DEF HookTypes
    <3>7. /\ r \in HookCallRecords /\ r.pc = "served" /\ r.seen = rows /\ r.page = page /\ r.next = next
          /\ r.hook = call.hook /\ r.op = call.op /\ r.id = call.id /\ r.cursor = call.cursor /\ r.params = call.params
      BY <3>5, <3>6 DEF HookCallRecords
    <3> HIDE DEF r
    <3>8. PageIsSound(r)
      <4>1. call.cursor # 0 => \A i \in DOMAIN page : CreatedAt[page[i]] < call.cursor
        BY <3>5 DEF Selected
      <4>2. ASSUME call.params.status = "any", NEW d \in rows \ ToSet(page), call.cursor # 0 => CreatedAt[d] < call.cursor
            PROVE  Reached(d, page, next)
        <5>1. d \in Selected(call)
          BY <4>2 DEF Selected
        <5> QED BY <3>5, <5>1
      <4> QED BY <3>5, <3>7, <4>1, <4>2 DEF PageIsSound
    <3> QED BY <2>1, <3>3, <3>7, <3>8
  <2>2. CASE call.hook # "documents"
    <3> DEFINE r == [call EXCEPT !.pc = "served"]
    <3>1. hookCalls' = [hookCalls EXCEPT ![c] = r]
      <4>1. hookCalls' = [hookCalls EXCEPT ![c].pc = "served"]
        BY <1>0, <2>2 DEF Serve
      <4> QED BY <1>0, <4>1
    <3>2. /\ r \in HookCallRecords /\ r.pc = "served" /\ r.hook = call.hook /\ r.op = call.op /\ r.id = call.id
          /\ r.cursor = call.cursor /\ r.params = call.params /\ r.seen = call.seen
      BY DEF HookCallRecords
    <3>3. call.seen \subseteq rows
      BY <1>0 DEF DocumentCalls
    <3> HIDE DEF r
    <3> QED BY <2>2, <3>1, <3>2, <3>3
  <2> QED BY <2>1, <2>2
<1>3. /\ hookCalls' \in [HookCalls -> HookCallRecords] /\ hookCalls'[c] = r
      /\ \A d \in HookCalls \ {c} : hookCalls'[d] = hookCalls[d]
  BY <1>2, CallMoves
<1>4. HookTypes'
  BY <1>1, <1>3 DEF HookTypes
<1>5. \A k : InFlight(k)' = InFlight(k)
  <2>1. \A k : \A d \in HookCalls : d \in InFlight(k)' <=> d \in InFlight(k)
    BY <1>0, <1>2, <1>3 DEF InFlight
  <2> QED BY <2>1 DEF InFlight
<1>6. \A d \in HookCalls : hookCalls'[d].id = hookCalls[d].id /\ (hookCalls[d].pc = "over" => hookCalls'[d].pc = "over")
  BY <1>0, <1>2, <1>3
<1>7. \A k : InFlight(k) \subseteq HookCalls
  BY DEF InFlight
<1>8. Numbered'
  BY <1>1, <1>5, <1>6, <1>7 DEF Numbered, ShowsLatest
<1>9. DocumentCalls'
  <2> SUFFICES ASSUME NEW d \in HookCalls
               PROVE  /\ hookCalls'[d].seen \subseteq rows
                      /\ hookCalls'[d].pc \in {"asked", "served"} =>
                           /\ hookCalls'[d].op \in DocumentOps <=> hookCalls'[d].hook = "documents"
                           /\ hookCalls'[d].op = "list" => hookCalls'[d].cursor = 0
                           /\ hookCalls'[d].op = "loadMore" => hookCalls'[d].cursor # 0 /\ hookCalls'[d].params.status = "any"
                      /\ hookCalls'[d].pc = "served" /\ hookCalls'[d].hook = "documents" => PageIsSound(hookCalls'[d])
    BY <1>1 DEF DocumentCalls, PageIsSound
  <2>1. CASE d = c
    BY <1>0, <1>2, <1>3, <2>1 DEF DocumentCalls
  <2>2. CASE d # c
    BY <1>3, <2>2 DEF DocumentCalls
  <2> QED BY <2>1, <2>2
<1>10. OneAfterAnother'
  <2>1. \A d \in InFlight("documents") :
            /\ hookCalls'[d].op = hookCalls[d].op /\ hookCalls'[d].cursor = hookCalls[d].cursor
            /\ d # c => hookCalls'[d] = hookCalls[d]
            /\ d = c => hookCalls'[d].seen = rows
    BY <1>0, <1>2, <1>3 DEF InFlight
  <2> QED BY <1>1, <1>5, <1>6, <1>7, <2>1 DEF OneAfterAnother
<1>11. ListGoesOn'
  BY <1>1 DEF ListGoesOn, ListIsSound, Descends, Reached
<1> QED BY <1>4, <1>8, <1>9, <1>10, <1>11

(* A failure ends a call and changes no list.                               *)
LEMMA CallFailed ==
    ASSUME HooksInv, NEW c \in HookCalls, CallFails(c)
    PROVE  HooksInv'
<1> USE DEF HooksInv
<1>0. PICK call \in HookCallRecords : call = hookCalls[c] /\ call.pc = "asked"
  BY DEF CallFails, HookTypes
<1> DEFINE r == [NoCall EXCEPT !.pc = "over", !.id = call.id]
<1>1. /\ hookCalls' = [hookCalls EXCEPT ![c] = r]
      /\ loading' = IF call.id = latest[call.hook] THEN [loading EXCEPT ![call.hook] = FALSE] ELSE loading
      /\ shown' = IF call.id = latest[call.hook] THEN [shown EXCEPT ![call.hook] = c] ELSE shown
      /\ UNCHANGED <<rows, latest, items, cursorRef, listed, overlapped, wasReset>>
  BY <1>0 DEF CallFails, IsLatest
<1>2. r.pc = "over" /\ r.id = call.id /\ r.seen = {} /\ r \in HookCallRecords
  BY NoCallIsOne DEF HookCallRecords
<1> HIDE DEF r
<1>3. /\ hookCalls' \in [HookCalls -> HookCallRecords] /\ hookCalls'[c] = r
      /\ \A d \in HookCalls \ {c} : hookCalls'[d] = hookCalls[d]
  BY <1>1, <1>2, CallMoves
<1>4. call.hook \in HookNames
  BY DEF HookCallRecords
<1>5. HookTypes'
  BY <1>1, <1>3, <1>4 DEF HookTypes
<1>6. Numbered'
  BY <1>0, <1>1, <1>2, <1>3, CallEnds
<1>7. DocumentCalls'
  BY <1>1, <1>2, <1>3 DEF DocumentCalls, PageIsSound, Descends, Reached
<1>8. OneAfterAnother'
  <2>1. /\ InFlight("documents")' \subseteq InFlight("documents")
        /\ \A d \in InFlight("documents")' : hookCalls'[d] = hookCalls[d]
    BY <1>2, <1>3 DEF InFlight
  <2> QED BY <1>1, <2>1 DEF OneAfterAnother
<1>9. ListGoesOn'
  BY <1>1 DEF ListGoesOn, ListIsSound, Descends, Reached
<1> QED BY <1>5, <1>6, <1>7, <1>8, <1>9

(* An answer ends a call; while calls follow each other it is put in the     *)
(* place of the list, or behind it.                                         *)
LEMMA CallIsSettled ==
    ASSUME HooksInv, NEW c \in HookCalls, Settle(c)
    PROVE  HooksInv'
<1> USE DEF HooksInv
<1>0. PICK call \in HookCallRecords : call = hookCalls[c] /\ call.pc = "served"
  BY DEF Settle, HookTypes
<1> DEFINE r == [NoCall EXCEPT !.pc = "over", !.id = call.id]
           answers == call.id = latest[call.hook]
<1>1. /\ hookCalls' = [hookCalls EXCEPT ![c] = r]
      /\ cursorRef' = IF call.hook = "documents" THEN call.next ELSE cursorRef
      /\ loading' = IF call.id = latest[call.hook] THEN [loading EXCEPT ![call.hook] = FALSE] ELSE loading
      /\ shown' = IF call.id = latest[call.hook] THEN [shown EXCEPT ![call.hook] = c] ELSE shown
      /\ UNCHANGED <<rows, latest, wasReset>>
  BY <1>0 DEF Settle, IsLatest
<1>a. /\ ~answers \/ call.hook # "documents" => items' = items
      /\ answers /\ call.hook = "documents" /\ call.op = "list" => items' = call.page
      /\ answers /\ call.hook = "documents" /\ call.op # "list" => items' = items \o call.page
  <2>1. items' = IF ~answers \/ call.hook # "documents" THEN items
                 ELSE IF call.op = "list" THEN call.page ELSE items \o call.page
    BY <1>0 DEF Settle, IsLatest
  <2>2. ~answers \/ call.hook # "documents" => items' = items
    <3> HIDE DEF answers
    <3> QED BY <2>1
  <2>3. answers /\ call.hook = "documents" /\ call.op = "list" => items' = call.page
    <3> HIDE DEF answers
    <3> QED BY <2>1
  <2>4. answers /\ call.hook = "documents" /\ call.op # "list" => items' = items \o call.page
    <3> HIDE DEF answers
    <3> QED BY <2>1
  <2> QED BY <2>2, <2>3, <2>4
<1>b. IF answers /\ call.op = "list"
      THEN /\ listed' = [seen |-> call.seen, params |-> call.params]
           /\ overlapped' = (overlapped /\ InFlight("documents") # {c})
      ELSE UNCHANGED <<listed, overlapped>>
  BY <1>0 DEF Settle, IsLatest
<1>2. r.pc = "over" /\ r.id = call.id /\ r.seen = {} /\ r \in HookCallRecords
  BY NoCallIsOne DEF HookCallRecords
<1> HIDE DEF r
<1>3. /\ hookCalls' \in [HookCalls -> HookCallRecords] /\ hookCalls'[c] = r
      /\ \A d \in HookCalls \ {c} : hookCalls'[d] = hookCalls[d]
  BY <1>1, <1>2, CallMoves
<1>4. /\ call.hook \in HookNames /\ call.page \in Seq(ListedDocs) /\ call.next \in Nat /\ call.seen \subseteq ListedDocs
      /\ call.params \in HookParams /\ call.cursor \in Nat
  BY DEF HookCallRecords
<1>5. HookTypes'
  <2>1. items' \in Seq(ListedDocs)
    <3>1. items \o call.page \in Seq(ListedDocs)
      BY <1>4, ConcatProperties DEF HookTypes
    <3> QED BY <1>4, <1>a, <3>1 DEF HookTypes
  <2>2. loading' \in [HookNames -> BOOLEAN] /\ shown' \in [HookNames -> HookCalls \cup {"none"}] /\ cursorRef' \in Nat
    BY <1>1, <1>4 DEF HookTypes
  <2>3. listed' \in [seen : SUBSET ListedDocs, params : HookParams] /\ overlapped' \in BOOLEAN
    <3>1. CASE answers /\ call.op = "list"
      <4>1. listed' = [seen |-> call.seen, params |-> call.params]
        BY <1>b, <3>1
      <4>2. overlapped' \in BOOLEAN
        BY <1>b, <3>1
      <4> QED BY <1>4, <4>1, <4>2
    <3>2. CASE ~(answers /\ call.op = "list")
      BY <1>b, <3>2 DEF HookTypes
    <3> QED BY <3>1, <3>2
  <2> QED BY <1>1, <1>3, <2>1, <2>2, <2>3 DEF HookTypes
<1>6. Numbered'
  BY <1>0, <1>1, <1>2, <1>3, CallEnds
<1>7. DocumentCalls'
  BY <1>1, <1>2, <1>3 DEF DocumentCalls, PageIsSound, Descends, Reached
<1>8. /\ InFlight("documents")' = InFlight("documents") \ {c}
      /\ \A d \in InFlight("documents")' : hookCalls'[d] = hookCalls[d]
      /\ call.hook = "documents" => c \in InFlight("documents")
  <2>1. \A d \in HookCalls \ {c} : d \in InFlight("documents")' <=> d \in InFlight("documents")
    BY <1>3 DEF InFlight
  <2>2. c \notin InFlight("documents")' /\ (call.hook = "documents" => c \in InFlight("documents"))
    BY <1>0, <1>2, <1>3 DEF InFlight
  <2>3. InFlight("documents") \subseteq HookCalls /\ InFlight("documents")' \subseteq HookCalls
    BY DEF InFlight
  <2> QED BY <1>3, <2>1, <2>2, <2>3
<1>9. /\ call.seen \subseteq rows /\ (call.op \in DocumentOps <=> call.hook = "documents")
      /\ call.op = "list" => call.cursor = 0
      /\ call.op = "loadMore" => call.cursor # 0 /\ call.params.status = "any"
      /\ call.hook = "documents" => PageIsSound(call)
  BY <1>0 DEF DocumentCalls
<1>10. CASE call.hook # "documents"
  <2>1. UNCHANGED <<items, cursorRef, listed, overlapped>>
    BY <1>1, <1>9, <1>10, <1>a, <1>b DEF DocumentOps
  <2>2. OneAfterAnother'
    BY <1>1, <1>8, <2>1 DEF OneAfterAnother
  <2>3. ListGoesOn'
    BY <2>1 DEF ListGoesOn, ListIsSound, Descends, Reached
  <2> QED BY <1>5, <1>6, <1>7, <2>2, <2>3
<1>11. CASE call.hook = "documents" /\ ~answers
  <2>1. overlapped /\ UNCHANGED <<listed, overlapped>>
    BY <1>0, <1>8, <1>11, <1>b DEF OneAfterAnother
  <2>2. OneAfterAnother' /\ ListGoesOn'
    BY <1>1, <2>1 DEF OneAfterAnother, ListGoesOn
  <2> QED BY <1>5, <1>6, <1>7, <2>2
<1>12. CASE call.hook = "documents" /\ answers /\ call.op = "list"
  <2>1. /\ items' = call.page /\ cursorRef' = call.next /\ listed'.seen = call.seen /\ listed'.params = call.params
        /\ overlapped' = (overlapped /\ InFlight("documents") # {c})
    BY <1>1, <1>12, <1>a, <1>b
  <2>2. ~overlapped' => InFlight("documents")' = {}
    BY <1>8, <1>12, <2>1 DEF OneAfterAnother
  <2>3. OneAfterAnother'
    BY <1>1, <1>9, <2>1, <2>2 DEF OneAfterAnother
  <2>4. ListGoesOn'
    BY <1>9, <1>12, <2>1 DEF ListGoesOn, ListIsSound, PageIsSound, Descends, Reached
  <2> QED BY <1>5, <1>6, <1>7, <2>3, <2>4
<1>13. CASE call.hook = "documents" /\ answers /\ call.op # "list"
  <2>1. items' = items \o call.page /\ cursorRef' = call.next /\ UNCHANGED <<listed, overlapped>>
    BY <1>1, <1>13, <1>a, <1>b
  <2>2. call.op = "loadMore"
    BY <1>9, <1>13 DEF DocumentOps
  <2>3. ~overlapped => InFlight("documents")' = {}
    BY <1>8, <1>13 DEF OneAfterAnother
  <2>4. OneAfterAnother'
    BY <1>1, <2>1, <2>3 DEF OneAfterAnother
  <2>5. ListGoesOn'
    <3> SUFFICES ASSUME ~overlapped, listed.params.status = "any", NEW seen, seen = listed.seen
                 PROVE  ListIsSound(items, cursorRef, seen)'
      BY <2>1 DEF ListGoesOn
    <3>1. call.cursor = cursorRef /\ call.cursor # 0 /\ seen \subseteq call.seen
      BY <1>0, <1>8, <1>9, <1>13, <2>2 DEF OneAfterAnother
    <3>2. ListIsSound(items, call.cursor, seen)
      BY <3>1 DEF ListGoesOn
    <3>3. PageFollows(call.page, call.cursor, call.next, call.seen)
      BY <1>9, <1>13, <2>2, <3>1 DEF PageIsSound, PageFollows
    <3>4. items \in Seq(ListedDocs) /\ call.cursor \in Nat \ {0}
      BY <1>4, <3>1 DEF HookTypes
    <3>5. PICK list, page, cursor, next, from :
              list = items /\ page = call.page /\ cursor = call.cursor /\ next = call.next /\ from = call.seen
      OBVIOUS
    <3>6. PICK all : all = list \o page
      OBVIOUS
    <3>7. /\ list \in Seq(ListedDocs) /\ page \in Seq(ListedDocs) /\ cursor \in Nat \ {0} /\ next \in Nat
          /\ from \subseteq ListedDocs /\ seen \subseteq from
      BY <1>4, <3>1, <3>4, <3>5
    <3>8. ListIsSound(list, cursor, seen) /\ PageFollows(page, cursor, next, from)
      BY <3>2, <3>3, <3>5
    <3>9. ListIsSound(all, next, seen)
      BY <3>6, <3>7, <3>8, ListExtends
    <3>10. items' = all /\ cursorRef' = next
      BY <2>1, <3>5, <3>6
    <3> QED BY <3>9, <3>10 DEF ListIsSound, Descends, Reached
  <2> QED BY <1>5, <1>6, <1>7, <2>4, <2>5
<1> QED BY <1>10, <1>11, <1>12, <1>13

(* A reset takes the hook out of what is claimed if it meets a call.         *)
LEMMA HookIsReset ==
    ASSUME HooksInv, NEW hook \in HookNames, ResetHook(hook)
    PROVE  HooksInv'
<1> USE DEF HooksInv
<1>1. /\ latest' = [latest EXCEPT ![hook] = 0] /\ loading' = [loading EXCEPT ![hook] = FALSE]
      /\ shown' = [shown EXCEPT ![hook] = "none"]
      /\ wasReset' = IF InFlight(hook) = {} THEN wasReset ELSE wasReset \cup {hook}
      /\ UNCHANGED <<rows, hookCalls>>
  BY DEF ResetHook
<1>2. CASE hook = "documents"
  <2>1. /\ items' = <<>> /\ cursorRef' = 0 /\ listed' = [seen |-> {}, params |-> AnyDocuments]
        /\ overlapped' = (overlapped \/ InFlight(hook) # {})
    BY <1>2 DEF ResetHook
  <2>2. HookTypes'
    <3>1. <<>> \in Seq(ListedDocs)
      BY EmptySeq
    <3>2. listed' \in [seen : SUBSET ListedDocs, params : HookParams] /\ overlapped' \in BOOLEAN
      BY <2>1 DEF HookParams
    <3> QED BY <1>1, <2>1, <3>1, <3>2 DEF HookTypes
  <2>3. OneAfterAnother'
    <3>1. InFlight("documents")' = InFlight("documents")
      BY <1>1 DEF InFlight
    <3> QED BY <1>2, <2>1, <3>1 DEF OneAfterAnother
  <2>4. ListGoesOn'
    <3>1. DOMAIN items' = {}
      BY <2>1
    <3> QED BY <2>1, <3>1 DEF ListGoesOn, ListIsSound, Descends, Reached, IsInjective
  <2>5. Numbered' /\ DocumentCalls'
    <3>1. \A k : InFlight(k)' = InFlight(k)
      BY <1>1 DEF InFlight
    <3>2. ASSUME NEW k \in HookNames \ wasReset' PROVE ShowsLatest(k)'
      <4>1. k \in HookNames \ wasReset /\ ShowsLatest(k)
        BY <1>1 DEF Numbered
      <4>2. CASE k = hook
        <5>1. InFlight(k) = {}
          BY <1>1, <3>2, <4>2
        <5>2. latest'[k] = 0 /\ loading'[k] = FALSE
          BY <1>1, <4>2 DEF HookTypes
        <5> QED BY <1>1, <3>1, <5>1, <5>2 DEF ShowsLatest
      <4>3. CASE k # hook
        <5>1. latest'[k] = latest[k] /\ loading'[k] = loading[k] /\ shown'[k] = shown[k]
          BY <1>1, <4>1, <4>3 DEF HookTypes
        <5> QED BY <1>1, <3>1, <4>1, <5>1 DEF ShowsLatest
      <4> QED BY <4>2, <4>3
    <3> QED BY <1>1, <3>2 DEF Numbered, DocumentCalls, PageIsSound, Descends, Reached
  <2> QED BY <2>2, <2>3, <2>4, <2>5
<1>3. CASE hook # "documents"
  <2>1. UNCHANGED <<items, cursorRef, listed, overlapped>>
    BY <1>3 DEF ResetHook
  <2>2. HookTypes'
    BY <1>1, <2>1 DEF HookTypes
  <2>3. \A k : InFlight(k)' = InFlight(k)
    BY <1>1 DEF InFlight
  <2>4. latest'["documents"] = latest["documents"]
    BY <1>1, <1>3 DEF HookTypes, HookNames
  <2>5. OneAfterAnother' /\ ListGoesOn' /\ DocumentCalls'
    BY <1>1, <2>1, <2>3, <2>4
       DEF OneAfterAnother, ListGoesOn, ListIsSound, DocumentCalls, PageIsSound, Descends, Reached
  <2>6. ASSUME NEW k \in HookNames \ wasReset' PROVE ShowsLatest(k)'
    <3>1. k \in HookNames \ wasReset /\ ShowsLatest(k)
      BY <1>1 DEF Numbered
    <3>2. CASE k = hook
      <4>1. InFlight(k) = {}
        BY <1>1, <2>6, <3>2
      <4>2. latest'[k] = 0 /\ loading'[k] = FALSE
        BY <1>1, <3>2 DEF HookTypes
      <4> QED BY <1>1, <2>3, <4>1, <4>2 DEF ShowsLatest
    <3>3. CASE k # hook
      <4>1. latest'[k] = latest[k] /\ loading'[k] = loading[k] /\ shown'[k] = shown[k]
        BY <1>1, <3>1, <3>3 DEF HookTypes
      <4> QED BY <1>1, <2>3, <3>1, <4>1 DEF ShowsLatest
    <3> QED BY <3>2, <3>3
  <2> QED BY <2>2, <2>5, <2>6 DEF Numbered
<1> QED BY <1>2, <1>3

(* A new document changes no list there is.                                  *)
LEMMA DocumentAdded ==
    ASSUME HooksInv, AddDocument
    PROVE  HooksInv'
<1> USE DEF HooksInv
<1>1. rows \subseteq rows' /\ rows' \subseteq ListedDocs
  BY DEF AddDocument, HookTypes
<1>2. UNCHANGED <<latest, loading, shown, items, cursorRef, hookCalls, listed, overlapped, wasReset>>
  BY DEF AddDocument
<1>3. HookTypes'
  BY <1>1, <1>2 DEF HookTypes
<1>4. Numbered'
  BY <1>2 DEF Numbered, ShowsLatest, InFlight
<1>5. DocumentCalls'
  BY <1>1, <1>2 DEF DocumentCalls, PageIsSound, Descends, Reached
<1>6. OneAfterAnother'
  BY <1>1, <1>2 DEF OneAfterAnother, InFlight
<1>7. ListGoesOn'
  BY <1>2 DEF ListGoesOn, ListIsSound, Descends, Reached
<1> QED BY <1>3, <1>4, <1>5, <1>6, <1>7

(* The inductive invariant of the hooks.                                     *)
LEMMA HooksInvariant == HooksSpec => []HooksInv
<1>1. HooksInit => HooksInv
  <2> SUFFICES ASSUME HooksInit PROVE HooksInv
    OBVIOUS
  <2>1. \A c \in HookCalls : hookCalls[c] = NoCall
    BY DEF HooksInit
  <2>2. \A k : InFlight(k) = {}
    BY <2>1 DEF InFlight, NoCall
  <2>3. HookTypes
    <3>1. <<>> \in Seq(ListedDocs) /\ [c \in HookCalls |-> NoCall] \in [HookCalls -> HookCallRecords]
      BY EmptySeq, NoCallIsOne
    <3>2. listed \in [seen : SUBSET ListedDocs, params : HookParams]
      BY DEF HooksInit, HookParams
    <3>3. rows \subseteq ListedDocs
      BY HooksAssumption DEF HooksInit
    <3> QED BY <3>1, <3>2, <3>3 DEF HooksInit, HookTypes
  <2>4. Numbered
    BY <2>2 DEF HooksInit, Numbered, ShowsLatest
  <2>5. DocumentCalls
    BY <2>1 DEF DocumentCalls, NoCall
  <2>6. OneAfterAnother
    BY <2>2 DEF HooksInit, OneAfterAnother
  <2>7. ListGoesOn
    <3>1. DOMAIN items = {}
      BY DEF HooksInit
    <3> QED BY <3>1 DEF HooksInit, ListGoesOn, ListIsSound, Descends, IsInjective
  <2> QED BY <2>3, <2>4, <2>5, <2>6, <2>7 DEF HooksInv
<1>2. HooksInv /\ [HooksNext]_hookVars => HooksInv'
  <2> SUFFICES ASSUME HooksInv, [HooksNext]_hookVars PROVE HooksInv'
    OBVIOUS
  <2>1. ASSUME NEW c \in HookCalls, ListDocuments(c) PROVE HooksInv'
    <3>1. PICK params \in ListParams : Begin(c, "documents", "list", 0, params)
      BY <2>1 DEF ListDocuments
    <3>2. params \in HookParams /\ "documents" \in HookNames /\ "list" \in DocumentOps
      BY DEF HookParams, HookNames, DocumentOps
    <3> QED BY <3>1, <3>2, CallBegins
  <2>2. ASSUME NEW c \in HookCalls, LoadMore(c) PROVE HooksInv'
    <3>1. cursorRef # 0 /\ cursorRef \in Nat /\ Begin(c, "documents", "loadMore", cursorRef, AnyDocuments)
      BY <2>2 DEF LoadMore, HooksInv, HookTypes
    <3>2. /\ AnyDocuments \in HookParams /\ AnyDocuments.status = "any"
          /\ "documents" \in HookNames /\ "loadMore" \in DocumentOps
      BY DEF HookParams, HookNames, DocumentOps, AnyDocuments
    <3>3. PICK cursor \in Nat : cursor = cursorRef
      BY <3>1
    <3>4. cursor # 0 /\ Begin(c, "documents", "loadMore", cursor, AnyDocuments)
      BY <3>1, <3>3
    <3> QED BY <3>2, <3>3, <3>4, CallBegins
  <2>3. ASSUME NEW c \in HookCalls, SearchMemory(c) \/ FetchStatus(c) \/ SyncConnector(c) PROVE HooksInv'
    <3>1. PICK hook \in {"search", "connectors"}, op \in {"search", "fetchStatus", "sync"} :
              Begin(c, hook, op, 0, AnyDocuments)
      BY <2>3 DEF SearchMemory, FetchStatus, SyncConnector
    <3>2. /\ AnyDocuments \in HookParams /\ hook \in HookNames /\ hook # "documents" /\ op \notin DocumentOps
          /\ op # "list" /\ op # "loadMore"
      BY DEF HookParams, HookNames, DocumentOps
    <3> QED BY <3>1, <3>2, CallBegins
  <2>4. ASSUME NEW c \in HookCalls, Serve(c) \/ Settle(c) \/ CallFails(c) PROVE HooksInv'
    BY <2>4, CallIsServed, CallIsSettled, CallFailed
  <2>5. ASSUME NEW hook \in HookNames, ResetHook(hook) PROVE HooksInv'
    BY <2>5, HookIsReset
  <2>6. CASE AddDocument
    BY <2>6, DocumentAdded
  <2>7. CASE UNCHANGED hookVars
    BY <2>7 DEF hookVars, HooksInv, HookTypes, Numbered, ShowsLatest, InFlight, DocumentCalls, PageIsSound,
                OneAfterAnother, ListGoesOn, ListIsSound, Descends, Reached
  <2> QED BY <2>1, <2>2, <2>3, <2>4, <2>5, <2>6, <2>7 DEF HooksNext
<1> QED BY <1>1, <1>2, PTL DEF HooksSpec

(* Each hook shows what its latest call answered, or waits for it, and the   *)
(* pages loaded one after the other while documents are added are one list,  *)
(* in order, with nothing twice and nothing left out but ties: useDocuments,  *)
(* useMemorySearch and useConnectorStatus over listDocuments.               *)
THEOREM ListsStaySound == HooksSpec => []ListsAreSound
<1>1. HooksInv => LatestIsShown
  <2> SUFFICES ASSUME HooksInv, NEW hook \in HookNames \ wasReset
               PROVE  /\ loading[hook] <=> \E c \in InFlight(hook) : IsLatest(hookCalls[c])
                      /\ ~loading[hook] /\ latest[hook] # 0 =>
                             shown[hook] \in HookCalls /\ hookCalls[shown[hook]].id = latest[hook]
    BY DEF LatestIsShown
  <2>1. ShowsLatest(hook)
    BY DEF HooksInv, Numbered
  <2>2. \A c \in InFlight(hook) : IsLatest(hookCalls[c]) <=> hookCalls[c].id = latest[hook]
    BY DEF InFlight, IsLatest
  <2> QED BY <2>1, <2>2 DEF ShowsLatest
<1>2. HooksInv => PagesAreOneList
  <2> SUFFICES ASSUME HooksInv, ~overlapped, listed.params.status = "any"
               PROVE  /\ IsInjective(items)
                      /\ \A i \in 1..Len(items) - 1 : CreatedAt[items[i]] >= CreatedAt[items[i + 1]]
                      /\ \A d \in listed.seen \ ToSet(items) :
                             \/ CreatedAt[d] < cursorRef
                             \/ \E i \in DOMAIN items : CreatedAt[d] = CreatedAt[items[i]]
    BY DEF PagesAreOneList
  <2>1. ListIsSound(items, cursorRef, listed.seen)
    BY DEF HooksInv, ListGoesOn
  <2>2. Len(items) \in Nat /\ DOMAIN items = 1..Len(items)
    BY LenProperties DEF HooksInv, HookTypes
  <2>3. \A i \in 1..Len(items) - 1 : i \in DOMAIN items /\ i + 1 \in DOMAIN items /\ i <= i + 1
    BY <2>2
  <2> QED BY <2>1, <2>3 DEF ListIsSound, Descends, Reached
<1> QED BY <1>1, <1>2, HooksInvariant, PTL DEF ListsAreSound

-----------------------------------------------------------------------------
(* A hook numbers no more calls than have begun, and its cursors are times at *)
(* which documents were created.                                            *)
IsCursor(time) == time \in {0} \cup {CreatedAt[d] : d \in ListedDocs}
Begun == {c \in HookCalls : hookCalls[c].pc # "idle"}
CursorsAreTimes == IsCursor(cursorRef) /\ \A c \in HookCalls : IsCursor(hookCalls[c].next)
NumbersAreOfCalls == \A hook \in HookNames : latest[hook] <= Cardinality(Begun)

LEMMA CursorsStayTimes ==
    ASSUME HooksInv, CursorsAreTimes, [HooksNext]_hookVars
    PROVE  CursorsAreTimes'
<1>0. hookCalls \in [HookCalls -> HookCallRecords] /\ IsCursor(0)
  BY DEF HooksInv, HookTypes, IsCursor
<1>1. ASSUME NEW c \in HookCalls, NEW r, hookCalls' = [hookCalls EXCEPT ![c] = r], IsCursor(r.next),
             cursorRef' \in {cursorRef, hookCalls[c].next}
      PROVE  CursorsAreTimes'
  <2>1. hookCalls'[c] = r /\ \A d \in HookCalls \ {c} : hookCalls'[d] = hookCalls[d]
    BY <1>0, <1>1
  <2>2. IsCursor(cursorRef')
    BY <1>1 DEF CursorsAreTimes
  <2> QED BY <1>1, <2>1, <2>2 DEF CursorsAreTimes
<1>2. ASSUME NEW c \in HookCalls, NEW hook, NEW op, NEW cursor, NEW params, Begin(c, hook, op, cursor, params)
      PROVE  CursorsAreTimes'
  <2>1. PICK r : r = [NoCall EXCEPT !.pc = "asked", !.hook = hook, !.op = op, !.id = latest[hook] + 1,
                                    !.cursor = cursor, !.params = params]
    OBVIOUS
  <2>2. r.next = 0
    BY <2>1 DEF NoCall
  <2>3. hookCalls' = [hookCalls EXCEPT ![c] = r] /\ cursorRef' = cursorRef
    BY <1>2, <2>1, Zenon DEF Begin
  <2> QED BY <1>0, <1>1, <2>2, <2>3
<1>3. ASSUME NEW c \in HookCalls,
             ListDocuments(c) \/ LoadMore(c) \/ SearchMemory(c) \/ FetchStatus(c) \/ SyncConnector(c)
      PROVE  CursorsAreTimes'
  BY <1>2, <1>3 DEF ListDocuments, LoadMore, SearchMemory, FetchStatus, SyncConnector
<1>4. ASSUME NEW c \in HookCalls, Serve(c) PROVE CursorsAreTimes'
  <2>0. PICK call \in HookCallRecords : call = hookCalls[c]
    BY <1>0
  <2>1. ASSUME NEW seq \in InOrder(Selected(call))
        PROVE  IsCursor(NextCursor(seq, call.params.limit))
    <3>1. PICK set : set = Selected(call)
      OBVIOUS
    <3>2. set \subseteq ListedDocs /\ IsFiniteSet(set)
      BY <3>1, HooksAssumption, FS_Subset DEF Selected, HooksInv, HookTypes
    <3>3. Cardinality(set) \in Nat
      BY <3>2, FS_CardinalityType
    <3>4. seq \in [1..Cardinality(set) -> set]
      BY <3>1 DEF InOrder
    <3>5. Len(seq) = Cardinality(set)
      BY <3>3, <3>4, IsASeq, LenProperties
    <3>6. PICK limit \in Nat \ {0} : limit = call.params.limit
      <4>1. call.params \in ListParams \/ call.params = AnyDocuments
        BY DEF HookCallRecords, HookParams
      <4>2. AnyDocuments.limit = DefaultLimit
        BY DEF AnyDocuments
      <4> QED BY <4>1, <4>2, HooksAssumption
    <3>7. CASE Len(seq) > limit
      <4>1. limit \in 1..Cardinality(set)
        BY <3>3, <3>5, <3>7
      <4>2. seq[limit] \in ListedDocs
        BY <3>2, <3>4, <4>1
      <4> QED BY <3>6, <3>7, <4>2 DEF NextCursor, IsCursor
    <3> QED BY <1>0, <3>6, <3>7 DEF NextCursor
  <2>2. CASE call.hook = "documents"
    <3>1. PICK seq \in InOrder(Selected(call)) :
              hookCalls' = [hookCalls EXCEPT ![c] =
                  [call EXCEPT !.pc = "served", !.seen = rows, !.page = Page(seq, call.params.limit),
                               !.next = NextCursor(seq, call.params.limit)]]
      BY <1>4, <2>0, <2>2 DEF Serve
    <3>2. PICK r : r = [call EXCEPT !.pc = "served", !.seen = rows, !.page = Page(seq, call.params.limit),
                                    !.next = NextCursor(seq, call.params.limit)]
      OBVIOUS
    <3>3. r.next = NextCursor(seq, call.params.limit)
      BY <3>2 DEF HookCallRecords
    <3>4. hookCalls' = [hookCalls EXCEPT ![c] = r] /\ cursorRef' = cursorRef
      BY <1>4, <3>1, <3>2, Zenon DEF Serve
    <3> QED BY <1>1, <2>1, <3>3, <3>4
  <2>3. CASE call.hook # "documents"
    <3>1. PICK r : r = [call EXCEPT !.pc = "served"]
      OBVIOUS
    <3>2. r.next = call.next
      BY <3>1 DEF HookCallRecords
    <3>3. hookCalls' = [hookCalls EXCEPT ![c] = r] /\ cursorRef' = cursorRef
      BY <1>4, <2>0, <2>3, <3>1 DEF Serve
    <3>4. IsCursor(call.next)
      BY <2>0 DEF CursorsAreTimes
    <3> QED BY <1>1, <3>2, <3>3, <3>4
  <2> QED BY <2>2, <2>3
<1>5. ASSUME NEW c \in HookCalls, Settle(c) \/ CallFails(c) PROVE CursorsAreTimes'
  <2>1. PICK r : r = [NoCall EXCEPT !.pc = "over", !.id = hookCalls[c].id]
    OBVIOUS
  <2>2. r.next = 0
    BY <2>1 DEF NoCall
  <2>3. hookCalls' = [hookCalls EXCEPT ![c] = r]
    BY <1>5, <2>1, Zenon DEF Settle, CallFails
  <2>4. cursorRef' \in {cursorRef, hookCalls[c].next}
    BY <1>5 DEF Settle, CallFails
  <2> QED BY <1>0, <1>1, <2>2, <2>3, <2>4
<1>6. ASSUME NEW hook \in HookNames, ResetHook(hook) PROVE CursorsAreTimes'
  BY <1>0, <1>6 DEF ResetHook, CursorsAreTimes
<1>7. CASE AddDocument \/ UNCHANGED hookVars
  BY <1>7 DEF AddDocument, hookVars, CursorsAreTimes
<1> QED BY <1>3, <1>4, <1>5, <1>6, <1>7 DEF HooksNext

LEMMA NumbersStayOfCalls ==
    ASSUME HooksInv, NumbersAreOfCalls, [HooksNext]_hookVars
    PROVE  NumbersAreOfCalls'
<1>0. /\ hookCalls \in [HookCalls -> HookCallRecords] /\ latest \in [HookNames -> Nat]
  BY DEF HooksInv, HookTypes
<1>1. PICK begun \in SUBSET HookCalls : begun = Begun
  BY DEF Begun
<1>2. PICK more \in SUBSET HookCalls : more = {c \in HookCalls : hookCalls'[c].pc # "idle"}
  OBVIOUS
<1>3. NumbersAreOfCalls' <=> \A hook \in HookNames : latest'[hook] <= Cardinality(more)
  BY <1>2 DEF NumbersAreOfCalls, Begun
<1>4. \A hook \in HookNames : latest[hook] \in Nat /\ latest[hook] <= Cardinality(begun)
  BY <1>0, <1>1 DEF NumbersAreOfCalls
<1>5. /\ IsFiniteSet(begun) /\ IsFiniteSet(more)
      /\ Cardinality(begun) \in Nat /\ Cardinality(more) \in Nat
  BY HooksAssumption, FS_Subset, FS_CardinalityType
<1>6. ASSUME begun \subseteq more, \A hook \in HookNames : latest'[hook] \in {0, latest[hook]}
      PROVE  NumbersAreOfCalls'
  <2>1. Cardinality(begun) <= Cardinality(more)
    BY <1>5, <1>6, FS_Subset
  <2> QED BY <1>3, <1>4, <1>5, <1>6, <2>1
<1>7. ASSUME NEW c \in HookCalls, NEW r, hookCalls' = [hookCalls EXCEPT ![c] = r], r.pc # "idle"
      PROVE  more = begun \cup {c}
  BY <1>0, <1>1, <1>2, <1>7 DEF Begun
<1>8. ASSUME NEW c \in HookCalls, NEW hook \in HookNames, NEW op, NEW cursor, NEW params,
             Begin(c, hook, op, cursor, params)
      PROVE  NumbersAreOfCalls'
  <2>1. PICK r : r = [NoCall EXCEPT !.pc = "asked", !.hook = hook, !.op = op, !.id = latest[hook] + 1,
                                    !.cursor = cursor, !.params = params]
    OBVIOUS
  <2>2. r.pc = "asked"
    BY <2>1 DEF NoCall
  <2>3. /\ hookCalls' = [hookCalls EXCEPT ![c] = r] /\ hookCalls[c].pc = "idle"
        /\ latest' = [latest EXCEPT ![hook] = latest[hook] + 1]
    BY <1>8, <2>1, Zenon DEF Begin
  <2>4. more = begun \cup {c} /\ c \notin begun
    BY <1>1, <1>7, <2>2, <2>3 DEF Begun
  <2>5. Cardinality(more) = Cardinality(begun) + 1
    BY <1>5, <2>4, FS_AddElement
  <2>6. \A k \in HookNames : latest'[k] \in {latest[k], latest[k] + 1}
    BY <1>0, <2>3
  <2> QED BY <1>3, <1>4, <1>5, <2>5, <2>6
<1>9. ASSUME NEW c \in HookCalls,
             ListDocuments(c) \/ LoadMore(c) \/ SearchMemory(c) \/ FetchStatus(c) \/ SyncConnector(c)
      PROVE  NumbersAreOfCalls'
  <2>1. {"documents", "search", "connectors"} = HookNames
    BY DEF HookNames
  <2> QED BY <1>8, <1>9, <2>1 DEF ListDocuments, LoadMore, SearchMemory, FetchStatus, SyncConnector
<1>10. ASSUME NEW c \in HookCalls, Serve(c) PROVE NumbersAreOfCalls'
  <2>1. PICK call \in HookCallRecords : call = hookCalls[c]
    BY <1>0
  <2>2. \E r : hookCalls' = [hookCalls EXCEPT ![c] = r] /\ r.pc = "served"
    <3>1. CASE call.hook = "documents"
      <4>1. PICK seq \in InOrder(Selected(call)) :
                hookCalls' = [hookCalls EXCEPT ![c] =
                    [call EXCEPT !.pc = "served", !.seen = rows, !.page = Page(seq, call.params.limit),
                                 !.next = NextCursor(seq, call.params.limit)]]
        BY <1>10, <2>1, <3>1 DEF Serve
      <4>2. PICK r : r = [call EXCEPT !.pc = "served", !.seen = rows, !.page = Page(seq, call.params.limit),
                                      !.next = NextCursor(seq, call.params.limit)]
        OBVIOUS
      <4>3. r.pc = "served"
        BY <4>2 DEF HookCallRecords
      <4>4. hookCalls' = [hookCalls EXCEPT ![c] = r]
        BY <4>1, <4>2, Zenon
      <4> QED BY <4>3, <4>4
    <3>2. CASE call.hook # "documents"
      <4>1. PICK r : r = [call EXCEPT !.pc = "served"]
        OBVIOUS
      <4>2. r.pc = "served"
        BY <4>1 DEF HookCallRecords
      <4>3. hookCalls' = [hookCalls EXCEPT ![c] = r]
        BY <1>10, <2>1, <3>2, <4>1 DEF Serve
      <4> QED BY <4>2, <4>3
    <3> QED BY <3>1, <3>2
  <2>3. latest' = latest
    BY <1>10 DEF Serve
  <2> QED BY <1>6, <1>7, <2>2, <2>3
<1>11. ASSUME NEW c \in HookCalls, Settle(c) \/ CallFails(c) PROVE NumbersAreOfCalls'
  <2>1. PICK r : r = [NoCall EXCEPT !.pc = "over", !.id = hookCalls[c].id]
    OBVIOUS
  <2>2. r.pc = "over"
    BY <2>1 DEF NoCall
  <2>3. hookCalls' = [hookCalls EXCEPT ![c] = r] /\ latest' = latest
    BY <1>11, <2>1, Zenon DEF Settle, CallFails
  <2> QED BY <1>6, <1>7, <2>2, <2>3
<1>12. ASSUME NEW hook \in HookNames, ResetHook(hook) PROVE NumbersAreOfCalls'
  <2>1. hookCalls' = hookCalls /\ latest' = [latest EXCEPT ![hook] = 0]
    BY <1>12 DEF ResetHook
  <2>2. begun \subseteq more
    BY <1>1, <1>2, <2>1 DEF Begun
  <2>3. \A k \in HookNames : latest'[k] \in {0, latest[k]}
    BY <1>0, <2>1
  <2> QED BY <1>6, <2>2, <2>3
<1>13. CASE AddDocument \/ UNCHANGED hookVars
  <2>1. hookCalls' = hookCalls /\ latest' = latest
    BY <1>13 DEF AddDocument, hookVars
  <2>2. begun \subseteq more
    BY <1>1, <1>2, <2>1 DEF Begun
  <2> QED BY <1>6, <2>1, <2>2
<1> QED BY <1>9, <1>10, <1>11, <1>12, <1>13 DEF HooksNext

(* The hooks: numbers, lists and cursors stay of calls and of documents.     *)
THEOREM HooksTypeCorrect == HooksSpec => []HooksTypeOK
<1>1. HooksInit => CursorsAreTimes /\ NumbersAreOfCalls
  <2> SUFFICES ASSUME HooksInit PROVE CursorsAreTimes /\ NumbersAreOfCalls
    OBVIOUS
  <2>1. \A c \in HookCalls : hookCalls[c] = NoCall
    BY DEF HooksInit
  <2>2. Begun = {}
    BY <2>1 DEF Begun, NoCall
  <2>3. CursorsAreTimes
    BY <2>1 DEF HooksInit, CursorsAreTimes, NoCall, IsCursor
  <2> QED BY <2>2, <2>3, FS_EmptySet DEF HooksInit, NumbersAreOfCalls
<1>2. HooksInv /\ CursorsAreTimes /\ NumbersAreOfCalls => HooksTypeOK
  <2> SUFFICES ASSUME HooksInv, CursorsAreTimes, NumbersAreOfCalls PROVE HooksTypeOK
    OBVIOUS
  <2>1. PICK begun \in SUBSET HookCalls : begun = Begun
    BY DEF Begun
  <2>2. Cardinality(begun) <= Cardinality(HookCalls) /\ Cardinality(begun) \in Nat /\ Cardinality(HookCalls) \in Nat
    BY HooksAssumption, FS_Subset, FS_CardinalityType
  <2>3. latest \in [HookNames -> Nat] /\ \A hook \in HookNames : latest[hook] <= Cardinality(begun)
    BY <2>1 DEF HooksInv, HookTypes, NumbersAreOfCalls
  <2>4. \A hook \in HookNames : latest[hook] \in 0..Cardinality(HookCalls)
    BY <2>2, <2>3
  <2>5. latest \in [HookNames -> 0..Cardinality(HookCalls)]
    BY <2>3, <2>4
  <2>6. ToSet(items) \subseteq ListedDocs
    BY ElementOfSeq DEF HooksInv, HookTypes, ToSet
  <2>7. \A c \in HookCalls : hookCalls[c].pc \in {"idle", "asked", "served", "over"}
    BY DEF HooksInv, HookTypes, HookCallRecords
  <2> QED BY <2>5, <2>6, <2>7 DEF HooksTypeOK, HooksInv, HookTypes, CursorsAreTimes, IsCursor
<1> QED BY <1>1, <1>2, HooksInvariant, CursorsStayTimes, NumbersStayOfCalls, PTL DEF HooksSpec

-----------------------------------------------------------------------------
(***************************************************************************)
(* The composition of MCPlatform.  As in MCWorkers one part moves in each   *)
(* behaviour, and every step is a step of each part or leaves it alone.     *)
(***************************************************************************)
LEMMA PlatformPartsGoOn ==
    ASSUME [MCNext]_MCVars
    PROVE  /\ [SyncNext]_syncVars /\ [OAuthNext]_oauthVars /\ [ModelNext]_modelVars
           /\ [RetrievalNext]_retrievalVars /\ [GatewayNext]_gatewayVars /\ [HooksNext]_hookVars
<1>1. CASE UNCHANGED MCVars
  BY <1>1, Zenon DEF MCVars
<1>2. CASE MCNext
  <2>1. RetrievalFocus => RetrievalNext
    BY Zenon DEF RetrievalFocus, RetrievalNext
  <2> QED BY <1>2, <2>1, Zenon DEF MCNext
<1> QED BY <1>1, <1>2

(* Every part of the platform's edge keeps its types, whichever moves.       *)
THEOREM PlatformTypeCorrect == MCSpec => []PlatformTypeOK
<1>1. MCInit => /\ SyncInit /\ OAuthInit /\ ModelInit /\ RetrievalInit /\ GatewayInit
                /\ HooksInit
  BY DEF MCInit
<1> QED
  BY <1>1, PlatformPartsGoOn, SyncTypeCorrect, OAuthTypeCorrect, ModelTypeCorrect,
     RetrievalTypeCorrect, GatewayTypeCorrect, HooksTypeCorrect, PTL
  DEF MCSpec, SyncSpec, OAuthSpec, ModelSpec, RetrievalSpec, GatewaySpec, HooksSpec, PlatformTypeOK
=============================================================================
