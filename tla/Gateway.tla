------------------------------- MODULE Gateway -------------------------------
(***************************************************************************)
(* services/api-gateway: what happens to a request (index.ts): the body is    *)
(* parsed, the credentials are looked at (middleware/auth.ts), the request is *)
(* counted (middleware/ratelimit.ts), checked and forwarded (routes/,         *)
(* proxy.ts), and every error is given a status (middleware/error-handler.ts). *)
(* All of it up to the forwarded call runs in one turn of the event loop.    *)
(*                                                                         *)
(* A credential is abstracted to what the middleware looks at in it: a bearer *)
(* token is <<>> or [verifies, sub, workspace], a key <<>> or [long,          *)
(* workspace], where "" is a claim or a part that is not there.              *)
(***************************************************************************)
EXTENDS Integers, Sequences, FiniteSets

CONSTANTS
    GatewayRequests,  \* requests: [route, body, token, key]
    LimitOf,          \* LimitOf[route]: [name, max] of the limit that applies to its path
    WindowMs,         \* windowMs
    RepliesOf,        \* RepliesOf[service]: the status codes it may answer with
    MaxGatewayCalls, MaxGatewayClock, MaxGatewayRestarts

UpstreamServices == {"ingestion", "retrieval", "retrieval, unknown path", "connector"}

(* What has the same name has the same limit: a name is that of one entry of *)
(* the configuration, or a path that has the global limit.                  *)
ASSUME GatewayAssumption ==
    /\ \A route \in DOMAIN LimitOf : LimitOf[route].max \in Nat \ {0}
    /\ \A r1, r2 \in DOMAIN LimitOf :
           LimitOf[r1].name = LimitOf[r2].name => LimitOf[r1].max = LimitOf[r2].max
    /\ \A request \in GatewayRequests : request.route \in DOMAIN LimitOf
    /\ RepliesOf \in [UpstreamServices -> SUBSET (200..599)]
    /\ WindowMs \in Nat \ {0}
    /\ MaxGatewayCalls \in Nat /\ MaxGatewayClock \in Nat /\ MaxGatewayRestarts \in Nat

VARIABLES
    limits,           \* the store: key -> [count, resetAt], for the keys it has
    gatewayCalls,     \* the requests in the order they came: [key, route, at, status, from]
    gatewayClock,
    restartedAt,      \* history: how many requests came before the last restart
    gatewayRestarts

gatewayVars == <<limits, gatewayCalls, gatewayClock, restartedAt, gatewayRestarts>>

UnderWay == 0         \* the status of a forwarded request
Lost == -1            \* the process stopped before it answered

GatewayInit ==
    /\ limits = <<>>
    /\ gatewayCalls = <<>>
    /\ gatewayClock = 0
    /\ restartedAt = 0 /\ gatewayRestarts = 0

-----------------------------------------------------------------------------
(* The workspace of a request, "" if it is refused: a bearer token is looked  *)
(* at first, and the API key only if there is none.                         *)
VerifyJwtToken(token) == IF token.verifies /\ token.sub # "" THEN token.workspace ELSE ""

ApiKeyWorkspace(key) == IF key.long THEN key.workspace ELSE ""

WorkspaceOf(request) ==
    IF request.token # <<>> THEN VerifyJwtToken(request.token)
    ELSE IF request.key # <<>> THEN ApiKeyWorkspace(request.key) ELSE ""

(* The limits are kept by workspace and by the limit's name, which is the    *)
(* path itself where no route prefix has a limit of its own.                *)
LimitKey(request) == <<WorkspaceOf(request), LimitOf[request.route].name>>

(* resolveError, for the errors that are raised here.                       *)
StatusOfError(error) ==
    CASE error \in {"SyntaxError", "VALIDATION_ERROR", "MISSING_REQUIRED_FIELD"} -> 400
      [] error \in {"UNAUTHORIZED", "INVALID_API_KEY"} -> 401
      [] error = "RATE_LIMIT_EXCEEDED" -> 429
      [] OTHER -> 500

(* What a route does: it answers, or forwards the request to a service.     *)
Answered(status) == [status |-> status, from |-> "gateway"]
Forwarded(service) == [status |-> UnderWay, from |-> service]

DocumentsRoutes(request) ==
    IF request.route = "POST /v1/documents" /\ request.body = "invalid"
    THEN Answered(StatusOfError("VALIDATION_ERROR")) ELSE Forwarded("ingestion")

(* The retrieval service knows POST /internal/search, and not POST /context.  *)
SearchRoutes(request) ==
    IF request.route = "POST /v1/search"
    THEN IF request.body = "invalid" THEN Answered(StatusOfError("VALIDATION_ERROR")) ELSE Forwarded("retrieval")
    ELSE IF request.body = "invalid" THEN Answered(StatusOfError("MISSING_REQUIRED_FIELD"))
         ELSE Forwarded("retrieval, unknown path")

MemoriesRoute(request) == Forwarded("retrieval, unknown path")

ConnectorsRoute(request) == Forwarded("connector")

UsageRoute(request) == Answered(200)

Route(request) ==
    CASE request.route \in {"POST /v1/documents", "GET /v1/documents/:id"} -> DocumentsRoutes(request)
      [] request.route \in {"POST /v1/search", "POST /v1/context"} -> SearchRoutes(request)
      [] request.route = "GET /v1/memories/:id" -> MemoriesRoute(request)
      [] request.route = "POST /v1/connectors/:type/sync" -> ConnectorsRoute(request)
      [] request.route = "GET /v1/usage" -> UsageRoute(request)
      [] OTHER -> Answered(404)

Respond(request, key, answer) ==
    gatewayCalls' = Append(gatewayCalls, [key |-> key, route |-> request.route, at |-> gatewayClock,
                                          status |-> answer.status, from |-> answer.from])

CanReceive == Len(gatewayCalls) < MaxGatewayCalls

HealthRoute(request) == request.route = "GET /health"

(* A body that does not parse is refused, the health route answers, and the  *)
(* credentials are asked for: nothing is counted yet.                       *)
AnswerUncounted ==
    /\ CanReceive
    /\ \E request \in GatewayRequests :
        \/ request.body = "broken" /\ Respond(request, <<>>, Answered(StatusOfError("SyntaxError")))
        \/ request.body # "broken" /\ HealthRoute(request) /\ Respond(request, <<>>, Answered(200))
        \/ /\ request.body # "broken" /\ ~HealthRoute(request) /\ WorkspaceOf(request) = ""
           /\ Respond(request, <<>>, Answered(StatusOfError("UNAUTHORIZED")))
    /\ UNCHANGED <<limits, gatewayClock, restartedAt, gatewayRestarts>>

Counted(request) == request.body # "broken" /\ ~HealthRoute(request) /\ WorkspaceOf(request) # ""

(* The window of a key starts with the first request after the last one.    *)
Expired(key) == key \notin DOMAIN limits \/ limits[key].resetAt <= gatewayClock

(* Mutant: every request counted starts the window anew.                    *)
BucketSliding(key) ==
    [count |-> IF Expired(key) THEN 1 ELSE limits[key].count + 1, resetAt |-> gatewayClock + WindowMs]

Bucket(key) ==
    IF Expired(key) THEN [count |-> 1, resetAt |-> gatewayClock + WindowMs]
                    ELSE [limits[key] EXCEPT !.count = @ + 1]

Count(key) ==
    limits' = [k \in DOMAIN limits \cup {key} |-> IF k = key THEN Bucket(key) ELSE limits[k]]

Exceeds(request) == ~Expired(LimitKey(request)) /\ Bucket(LimitKey(request)).count > LimitOf[request.route].max

(* Too many requests: it is counted all the same.                           *)
RefuseExceeding ==
    /\ CanReceive
    /\ \E request \in GatewayRequests :
        /\ Counted(request) /\ Exceeds(request)
        /\ Count(LimitKey(request))
        /\ Respond(request, LimitKey(request), Answered(StatusOfError("RATE_LIMIT_EXCEEDED")))
    /\ UNCHANGED <<gatewayClock, restartedAt, gatewayRestarts>>

Admit ==
    /\ CanReceive
    /\ \E request \in GatewayRequests :
        /\ Counted(request) /\ ~Exceeds(request)
        /\ Count(LimitKey(request))
        /\ Respond(request, LimitKey(request), Route(request))
    /\ UNCHANGED <<gatewayClock, restartedAt, gatewayRestarts>>

(* The service's status is passed on; a timeout or a failure is an error.    *)
ServiceReplies ==
    /\ \E n \in DOMAIN gatewayCalls :
        /\ gatewayCalls[n].status = UnderWay
        /\ \E status \in RepliesOf[gatewayCalls[n].from] \cup {StatusOfError("INTERNAL_ERROR")} :
               gatewayCalls' = [gatewayCalls EXCEPT ![n].status = status]
    /\ UNCHANGED <<limits, gatewayClock, restartedAt, gatewayRestarts>>

(* The store drops the windows that are over, once a minute.                *)
CleanUpLimits ==
    /\ limits' = [k \in {k \in DOMAIN limits : ~Expired(k)} |-> limits[k]]
    /\ UNCHANGED <<gatewayCalls, gatewayClock, restartedAt, gatewayRestarts>>

(* The store is in memory.                                                  *)
RestartGateway ==
    /\ gatewayRestarts < MaxGatewayRestarts
    /\ limits' = <<>>
    /\ gatewayCalls' = [n \in DOMAIN gatewayCalls |->
           [gatewayCalls[n] EXCEPT !.status = IF @ = UnderWay THEN Lost ELSE @]]
    /\ restartedAt' = Len(gatewayCalls)
    /\ gatewayRestarts' = gatewayRestarts + 1
    /\ UNCHANGED gatewayClock

GatewayTick ==
    /\ gatewayClock < MaxGatewayClock
    /\ gatewayClock' = gatewayClock + 1
    /\ UNCHANGED <<limits, gatewayCalls, restartedAt, gatewayRestarts>>

GatewayNext ==
    \/ AnswerUncounted \/ RefuseExceeding \/ Admit \/ ServiceReplies
    \/ CleanUpLimits \/ RestartGateway \/ GatewayTick

GatewaySpec == GatewayInit /\ [][GatewayNext]_gatewayVars

-----------------------------------------------------------------------------
GatewayTypeOK ==
    /\ \A key \in DOMAIN limits :
           limits[key].count \in 1..MaxGatewayCalls /\ limits[key].resetAt \in 0..MaxGatewayClock + WindowMs
    /\ \A n \in DOMAIN gatewayCalls :
           gatewayCalls[n].status \in {UnderWay, Lost} \cup 200..599
    /\ gatewayClock \in 0..MaxGatewayClock
    /\ restartedAt \in 0..Len(gatewayCalls)
    /\ gatewayRestarts \in 0..MaxGatewayRestarts

(* What was let through of one key, since the process started: a service may *)
(* answer 429 of its own.                                                   *)
Refused(n) == gatewayCalls[n].status = 429 /\ gatewayCalls[n].from = "gateway"

LetThrough(key) ==
    {n \in DOMAIN gatewayCalls : gatewayCalls[n].key = key /\ ~Refused(n) /\ n > restartedAt}

MaxOf(n) == LimitOf[gatewayCalls[n].route].max

(* What was let through of the key of a call in the window before it.        *)
LetThroughBefore(n) ==
    {m \in LetThrough(gatewayCalls[n].key) : m <= n /\ gatewayCalls[n].at - gatewayCalls[m].at < WindowMs}

(* The limit is neither more nor less than it says, whatever the windows     *)
(* and the clean-ups.  A span as short as a window, which may hold the end   *)
(* of one and the start of the next, lets through less than twice the limit, *)
(* because a window starts with a request.  A request is refused only if as  *)
(* many of its key as the limit allows were let through in the window before *)
(* it, however many were refused.                                           *)
LimitIsKept ==
    \A n \in DOMAIN gatewayCalls :
        n > restartedAt /\ gatewayCalls[n].key # <<>> =>
            /\ Cardinality(LetThroughBefore(n)) < 2 * MaxOf(n)
            /\ Refused(n) => Cardinality(LetThroughBefore(n)) >= MaxOf(n)
=============================================================================
