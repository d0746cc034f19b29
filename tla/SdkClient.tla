------------------------------ MODULE SdkClient ------------------------------
(***************************************************************************)
(* documents.add() of sdks/typescript, through the api-gateway's proxy: one *)
(* call of the SDK makes up to MaxRetries + 1 HTTP requests, each of which  *)
(* the gateway forwards to the ingestion service.  The gateway gives up on  *)
(* the service after its timeout and answers 500, while the service goes on *)
(* with the request; the SDK retries a POST as it retries anything else.    *)
(***************************************************************************)
EXTENDS IngestionService

CONSTANTS
    Calls,       \* documents.add() calls
    MaxRetries   \* ClientConfig.maxRetries

VARIABLES
    call,        \* idle, waiting, backoff, ok or failed
    attempt      \* the attempt each call is at

sdkVars == <<call, attempt>>

SdkAssumption ==
    /\ MaxRetries \in Nat
    /\ Requests = Calls \X (0..MaxRetries)

ASSUME SdkConstants == SdkAssumption

CallStates == {"idle", "waiting", "backoff", "ok", "failed"}

SdkTypeOK ==
    /\ call \in [Calls -> CallStates]
    /\ attempt \in [Calls -> 0..MaxRetries]

SdkInit ==
    /\ call = [c \in Calls |-> "idle"]
    /\ attempt = [c \in Calls |-> 0]

(* The request a call is waiting for.                                       *)
Current(c) == <<c, attempt[c]>>

RetryableStatusCodes == {"429", "500"}

SetCall(c, state) == call' = [call EXCEPT ![c] = state]

-----------------------------------------------------------------------------
(* request(): the first attempt.                                            *)
Send(c) ==
    /\ call[c] = "idle"
    /\ SetCall(c, "waiting")
    /\ Advance(Current(c), "sent")
    /\ UNCHANGED <<attempt, malformed, documents, quota, channel, counted, faults>>

(* The gateway does not get through to the service: its rate limiter        *)
(* answers 429, or the service refuses the connection and the error handler *)
(* answers 500.                                                             *)
Refuse(r, status) ==
    /\ stage[r] = "sent"
    /\ status \in {"429", "500"}
    /\ Advance(r, status)
    /\ UNCHANGED <<sdkVars, malformed, documents, quota, channel, counted, faults>>

(* Mutant: the last attempt backs off as well.                              *)
AnsweredAlwaysRetry(c, status) ==
    SetCall(c, IF status = "201" THEN "ok"
               ELSE IF status \in RetryableStatusCodes THEN "backoff"
               ELSE "failed")

(* What the SDK does with a status: return, back off, or throw.             *)
Answered(c, status) ==
    SetCall(c, IF status = "201" THEN "ok"
               ELSE IF status \in RetryableStatusCodes /\ attempt[c] < MaxRetries
               THEN "backoff" ELSE "failed")

(* The gateway passes the status of the service on.                         *)
Answer(c) ==
    /\ call[c] = "waiting" /\ stage[Current(c)] \in Statuses
    /\ Answered(c, stage[Current(c)])
    /\ UNCHANGED <<attempt, svcVars>>

(* The gateway's timer aborts its fetch: 500, and the request goes on.      *)
GatewayTimesOut(c) ==
    /\ call[c] = "waiting" /\ stage[Current(c)] \in Working
    /\ Answered(c, "500")
    /\ UNCHANGED <<attempt, svcVars>>

(* The SDK's own timer: NetworkError, which is not retried.                 *)
ClientTimesOut(c) ==
    /\ call[c] = "waiting"
    /\ SetCall(c, "failed")
    /\ UNCHANGED <<attempt, svcVars>>

(* The delay is over: executeWithRetry(attempt + 1) with the same body.     *)
Retry(c) ==
    /\ call[c] = "backoff" /\ attempt[c] < MaxRetries
    /\ SetCall(c, "waiting")
    /\ attempt' = [attempt EXCEPT ![c] = @ + 1]
    /\ Advance(<<c, attempt[c] + 1>>, "sent")
    /\ UNCHANGED <<malformed, documents, quota, channel, counted, faults>>

CallStep(c) ==
    \/ Send(c) \/ Answer(c) \/ GatewayTimesOut(c) \/ ClientTimesOut(c) \/ Retry(c)
=============================================================================
