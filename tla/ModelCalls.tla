------------------------------ MODULE ModelCalls ------------------------------
(***************************************************************************)
(* Calls of a model through packages/llm: withRateLimit and its TokenBucket *)
(* (rate-limiter.ts) around a provider (providers/chat.ts, embedding.ts),    *)
(* each with the retry of packages/shared-utils/src/retry.ts.               *)
(*                                                                         *)
(* Time is a clock of milliseconds.  A token is counted as Interval units,   *)
(* so that a millisecond refills MaxRequests of them and every amount is an  *)
(* integer.  A timer may fire late, and never early.                        *)
(***************************************************************************)
EXTENDS Integers, Sequences, FiniteSets, SequencesExt

CONSTANTS
    ModelCallers,     \* calls of one wrapped function
    ProviderOf,       \* ProviderOf[c]: "openai chat", "anthropic chat", "embedding", "embeddings"
    Streams,          \* calls of streamChat, which cannot be wrapped
    Conversation,     \* the messages, or the texts, of a call: a sequence of [role, text]
    MaxRequests,      \* maxRequests
    Interval,         \* intervalMs
    MaxConcurrent,    \* maxConcurrent
    WrapRetries,      \* maxRetries of withRateLimit, 2 by default
    ProviderRetries,  \* maxRetries of the provider, 3 by default
    BaseDelay,        \* baseDelayMs
    MaxDelay,         \* maxDelayMs
    Replies,          \* the status codes the provider may answer with
    MaxPieces,        \* the longest stream
    MaxClock,         \* time stops here
    MaxResets         \* calls of reset

ASSUME ModelCallsAssumption ==
    /\ IsFiniteSet(ModelCallers) /\ 200 \in Replies
    /\ MaxRequests \in Nat \ {0} /\ Interval \in Nat \ {0} /\ MaxConcurrent \in Nat \ {0}
    /\ WrapRetries \in Nat /\ ProviderRetries \in Nat
    /\ BaseDelay \in Nat /\ MaxDelay \in Nat
    /\ MaxPieces \in Nat /\ MaxClock \in Nat /\ MaxResets \in Nat

VARIABLES
    bucket,           \* TokenBucket: [units, lastRefill, inFlight]
    calls,            \* each call: [pc, wake, wrapped, attempt, requests, status]
    streams,          \* each stream: where it is and the pieces it has yielded
    received,         \* external: the last conversation the provider was sent
    clock,
    granted,          \* history: when each token was taken, since the last reset
    resets

modelVars == <<bucket, calls, streams, received, clock, granted, resets>>

-----------------------------------------------------------------------------
Lesser(a, b) == IF a <= b THEN a ELSE b

(* What each provider is sent.  Anthropic takes the last system message      *)
(* apart, and no tool or function messages.                                 *)
OpenAIMessages(messages) == [system |-> "none", messages |-> messages]

AnthropicMessages(messages) ==
    LET system == SelectSeq(messages, LAMBDA m : m.role = "system")
    IN  [system |-> IF system = <<>> THEN "none" ELSE Last(system).text,
         messages |-> SelectSeq(messages, LAMBDA m : m.role \in {"user", "assistant"})]

(* Which failures a provider's retry and the retry of the wrapper repeat.    *)
(* The embedding provider gives retry no shouldRetry.                       *)
OpenAIRepeats(status) == status \in {429, 500, 502, 503}

AnthropicRepeats(status) == status \in {429, 500, 502, 503, 529}

ProviderRepeats(provider, status) ==
    CASE provider = "openai chat" -> OpenAIRepeats(status)
      [] provider = "anthropic chat" -> AnthropicRepeats(status)
      [] OTHER -> TRUE

WrapperRepeats(status) == status = 429

(* calculateDelay with the exponential strategy and a jitter of a tenth.    *)
Delays(attempt) ==
    LET delay == Lesser(BaseDelay * 2^attempt, MaxDelay)
    IN  {d \in 0..2 * delay : 10 * (d - delay) <= delay /\ 10 * (delay - d) <= delay}

(* Mutant: the time of the last refill is not kept.                         *)
RefilledAgain ==
    [bucket EXCEPT !.units = Lesser(MaxRequests * Interval, @ + (clock - bucket.lastRefill) * MaxRequests)]

(* _refill, the bucket of this moment.                                      *)
Refilled ==
    [bucket EXCEPT
        !.units = Lesser(MaxRequests * Interval, @ + (clock - bucket.lastRefill) * MaxRequests),
        !.lastRefill = clock]

(* waitMs, which setTimeout truncates.                                      *)
WaitForToken(units) == (Interval - units) \div MaxRequests + 1

NewCall == [pc |-> "idle", wake |-> 0, wrapped |-> 0, attempt |-> 0, requests |-> 0, status |-> 0]

ModelInit ==
    /\ bucket = [units |-> MaxRequests * Interval, lastRefill |-> 0, inFlight |-> 0]
    /\ calls = [c \in ModelCallers |-> NewCall]
    /\ streams = [s \in Streams |-> [pc |-> "idle", pieces |-> 0]]
    /\ received = [system |-> "none", messages |-> <<>>]
    /\ clock = 0 /\ granted = <<>> /\ resets = 0

CallAt(c) == calls[c].pc
CallGoes(c, pc) == calls' = [calls EXCEPT ![c].pc = pc]
CallSleeps(c, pc, ms) == calls' = [calls EXCEPT ![c].pc = pc, ![c].wake = clock + ms]

-----------------------------------------------------------------------------
(* acquire, once a slot is free: the token is taken at once, or the call     *)
(* sleeps for as long as one token takes to refill.  Nothing is reserved.   *)
AcquireNow(c) ==
    /\ CallAt(c) = "idle"
    /\ bucket.inFlight < MaxConcurrent
    /\ Refilled.units >= Interval
    /\ bucket' = [Refilled EXCEPT !.units = @ - Interval, !.inFlight = @ + 1]
    /\ granted' = Append(granted, clock)
    /\ CallGoes(c, "held")
    /\ UNCHANGED <<streams, received, clock, resets>>

AcquireLater(c) ==
    /\ CallAt(c) = "idle"
    /\ bucket.inFlight < MaxConcurrent
    /\ Refilled.units < Interval
    /\ bucket' = [Refilled EXCEPT !.inFlight = @ + 1]
    /\ CallSleeps(c, "asleep", WaitForToken(Refilled.units))
    /\ UNCHANGED <<streams, received, clock, granted, resets>>

(* The sleeper takes a token whether or not there is one.                   *)
TakeToken(c) ==
    /\ CallAt(c) = "asleep" /\ calls[c].wake <= clock
    /\ bucket' = [Refilled EXCEPT !.units = @ - Interval]
    /\ granted' = Append(granted, clock)
    /\ CallGoes(c, "held")
    /\ UNCHANGED <<streams, received, clock, resets>>

(* The slot is given back before the function is called.                    *)
ReleaseSlot(c) ==
    /\ CallAt(c) = "held"
    /\ bucket' = [bucket EXCEPT !.inFlight = @ - 1]
    /\ CallGoes(c, "call")
    /\ UNCHANGED <<streams, received, clock, granted, resets>>

ResetBucket ==
    /\ resets < MaxResets
    /\ bucket' = [units |-> MaxRequests * Interval, lastRefill |-> clock, inFlight |-> 0]
    /\ granted' = <<>>
    /\ resets' = resets + 1
    /\ UNCHANGED <<calls, streams, received, clock>>

-----------------------------------------------------------------------------
(* One attempt: a request to the provider.                                  *)
Attempt(c, sent) ==
    /\ CallAt(c) = "call" \/ (CallAt(c) = "backoff" /\ calls[c].wake <= clock)
    /\ calls' = [calls EXCEPT ![c].pc = "asked", ![c].requests = @ + 1]
    /\ received' = sent
    /\ UNCHANGED <<bucket, streams, clock, granted, resets>>

OpenAIChat(c) == ProviderOf[c] = "openai chat" /\ Attempt(c, OpenAIMessages(Conversation))

AnthropicChat(c) == ProviderOf[c] = "anthropic chat" /\ Attempt(c, AnthropicMessages(Conversation))

Texts(seq) == [system |-> "none", messages |-> [i \in DOMAIN seq |-> [role |-> "text", text |-> seq[i].text]]]

GenerateEmbedding(c) == ProviderOf[c] = "embedding" /\ Attempt(c, Texts(SubSeq(Conversation, 1, 1)))

GenerateEmbeddings(c) == ProviderOf[c] = "embeddings" /\ Attempt(c, Texts(Conversation))

ModelAnswers(c) ==
    /\ CallAt(c) = "asked"
    /\ calls' = [calls EXCEPT ![c].pc = "done", ![c].status = 200]
    /\ UNCHANGED <<bucket, streams, received, clock, granted, resets>>

(* The provider's retry catches the failure first; the wrapper catches what  *)
(* it gives up on, and starts the provider's retry from its first attempt.  *)
ModelFails(c) ==
    /\ CallAt(c) = "asked"
    /\ \E status \in Replies \ {200} :
        LET call == [calls[c] EXCEPT !.status = status]
            again == ProviderRepeats(ProviderOf[c], status) /\ call.attempt < ProviderRetries
            wrap == WrapperRepeats(status) /\ call.wrapped < WrapRetries
        IN  \/ /\ again
               /\ \E ms \in Delays(call.attempt) :
                    calls' = [calls EXCEPT ![c] = [call EXCEPT !.pc = "backoff",
                                 !.wake = clock + ms, !.attempt = @ + 1]]
            \/ /\ ~again /\ wrap
               /\ \E ms \in Delays(call.wrapped) :
                    calls' = [calls EXCEPT ![c] = [call EXCEPT !.pc = "backoff",
                                 !.wake = clock + ms, !.attempt = 0, !.wrapped = @ + 1]]
            \/ /\ ~again /\ ~wrap
               /\ calls' = [calls EXCEPT ![c] = [call EXCEPT !.pc = "failed"]]
    /\ UNCHANGED <<bucket, streams, received, clock, granted, resets>>

-----------------------------------------------------------------------------
(* streamChat is neither limited nor retried: a failure reaches the reader,  *)
(* after whatever was already yielded.                                      *)
StreamAt(s) == streams[s].pc

OpenStream(s, sent) ==
    /\ StreamAt(s) = "idle"
    /\ streams' = [streams EXCEPT ![s].pc = "open"]
    /\ received' = sent
    /\ UNCHANGED <<bucket, calls, clock, granted, resets>>

OpenAIStream(s) == OpenStream(s, OpenAIMessages(Conversation))

AnthropicStream(s) == OpenStream(s, AnthropicMessages(Conversation))

StreamYields(s) ==
    /\ StreamAt(s) = "open" /\ streams[s].pieces < MaxPieces
    /\ streams' = [streams EXCEPT ![s].pieces = @ + 1]
    /\ UNCHANGED <<bucket, calls, received, clock, granted, resets>>

StreamEnds(s) ==
    /\ StreamAt(s) = "open"
    /\ \E pc \in {"ended", "broken"} : streams' = [streams EXCEPT ![s].pc = pc]
    /\ UNCHANGED <<bucket, calls, received, clock, granted, resets>>

ModelClock ==
    /\ clock < MaxClock
    /\ clock' = clock + 1
    /\ UNCHANGED <<bucket, calls, streams, received, granted, resets>>

ModelNext ==
    \/ \E c \in ModelCallers : AcquireNow(c) \/ AcquireLater(c) \/ TakeToken(c) \/ ReleaseSlot(c)
    \/ \E c \in ModelCallers : \/ OpenAIChat(c) \/ AnthropicChat(c)
                                \/ GenerateEmbedding(c) \/ GenerateEmbeddings(c)
                                \/ ModelAnswers(c) \/ ModelFails(c)
    \/ \E s \in Streams : OpenAIStream(s) \/ AnthropicStream(s) \/ StreamYields(s) \/ StreamEnds(s)
    \/ ResetBucket \/ ModelClock

ModelSpec == ModelInit /\ [][ModelNext]_modelVars

-----------------------------------------------------------------------------
(* The bucket is at most full, and owes no more than the sleepers it may     *)
(* have: reset forgets those asleep, so each reset lets in as many again.   *)
Slots == (1 + resets) * MaxConcurrent

ModelTypeOK ==
    /\ bucket.units \in (1 - Slots) * Interval..MaxRequests * Interval
    /\ bucket.lastRefill \in 0..clock
    /\ bucket.inFlight \in -(resets * MaxConcurrent)..MaxConcurrent
    /\ calls \in [ModelCallers ->
           [pc : {"idle", "asleep", "held", "call", "asked", "backoff", "done", "failed"},
            wake : Nat, wrapped : 0..WrapRetries, attempt : 0..ProviderRetries,
            requests : Nat, status : {0} \cup Replies]]
    /\ streams \in [Streams -> [pc : {"idle", "open", "ended", "broken"}, pieces : 0..MaxPieces]]
    /\ clock \in 0..MaxClock
    /\ resets \in 0..MaxResets

(* Whatever the interleaving of sleepers and arrivals, and however late the  *)
(* timers, over any stretch of time no more calls are let through than a     *)
(* full bucket, what is refilled meanwhile, and one for every other slot:    *)
(* sleepers that were not reserved a token may all take the same one, and    *)
(* the debt is waited for by those who come later.                          *)
GrantsFitTheRate ==
    \A i, j \in 1..Len(granted) :
        i <= j => (j - i + 1) * Interval <=
                      (MaxRequests + Slots - 1) * Interval + MaxRequests * (granted[j] - granted[i])

(* A call fails only on an answer the wrapper does not repeat, or with all   *)
(* of the wrapper's attempts used; and then only on one its provider does    *)
(* not repeat, or with the provider's attempts used as well.  The two loops  *)
(* multiply: one token pays for up to (WrapRetries + 1) * (ProviderRetries   *)
(* + 1) requests, and never for more.                                       *)
GivesUpForAReason ==
    \A c \in ModelCallers :
        LET call == calls[c]
            all == ProviderRetries + 1
        IN  /\ call.requests <= (WrapRetries + 1) * all
            /\ call.requests = call.wrapped * all + call.attempt
                   + IF CallAt(c) \in {"asked", "done", "failed"} THEN 1 ELSE 0
            /\ CallAt(c) = "failed" =>
                   /\ ProviderRepeats(ProviderOf[c], call.status) => call.attempt = ProviderRetries
                   /\ call.status = 429 => call.requests = (WrapRetries + 1) * all

(* The calls to a model, in number and in time.                             *)
RequestsAreBounded == GrantsFitTheRate /\ GivesUpForAReason
=============================================================================
