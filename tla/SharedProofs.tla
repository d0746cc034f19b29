---------------------------- MODULE SharedProofs ----------------------------
(***************************************************************************)
(* What is proved of what the services share and of the searches: the rate  *)
(* and the retries of ModelCalls, and the answers and context windows of    *)
(* Retrieval.                                                               *)
(***************************************************************************)
EXTENDS ModelCalls, Retrieval, SequenceLemmas, FiniteSetTheorems, TLAPS
-----------------------------------------------------------------------------
(***************************************************************************)
(* ModelCalls.  The bucket may owe a token for each call that is asleep and  *)
(* due, less one for each slot; and what was let through since a grant is    *)
(* paid by what the bucket held and was refilled.                           *)
(***************************************************************************)
CallStates == {"idle", "asleep", "held", "call", "asked", "backoff", "done", "failed"}
ModelCallRecords ==
    [pc : CallStates, wake : Nat, wrapped : 0..WrapRetries, attempt : 0..ProviderRetries,
     requests : Nat, status : {0} \cup Replies]

ModelTypes ==
    /\ bucket \in [units : Int, lastRefill : Nat, inFlight : Int]
    /\ bucket.units <= MaxRequests * Interval /\ bucket.lastRefill <= clock
    /\ calls \in [ModelCallers -> ModelCallRecords]
    /\ streams \in [Streams -> [pc : {"idle", "open", "ended", "broken"}, pieces : 0..MaxPieces]]
    /\ clock \in 0..MaxClock /\ resets \in 0..MaxResets
    /\ granted \in Seq(Nat)

Holders == {c \in ModelCallers : calls[c].pc \in {"asleep", "held"}}
DueBy(t) == {c \in ModelCallers : calls[c].pc = "asleep" /\ calls[c].wake <= t}

SlotsCount ==
    /\ bucket.inFlight <= MaxConcurrent
    /\ Cardinality(Holders) <= bucket.inFlight + resets * MaxConcurrent

DebtIsCovered ==
    /\ bucket.units >= (1 - Slots) * Interval
    /\ \A t \in Nat : t >= clock =>
           bucket.units + (t - bucket.lastRefill) * MaxRequests >= (Cardinality(DueBy(t)) + 1 - Slots) * Interval

GrantsArePaid ==
    \A i \in 1..Len(granted) :
        /\ granted[i] <= bucket.lastRefill
        /\ (Len(granted) - i + 1) * Interval + bucket.units
               <= MaxRequests * Interval + MaxRequests * (bucket.lastRefill - granted[i])

ModelInv == ModelTypes /\ SlotsCount /\ DebtIsCovered /\ GrantsArePaid /\ GrantsFitTheRate /\ GivesUpForAReason

-----------------------------------------------------------------------------
(* What a wait lasts is enough for one token.                                *)
LEMMA WaitIsEnough ==
    ASSUME NEW units \in Int, NEW ms, ms = WaitForToken(units)
    PROVE  ms \in Int /\ units + ms * MaxRequests >= Interval
<1> DEFINE a == Interval - units
           q == a \div MaxRequests
<1>1. a \in Int /\ MaxRequests \in Nat \ {0} /\ Interval \in Nat \ {0}
  BY ModelCallsAssumption
<1>2. q \in Int /\ a < (q + 1) * MaxRequests
  <2> HIDE DEF a
  <2> QED BY <1>1
<1>3. ms = q + 1
  BY DEF WaitForToken
<1> HIDE DEF q
<1>4. ms \in Int /\ a < ms * MaxRequests
  BY <1>2, <1>3
<1> QED BY <1>1, <1>4

(* Those due are among those that hold a slot or wait for a token, and these *)
(* are no more than the slots that were given out.                          *)
LEMMA DueAreHolders ==
    ASSUME ModelTypes, SlotsCount
    PROVE  /\ IsFiniteSet(Holders) /\ Cardinality(Holders) \in Nat /\ Cardinality(Holders) <= Slots
           /\ Slots \in Nat \ {0} /\ resets * MaxConcurrent \in Nat
           /\ Slots = MaxConcurrent + resets * MaxConcurrent
           /\ \A t : /\ IsFiniteSet(DueBy(t)) /\ Cardinality(DueBy(t)) \in Nat
                     /\ Cardinality(DueBy(t)) <= Cardinality(Holders)
<1>1. IsFiniteSet(ModelCallers) /\ MaxConcurrent \in Nat \ {0} /\ MaxResets \in Nat
  BY ModelCallsAssumption
<1>2. IsFiniteSet(Holders) /\ Cardinality(Holders) \in Nat
  <2>1. Holders \subseteq ModelCallers
    BY DEF Holders
  <2> QED BY <1>1, <2>1, FS_Subset, FS_CardinalityType
<1>3. \A t : /\ IsFiniteSet(DueBy(t)) /\ Cardinality(DueBy(t)) \in Nat
             /\ Cardinality(DueBy(t)) <= Cardinality(Holders)
  <2> TAKE t
  <2>1. DueBy(t) \subseteq Holders
    BY DEF DueBy, Holders
  <2> QED BY <1>2, <2>1, FS_Subset, FS_CardinalityType
<1>4. resets \in Nat /\ bucket.inFlight \in Int
  BY <1>1 DEF ModelTypes
<1>5. resets * MaxConcurrent \in Nat /\ Slots = MaxConcurrent + resets * MaxConcurrent
  BY <1>1, <1>4 DEF Slots
<1>6. Cardinality(Holders) <= Slots
  BY <1>1, <1>2, <1>4, <1>5 DEF SlotsCount
<1> QED BY <1>1, <1>2, <1>3, <1>5, <1>6

(* What a refill does to the bucket.                                         *)
LEMMA RefilledBucket ==
    ASSUME ModelTypes, SlotsCount, DebtIsCovered, GrantsArePaid, NEW b, b = Refilled
    PROVE  /\ b \in [units : Int, lastRefill : Nat, inFlight : Int]
           /\ b.units <= MaxRequests * Interval /\ b.lastRefill = clock /\ b.inFlight = bucket.inFlight
           /\ b.units >= (1 - Slots) * Interval
           /\ \A t \in Nat : t >= clock =>
                  b.units + (t - clock) * MaxRequests >= (Cardinality(DueBy(t)) + 1 - Slots) * Interval
           /\ \A i \in 1..Len(granted) :
                  /\ granted[i] <= clock
                  /\ (Len(granted) - i + 1) * Interval + b.units
                         <= MaxRequests * Interval + MaxRequests * (clock - granted[i])
<1>1. /\ MaxRequests \in Nat \ {0} /\ Interval \in Nat \ {0} /\ MaxConcurrent \in Nat \ {0}
      /\ MaxClock \in Nat
  BY ModelCallsAssumption
<1>2. PICK u \in Int, l \in Nat, f \in Int, now \in Nat, m \in Nat, full \in Int :
          /\ u = bucket.units /\ l = bucket.lastRefill /\ f = bucket.inFlight /\ now = clock
          /\ m = MaxRequests /\ full = MaxRequests * Interval
          /\ bucket = [units |-> u, lastRefill |-> l, inFlight |-> f]
  BY <1>1 DEF ModelTypes
<1>3. u <= full /\ l <= now
  BY <1>2 DEF ModelTypes
<1>4. PICK v \in Int : v = u + (now - l) * m
  BY <1>2
<1>5. PICK w \in Int : w = Lesser(full, v)
  BY DEF Lesser
<1>6. b = [units |-> w, lastRefill |-> now, inFlight |-> f]
  BY <1>2, <1>4, <1>5 DEF Refilled
<1>7. w <= full /\ w <= v /\ (w = full \/ w = v)
  BY <1>5 DEF Lesser
<1>8. Slots \in Nat \ {0} /\ \A t : Cardinality(DueBy(t)) \in Nat /\ Cardinality(DueBy(t)) <= Slots
  BY DueAreHolders
<1>9. ASSUME NEW n \in Int, n <= 1 PROVE full >= n * Interval
  <2>1. n * Interval <= 1 * Interval /\ 1 * Interval <= m * Interval
    BY <1>1, <1>2, <1>9, TimesIsMonotone
  <2> QED BY <1>1, <1>2, <2>1
<1>10. ASSUME NEW t \in Nat, t >= clock
       PROVE  w + (t - now) * m >= (Cardinality(DueBy(t)) + 1 - Slots) * Interval
  <2>1. PICK n \in Int : n = Cardinality(DueBy(t)) + 1 - Slots /\ n <= 1
    BY <1>8
  <2>2. u + (t - l) * m >= n * Interval
    BY <1>2, <1>10, <2>1 DEF DebtIsCovered
  <2>3. (t - now) * m \in Nat /\ (t - l) * m = (t - now) * m + (now - l) * m
    BY <1>2, <1>10
  <2>4. full >= n * Interval
    BY <1>9, <2>1
  <2>5. n * Interval \in Int /\ (now - l) * m \in Int
    BY <1>1
  <2> QED BY <1>4, <1>7, <2>1, <2>2, <2>3, <2>4, <2>5
<1>11. w >= (1 - Slots) * Interval
  <2>1. PICK n \in Int : n = 1 - Slots /\ n <= 1
    BY <1>8
  <2>2. u >= n * Interval
    BY <1>2, <2>1 DEF DebtIsCovered
  <2>3. (now - l) * m \in Nat /\ n * Interval \in Int
    BY <1>1, <1>3
  <2> QED BY <1>4, <1>7, <1>9, <2>1, <2>2, <2>3
<1>12. ASSUME NEW i \in 1..Len(granted)
       PROVE  /\ granted[i] <= now
              /\ (Len(granted) - i + 1) * Interval + w <= full + m * (now - granted[i])
  <2>1. granted[i] \in Nat /\ Len(granted) \in Nat
    BY ElementOfSeq, LenProperties DEF ModelTypes
  <2>2. PICK g \in Nat, k \in Int : g = granted[i] /\ k = (Len(granted) - i + 1) * Interval
    BY <1>1, <2>1
  <2>3. g <= l /\ k + u <= full + m * (l - g)
    BY <1>2, <1>12, <2>2 DEF GrantsArePaid
  <2>4. m * (now - g) = m * (l - g) + (now - l) * m
    BY <1>2
  <2>5. PICK paid \in Int, refill \in Int : paid = m * (l - g) /\ refill = (now - l) * m
    OBVIOUS
  <2>6. g <= now /\ k + w <= full + (paid + refill)
    <3>1. k + u <= full + paid /\ w <= u + refill
      BY <1>4, <1>7, <2>3, <2>5
    <3> QED BY <1>3, <2>3, <3>1
  <2>7. full + m * (now - g) = full + (paid + refill)
    BY <2>4, <2>5
  <2> QED BY <2>2, <2>6, <2>7
<1> QED BY <1>2, <1>6, <1>7, <1>10, <1>11, <1>12

-----------------------------------------------------------------------------
(* One call changes.                                                        *)
LEMMA OneCallMoves ==
    ASSUME ModelTypes, NEW c \in ModelCallers, NEW r \in ModelCallRecords, calls' = [calls EXCEPT ![c] = r]
    PROVE  /\ calls' \in [ModelCallers -> ModelCallRecords] /\ calls'[c] = r
           /\ \A d \in ModelCallers \ {c} : calls'[d] = calls[d]
<1>1. calls \in [ModelCallers -> ModelCallRecords]
  BY DEF ModelTypes
<1> HIDE DEF ModelCallRecords
<1> QED BY <1>1

(* Whatever leaves the bucket, the grants and those who wait as they are     *)
(* keeps the rate, time included.                                           *)
LEMMA BucketRests ==
    ASSUME ModelTypes, SlotsCount, DebtIsCovered, GrantsArePaid, GrantsFitTheRate,
           UNCHANGED <<bucket, granted, resets>>, clock' \in Nat, clock' >= clock,
           Holders' = Holders, \A t : DueBy(t)' = DueBy(t)
    PROVE  SlotsCount' /\ DebtIsCovered' /\ GrantsArePaid' /\ GrantsFitTheRate'
<1>1. SlotsCount' /\ GrantsArePaid' /\ GrantsFitTheRate'
  BY DEF SlotsCount, GrantsArePaid, GrantsFitTheRate, Slots
<1>2. clock \in Nat
  BY ModelCallsAssumption DEF ModelTypes
<1>3. \A t \in Nat : t >= clock' => t >= clock
  BY <1>2
<1>4. DebtIsCovered'
  BY <1>3 DEF DebtIsCovered, Slots
<1> QED BY <1>1, <1>4

(* A call that neither waited nor waits now leaves those who wait as they     *)
(* are.                                                                     *)
LEMMA NobodyWaits ==
    ASSUME NEW c \in ModelCallers, calls[c].pc \notin {"asleep", "held"}, calls'[c].pc \notin {"asleep", "held"},
           \A d \in ModelCallers \ {c} : calls'[d] = calls[d]
    PROVE  Holders' = Holders /\ \A t : DueBy(t)' = DueBy(t)
<1>1. Holders' = Holders
  <2>1. \A d \in ModelCallers : d \in Holders' <=> d \in Holders
    BY DEF Holders
  <2> QED BY <2>1 DEF Holders
<1>2. ASSUME NEW t PROVE DueBy(t)' = DueBy(t)
  <2>1. \A d \in ModelCallers : d \in DueBy(t)' <=> d \in DueBy(t)
    BY DEF DueBy
  <2> QED BY <2>1 DEF DueBy
<1> QED BY <1>1, <1>2

(* The reason of a call that did not fail stays what it was while it moves    *)
(* through the bucket.                                                      *)
ReasonOf(call, provider) ==
    LET all == ProviderRetries + 1
    IN  /\ call.requests <= (WrapRetries + 1) * all
        /\ call.requests = call.wrapped * all + call.attempt
               + IF call.pc \in {"asked", "done", "failed"} THEN 1 ELSE 0
        /\ call.pc = "failed" =>
               /\ ProviderRepeats(provider, call.status) => call.attempt = ProviderRetries
               /\ call.status = 429 => call.requests = (WrapRetries + 1) * all

LEMMA ReasonsByCall ==
    /\ GivesUpForAReason <=> \A c \in ModelCallers : \A call \in {calls[c]} : ReasonOf(call, ProviderOf[c])
    /\ GivesUpForAReason' <=> \A c \in ModelCallers : \A call \in {calls'[c]} : ReasonOf(call, ProviderOf[c])
<1> USE DEF GivesUpForAReason, ReasonOf, CallAt
<1>1. GivesUpForAReason <=> \A c \in ModelCallers : \A call \in {calls[c]} : ReasonOf(call, ProviderOf[c])
  OBVIOUS
<1>2. GivesUpForAReason' <=> \A c \in ModelCallers : \A call \in {calls'[c]} : ReasonOf(call, ProviderOf[c])
  OBVIOUS
<1> QED BY <1>1, <1>2

(* A token that is taken is paid for.                                        *)
LEMMA TokenIsTaken ==
    ASSUME ModelTypes, SlotsCount, DebtIsCovered, GrantsArePaid, GrantsFitTheRate, NEW b, b = Refilled,
           NEW w \in Int, w = b.units - Interval, w >= (1 - Slots) * Interval,
           bucket'.units = w, bucket'.lastRefill = clock, granted' = Append(granted, clock), resets' = resets
    PROVE  granted' \in Seq(Nat) /\ GrantsArePaid' /\ GrantsFitTheRate'
<1>1. /\ MaxRequests \in Nat \ {0} /\ Interval \in Nat \ {0} /\ clock \in Nat
      /\ Slots \in Nat \ {0} /\ Slots' = Slots
  BY ModelCallsAssumption, DueAreHolders DEF ModelTypes, Slots
<1>2. PICK n \in Nat : n = Len(granted)
  BY LenProperties DEF ModelTypes
<1>3. /\ granted \in Seq(Nat) /\ granted' \in Seq(Nat) /\ Len(granted') = n + 1
      /\ \A i \in 1..n : granted'[i] = granted[i] /\ granted'[i] \in Nat
      /\ granted'[n + 1] = clock
  <2>1. granted \in Seq(Nat)
    BY DEF ModelTypes
  <2>2. granted' \in Seq(Nat) /\ Len(granted') = n + 1
    BY <1>1, <1>2, <2>1, AppendProperties
  <2>3. \A i \in 1..n : granted'[i] = granted[i]
    BY <1>1, <1>2, <2>1, AppendProperties
  <2>4. granted'[n + 1] = clock
    BY <1>1, <1>2, <2>1, AppendProperties
  <2>5. \A i \in 1..n : granted[i] \in Nat
    BY <1>2, <2>1, ElementOfSeq
  <2> QED BY <2>1, <2>2, <2>3, <2>4, <2>5
<1>4. PICK full \in Int : full = MaxRequests * Interval
  BY <1>1
<1>5. ASSUME NEW i \in 1..n + 1
      PROVE  /\ granted'[i] \in Nat /\ granted'[i] <= clock
             /\ (n + 1 - i + 1) * Interval + w <= full + MaxRequests * (clock - granted'[i])
  <2>0. b.units \in Int /\ b.units <= full
    BY <1>4, RefilledBucket
  <2>1. CASE i = n + 1
    <3>1. (n + 1 - i + 1) * Interval = Interval /\ MaxRequests * (clock - granted'[i]) = 0
      BY <1>1, <1>3, <2>1
    <3> QED BY <1>1, <1>3, <2>0, <2>1, <3>1
  <2>2. CASE i # n + 1
    <3>1. i \in 1..n
      BY <2>2
    <3>2. PICK g \in Nat, k \in Int, paid \in Int :
              g = granted[i] /\ k = (n - i + 1) * Interval /\ paid = MaxRequests * (clock - g)
      BY <1>1, <1>3, <3>1
    <3>3. g <= clock /\ k + b.units <= full + paid
      BY <1>2, <1>4, <3>1, <3>2, RefilledBucket
    <3>4. (n + 1 - i + 1) * Interval = k + Interval
      BY <1>1, <3>2
    <3>5. (k + Interval) + w <= full + paid
      BY <1>1, <2>0, <3>3
    <3>6. granted'[i] = g
      BY <1>3, <3>1, <3>2
    <3> QED BY <3>2, <3>3, <3>4, <3>5, <3>6
  <2> QED BY <2>1, <2>2
<1>6. GrantsArePaid'
  BY SMTT(30), <1>3, <1>4, <1>5 DEF GrantsArePaid
<1>7. GrantsFitTheRate'
  <2> SUFFICES ASSUME NEW i \in 1..n + 1, NEW j \in 1..n + 1, i <= j
               PROVE  (j - i + 1) * Interval <=
                          (MaxRequests + Slots - 1) * Interval + MaxRequests * (granted'[j] - granted'[i])
    BY <1>1, <1>3 DEF GrantsFitTheRate
  <2>1. CASE j = n + 1
    <3>1. (MaxRequests + Slots - 1) * Interval = full - (1 - Slots) * Interval
      BY <1>1, <1>4
    <3>a. PICK g \in Nat : g = granted'[i]
      BY <1>5
    <3>b. (n + 1 - i + 1) * Interval \in Int
      BY <1>1
    <3>c. MaxRequests * (clock - g) \in Int /\ (1 - Slots) * Interval \in Int
      BY <1>1
    <3>2. PICK k \in Int, paid \in Int, least \in Int :
              /\ k = (n + 1 - i + 1) * Interval /\ paid = MaxRequests * (clock - granted'[i])
              /\ least = (1 - Slots) * Interval
      BY <3>a, <3>b, <3>c
    <3>3. k + w <= full + paid /\ w >= least
      BY <1>5, <3>2
    <3>4. k <= (full - least) + paid
      BY <3>3
    <3> QED BY <1>3, <2>1, <3>1, <3>2, <3>4
  <2>2. CASE j # n + 1
    <3>1. i \in 1..n /\ j \in 1..n
      BY <2>2
    <3> QED BY <1>2, <1>3, <3>1 DEF GrantsFitTheRate
  <2> QED BY <2>1, <2>2
<1> QED BY <1>3, <1>6, <1>7

-----------------------------------------------------------------------------
(* The steps of the bucket.  A token there is, taken at once.                *)
LEMMA TakenAtOnce ==
    ASSUME ModelInv, NEW c \in ModelCallers, AcquireNow(c)
    PROVE  ModelInv'
<1> USE DEF ModelInv
<1>1. PICK call \in ModelCallRecords : call = calls[c] /\ call.pc = "idle"
  BY DEF AcquireNow, CallAt, ModelTypes
<1>2. PICK b : b = Refilled
  OBVIOUS
<1>3. /\ b \in [units : Int, lastRefill : Nat, inFlight : Int]
      /\ b.units <= MaxRequests * Interval /\ b.lastRefill = clock /\ b.inFlight = bucket.inFlight
  BY <1>2, RefilledBucket
<1>4. /\ bucket.inFlight < MaxConcurrent /\ b.units >= Interval
      /\ bucket' = [b EXCEPT !.units = b.units - Interval, !.inFlight = b.inFlight + 1]
      /\ granted' = Append(granted, clock)
      /\ UNCHANGED <<streams, received, clock, resets>>
  BY <1>2 DEF AcquireNow
<1> DEFINE r == [call EXCEPT !.pc = "held"]
<1>5. calls' = [calls EXCEPT ![c] = r]
  BY <1>1 DEF AcquireNow, CallGoes
<1>6. r \in ModelCallRecords /\ r.pc = "held" /\ r.requests = call.requests /\ r.wrapped = call.wrapped
      /\ r.attempt = call.attempt /\ r.status = call.status
  BY DEF ModelCallRecords, CallStates
<1> HIDE DEF r
<1>7. /\ calls' \in [ModelCallers -> ModelCallRecords] /\ calls'[c] = r
      /\ \A d \in ModelCallers \ {c} : calls'[d] = calls[d]
  BY <1>5, <1>6, OneCallMoves
<1>8. MaxRequests \in Nat \ {0} /\ Interval \in Nat \ {0} /\ MaxConcurrent \in Nat \ {0} /\ clock \in Nat
  BY ModelCallsAssumption DEF ModelTypes
<1>9. PICK w \in Int : w = b.units - Interval /\ w >= 0
  BY <1>3, <1>4, <1>8
<1>10. bucket' = [units |-> w, lastRefill |-> clock, inFlight |-> bucket.inFlight + 1]
  BY <1>3, <1>4, <1>9
<1>d. /\ bucket'.units = w /\ bucket'.lastRefill = clock /\ bucket'.inFlight = bucket.inFlight + 1
      /\ bucket' \in [units : Int, lastRefill : Nat, inFlight : Int]
  <2>1. bucket.inFlight + 1 \in Int
    BY DEF ModelTypes
  <2>2. PICK f \in Int : f = bucket.inFlight + 1
    BY <2>1
  <2>3. bucket' = [units |-> w, lastRefill |-> clock, inFlight |-> f]
    BY <1>10, <2>2
  <2> QED BY <1>8, <2>2, <2>3
<1>11. /\ Holders' = Holders \cup {c} /\ c \notin Holders
       /\ \A t : DueBy(t)' = DueBy(t)
  <2>1. \A d \in ModelCallers \ {c} : (d \in Holders' <=> d \in Holders) /\ \A t : d \in DueBy(t)' <=> d \in DueBy(t)
    BY <1>7 DEF Holders, DueBy
  <2>2. c \in Holders' /\ c \notin Holders /\ \A t : c \notin DueBy(t) /\ c \notin DueBy(t)'
    BY <1>1, <1>6, <1>7 DEF Holders, DueBy
  <2>3. Holders \subseteq ModelCallers /\ Holders' \subseteq ModelCallers
        /\ \A t : DueBy(t) \subseteq ModelCallers /\ DueBy(t)' \subseteq ModelCallers
    BY DEF Holders, DueBy
  <2> QED BY <2>1, <2>2, <2>3
<1>12. Cardinality(Holders') = Cardinality(Holders) + 1
  <2>1. IsFiniteSet(Holders)
    BY DueAreHolders
  <2> QED BY <1>11, <2>1, FS_AddElement
<1>a. PICK h \in Nat, f \in Int, x \in Nat :
           h = Cardinality(Holders) /\ f = bucket.inFlight /\ x = resets * MaxConcurrent
  BY DueAreHolders DEF ModelTypes
<1>b. f < MaxConcurrent /\ h <= f + x
  BY <1>4, <1>a DEF SlotsCount
<1>13. SlotsCount'
  <2>1. bucket'.inFlight = f + 1
    BY <1>a, <1>d
  <2>2. Cardinality(Holders)' = h + 1
    BY <1>12, <1>a
  <2>3. resets' * MaxConcurrent = x
    BY <1>4, <1>a
  <2> QED BY <1>8, <1>b, <2>1, <2>2, <2>3 DEF SlotsCount
<1>14. \A t : Cardinality(DueBy(t)) \in Nat /\ Cardinality(DueBy(t)) + 1 <= Slots
  <2>1. Slots = MaxConcurrent + x /\ \A t : Cardinality(DueBy(t)) \in Nat /\ Cardinality(DueBy(t)) <= h
    BY <1>a, DueAreHolders
  <2> QED BY <1>8, <1>b, <2>1
<1>15. Slots' = Slots /\ Slots \in Nat \ {0}
  BY <1>4, DueAreHolders DEF Slots
<1>16. ASSUME NEW n \in Int, n <= 0 PROVE n * Interval <= 0
  BY <1>8, <1>16, TimesIsMonotone
<1>17. DebtIsCovered'
  <2>1. w >= (1 - Slots) * Interval
    <3>1. 1 - Slots \in Int /\ 1 - Slots <= 0
      BY <1>15
    <3>2. (1 - Slots) * Interval <= 0 /\ (1 - Slots) * Interval \in Int
      BY <1>8, <1>16, <3>1
    <3> QED BY <1>9, <3>2
  <2>2. ASSUME NEW t \in Nat, t >= clock
        PROVE  w + (t - clock) * MaxRequests >= (Cardinality(DueBy(t)) + 1 - Slots) * Interval
    <3>1. PICK n \in Int : n = Cardinality(DueBy(t)) + 1 - Slots /\ n <= 0
      BY <1>14, <1>15
    <3>2. n * Interval <= 0 /\ n * Interval \in Int
      BY <1>8, <1>16, <3>1
    <3>3. (t - clock) * MaxRequests \in Nat
      BY <1>8, <2>2
    <3> QED BY <1>9, <3>1, <3>2, <3>3
  <2>3. /\ bucket'.units = w /\ bucket'.lastRefill = clock /\ clock' = clock /\ Slots' = Slots
        /\ \A t : Cardinality(DueBy(t))' = Cardinality(DueBy(t))
    BY <1>4, <1>d, <1>11, <1>15
  <2> QED BY <2>1, <2>2, <2>3 DEF DebtIsCovered
<1>18. granted' \in Seq(Nat) /\ GrantsArePaid' /\ GrantsFitTheRate'
  <2>1. w >= (1 - Slots) * Interval /\ bucket'.units = w /\ bucket'.lastRefill = clock
    BY <1>10, <1>15, <1>17 DEF DebtIsCovered
  <2> QED BY <1>2, <1>4, <1>9, <2>1, TokenIsTaken
<1>19. ModelTypes'
  <2>1. w <= MaxRequests * Interval
    BY <1>3, <1>8, <1>9
  <2>2. bucket'.lastRefill <= clock'
    BY <1>4, <1>8, <1>d
  <2> QED BY <1>4, <1>7, <1>d, <1>18, <2>1, <2>2 DEF ModelTypes
<1>20. GivesUpForAReason'
  BY <1>1, <1>6, <1>7, ReasonsByCall DEF ReasonOf
<1> QED BY <1>13, <1>17, <1>18, <1>19, <1>20

(* None yet: the call waits until one is refilled.                           *)
LEMMA TokenIsAwaited ==
    ASSUME ModelInv, NEW c \in ModelCallers, AcquireLater(c)
    PROVE  ModelInv'
<1> USE DEF ModelInv
<1>1. PICK call \in ModelCallRecords : call = calls[c] /\ call.pc = "idle"
  BY DEF AcquireLater, CallAt, ModelTypes
<1>2. PICK b : b = Refilled
  OBVIOUS
<1>3. /\ b \in [units : Int, lastRefill : Nat, inFlight : Int]
      /\ b.units <= MaxRequests * Interval /\ b.lastRefill = clock /\ b.inFlight = bucket.inFlight
      /\ b.units >= (1 - Slots) * Interval
  BY <1>2, RefilledBucket
<1>4. /\ bucket.inFlight < MaxConcurrent /\ b.units < Interval
      /\ bucket' = [b EXCEPT !.inFlight = b.inFlight + 1]
      /\ UNCHANGED <<streams, received, clock, granted, resets>>
  BY <1>2 DEF AcquireLater
<1>5. /\ MaxRequests \in Nat \ {0} /\ Interval \in Nat \ {0} /\ MaxConcurrent \in Nat \ {0} /\ clock \in Nat
  BY ModelCallsAssumption DEF ModelTypes
<1>6. PICK ms \in Nat : ms = WaitForToken(b.units) /\ b.units + ms * MaxRequests >= Interval
  <2>1. PICK ms \in Int : ms = WaitForToken(b.units) /\ b.units + ms * MaxRequests >= Interval
    BY <1>3, WaitIsEnough
  <2>2. ASSUME ms <= 0 PROVE FALSE
    <3>1. ms * MaxRequests <= 0 * MaxRequests /\ 0 * MaxRequests = 0
      BY <1>5, <2>2, TimesIsMonotone
    <3>2. PICK x \in Int : x = ms * MaxRequests
      BY <1>5
    <3> QED BY <1>3, <1>4, <1>5, <2>1, <3>1, <3>2
  <2> QED BY <2>1, <2>2
<1> DEFINE r == [call EXCEPT !.pc = "asleep", !.wake = clock + ms]
<1>7. calls' = [calls EXCEPT ![c] = r]
  <2>1. calls' = [calls EXCEPT ![c].pc = "asleep", ![c].wake = clock + ms]
    BY <1>2, <1>6 DEF AcquireLater, CallSleeps
  <2> QED BY <1>1, <2>1 DEF ModelTypes
<1>8. /\ r \in ModelCallRecords /\ r.pc = "asleep" /\ r.wake = clock + ms /\ r.requests = call.requests
      /\ r.wrapped = call.wrapped /\ r.attempt = call.attempt /\ r.status = call.status
  <2>1. clock + ms \in Nat
    BY <1>5
  <2> QED BY <2>1 DEF ModelCallRecords, CallStates
<1> HIDE DEF r
<1>9. /\ calls' \in [ModelCallers -> ModelCallRecords] /\ calls'[c] = r
      /\ \A d \in ModelCallers \ {c} : calls'[d] = calls[d]
  BY <1>7, <1>8, OneCallMoves
<1>10. /\ bucket'.units = b.units /\ bucket'.lastRefill = clock /\ bucket'.inFlight = bucket.inFlight + 1
       /\ bucket' \in [units : Int, lastRefill : Nat, inFlight : Int]
  BY <1>3, <1>4
<1>11. Holders' = Holders \cup {c} /\ c \notin Holders
  <2>1. \A d \in ModelCallers \ {c} : d \in Holders' <=> d \in Holders
    BY <1>9 DEF Holders
  <2>2. c \in Holders' /\ c \notin Holders
    BY <1>1, <1>8, <1>9 DEF Holders
  <2>3. Holders \subseteq ModelCallers /\ Holders' \subseteq ModelCallers
    BY DEF Holders
  <2> QED BY <2>1, <2>2, <2>3
<1>12. Cardinality(Holders') = Cardinality(Holders) + 1
  <2>1. IsFiniteSet(Holders)
    BY DueAreHolders
  <2> QED BY <1>11, <2>1, FS_AddElement
<1>13. PICK h \in Nat, f \in Int, x \in Nat :
           h = Cardinality(Holders) /\ f = bucket.inFlight /\ x = resets * MaxConcurrent
  BY DueAreHolders DEF ModelTypes
<1>14. f < MaxConcurrent /\ h <= f + x /\ resets' * MaxConcurrent = x
  BY <1>4, <1>13 DEF SlotsCount
<1>15. SlotsCount'
  <2>1. bucket'.inFlight = f + 1
    BY <1>10, <1>13
  <2>2. Cardinality(Holders)' = h + 1
    BY <1>12, <1>13
  <2> QED BY <1>5, <1>14, <2>1, <2>2 DEF SlotsCount
<1>16. Slots' = Slots /\ Slots \in Nat \ {0} /\ Slots = MaxConcurrent + x
  BY <1>4, <1>13, DueAreHolders DEF Slots
<1>17. DebtIsCovered'
  <2>1. ASSUME NEW t \in Nat, t >= clock
        PROVE  b.units + (t - clock) * MaxRequests >= (Cardinality(DueBy(t)') + 1 - Slots) * Interval
    <3>1. \A d \in ModelCallers \ {c} : d \in DueBy(t)' <=> d \in DueBy(t)
      BY <1>9 DEF DueBy
    <3>2. c \notin DueBy(t) /\ (c \in DueBy(t)' <=> clock + ms <= t)
      BY <1>1, <1>8, <1>9 DEF DueBy
    <3>3. DueBy(t) \subseteq ModelCallers /\ DueBy(t)' \subseteq ModelCallers
      BY DEF DueBy
    <3>4. CASE clock + ms <= t
      <4>1. DueBy(t)' = DueBy(t) \cup {c}
        BY <3>1, <3>2, <3>3, <3>4
      <4>2. PICK k \in Nat : k = Cardinality(DueBy(t)) /\ IsFiniteSet(DueBy(t)) /\ k <= h
        BY <1>13, DueAreHolders
      <4>3. Cardinality(DueBy(t)') = k + 1
        BY <3>2, <4>1, <4>2, FS_AddElement
      <4>4. PICK n \in Int : n = Cardinality(DueBy(t)') + 1 - Slots /\ n <= 1
        BY <1>5, <1>14, <1>16, <4>2, <4>3
      <4>5. n * Interval <= 1 * Interval /\ 1 * Interval = Interval
        BY <1>5, <4>4, TimesIsMonotone
      <4>6. ms * MaxRequests <= (t - clock) * MaxRequests
        <5>1. t - clock \in Int /\ ms <= t - clock
          BY <1>5, <3>4
        <5>2. PICK e \in Int : e = t - clock /\ ms <= e
          BY <5>1
        <5> QED BY <1>5, <5>2, TimesIsMonotone
      <4>7. n * Interval \in Int /\ ms * MaxRequests \in Int /\ (t - clock) * MaxRequests \in Int
        BY <1>5
      <4> QED BY <1>3, <1>5, <1>6, <4>4, <4>5, <4>6, <4>7
    <3>5. CASE ~(clock + ms <= t)
      <4>1. DueBy(t)' = DueBy(t)
        BY <3>1, <3>2, <3>3, <3>5
      <4>2. b.units + (t - clock) * MaxRequests >= (Cardinality(DueBy(t)) + 1 - Slots) * Interval
        BY <1>2, <2>1, RefilledBucket
      <4> QED BY <4>1, <4>2
    <3> QED BY <3>4, <3>5
  <2>2. clock' = clock
    BY <1>4
  <2> QED BY <1>3, <1>10, <1>16, <2>1, <2>2 DEF DebtIsCovered
<1>18. GrantsArePaid' /\ GrantsFitTheRate'
  <2>1. GrantsFitTheRate'
    BY <1>4, <1>16 DEF GrantsFitTheRate
  <2>2. \A i \in 1..Len(granted) :
            /\ granted[i] <= clock
            /\ (Len(granted) - i + 1) * Interval + b.units
                   <= MaxRequests * Interval + MaxRequests * (clock - granted[i])
    BY <1>2, RefilledBucket
  <2> QED BY <1>4, <1>10, <2>1, <2>2 DEF GrantsArePaid
<1>19. ModelTypes'
  <2>1. bucket'.units <= MaxRequests * Interval /\ bucket'.lastRefill <= clock'
    BY <1>3, <1>4, <1>5, <1>10
  <2> QED BY <1>4, <1>9, <1>10, <2>1 DEF ModelTypes
<1>20. GivesUpForAReason'
  BY <1>1, <1>8, <1>9, ReasonsByCall DEF ReasonOf
<1> QED BY <1>15, <1>17, <1>18, <1>19, <1>20

(* A sleeper takes one, there or not.                                        *)
LEMMA TakenAfterSleep ==
    ASSUME ModelInv, NEW c \in ModelCallers, TakeToken(c)
    PROVE  ModelInv'
<1> USE DEF ModelInv
<1>1. PICK call \in ModelCallRecords : call = calls[c] /\ call.pc = "asleep" /\ call.wake <= clock
  BY DEF TakeToken, CallAt, ModelTypes
<1>2. PICK b : b = Refilled
  OBVIOUS
<1>3. /\ b \in [units : Int, lastRefill : Nat, inFlight : Int]
      /\ b.units <= MaxRequests * Interval /\ b.lastRefill = clock /\ b.inFlight = bucket.inFlight
  BY <1>2, RefilledBucket
<1>4. /\ bucket' = [b EXCEPT !.units = b.units - Interval]
      /\ granted' = Append(granted, clock)
      /\ UNCHANGED <<streams, received, clock, resets>>
  BY <1>2 DEF TakeToken
<1>5. /\ MaxRequests \in Nat \ {0} /\ Interval \in Nat \ {0} /\ MaxConcurrent \in Nat \ {0} /\ clock \in Nat
  BY ModelCallsAssumption DEF ModelTypes
<1> DEFINE r == [call EXCEPT !.pc = "held"]
<1>6. calls' = [calls EXCEPT ![c] = r]
  BY <1>1 DEF TakeToken, CallGoes
<1>7. r \in ModelCallRecords /\ r.pc = "held" /\ r.requests = call.requests /\ r.wrapped = call.wrapped
      /\ r.attempt = call.attempt /\ r.status = call.status
  BY DEF ModelCallRecords, CallStates
<1> HIDE DEF r
<1>8. /\ calls' \in [ModelCallers -> ModelCallRecords] /\ calls'[c] = r
      /\ \A d \in ModelCallers \ {c} : calls'[d] = calls[d]
  BY <1>6, <1>7, OneCallMoves
<1>9. PICK w \in Int : w = b.units - Interval
  BY <1>3, <1>5
<1>10. /\ bucket'.units = w /\ bucket'.lastRefill = clock /\ bucket'.inFlight = bucket.inFlight
       /\ bucket' \in [units : Int, lastRefill : Nat, inFlight : Int]
  BY <1>3, <1>4, <1>9
<1>11. Holders' = Holders
  <2>1. \A d \in ModelCallers : d \in Holders' <=> d \in Holders
    BY <1>1, <1>7, <1>8 DEF Holders
  <2> QED BY <2>1 DEF Holders
<1>12. Slots' = Slots /\ Slots \in Nat \ {0}
  BY <1>4, DueAreHolders DEF Slots
<1>13. SlotsCount'
  BY <1>4, <1>10, <1>11 DEF SlotsCount
<1>14. ASSUME NEW t \in Nat, t >= clock
       PROVE  /\ w + (t - clock) * MaxRequests >= (Cardinality(DueBy(t)') + 1 - Slots) * Interval
              /\ w + (t - clock) * MaxRequests >= (1 - Slots) * Interval
  <2>1. \A d \in ModelCallers \ {c} : d \in DueBy(t)' <=> d \in DueBy(t)
    BY <1>8 DEF DueBy
  <2>2. c \in DueBy(t) /\ c \notin DueBy(t)'
    <3>1. call.wake \in Nat
      BY DEF ModelCallRecords
    <3>2. call.wake <= t
      BY <1>1, <1>5, <1>14, <3>1
    <3> QED BY <1>1, <1>7, <1>8, <3>2 DEF DueBy
  <2>3. DueBy(t) \subseteq ModelCallers /\ DueBy(t)' \subseteq ModelCallers
    BY DEF DueBy
  <2>4. DueBy(t)' = DueBy(t) \ {c}
    BY <2>1, <2>2, <2>3
  <2>5. PICK k \in Nat : k = Cardinality(DueBy(t)) /\ IsFiniteSet(DueBy(t))
    BY DueAreHolders
  <2>6. Cardinality(DueBy(t)') = k - 1 /\ k - 1 \in Nat
    <3>1. Cardinality(DueBy(t)') = k - 1 /\ IsFiniteSet(DueBy(t)')
      BY <2>2, <2>4, <2>5, FS_RemoveElement
    <3> QED BY <3>1, FS_CardinalityType
  <2>7. b.units + (t - clock) * MaxRequests >= (k + 1 - Slots) * Interval
    BY <1>2, <1>14, <2>5, RefilledBucket
  <2>8. (k + 1 - Slots) * Interval = (k - 1 + 1 - Slots) * Interval + Interval
    BY <1>5, <1>12
  <2>9. (1 - Slots) * Interval <= (k - 1 + 1 - Slots) * Interval
    <3>1. PICK m \in Int, n \in Int : m = 1 - Slots /\ n = k - 1 + 1 - Slots /\ m <= n
      BY <1>12, <2>6
    <3>2. m * Interval <= n * Interval
      BY <1>5, <3>1, TimesIsMonotone
    <3> QED BY <3>1, <3>2
  <2>10. PICK x \in Int, y \in Int, z \in Int :
             /\ x = (t - clock) * MaxRequests /\ y = (k - 1 + 1 - Slots) * Interval
             /\ z = (1 - Slots) * Interval
    BY <1>5, <1>12
  <2>11. w + x >= y /\ z <= y
    BY <1>3, <1>5, <1>9, <2>7, <2>8, <2>9, <2>10
  <2> QED BY <2>6, <2>10, <2>11
<1>15. w >= (1 - Slots) * Interval
  <2>1. w + (clock - clock) * MaxRequests >= (1 - Slots) * Interval
    BY <1>5, <1>14
  <2>2. w + (clock - clock) * MaxRequests = w
    BY <1>5
  <2> QED BY <2>1, <2>2
<1>16. DebtIsCovered'
  <2>1. clock' = clock
    BY <1>4
  <2> QED BY <1>10, <1>12, <1>14, <1>15, <2>1 DEF DebtIsCovered
<1>17. granted' \in Seq(Nat) /\ GrantsArePaid' /\ GrantsFitTheRate'
  BY <1>2, <1>4, <1>9, <1>10, <1>15, TokenIsTaken
<1>18. ModelTypes'
  <2>1. bucket'.units <= MaxRequests * Interval /\ bucket'.lastRefill <= clock'
    BY <1>3, <1>4, <1>5, <1>9, <1>10
  <2> QED BY <1>4, <1>8, <1>10, <1>17, <2>1 DEF ModelTypes
<1>19. GivesUpForAReason'
  BY <1>1, <1>7, <1>8, ReasonsByCall DEF ReasonOf
<1> QED BY <1>13, <1>16, <1>17, <1>18, <1>19

(* The slot is given back.                                                   *)
LEMMA SlotIsReleased ==
    ASSUME ModelInv, NEW c \in ModelCallers, ReleaseSlot(c)
    PROVE  ModelInv'
<1> USE DEF ModelInv
<1>1. PICK call \in ModelCallRecords : call = calls[c] /\ call.pc = "held"
  BY DEF ReleaseSlot, CallAt, ModelTypes
<1>2. /\ bucket' = [bucket EXCEPT !.inFlight = bucket.inFlight - 1]
      /\ UNCHANGED <<streams, received, clock, granted, resets>>
  BY DEF ReleaseSlot
<1> DEFINE r == [call EXCEPT !.pc = "call"]
<1>3. calls' = [calls EXCEPT ![c] = r]
  BY <1>1 DEF ReleaseSlot, CallGoes
<1>4. r \in ModelCallRecords /\ r.pc = "call" /\ r.requests = call.requests /\ r.wrapped = call.wrapped
      /\ r.attempt = call.attempt /\ r.status = call.status
  BY DEF ModelCallRecords, CallStates
<1> HIDE DEF r
<1>5. /\ calls' \in [ModelCallers -> ModelCallRecords] /\ calls'[c] = r
      /\ \A d \in ModelCallers \ {c} : calls'[d] = calls[d]
  BY <1>3, <1>4, OneCallMoves
<1>6. /\ bucket'.units = bucket.units /\ bucket'.lastRefill = bucket.lastRefill
      /\ bucket'.inFlight = bucket.inFlight - 1
      /\ bucket' \in [units : Int, lastRefill : Nat, inFlight : Int]
  BY <1>2 DEF ModelTypes
<1>7. /\ Holders' = Holders \ {c} /\ c \in Holders
      /\ \A t : DueBy(t)' = DueBy(t)
  <2>1. \A d \in ModelCallers \ {c} : (d \in Holders' <=> d \in Holders) /\ \A t : d \in DueBy(t)' <=> d \in DueBy(t)
    BY <1>5 DEF Holders, DueBy
  <2>2. c \notin Holders' /\ c \in Holders /\ \A t : c \notin DueBy(t) /\ c \notin DueBy(t)'
    BY <1>1, <1>4, <1>5 DEF Holders, DueBy
  <2>3. Holders \subseteq ModelCallers /\ Holders' \subseteq ModelCallers
        /\ \A t : DueBy(t) \subseteq ModelCallers /\ DueBy(t)' \subseteq ModelCallers
    BY DEF Holders, DueBy
  <2> QED BY <2>1, <2>2, <2>3
<1>8. PICK h \in Nat, f \in Int, x \in Nat :
          h = Cardinality(Holders) /\ f = bucket.inFlight /\ x = resets * MaxConcurrent
  BY DueAreHolders DEF ModelTypes
<1>9. f <= MaxConcurrent /\ h <= f + x /\ resets' * MaxConcurrent = x
  BY <1>2, <1>8 DEF SlotsCount
<1>10. SlotsCount'
  <2>1. bucket'.inFlight = f - 1
    BY <1>6, <1>8
  <2>2. Cardinality(Holders)' = h - 1
    <3>1. IsFiniteSet(Holders)
      BY DueAreHolders
    <3> QED BY <1>7, <1>8, <3>1, FS_RemoveElement
  <2> QED BY <1>9, <2>1, <2>2, ModelCallsAssumption DEF SlotsCount
<1>11. DebtIsCovered' /\ GrantsArePaid' /\ GrantsFitTheRate'
  BY <1>2, <1>6, <1>7 DEF DebtIsCovered, GrantsArePaid, GrantsFitTheRate, Slots
<1>12. ModelTypes'
  BY <1>2, <1>5, <1>6 DEF ModelTypes
<1>13. GivesUpForAReason'
  BY <1>1, <1>4, <1>5, ReasonsByCall DEF ReasonOf
<1> QED BY <1>10, <1>11, <1>12, <1>13

(* A reset forgets those who wait, and counts a set of slots more.           *)
LEMMA BucketIsReset ==
    ASSUME ModelInv, ResetBucket
    PROVE  ModelInv'
<1> USE DEF ModelInv
<1>1. /\ bucket' = [units |-> MaxRequests * Interval, lastRefill |-> clock, inFlight |-> 0]
      /\ granted' = <<>> /\ resets' = resets + 1 /\ resets < MaxResets
      /\ UNCHANGED <<calls, streams, received, clock>>
  BY DEF ResetBucket
<1>2. /\ MaxRequests \in Nat \ {0} /\ Interval \in Nat \ {0} /\ MaxConcurrent \in Nat \ {0} /\ clock \in Nat
      /\ MaxResets \in Nat /\ resets \in Nat
  BY ModelCallsAssumption DEF ModelTypes
<1>3. PICK full \in Nat : full = MaxRequests * Interval
  BY <1>2
<1>4. /\ bucket'.units = full /\ bucket'.lastRefill = clock /\ bucket'.inFlight = 0
      /\ bucket' \in [units : Int, lastRefill : Nat, inFlight : Int]
  BY <1>1, <1>2, <1>3
<1>5. Holders' = Holders /\ \A t : DueBy(t)' = DueBy(t)
  BY <1>1 DEF Holders, DueBy
<1>6. PICK h \in Nat, x \in Nat : h = Cardinality(Holders) /\ x = resets * MaxConcurrent
  BY DueAreHolders
<1>7. h <= MaxConcurrent + x /\ resets' * MaxConcurrent = x + MaxConcurrent
  <2>1. (resets + 1) * MaxConcurrent = resets * MaxConcurrent + MaxConcurrent
    BY <1>2
  <2> QED BY <1>1, <1>2, <1>6, <2>1, DueAreHolders
<1>8. Slots' = x + MaxConcurrent + MaxConcurrent
  BY <1>1, <1>2, <1>6, <1>7 DEF Slots
<1>9. SlotsCount'
  <2>1. Cardinality(Holders)' = h
    BY <1>5, <1>6
  <2> QED BY <1>2, <1>4, <1>7, <2>1 DEF SlotsCount
<1>10. ASSUME NEW n \in Int, n <= 0 PROVE n * Interval <= 0 /\ n * Interval \in Int
  BY <1>2, <1>10, TimesIsMonotone
<1>11. DebtIsCovered'
  <2>1. bucket'.units >= (1 - Slots') * Interval
    <3>1. 1 - Slots' \in Int /\ 1 - Slots' <= 0
      BY <1>2, <1>8
    <3>2. PICK n \in Int : n = 1 - Slots' /\ n <= 0
      BY <3>1
    <3> QED BY <1>4, <1>10, <3>2
  <2>2. ASSUME NEW t \in Nat, t >= clock
        PROVE  full + (t - clock) * MaxRequests >= (Cardinality(DueBy(t)) + 1 - Slots') * Interval
    <3>1. PICK n \in Int : n = Cardinality(DueBy(t)) + 1 - Slots' /\ n <= 0
      <4>1. Cardinality(DueBy(t)) \in Nat /\ Cardinality(DueBy(t)) <= h
        BY <1>6, DueAreHolders
      <4> QED BY <1>2, <1>7, <1>8, <4>1
    <3>2. n * Interval <= 0 /\ n * Interval \in Int
      BY <1>10, <3>1
    <3>3. (t - clock) * MaxRequests \in Nat
      BY <1>2, <2>2
    <3> QED BY <3>1, <3>2, <3>3
  <2>3. clock' = clock /\ \A t : Cardinality(DueBy(t))' = Cardinality(DueBy(t))
    BY <1>1, <1>5
  <2> QED BY <1>4, <2>1, <2>2, <2>3 DEF DebtIsCovered
<1>12. granted' \in Seq(Nat) /\ GrantsArePaid' /\ GrantsFitTheRate'
  <2>1. Len(granted') = 0 /\ granted' \in Seq(Nat)
    BY <1>1, EmptySeq
  <2>2. 1..Len(granted') = {}
    BY <2>1
  <2> QED BY <2>1, <2>2 DEF GrantsArePaid, GrantsFitTheRate
<1>13. ModelTypes'
  <2>1. bucket'.units <= MaxRequests * Interval /\ bucket'.lastRefill <= clock'
    BY <1>1, <1>2, <1>3, <1>4
  <2>2. resets' \in 0..MaxResets
    BY <1>1, <1>2
  <2> QED BY <1>1, <1>4, <1>12, <2>1, <2>2 DEF ModelTypes
<1>14. GivesUpForAReason'
  BY <1>1 DEF GivesUpForAReason, CallAt
<1> QED BY <1>9, <1>11, <1>12, <1>13, <1>14

-----------------------------------------------------------------------------
(* A call beyond the bucket moves on for a reason, and the bucket rests.     *)
LEMMA CallGoesOn ==
    ASSUME ModelInv, NEW c \in ModelCallers, NEW r \in ModelCallRecords, calls' = [calls EXCEPT ![c] = r],
           calls[c].pc \notin {"asleep", "held"}, r.pc \notin {"asleep", "held"}, ReasonOf(r, ProviderOf[c]),
           UNCHANGED <<bucket, streams, clock, granted, resets>>
    PROVE  ModelInv'
<1> USE DEF ModelInv
<1>1. /\ calls' \in [ModelCallers -> ModelCallRecords] /\ calls'[c] = r
      /\ \A d \in ModelCallers \ {c} : calls'[d] = calls[d]
  BY OneCallMoves
<1>2. Holders' = Holders /\ \A t : DueBy(t)' = DueBy(t)
  BY <1>1, NobodyWaits
<1>3. clock' \in Nat /\ clock' >= clock
  BY ModelCallsAssumption DEF ModelTypes
<1>4. SlotsCount' /\ DebtIsCovered' /\ GrantsArePaid' /\ GrantsFitTheRate'
  BY <1>2, <1>3, BucketRests
<1>5. ModelTypes'
  BY <1>1 DEF ModelTypes
<1>6. GivesUpForAReason'
  <2> SUFFICES ASSUME NEW d \in ModelCallers PROVE ReasonOf(calls'[d], ProviderOf[d])
    BY ReasonsByCall
  <2>1. CASE d = c
    BY <1>1, <2>1
  <2>2. CASE d # c
    <3>1. ReasonOf(calls[d], ProviderOf[d])
      BY ReasonsByCall
    <3> QED BY <1>1, <2>2, <3>1
  <2> QED BY <2>1, <2>2
<1> QED BY <1>4, <1>5, <1>6

(* The numbers of a call that stands before its next request: one more still *)
(* fits.                                                                    *)
LEMMA OneMoreFits ==
    ASSUME NEW call \in ModelCallRecords,
           call.requests = call.wrapped * (ProviderRetries + 1) + call.attempt
    PROVE  call.requests + 1 <= (WrapRetries + 1) * (ProviderRetries + 1)
<1>1. WrapRetries \in Nat /\ ProviderRetries \in Nat
  BY ModelCallsAssumption
<1>2. PICK k \in Nat, a \in Nat, n \in Nat, all \in Nat :
          /\ k = call.wrapped /\ a = call.attempt /\ n = call.requests /\ all = ProviderRetries + 1
          /\ k <= WrapRetries /\ a < all /\ n = k * all + a
  BY <1>1 DEF ModelCallRecords
<1>3. k * all <= WrapRetries * all
  BY <1>1, <1>2, TimesIsMonotone
<1>4. (WrapRetries + 1) * all = WrapRetries * all + all
  BY <1>1
<1>5. k * all \in Nat /\ WrapRetries * all \in Nat
  BY <1>1
<1> QED BY <1>2, <1>3, <1>4, <1>5

(* A delay is a time.                                                        *)
LEMMA DelaysAreNatural == \A attempt : Delays(attempt) \subseteq Nat
<1> TAKE attempt
<1> DEFINE delay == Lesser(BaseDelay * 2^attempt, MaxDelay)
<1> HIDE DEF delay
<1>1. {d \in 0..2 * delay : 10 * (d - delay) <= delay /\ 10 * (delay - d) <= delay} \subseteq Nat
  OBVIOUS
<1> QED BY <1>1 DEF Delays, delay

(* A request is sent.                                                        *)
LEMMA RequestIsSent ==
    ASSUME ModelInv, NEW c \in ModelCallers, NEW sent, Attempt(c, sent)
    PROVE  ModelInv'
<1> USE DEF ModelInv
<1>1. PICK call \in ModelCallRecords : call = calls[c] /\ call.pc \in {"call", "backoff"}
  BY DEF Attempt, CallAt, ModelTypes
<1> DEFINE r == [call EXCEPT !.pc = "asked", !.requests = call.requests + 1]
<1>2. calls' = [calls EXCEPT ![c] = r]
  <2>1. calls' = [calls EXCEPT ![c].pc = "asked", ![c].requests = @ + 1]
    BY DEF Attempt
  <2> QED BY <1>1, <2>1 DEF ModelTypes
<1>3. call.requests = call.wrapped * (ProviderRetries + 1) + call.attempt
  <2>1. ReasonOf(call, ProviderOf[c])
    BY <1>1, ReasonsByCall
  <2>2. call.wrapped * (ProviderRetries + 1) + call.attempt \in Int
    BY ModelCallsAssumption DEF ModelCallRecords
  <2> QED BY <1>1, <2>1, <2>2 DEF ReasonOf
<1>4. call.requests + 1 <= (WrapRetries + 1) * (ProviderRetries + 1) /\ call.requests \in Nat
  BY <1>3, OneMoreFits DEF ModelCallRecords
<1>5. /\ r \in ModelCallRecords /\ r.pc = "asked" /\ r.requests = call.requests + 1 /\ r.wrapped = call.wrapped
      /\ r.attempt = call.attempt
  <2>1. call.requests + 1 \in Nat
    BY <1>4
  <2> QED BY <2>1 DEF ModelCallRecords, CallStates
<1> HIDE DEF r
<1>6. ReasonOf(r, ProviderOf[c])
  BY <1>3, <1>4, <1>5 DEF ReasonOf
<1>7. UNCHANGED <<bucket, streams, clock, granted, resets>>
  BY DEF Attempt
<1> QED BY <1>1, <1>2, <1>5, <1>6, <1>7, CallGoesOn

(* It is answered.                                                           *)
LEMMA RequestIsAnswered ==
    ASSUME ModelInv, NEW c \in ModelCallers, ModelAnswers(c)
    PROVE  ModelInv'
<1> USE DEF ModelInv
<1>1. PICK call \in ModelCallRecords : call = calls[c] /\ call.pc = "asked"
  BY DEF ModelAnswers, CallAt, ModelTypes
<1> DEFINE r == [call EXCEPT !.pc = "done", !.status = 200]
<1>2. calls' = [calls EXCEPT ![c] = r]
  <2>1. calls' = [calls EXCEPT ![c].pc = "done", ![c].status = 200]
    BY DEF ModelAnswers
  <2> QED BY <1>1, <2>1 DEF ModelTypes
<1>3. /\ r \in ModelCallRecords /\ r.pc = "done" /\ r.requests = call.requests /\ r.wrapped = call.wrapped
      /\ r.attempt = call.attempt
  BY ModelCallsAssumption DEF ModelCallRecords, CallStates
<1> HIDE DEF r
<1>4. ReasonOf(call, ProviderOf[c])
  BY <1>1, ReasonsByCall
<1>5. ReasonOf(r, ProviderOf[c])
  BY <1>1, <1>3, <1>4 DEF ReasonOf
<1>6. UNCHANGED <<bucket, streams, clock, granted, resets>>
  BY DEF ModelAnswers
<1> QED BY <1>1, <1>2, <1>3, <1>5, <1>6, CallGoesOn

(* It fails: its provider repeats it, or the wrapper does, or the call fails. *)
LEMMA RequestHasFailed ==
    ASSUME ModelInv, NEW c \in ModelCallers, ModelFails(c)
    PROVE  ModelInv'
<1> USE DEF ModelInv
<1>1. PICK call \in ModelCallRecords : call = calls[c] /\ call.pc = "asked"
  BY DEF ModelFails, CallAt, ModelTypes
<1>2. UNCHANGED <<bucket, streams, clock, granted, resets>>
  BY DEF ModelFails
<1> DEFINE all == ProviderRetries + 1
<1>3. WrapRetries \in Nat /\ ProviderRetries \in Nat /\ all \in Nat \ {0} /\ clock \in Nat
  BY ModelCallsAssumption DEF ModelTypes
<1>4. /\ call.requests \in Nat /\ call.requests <= (WrapRetries + 1) * all
      /\ call.requests = call.wrapped * all + call.attempt + 1
      /\ call.wrapped \in 0..WrapRetries /\ call.attempt \in 0..ProviderRetries
  <2>1. ReasonOf(call, ProviderOf[c])
    BY <1>1, ReasonsByCall
  <2> QED BY <1>1, <2>1 DEF ReasonOf, ModelCallRecords
<1>5. PICK status \in Replies \ {200} :
          LET after == [calls[c] EXCEPT !.status = status]
              again == ProviderRepeats(ProviderOf[c], status) /\ after.attempt < ProviderRetries
              wrap == WrapperRepeats(status) /\ after.wrapped < WrapRetries
          IN  \/ /\ again
                 /\ \E ms \in Delays(after.attempt) :
                      calls' = [calls EXCEPT ![c] = [after EXCEPT !.pc = "backoff",
                                   !.wake = clock + ms, !.attempt = @ + 1]]
              \/ /\ ~again /\ wrap
                 /\ \E ms \in Delays(after.wrapped) :
                      calls' = [calls EXCEPT ![c] = [after EXCEPT !.pc = "backoff",
                                   !.wake = clock + ms, !.attempt = 0, !.wrapped = @ + 1]]
              \/ /\ ~again /\ ~wrap
                 /\ calls' = [calls EXCEPT ![c] = [after EXCEPT !.pc = "failed"]]
  BY DEF ModelFails
<1> DEFINE again == ProviderRepeats(ProviderOf[c], status) /\ call.attempt < ProviderRetries
           wrap == WrapperRepeats(status) /\ call.wrapped < WrapRetries
<1>6. \/ /\ again
         /\ \E ms \in Nat :
                calls' = [calls EXCEPT ![c] = [call EXCEPT !.status = status, !.pc = "backoff", !.wake = clock + ms,
                                                           !.attempt = call.attempt + 1]]
      \/ /\ ~again /\ wrap
         /\ \E ms \in Nat :
                calls' = [calls EXCEPT ![c] = [call EXCEPT !.status = status, !.pc = "backoff", !.wake = clock + ms,
                                                           !.attempt = 0, !.wrapped = call.wrapped + 1]]
      \/ /\ ~again /\ ~wrap
         /\ calls' = [calls EXCEPT ![c] = [call EXCEPT !.status = status, !.pc = "failed"]]
  <2> DEFINE after == [call EXCEPT !.status = status]
  <2>1. after.attempt = call.attempt /\ after.wrapped = call.wrapped
    BY DEF ModelCallRecords
  <2>2. /\ \A ms : [after EXCEPT !.pc = "backoff", !.wake = clock + ms, !.attempt = after.attempt + 1]
                       = [call EXCEPT !.status = status, !.pc = "backoff", !.wake = clock + ms,
                                      !.attempt = call.attempt + 1]
        /\ \A ms : [after EXCEPT !.pc = "backoff", !.wake = clock + ms, !.attempt = 0, !.wrapped = after.wrapped + 1]
                       = [call EXCEPT !.status = status, !.pc = "backoff", !.wake = clock + ms,
                                      !.attempt = 0, !.wrapped = call.wrapped + 1]
        /\ [after EXCEPT !.pc = "failed"] = [call EXCEPT !.status = status, !.pc = "failed"]
    BY DEF ModelCallRecords
  <2>3. \/ /\ again
           /\ \E ms \in Nat : calls' = [calls EXCEPT ![c] =
                  [after EXCEPT !.pc = "backoff", !.wake = clock + ms, !.attempt = after.attempt + 1]]
        \/ /\ ~again /\ wrap
           /\ \E ms \in Nat : calls' = [calls EXCEPT ![c] =
                  [after EXCEPT !.pc = "backoff", !.wake = clock + ms, !.attempt = 0, !.wrapped = after.wrapped + 1]]
        \/ /\ ~again /\ ~wrap
           /\ calls' = [calls EXCEPT ![c] = [after EXCEPT !.pc = "failed"]]
    BY ZenonT(40), <1>1, <1>5, <2>1, DelaysAreNatural
  <2> HIDE DEF after
  <2> QED BY <2>2, <2>3
<1> HIDE DEF again, wrap
<1>7. CASE again
  <2>1. PICK ms \in Nat :
            calls' = [calls EXCEPT ![c] = [call EXCEPT !.status = status, !.pc = "backoff", !.wake = clock + ms,
                                                       !.attempt = call.attempt + 1]]
    BY <1>6, <1>7
  <2> DEFINE r == [call EXCEPT !.status = status, !.pc = "backoff", !.wake = clock + ms,
                               !.attempt = call.attempt + 1]
  <2>2. clock + ms \in Nat /\ call.attempt + 1 \in 0..ProviderRetries
    BY <1>3, <1>4, <1>7 DEF again
  <2>3. /\ r \in ModelCallRecords /\ r.pc = "backoff" /\ r.requests = call.requests /\ r.wrapped = call.wrapped
        /\ r.attempt = call.attempt + 1
    BY <2>2 DEF ModelCallRecords, CallStates
  <2>4. calls' = [calls EXCEPT ![c] = r]
    BY <2>1
  <2> HIDE DEF r
  <2>5. call.requests = call.wrapped * all + (call.attempt + 1) + 0
    <3>1. call.wrapped * all \in Int
      BY <1>3, <1>4
    <3> QED BY <1>4, <3>1
  <2>6. ReasonOf(r, ProviderOf[c])
    BY <1>4, <2>3, <2>5 DEF ReasonOf
  <2> QED BY <1>1, <1>2, <2>3, <2>4, <2>6, CallGoesOn
<1>8. ProviderRepeats(ProviderOf[c], status) => call.attempt = ProviderRetries \/ again
  BY <1>3, <1>4 DEF again
<1>9. status = 429 => ProviderRepeats(ProviderOf[c], status)
  BY DEF ProviderRepeats, OpenAIRepeats, AnthropicRepeats
<1>10. ASSUME ~again, status = 429 PROVE call.requests = (call.wrapped + 1) * all
  <2>1. call.attempt = ProviderRetries
    BY <1>8, <1>9, <1>10
  <2>2. (call.wrapped + 1) * all = call.wrapped * all + all /\ call.wrapped * all \in Int
    BY <1>3, <1>4
  <2> QED BY <1>3, <1>4, <2>1, <2>2
<1>11. CASE ~again /\ wrap
  <2>1. PICK ms \in Nat :
            calls' = [calls EXCEPT ![c] = [call EXCEPT !.status = status, !.pc = "backoff", !.wake = clock + ms,
                                                       !.attempt = 0, !.wrapped = call.wrapped + 1]]
    BY <1>6, <1>11
  <2> DEFINE r == [call EXCEPT !.status = status, !.pc = "backoff", !.wake = clock + ms,
                               !.attempt = 0, !.wrapped = call.wrapped + 1]
  <2>2. clock + ms \in Nat /\ call.wrapped + 1 \in 0..WrapRetries /\ 0 \in 0..ProviderRetries
    BY <1>3, <1>4, <1>11 DEF wrap
  <2>3. /\ r \in ModelCallRecords /\ r.pc = "backoff" /\ r.requests = call.requests /\ r.wrapped = call.wrapped + 1
        /\ r.attempt = 0
    BY <2>2 DEF ModelCallRecords, CallStates
  <2>4. calls' = [calls EXCEPT ![c] = r]
    BY <2>1
  <2> HIDE DEF r
  <2>5. call.requests = (call.wrapped + 1) * all + 0 + 0
    <3>1. status = 429
      BY <1>11 DEF wrap, WrapperRepeats
    <3>2. (call.wrapped + 1) * all \in Int
      BY <1>3, <1>4
    <3> QED BY <1>10, <1>11, <3>1, <3>2
  <2>6. ReasonOf(r, ProviderOf[c])
    BY <1>4, <2>3, <2>5 DEF ReasonOf
  <2> QED BY <1>1, <1>2, <2>3, <2>4, <2>6, CallGoesOn
<1>12. CASE ~again /\ ~wrap
  <2> DEFINE r == [call EXCEPT !.status = status, !.pc = "failed"]
  <2>1. /\ r \in ModelCallRecords /\ r.pc = "failed" /\ r.requests = call.requests /\ r.wrapped = call.wrapped
        /\ r.attempt = call.attempt /\ r.status = status
    BY DEF ModelCallRecords, CallStates
  <2>2. calls' = [calls EXCEPT ![c] = r]
    BY <1>6, <1>12
  <2> HIDE DEF r
  <2>3. status = 429 => call.requests = (WrapRetries + 1) * all
    <3>1. status = 429 => call.wrapped = WrapRetries
      BY <1>3, <1>4, <1>12 DEF wrap, WrapperRepeats
    <3> QED BY <1>10, <1>12, <3>1
  <2>4. ProviderRepeats(ProviderOf[c], status) => call.attempt = ProviderRetries
    BY <1>8, <1>12
  <2>5. ReasonOf(r, ProviderOf[c])
    BY <1>4, <2>1, <2>3, <2>4 DEF ReasonOf
  <2> QED BY <1>1, <1>2, <2>1, <2>2, <2>5, CallGoesOn
<1> QED BY <1>6, <1>7, <1>11, <1>12

(* Streams and time leave the calls as they are.                             *)
LEMMA CallsRest ==
    ASSUME ModelInv, UNCHANGED <<bucket, calls, granted, resets>>,
           streams' \in [Streams -> [pc : {"idle", "open", "ended", "broken"}, pieces : 0..MaxPieces]],
           clock' \in 0..MaxClock, clock' >= clock
    PROVE  ModelInv'
<1> USE DEF ModelInv
<1>1. MaxClock \in Nat /\ clock \in Nat /\ clock' \in Nat
  BY ModelCallsAssumption DEF ModelTypes
<1>2. Holders' = Holders /\ \A t : DueBy(t)' = DueBy(t)
  BY DEF Holders, DueBy
<1>3. SlotsCount' /\ DebtIsCovered' /\ GrantsArePaid' /\ GrantsFitTheRate'
  BY <1>1, <1>2, BucketRests
<1>4. ModelTypes'
  <2>1. bucket'.lastRefill <= clock'
    BY <1>1 DEF ModelTypes
  <2> QED BY <2>1 DEF ModelTypes
<1>5. GivesUpForAReason'
  BY DEF GivesUpForAReason, CallAt
<1> QED BY <1>3, <1>4, <1>5

(* The inductive invariant of the calls of a model.                          *)
LEMMA ModelInvariant == ModelSpec => []ModelInv
<1> USE ModelCallsAssumption
<1>1. ModelInit => ModelInv
  <2> SUFFICES ASSUME ModelInit PROVE ModelInv
    OBVIOUS
  <2>1. \A c \in ModelCallers : calls[c] = NewCall
    BY DEF ModelInit
  <2>2. Holders = {} /\ \A t : DueBy(t) = {}
    BY <2>1 DEF Holders, DueBy, NewCall
  <2>3. /\ bucket.units = MaxRequests * Interval /\ bucket.lastRefill = 0 /\ bucket.inFlight = 0 /\ clock = 0
        /\ resets = 0 /\ granted = <<>> /\ MaxRequests * Interval \in Nat
    BY DEF ModelInit
  <2>4. ModelTypes
    <3>1. NewCall \in ModelCallRecords
      BY DEF NewCall, ModelCallRecords, CallStates
    <3>2. calls \in [ModelCallers -> ModelCallRecords]
      BY <3>1 DEF ModelInit
    <3>3. streams \in [Streams -> [pc : {"idle", "open", "ended", "broken"}, pieces : 0..MaxPieces]]
      BY DEF ModelInit
    <3>4. bucket \in [units : Int, lastRefill : Nat, inFlight : Int]
      BY <2>3 DEF ModelInit
    <3>5. granted \in Seq(Nat)
      BY <2>3, EmptySeq
    <3> QED BY <2>3, <3>2, <3>3, <3>4, <3>5 DEF ModelTypes
  <2>5. Slots = MaxConcurrent
    BY <2>3 DEF Slots
  <2>6. SlotsCount
    <3>1. Cardinality(Holders) = 0 /\ resets * MaxConcurrent = 0
      BY <2>2, <2>3, FS_EmptySet
    <3> QED BY <2>3, <3>1 DEF SlotsCount
  <2>7. DebtIsCovered
    <3>1. PICK n \in Int : n = 1 - Slots /\ n <= 0
      BY <2>5
    <3>2. n * Interval <= 0 * Interval /\ 0 * Interval = 0 /\ n * Interval \in Int
      BY <3>1, TimesIsMonotone
    <3>3. ASSUME NEW t \in Nat
          PROVE  bucket.units + (t - bucket.lastRefill) * MaxRequests >= (Cardinality(DueBy(t)) + 1 - Slots) * Interval
      <4>1. Cardinality(DueBy(t)) + 1 - Slots = n
        BY <2>2, <2>5, <3>1, FS_EmptySet
      <4>2. (t - bucket.lastRefill) * MaxRequests \in Nat
        BY <2>3
      <4> QED BY <2>3, <3>2, <4>1, <4>2
    <3>4. bucket.units >= (1 - Slots) * Interval
      BY <2>3, <3>1, <3>2
    <3> QED BY <3>3, <3>4 DEF DebtIsCovered
  <2>8. GrantsArePaid /\ GrantsFitTheRate
    <3>1. 1..Len(granted) = {}
      BY <2>3
    <3> QED BY <3>1 DEF GrantsArePaid, GrantsFitTheRate
  <2>9. GivesUpForAReason
    <3> SUFFICES ASSUME NEW c \in ModelCallers PROVE ReasonOf(calls[c], ProviderOf[c])
      BY ReasonsByCall
    <3>1. 0 <= (WrapRetries + 1) * (ProviderRetries + 1) /\ 0 * (ProviderRetries + 1) = 0
      BY TimesIsMonotone
    <3> QED BY <2>1, <3>1 DEF ReasonOf, NewCall
  <2> QED BY <2>4, <2>6, <2>7, <2>8, <2>9 DEF ModelInv
<1>2. ModelInv /\ [ModelNext]_modelVars => ModelInv'
  <2> SUFFICES ASSUME ModelInv, [ModelNext]_modelVars PROVE ModelInv'
    OBVIOUS
  <2>1. ASSUME NEW c \in ModelCallers, AcquireNow(c) \/ AcquireLater(c) \/ TakeToken(c) \/ ReleaseSlot(c)
        PROVE  ModelInv'
    BY <2>1, TakenAtOnce, TokenIsAwaited, TakenAfterSleep, SlotIsReleased
  <2>2. ASSUME NEW c \in ModelCallers,
               OpenAIChat(c) \/ AnthropicChat(c) \/ GenerateEmbedding(c) \/ GenerateEmbeddings(c)
        PROVE  ModelInv'
    <3>1. PICK sent : Attempt(c, sent)
      BY <2>2 DEF OpenAIChat, AnthropicChat, GenerateEmbedding, GenerateEmbeddings
    <3> QED BY <3>1, RequestIsSent
  <2>3. ASSUME NEW c \in ModelCallers, ModelAnswers(c) \/ ModelFails(c) PROVE ModelInv'
    BY <2>3, RequestIsAnswered, RequestHasFailed
  <2>4. ASSUME NEW s \in Streams, OpenAIStream(s) \/ AnthropicStream(s) \/ StreamYields(s) \/ StreamEnds(s)
        PROVE  ModelInv'
    <3>1. UNCHANGED <<bucket, calls, clock, granted, resets>>
      BY <2>4 DEF OpenAIStream, AnthropicStream, OpenStream, StreamYields, StreamEnds
    <3>2. streams' \in [Streams -> [pc : {"idle", "open", "ended", "broken"}, pieces : 0..MaxPieces]]
      <4>1. PICK st \in [pc : {"idle", "open", "ended", "broken"}, pieces : 0..MaxPieces] : st = streams[s]
        BY DEF ModelInv, ModelTypes
      <4> DEFINE Kinds == [pc : {"idle", "open", "ended", "broken"}, pieces : 0..MaxPieces]
      <4>2. streams \in [Streams -> Kinds]
        BY DEF ModelInv, ModelTypes
      <4>3. \E r \in Kinds : streams' = [streams EXCEPT ![s] = r]
        <5>1. CASE OpenAIStream(s) \/ AnthropicStream(s)
          <6>1. streams' = [streams EXCEPT ![s] = [st EXCEPT !.pc = "open"]]
            BY <4>1, <5>1 DEF OpenAIStream, AnthropicStream, OpenStream
          <6> QED BY <6>1
        <5>2. CASE StreamYields(s)
          <6>1. st.pieces + 1 \in 0..MaxPieces /\ streams' = [streams EXCEPT ![s] = [st EXCEPT !.pieces = st.pieces + 1]]
            BY <4>1, <5>2 DEF StreamYields
          <6>2. [st EXCEPT !.pieces = st.pieces + 1] \in Kinds
            BY <6>1
          <6> QED BY <6>1, <6>2
        <5>3. CASE StreamEnds(s)
          <6>1. PICK pc \in {"ended", "broken"} : streams' = [streams EXCEPT ![s] = [st EXCEPT !.pc = pc]]
            BY <4>1, <5>3 DEF StreamEnds
          <6> QED BY <6>1
        <5> QED BY <2>4, <5>1, <5>2, <5>3
      <4> HIDE DEF Kinds
      <4>4. streams' \in [Streams -> Kinds]
        BY <4>2, <4>3
      <4> QED BY <4>4 DEF Kinds
    <3>3. clock' \in 0..MaxClock /\ clock' >= clock
      BY <3>1 DEF ModelInv, ModelTypes
    <3> QED BY <3>1, <3>2, <3>3, CallsRest
  <2>5. CASE ResetBucket
    BY <2>5, BucketIsReset
  <2>6. CASE ModelClock
    <3>1. /\ UNCHANGED <<bucket, calls, streams, granted, resets>>
          /\ clock' \in 0..MaxClock /\ clock' >= clock
      BY <2>6 DEF ModelClock, ModelInv, ModelTypes
    <3> QED BY <3>1, CallsRest DEF ModelInv, ModelTypes
  <2>7. CASE UNCHANGED modelVars
    <3>1. /\ UNCHANGED <<bucket, calls, streams, granted, resets>>
          /\ clock' \in 0..MaxClock /\ clock' >= clock
      BY <2>7 DEF modelVars, ModelInv, ModelTypes
    <3> QED BY <3>1, CallsRest DEF ModelInv, ModelTypes
  <2> QED BY <2>1, <2>2, <2>3, <2>4, <2>5, <2>6, <2>7 DEF ModelNext
<1> QED BY <1>1, <1>2, PTL DEF ModelSpec

(* The rate limiter and the retries of packages/llm have the types of their   *)
(* fields: what the bucket owes is bounded by the slots.                     *)
THEOREM ModelTypeCorrect == ModelSpec => []ModelTypeOK
<1>1. ModelInv => ModelTypeOK
  <2> SUFFICES ASSUME ModelInv PROVE ModelTypeOK
    OBVIOUS
  <2>a. resets * MaxConcurrent \in Nat /\ (1 - Slots) * Interval \in Int
    <3>1. resets * MaxConcurrent \in Nat /\ Slots \in Nat
      BY DueAreHolders DEF ModelInv
    <3> QED BY <3>1, ModelCallsAssumption
  <2>1. PICK u \in Int, l \in Nat, f \in Int, x \in Nat, low \in Int :
            /\ u = bucket.units /\ l = bucket.lastRefill /\ f = bucket.inFlight /\ x = resets * MaxConcurrent
            /\ low = (1 - Slots) * Interval
    BY <2>a DEF ModelInv, ModelTypes
  <2>2. low <= u /\ u <= MaxRequests * Interval /\ l <= clock /\ f <= MaxConcurrent
    BY <2>1 DEF ModelInv, ModelTypes, DebtIsCovered, SlotsCount
  <2>3. -x <= f
    <3>1. PICK h \in Nat : h = Cardinality(Holders) /\ h <= f + x
      BY <2>1, DueAreHolders DEF ModelInv, SlotsCount
    <3> QED BY <3>1
  <2>4. bucket.units \in (1 - Slots) * Interval..MaxRequests * Interval
    BY <2>1, <2>2, ModelCallsAssumption
  <2>5. bucket.lastRefill \in 0..clock /\ bucket.inFlight \in -(resets * MaxConcurrent)..MaxConcurrent
    BY <2>1, <2>2, <2>3, ModelCallsAssumption DEF ModelInv, ModelTypes
  <2> QED BY <2>4, <2>5 DEF ModelTypeOK, ModelInv, ModelTypes, ModelCallRecords, CallStates
<1> QED BY <1>1, ModelInvariant, PTL

(* Over any stretch of time the rate limiter lets through no more than its    *)
(* bucket, what it is refilled and its slots; and a call gives up only when  *)
(* the two retries around it have nothing left to repeat.                    *)
THEOREM RequestsStayBounded == ModelSpec => []RequestsAreBounded
<1>1. ModelInv => RequestsAreBounded
  BY DEF ModelInv, RequestsAreBounded
<1> QED BY <1>1, ModelInvariant, PTL

-----------------------------------------------------------------------------
(***************************************************************************)
(* Retrieval.  The context window is a loop whose invariant is ContextFits   *)
(* itself with types: rounding up makes the tokens of a text no more than    *)
(* those of its parts (TokensAdd), and what did not fit once never fits.     *)
(***************************************************************************)
PassageRecords == [header : Nat, text : Nat]
Windows == [chunks : Seq(PassageRecords), skipped : Seq(PassageRecords), rest : Seq(PassageRecords),
            tokens : Nat, length : Nat, max : Nat]

(* A text has no more tokens than its two parts: the length may be added up  *)
(* while the tokens are (countTokens rounds up).                            *)
LEMMA TokensAdd ==
    ASSUME NEW a \in Nat, NEW b \in Nat
    PROVE  /\ CountTokens(a) \in Nat
           /\ CountTokens(a + b) <= CountTokens(a) + CountTokens(b)
BY DEF CountTokens

(* What ContextFits says of one window.                                      *)
WindowFits(w) ==
    /\ CountTokens(w.length) <= w.tokens
    /\ w.tokens <= w.max
    /\ \A i \in DOMAIN w.skipped : ~Fits(w, w.skipped[i])

LEMMA WindowStart ==
    ASSUME NEW passages \in Seq(PassageRecords), NEW m \in Nat
    PROVE  NewWindow(passages, m) \in Windows /\ WindowFits(NewWindow(passages, m))
<1>1. NewWindow(passages, m) \in Windows  BY DEF NewWindow, Windows
<1>2. WindowFits(NewWindow(passages, m))
    BY DEF NewWindow, WindowFits, CountTokens
<1>. QED  BY <1>1, <1>2

LEMMA CostType ==
    ASSUME NEW w \in Windows, NEW p \in PassageRecords
    PROVE  /\ Cost(w, p) \in Nat
           /\ w.chunks = <<>> => Cost(w, p) = CountTokens(p.header + p.text)
           /\ w.chunks # <<>> => Cost(w, p) = CountTokens(p.header + p.text) + CountTokens(SeparatorLength)
<1>1. p.header + p.text \in Nat /\ SeparatorLength \in Nat  BY DEF PassageRecords, SeparatorLength
<1>2. CountTokens(p.header + p.text) \in Nat /\ CountTokens(SeparatorLength) \in Nat
    BY <1>1, TokensAdd
<1>. QED  BY <1>2 DEF Cost, Separated

LEMMA WindowTakes ==
    ASSUME NEW w \in Windows, w.rest # <<>>, NEW p, p = Head(w.rest), Fits(w, p), WindowFits(w)
    PROVE  TakePassage(w, p) \in Windows /\ WindowFits(TakePassage(w, p))
<1>0. p \in PassageRecords /\ Tail(w.rest) \in Seq(PassageRecords)  BY DEF Windows
<1>1. PICK cost \in Nat : cost = Cost(w, p)  BY <1>0, CostType
<1>2. PICK sep \in Nat : sep = Separated(w, SeparatorLength)  BY DEF Separated, SeparatorLength
<1>. DEFINE n == p.header + p.text
<1>3. n \in Nat /\ w.length \in Nat /\ w.tokens \in Nat /\ w.max \in Nat
    BY <1>0 DEF PassageRecords, Windows
<1>4. PICK u : u = TakePassage(w, p)  OBVIOUS
<1>5. u = [chunks |-> Append(w.chunks, p), skipped |-> w.skipped, rest |-> Tail(w.rest),
           tokens |-> w.tokens + cost, length |-> w.length + p.header + p.text + sep, max |-> w.max]
    BY <1>4, <1>1, <1>2 DEF TakePassage, Windows
<1>6. w.length + p.header + p.text + sep = w.length + n + sep /\ w.length + n + sep \in Nat
    BY SMTT(30), <1>0 DEF PassageRecords, Windows
<1>. HIDE DEF n
<1>7. u \in Windows
  <2>1. Append(w.chunks, p) \in Seq(PassageRecords)  BY <1>0 DEF Windows
  <2>2. w.skipped \in Seq(PassageRecords) /\ w.tokens + cost \in Nat  BY <1>3 DEF Windows
  <2>. QED  BY <2>1, <2>2, <1>0, <1>3, <1>5, <1>6 DEF Windows
<1>8. CountTokens(u.length) <= u.tokens
  <2>1. SeparatorLength \in Nat /\ w.length + n \in Nat  BY <1>3 DEF SeparatorLength
  <2>2. PICK lt \in Nat : lt = CountTokens(w.length)  BY <1>3, TokensAdd
  <2>3. PICK nt \in Nat : nt = CountTokens(n)  BY <1>3, TokensAdd
  <2>4. PICK st \in Nat : st = CountTokens(SeparatorLength)  BY <2>1, TokensAdd
  <2>5. PICK bt \in Nat : bt = CountTokens(w.length + n)  BY <2>1, TokensAdd
  <2>6. bt <= lt + nt  BY <2>2, <2>3, <2>5, <1>3, TokensAdd
  <2>7. CountTokens(w.length + n + SeparatorLength) <= bt + st
      BY <2>4, <2>5, <2>1, TokensAdd
  <2>8. lt <= w.tokens  BY <2>2 DEF WindowFits
  <2>9. CASE w.chunks = <<>>
    <3>1. cost = nt  BY <2>9, <2>3, <1>0, <1>1, CostType DEF n
    <3>2. sep = 0  BY <2>9, <1>2 DEF Separated
    <3>3. u.length = w.length + n  BY <3>2, <1>5, <1>6, <1>3
    <3>. QED  BY <3>1, <3>3, <2>5, <2>6, <2>8, <1>5, <1>3
  <2>10. CASE w.chunks # <<>>
    <3>1. cost = nt + st  BY <2>10, <2>3, <2>4, <1>0, <1>1, CostType DEF n
    <3>2. sep = SeparatorLength  BY <2>10, <1>2 DEF Separated
    <3>3. u.length = w.length + n + SeparatorLength  BY <3>2, <1>5, <1>6
    <3>4. PICK all \in Nat : all = CountTokens(u.length)  BY <3>3, <1>6, <3>2, TokensAdd
    <3>. QED  BY <3>1, <3>3, <3>4, <2>6, <2>7, <2>8, <1>5, <1>3
  <2>. QED  BY <2>9, <2>10
<1>9. u.tokens <= u.max  BY <1>1, <1>5 DEF Fits
<1>10. ASSUME NEW i \in DOMAIN u.skipped  PROVE ~Fits(u, u.skipped[i])
  <2>0. u.skipped = w.skipped /\ i \in DOMAIN w.skipped  BY <1>5, <1>10
  <2>1. PICK q \in PassageRecords : q = w.skipped[i]  BY <2>0 DEF Windows
  <2>2. ~Fits(w, q)  BY <2>0, <2>1 DEF WindowFits
  <2>3. CountTokens(q.header + q.text) \in Nat /\ CountTokens(SeparatorLength) \in Nat
    <3>1. q.header + q.text \in Nat /\ SeparatorLength \in Nat
        BY <2>1 DEF PassageRecords, SeparatorLength
    <3>. QED  BY <3>1, TokensAdd
  <2>4. u.chunks # <<>>
    <3>1. u.chunks = Append(w.chunks, p) /\ w.chunks \in Seq(PassageRecords)  BY <1>5 DEF Windows
    <3>2. Len(u.chunks) = Len(w.chunks) + 1 /\ Len(w.chunks) \in Nat  BY <3>1, <1>0
    <3>3. Len(<<>>) = 0  OBVIOUS
    <3>. QED  BY <3>2, <3>3
  <2>5. Cost(u, q) = CountTokens(q.header + q.text) + CountTokens(SeparatorLength)
      BY <2>1, <2>4, <1>7, CostType
  <2>6. Cost(w, q) <= Cost(u, q) /\ Cost(w, q) \in Nat /\ Cost(u, q) \in Nat
      BY <2>5, <2>1, <2>3, CostType
  <2>7. u.tokens = w.tokens + cost /\ u.max = w.max  BY <1>5
  <2>8. ~Fits(u, q)  BY <2>2, <2>6, <2>7, <1>3 DEF Fits
  <2>. QED  BY <2>8, <2>1, <2>0
<1>. QED  BY <1>4, <1>7, <1>8, <1>9, <1>10 DEF WindowFits

LEMMA WindowSkips ==
    ASSUME NEW w \in Windows, w.rest # <<>>, NEW p, p = Head(w.rest), ~Fits(w, p), WindowFits(w)
    PROVE  SkipPassage(w, p) \in Windows /\ WindowFits(SkipPassage(w, p))
<1>0. p \in PassageRecords /\ Tail(w.rest) \in Seq(PassageRecords)  BY DEF Windows
<1>1. PICK u : u = SkipPassage(w, p)  OBVIOUS
<1>2. u = [chunks |-> w.chunks, skipped |-> Append(w.skipped, p), rest |-> Tail(w.rest),
           tokens |-> w.tokens, length |-> w.length, max |-> w.max]
    BY <1>1 DEF SkipPassage, Windows
<1>3. Append(w.skipped, p) \in Seq(PassageRecords)  BY <1>0 DEF Windows
<1>4. u \in Windows  BY <1>0, <1>2, <1>3 DEF Windows
<1>5. ASSUME NEW i \in DOMAIN u.skipped  PROVE ~Fits(u, u.skipped[i])
  <2>1. ~Fits(w, u.skipped[i])  BY <1>0, <1>2, <1>5 DEF WindowFits, Windows
  <2>. QED  BY <2>1, <1>2 DEF Fits, Cost, Separated
<1>6. CountTokens(u.length) <= u.tokens /\ u.tokens <= u.max  BY <1>2 DEF WindowFits
<1>. QED  BY <1>1, <1>4, <1>5, <1>6 DEF WindowFits

LEMMA SignOfProduct ==
    ASSUME NEW u \in Int, NEW p \in Nat \ {0}
    PROVE  /\ u >= 0 => p * u >= 0
           /\ u > 0 => p * u > 0
           /\ u < 0 => p * u < 0
OBVIOUS

(* Fractions are ordered as their values are.                                *)
LEMMA CrossProducts ==
    ASSUME NEW an \in Int, NEW bn \in Int, NEW cn \in Int,
           NEW ad \in Nat \ {0}, NEW bd \in Nat \ {0}, NEW cd \in Nat \ {0},
           an * bd >= bn * ad, bn * cd >= cn * bd
    PROVE  /\ an * cd >= cn * ad
           /\ an * bd > bn * ad \/ bn * cd > cn * bd => an * cd > cn * ad
<1>1. PICK u \in Int : u = an * bd - bn * ad  OBVIOUS
<1>2. PICK v \in Int : v = bn * cd - cn * bd  OBVIOUS
<1>3. PICK w \in Int : w = an * cd - cn * ad  OBVIOUS
<1>4. cd * u + ad * v = bd * w
  <2>1. cd * u = cd * (an * bd) - cd * (bn * ad)  BY <1>1
  <2>2. ad * v = ad * (bn * cd) - ad * (cn * bd)  BY <1>2
  <2>3. bd * w = bd * (an * cd) - bd * (cn * ad)  BY <1>3
  <2>4. cd * (bn * ad) = ad * (bn * cd)  OBVIOUS
  <2>5. cd * (an * bd) = bd * (an * cd)  OBVIOUS
  <2>6. ad * (cn * bd) = bd * (cn * ad)  OBVIOUS
  <2>. QED  BY <2>1, <2>2, <2>3, <2>4, <2>5, <2>6
<1>5. u >= 0 /\ v >= 0
  <2>1. an * bd \in Int /\ bn * ad \in Int /\ bn * cd \in Int /\ cn * bd \in Int  OBVIOUS
  <2>. QED  BY <2>1, <1>1, <1>2
<1>6. PICK x \in Int : x = cd * u  OBVIOUS
<1>7. PICK y \in Int : y = ad * v  OBVIOUS
<1>8. PICK z \in Int : z = bd * w  OBVIOUS
<1>9. x >= 0 /\ y >= 0 /\ (u > 0 => x > 0) /\ (v > 0 => y > 0)
    BY <1>5, <1>6, <1>7, SignOfProduct
<1>10. z = x + y  BY <1>4, <1>6, <1>7, <1>8
<1>11. (w < 0 => z < 0) /\ (w <= 0 => z <= 0)
  <2>1. w = 0 => z = 0  BY <1>8
  <2>. QED  BY <2>1, <1>8, SignOfProduct
<1>12. w >= 0 /\ (u > 0 \/ v > 0 => w > 0)  BY <1>9, <1>10, <1>11
<1>13. an * bd \in Int /\ bn * ad \in Int /\ bn * cd \in Int /\ cn * bd \in Int
       /\ an * cd \in Int /\ cn * ad \in Int  OBVIOUS
<1>. QED  BY <1>1, <1>2, <1>3, <1>12, <1>13

LEMMA AboveIsAnOrder ==
    ASSUME NEW a \in Scores, NEW b \in Scores, NEW c \in Scores
    PROVE  /\ ~(Above(a, b) /\ Above(b, a))
           /\ ~Above(b, a) /\ ~Above(c, b) => ~Above(c, a)
           /\ Above(a, b) /\ ~Above(c, b) => Above(a, c)
           /\ ~Above(b, a) /\ Above(b, c) => Above(a, c)
<1>1. /\ a.num \in Int /\ b.num \in Int /\ c.num \in Int
      /\ a.den \in Nat \ {0} /\ b.den \in Nat \ {0} /\ c.den \in Nat \ {0}
    BY DEF Scores
<1>. PICK an \in Int : an = a.num  BY <1>1
<1>. PICK bn \in Int : bn = b.num  BY <1>1
<1>. PICK cn \in Int : cn = c.num  BY <1>1
<1>. PICK ad \in Nat \ {0} : ad = a.den  BY <1>1
<1>. PICK bd \in Nat \ {0} : bd = b.den  BY <1>1
<1>. PICK cd \in Nat \ {0} : cd = c.den  BY <1>1
<1>2. an * bd \in Int /\ bn * ad \in Int /\ bn * cd \in Int /\ cn * bd \in Int
      /\ an * cd \in Int /\ cn * ad \in Int  OBVIOUS
<1>3. /\ Above(a, b) <=> an * bd > bn * ad
      /\ Above(b, a) <=> bn * ad > an * bd
      /\ Above(b, c) <=> bn * cd > cn * bd
      /\ Above(c, b) <=> cn * bd > bn * cd
      /\ Above(a, c) <=> an * cd > cn * ad
      /\ Above(c, a) <=> cn * ad > an * cd
    BY DEF Above
<1>4. ~(Above(a, b) /\ Above(b, a))  BY <1>2, <1>3
<1>5. an * bd >= bn * ad /\ bn * cd >= cn * bd
      => /\ an * cd >= cn * ad
         /\ an * bd > bn * ad \/ bn * cd > cn * bd => an * cd > cn * ad
    BY CrossProducts
<1>6. ~Above(b, a) => an * bd >= bn * ad  BY <1>2, <1>3
<1>7. ~Above(c, b) => bn * cd >= cn * bd  BY <1>2, <1>3
<1>8. Above(a, b) => an * bd >= bn * ad  BY <1>2, <1>3
<1>9. Above(b, c) => bn * cd >= cn * bd  BY <1>2, <1>3
<1>10. an * cd >= cn * ad => ~Above(c, a)  BY <1>2, <1>3
<1>. QED  BY <1>3, <1>4, <1>5, <1>6, <1>7, <1>8, <1>9, <1>10

(* What can be sorted, and what sorting it gives: each element once, and     *)
(* each ahead of those after it (reciprocalRankFusion, reranker.ts).        *)
Sortable(S, score, entered) ==
    /\ IsFiniteSet(S)
    /\ score \in [S -> Scores] /\ entered \in [S -> Int]
    /\ \A x, y \in S : entered[x] = entered[y] => x = y
ByScoreAndEntry(f, S, score, entered) ==
    \E m \in Nat :
        /\ m = Cardinality(S)
        /\ f \in [1..m -> S]
        /\ \A x \in S : \E i \in 1..m : f[i] = x
        /\ \A i, j \in 1..m : f[i] = f[j] => i = j
        /\ \A i, j \in 1..m : i < j => Ahead(score, entered, f[i], f[j])

(* Counting who is ahead of each sorts them.                                *)
LEMMA SortedInOrder ==
    ASSUME NEW S, NEW score, NEW entered, Sortable(S, score, entered)
    PROVE  ByScoreAndEntry(Sorted(S, score, entered), S, score, entered)
<1>0. /\ IsFiniteSet(S)
      /\ score \in [S -> Scores] /\ entered \in [S -> Int]
      /\ \A x, y \in S : entered[x] = entered[y] => x = y
    BY DEF Sortable
<1>. DEFINE before(x) == {y \in S : Ahead(score, entered, y, x)}
<1>1. PICK m \in Nat : m = Cardinality(S)  BY <1>0, FS_CardinalityType
<1>2. ASSUME NEW x \in S  PROVE ~Ahead(score, entered, x, x)
  <2>1. score[x] \in Scores /\ entered[x] \in Int  BY <1>0
  <2>2. ~Above(score[x], score[x])  BY <2>1, AboveIsAnOrder
  <2>. QED  BY <2>1, <2>2 DEF Ahead
<1>3. ASSUME NEW x \in S, NEW y \in S, NEW z \in S,
             Ahead(score, entered, x, y), Ahead(score, entered, y, z)
      PROVE  Ahead(score, entered, x, z)
  <2>1. PICK a \in Scores : a = score[x]  BY <1>0
  <2>2. PICK b \in Scores : b = score[y]  BY <1>0
  <2>3. PICK c \in Scores : c = score[z]  BY <1>0
  <2>4. entered[x] \in Int /\ entered[y] \in Int /\ entered[z] \in Int  BY <1>0
  <2>5. Above(a, b) \/ (~Above(b, a) /\ entered[x] < entered[y])
      BY <1>3, <2>1, <2>2 DEF Ahead
  <2>6. Above(b, c) \/ (~Above(c, b) /\ entered[y] < entered[z])
      BY <1>3, <2>2, <2>3 DEF Ahead
  <2>7. /\ ~(Above(a, b) /\ Above(b, a)) /\ ~(Above(b, c) /\ Above(c, b))
        /\ ~Above(b, a) /\ ~Above(c, b) => ~Above(c, a)
        /\ Above(a, b) /\ ~Above(c, b) => Above(a, c)
        /\ ~Above(b, a) /\ Above(b, c) => Above(a, c)
      BY AboveIsAnOrder
  <2>8. Above(a, c) \/ (~Above(c, a) /\ entered[x] < entered[z])
    <3>1. entered[x] < entered[y] /\ entered[y] < entered[z] => entered[x] < entered[z]  BY <2>4
    <3>. QED  BY <3>1, <2>5, <2>6, <2>7
  <2>. QED  BY <2>8, <2>1, <2>3 DEF Ahead
<1>4. ASSUME NEW x \in S, NEW y \in S, x # y
      PROVE  Ahead(score, entered, x, y) \/ Ahead(score, entered, y, x)
  <2>1. entered[x] \in Int /\ entered[y] \in Int /\ entered[x] # entered[y]  BY <1>0, <1>4
  <2>2. ~(Above(score[x], score[y]) /\ Above(score[y], score[x]))  BY <1>0, AboveIsAnOrder
  <2>. QED  BY <2>1, <2>2 DEF Ahead
<1>5. ASSUME NEW x \in S
      PROVE  /\ IsFiniteSet(before(x)) /\ Cardinality(before(x)) \in 0..m - 1
  <2>1. before(x) \subseteq S \ {x}  BY <1>2
  <2>2. IsFiniteSet(S \ {x}) /\ Cardinality(S \ {x}) = m - 1  BY <1>0, <1>1, FS_RemoveElement
  <2>3. IsFiniteSet(before(x)) /\ Cardinality(before(x)) <= m - 1
      BY <2>1, <2>2, FS_Subset
  <2>4. Cardinality(before(x)) \in Nat  BY <2>3, FS_CardinalityType
  <2>. QED  BY <2>3, <2>4
<1>6. ASSUME NEW x \in S, NEW y \in S, Ahead(score, entered, x, y)
      PROVE  Cardinality(before(x)) < Cardinality(before(y))
  <2>1. before(x) \subseteq before(y)  BY <1>3, <1>6
  <2>2. x \in before(y) /\ x \notin before(x)  BY <1>6, <1>2
  <2>. HIDE DEF before
  <2>3. PICK A : A = before(x)  OBVIOUS
  <2>4. PICK B : B = before(y)  OBVIOUS
  <2>5. A \in SUBSET B /\ A # B /\ IsFiniteSet(B) /\ Cardinality(A) \in Int /\ Cardinality(B) \in Int
      BY <2>1, <2>2, <2>3, <2>4, <1>5
  <2>6. Cardinality(A) <= Cardinality(B) /\ (Cardinality(B) = Cardinality(A) => B = A)
      BY <2>5, FS_Subset
  <2>7. Cardinality(A) < Cardinality(B)  BY <2>5, <2>6
  <2>. QED  BY <2>3, <2>4, <2>7
<1>7. PICK count : count = [x \in S |-> Cardinality(before(x))]  OBVIOUS
<1>. HIDE DEF before
<1>8. count \in [S -> 0..m - 1]  BY <1>5, <1>7
<1>9. ASSUME NEW x \in S, NEW y \in S, count[x] = count[y]  PROVE x = y
  <2>1. count[x] \in Int  BY <1>8
  <2>2. Ahead(score, entered, x, y) => count[x] < count[y]  BY <1>6, <1>7
  <2>3. Ahead(score, entered, y, x) => count[y] < count[x]  BY <1>6, <1>7
  <2>. QED  BY <1>9, <2>1, <2>2, <2>3, <1>4
<1>10. \A n \in 0..m - 1 : \E x \in S : count[x] = n
  <2>1. count \in Injection(S, 0..m - 1)  BY <1>8, <1>9 DEF Injection, IsInjective
  <2>2. IsFiniteSet(0..m - 1) /\ Cardinality(0..m - 1) = m
    <3>1. Cardinality(0..m - 1) = (IF 0 > m - 1 THEN 0 ELSE (m - 1) - 0 + 1) /\ IsFiniteSet(0..m - 1)
        BY FS_Interval
    <3>. QED  BY <3>1
  <2>3. count \in Surjection(S, 0..m - 1)  BY <2>1, <2>2, <1>1, FS_Injection
  <2>. QED  BY <2>3 DEF Surjection
<1>11. PICK f : f = Sorted(S, score, entered)  OBVIOUS
<1>12. f = [n \in 1..m |-> CHOOSE x \in S : Cardinality(before(x)) = n - 1]
    BY <1>1, <1>11 DEF Sorted, before
<1>13. ASSUME NEW n \in 1..m  PROVE f[n] \in S /\ count[f[n]] = n - 1
  <2>1. n - 1 \in 0..m - 1  OBVIOUS
  <2>2. \E x \in S : Cardinality(before(x)) = n - 1  BY <2>1, <1>7, <1>10
  <2>3. f[n] = CHOOSE x \in S : Cardinality(before(x)) = n - 1  BY <1>12
  <2>4. f[n] \in S /\ Cardinality(before(f[n])) = n - 1  BY <2>2, <2>3
  <2>. QED  BY <2>4, <1>7
<1>14. f \in [1..m -> S]  BY <1>12, <1>13
<1>15. ASSUME NEW x \in S  PROVE \E i \in 1..m : f[i] = x
  <2>1. count[x] \in 0..m - 1  BY <1>8
  <2>2. PICK i \in 1..m : i = count[x] + 1  BY <2>1
  <2>3. f[i] \in S /\ count[f[i]] = count[x]  BY <2>1, <2>2, <1>13
  <2>4. f[i] = x  BY <2>3, <1>9
  <2>. QED  BY <2>4
<1>16. ASSUME NEW i \in 1..m, NEW j \in 1..m, f[i] = f[j]  PROVE i = j
  <2>1. i - 1 = j - 1  BY <1>13, <1>16
  <2>. QED  BY <2>1
<1>17. ASSUME NEW i \in 1..m, NEW j \in 1..m, i < j  PROVE Ahead(score, entered, f[i], f[j])
  <2>1. f[i] \in S /\ f[j] \in S /\ count[f[i]] = i - 1 /\ count[f[j]] = j - 1  BY <1>13
  <2>2. f[i] # f[j]  BY <1>16, <1>17
  <2>3. ~Ahead(score, entered, f[j], f[i])
    <3>1. Ahead(score, entered, f[j], f[i]) => count[f[j]] < count[f[i]]  BY <2>1, <1>6, <1>7
    <3>. QED  BY <3>1, <2>1, <1>17
  <2>. QED  BY <2>1, <2>2, <2>3, <1>4
<1>. QED  BY <1>1, <1>11, <1>14, <1>15, <1>16, <1>17 DEF ByScoreAndEntry

(* A list in which each chunk is once, and its chunks' places.               *)
RankedLists(S) == {list \in Seq(S) : \A i, j \in 1..Len(list) : list[i] = list[j] => i = j}

LEMMA RankInList ==
    ASSUME NEW S, NEW list \in RankedLists(S)
    PROVE  /\ \A x : RankIn(list, x) \in 0..Len(list)
           /\ \A x : x \in ToSet(list) <=> RankIn(list, x) # 0
           /\ \A x : RankIn(list, x) # 0 => list[RankIn(list, x)] = x
           /\ \A i \in 1..Len(list) : RankIn(list, list[i]) = i
           /\ \A x, y : RankIn(list, x) = RankIn(list, y) /\ RankIn(list, x) # 0 => x = y
<1>1. list \in Seq(S) /\ DOMAIN list = 1..Len(list) /\ Len(list) \in Nat  BY DEF RankedLists
<1>2. ASSUME NEW x
      PROVE  /\ RankIn(list, x) \in 0..Len(list)
             /\ x \in ToSet(list) <=> RankIn(list, x) # 0
             /\ RankIn(list, x) # 0 => list[RankIn(list, x)] = x
  <2>1. CASE \E i \in DOMAIN list : list[i] = x
    <3>1. RankIn(list, x) = CHOOSE i \in DOMAIN list : list[i] = x  BY <2>1 DEF RankIn
    <3>2. RankIn(list, x) \in DOMAIN list /\ list[RankIn(list, x)] = x  BY <2>1, <3>1
    <3>3. x \in ToSet(list)  BY <2>1 DEF ToSet
    <3>. QED  BY <3>2, <3>3, <1>1
  <2>2. CASE ~\E i \in DOMAIN list : list[i] = x
    <3>1. RankIn(list, x) = 0  BY <2>2 DEF RankIn
    <3>2. x \notin ToSet(list)  BY <2>2 DEF ToSet
    <3>. QED  BY <3>1, <3>2, <1>1
  <2>. QED  BY <2>1, <2>2
<1>3. ASSUME NEW i \in 1..Len(list)  PROVE RankIn(list, list[i]) = i
  <2>1. list[i] \in ToSet(list)  BY <1>1 DEF ToSet
  <2>2. PICK j : j = RankIn(list, list[i])  OBVIOUS
  <2>3. j \in 1..Len(list) /\ list[j] = list[i]  BY <2>1, <2>2, <1>1, <1>2
  <2>. QED  BY <2>2, <2>3 DEF RankedLists
<1>. QED  BY <1>2, <1>3

(* Two places that are no worse, and not both the same, are worth more.      *)
LEMMA TwoPlaces ==
    ASSUME NEW A \in Nat \ {0}, NEW B \in Nat \ {0}, NEW C \in Nat \ {0}, NEW D \in Nat \ {0},
           A <= C, B <= D, A + B < C + D
    PROVE  (A + B) * (C * D) > (C + D) * (A * B)
<1>1. PICK u \in Nat : u = C - A  OBVIOUS
<1>2. PICK v \in Nat : v = D - B  OBVIOUS
<1>3. u + v > 0  BY <1>1, <1>2
<1>4. (A + B) * (C * D) - (C + D) * (A * B) = (B * D) * u + (A * C) * v
  <2>1. (A + B) * (C * D) = A * (C * D) + B * (C * D)  OBVIOUS
  <2>2. (C + D) * (A * B) = C * (A * B) + D * (A * B)  OBVIOUS
  <2>3. (B * D) * u = (B * D) * C - (B * D) * A  BY <1>1
  <2>4. (A * C) * v = (A * C) * D - (A * C) * B  BY <1>2
  <2>5. A * (C * D) = (A * C) * D /\ B * (C * D) = (B * D) * C  OBVIOUS
  <2>6. C * (A * B) = (A * C) * B /\ D * (A * B) = (B * D) * A  OBVIOUS
  <2>. QED  BY <2>1, <2>2, <2>3, <2>4, <2>5, <2>6
<1>5. B * D \in Nat \ {0} /\ A * C \in Nat \ {0}  OBVIOUS
<1>6. PICK x \in Int : x = (B * D) * u  OBVIOUS
<1>7. PICK y \in Int : y = (A * C) * v  OBVIOUS
<1>8. x >= 0 /\ (u > 0 => x > 0)
  <2>. PICK p \in Nat \ {0} : p = B * D  BY <1>5
  <2>. QED  BY <1>6, SignOfProduct
<1>9. y >= 0 /\ (v > 0 => y > 0)
  <2>. PICK p \in Nat \ {0} : p = A * C  BY <1>5
  <2>. QED  BY <1>7, SignOfProduct
<1>10. x + y > 0  BY <1>3, <1>8, <1>9
<1>11. (A + B) * (C * D) \in Int /\ (C + D) * (A * B) \in Int  OBVIOUS
<1>. QED  BY <1>4, <1>6, <1>7, <1>10, <1>11

(* Two places are worth more than one of them.                               *)
LEMMA TwoOverOne ==
    ASSUME NEW A \in Nat \ {0}, NEW B \in Nat \ {0}, NEW C \in Nat \ {0}, A <= C \/ B <= C
    PROVE  (A + B) * C > A * B
<1>1. (A + B) * C = A * C + B * C  OBVIOUS
<1>2. A * C > 0 /\ B * C > 0 /\ A * C \in Int /\ B * C \in Int /\ A * B \in Int  OBVIOUS
<1>3. B <= C => A * B <= A * C
  <2>1. B <= C => B * A <= C * A  BY TimesIsMonotone
  <2>. QED  BY <2>1
<1>4. A <= C => A * B <= B * C
  <2>1. A <= C => A * B <= C * B  BY TimesIsMonotone
  <2>. QED  BY <2>1
<1>. QED  BY <1>1, <1>2, <1>3, <1>4

(* The score of a chunk by its places.                                       *)
RankScore(k, v, w) ==
    IF w = 0 THEN [num |-> 1, den |-> k + v]
    ELSE IF v = 0 THEN [num |-> 1, den |-> k + w]
    ELSE [num |-> 2 * k + v + w, den |-> (k + v) * (k + w)]

LEMMA RankScoreIsAScore ==
    ASSUME NEW k \in Nat \ {0}, NEW v \in Nat, NEW w \in Nat
    PROVE  RankScore(k, v, w) \in Scores
<1>1. k + v \in Nat \ {0} /\ k + w \in Nat \ {0} /\ 2 * k + v + w \in Int  OBVIOUS
<1>2. (k + v) * (k + w) \in Nat \ {0}
  <2>. PICK p \in Nat \ {0} : p = k + v  BY <1>1
  <2>. PICK q \in Nat \ {0} : q = k + w  BY <1>1
  <2>1. p * q \in Nat \ {0}  OBVIOUS
  <2>. QED  BY <2>1
<1>. QED  BY <1>1, <1>2 DEF RankScore, Scores

(* Of two chunks, the one with the better places has the better score.       *)
LEMMA PlacesDecide ==
    ASSUME NEW k \in Nat \ {0}, NEW last \in Nat \ {0},
           NEW va \in 0..last - 1, NEW wa \in 0..last - 1,
           NEW vb \in 0..last - 1, NEW wb \in 0..last - 1,
           va # 0 \/ wa # 0, vb # 0 \/ wb # 0,
           NEW pa, pa = Placed(va, last), NEW qa, qa = Placed(wa, last),
           NEW pb, pb = Placed(vb, last), NEW qb, qb = Placed(wb, last),
           BetterPlaced(pa, qa, pb, qb)
    PROVE  Above(RankScore(k, va, wa), RankScore(k, vb, wb))
<1>1. pa \in Nat /\ qa \in Nat /\ pb \in Nat /\ qb \in Nat  BY DEF Placed
<1>2. (pa <= pb /\ qa <= qb) \/ (pa <= qb /\ qa <= pb)  BY <1>1 DEF Fewer, BetterPlaced
<1>3. Fewer(pa, qa) \in {pa, qa}  BY DEF Fewer
<1>. PICK A \in Nat \ {0} : A = k + va  OBVIOUS
<1>. PICK B \in Nat \ {0} : B = k + wa  OBVIOUS
<1>. PICK C \in Nat \ {0} : C = k + vb  OBVIOUS
<1>. PICK D \in Nat \ {0} : D = k + wb  OBVIOUS
<1>. PICK sa : sa = RankScore(k, va, wa)  OBVIOUS
<1>. PICK sb : sb = RankScore(k, vb, wb)  OBVIOUS
<1>4. /\ wa = 0 => sa = [num |-> 1, den |-> A]
      /\ va = 0 /\ wa # 0 => sa = [num |-> 1, den |-> B]
      /\ va # 0 /\ wa # 0 => sa = [num |-> A + B, den |-> A * B]
    BY DEF RankScore
<1>5. /\ wb = 0 => sb = [num |-> 1, den |-> C]
      /\ vb = 0 /\ wb # 0 => sb = [num |-> 1, den |-> D]
      /\ vb # 0 /\ wb # 0 => sb = [num |-> C + D, den |-> C * D]
    BY DEF RankScore
<1>6. A * B \in Int /\ C * D \in Int  OBVIOUS
<1>7. CASE va # 0 /\ wa # 0 /\ vb # 0 /\ wb # 0
  <2>1. A + B < C + D /\ ((A <= C /\ B <= D) \/ (A <= D /\ B <= C))
      BY <1>2, <1>7 DEF Placed, BetterPlaced
  <2>2. (A + B) * (C * D) > (C + D) * (A * B)
    <3>1. CASE A <= C /\ B <= D  BY <3>1, <2>1, TwoPlaces
    <3>2. CASE A <= D /\ B <= C
      <4>1. (A + B) * (D * C) > (D + C) * (A * B)  BY <3>2, <2>1, TwoPlaces
      <4>2. D * C = C * D /\ D + C = C + D  OBVIOUS
      <4>. QED  BY <4>1, <4>2
    <3>. QED  BY <2>1, <3>1, <3>2
  <2>. QED  BY <1>4, <1>5, <1>7, <2>2 DEF Above
<1>8. CASE va # 0 /\ wa # 0 /\ wb = 0
  <2>1. A <= C \/ B <= C  BY <1>8, <1>1, <1>2 DEF Placed, BetterPlaced
  <2>2. (A + B) * C > A * B  BY <2>1, TwoOverOne
  <2>3. 1 * (A * B) = A * B  BY <1>6
  <2>. QED  BY <1>4, <1>5, <1>8, <2>2, <2>3 DEF Above
<1>9. CASE va # 0 /\ wa # 0 /\ vb = 0
  <2>1. A <= D \/ B <= D  BY <1>9, <1>1, <1>2 DEF Placed, BetterPlaced
  <2>2. (A + B) * D > A * B  BY <2>1, TwoOverOne
  <2>3. 1 * (A * B) = A * B  BY <1>6
  <2>. QED  BY <1>4, <1>5, <1>9, <2>2, <2>3 DEF Above
<1>10. CASE (va = 0 \/ wa = 0) /\ (vb = 0 \/ wb = 0)
  <2>1. PICK ra \in Nat : ra = (IF wa = 0 THEN va ELSE wa)  OBVIOUS
  <2>2. PICK rb \in Nat : rb = (IF wb = 0 THEN vb ELSE wb)  OBVIOUS
  <2>3. ra < rb  BY <1>10, <2>1, <2>2 DEF Placed, BetterPlaced
  <2>4. sa = [num |-> 1, den |-> k + ra] /\ sb = [num |-> 1, den |-> k + rb]
      BY <1>4, <1>5, <1>10, <2>1, <2>2
  <2>. QED  BY <2>3, <2>4 DEF Above
<1>11. CASE (va = 0 \/ wa = 0) /\ vb # 0 /\ wb # 0
  BY <1>11 DEF Placed, Fewer, BetterPlaced
<1>. QED  BY <1>7, <1>8, <1>9, <1>10, <1>11

LEMMA RankedListSize ==
    ASSUME NEW S, NEW list \in RankedLists(S)
    PROVE  /\ ToSet(list) \subseteq S
           /\ IsFiniteSet(ToSet(list))
           /\ Cardinality(ToSet(list)) = Len(list)
<1>1. list \in Seq(S) /\ DOMAIN list = 1..Len(list) /\ Len(list) \in Nat  BY DEF RankedLists
<1>2. PICK T : T = ToSet(list)  OBVIOUS
<1>3. \A x : x \in T <=> \E i \in 1..Len(list) : list[i] = x  BY <1>1, <1>2, ElementsByPosition
<1>4. T \subseteq S  BY <1>1, <1>3
<1>5. list \in [1..Len(list) -> T]
  <2>1. \A i \in 1..Len(list) : list[i] \in T  BY <1>3
  <2>2. list = [i \in 1..Len(list) |-> list[i]]  BY <1>1
  <2>. QED  BY <2>1, <2>2
<1>6. list \in Injection(1..Len(list), T)  BY <1>5 DEF Injection, IsInjective, RankedLists
<1>7. list \in Surjection(1..Len(list), T)  BY <1>3, <1>5 DEF Surjection
<1>8. IsFiniteSet(1..Len(list)) /\ Cardinality(1..Len(list)) = Len(list)
  <2>1. Cardinality(1..Len(list)) = (IF 1 > Len(list) THEN 0 ELSE Len(list) - 1 + 1)
        /\ IsFiniteSet(1..Len(list))
      BY <1>1, FS_Interval
  <2>. QED  BY <2>1, <1>1
<1>9. IsFiniteSet(T) /\ Cardinality(T) = Len(list)  BY <1>6, <1>7, <1>8, FS_Surjection
<1>. QED  BY <1>2, <1>4, <1>9

(* The fused list: each chunk that was found once, the best score first.     *)
LEMMA FusedList ==
    ASSUME NEW S, NEW vector \in RankedLists(S), NEW keyword \in RankedLists(S),
           NEW k \in Nat \ {0},
           NEW found, found = ToSet(vector) \cup ToSet(keyword),
           NEW fused, fused = ReciprocalRankFusion(vector, keyword, k)
    PROVE  /\ found \subseteq S /\ IsFiniteSet(found) /\ Cardinality(found) \in Nat
           /\ Len(vector) <= Cardinality(found) /\ Len(keyword) <= Cardinality(found)
           /\ fused \in RankedLists(found)
           /\ Len(fused) = Cardinality(found) /\ ToSet(fused) = found
           /\ \A id \in found : FusedScore(vector, keyword, k, id) \in Scores
           /\ \A i, j \in 1..Len(fused) : i < j =>
                 ~Above(FusedScore(vector, keyword, k, fused[j]), FusedScore(vector, keyword, k, fused[i]))
<1>1. found \subseteq S /\ IsFiniteSet(found)
    BY RankedListSize, FS_Union
<1>2. PICK m \in Nat : m = Cardinality(found)  BY <1>1, FS_CardinalityType
<1>3. Len(vector) <= m /\ Len(keyword) <= m
  <2>1. ToSet(vector) \in SUBSET found /\ ToSet(keyword) \in SUBSET found  OBVIOUS
  <2>2. Cardinality(ToSet(vector)) <= m /\ Cardinality(ToSet(keyword)) <= m
      BY <1>1, <1>2, <2>1, FS_Subset
  <2>. QED  BY <2>2, RankedListSize
<1>4. PICK score : score = [id \in found |-> FusedScore(vector, keyword, k, id)]  OBVIOUS
<1>5. PICK entered : entered = [id \in found |-> EnteredAt(vector, keyword, id)]  OBVIOUS
<1>6. fused = Sorted(found, score, entered)  BY <1>4, <1>5 DEF ReciprocalRankFusion
<1>7. ASSUME NEW id
      PROVE  FusedScore(vector, keyword, k, id) \in Scores
  <2>1. RankIn(vector, id) \in Nat /\ RankIn(keyword, id) \in Nat
    <3>1. RankIn(vector, id) \in 0..Len(vector) /\ RankIn(keyword, id) \in 0..Len(keyword)
        BY RankInList
    <3>2. Len(vector) \in Nat /\ Len(keyword) \in Nat  BY DEF RankedLists
    <3>. QED  BY <3>1, <3>2
  <2>2. FusedScore(vector, keyword, k, id) = RankScore(k, RankIn(vector, id), RankIn(keyword, id))
      BY DEF FusedScore, RankScore
  <2>. QED  BY <2>1, <2>2, RankScoreIsAScore
<1>8. score \in [found -> Scores]  BY <1>4, <1>7
<1>9. \A id : EnteredAt(vector, keyword, id) \in Int
  <2>1. \A id : RankIn(vector, id) \in 0..Len(vector) /\ RankIn(keyword, id) \in 0..Len(keyword)
      BY RankInList
  <2>2. Len(vector) \in Nat /\ Len(keyword) \in Nat  BY DEF RankedLists
  <2>. QED  BY <2>1, <2>2 DEF EnteredAt
<1>10. entered \in [found -> Int]  BY <1>5, <1>9
<1>11. ASSUME NEW x \in found, NEW y \in found, entered[x] = entered[y]  PROVE x = y
  <2>1. /\ RankIn(vector, x) \in 0..Len(vector) /\ RankIn(keyword, x) \in 0..Len(keyword)
        /\ RankIn(vector, y) \in 0..Len(vector) /\ RankIn(keyword, y) \in 0..Len(keyword)
        /\ RankIn(vector, x) # 0 \/ RankIn(keyword, x) # 0
        /\ RankIn(vector, y) # 0 \/ RankIn(keyword, y) # 0
      BY RankInList
  <2>2. Len(vector) \in Nat /\ Len(keyword) \in Nat  BY DEF RankedLists
  <2>3. EnteredAt(vector, keyword, x) = EnteredAt(vector, keyword, y)  BY <1>5, <1>11
  <2>4. \/ RankIn(vector, x) = RankIn(vector, y) /\ RankIn(vector, x) # 0
        \/ RankIn(keyword, x) = RankIn(keyword, y) /\ RankIn(keyword, x) # 0
      BY <2>1, <2>2, <2>3 DEF EnteredAt
  <2>. QED  BY <2>4, RankInList
<1>12. /\ fused \in [1..m -> found]
       /\ \A x \in found : \E i \in 1..m : fused[i] = x
       /\ \A i, j \in 1..m : fused[i] = fused[j] => i = j
       /\ \A i, j \in 1..m : i < j => Ahead(score, entered, fused[i], fused[j])
  <2>1. Sortable(found, score, entered)  BY <1>1, <1>8, <1>10, <1>11 DEF Sortable
  <2>2. ByScoreAndEntry(fused, found, score, entered)  BY <2>1, <1>6, SortedInOrder
  <2>. QED  BY <2>2, <1>2 DEF ByScoreAndEntry
<1>13. fused \in Seq(found) /\ Len(fused) = m
  <2>1. fused \in [1..m -> found] /\ m \in Nat  BY <1>12
  <2>. QED  BY <2>1
<1>14. fused \in RankedLists(found)  BY <1>12, <1>13 DEF RankedLists
<1>15. ToSet(fused) = found
  <2>1. \A x : x \in ToSet(fused) <=> \E i \in 1..m : fused[i] = x
      BY <1>13, ElementsByPosition
  <2>. QED  BY <2>1, <1>12
<1>16. ASSUME NEW i \in 1..m, NEW j \in 1..m, i < j
       PROVE  ~Above(FusedScore(vector, keyword, k, fused[j]), FusedScore(vector, keyword, k, fused[i]))
  <2>1. Ahead(score, entered, fused[i], fused[j]) /\ fused[i] \in found /\ fused[j] \in found
      BY <1>12, <1>16
  <2>2. score[fused[i]] \in Scores /\ score[fused[j]] \in Scores  BY <1>8, <2>1
  <2>3. ~Above(score[fused[j]], score[fused[i]])  BY <2>1, <2>2, AboveIsAnOrder DEF Ahead
  <2>4. score[fused[i]] = FusedScore(vector, keyword, k, fused[i])
        /\ score[fused[j]] = FusedScore(vector, keyword, k, fused[j])
      BY <2>1, <1>4
  <2>. QED  BY <2>3, <2>4
<1>. QED  BY <1>1, <1>2, <1>3, <1>7, <1>13, <1>14, <1>15, <1>16

ResultRecords == [rank : Nat, chunk : IndexedChunks, score : Scores]

(* Results that name each chunk of found once, up to a limit.                *)
WholeResults(results, found, atMost) ==
    /\ results \in Seq(ResultRecords)
    /\ Len(results) = Fewer(atMost, Cardinality(found))
    /\ \A i \in 1..Len(results) : results[i].rank = i /\ results[i].chunk \in found
    /\ \A i, j \in 1..Len(results) : results[i].chunk = results[j].chunk => i = j

Scored(T, score) == \A id \in T : score[id] \in Scores

(* The results that begin a list.                                           *)
BeginsWith(results, list) ==
    /\ Len(results) <= Len(list)
    /\ \A i \in 1..Len(results) : results[i].chunk = list[i]

LEMMA RankedIds ==
    ASSUME NEW T, T \subseteq IndexedChunks, NEW ids \in RankedLists(T),
           NEW score, Scored(T, score),
           NEW results, results = Ranked(ids, score)
    PROVE  /\ results \in Seq(ResultRecords)
           /\ Len(results) = Len(ids)
           /\ \A i \in 1..Len(ids) : results[i].rank = i /\ results[i].chunk = ids[i]
<1>0. ids \in Seq(T)  BY DEF RankedLists
<1>1. ids \in Seq(T) /\ DOMAIN ids = 1..Len(ids) /\ Len(ids) \in Nat  BY <1>0
<1>2. PICK n \in Nat : n = Len(ids)  BY <1>1
<1>3. results = [i \in 1..n |-> [rank |-> i, chunk |-> ids[i], score |-> score[ids[i]]]]
    BY <1>1, <1>2 DEF Ranked
<1>4. ASSUME NEW i \in 1..n
      PROVE  [rank |-> i, chunk |-> ids[i], score |-> score[ids[i]]] \in ResultRecords
    BY <1>1, <1>2 DEF ResultRecords, Scored
<1>5. results \in [1..n -> ResultRecords]  BY <1>3, <1>4
<1>6. results \in Seq(ResultRecords) /\ Len(results) = n  BY <1>5
<1>7. \A i \in 1..n : results[i].rank = i /\ results[i].chunk = ids[i]  BY <1>3
<1>. QED  BY <1>2, <1>6, <1>7

(* The beginning of a list.                                                 *)
LEMMA CutList ==
    ASSUME NEW T, NEW list \in RankedLists(T), NEW n \in 0..Len(list)
    PROVE  /\ SubSeq(list, 1, n) \in RankedLists(T)
           /\ Len(SubSeq(list, 1, n)) = n
           /\ \A i \in 1..n : SubSeq(list, 1, n)[i] = list[i]
<1>. PICK cut : cut = SubSeq(list, 1, n)  OBVIOUS
<1>1. list \in Seq(T) /\ Len(list) \in Nat  BY DEF RankedLists
<1>2. cut \in Seq(T) /\ Len(cut) = n /\ \A i \in 1..n : cut[i] = list[i]
  <2>1. \A i \in 1..n : list[i] \in T  BY <1>1
  <2>2. 1 \in Int /\ n \in Int  BY <1>1
  <2>3. /\ cut \in Seq(T)
        /\ Len(cut) = IF 1 <= n THEN n - 1 + 1 ELSE 0
        /\ \A i \in 1..(n - 1 + 1) : cut[i] = list[1 + i - 1]
      BY <2>1, <2>2, SubSeqProperties
  <2>4. \A i \in 1..n : i \in 1..(n - 1 + 1) /\ 1 + i - 1 = i  BY <1>1
  <2>5. Len(cut) = n  BY <2>3, <1>1
  <2>. QED  BY <2>3, <2>4, <2>5
<1>3. \A i \in 1..n : i \in 1..Len(list)  BY <1>1
<1>4. \A i, j \in 1..Len(list) : list[i] = list[j] => i = j  BY DEF RankedLists
<1>5. \A i, j \in 1..n : cut[i] = cut[j] => i = j  BY <1>2, <1>3, <1>4
<1>6. cut \in RankedLists(T)  BY <1>2, <1>5 DEF RankedLists
<1>. QED  BY <1>2, <1>6

LEMMA ResultsOfBoth ==
    ASSUME NEW r \in SearchRequests, r.hybrid,
           NEW vector \in RankedLists(IndexedChunks), NEW keyword \in RankedLists(IndexedChunks),
           NEW found, found = ToSet(vector) \cup ToSet(keyword),
           NEW fused, fused = ReciprocalRankFusion(vector, keyword, RrfK),
           NEW results, results = Results(r, vector, keyword)
    PROVE  /\ WholeResults(results, found, r.topK)
           /\ BeginsWith(results, fused)
<1>1. RrfK \in Nat \ {0} /\ r.topK \in Nat  BY RetrievalAssumption
<1>2. /\ found \subseteq IndexedChunks
      /\ fused \in RankedLists(found)
      /\ Len(fused) = Cardinality(found) /\ Cardinality(found) \in Nat /\ ToSet(fused) = found
      /\ \A id \in found : FusedScore(vector, keyword, RrfK, id) \in Scores
    BY <1>1, FusedList
<1>3. PICK n \in 0..Len(fused) : n = Fewer(r.topK, Len(fused))  BY <1>1, <1>2 DEF Fewer
<1>4. PICK cut : cut = SubSeq(fused, 1, n)  OBVIOUS
<1>5. cut \in RankedLists(found) /\ Len(cut) = n /\ \A i \in 1..n : cut[i] = fused[i]
    BY <1>2, <1>4, CutList
<1>6. PICK score : score = [id \in found |-> FusedScore(vector, keyword, RrfK, id)]  OBVIOUS
<1>7. results = Ranked(cut, score)  BY <1>2, <1>3, <1>4, <1>6 DEF Results
<1>8. Scored(found, score)  BY <1>2, <1>6 DEF Scored
<1>9. /\ results \in Seq(ResultRecords) /\ Len(results) = n
      /\ \A i \in 1..n : results[i].rank = i /\ results[i].chunk = cut[i]
    BY <1>2, <1>5, <1>7, <1>8, RankedIds
<1>10. \A i \in 1..n : results[i].chunk = fused[i] /\ fused[i] \in found
  <2>1. \A i \in 1..Len(fused) : fused[i] \in found  BY <1>2 DEF RankedLists
  <2>2. \A i \in 1..n : i \in 1..Len(fused)  BY <1>2
  <2>. QED  BY <2>1, <2>2, <1>5, <1>9
<1>11. \A i, j \in 1..n : results[i].chunk = results[j].chunk => i = j
    BY <1>5, <1>9 DEF RankedLists
<1>12. n = Fewer(r.topK, Cardinality(found)) /\ n <= Len(fused)  BY <1>2, <1>3
<1>. QED  BY <1>9, <1>10, <1>11, <1>12 DEF WholeResults, BeginsWith

(* A list as it came.                                                        *)
LEMMA ResultsInOrder ==
    ASSUME NEW list \in RankedLists(IndexedChunks), NEW atMost \in Nat, Len(list) <= atMost,
           NEW score, score = [id \in ToSet(list) |-> [num |-> 1, den |-> 1 + RankIn(list, id)]]
    PROVE  WholeResults(Ranked(list, score), ToSet(list), atMost)
<1>1. list \in Seq(IndexedChunks) /\ Len(list) \in Nat  BY DEF RankedLists
<1>2. PICK found : found = ToSet(list)  OBVIOUS
<1>4. PICK results : results = Ranked(list, score)  OBVIOUS
<1>5. found \subseteq IndexedChunks /\ Cardinality(found) = Len(list)
    BY <1>2, RankedListSize
<1>6. \A i \in 1..Len(list) : list[i] \in found  BY <1>1, <1>2, ElementsByPosition
<1>7. list \in RankedLists(found)
  <2>1. list \in Seq(found)  BY <1>1, <1>6
  <2>. QED  BY <2>1 DEF RankedLists
<1>8. Scored(found, score)
  <2>1. ASSUME NEW id \in found  PROVE score[id] \in Scores
    <3>1. RankIn(list, id) \in 0..Len(list)  BY RankInList
    <3>2. 1 + RankIn(list, id) \in Nat \ {0}  BY <3>1, <1>1
    <3>. QED  BY <3>2, <1>2 DEF Scores
  <2>. QED  BY <2>1 DEF Scored
<1>9. /\ results \in Seq(ResultRecords) /\ Len(results) = Len(list)
      /\ \A i \in 1..Len(list) : results[i].rank = i /\ results[i].chunk = list[i]
  <2>1. found \subseteq IndexedChunks  BY <1>5
  <2>. QED  BY <1>4, <2>1, <1>7, <1>8, RankedIds
<1>10. \A i, j \in 1..Len(list) : list[i] = list[j] => i = j  BY DEF RankedLists
<1>11. Fewer(atMost, Cardinality(found)) = Len(list)  BY <1>1, <1>5 DEF Fewer
<1>. QED  BY <1>2, <1>4, <1>6, <1>9, <1>10, <1>11 DEF WholeResults

LEMMA ResultsOfOne ==
    ASSUME NEW r \in SearchRequests, ~r.hybrid, NEW list \in RankedLists(IndexedChunks),
           Len(list) <= r.topK
    PROVE  /\ WholeResults(Results(r, list, <<>>), ToSet(list) \cup ToSet(<<>>), r.topK)
           /\ WholeResults(Results(r, <<>>, list), ToSet(<<>>) \cup ToSet(list), r.topK)
<1>1. list \in Seq(IndexedChunks) /\ r.topK \in Nat  BY RetrievalAssumption DEF RankedLists
<1>2. list \o <<>> = list /\ <<>> \o list = list  BY <1>1
<1>3. ToSet(list) \cup ToSet(<<>>) = ToSet(list) /\ ToSet(<<>>) \cup ToSet(list) = ToSet(list)
    BY EmptyElements
<1>4. PICK score : score = [id \in ToSet(list) |-> [num |-> 1, den |-> 1 + RankIn(list, id)]]  OBVIOUS
<1>5. Results(r, list, <<>>) = Ranked(list, score) /\ Results(r, <<>>, list) = Ranked(list, score)
    BY <1>2, <1>4 DEF Results
<1>. QED  BY <1>1, <1>3, <1>4, <1>5, ResultsInOrder

(* The chunks of the results of both queries are the beginning of the fused  *)
(* list.                                                                    *)
LEMMA ChunksOfBoth ==
    ASSUME NEW r \in SearchRequests, r.hybrid,
           NEW vector \in RankedLists(IndexedChunks), NEW keyword \in RankedLists(IndexedChunks),
           NEW results, results = Results(r, vector, keyword),
           NEW fused, fused = ReciprocalRankFusion(vector, keyword, RrfK)
    PROVE  \E n \in Nat : /\ n <= Len(fused)
                          /\ [i \in DOMAIN results |-> results[i].chunk] = [i \in 1..n |-> fused[i]]
<1>1. PICK found : found = ToSet(vector) \cup ToSet(keyword)  OBVIOUS
<1>2. /\ WholeResults(results, found, r.topK)
      /\ BeginsWith(results, fused)
    BY <1>1, ResultsOfBoth
<1>3. PICK n \in Nat : n = Len(results) /\ DOMAIN results = 1..n
    BY <1>2 DEF WholeResults
<1>4. [i \in DOMAIN results |-> results[i].chunk] = [i \in 1..n |-> fused[i]]  BY <1>2, <1>3 DEF BeginsWith
<1>. QED  BY <1>2, <1>3, <1>4 DEF BeginsWith

(* What fusion answers favours neither index.                                *)
LEMMA FusionIsFair ==
    ASSUME NEW vector \in RankedLists(IndexedChunks), NEW keyword \in RankedLists(IndexedChunks),
           NEW found, found = ToSet(vector) \cup ToSet(keyword),
           NEW fused, fused = ReciprocalRankFusion(vector, keyword, RrfK),
           NEW n \in Nat, n <= Len(fused), NEW chunks, chunks = [i \in 1..n |-> fused[i]],
           NEW a \in found, NEW b \in found,
           NEW last, last = Cardinality(found) + 1,
           NEW pa, pa = Placed(RankIn(vector, a), last), NEW qa, qa = Placed(RankIn(keyword, a), last),
           NEW pb, pb = Placed(RankIn(vector, b), last), NEW qb, qb = Placed(RankIn(keyword, b), last),
           BetterPlaced(pa, qa, pb, qb),
           RankIn(chunks, b) # 0
    PROVE  RankIn(chunks, a) \in 1..RankIn(chunks, b) - 1
<1>1. RrfK \in Nat \ {0}  BY RetrievalAssumption
<1>3. /\ Cardinality(found) \in Nat
      /\ Len(vector) <= Cardinality(found) /\ Len(keyword) <= Cardinality(found)
      /\ fused \in RankedLists(found)
      /\ Len(fused) = Cardinality(found) /\ ToSet(fused) = found
      /\ \A id \in found : FusedScore(vector, keyword, RrfK, id) \in Scores
      /\ \A i, j \in 1..Len(fused) : i < j =>
            ~Above(FusedScore(vector, keyword, RrfK, fused[j]), FusedScore(vector, keyword, RrfK, fused[i]))
    BY <1>1, FusedList
<1>7. chunks \in RankedLists(found)
  <2>1. \A i \in 1..n : i \in 1..Len(fused)  BY <1>3
  <2>2. fused \in Seq(found) /\ \A i, j \in 1..Len(fused) : fused[i] = fused[j] => i = j
      BY <1>3 DEF RankedLists
  <2>3. \A i \in 1..n : fused[i] \in found  BY <2>1, <2>2
  <2>4. chunks \in Seq(found) /\ Len(chunks) = n  BY <2>3
  <2>5. \A i, j \in 1..n : chunks[i] = chunks[j] => i = j  BY <2>1, <2>2
  <2>. QED  BY <2>4, <2>5 DEF RankedLists
<1>8. Len(chunks) = n  OBVIOUS
<1>9. PICK j \in 1..n : j = RankIn(chunks, b) /\ fused[j] = b
  <2>1. RankIn(chunks, b) \in 0..Len(chunks) /\ chunks[RankIn(chunks, b)] = b
      BY <1>7, RankInList
  <2>2. PICK j : j = RankIn(chunks, b)  OBVIOUS
  <2>3. j \in 1..n /\ chunks[j] = b  BY <2>1, <2>2, <1>8
  <2>4. fused[j] = b  BY <2>3
  <2>. QED  BY <2>2, <2>3, <2>4
<1>10. PICK i \in 1..Len(fused) : fused[i] = a
  <2>1. fused \in Seq(found)  BY <1>3 DEF RankedLists
  <2>. QED  BY <2>1, <1>3, ElementsByPosition
<1>11. Above(FusedScore(vector, keyword, RrfK, a), FusedScore(vector, keyword, RrfK, b))
  <2>1. last \in Nat \ {0} /\ Len(vector) \in 0..last - 1 /\ Len(keyword) \in 0..last - 1
    <3>1. Len(vector) \in Nat /\ Len(keyword) \in Nat  BY DEF RankedLists
    <3>. QED  BY <3>1, <1>3
  <2>2. /\ RankIn(vector, a) \in 0..Len(vector) /\ RankIn(keyword, a) \in 0..Len(keyword)
        /\ RankIn(vector, b) \in 0..Len(vector) /\ RankIn(keyword, b) \in 0..Len(keyword)
        /\ RankIn(vector, a) # 0 \/ RankIn(keyword, a) # 0
        /\ RankIn(vector, b) # 0 \/ RankIn(keyword, b) # 0
      BY RankInList
  <2>3. /\ RankIn(vector, a) \in 0..last - 1 /\ RankIn(keyword, a) \in 0..last - 1
        /\ RankIn(vector, b) \in 0..last - 1 /\ RankIn(keyword, b) \in 0..last - 1
      BY <2>1, <2>2
  <2>4. Above(RankScore(RrfK, RankIn(vector, a), RankIn(keyword, a)),
              RankScore(RrfK, RankIn(vector, b), RankIn(keyword, b)))
      BY <1>1, <2>1, <2>2, <2>3, PlacesDecide
  <2>. QED  BY <2>4 DEF FusedScore, RankScore
<1>12. i < j
  <2>1. FusedScore(vector, keyword, RrfK, a) \in Scores /\ FusedScore(vector, keyword, RrfK, b) \in Scores
      BY <1>3
  <2>2. ~Above(FusedScore(vector, keyword, RrfK, b), FusedScore(vector, keyword, RrfK, a))
      BY <1>11, <2>1, AboveIsAnOrder
  <2>3. j \in 1..Len(fused)  BY <1>3
  <2>4. i # j  BY <1>9, <1>10, <1>11, <2>2
  <2>5. ~(j < i)  BY <1>3, <1>9, <1>10, <1>11, <2>3
  <2>. QED  BY <2>3, <2>4, <2>5, <1>3
<1>13. i \in 1..n /\ chunks[i] = a  BY <1>9, <1>10, <1>12
<1>14. RankIn(chunks, a) = i  BY <1>7, <1>8, <1>13, RankInList
<1>. QED  BY <1>9, <1>12, <1>13, <1>14

(* Reranking keeps what was there, in an order of which the scores say that  *)
(* the first topN are sorted.                                               *)
LEMMA RerankedWhole ==
    ASSUME NEW results, NEW found, NEW atMost, WholeResults(results, found, atMost),
           NEW topN \in Nat, NEW top, top = Fewer(topN, Len(results)),
           NEW scored \in SUBSET (1..top), NEW given \in [scored -> GivenScores],
           NEW after, after = Reranked(results, topN, given)
    PROVE  /\ WholeResults(after, found, atMost)
           /\ Len(after) = Len(results)
           /\ \A i, j \in 1..top : i < j => ~Above(after[j].score, after[i].score)
<1>1. /\ results \in Seq(ResultRecords) /\ Len(results) \in Nat
      /\ Len(results) = Fewer(atMost, Cardinality(found))
      /\ \A i \in 1..Len(results) : results[i].chunk \in found
      /\ \A i, j \in 1..Len(results) : results[i].chunk = results[j].chunk => i = j
    BY DEF WholeResults
<1>2. PICK n \in Nat : n = Len(results)  BY <1>1
<1>3. top \in 0..n  BY <1>2 DEF Fewer
<1>4. PICK score : score = RerankScores(results, top, given)  OBVIOUS
<1>5. PICK entered : entered = [i \in 1..top |-> i]  OBVIOUS
<1>6. PICK order : order = Sorted(1..top, score, entered)  OBVIOUS
<1>7. \A i \in 1..n : results[i] \in ResultRecords  BY <1>1, <1>2
<1>8. score \in [1..top -> Scores]
  <2>1. ASSUME NEW i \in 1..top  PROVE score[i] \in Scores
    <3>1. i \in 1..n  BY <1>3
    <3>2. results[i].score \in Scores  BY <3>1, <1>7 DEF ResultRecords
    <3>3. i \in DOMAIN given => given[i] \in Scores  BY RetrievalAssumption
    <3>. QED  BY <3>2, <3>3, <1>4 DEF RerankScores
  <2>2. score = [i \in 1..top |-> score[i]]  BY <1>4 DEF RerankScores
  <2>. QED  BY <2>1, <2>2
<1>9. Sortable(1..top, score, entered)
  <2>0. 1 \in Int /\ top \in Int  BY <1>3
  <2>1. IsFiniteSet(1..top)  BY <2>0, FS_Interval
  <2>2. entered \in [1..top -> Int] /\ \A x, y \in 1..top : entered[x] = entered[y] => x = y
      BY <1>5
  <2>. QED  BY <2>1, <2>2, <1>8 DEF Sortable
<1>10. Cardinality(1..top) = top
  <2>0. 1 \in Int /\ top \in Int  BY <1>3
  <2>1. Cardinality(1..top) = (IF 1 > top THEN 0 ELSE top - 1 + 1)  BY <2>0, FS_Interval
  <2>. QED  BY <2>1, <1>3
<1>11. ByScoreAndEntry(order, 1..top, score, entered)  BY <1>9, <1>6, SortedInOrder
<1>12. /\ order \in [1..top -> 1..top]
       /\ \A i, j \in 1..top : order[i] = order[j] => i = j
       /\ \A i, j \in 1..top : i < j => Ahead(score, entered, order[i], order[j])
    BY <1>10, <1>11 DEF ByScoreAndEntry
<1>13. after = Reordered(results, order, score)
    BY <1>4, <1>5, <1>6 DEF Reranked
<1>14. DOMAIN order = 1..top /\ DOMAIN results = 1..n  BY <1>1, <1>2, <1>12
<1>15. after = [i \in 1..n |->
                   IF i \in 1..top
                   THEN [rank |-> i, chunk |-> results[order[i]].chunk, score |-> score[order[i]]]
                   ELSE [rank |-> i, chunk |-> results[i].chunk, score |-> results[i].score]]
    BY <1>13, <1>14 DEF Reordered
<1>16. ASSUME NEW i \in 1..n
       PROVE  /\ after[i] \in ResultRecords /\ after[i].rank = i /\ after[i].chunk \in found
              /\ i \in 1..top => /\ after[i].chunk = results[order[i]].chunk
                                 /\ after[i].score = score[order[i]]
                                 /\ order[i] \in 1..top
              /\ i \notin 1..top => after[i].chunk = results[i].chunk
  <2>1. CASE i \in 1..top
    <3>1. PICK o \in 1..top : o = order[i]  BY <2>1, <1>12
    <3>2. o \in 1..n /\ score[o] \in Scores  BY <1>3, <1>8
    <3>3. results[o].chunk \in IndexedChunks /\ results[o].chunk \in found
        BY <3>2, <1>1, <1>2, <1>7 DEF ResultRecords
    <3>4. after[i] = [rank |-> i, chunk |-> results[o].chunk, score |-> score[o]]
        BY <2>1, <3>1, <1>15
    <3>. QED  BY <2>1, <3>1, <3>2, <3>3, <3>4 DEF ResultRecords
  <2>2. CASE i \notin 1..top
    <3>1. after[i] = [rank |-> i, chunk |-> results[i].chunk, score |-> results[i].score]
        BY <2>2, <1>15
    <3>2. results[i].chunk \in IndexedChunks /\ results[i].chunk \in found /\ results[i].score \in Scores
        BY <1>1, <1>2, <1>7 DEF ResultRecords
    <3>. QED  BY <2>2, <3>1, <3>2 DEF ResultRecords
  <2>. QED  BY <2>1, <2>2
<1>17. after \in Seq(ResultRecords) /\ Len(after) = n
  <2>1. after \in [1..n -> ResultRecords]  BY <1>15, <1>16
  <2>. QED  BY <2>1
<1>20. ASSUME NEW i \in 1..n
       PROVE  \E p \in 1..n : /\ results[p].chunk = after[i].chunk
                              /\ i \in 1..top => p = order[i] /\ p \in 1..top
                              /\ i \notin 1..top => p = i
  <2>1. CASE i \in 1..top
    <3>1. order[i] \in 1..n /\ order[i] \in 1..top  BY <2>1, <1>3, <1>16
    <3>. QED  BY <2>1, <3>1, <1>16
  <2>2. CASE i \notin 1..top  BY <2>2, <1>16
  <2>. QED  BY <2>1, <2>2
<1>18. ASSUME NEW i \in 1..n, NEW j \in 1..n, after[i].chunk = after[j].chunk  PROVE i = j
  <2>1. PICK p \in 1..n : /\ results[p].chunk = after[i].chunk
                          /\ i \in 1..top => p = order[i] /\ p \in 1..top
                          /\ i \notin 1..top => p = i
      BY <1>20
  <2>2. PICK q \in 1..n : /\ results[q].chunk = after[j].chunk
                          /\ j \in 1..top => q = order[j] /\ q \in 1..top
                          /\ j \notin 1..top => q = j
      BY <1>20
  <2>3. p = q  BY <1>1, <1>2, <1>18, <2>1, <2>2
  <2>. QED  BY <1>12, <2>1, <2>2, <2>3
<1>19. ASSUME NEW i \in 1..top, NEW j \in 1..top, i < j  PROVE ~Above(after[j].score, after[i].score)
  <2>1. i \in 1..n /\ j \in 1..n  BY <1>3
  <2>2. after[i].score = score[order[i]] /\ after[j].score = score[order[j]]
        /\ order[i] \in 1..top /\ order[j] \in 1..top
      BY <2>1, <1>16
  <2>3. Ahead(score, entered, order[i], order[j])  BY <1>12, <1>19
  <2>4. score[order[i]] \in Scores /\ score[order[j]] \in Scores  BY <2>2, <1>8
  <2>5. ~Above(score[order[j]], score[order[i]])  BY <2>3, <2>4, AboveIsAnOrder DEF Ahead
  <2>. QED  BY <2>2, <2>5
<1>. QED  BY <1>1, <1>2, <1>16, <1>17, <1>18, <1>19 DEF WholeResults

(* The invariant.  Of a search: that its two lists, once they came, name     *)
(* chunks that the filters admit, once each and no more than were asked for  *)
(* (QueryFacts); and that its results are whole, and fused of those lists    *)
(* until they are reranked (AnswerFacts).                                   *)
SearchPcs == {"idle", "searching", "ranked", "reranked", "answered", "failed"}
IndexLists == RankedLists(IndexedChunks) \cup {Pending}
SearchRecords ==
    [pc : SearchPcs, request : SearchRequests \cup {<<>>}, vector : IndexLists,
     keyword : IndexLists, results : Seq(ResultRecords)]
LogRecords == [search : Searches, hits : Nat]

Admitted(r) == {id \in IndexedChunks : PostgresAdmits(r.filter, r.workspace, ChunkData[id])}
Came(list, r) == list = Pending \/ (list \in RankedLists(Admitted(r)) /\ Len(list) <= Limit(r))

QueryFacts(q) ==
    q.pc # "idle" =>
        /\ q.request \in SearchRequests
        /\ Came(q.vector, q.request) /\ Came(q.keyword, q.request)
        /\ ~q.request.hybrid => q.vector = <<>> \/ q.keyword = <<>>
FirstSorted(results, top) == \A i, j \in 1..top : i < j => ~Above(results[j].score, results[i].score)
AnswerFacts(q) ==
    q.pc \in {"ranked", "reranked", "answered"} =>
        /\ q.vector # Pending /\ q.keyword # Pending
        /\ WholeResults(q.results, ToSet(q.vector) \cup ToSet(q.keyword), q.request.topK)
        /\ q.pc = "ranked" => q.results = Results(q.request, q.vector, q.keyword)
        /\ q.pc = "reranked" => FirstSorted(q.results, Fewer(q.request.rerank, Len(q.results)))

SearchFacts(q) == q \in SearchRecords /\ QueryFacts(q) /\ AnswerFacts(q)
SearchesInv ==
    /\ searches \in [Searches -> SearchRecords]
    /\ \A s \in Searches : SearchFacts(searches[s])
IndexInv ==
    /\ indexed \in [Indexes -> SUBSET IndexedChunks]
    /\ indexWrites \in 0..MaxIndexWrites /\ searchFaults \in 0..MaxSearchFaults
LogInv == searchLogs \in Seq(LogRecords) /\ Len(searchLogs) <= MaxLogs
WindowInv == contextWindow = <<>> \/ (contextWindow \in Windows /\ WindowFits(contextWindow))
RetrievalInv == SearchesInv /\ IndexInv /\ LogInv /\ WindowInv

LEMMA EmptyLists ==
    ASSUME NEW S
    PROVE  <<>> \in RankedLists(S) /\ Len(<<>>) = 0 /\ Pending # <<>>
<1>1. <<>> \in Seq(S) /\ Len(<<>>) = 0 /\ Len(Pending) = 1  BY DEF Pending
<1>. QED  BY <1>1 DEF RankedLists

(* What Qdrant's translation of a filter admits, PostgreSQL's does too.      *)
LEMMA QdrantAdmitsNoMore ==
    ASSUME NEW filter, NEW workspace, NEW chunk, QdrantAdmits(filter, workspace, chunk)
    PROVE  PostgresAdmits(filter, workspace, chunk)
BY DEF QdrantAdmits, PostgresAdmits

LEMMA WiderList ==
    ASSUME NEW S, NEW T, S \subseteq T, NEW list \in RankedLists(S)
    PROVE  list \in RankedLists(T)
<1>1. list \in Seq(S)  BY DEF RankedLists
<1>2. list \in Seq(T)  BY <1>1
<1>. QED  BY <1>2 DEF RankedLists

(* An index's answer.                                                       *)
LEMMA FoundList ==
    ASSUME NEW admitted, IsFiniteSet(admitted), NEW limit \in Nat, NEW list \in Found(admitted, limit)
    PROVE  list \in RankedLists(admitted) /\ Len(list) <= limit
<1>1. PICK size \in Nat : size = Cardinality(admitted)  BY FS_CardinalityType
<1>2. PICK most \in Nat : most = Fewer(limit, size) /\ most <= limit  BY DEF Fewer
<1>3. PICK n \in 0..most : list \in [1..n -> admitted] /\ IsInjective(list)
    BY <1>1, <1>2 DEF Found
<1>4. list \in Seq(admitted) /\ Len(list) = n /\ n \in Nat
  <2>1. n \in Nat /\ list \in [1..n -> admitted]  BY <1>3
  <2>. QED  BY <2>1
<1>. QED  BY <1>2, <1>3, <1>4 DEF RankedLists, IsInjective

LEMMA LimitType ==
    ASSUME NEW r \in SearchRequests
    PROVE  /\ r.topK \in Nat /\ Limit(r) \in Nat /\ r.rerank \in Nat
           /\ ~r.hybrid => Limit(r) = r.topK
BY RetrievalAssumption DEF Limit, FetchTopK

LEMMA AdmittedLists ==
    ASSUME NEW r \in SearchRequests, NEW S \in SUBSET IndexedChunks,
           \A id \in S : PostgresAdmits(r.filter, r.workspace, ChunkData[id]),
           NEW list \in Found(S, Limit(r))
    PROVE  Came(list, r) /\ list \in RankedLists(IndexedChunks)
<1>1. IsFiniteSet(S)  BY RetrievalAssumption, FS_Subset
<1>2. list \in RankedLists(S) /\ Len(list) <= Limit(r)  BY <1>1, LimitType, FoundList
<1>3. S \subseteq Admitted(r) /\ S \subseteq IndexedChunks  BY DEF Admitted
<1>. QED  BY <1>2, <1>3, WiderList DEF Came

(* One search goes to p, and the others stay.                                *)
LEMMA SearchMoves ==
    ASSUME SearchesInv, NEW s \in Searches, NEW p, SearchFacts(p), searches' = [searches EXCEPT ![s] = p]
    PROVE  SearchesInv'
<1>1. p \in SearchRecords  BY DEF SearchFacts
<1>2. searches' \in [Searches -> SearchRecords]  BY <1>1 DEF SearchesInv
<1>3. ASSUME NEW t \in Searches  PROVE SearchFacts(searches[t])'
  <2>1. PICK q : q = searches'[t]  OBVIOUS
  <2>2. t = s => q = p  BY <2>1 DEF SearchesInv
  <2>3. t # s => q = searches[t]  BY <2>1 DEF SearchesInv
  <2>4. SearchFacts(q)  BY <2>2, <2>3 DEF SearchesInv
  <2>. QED  BY <2>1, <2>4 DEF SearchFacts, QueryFacts, AnswerFacts, SearchRecords
<1>. QED  BY <1>2, <1>3 DEF SearchesInv

LEMMA SearchRow ==
    ASSUME SearchesInv, NEW s \in Searches, NEW q, q = searches[s]
    PROVE  /\ searches \in [Searches -> SearchRecords]
           /\ q \in SearchRecords /\ QueryFacts(q) /\ AnswerFacts(q)
BY DEF SearchesInv, SearchFacts

LEMMA SearchBegins ==
    ASSUME SearchesInv, NEW s \in Searches, Search(s)
    PROVE  SearchesInv'
<1>1. PICK q : q = searches[s]  OBVIOUS
<1>2. PICK r \in SearchRequests :
        searches' = [searches EXCEPT ![s].pc = "searching", ![s].request = r,
                       ![s].vector = IF r.embedded THEN Pending ELSE <<>>,
                       ![s].keyword = IF r.embedded /\ ~r.hybrid THEN <<>> ELSE Pending]
    BY DEF Search
<1>3. PICK vector : vector = IF r.embedded THEN Pending ELSE <<>>  OBVIOUS
<1>4. PICK keyword : keyword = IF r.embedded /\ ~r.hybrid THEN <<>> ELSE Pending  OBVIOUS
<1>. PICK p : p = [q EXCEPT !.pc = "searching", !.request = r, !.vector = vector, !.keyword = keyword]
    OBVIOUS
<1>0. searches \in [Searches -> SearchRecords] /\ q \in SearchRecords  BY <1>1, SearchRow
<1>5. p = [pc |-> "searching", request |-> r, vector |-> vector, keyword |-> keyword,
           results |-> q.results]
    BY <1>0 DEF SearchRecords
<1>6. searches' = [searches EXCEPT ![s] = p]
  <2>1. searches' = [searches EXCEPT ![s].pc = "searching", ![s].request = r,
                       ![s].vector = vector, ![s].keyword = keyword]
      BY <1>2, <1>3, <1>4
  <2>. QED  BY <2>1, <1>0, <1>1
<1>7. vector \in {<<>>, Pending} /\ keyword \in {<<>>, Pending}  BY <1>3, <1>4
<1>8. <<>> \in RankedLists(IndexedChunks) /\ <<>> \in RankedLists(Admitted(r)) /\ Len(<<>>) = 0
    BY EmptyLists
<1>9. p \in SearchRecords
  <2>1. q.results \in Seq(ResultRecords)  BY <1>0 DEF SearchRecords
  <2>2. vector \in IndexLists /\ keyword \in IndexLists  BY <1>7, <1>8 DEF IndexLists
  <2>. QED  BY <1>5, <2>1, <2>2 DEF SearchRecords, SearchPcs
<1>10. QueryFacts(p)
  <2>1. Came(vector, r) /\ Came(keyword, r)
    <3>1. 0 <= Limit(r)  BY LimitType
    <3>. QED  BY <1>7, <1>8, <3>1 DEF Came
  <2>2. ~r.hybrid => vector = <<>> \/ keyword = <<>>  BY <1>3, <1>4
  <2>. QED  BY <1>5, <2>1, <2>2 DEF QueryFacts
<1>11. AnswerFacts(p)  BY <1>5 DEF AnswerFacts
<1>. QED  BY <1>6, <1>9, <1>10, <1>11, SearchMoves DEF SearchFacts

LEMMA ListsCome ==
    ASSUME SearchesInv, IndexInv, NEW s \in Searches, VectorSearch(s) \/ KeywordSearch(s)
    PROVE  SearchesInv'
<1>1. PICK q : q = searches[s]  OBVIOUS
<1>2. q \in SearchRecords /\ QueryFacts(q) /\ q.pc = "searching"
    BY <1>1, SearchRow DEF VectorSearch, KeywordSearch, SearchAt
<1>7. searches \in [Searches -> SearchRecords]  BY <1>1, SearchRow
<1>3. q.request \in SearchRequests  BY <1>2 DEF QueryFacts
<1>4. \A index \in Indexes : indexed[index] \subseteq IndexedChunks  BY DEF IndexInv
<1>5. CASE VectorSearch(s)
  <2>1. PICK admitted : admitted = {id \in indexed["vector"] :
                           QdrantAdmits(q.request.filter, q.request.workspace, ChunkData[id])}
      OBVIOUS
  <2>2. PICK list \in Found(admitted, Limit(q.request)) : searches' = [searches EXCEPT ![s].vector = list]
      BY <1>1, <1>5, <2>1 DEF VectorSearch, Asked
  <2>3. admitted \in SUBSET IndexedChunks  BY <1>4, <2>1 DEF Indexes
  <2>4. \A id \in admitted : PostgresAdmits(q.request.filter, q.request.workspace, ChunkData[id])
      BY <2>1, QdrantAdmitsNoMore
  <2>5. Came(list, q.request) /\ list \in IndexLists
      BY <1>3, <2>3, <2>4, AdmittedLists DEF IndexLists
  <2>6. q.vector = Pending  BY <1>1, <1>5 DEF VectorSearch
  <2>7. ~q.request.hybrid => q.keyword = <<>>  BY <1>2, <2>6, EmptyLists DEF QueryFacts
  <2>. PICK p : p = [q EXCEPT !.vector = list]  OBVIOUS
  <2>8. p = [pc |-> q.pc, request |-> q.request, vector |-> list,
             keyword |-> q.keyword, results |-> q.results]
      BY <1>2 DEF SearchRecords
  <2>9. searches' = [searches EXCEPT ![s] = p]  BY <1>1, <1>7, <2>2
  <2>10. p \in SearchRecords  BY <1>2, <2>5, <2>8 DEF SearchRecords
  <2>11. QueryFacts(p)  BY <1>2, <2>5, <2>7, <2>8 DEF QueryFacts
  <2>12. AnswerFacts(p)  BY <1>2, <2>8 DEF AnswerFacts
  <2>. QED  BY <2>9, <2>10, <2>11, <2>12, SearchMoves DEF SearchFacts
<1>6. CASE KeywordSearch(s)
  <2>1. PICK admitted : admitted = {id \in indexed["keyword"] :
                           PostgresAdmits(q.request.filter, q.request.workspace, ChunkData[id])}
      OBVIOUS
  <2>2. PICK list \in Found(admitted, Limit(q.request)) : searches' = [searches EXCEPT ![s].keyword = list]
      BY <1>1, <1>6, <2>1 DEF KeywordSearch, Asked
  <2>3. admitted \in SUBSET IndexedChunks  BY <1>4, <2>1 DEF Indexes
  <2>4. \A id \in admitted : PostgresAdmits(q.request.filter, q.request.workspace, ChunkData[id])
      BY <2>1
  <2>5. Came(list, q.request) /\ list \in IndexLists
      BY <1>3, <2>3, <2>4, AdmittedLists DEF IndexLists
  <2>6. q.keyword = Pending  BY <1>1, <1>6 DEF KeywordSearch
  <2>7. ~q.request.hybrid => q.vector = <<>>  BY <1>2, <2>6, EmptyLists DEF QueryFacts
  <2>. PICK p : p = [q EXCEPT !.keyword = list]  OBVIOUS
  <2>8. p = [pc |-> q.pc, request |-> q.request, vector |-> q.vector,
             keyword |-> list, results |-> q.results]
      BY <1>2 DEF SearchRecords
  <2>9. searches' = [searches EXCEPT ![s] = p]  BY <1>1, <1>7, <2>2
  <2>10. p \in SearchRecords  BY <1>2, <2>5, <2>8 DEF SearchRecords
  <2>11. QueryFacts(p)  BY <1>2, <2>5, <2>7, <2>8 DEF QueryFacts
  <2>12. AnswerFacts(p)  BY <1>2, <2>8 DEF AnswerFacts
  <2>. QED  BY <2>9, <2>10, <2>11, <2>12, SearchMoves DEF SearchFacts
<1>. QED  BY <1>5, <1>6

LEMMA SearchFailing ==
    ASSUME SearchesInv, NEW s \in Searches, searches' = [searches EXCEPT ![s].pc = "failed"],
           SearchAt(s) # "idle"
    PROVE  SearchesInv'
<1>1. PICK q : q = searches[s]  OBVIOUS
<1>2. /\ searches \in [Searches -> SearchRecords]
      /\ q \in SearchRecords /\ QueryFacts(q) /\ q.pc # "idle"
    BY <1>1, SearchRow DEF SearchAt
<1>. PICK p : p = [q EXCEPT !.pc = "failed"]  OBVIOUS
<1>3. p = [pc |-> "failed", request |-> q.request, vector |-> q.vector,
           keyword |-> q.keyword, results |-> q.results]
    BY <1>2 DEF SearchRecords
<1>4. searches' = [searches EXCEPT ![s] = p]  BY <1>1, <1>2
<1>5. p \in SearchRecords  BY <1>2, <1>3 DEF SearchRecords, SearchPcs
<1>6. QueryFacts(p)  BY <1>2, <1>3 DEF QueryFacts
<1>7. AnswerFacts(p)  BY <1>3 DEF AnswerFacts
<1>. QED  BY <1>4, <1>5, <1>6, <1>7, SearchMoves DEF SearchFacts

LEMMA ResultsAreRanked ==
    ASSUME SearchesInv, NEW s \in Searches, RankResults(s)
    PROVE  SearchesInv'
<1>1. PICK q : q = searches[s]  OBVIOUS
<1>2. /\ searches \in [Searches -> SearchRecords]
      /\ q \in SearchRecords /\ QueryFacts(q)
      /\ q.pc = "searching" /\ q.vector # Pending /\ q.keyword # Pending
    BY <1>1, SearchRow DEF RankResults, SearchAt
<1>3. PICK results : results = Results(q.request, q.vector, q.keyword)  OBVIOUS
<1>4. PICK r \in SearchRequests : r = q.request  BY <1>2 DEF QueryFacts
<1>5. /\ q.vector \in RankedLists(IndexedChunks) /\ q.keyword \in RankedLists(IndexedChunks)
      /\ Len(q.vector) <= Limit(r) /\ Len(q.keyword) <= Limit(r)
  <2>1. q.vector \in IndexLists /\ q.keyword \in IndexLists  BY <1>2 DEF SearchRecords
  <2>2. Came(q.vector, r) /\ Came(q.keyword, r)  BY <1>2, <1>4 DEF QueryFacts
  <2>. QED  BY <1>2, <2>1, <2>2 DEF IndexLists, Came
<1>6. WholeResults(results, ToSet(q.vector) \cup ToSet(q.keyword), r.topK)
  <2>1. CASE r.hybrid
    <3>1. PICK v \in RankedLists(IndexedChunks) : v = q.vector  BY <1>5
    <3>2. PICK w \in RankedLists(IndexedChunks) : w = q.keyword  BY <1>5
    <3>3. PICK found : found = ToSet(v) \cup ToSet(w)  OBVIOUS
    <3>4. PICK fused : fused = ReciprocalRankFusion(v, w, RrfK)  OBVIOUS
    <3>5. results = Results(r, v, w)  BY <1>3, <1>4, <3>1, <3>2
    <3>6. WholeResults(results, found, r.topK)  BY <2>1, <3>3, <3>4, <3>5, ResultsOfBoth
    <3>. QED  BY <3>1, <3>2, <3>3, <3>6
  <2>2. CASE ~r.hybrid
    <3>1. q.vector = <<>> \/ q.keyword = <<>>  BY <1>2, <1>4, <2>2 DEF QueryFacts
    <3>2. Len(q.vector) <= r.topK /\ Len(q.keyword) <= r.topK  BY <1>5, <2>2, LimitType
    <3>3. CASE q.keyword = <<>>
      <4>1. WholeResults(Results(r, q.vector, <<>>), ToSet(q.vector) \cup ToSet(<<>>), r.topK)
          BY <1>5, <2>2, <3>2, ResultsOfOne
      <4>. QED  BY <4>1, <1>3, <1>4, <3>3
    <3>4. CASE q.vector = <<>>
      <4>1. WholeResults(Results(r, <<>>, q.keyword), ToSet(<<>>) \cup ToSet(q.keyword), r.topK)
          BY <1>5, <2>2, <3>2, ResultsOfOne
      <4>. QED  BY <4>1, <1>3, <1>4, <3>4
    <3>. QED  BY <3>1, <3>3, <3>4
  <2>. QED  BY <2>1, <2>2
<1>. PICK p : p = [q EXCEPT !.pc = "ranked", !.results = results]  OBVIOUS
<1>7. p = [pc |-> "ranked", request |-> q.request, vector |-> q.vector,
           keyword |-> q.keyword, results |-> results]
    BY <1>2 DEF SearchRecords
<1>8. searches' = [searches EXCEPT ![s] = p]
  <2>1. searches' = [searches EXCEPT ![s].pc = "ranked", ![s].results = results]
      BY <1>1, <1>3 DEF RankResults, Asked
  <2>. QED  BY <2>1, <1>1, <1>2
<1>9. p \in SearchRecords
  <2>1. results \in Seq(ResultRecords)  BY <1>6 DEF WholeResults
  <2>. QED  BY <2>1, <1>2, <1>7 DEF SearchRecords, SearchPcs
<1>10. QueryFacts(p)  BY <1>2, <1>7 DEF QueryFacts
<1>11. AnswerFacts(p)  BY <1>2, <1>3, <1>4, <1>6, <1>7 DEF AnswerFacts
<1>. QED  BY <1>8, <1>9, <1>10, <1>11, SearchMoves DEF SearchFacts

LEMMA ResultsAreReranked ==
    ASSUME SearchesInv, NEW s \in Searches, Rerank(s)
    PROVE  SearchesInv'
<1>1. PICK q : q = searches[s]  OBVIOUS
<1>2. /\ searches \in [Searches -> SearchRecords]
      /\ q \in SearchRecords /\ QueryFacts(q) /\ AnswerFacts(q) /\ q.pc = "ranked"
    BY <1>1, SearchRow DEF Rerank, SearchAt
<1>3. PICK r \in SearchRequests : r = q.request  BY <1>2 DEF QueryFacts
<1>4. PICK before : before = q.results  OBVIOUS
<1>5. PICK found : found = ToSet(q.vector) \cup ToSet(q.keyword)  OBVIOUS
<1>6. WholeResults(before, found, r.topK)  BY <1>2, <1>3, <1>4, <1>5 DEF AnswerFacts
<1>7. PICK topN \in Nat : topN = r.rerank  BY LimitType
<1>8. PICK top : top = Fewer(topN, Len(before))  OBVIOUS
<1>0. PICK scored \in SUBSET (1..top) : \E given \in [scored -> GivenScores] :
        searches' = [searches EXCEPT ![s].pc = "reranked", ![s].results = Reranked(before, topN, given)]
    BY <1>1, <1>2, <1>3, <1>4, <1>7, <1>8 DEF Rerank, Asked
<1>9. PICK given \in [scored -> GivenScores] :
        searches' = [searches EXCEPT ![s].pc = "reranked", ![s].results = Reranked(before, topN, given)]
    BY <1>0
<1>10. PICK after : after = Reranked(before, topN, given)  OBVIOUS
<1>11. /\ WholeResults(after, found, r.topK)
       /\ Len(after) = Len(before)
       /\ FirstSorted(after, top)
  <2>1. \A i, j \in 1..top : i < j => ~Above(after[j].score, after[i].score)
      BY <1>6, <1>8, <1>10, RerankedWhole
  <2>. QED  BY <2>1, <1>6, <1>8, <1>10, RerankedWhole DEF FirstSorted
<1>. PICK p : p = [q EXCEPT !.pc = "reranked", !.results = after]  OBVIOUS
<1>12. p = [pc |-> "reranked", request |-> q.request, vector |-> q.vector,
            keyword |-> q.keyword, results |-> after]
    BY <1>2 DEF SearchRecords
<1>13. searches' = [searches EXCEPT ![s] = p]
  <2>1. searches' = [searches EXCEPT ![s].pc = "reranked", ![s].results = after]
      BY <1>9, <1>10
  <2>. QED  BY <2>1, <1>1, <1>2
<1>14. p \in SearchRecords
  <2>1. after \in Seq(ResultRecords)  BY <1>11 DEF WholeResults
  <2>. QED  BY <2>1, <1>2, <1>12 DEF SearchRecords, SearchPcs
<1>15. QueryFacts(p)  BY <1>2, <1>12 DEF QueryFacts
<1>16. AnswerFacts(p)
  <2>1. q.vector # Pending /\ q.keyword # Pending  BY <1>2 DEF AnswerFacts
  <2>2. FirstSorted(after, Fewer(q.request.rerank, Len(after)))  BY <1>3, <1>7, <1>8, <1>11
  <2>. QED  BY <2>1, <2>2, <1>3, <1>5, <1>11, <1>12 DEF AnswerFacts
<1>. QED  BY <1>13, <1>14, <1>15, <1>16, SearchMoves DEF SearchFacts

(* The end of the log is kept.                                              *)
LEMMA LogKeepsTheLast ==
    ASSUME NEW S, NEW log \in Seq(S), NEW e \in S, NEW most \in Nat \ {0},
           NEW logs, logs = Append(log, e)
    PROVE  /\ SubSeq(logs, 1 + Len(logs) - Fewer(Len(logs), most), Len(logs)) \in Seq(S)
           /\ Len(SubSeq(logs, 1 + Len(logs) - Fewer(Len(logs), most), Len(logs))) <= most
<1>1. logs \in Seq(S)  OBVIOUS
<1>2. PICK n \in Nat : n = Len(logs)  BY <1>1
<1>3. PICK k \in Nat : k = Fewer(n, most) /\ k <= n /\ k <= most  BY DEF Fewer
<1>4. PICK m \in 1..n + 1 : m = 1 + n - k  BY <1>3
<1>5. \A i \in m..n : logs[i] \in S  BY <1>1, <1>2
<1>6. m \in Int /\ n \in Int  OBVIOUS
<1>7. /\ SubSeq(logs, m, n) \in Seq(S)
      /\ Len(SubSeq(logs, m, n)) = IF m <= n THEN n - m + 1 ELSE 0
    BY <1>5, <1>6, SubSeqProperties
<1>8. Len(SubSeq(logs, m, n)) <= most  BY <1>3, <1>4, <1>7
<1>. QED  BY <1>2, <1>3, <1>4, <1>7, <1>8

LEMMA SearchIsAnswered ==
    ASSUME SearchesInv, LogInv, NEW s \in Searches, AnswerSearch(s)
    PROVE  SearchesInv' /\ LogInv'
<1>1. PICK q : q = searches[s]  OBVIOUS
<1>2. /\ searches \in [Searches -> SearchRecords]
      /\ q \in SearchRecords /\ QueryFacts(q) /\ AnswerFacts(q)
      /\ q.pc \in {"ranked", "reranked"}
    BY <1>1, SearchRow DEF AnswerSearch, SearchAt
<1>. PICK p : p = [q EXCEPT !.pc = "answered"]  OBVIOUS
<1>3. p = [pc |-> "answered", request |-> q.request, vector |-> q.vector,
           keyword |-> q.keyword, results |-> q.results]
    BY <1>2 DEF SearchRecords
<1>4. searches' = [searches EXCEPT ![s] = p]  BY <1>1, <1>2 DEF AnswerSearch
<1>5. p \in SearchRecords  BY <1>2, <1>3 DEF SearchRecords, SearchPcs
<1>6. QueryFacts(p)  BY <1>2, <1>3 DEF QueryFacts
<1>7. AnswerFacts(p)  BY <1>2, <1>3 DEF AnswerFacts
<1>8. SearchesInv'  BY <1>4, <1>5, <1>6, <1>7, SearchMoves DEF SearchFacts
<1>9. LogInv'
  <2>1. PICK e : e = [search |-> s, hits |-> Len(q.results)]  OBVIOUS
  <2>2. e \in LogRecords
    <3>1. Len(q.results) \in Nat  BY <1>2 DEF SearchRecords
    <3>. QED  BY <2>1, <3>1 DEF LogRecords
  <2>3. PICK logs : logs = Append(searchLogs, e)  OBVIOUS
  <2>4. searchLogs' = SubSeq(logs, 1 + Len(logs) - Fewer(Len(logs), MaxLogs), Len(logs))
      BY <1>1, <2>1, <2>3 DEF AnswerSearch
  <2>5. searchLogs \in Seq(LogRecords) /\ MaxLogs \in Nat \ {0}
      BY RetrievalAssumption DEF LogInv
  <2>6. searchLogs' \in Seq(LogRecords) /\ Len(searchLogs') <= MaxLogs
      BY <2>2, <2>3, <2>4, <2>5, LogKeepsTheLast
  <2>. QED  BY <2>6 DEF LogInv
<1>. QED  BY <1>8, <1>9

LEMMA IndexSteps ==
    ASSUME IndexInv, WriteIndex
    PROVE  IndexInv'
<1>1. /\ indexWrites < MaxIndexWrites /\ indexWrites' = indexWrites + 1
      /\ searchFaults' = searchFaults
    BY DEF WriteIndex
<1>2. indexWrites' \in 0..MaxIndexWrites  BY <1>1, RetrievalAssumption DEF IndexInv
<1>3. PICK index \in Indexes, id \in MovingChunks :
        indexed' = [indexed EXCEPT ![index] = IF id \in @ THEN @ \ {id} ELSE @ \cup {id}]
    BY DEF WriteIndex
<1>4. id \in IndexedChunks  BY RetrievalAssumption
<1>5. indexed' \in [Indexes -> SUBSET IndexedChunks]  BY <1>3, <1>4 DEF IndexInv
<1>. QED  BY <1>1, <1>2, <1>5 DEF IndexInv

LEMMA ContextSteps ==
    ASSUME WindowInv, PostContext \/ AssemblePassage
    PROVE  WindowInv'
<1>1. CASE PostContext
  <2>1. PICK request \in ContextRequests :
          contextWindow' = IF request.passages = <<>> THEN <<>>
                           ELSE NewWindow(request.passages, request.max)
      BY <1>1 DEF PostContext
  <2>2. request.passages \in Seq(PassageRecords) /\ request.max \in Nat
      BY RetrievalAssumption DEF PassageRecords
  <2>3. PICK w : w = NewWindow(request.passages, request.max)  OBVIOUS
  <2>4. w \in Windows /\ WindowFits(w)  BY <2>2, <2>3, WindowStart
  <2>5. contextWindow' = <<>> \/ contextWindow' = w  BY <2>1, <2>3
  <2>6. PICK v : v = contextWindow'  OBVIOUS
  <2>7. v = <<>> \/ (v \in Windows /\ WindowFits(v))  BY <2>4, <2>5, <2>6
  <2>. QED  BY <2>6, <2>7 DEF WindowInv, Windows, WindowFits, Fits, Cost, Separated
<1>2. CASE AssemblePassage
  <2>1. PICK w : w = contextWindow  OBVIOUS
  <2>2. w \in Windows /\ WindowFits(w) /\ w.rest # <<>>
      BY <1>2, <2>1 DEF AssemblePassage, WindowInv
  <2>3. PICK p : p = Head(w.rest)  OBVIOUS
  <2>4. PICK v : v = contextWindow'  OBVIOUS
  <2>5. /\ Fits(w, p) => v = TakePassage(w, p)
        /\ ~Fits(w, p) => v = SkipPassage(w, p)
      BY <1>2, <2>1, <2>3, <2>4 DEF AssemblePassage
  <2>6. Fits(w, p) => v \in Windows /\ WindowFits(v)
      BY <2>2, <2>3, <2>5, WindowTakes
  <2>7. ~Fits(w, p) => v \in Windows /\ WindowFits(v)
      BY <2>2, <2>3, <2>5, WindowSkips
  <2>. QED  BY <2>4, <2>6, <2>7 DEF WindowInv, Windows, WindowFits, Fits, Cost, Separated
<1>. QED  BY <1>1, <1>2

LEMMA FaultSteps ==
    ASSUME IndexInv, searchFaults < MaxSearchFaults, searchFaults' = searchFaults + 1,
           UNCHANGED <<indexed, indexWrites>>
    PROVE  IndexInv'
<1>1. searchFaults' \in 0..MaxSearchFaults  BY RetrievalAssumption DEF IndexInv
<1>. QED  BY <1>1 DEF IndexInv

LEMMA RetrievalInitInv == RetrievalInit => RetrievalInv
<1>. SUFFICES ASSUME RetrievalInit  PROVE RetrievalInv  OBVIOUS
<1>1. SearchesInv
  <2>1. PICK p : p = [pc |-> "idle", request |-> <<>>, vector |-> Pending,
                      keyword |-> Pending, results |-> <<>>]
      OBVIOUS
  <2>2. p \in SearchRecords  BY <2>1 DEF SearchRecords, SearchPcs, IndexLists
  <2>3. QueryFacts(p) /\ AnswerFacts(p)  BY <2>1 DEF QueryFacts, AnswerFacts
  <2>4. searches = [s \in Searches |-> p]  BY <2>1 DEF RetrievalInit
  <2>5. \A s \in Searches : searches[s] = p  BY <2>4
  <2>6. \A s \in Searches : SearchFacts(searches[s])  BY <2>2, <2>3, <2>5 DEF SearchFacts
  <2>7. searches \in [Searches -> SearchRecords]  BY <2>2, <2>4
  <2>. QED  BY <2>6, <2>7 DEF SearchesInv
<1>2. IndexInv  BY RetrievalAssumption DEF RetrievalInit, IndexInv
<1>3. LogInv
  <2>1. <<>> \in Seq(LogRecords) /\ Len(<<>>) = 0  OBVIOUS
  <2>2. searchLogs = <<>>  BY DEF RetrievalInit
  <2>3. 0 <= MaxLogs  BY RetrievalAssumption
  <2>. QED  BY <2>1, <2>2, <2>3 DEF LogInv
<1>4. WindowInv  BY DEF RetrievalInit, WindowInv
<1>. QED  BY <1>1, <1>2, <1>3, <1>4 DEF RetrievalInv

LEMMA RetrievalStepInv == RetrievalInv /\ [RetrievalNext]_retrievalVars => RetrievalInv'
<1>. SUFFICES ASSUME RetrievalInv, [RetrievalNext]_retrievalVars  PROVE RetrievalInv'
    OBVIOUS
<1>. USE DEF RetrievalInv
<1>1. UNCHANGED searches => SearchesInv'
    BY DEF SearchesInv, SearchFacts, SearchRecords, QueryFacts, AnswerFacts
<1>2. UNCHANGED <<indexed, indexWrites, searchFaults>> => IndexInv'  BY DEF IndexInv
<1>3. UNCHANGED searchLogs => LogInv'  BY DEF LogInv
<1>4. UNCHANGED contextWindow => WindowInv'
    BY DEF WindowInv, Windows, WindowFits, Fits, Cost, Separated
<1>5. ASSUME NEW s \in Searches, Search(s)  PROVE RetrievalInv'
  <2>1. SearchesInv'  BY <1>5, SearchBegins
  <2>2. UNCHANGED <<indexed, contextWindow, searchLogs, indexWrites, searchFaults>>
      BY <1>5 DEF Search
  <2>. QED  BY <2>1, <2>2, <1>2, <1>3, <1>4
<1>6. ASSUME NEW s \in Searches, VectorSearch(s) \/ KeywordSearch(s)  PROVE RetrievalInv'
  <2>1. SearchesInv'  BY <1>6, ListsCome
  <2>2. UNCHANGED <<indexed, contextWindow, searchLogs, indexWrites, searchFaults>>
      BY <1>6 DEF VectorSearch, KeywordSearch
  <2>. QED  BY <2>1, <2>2, <1>2, <1>3, <1>4
<1>7. ASSUME NEW s \in Searches, SearchFails(s) \/ RerankFails(s)  PROVE RetrievalInv'
  <2>1. /\ SearchAt(s) # "idle" /\ searches' = [searches EXCEPT ![s].pc = "failed"]
        /\ searchFaults < MaxSearchFaults /\ searchFaults' = searchFaults + 1
        /\ UNCHANGED <<indexed, contextWindow, searchLogs, indexWrites>>
      BY <1>7 DEF SearchFails, RerankFails
  <2>2. SearchesInv'  BY <2>1, SearchFailing
  <2>3. IndexInv'  BY <2>1, FaultSteps
  <2>. QED  BY <2>1, <2>2, <2>3, <1>3, <1>4
<1>8. ASSUME NEW s \in Searches, RankResults(s)  PROVE RetrievalInv'
  <2>1. SearchesInv'  BY <1>8, ResultsAreRanked
  <2>2. UNCHANGED <<indexed, contextWindow, searchLogs, indexWrites, searchFaults>>
      BY <1>8 DEF RankResults
  <2>. QED  BY <2>1, <2>2, <1>2, <1>3, <1>4
<1>9. ASSUME NEW s \in Searches, Rerank(s)  PROVE RetrievalInv'
  <2>1. SearchesInv'  BY <1>9, ResultsAreReranked
  <2>2. UNCHANGED <<indexed, contextWindow, searchLogs, indexWrites, searchFaults>>
      BY <1>9 DEF Rerank
  <2>. QED  BY <2>1, <2>2, <1>2, <1>3, <1>4
<1>10. ASSUME NEW s \in Searches, AnswerSearch(s)  PROVE RetrievalInv'
  <2>1. SearchesInv' /\ LogInv'  BY <1>10, SearchIsAnswered
  <2>2. UNCHANGED <<indexed, contextWindow, indexWrites, searchFaults>>
      BY <1>10 DEF AnswerSearch
  <2>. QED  BY <2>1, <2>2, <1>2, <1>4
<1>11. CASE WriteIndex
  <2>1. IndexInv'  BY <1>11, IndexSteps
  <2>2. UNCHANGED <<searches, contextWindow, searchLogs>>  BY <1>11 DEF WriteIndex
  <2>. QED  BY <2>1, <2>2, <1>1, <1>3, <1>4
<1>12. CASE PostContext \/ AssemblePassage
  <2>1. WindowInv'  BY <1>12, ContextSteps
  <2>2. UNCHANGED <<indexed, searches, searchLogs, indexWrites, searchFaults>>
      BY <1>12 DEF PostContext, AssemblePassage
  <2>. QED  BY <2>1, <2>2, <1>1, <1>2, <1>3
<1>13. CASE UNCHANGED retrievalVars
    BY <1>13, <1>1, <1>2, <1>3, <1>4 DEF retrievalVars
<1>. QED  BY <1>5, <1>6, <1>7, <1>8, <1>9, <1>10, <1>11, <1>12, <1>13
          DEF RetrievalNext, SearchNext

(* The invariant of the retrieval service.                                   *)
THEOREM RetrievalInvariant == RetrievalSpec => []RetrievalInv
BY RetrievalInitInv, RetrievalStepInv, PTL DEF RetrievalSpec

(* The lists of a search name chunks of the index, and the log is bounded    *)
(* (tracker.ts).                                                            *)
THEOREM RetrievalTypeCorrect == RetrievalSpec => []RetrievalTypeOK
<1>1. RetrievalInv => RetrievalTypeOK
  <2>. SUFFICES ASSUME RetrievalInv  PROVE RetrievalTypeOK  OBVIOUS
  <2>. USE DEF RetrievalInv
  <2>1. indexed \in [Indexes -> SUBSET IndexedChunks]
        /\ indexWrites \in 0..MaxIndexWrites /\ searchFaults \in 0..MaxSearchFaults
      BY DEF IndexInv
  <2>2. Len(searchLogs) <= MaxLogs  BY DEF LogInv
  <2>3. ASSUME NEW s \in Searches
        PROVE  /\ SearchAt(s) \in SearchPcs
               /\ Asked(s) \in SearchRequests \cup {<<>>}
               /\ searches[s].vector = Pending \/ ToSet(searches[s].vector) \subseteq IndexedChunks
               /\ searches[s].keyword = Pending \/ ToSet(searches[s].keyword) \subseteq IndexedChunks
    <3>1. PICK q \in SearchRecords : q = searches[s]  BY SearchRow
    <3>2. q.vector \in IndexLists /\ q.keyword \in IndexLists  BY DEF SearchRecords
    <3>3. q.vector = Pending \/ ToSet(q.vector) \subseteq IndexedChunks
        BY <3>2, RankedListSize DEF IndexLists
    <3>4. q.keyword = Pending \/ ToSet(q.keyword) \subseteq IndexedChunks
        BY <3>2, RankedListSize DEF IndexLists
    <3>5. q.pc \in SearchPcs /\ q.request \in SearchRequests \cup {<<>>}  BY DEF SearchRecords
    <3>. QED  BY <3>1, <3>3, <3>4, <3>5 DEF SearchAt, Asked
  <2>. QED  BY <2>1, <2>2, <2>3 DEF RetrievalTypeOK, SearchPcs
<1>. QED  BY <1>1, RetrievalInvariant, PTL

(* The assembled context is within its tokens, and full (context-builder.ts). *)
THEOREM ContextIsFull == RetrievalSpec => []ContextFits
<1>1. RetrievalInv => ContextFits
    BY DEF RetrievalInv, WindowInv, ContextFits, WindowFits
<1>. QED  BY <1>1, RetrievalInvariant, PTL

(* AnswersAreWhole of one search.                                           *)
WholeAnswer(q) ==
    LET found == ToSet(q.vector) \cup ToSet(q.keyword)
    IN  /\ Len(q.results) = Fewer(q.request.topK, Cardinality(found))
        /\ \A i \in DOMAIN q.results : q.results[i].rank = i /\ q.results[i].chunk \in found
        /\ \A i, j \in DOMAIN q.results : q.results[i].chunk = q.results[j].chunk => i = j
        /\ \A i \in DOMAIN q.results :
              PostgresAdmits(q.request.filter, q.request.workspace, ChunkData[q.results[i].chunk])
        /\ q.pc = "reranked" => FirstSorted(q.results, Fewer(q.request.rerank, Len(q.results)))

LEMMA WholeAnswers == RetrievalInv => AnswersAreWhole
<1>. SUFFICES ASSUME RetrievalInv, NEW s \in Searches,
                     SearchAt(s) \in {"ranked", "reranked", "answered"}
              PROVE  WholeAnswer(searches[s])
    BY DEF AnswersAreWhole, WholeAnswer, Asked, SearchAt, FirstSorted
<1>. PICK q : q = searches[s]  OBVIOUS
<1>. PICK r : r = q.request  OBVIOUS
<1>. PICK results : results = q.results  OBVIOUS
<1>. PICK found : found = ToSet(q.vector) \cup ToSet(q.keyword)  OBVIOUS
<1>1. /\ q \in SearchRecords /\ QueryFacts(q) /\ AnswerFacts(q)
      /\ q.pc \in {"ranked", "reranked", "answered"}
    BY SearchRow DEF SearchAt, RetrievalInv
<1>2. q.vector # Pending /\ q.keyword # Pending /\ WholeResults(results, found, r.topK)
    BY <1>1 DEF AnswerFacts
<1>3. DOMAIN results = 1..Len(results)  BY <1>2 DEF WholeResults
<1>4. found \subseteq Admitted(r)
  <2>1. q.vector \in RankedLists(Admitted(r)) /\ q.keyword \in RankedLists(Admitted(r))
      BY <1>1, <1>2 DEF QueryFacts, Came
  <2>. QED  BY <2>1, RankedListSize
<1>5. \A id \in found : PostgresAdmits(r.filter, r.workspace, ChunkData[id])
    BY <1>4 DEF Admitted
<1>6. q.pc = "reranked" => FirstSorted(results, Fewer(r.rerank, Len(results)))
    BY <1>1 DEF AnswerFacts
<1>7. WholeAnswer(q)
  <2>1. \A i \in DOMAIN results : results[i].chunk \in found  BY <1>2, <1>3 DEF WholeResults
  <2>2. \A i \in DOMAIN results :
          PostgresAdmits(r.filter, r.workspace, ChunkData[results[i].chunk])
      BY <1>5, <2>1
  <2>. QED  BY <1>2, <1>3, <1>6, <2>2 DEF WholeResults, WholeAnswer
<1>. QED  BY <1>7

LEMMA FairAnswers == RetrievalInv => FusionFavoursNeither
<1>. SUFFICES ASSUME RetrievalInv, NEW s \in Searches, SearchAt(s) = "ranked", Asked(s).hybrid,
                     NEW found, found = ToSet(searches[s].vector) \cup ToSet(searches[s].keyword),
                     NEW a \in found, NEW b \in found,
                     NEW last, last = Cardinality(found) + 1,
                     NEW results, results = searches[s].results,
                     NEW chunks, chunks = [i \in DOMAIN results |-> results[i].chunk],
                     NEW pa, pa = Placed(RankIn(searches[s].vector, a), last),
                     NEW qa, qa = Placed(RankIn(searches[s].keyword, a), last),
                     NEW pb, pb = Placed(RankIn(searches[s].vector, b), last),
                     NEW qb, qb = Placed(RankIn(searches[s].keyword, b), last),
                     BetterPlaced(pa, qa, pb, qb), RankIn(chunks, b) # 0
              PROVE  RankIn(chunks, a) \in 1..RankIn(chunks, b) - 1
    BY DEF FusionFavoursNeither
<1>. PICK q : q = searches[s]  OBVIOUS
<1>. PICK v : v = q.vector  OBVIOUS
<1>. PICK w : w = q.keyword  OBVIOUS
<1>1. PICK r : r = q.request  OBVIOUS
<1>2. q \in SearchRecords /\ QueryFacts(q) /\ AnswerFacts(q) /\ q.pc = "ranked" /\ r.hybrid
    BY <1>1, SearchRow DEF SearchAt, Asked, RetrievalInv
<1>3. r \in SearchRequests  BY <1>1, <1>2 DEF QueryFacts
<1>4. v \in RankedLists(IndexedChunks) /\ w \in RankedLists(IndexedChunks)
    BY <1>2 DEF SearchRecords, IndexLists, AnswerFacts
<1>5. q.results = Results(r, v, w)  BY <1>1, <1>2 DEF AnswerFacts
<1>6. PICK fused : fused = ReciprocalRankFusion(v, w, RrfK)  OBVIOUS
<1>7. PICK n \in Nat : n <= Len(fused) /\ chunks = [i \in 1..n |-> fused[i]]
    BY <1>2, <1>3, <1>4, <1>5, <1>6, ChunksOfBoth
<1>. QED  BY <1>4, <1>6, <1>7, FusionIsFair

(* What a search answers is the fusion of what both indexes found, each chunk *)
(* once and in the order its places ask for (routes/search.ts, hybrid.ts,     *)
(* reranker.ts).                                                            *)
THEOREM AnswersSound == RetrievalSpec => []AnswersAreSound
<1>1. RetrievalInv => AnswersAreSound  BY WholeAnswers, FairAnswers DEF AnswersAreSound
<1>. QED  BY <1>1, RetrievalInvariant, PTL
=============================================================================
