-------------------------- MODULE IngestionProofs --------------------------
(***************************************************************************)
(* What is proved of the documents of the ingestion service, for any sets   *)
(* of requests and workspaces: the quota and the announcements of           *)
(* DocumentIngestion.                                                       *)
(***************************************************************************)
EXTENDS DocumentIngestion, SequenceLemmas
-----------------------------------------------------------------------------
(***************************************************************************)
(* DocumentIngestion.  What has happened to a request, by its stage: the    *)
(* bounds count the requests in the handler, so they need what each stage   *)
(* says of the tables and of the channel, and that a request is sent once.  *)
(***************************************************************************)
EventTypes == {"received", "validated", "rejected"}
Heard(type, r) == \E i \in 1..Len(channel) : channel[i] = Event(type, r)

RequestFacts(r) ==
    /\ r \in documents => stage[r] \in {"usage", "received", "validated", "201", "500"}
    /\ r \in counted => r \in documents /\ stage[r] \in {"received", "validated", "201", "500"}
    /\ stage[r] = "usage" => r \in documents
    /\ stage[r] \in {"received", "validated", "201"} => r \in counted
    /\ Heard("received", r) => r \in counted /\ stage[r] \in {"validated", "201", "500"}
    /\ Heard("validated", r) => stage[r] \in {"201", "500"}
    /\ Heard("rejected", r) => r \notin documents /\ stage[r] \in {"422", "500"}
    /\ stage[r] = "validated" => Heard("received", r)
    /\ stage[r] = "201" => Heard("validated", r)

Chronicle == \A r \in Requests : RequestFacts(r)

(* No event twice, and of a validation only after the reception.             *)
ChannelFacts ==
    /\ \A i, j \in 1..Len(channel) : channel[i] = channel[j] => i = j
    /\ \A r \in Requests : \A j \in 1..Len(channel) :
           channel[j] = Event("validated", r) => \E i \in 1..Len(channel) : i < j /\ channel[i] = Event("received", r)

(* The requests a call has yet to send.                                      *)
Unsent ==
    \A c \in Calls : \A a \in 0..MaxRetries :
        (call[c] = "idle" /\ a = attempt[c]) \/ a > attempt[c] => stage[<<c, a>>] = "none"

FewInFlight == Cardinality(InFlight) <= MaxInFlight

UsageCounts ==
    \A w \in Metered :
        /\ quota[w].docs = Cardinality(DocsOf(w, counted))
        /\ quota[w].bytes = Bytes(DocsOf(w, counted))

IngestInv ==
    /\ TypeOK /\ Unsent /\ FewInFlight /\ ChannelFacts /\ Chronicle
    /\ UsageCounts /\ DocumentOverrun /\ StorageOverrun

-----------------------------------------------------------------------------
(* The bytes of requests: of one more, and of no more than so many.          *)
LEMMA BytesOfRequests ==
    ASSUME NEW S, S \subseteq Requests
    PROVE  /\ Bytes(S) \in Nat /\ IsFiniteSet(S) /\ Cardinality(S) \in Nat
           /\ \A r \in Requests \ S : Bytes(S \cup {r}) = Bytes(S) + SizeOf[r]
           /\ \A r \in S : Bytes(S \ {r}) = Bytes(S) - SizeOf[r]
           /\ LargestSize \in Nat /\ Bytes(S) <= Cardinality(S) * LargestSize
           /\ \A T \in SUBSET S : Bytes(T) <= Bytes(S)
<1> USE IngestionConstants DEF IngestionAssumption
<1> DEFINE Of(T) == UNION {{r} \X (1..SizeOf[r]) : r \in T}
<1>1. /\ IsFiniteSet(S) /\ Cardinality(S) \in Nat
      /\ \A T \in SUBSET Requests : IsFiniteSet(T)
  BY FS_Subset, FS_CardinalityType
<1>2. \A r \in Requests : SizeOf[r] \in Nat
  OBVIOUS
<1>3. LargestSize \in Nat /\ \A r \in Requests : SizeOf[r] <= LargestSize
  <2> DEFINE sizes == {SizeOf[r] : r \in Requests}
  <2>1. IsFiniteSet(sizes)
    <3>1. SizeOf \in Surjection(Requests, sizes)
      BY DEF Surjection
    <3> HIDE DEF sizes
    <3> QED BY <3>1, FS_Surjection
  <2>2. IsFiniteSet({0} \cup sizes)
    <3> HIDE DEF sizes
    <3>1. IsFiniteSet(sizes \cup {0}) /\ sizes \cup {0} = {0} \cup sizes
      BY <2>1, FS_AddElement
    <3> QED BY <3>1
  <2>3. sizes \subseteq Nat /\ \A r \in Requests : SizeOf[r] \in sizes
    BY <1>2
  <2>4. PICK all : all = {0} \cup {SizeOf[r] : r \in Requests}
    OBVIOUS
  <2>5. all = {0} \cup sizes
    BY <2>4
  <2> HIDE DEF sizes
  <2>6. all \subseteq Int /\ IsFiniteSet(all) /\ all # {}
    BY <2>2, <2>3, <2>5
  <2>7. Max(all) \in all /\ \A y \in all : Max(all) >= y
    BY <2>6, MaxOfIntegers
  <2>8. LargestSize = Max(all)
    BY <2>4 DEF LargestSize
  <2>9. PICK m : m = Max(all)
    OBVIOUS
  <2>10. m \in Nat /\ \A y \in sizes : m >= y
    <3>1. m \in all /\ \A y \in all : m >= y
      BY <2>7, <2>9
    <3>2. all \subseteq Nat /\ sizes \subseteq all
      BY <2>3, <2>5
    <3> HIDE DEF sizes
    <3> QED BY <3>1, <3>2
  <2> QED BY <1>2, <2>3, <2>8, <2>9, <2>10
<1>4. \A T : Bytes(T) = Cardinality(Of(T))
  BY DEF Bytes
<1>5. PICK top \in Nat : top = LargestSize
  BY <1>3
<1>6. \A T \in SUBSET Requests : Of(T) \subseteq T \X (1..top)
  <2> SUFFICES ASSUME NEW T \in SUBSET Requests, NEW r \in T, NEW x \in {r} \X (1..SizeOf[r])
               PROVE  x \in T \X (1..top)
    OBVIOUS
  <2>1. PICK n \in 1..SizeOf[r] : x = <<r, n>>
    OBVIOUS
  <2>2. SizeOf[r] \in Nat /\ SizeOf[r] <= top
    BY <1>2, <1>3, <1>5
  <2>3. n \in 1..top
    BY <2>2
  <2> QED BY <2>1, <2>3
<1>7. ASSUME NEW T \in SUBSET Requests
      PROVE  /\ IsFiniteSet(Of(T)) /\ Bytes(T) \in Nat /\ Bytes(T) <= Cardinality(T) * top
  <2>1. IsFiniteSet(T) /\ IsFiniteSet(1..top) /\ Cardinality(1..top) = top
    BY SMTT(30), <1>1, FS_Interval
  <2>2. IsFiniteSet(T \X (1..top)) /\ Cardinality(T \X (1..top)) = Cardinality(T) * top
    BY <2>1, FS_Product
  <2> HIDE DEF Of
  <2>3. Of(T) \in SUBSET (T \X (1..top))
    BY <1>6
  <2>4. IsFiniteSet(Of(T)) /\ Cardinality(Of(T)) <= Cardinality(T \X (1..top))
    BY <2>2, <2>3, FS_Subset
  <2> QED BY <1>4, <2>2, <2>4, FS_CardinalityType
<1>8. ASSUME NEW T \in SUBSET Requests, NEW r \in Requests \ T
      PROVE  Bytes(T \cup {r}) = Bytes(T) + SizeOf[r]
  <2> DEFINE own == {r} \X (1..SizeOf[r])
  <2>1. Of(T \cup {r}) = Of(T) \cup own /\ Of(T) \cap own = {}
    OBVIOUS
  <2>2. IsFiniteSet(own) /\ Cardinality(own) = SizeOf[r]
    <3>1. IsFiniteSet(1..SizeOf[r]) /\ Cardinality(1..SizeOf[r]) = SizeOf[r]
      BY <1>2, FS_Interval
    <3>2. IsFiniteSet({r}) /\ Cardinality({r}) = 1
      BY FS_Singleton
    <3>3. IsFiniteSet(own) /\ Cardinality(own) = 1 * SizeOf[r]
      BY <3>1, <3>2, FS_Product
    <3> QED BY <1>2, <3>3
  <2>3. IsFiniteSet(Of(T)) /\ Bytes(T) \in Nat
    BY <1>7
  <2> HIDE DEF Of, own
  <2>4. Cardinality(Of(T) \cup own) = Cardinality(Of(T)) + Cardinality(own) - Cardinality({})
    BY <2>1, <2>2, <2>3, FS_Union
  <2>5. Cardinality({}) = 0
    BY FS_EmptySet
  <2>6. /\ Bytes(T \cup {r}) = Cardinality(Of(T) \cup own)
        /\ Bytes(T) = Cardinality(Of(T))
    BY <1>4, <2>1
  <2>7. PICK n, m : n = Bytes(T) /\ m = SizeOf[r]
    OBVIOUS
  <2>8. n \in Nat /\ m \in Nat /\ Bytes(T \cup {r}) = n + m - 0
    BY <1>2, <2>2, <2>3, <2>4, <2>5, <2>6, <2>7
  <2> QED BY <2>7, <2>8
<1>9. ASSUME NEW r \in S PROVE Bytes(S \ {r}) = Bytes(S) - SizeOf[r]
  <2>1. PICK T : T = S \ {r}
    OBVIOUS
  <2>2. T \in SUBSET Requests /\ r \in Requests \ T /\ T \cup {r} = S
    BY <2>1
  <2>3. Bytes(S) = Bytes(T) + SizeOf[r] /\ Bytes(T) \in Nat /\ SizeOf[r] \in Nat
    BY <1>2, <1>7, <1>8, <2>2
  <2> QED BY <2>1, <2>3
<1>10. ASSUME NEW T \in SUBSET S PROVE Bytes(T) <= Bytes(S)
  <2>1. IsFiniteSet(Of(S)) /\ Of(T) \in SUBSET Of(S)
    <3>1. S \in SUBSET Requests /\ Of(T) \subseteq Of(S)
      OBVIOUS
    <3> HIDE DEF Of
    <3> QED BY <1>7, <3>1
  <2> HIDE DEF Of
  <2>2. Cardinality(Of(T)) <= Cardinality(Of(S))
    BY <2>1, FS_Subset
  <2> QED BY <1>4, <2>2
<1> HIDE DEF Of
<1> QED BY <1>1, <1>5, <1>7, <1>8, <1>9, <1>10

-----------------------------------------------------------------------------
(* A request advances, or its answer is lost.                                *)
LEMMA Advanced ==
    ASSUME stage \in [Requests -> Stages], NEW r \in Requests, NEW next \in Stages,
           Advance(r, next)
    PROVE  /\ stage' \in [Requests -> Stages] /\ stage'[r] = next
           /\ \A q \in Requests \ {r} : stage'[q] = stage[q]
BY DEF Advance

LEMMA AdvancedOrLost ==
    ASSUME IngestionTypeOK, NEW r \in Requests, NEW next \in Stages, AdvanceOrLose(r, next)
    PROVE  /\ stage' \in [Requests -> Stages] /\ stage'[r] \in {next, "500"}
           /\ \A q \in Requests \ {r} : stage'[q] = stage[q]
           /\ faults' \in 0..MaxFaults
<1>1. CASE Advance(r, next) /\ UNCHANGED faults
  BY <1>1, Advanced DEF IngestionTypeOK
<1>2. CASE faults < MaxFaults /\ faults' = faults + 1 /\ Advance(r, "500")
  <2>1. "500" \in Stages
    BY DEF Stages, Statuses
  <2>2. faults' \in 0..MaxFaults
    BY <1>2, IngestionConstants DEF IngestionTypeOK, IngestionAssumption
  <2> QED BY <1>2, <2>1, <2>2, Advanced DEF IngestionTypeOK
<1> QED BY <1>1, <1>2 DEF AdvanceOrLose

(* The event of a request is added to the channel.                           *)
LEMMA ChannelGrows ==
    ASSUME channel \in Seq(EventType), ChannelFacts,
           NEW type \in EventTypes, NEW r \in Requests, ~Heard(type, r),
           type = "validated" => Heard("received", r),
           channel' = Append(channel, Event(type, r))
    PROVE  /\ channel' \in Seq(EventType) /\ ChannelFacts'
           /\ \A t \in EventTypes : \A q \in Requests :
                  Heard(t, q)' <=> Heard(t, q) \/ (t = type /\ q = r)
<1>1. PICK n \in Nat : n = Len(channel)
  OBVIOUS
<1>2. Event(type, r) \in EventType
  BY DEF Event, EventType, EventTypes
<1>3. /\ channel' \in Seq(EventType) /\ Len(channel') = n + 1
      /\ \A i \in 1..n : channel'[i] = channel[i]
      /\ channel'[n + 1] = Event(type, r)
  BY <1>1, <1>2, AppendProperties
<1>4. \A i \in 1..n : channel[i] # Event(type, r)
  BY <1>1 DEF Heard
<1>5. \A i, j \in 1..Len(channel') : channel'[i] = channel'[j] => i = j
  <2> SUFFICES ASSUME NEW i \in 1..(n + 1), NEW j \in 1..(n + 1), channel'[i] = channel'[j]
               PROVE  i = j
    BY <1>3
  <2>1. CASE i \in 1..n /\ j \in 1..n
    BY <1>1, <1>3, <2>1 DEF ChannelFacts
  <2>2. CASE i = n + 1 /\ j = n + 1
    BY <2>2
  <2>3. CASE i \in 1..n /\ j = n + 1
    BY <1>3, <1>4, <2>3
  <2>4. CASE i = n + 1 /\ j \in 1..n
    BY <1>3, <1>4, <2>4
  <2> QED BY <2>1, <2>2, <2>3, <2>4
<1>6. \A t \in EventTypes : \A q \in Requests : Event(t, q) = Event(type, r) <=> t = type /\ q = r
  BY DEF Event
<1>7. ASSUME NEW t \in EventTypes, NEW q \in Requests
      PROVE  Heard(t, q)' <=> Heard(t, q) \/ (t = type /\ q = r)
  <2>1. Heard(t, q)' <=> \E i \in 1..(n + 1) : channel'[i] = Event(t, q)
    BY <1>3 DEF Heard, Event
  <2>2. Heard(t, q) <=> \E i \in 1..n : channel[i] = Event(t, q)
    BY <1>1 DEF Heard
  <2>3. ASSUME Heard(t, q)' PROVE Heard(t, q) \/ (t = type /\ q = r)
    <3>1. PICK i \in 1..(n + 1) : channel'[i] = Event(t, q)
      BY <2>1, <2>3
    <3>2. CASE i \in 1..n
      BY <1>3, <2>2, <3>1, <3>2
    <3>3. CASE i = n + 1
      BY <1>3, <1>6, <3>1, <3>3
    <3> QED BY <3>2, <3>3
  <2>4. ASSUME Heard(t, q) PROVE Heard(t, q)'
    <3>1. PICK i \in 1..n : channel[i] = Event(t, q)
      BY <2>2, <2>4
    <3>2. i \in 1..(n + 1) /\ channel'[i] = Event(t, q)
      BY <1>3, <3>1
    <3> QED BY <2>1, <3>2
  <2>5. ASSUME t = type, q = r PROVE Heard(t, q)'
    <3>1. n + 1 \in 1..(n + 1) /\ channel'[n + 1] = Event(t, q)
      BY <1>3, <2>5
    <3> QED BY <2>1, <3>1
  <2> QED BY <2>3, <2>4, <2>5
<1>8. ASSUME NEW q \in Requests, NEW j \in 1..Len(channel'), channel'[j] = Event("validated", q)
      PROVE  \E i \in 1..Len(channel') : i < j /\ channel'[i] = Event("received", q)
  <2>1. CASE j \in 1..n
    <3>1. PICK i \in 1..n : i < j /\ channel[i] = Event("received", q)
      BY <1>1, <1>3, <1>8, <2>1 DEF ChannelFacts
    <3>2. i \in 1..Len(channel') /\ channel'[i] = Event("received", q)
      BY <1>3, <3>1
    <3> QED BY <3>1, <3>2
  <2>2. CASE j = n + 1
    <3>1. type = "validated" /\ q = r
      BY <1>3, <1>6, <1>8, <2>2 DEF EventTypes
    <3>2. PICK i \in 1..n : channel[i] = Event("received", q)
      BY <1>1, <3>1 DEF Heard
    <3>3. i \in 1..Len(channel') /\ channel'[i] = Event("received", q) /\ i < j
      BY <1>3, <2>2, <3>2
    <3> QED BY <3>3
  <2> QED BY <1>3, <2>1, <2>2
<1>9. ChannelFacts'
  BY <1>5, <1>8 DEF ChannelFacts, Event
<1> QED BY <1>3, <1>7, <1>9

-----------------------------------------------------------------------------
(* What a step says of the requests it does not move.                        *)
Silent(q) ==
    /\ stage'[q] = stage[q]
    /\ q \in documents' <=> q \in documents
    /\ q \in counted' <=> q \in counted
    /\ \A t \in EventTypes : Heard(t, q)' <=> Heard(t, q)

LEMMA OthersStandStill ==
    ASSUME Chronicle, NEW r \in Requests, \A q \in Requests \ {r} : Silent(q), RequestFacts(r)'
    PROVE  Chronicle'
<1>1. ASSUME NEW q \in Requests \ {r} PROVE RequestFacts(q)'
  <2>1. RequestFacts(q) /\ Silent(q)
    BY DEF Chronicle
  <2>2. \A t \in {"received", "validated", "rejected"} : Heard(t, q)' <=> Heard(t, q)
    BY <2>1 DEF Silent, EventTypes
  <2> QED BY <2>1, <2>2 DEF Silent, RequestFacts
<1> QED BY <1>1 DEF Chronicle

(* No request is admitted.                                                   *)
NoneAdmitted == \A q \in Requests : stage'[q] \in Working => stage[q] \in Working

LEMMA InFlightShrinks ==
    ASSUME FewInFlight, NoneAdmitted
    PROVE  FewInFlight'
<1> USE IngestionConstants DEF IngestionAssumption
<1>1. InFlight' \in SUBSET InFlight /\ InFlight \subseteq Requests
  BY DEF NoneAdmitted, InFlight
<1>2. PICK new : new = InFlight'
  OBVIOUS
<1>3. IsFiniteSet(InFlight) /\ new \in SUBSET InFlight
  BY <1>1, <1>2, FS_Subset
<1>4. /\ Cardinality(new) \in Nat /\ Cardinality(InFlight) \in Nat
      /\ Cardinality(new) <= Cardinality(InFlight)
  BY <1>3, FS_Subset, FS_CardinalityType
<1>5. Cardinality(InFlight)' = Cardinality(new)
  BY <1>2
<1> QED BY <1>4, <1>5 DEF FewInFlight

(* Nothing is charged and no request passes the quota check.                 *)
Slackens ==
    /\ quota' = quota
    /\ \A q \in Requests : stage'[q] \in {"create", "usage"} => stage[q] \in {"create", "usage"}

LEMMA OverrunShrinks ==
    ASSUME TypeOK, DocumentOverrun, StorageOverrun, Slackens
    PROVE  DocumentOverrun' /\ StorageOverrun'
<1> USE IngestionConstants DEF IngestionAssumption
<1>1. ASSUME NEW w \in Metered
      PROVE  /\ (quota[w].docs + Cardinality(Passed(w)) <= quota[w].max.maxDocs + MaxInFlight - 1)'
             /\ (quota[w].bytes + Bytes(Passed(w))
                   <= quota[w].max.maxBytes + (MaxInFlight - 1) * LargestSize)'
  <2>1. PICK old, new : old = Passed(w) /\ new = Passed(w)'
    OBVIOUS
  <2>2. old \subseteq Requests /\ new \in SUBSET old
    BY <2>1 DEF Slackens, Passed, DocsOf
  <2>3. /\ Cardinality(old) \in Nat /\ Cardinality(new) \in Nat
        /\ Cardinality(new) <= Cardinality(old)
        /\ Bytes(old) \in Nat /\ Bytes(new) \in Nat /\ Bytes(new) <= Bytes(old)
    <3>1. IsFiniteSet(old)
      BY <2>2, BytesOfRequests
    <3>2. Cardinality(new) <= Cardinality(old)
      BY <2>2, <3>1, FS_Subset
    <3>3. new \subseteq Requests
      BY <2>2
    <3> QED BY <2>2, <3>2, <3>3, BytesOfRequests
  <2>4. PICK d, b, md, mb, room \in Int :
            /\ d = quota[w].docs /\ b = quota[w].bytes
            /\ md = quota[w].max.maxDocs /\ mb = quota[w].max.maxBytes
            /\ room = (MaxInFlight - 1) * LargestSize
    <3>1. LargestSize \in Int /\ MaxInFlight - 1 \in Int
      BY BytesOfRequests
    <3>2. \A m, k \in Int : m * k \in Int
      OBVIOUS
    <3>3. /\ quota[w].docs \in Nat /\ quota[w].bytes \in Nat
          /\ quota[w].max.maxDocs \in Nat /\ quota[w].max.maxBytes \in Nat
      BY DEF TypeOK, IngestionTypeOK, QuotaRow
    <3> QED BY <3>1, <3>2, <3>3
  <2>5. /\ d + Cardinality(old) <= md + MaxInFlight - 1
        /\ b + Bytes(old) <= mb + room
    BY <2>1, <2>4 DEF DocumentOverrun, StorageOverrun
  <2>6. /\ d + Cardinality(new) <= md + MaxInFlight - 1
        /\ b + Bytes(new) <= mb + room
    BY <2>3, <2>5
  <2>7. /\ Cardinality(Passed(w))' = Cardinality(new)
        /\ Bytes(Passed(w))' = Bytes(new)
        /\ LargestSize' = LargestSize
    BY <2>1 DEF Bytes, LargestSize
  <2> QED BY <2>4, <2>6, <2>7 DEF Slackens
<1> QED BY <1>1 DEF DocumentOverrun, StorageOverrun

(* What was charged stays so.                                                *)
LEMMA UsageStays ==
    ASSUME UsageCounts, UNCHANGED <<quota, counted>>
    PROVE  UsageCounts'
<1>1. ASSUME NEW w \in Metered
      PROVE  /\ (quota[w].docs = Cardinality(DocsOf(w, counted)))'
             /\ (quota[w].bytes = Bytes(DocsOf(w, counted)))'
  <2>1. /\ quota[w].docs = Cardinality(DocsOf(w, counted))
        /\ quota[w].bytes = Bytes(DocsOf(w, counted))
    BY DEF UsageCounts
  <2>2. Cardinality(DocsOf(w, counted))' = Cardinality(DocsOf(w, counted))
    BY DEF DocsOf
  <2>3. Bytes(DocsOf(w, counted))' = Bytes(DocsOf(w, counted))
    BY DEF DocsOf, Bytes
  <2> QED BY <2>1, <2>2, <2>3
<1> QED BY <1>1 DEF UsageCounts

(* No call starts again or takes an attempt back, and no request is unsent.  *)
LEMMA UnsentStay ==
    ASSUME TypeOK, Unsent,
           \A c \in Calls : (call'[c] = "idle" => call[c] = "idle"), attempt' = attempt,
           \A q \in Requests : stage[q] = "none" => stage'[q] = "none"
    PROVE  Unsent'
<1>1. ASSUME NEW c \in Calls, NEW a \in 0..MaxRetries,
             (call'[c] = "idle" /\ a = attempt[c]) \/ a > attempt[c]
      PROVE  stage'[<<c, a>>] = "none"
  <2>1. (call[c] = "idle" /\ a = attempt[c]) \/ a > attempt[c]
    BY <1>1
  <2>2. <<c, a>> \in Requests
    BY SdkConstants DEF SdkAssumption
  <2> QED BY <2>1, <2>2 DEF Unsent
<1> QED BY <1>1 DEF Unsent

(* Nothing happens to what a client cannot see.                              *)
LEMMA ServiceStays ==
    ASSUME IngestInv, UNCHANGED svcVars
    PROVE  /\ IngestionTypeOK' /\ FewInFlight' /\ ChannelFacts' /\ Chronicle'
           /\ UsageCounts' /\ DocumentOverrun' /\ StorageOverrun'
<1>1. IngestionTypeOK'
  BY DEF IngestInv, TypeOK, IngestionTypeOK, svcVars, EventType, QuotaRow
<1>2. ChannelFacts' /\ Chronicle'
  BY DEF IngestInv, ChannelFacts, Chronicle, RequestFacts, Heard, svcVars
<1>3. UsageCounts'
  BY UsageStays DEF IngestInv, svcVars
<1>4. Slackens /\ NoneAdmitted
  BY DEF Slackens, NoneAdmitted, svcVars
<1> QED BY <1>1, <1>2, <1>3, <1>4, OverrunShrinks, InFlightShrinks DEF IngestInv

(* A step that leaves the channel alone.                                     *)
LEMMA ChannelStays ==
    ASSUME ChannelFacts, channel' = channel
    PROVE  ChannelFacts' /\ \A t \in EventTypes : \A q \in Requests : Heard(t, q)' <=> Heard(t, q)
BY DEF ChannelFacts, Heard

(* A step of one request that charges nothing and passes no check.           *)
LEMMA RequestMoves ==
    ASSUME IngestInv, NEW r \in Requests, TypeOK', Unsent', FewInFlight', ChannelFacts',
           \A q \in Requests \ {r} : Silent(q), RequestFacts(r)',
           Slackens, counted' = counted
    PROVE  IngestInv'
<1>1. Chronicle'
  BY OthersStandStill DEF IngestInv
<1>2. DocumentOverrun' /\ StorageOverrun'
  BY OverrunShrinks DEF IngestInv
<1>3. UsageCounts'
  BY UsageStays DEF IngestInv, Slackens
<1> QED BY <1>1, <1>2, <1>3 DEF IngestInv

-----------------------------------------------------------------------------
(* What the clients do.                                                      *)
LEMMA SentStep ==
    ASSUME IngestInv, NEW c \in Calls, NEW a \in 0..MaxRetries,
           Advance(<<c, a>>, "sent"), stage[<<c, a>>] = "none",
           SdkTypeOK', Unsent', UNCHANGED <<malformed, documents, quota, channel, counted, faults>>
    PROVE  IngestInv'
<1>1. PICK r \in Requests : r = <<c, a>>
  BY SdkConstants DEF SdkAssumption
<1>2. /\ stage' \in [Requests -> Stages] /\ stage'[r] = "sent"
      /\ \A q \in Requests \ {r} : stage'[q] = stage[q]
  BY <1>1, Advanced DEF IngestInv, TypeOK, IngestionTypeOK, Stages
<1>3. TypeOK'
  BY <1>2 DEF IngestInv, TypeOK, IngestionTypeOK, EventType, QuotaRow
<1>4. ChannelFacts' /\ \A t \in EventTypes : \A q \in Requests : Heard(t, q)' <=> Heard(t, q)
  BY ChannelStays DEF IngestInv
<1>5. \A q \in Requests \ {r} : Silent(q)
  BY <1>2, <1>4 DEF Silent
<1>6. RequestFacts(r) /\ stage[r] = "none"
  BY <1>1 DEF IngestInv, Chronicle
<1>7. RequestFacts(r)'
  BY <1>2, <1>4, <1>6 DEF RequestFacts, EventTypes
<1>8. Slackens /\ NoneAdmitted
  BY <1>2 DEF Slackens, NoneAdmitted, Working
<1>9. FewInFlight'
  BY <1>8, InFlightShrinks DEF IngestInv
<1> QED BY <1>3, <1>4, <1>5, <1>7, <1>8, <1>9, RequestMoves

LEMMA SendStep ==
    ASSUME IngestInv, NEW c \in Calls, Send(c)
    PROVE  IngestInv'
<1>1. PICK a \in 0..MaxRetries : a = attempt[c]
  BY DEF IngestInv, TypeOK, SdkTypeOK
<1>2. stage[<<c, a>>] = "none"
  BY <1>1 DEF IngestInv, Unsent, Send
<1>3. Advance(<<c, a>>, "sent")
  BY <1>1 DEF Send, Current
<1>4. SdkTypeOK'
  BY DEF Send, SetCall, IngestInv, TypeOK, SdkTypeOK, CallStates
<1>5. Unsent'
  <2> SUFFICES ASSUME NEW d \in Calls, NEW b \in 0..MaxRetries,
                      (call'[d] = "idle" /\ b = attempt[d]) \/ b > attempt[d]
               PROVE  stage'[<<d, b>>] = "none"
    BY DEF Unsent, Send
  <2>1. (call[d] = "idle" /\ b = attempt[d]) \/ b > attempt[d]
    BY DEF Send, SetCall, IngestInv, TypeOK, SdkTypeOK
  <2>2. <<d, b>> \in Requests /\ stage[<<d, b>>] = "none"
    BY <2>1, SdkConstants DEF SdkAssumption, IngestInv, Unsent
  <2>3. <<d, b>> # <<c, a>>
    BY <1>1 DEF Send, SetCall, IngestInv, TypeOK, SdkTypeOK
  <2> QED BY <1>3, <2>2, <2>3 DEF Advance, IngestInv, TypeOK, IngestionTypeOK
<1> QED BY <1>2, <1>3, <1>4, <1>5, SentStep DEF Send

LEMMA RetryStep ==
    ASSUME IngestInv, NEW c \in Calls, Retry(c)
    PROVE  IngestInv'
<1>1. MaxRetries \in Nat /\ attempt[c] \in 0..MaxRetries /\ attempt[c] < MaxRetries
  BY SdkConstants DEF SdkAssumption, Retry, IngestInv, TypeOK, SdkTypeOK
<1>2. PICK a \in 0..MaxRetries : a = attempt[c] + 1
  BY <1>1
<1>3. stage[<<c, a>>] = "none"
  BY <1>1, <1>2 DEF IngestInv, Unsent
<1>4. Advance(<<c, a>>, "sent")
  BY <1>2 DEF Retry
<1>5. SdkTypeOK'
  BY <1>1 DEF Retry, SetCall, IngestInv, TypeOK, SdkTypeOK, CallStates
<1>6. Unsent'
  <2> SUFFICES ASSUME NEW d \in Calls, NEW b \in 0..MaxRetries,
                      (call'[d] = "idle" /\ b = attempt'[d]) \/ b > attempt'[d]
               PROVE  stage'[<<d, b>>] = "none"
    BY DEF Unsent
  <2>1. d = c => attempt'[d] = a /\ call'[d] = "waiting"
    BY <1>2 DEF Retry, SetCall, IngestInv, TypeOK, SdkTypeOK
  <2>2. d # c => attempt'[d] = attempt[d] /\ call'[d] = call[d]
    BY DEF Retry, SetCall, IngestInv, TypeOK, SdkTypeOK
  <2>3. (call[d] = "idle" /\ b = attempt[d]) \/ b > attempt[d]
    BY <1>1, <1>2, <2>1, <2>2
  <2>4. <<d, b>> \in Requests /\ stage[<<d, b>>] = "none"
    BY <2>3, SdkConstants DEF SdkAssumption, IngestInv, Unsent
  <2>5. <<d, b>> # <<c, a>>
    BY <2>1
  <2> QED BY <1>4, <2>4, <2>5 DEF Advance, IngestInv, TypeOK, IngestionTypeOK
<1> QED BY <1>3, <1>4, <1>5, <1>6, SentStep DEF Retry

LEMMA ClientStep ==
    ASSUME IngestInv, NEW c \in Calls, Answer(c) \/ GatewayTimesOut(c) \/ ClientTimesOut(c)
    PROVE  IngestInv'
<1>1. UNCHANGED <<attempt, svcVars>>
  BY DEF Answer, GatewayTimesOut, ClientTimesOut
<1>2. /\ call' \in [Calls -> CallStates]
      /\ \A d \in Calls : call'[d] = "idle" => call[d] = "idle"
  <2>1. PICK state \in {"ok", "backoff", "failed"} : SetCall(c, state)
    BY Zenon DEF Answer, GatewayTimesOut, ClientTimesOut, Answered
  <2> QED BY <2>1 DEF SetCall, IngestInv, TypeOK, SdkTypeOK, CallStates
<1>3. SdkTypeOK'
  BY <1>1, <1>2 DEF IngestInv, TypeOK, SdkTypeOK
<1>4. Unsent'
  BY <1>1, <1>2, UnsentStay DEF svcVars, IngestInv
<1> QED BY <1>1, <1>3, <1>4, ServiceStays DEF IngestInv, TypeOK

-----------------------------------------------------------------------------
(* What happens to a request on its way and in the handler.                  *)
LEMMA RefuseStep ==
    ASSUME IngestInv, NEW r \in Requests, NEW status, Refuse(r, status)
    PROVE  IngestInv'
<1>1. status \in Stages /\ status \in {"429", "500"}
  BY DEF Refuse, Stages, Statuses
<1>2. /\ stage' \in [Requests -> Stages] /\ stage'[r] = status
      /\ \A q \in Requests \ {r} : stage'[q] = stage[q]
  BY <1>1, Advanced DEF Refuse, IngestInv, TypeOK, IngestionTypeOK
<1>3. TypeOK'
  BY <1>2 DEF Refuse, IngestInv, TypeOK, IngestionTypeOK, EventType, QuotaRow, SdkTypeOK, sdkVars
<1>4. ChannelFacts' /\ \A t \in EventTypes : \A q \in Requests : Heard(t, q)' <=> Heard(t, q)
  BY ChannelStays DEF Refuse, IngestInv
<1>5. \A q \in Requests \ {r} : Silent(q)
  BY <1>2, <1>4 DEF Silent, Refuse
<1>6. RequestFacts(r) /\ stage[r] = "sent"
  BY DEF IngestInv, Chronicle, Refuse
<1>7. RequestFacts(r)'
  BY <1>1, <1>2, <1>4, <1>6 DEF RequestFacts, EventTypes, Refuse
<1>8. Slackens /\ NoneAdmitted
  BY <1>1, <1>2 DEF Slackens, NoneAdmitted, Working, Refuse
<1>9. Unsent'
  BY <1>1, <1>2, <1>6, UnsentStay DEF Refuse, sdkVars, IngestInv
<1>10. FewInFlight'
  BY <1>8, InFlightShrinks DEF IngestInv
<1> QED BY <1>3, <1>4, <1>5, <1>7, <1>8, <1>9, <1>10, RequestMoves DEF Refuse

(* The handler admits a request only while fewer than MaxInFlight are there.  *)
LEMMA ArriveStep ==
    ASSUME IngestInv, NEW r \in Requests, Arrive(r), UNCHANGED sdkVars
    PROVE  IngestInv'
<1> USE IngestionConstants DEF IngestionAssumption
<1>1. PICK next \in {"reject", "quota"} : Advance(r, next)
  BY Zenon DEF Arrive
<1>2. next \in Stages
  BY DEF Stages, Working
<1>3. /\ stage' \in [Requests -> Stages] /\ stage'[r] = next
      /\ \A q \in Requests \ {r} : stage'[q] = stage[q]
  BY <1>1, <1>2, Advanced DEF IngestInv, TypeOK, IngestionTypeOK
<1>4. TypeOK'
  BY <1>3 DEF Arrive, IngestInv, TypeOK, IngestionTypeOK, EventType, QuotaRow, SdkTypeOK, sdkVars
<1>5. ChannelFacts' /\ \A t \in EventTypes : \A q \in Requests : Heard(t, q)' <=> Heard(t, q)
  BY ChannelStays DEF Arrive, IngestInv
<1>6. \A q \in Requests \ {r} : Silent(q)
  BY <1>3, <1>5 DEF Silent, Arrive
<1>7. RequestFacts(r) /\ stage[r] = "sent"
  BY DEF IngestInv, Chronicle, Arrive
<1>8. RequestFacts(r)'
  BY <1>3, <1>5, <1>7 DEF RequestFacts, EventTypes, Arrive
<1>9. Slackens
  BY <1>3 DEF Slackens, Arrive
<1>10. Unsent'
  BY <1>3, <1>7, UnsentStay DEF sdkVars, IngestInv
<1>11. FewInFlight'
  <2>1. PICK old, new : old = InFlight /\ new = InFlight'
    OBVIOUS
  <2>2. r \notin old /\ new = old \cup {r} /\ old \subseteq Requests
    BY <2>1, <1>3, <1>7 DEF InFlight, Working
  <2>3. IsFiniteSet(old)
    BY <2>2, FS_Subset
  <2>4. Cardinality(new) = Cardinality(old) + 1 /\ Cardinality(old) \in Nat
    BY <2>2, <2>3, FS_AddElement, FS_CardinalityType
  <2>5. Cardinality(old) < MaxInFlight
    BY <2>1 DEF Arrive
  <2>6. Cardinality(InFlight)' = Cardinality(new)
    BY <2>1
  <2> QED BY <2>4, <2>5, <2>6 DEF FewInFlight
<1> QED BY <1>4, <1>5, <1>6, <1>8, <1>9, <1>10, <1>11, RequestMoves DEF Arrive

(* A step of a request in the handler that neither admits, checks nor        *)
(* charges: what is left to show of it.                                      *)
LEMMA HandlerMoves ==
    ASSUME IngestInv, NEW r \in Requests, stage[r] \in Working, UNCHANGED <<sdkVars, malformed, quota, counted>>,
           stage' \in [Requests -> Stages], \A q \in Requests \ {r} : stage'[q] = stage[q],
           stage'[r] # "none", stage'[r] \in {"create", "usage"} => stage[r] \in {"create", "usage"},
           faults' \in 0..MaxFaults,
           documents' \subseteq Requests, \A q \in Requests \ {r} : q \in documents' <=> q \in documents,
           channel' \in Seq(EventType), ChannelFacts',
           \A t \in EventTypes : \A q \in Requests \ {r} : Heard(t, q)' <=> Heard(t, q),
           RequestFacts(r)'
    PROVE  IngestInv'
<1>1. TypeOK'
  BY DEF IngestInv, TypeOK, IngestionTypeOK, EventType, QuotaRow, SdkTypeOK, sdkVars
<1>2. \A q \in Requests \ {r} : Silent(q)
  BY DEF Silent
<1>3. Slackens /\ NoneAdmitted
  BY DEF Slackens, NoneAdmitted
<1>4. Unsent'
  BY UnsentStay DEF sdkVars, IngestInv, Working
<1>5. FewInFlight'
  BY <1>3, InFlightShrinks DEF IngestInv
<1> QED BY <1>1, <1>2, <1>3, <1>4, <1>5, RequestMoves

LEMMA PublishStep ==
    ASSUME IngestInv, NEW r \in Requests, UNCHANGED sdkVars,
           PublishRejected(r) \/ PublishReceived(r) \/ PublishValidated(r)
    PROVE  IngestInv'
<1>1. RequestFacts(r) /\ IngestionTypeOK /\ ChannelFacts /\ channel \in Seq(EventType)
  BY DEF IngestInv, Chronicle, TypeOK, IngestionTypeOK
<1>2. UNCHANGED <<malformed, documents, quota, counted>> /\ stage[r] \in Working
  BY DEF PublishRejected, PublishReceived, PublishValidated, Working
<1>3. PICK type \in EventTypes, next \in Stages :
          /\ channel' = Append(channel, Event(type, r)) /\ AdvanceOrLose(r, next)
          /\ \/ type = "rejected" /\ stage[r] = "reject" /\ next = "422"
             \/ type = "received" /\ stage[r] = "received" /\ next = "validated"
             \/ type = "validated" /\ stage[r] = "validated" /\ next = "201"
  <2>1. CASE PublishRejected(r)
    BY <2>1 DEF PublishRejected, EventTypes, Stages, Statuses
  <2>2. CASE PublishReceived(r)
    BY <2>2 DEF PublishReceived, EventTypes, Stages, Working
  <2>3. CASE PublishValidated(r)
    BY <2>3 DEF PublishValidated, EventTypes, Stages, Statuses
  <2> QED BY <2>1, <2>2, <2>3
<1>4. /\ stage' \in [Requests -> Stages] /\ stage'[r] \in {next, "500"}
      /\ \A q \in Requests \ {r} : stage'[q] = stage[q]
      /\ faults' \in 0..MaxFaults
  BY <1>1, <1>3, AdvancedOrLost
<1>5. ~Heard(type, r) /\ (type = "validated" => Heard("received", r))
  BY <1>1, <1>3 DEF RequestFacts
<1>6. /\ channel' \in Seq(EventType) /\ ChannelFacts'
      /\ \A t \in EventTypes : \A q \in Requests :
             Heard(t, q)' <=> Heard(t, q) \/ (t = type /\ q = r)
  BY <1>1, <1>3, <1>5, ChannelGrows
<1>7. \A t \in {"received", "validated", "rejected"} : Heard(t, r)' <=> Heard(t, r) \/ t = type
  BY <1>6 DEF EventTypes
<1>8. RequestFacts(r)'
  <2>1. CASE type = "rejected"
    BY <1>1, <1>2, <1>3, <1>4, <1>7, <2>1 DEF RequestFacts
  <2>2. CASE type = "received"
    BY <1>1, <1>2, <1>3, <1>4, <1>7, <2>2 DEF RequestFacts
  <2>3. CASE type = "validated"
    BY <1>1, <1>2, <1>3, <1>4, <1>7, <2>3 DEF RequestFacts
  <2> QED BY <2>1, <2>2, <2>3 DEF EventTypes
<1>9. /\ stage'[r] # "none" /\ stage'[r] \notin {"create", "usage"}
      /\ documents' \subseteq Requests /\ documents' = documents
  BY <1>1, <1>2, <1>3, <1>4 DEF IngestionTypeOK
<1> QED BY <1>2, <1>4, <1>6, <1>8, <1>9, HandlerMoves

(* A document is stored; or a call rejects and leaves everything as it was.  *)
LEMMA CreateStep ==
    ASSUME IngestInv, NEW r \in Requests, UNCHANGED sdkVars, CreateDocument(r)
    PROVE  IngestInv'
<1>1. RequestFacts(r) /\ IngestionTypeOK
  BY DEF IngestInv, Chronicle, TypeOK
<1>2. stage[r] \in Working /\ stage[r] = "create" /\ "usage" \in Stages
  BY DEF CreateDocument, Working, Stages
<1>3. /\ stage' \in [Requests -> Stages] /\ stage'[r] \in {"usage", "500"}
      /\ \A q \in Requests \ {r} : stage'[q] = stage[q]
      /\ faults' \in 0..MaxFaults
  BY <1>1, <1>2, AdvancedOrLost DEF CreateDocument
<1>4. ChannelFacts' /\ \A t \in EventTypes : \A q \in Requests : Heard(t, q)' <=> Heard(t, q)
  BY ChannelStays DEF CreateDocument, IngestInv
<1>5. RequestFacts(r)'
  BY <1>1, <1>2, <1>3, <1>4 DEF RequestFacts, EventTypes, CreateDocument
<1>6. /\ documents' \subseteq Requests /\ \A q \in Requests \ {r} : q \in documents' <=> q \in documents
      /\ channel' \in Seq(EventType)
  BY <1>1 DEF IngestionTypeOK, CreateDocument
<1> QED BY <1>2, <1>3, <1>4, <1>5, <1>6, HandlerMoves DEF CreateDocument

LEMMA RejectsStep ==
    ASSUME IngestInv, NEW r \in Requests, UNCHANGED sdkVars, CallRejects(r)
    PROVE  IngestInv'
<1>1. RequestFacts(r) /\ IngestionTypeOK
  BY DEF IngestInv, Chronicle, TypeOK
<1>2. stage[r] \in Working /\ "500" \in Stages
  BY DEF CallRejects, Stages, Statuses
<1>3. /\ stage' \in [Requests -> Stages] /\ stage'[r] = "500"
      /\ \A q \in Requests \ {r} : stage'[q] = stage[q]
  BY <1>1, <1>2, Advanced DEF CallRejects, IngestionTypeOK
<1>4. faults' \in 0..MaxFaults
  BY <1>1, IngestionConstants DEF CallRejects, IngestionTypeOK, IngestionAssumption
<1>5. ChannelFacts' /\ \A t \in EventTypes : \A q \in Requests : Heard(t, q)' <=> Heard(t, q)
  BY ChannelStays DEF CallRejects, IngestInv
<1>6. RequestFacts(r)'
  BY <1>1, <1>2, <1>3, <1>5 DEF RequestFacts, EventTypes, CallRejects, Working
<1>7. documents' \subseteq Requests /\ documents' = documents /\ channel' \in Seq(EventType)
  BY <1>1 DEF IngestionTypeOK, CallRejects
<1> QED BY <1>2, <1>3, <1>4, <1>5, <1>6, <1>7, HandlerMoves DEF CallRejects

-----------------------------------------------------------------------------
(* The quota check: an allowed request may still be charged.                 *)
LEMMA CheckStep ==
    ASSUME IngestInv, NEW r \in Requests, UNCHANGED sdkVars, CheckQuota(r)
    PROVE  IngestInv'
<1> USE IngestionConstants DEF IngestionAssumption
<1>1. RequestFacts(r) /\ IngestionTypeOK
  BY DEF IngestInv, Chronicle, TypeOK
<1>2. PICK next : next = IF Allowed(r) THEN "create" ELSE "422"
  OBVIOUS
<1>3. stage[r] \in Working /\ stage[r] = "quota" /\ next \in Stages /\ next \in {"create", "422"}
  BY <1>2 DEF CheckQuota, Working, Stages, Statuses
<1>4. /\ stage' \in [Requests -> Stages] /\ stage'[r] = next
      /\ \A q \in Requests \ {r} : stage'[q] = stage[q]
  BY <1>1, <1>2, <1>3, Advanced DEF CheckQuota, IngestionTypeOK
<1>5. ChannelFacts' /\ \A t \in EventTypes : \A q \in Requests : Heard(t, q)' <=> Heard(t, q)
  BY ChannelStays DEF CheckQuota, IngestInv
<1>6. RequestFacts(r)'
  BY <1>1, <1>3, <1>4, <1>5 DEF RequestFacts, EventTypes, CheckQuota
<1>7. /\ documents' \subseteq Requests /\ documents' = documents /\ channel' \in Seq(EventType)
      /\ faults' \in 0..MaxFaults
  BY <1>1 DEF IngestionTypeOK, CheckQuota
<1>8. CASE next = "422"
  BY <1>3, <1>4, <1>5, <1>6, <1>7, <1>8, HandlerMoves DEF CheckQuota
<1>9. CASE next = "create"
  <2>1. Allowed(r)
    BY <1>2, <1>9
  <2>2. TypeOK'
    BY <1>4, <1>7 DEF CheckQuota, IngestInv, TypeOK, IngestionTypeOK, EventType, QuotaRow, SdkTypeOK, sdkVars
  <2>3. \A q \in Requests \ {r} : Silent(q)
    BY <1>4, <1>5 DEF Silent, CheckQuota
  <2>4. Chronicle'
    BY <1>6, <2>3, OthersStandStill DEF IngestInv
  <2>5. NoneAdmitted /\ FewInFlight'
    <3>1. NoneAdmitted
      BY <1>3, <1>4 DEF NoneAdmitted
    <3> QED BY <3>1, InFlightShrinks DEF IngestInv
  <2>6. Unsent'
    BY <1>3, <1>4, <1>9, UnsentStay DEF sdkVars, IngestInv, Working
  <2>7. UsageCounts'
    BY UsageStays DEF CheckQuota, IngestInv
  <2>8. ASSUME NEW w \in Metered
        PROVE  /\ (quota[w].docs + Cardinality(Passed(w)) <= quota[w].max.maxDocs + MaxInFlight - 1)'
               /\ (quota[w].bytes + Bytes(Passed(w))
                     <= quota[w].max.maxBytes + (MaxInFlight - 1) * LargestSize)'
    <3>1. PICK old, new, flying : old = Passed(w) /\ new = Passed(w)' /\ flying = InFlight'
      OBVIOUS
    <3>2. PICK d, b, md, mb, top, size \in Nat :
              /\ d = quota[w].docs /\ b = quota[w].bytes
              /\ md = quota[w].max.maxDocs /\ mb = quota[w].max.maxBytes
              /\ top = LargestSize /\ size = SizeOf[r]
      <4>1. LargestSize \in Nat
        BY BytesOfRequests
      <4>2. /\ quota[w].docs \in Nat /\ quota[w].bytes \in Nat
            /\ quota[w].max.maxDocs \in Nat /\ quota[w].max.maxBytes \in Nat
        BY <1>1 DEF IngestionTypeOK, QuotaRow
      <4> QED BY <4>1, <4>2
    <3>3. PICK room \in Int : room = (MaxInFlight - 1) * top
      <4>1. \A m, k \in Int : m * k \in Int
        OBVIOUS
      <4> QED BY <3>2, <4>1
    <3>4. /\ Cardinality(Passed(w))' = Cardinality(new) /\ Bytes(Passed(w))' = Bytes(new)
          /\ LargestSize' = LargestSize /\ quota' = quota
      BY <3>1 DEF Bytes, LargestSize, CheckQuota
    <3>5. CASE WorkspaceOf[r] = w
      <4>1. d < md /\ b + size <= mb
        BY <2>1, <3>2, <3>5 DEF Allowed
      <4>2. flying \subseteq Requests /\ new \in SUBSET flying /\ r \in new
        BY <1>4, <1>9, <3>1, <3>5 DEF InFlight, Passed, DocsOf, Working
      <4>3. Cardinality(flying) <= MaxInFlight
        <5>1. Cardinality(InFlight)' = Cardinality(flying)
          BY <3>1
        <5> QED BY <2>5, <5>1 DEF FewInFlight
      <4>4. PICK rest : rest = new \ {r}
        OBVIOUS
      <4>5. /\ new \subseteq Requests /\ rest \subseteq Requests
        BY <4>2, <4>4
      <4>6. /\ Cardinality(flying) \in Nat /\ Cardinality(new) \in Nat /\ Cardinality(rest) \in Nat
            /\ Cardinality(new) <= Cardinality(flying)
            /\ Cardinality(rest) = Cardinality(new) - 1
        <5>1. IsFiniteSet(flying) /\ IsFiniteSet(new) /\ IsFiniteSet(rest)
          BY <4>2, <4>5, BytesOfRequests
        <5> QED BY <4>2, <4>4, <5>1, FS_Subset, FS_CardinalityType, FS_RemoveElement
      <4>7. /\ Bytes(new) \in Nat /\ Bytes(rest) \in Nat
            /\ Bytes(rest) = Bytes(new) - size
            /\ Bytes(rest) <= Cardinality(rest) * top
        <5>1. Bytes(new \ {r}) = Bytes(new) - SizeOf[r]
          BY <4>2, <4>5, BytesOfRequests
        <5>2. Bytes(rest) = Bytes(new) - SizeOf[r]
          BY <4>4, <5>1
        <5>3. Bytes(new) \in Nat /\ Bytes(rest) \in Nat /\ Bytes(rest) <= Cardinality(rest) * LargestSize
          BY <4>5, BytesOfRequests
        <5> QED BY <3>2, <5>2, <5>3
      <4>8. PICK n, k, x, y \in Nat : n = Cardinality(new) /\ k = Cardinality(rest) /\ x = Bytes(new) /\ y = Bytes(rest)
        BY <4>6, <4>7
      <4>9. k <= MaxInFlight - 1 /\ n <= MaxInFlight
        BY <4>3, <4>6, <4>8
      <4>10. k * top <= room
        BY <3>2, <3>3, <4>9, TimesIsMonotone
      <4>11. y <= room
        <5>1. PICK p \in Int : p = k * top
          OBVIOUS
        <5>2. y <= p
          BY <4>7, <4>8, <5>1
        <5> QED BY <4>8, <4>10, <5>1, <5>2
      <4>12. d + n <= md + MaxInFlight - 1 /\ b + x <= mb + room
        <5>1. y = x - size
          BY <4>7, <4>8
        <5> QED BY <4>1, <4>8, <4>9, <4>11, <5>1
      <4> QED BY <3>2, <3>3, <3>4, <4>8, <4>12
    <3>6. CASE WorkspaceOf[r] # w
      <4>1. new = old
        BY <1>4, <3>1, <3>6 DEF Passed, DocsOf
      <4>2. /\ quota[w].docs + Cardinality(old) <= quota[w].max.maxDocs + MaxInFlight - 1
            /\ quota[w].bytes + Bytes(old) <= quota[w].max.maxBytes + (MaxInFlight - 1) * LargestSize
        BY <3>1 DEF IngestInv, DocumentOverrun, StorageOverrun
      <4> QED BY <3>4, <4>1, <4>2
    <3> QED BY <3>5, <3>6
  <2>9. DocumentOverrun' /\ StorageOverrun'
    BY <2>8 DEF DocumentOverrun, StorageOverrun
  <2> QED BY <1>5, <2>2, <2>4, <2>5, <2>6, <2>7, <2>9 DEF IngestInv
<1> QED BY <1>3, <1>8, <1>9

(* The charge: the request leaves those that may be charged and joins those  *)
(* that were.                                                                *)
LEMMA UsageStep ==
    ASSUME IngestInv, NEW r \in Requests, UNCHANGED sdkVars, UpdateUsage(r)
    PROVE  IngestInv'
<1> USE IngestionConstants DEF IngestionAssumption
<1>1. RequestFacts(r) /\ IngestionTypeOK
  BY DEF IngestInv, Chronicle, TypeOK
<1>2. stage[r] \in Working /\ stage[r] = "usage" /\ "received" \in Stages
  BY DEF UpdateUsage, Working, Stages
<1>3. /\ stage' \in [Requests -> Stages] /\ stage'[r] \in {"received", "500"}
      /\ \A q \in Requests \ {r} : stage'[q] = stage[q]
      /\ faults' \in 0..MaxFaults
  BY <1>1, <1>2, AdvancedOrLost DEF UpdateUsage
<1>4. ChannelFacts' /\ \A t \in EventTypes : \A q \in Requests : Heard(t, q)' <=> Heard(t, q)
  BY ChannelStays DEF UpdateUsage, IngestInv
<1>5. r \in documents /\ r \notin counted
  BY <1>1, <1>2 DEF RequestFacts
<1>6. RequestFacts(r)'
  BY <1>1, <1>2, <1>3, <1>4, <1>5 DEF RequestFacts, EventTypes, UpdateUsage
<1>7. ASSUME NEW w \in Metered
      PROVE  /\ quota[w].docs \in Nat /\ quota[w].bytes \in Nat /\ quota[w].max \in Limits
             /\ SizeOf[r] \in Nat
             /\ w # WorkspaceOf[r] => quota'[w] = quota[w]
             /\ w = WorkspaceOf[r] =>
                  /\ quota'[w].docs = quota[w].docs + 1
                  /\ quota'[w].bytes = quota[w].bytes + SizeOf[r]
                  /\ quota'[w].max = quota[w].max
                  /\ quota'[w] \in QuotaRow
  <2>1. PICK row \in QuotaRow : row = quota[w]
    BY <1>1 DEF IngestionTypeOK
  <2>2. PICK size \in Nat : size = SizeOf[r]
    OBVIOUS
  <2>3. row.docs \in Nat /\ row.bytes \in Nat /\ row.max \in Limits
    BY DEF QuotaRow
  <2>4. w # WorkspaceOf[r] => quota'[w] = row
    BY <2>1 DEF UpdateUsage
  <2>5. PICK e \in Nat, c \in Nat : e = row.docs + 1 /\ c = row.bytes + size
    <3>1. row.docs + 1 \in Nat /\ row.bytes + size \in Nat
      BY <2>3
    <3> QED BY <3>1
  <2>6. ASSUME w = WorkspaceOf[r]
        PROVE  quota'[w] = [row EXCEPT !.docs = e, !.bytes = c]
    <3>1. quota'[w] = [quota[w] EXCEPT !.docs = @ + 1, !.bytes = @ + SizeOf[r]]
      BY <2>6, Zenon DEF UpdateUsage
    <3>2. quota'[w] = [row EXCEPT !.docs = row.docs + 1, !.bytes = row.bytes + size]
      BY <2>1, <2>2, <3>1, Zenon
    <3> QED BY <2>5, <3>2
  <2>7. ASSUME w = WorkspaceOf[r]
        PROVE  /\ quota'[w] \in QuotaRow /\ quota'[w].docs = e
               /\ quota'[w].bytes = c /\ quota'[w].max = row.max
    <3>1. PICK new : new = quota'[w]
      OBVIOUS
    <3>2. new = [row EXCEPT !.docs = e, !.bytes = c]
      BY <2>6, <2>7, <3>1
    <3>3. new \in QuotaRow /\ new.docs = e /\ new.bytes = c /\ new.max = row.max
      BY <3>2 DEF QuotaRow
    <3> QED BY <3>1, <3>3
  <2> QED BY <2>1, <2>2, <2>3, <2>4, <2>5, <2>7
<1>8. TypeOK'
  <2>1. quota' \in [Metered -> QuotaRow]
    <3>1. \A w \in Metered : quota'[w] \in QuotaRow
      BY <1>1, <1>7 DEF IngestionTypeOK
    <3>2. quota' = [w \in Metered |-> quota'[w]]
      BY DEF UpdateUsage
    <3> QED BY <3>1, <3>2
  <2> QED BY <1>3, <2>1 DEF UpdateUsage, IngestInv, TypeOK, IngestionTypeOK, EventType, SdkTypeOK, sdkVars
<1>9. \A q \in Requests \ {r} : Silent(q)
  BY <1>3, <1>4 DEF Silent, UpdateUsage
<1>10. Chronicle'
  BY <1>6, <1>9, OthersStandStill DEF IngestInv
<1>11. FewInFlight'
  <2>1. NoneAdmitted
    BY <1>2, <1>3 DEF NoneAdmitted
  <2> QED BY <2>1, InFlightShrinks DEF IngestInv
<1>12. Unsent'
  BY <1>2, <1>3, UnsentStay DEF sdkVars, IngestInv
<1>13. ASSUME NEW w \in Metered
       PROVE  /\ (quota[w].docs = Cardinality(DocsOf(w, counted)))'
              /\ (quota[w].bytes = Bytes(DocsOf(w, counted)))'
  <2>1. PICK old, new : old = DocsOf(w, counted) /\ new = DocsOf(w, counted)'
    OBVIOUS
  <2>2. /\ Cardinality(DocsOf(w, counted))' = Cardinality(new) /\ Bytes(DocsOf(w, counted))' = Bytes(new)
    BY <2>1 DEF Bytes
  <2>3. quota[w].docs = Cardinality(old) /\ quota[w].bytes = Bytes(old)
    BY <2>1 DEF IngestInv, UsageCounts
  <2>4. CASE w = WorkspaceOf[r]
    <3>1. new = old \cup {r} /\ r \in Requests \ old /\ old \subseteq Requests
      BY <1>1, <1>5, <2>1, <2>4 DEF DocsOf, UpdateUsage, IngestionTypeOK
    <3>2. Bytes(old \cup {r}) = Bytes(old) + SizeOf[r] /\ IsFiniteSet(old)
      BY <3>1, BytesOfRequests
    <3>3. Cardinality(new) = Cardinality(old) + 1
      BY <3>1, <3>2, FS_AddElement
    <3>4. Bytes(new) = Bytes(old) + SizeOf[r]
      BY <3>1, <3>2
    <3> QED BY <1>7, <2>2, <2>3, <2>4, <3>3, <3>4
  <2>5. CASE w # WorkspaceOf[r]
    <3>1. new = old
      BY <2>1, <2>5 DEF DocsOf, UpdateUsage
    <3> QED BY <1>7, <2>2, <2>3, <2>5, <3>1
  <2> QED BY <2>4, <2>5
<1>14. ASSUME NEW w \in Metered
       PROVE  /\ (quota[w].docs + Cardinality(Passed(w)) <= quota[w].max.maxDocs + MaxInFlight - 1)'
              /\ (quota[w].bytes + Bytes(Passed(w))
                     <= quota[w].max.maxBytes + (MaxInFlight - 1) * LargestSize)'
  <2>1. PICK old, new : old = Passed(w) /\ new = Passed(w)'
    OBVIOUS
  <2>2. /\ Cardinality(Passed(w))' = Cardinality(new) /\ Bytes(Passed(w))' = Bytes(new)
        /\ LargestSize' = LargestSize
    BY <2>1 DEF Bytes, LargestSize
  <2>3. PICK room : room = (MaxInFlight - 1) * LargestSize
    OBVIOUS
  <2>4. /\ quota[w].docs + Cardinality(old) <= quota[w].max.maxDocs + MaxInFlight - 1
        /\ quota[w].bytes + Bytes(old) <= quota[w].max.maxBytes + room
    BY <2>1, <2>3 DEF IngestInv, DocumentOverrun, StorageOverrun
  <2>5. CASE w = WorkspaceOf[r]
    <3>1. new = old \ {r} /\ r \in old /\ old \subseteq Requests
      BY <1>2, <1>3, <2>1, <2>5 DEF Passed, DocsOf
    <3>2. Bytes(old \ {r}) = Bytes(old) - SizeOf[r] /\ IsFiniteSet(old) /\ Bytes(old) \in Nat
      BY <3>1, BytesOfRequests
    <3>3. Cardinality(new) = Cardinality(old) - 1 /\ Cardinality(old) \in Nat
      BY <3>1, <3>2, FS_RemoveElement, FS_CardinalityType
    <3>4. Bytes(new) = Bytes(old) - SizeOf[r]
      BY <3>1, <3>2
    <3>5. /\ (quota[w].docs + 1) + Cardinality(new) <= quota[w].max.maxDocs + MaxInFlight - 1
          /\ (quota[w].bytes + SizeOf[r]) + Bytes(new) <= quota[w].max.maxBytes + room
      <4>1. PICK d, b, s, n, x \in Nat :
                /\ d = quota[w].docs /\ b = quota[w].bytes /\ s = SizeOf[r]
                /\ n = Cardinality(old) /\ x = Bytes(old)
        BY <1>7, <3>2, <3>3
      <4>2. PICK md, top : md = quota[w].max.maxDocs + MaxInFlight - 1 /\ top = quota[w].max.maxBytes + room
        OBVIOUS
      <4>3. d + n <= md /\ b + x <= top
        BY <2>4, <4>1, <4>2
      <4>4. (d + 1) + (n - 1) = d + n /\ (b + s) + (x - s) = b + x
        OBVIOUS
      <4> QED BY <3>3, <3>4, <4>1, <4>2, <4>3, <4>4
    <3> QED BY <1>7, <2>2, <2>3, <2>5, <3>5
  <2>6. CASE w # WorkspaceOf[r]
    <3>1. new = old
      BY <1>3, <2>1, <2>6 DEF Passed, DocsOf
    <3> QED BY <1>7, <2>2, <2>3, <2>4, <2>6, <3>1
  <2> QED BY <2>5, <2>6
<1>15. UsageCounts' /\ DocumentOverrun' /\ StorageOverrun'
  BY <1>13, <1>14 DEF UsageCounts, DocumentOverrun, StorageOverrun
<1> QED BY <1>4, <1>8, <1>10, <1>11, <1>12, <1>15 DEF IngestInv

(* The process starts again: whoever was in the handler is answered 500.     *)
LEMMA RestartStep ==
    ASSUME IngestInv, Restart, UNCHANGED sdkVars
    PROVE  IngestInv'
<1>1. IngestionTypeOK /\ faults' \in 0..MaxFaults
  BY IngestionConstants DEF Restart, IngestInv, TypeOK, IngestionTypeOK, IngestionAssumption
<1>2. \A q \in Requests : stage'[q] = IF stage[q] \in Working THEN "500" ELSE stage[q]
  BY DEF Restart, InFlight
<1>3. stage' \in [Requests -> Stages]
  BY <1>1 DEF Restart, IngestionTypeOK, Stages, Statuses
<1>4. TypeOK'
  BY <1>1, <1>3 DEF Restart, IngestInv, TypeOK, IngestionTypeOK, EventType, QuotaRow, SdkTypeOK, sdkVars
<1>5. ChannelFacts' /\ \A t \in EventTypes : \A q \in Requests : Heard(t, q)' <=> Heard(t, q)
  BY ChannelStays DEF Restart, IngestInv
<1>6. ASSUME NEW q \in Requests PROVE RequestFacts(q)'
  <2>1. RequestFacts(q) /\ UNCHANGED <<documents, counted>>
    BY DEF IngestInv, Chronicle, Restart
  <2>2. \A t \in {"received", "validated", "rejected"} : Heard(t, q)' <=> Heard(t, q)
    BY <1>5 DEF EventTypes
  <2>3. CASE stage[q] \in Working
    BY <1>2, <2>1, <2>2, <2>3 DEF RequestFacts, Working
  <2>4. CASE stage[q] \notin Working
    BY <1>2, <2>1, <2>2, <2>4 DEF RequestFacts
  <2> QED BY <2>3, <2>4
<1>7. Slackens /\ NoneAdmitted
  BY <1>2 DEF Slackens, NoneAdmitted, Restart, Working
<1>8. Unsent'
  BY <1>2, UnsentStay DEF sdkVars, IngestInv, Working
<1>9. UsageCounts'
  BY UsageStays DEF Restart, IngestInv
<1>10. Chronicle'
  BY <1>6 DEF Chronicle
<1>11. FewInFlight' /\ DocumentOverrun' /\ StorageOverrun'
  BY <1>7, OverrunShrinks, InFlightShrinks DEF IngestInv
<1> QED BY <1>4, <1>5, <1>8, <1>9, <1>10, <1>11 DEF IngestInv

-----------------------------------------------------------------------------
LEMMA IngestionStarts == Init => IngestInv
<1> USE IngestionConstants DEF IngestionAssumption
<1> SUFFICES ASSUME Init PROVE IngestInv
  OBVIOUS
<1>1. IngestionInit /\ SdkInit
  BY DEF Init
<1>2. PICK limits \in [Metered -> Limits] :
          quota = [w \in Metered |-> [docs |-> 0, bytes |-> 0, max |-> limits[w]]]
  BY <1>1 DEF IngestionInit
<1>3. TypeOK
  <2>1. quota \in [Metered -> QuotaRow]
    BY <1>2 DEF QuotaRow
  <2>2. malformed \subseteq Requests
    BY <1>1 DEF IngestionInit
  <2>3. MaxRetries \in Nat
    BY SdkConstants DEF SdkAssumption
  <2> QED BY <1>1, <2>1, <2>2, <2>3 DEF IngestionInit, SdkInit, TypeOK, IngestionTypeOK, SdkTypeOK, Stages, CallStates
<1>4. Unsent
  BY <1>1, SdkConstants DEF SdkAssumption, IngestionInit, Unsent
<1>5. Cardinality({}) = 0
  BY FS_EmptySet
<1>6. FewInFlight
  <2>1. InFlight = {}
    BY <1>1 DEF IngestionInit, InFlight, Working
  <2> QED BY <1>5, <2>1 DEF FewInFlight
<1>7. ChannelFacts /\ \A t, q : ~Heard(t, q)
  BY <1>1 DEF IngestionInit, ChannelFacts, Heard
<1>8. Chronicle
  BY <1>1, <1>7 DEF IngestionInit, Chronicle, RequestFacts
<1>9. Bytes({}) = 0
  <2>1. UNION {{r} \X (1..SizeOf[r]) : r \in {}} = {}
    OBVIOUS
  <2> QED BY <1>5, <2>1 DEF Bytes
<1>10. UsageCounts
  <2>1. \A w \in Metered : DocsOf(w, counted) = {}
    BY <1>1 DEF IngestionInit, DocsOf
  <2> QED BY <1>2, <1>5, <1>9, <2>1 DEF UsageCounts
<1>11. DocumentOverrun /\ StorageOverrun
  <2> SUFFICES ASSUME NEW w \in Metered
               PROVE  /\ quota[w].docs + Cardinality(Passed(w)) <= quota[w].max.maxDocs + MaxInFlight - 1
                      /\ quota[w].bytes + Bytes(Passed(w))
                            <= quota[w].max.maxBytes + (MaxInFlight - 1) * LargestSize
    BY DEF DocumentOverrun, StorageOverrun
  <2>1. Passed(w) = {}
    BY <1>1 DEF IngestionInit, Passed, DocsOf
  <2>2. /\ quota[w].docs = 0 /\ quota[w].bytes = 0
        /\ quota[w].max.maxDocs \in Nat /\ quota[w].max.maxBytes \in Nat
    BY <1>2
  <2>3. PICK room \in Nat : room = (MaxInFlight - 1) * LargestSize
    <3>1. LargestSize \in Nat /\ MaxInFlight - 1 \in Nat
      BY BytesOfRequests
    <3>2. \A m, k \in Nat : m * k \in Nat
      OBVIOUS
    <3> QED BY <3>1, <3>2
  <2> QED BY <1>5, <1>9, <2>1, <2>2, <2>3
<1> QED BY <1>3, <1>4, <1>6, <1>7, <1>8, <1>10, <1>11 DEF IngestInv

LEMMA IngestionStep == IngestInv /\ [Next]_vars => IngestInv'
<1> SUFFICES ASSUME IngestInv, [Next]_vars PROVE IngestInv'
  OBVIOUS
<1>1. ASSUME NEW c \in Calls, CallStep(c) PROVE IngestInv'
  BY <1>1, SendStep, RetryStep, ClientStep DEF CallStep
<1>2. ASSUME NEW r \in Requests, NEW status \in RetryableStatusCodes, Refuse(r, status)
      PROVE  IngestInv'
  BY <1>2, RefuseStep
<1>3. ASSUME NEW r \in Requests, RequestStep(r) \/ CallRejects(r), UNCHANGED sdkVars
      PROVE  IngestInv'
  BY <1>3, ArriveStep, PublishStep, CheckStep, CreateStep, UsageStep, RejectsStep DEF RequestStep
<1>4. CASE Restart /\ UNCHANGED sdkVars
  BY <1>4, RestartStep
<1>5. CASE UNCHANGED vars
  <2>1. UNCHANGED svcVars /\ UNCHANGED sdkVars
    BY <1>5 DEF vars
  <2>2. SdkTypeOK' /\ Unsent'
    BY <2>1 DEF IngestInv, TypeOK, SdkTypeOK, Unsent, sdkVars, svcVars
  <2> QED BY <2>1, <2>2, ServiceStays DEF IngestInv, TypeOK
<1> QED BY <1>1, <1>2, <1>3, <1>4, <1>5 DEF Next

THEOREM IngestionInvariant == Spec => []IngestInv
BY IngestionStarts, IngestionStep, PTL DEF Spec

-----------------------------------------------------------------------------
(* An event that is in the channel once is there at one place.               *)
LEMMA PublishedOnce ==
    ASSUME channel \in Seq(EventType), ChannelFacts, NEW type, NEW r
    PROVE  /\ Cardinality(Published(type, r)) <= 1
           /\ Published(type, r) # {} <=> Heard(type, r)
<1>1. DOMAIN channel = 1..Len(channel)
  OBVIOUS
<1>2. Published(type, r) # {} <=> Heard(type, r)
  BY <1>1 DEF Published, Heard
<1>3. Published(type, r) = {} \/ \E i : Published(type, r) = {i}
  <2> SUFFICES ASSUME NEW i \in Published(type, r) PROVE Published(type, r) = {i}
    OBVIOUS
  <2>1. i \in 1..Len(channel) /\ channel[i] = Event(type, r)
    BY <1>1 DEF Published
  <2>2. ASSUME NEW j \in Published(type, r) PROVE i = j
    BY <1>1, <2>1 DEF Published, ChannelFacts
  <2> QED BY <2>2
<1>4. Cardinality(Published(type, r)) <= 1
  <2>1. CASE Published(type, r) = {}
    BY <2>1, FS_EmptySet
  <2>2. ASSUME NEW i, Published(type, r) = {i} PROVE Cardinality(Published(type, r)) <= 1
    <3>1. Cardinality({i}) = 1
      BY FS_Singleton
    <3> QED BY <2>2, <3>1
  <2> QED BY <1>3, <2>1, <2>2
<1> QED BY <1>2, <1>4

(* Every variable of the ingestion service and of its clients keeps its type.*)
THEOREM IngestionTypeCorrect == Spec => []TypeOK
<1>1. IngestInv => TypeOK
  BY DEF IngestInv
<1> QED BY <1>1, IngestionInvariant, PTL

(* updateUsage charges each stored document once: a workspace's usage is     *)
(* what its charged documents add up to.                                     *)
THEOREM UsageIsStored == Spec => []UsageIsWhatIsStored
<1>1. IngestInv => UsageIsWhatIsStored
  <2> SUFFICES ASSUME IngestInv PROVE UsageIsWhatIsStored
    OBVIOUS
  <2>1. documents \subseteq Requests /\ counted \subseteq Requests
    BY DEF IngestInv, TypeOK, IngestionTypeOK
  <2>2. \A r \in Requests : RequestFacts(r)
    BY DEF IngestInv, Chronicle
  <2>3. counted \subseteq documents
    BY <2>1, <2>2 DEF RequestFacts
  <2>4. \A r \in documents \ counted : stage[r] \in {"usage", "500"}
    BY <2>1, <2>2 DEF RequestFacts
  <2> QED BY <2>3, <2>4 DEF IngestInv, UsageCounts, UsageIsWhatIsStored
<1> QED BY <1>1, IngestionInvariant, PTL

(* checkQuota, which reserves nothing, is overrun by no more than the        *)
(* requests handled at a time, in documents and in bytes.                    *)
THEOREM OverrunIsBounded == Spec => []QuotaOverrun
<1>1. IngestInv => QuotaOverrun
  BY DEF IngestInv, QuotaOverrun
<1> QED BY <1>1, IngestionInvariant, PTL

(* The channel tells of a document only what is so, once and in order.       *)
THEOREM AnnouncementsInOrder == Spec => []AnnouncedInOrder
<1>1. IngestInv => AnnouncedInOrder
  <2> SUFFICES ASSUME IngestInv, NEW r \in Requests
               PROVE  /\ Cardinality(Published("received", r)) <= 1
                      /\ Cardinality(Published("validated", r)) <= 1
                      /\ Published("received", r) # {} => r \in documents \cap counted
                      /\ Published("rejected", r) # {} => r \notin documents
                      /\ \A j \in Published("validated", r) : \E i \in Published("received", r) : i < j
                      /\ stage[r] = "201" => Published("validated", r) # {}
    BY DEF AnnouncedInOrder
  <2>1. RequestFacts(r) /\ ChannelFacts /\ channel \in Seq(EventType)
    BY DEF IngestInv, Chronicle, TypeOK, IngestionTypeOK
  <2>2. \A t \in {"received", "validated", "rejected"} :
           /\ Cardinality(Published(t, r)) <= 1
           /\ Published(t, r) # {} <=> Heard(t, r)
    BY <2>1, PublishedOnce
  <2>3. ASSUME NEW j \in Published("validated", r)
        PROVE  \E i \in Published("received", r) : i < j
    <3>1. DOMAIN channel = 1..Len(channel)
      BY <2>1
    <3>2. j \in 1..Len(channel) /\ channel[j] = Event("validated", r)
      BY <3>1 DEF Published
    <3>3. PICK i \in 1..Len(channel) : i < j /\ channel[i] = Event("received", r)
      BY <2>1, <3>2 DEF ChannelFacts
    <3> QED BY <3>1, <3>3 DEF Published
  <2> QED BY <2>1, <2>2, <2>3 DEF RequestFacts
<1> QED BY <1>1, IngestionInvariant, PTL
=============================================================================
