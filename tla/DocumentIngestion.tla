-------------------------- MODULE DocumentIngestion --------------------------
(***************************************************************************)
(* Clients of the SDK, the gateway's proxy and the ingestion service's      *)
(* document handler.                                                        *)
(***************************************************************************)
EXTENDS SdkClient

vars == <<svcVars, sdkVars>>

Init ==
    /\ IngestionInit
    /\ SdkInit

Next ==
    \/ \E c \in Calls : CallStep(c)
    \/ \E r \in Requests, status \in RetryableStatusCodes : Refuse(r, status)
    \/ \E r \in Requests : (RequestStep(r) \/ CallRejects(r)) /\ UNCHANGED sdkVars
    \/ Restart /\ UNCHANGED sdkVars

Spec == Init /\ [][Next]_vars

(* Timers fire: the SDK's own timeout ends every wait, its delay every      *)
(* back-off.  Nothing is assumed of the gateway or of the service, which    *)
(* may never answer.                                                        *)
Fairness ==
    \A c \in Calls :
        /\ WF_vars(Answer(c) \/ ClientTimesOut(c))
        /\ WF_vars(Retry(c))

FairSpec == Spec /\ Fairness

-----------------------------------------------------------------------------
(* Every variable holds a value of the type the code gives it.              *)
TypeOK == IngestionTypeOK /\ SdkTypeOK

DocsOf(w, S) == {r \in S : WorkspaceOf[r] = w}
Bytes(S) == Cardinality(UNION {{r} \X (1..SizeOf[r]) : r \in S})

(* The usage of a workspace is what its stored documents add up to, but for *)
(* documents whose request is about to charge them or was cut off between   *)
(* createDocument and updateUsage and answered 500; nothing is charged that *)
(* is not stored, however requests interleave, fail or are retried.         *)
UsageIsWhatIsStored ==
    /\ \A w \in Metered :
          /\ quota[w].docs = Cardinality(DocsOf(w, counted))
          /\ quota[w].bytes = Bytes(DocsOf(w, counted))
    /\ counted \subseteq documents
    /\ \A r \in documents \ counted : stage[r] \in {"usage", "500"}

(* Requests that have passed the quota check and may still be charged.      *)
Passed(w) == DocsOf(w, {r \in Requests : stage[r] \in {"create", "usage"}})

(* checkQuota reserves nothing, so concurrent requests may all pass it; but *)
(* the overrun is bounded: a workspace is never charged for more documents  *)
(* than its limit and one less than the requests handled at a time, counting*)
(* those that have yet to be charged.                                       *)
DocumentOverrun ==
    \A w \in Metered :
        quota[w].docs + Cardinality(Passed(w))
            <= quota[w].max.maxDocs + MaxInFlight - 1

(* Likewise for bytes: the overrun is at most what the other requests in    *)
(* flight bring.                                                            *)
LargestSize == Max({0} \cup {SizeOf[r] : r \in Requests})
StorageOverrun ==
    \A w \in Metered :
        quota[w].bytes + Bytes(Passed(w))
            <= quota[w].max.maxBytes + (MaxInFlight - 1) * LargestSize

(* Neither overrun is worse than the requests handled at a time make it.     *)
QuotaOverrun == DocumentOverrun /\ StorageOverrun

(* Where in the channel an event of this type for request r is.             *)
Published(type, r) == {i \in DOMAIN channel : channel[i] = Event(type, r)}

(* Consumers hear of a document only when it is stored and charged, of its  *)
(* validation only after its reception, of each once, and of a rejection    *)
(* never for a stored document; a request answered 201 has published both.  *)
AnnouncedInOrder ==
    \A r \in Requests :
        /\ Cardinality(Published("received", r)) <= 1
        /\ Cardinality(Published("validated", r)) <= 1
        /\ Published("received", r) # {} => r \in documents \cap counted
        /\ Published("rejected", r) # {} => r \notin documents
        /\ \A j \in Published("validated", r) : \E i \in Published("received", r) : i < j
        /\ stage[r] = "201" => Published("validated", r) # {}

(* A documents.add() call ends: it resolves or throws after finitely many   *)
(* attempts, even when the service never answers.                           *)
CallEnds == \A c \in Calls : (call[c] # "idle") ~> (call[c] \in {"ok", "failed"})

-----------------------------------------------------------------------------
(* sdks/typescript/README.md promises "Retry for safe idempotent calls": so *)
(* a documents.add() call stores at most one document.                      *)
NoDuplicateDocuments ==
    \A c \in Calls : Cardinality({a \in 0..MaxRetries : <<c, a>> \in documents}) <= 1
=============================================================================
