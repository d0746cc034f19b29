-------------------------- MODULE IngestionService --------------------------
(***************************************************************************)
(* services/ingestion-service: POST /internal/documents.  A request is      *)
(* validated, checked against the quota of its workspace, stored, charged   *)
(* to the workspace and announced by two events.  Every repository or       *)
(* publisher call is an await of its own, so requests interleave between    *)
(* them; a call may reject before it had an effect, or after it had one     *)
(* whose answer was lost.  A document has the identity of the request that  *)
(* inserted it: createDocument draws a fresh id each time.                  *)
(***************************************************************************)
EXTENDS Integers, Sequences, FiniteSets, FiniteSetsExt, SequencesExt

CONSTANTS
    Requests,     \* HTTP requests
    Workspaces,
    Metered,      \* workspaces with a row in workspace_quotas
    WorkspaceOf,  \* the workspace_id of each request
    SizeOf,       \* docSize of each request
    MalformedSets,\* which requests may together fail to validate
    Limits,       \* the limits a quota row may have: max_documents and
                  \* max_storage_bytes
    MaxInFlight,  \* requests handled at a time (nothing in the code limits it)
    MaxFaults     \* rejected calls and restarts (bounds the model)

VARIABLES
    stage,      \* where each request stands, or the status it was answered
    documents,  \* rows of the documents table
    malformed,  \* requests whose payload or file metadata do not validate
    quota,      \* the quota row of each metered workspace
    channel,    \* what has been published on the "ingestion" channel
    counted,    \* history: documents updateUsage has run for
    faults      \* rejected calls and restarts so far

svcVars == <<stage, malformed, documents, quota, channel, counted, faults>>

IngestionAssumption ==
    /\ IsFiniteSet(Requests)
    /\ Metered \subseteq Workspaces
    /\ WorkspaceOf \in [Requests -> Workspaces]
    /\ SizeOf \in [Requests -> Nat \ {0}]
    /\ MalformedSets \subseteq SUBSET Requests
    /\ Limits \subseteq [maxDocs : Nat \ {0}, maxBytes : Nat]
    /\ MaxInFlight \in Nat \ {0} /\ MaxFaults \in Nat

ASSUME IngestionConstants == IngestionAssumption

(* A stage is named after the call the handler awaits or is about to make.  *)
Working  == {"reject", "quota", "create", "usage", "received", "validated"}
Statuses == {"201", "422", "429", "500"}
Stages   == {"none", "sent"} \cup Working \cup Statuses

EventType == [type : {"received", "validated", "rejected"}, req : Requests]

(* document_count, storage_used_bytes and the limits.                       *)
QuotaRow == [docs : Nat, bytes : Nat, max : Limits]

IngestionTypeOK ==
    /\ stage \in [Requests -> Stages]
    /\ malformed \subseteq Requests
    /\ documents \subseteq Requests
    /\ quota \in [Metered -> QuotaRow]
    /\ channel \in Seq(EventType)
    /\ counted \subseteq Requests
    /\ faults \in 0..MaxFaults

IngestionInit ==
    /\ stage = [r \in Requests |-> "none"]
    /\ malformed \in MalformedSets
    /\ documents = {}
    /\ \E limits \in [Metered -> Limits] :
          quota = [w \in Metered |-> [docs |-> 0, bytes |-> 0, max |-> limits[w]]]
    /\ channel = <<>>
    /\ counted = {}
    /\ faults = 0

InFlight == {r \in Requests : stage[r] \in Working}

(* Mutant: the arguments are swapped.                                       *)
EventSwapped(type, r) == [type |-> r, req |-> type]

Event(type, r) == [type |-> type, req |-> r]

Advance(r, next) == stage' = [stage EXCEPT ![r] = next]

(* The awaited call had its effect; its answer may still be lost, and the   *)
(* route then answers 500.                                                  *)
AdvanceOrLose(r, next) ==
    \/ Advance(r, next) /\ UNCHANGED faults
    \/ faults < MaxFaults /\ faults' = faults + 1 /\ Advance(r, "500")

-----------------------------------------------------------------------------
(* The request reaches the handler, which validates it before its first     *)
(* await.                                                                   *)
Arrive(r) ==
    /\ stage[r] = "sent"
    /\ Cardinality(InFlight) < MaxInFlight
    /\ Advance(r, IF r \in malformed THEN "reject" ELSE "quota")
    /\ UNCHANGED <<malformed, documents, quota, channel, counted, faults>>

(* publishDocumentRejected, then throw IngestValidationError.               *)
PublishRejected(r) ==
    /\ stage[r] = "reject"
    /\ channel' = Append(channel, Event("rejected", r))
    /\ AdvanceOrLose(r, "422")
    /\ UNCHANGED <<malformed, documents, quota, counted>>

(* Mutant: the document limit is off by one.                                *)
AllowedOneMore(r) ==
    LET w == WorkspaceOf[r] IN
    w \in Metered =>
        /\ quota[w].docs <= quota[w].max.maxDocs
        /\ quota[w].bytes + SizeOf[r] <= quota[w].max.maxBytes

(* checkQuota for a workspace without a quota row allows everything.        *)
Allowed(r) ==
    LET w == WorkspaceOf[r] IN
    w \in Metered =>
        /\ quota[w].docs < quota[w].max.maxDocs
        /\ quota[w].bytes + SizeOf[r] <= quota[w].max.maxBytes

(* checkQuota: one SELECT; nothing is reserved.                             *)
CheckQuota(r) ==
    /\ stage[r] = "quota"
    /\ Advance(r, IF Allowed(r) THEN "create" ELSE "422")
    /\ UNCHANGED <<malformed, documents, quota, channel, counted, faults>>

(* Mutant: updateUsage is skipped.                                          *)
CreateDocumentUncharged(r) ==
    /\ stage[r] = "create"
    /\ documents' = documents \cup {r}
    /\ AdvanceOrLose(r, "received")
    /\ UNCHANGED <<malformed, quota, channel, counted>>

(* createDocument: INSERT.                                                  *)
CreateDocument(r) ==
    /\ stage[r] = "create"
    /\ documents' = documents \cup {r}
    /\ AdvanceOrLose(r, "usage")
    /\ UNCHANGED <<malformed, quota, channel, counted>>

(* updateUsage: UPDATE ... SET x = x + 1, which touches no row when the     *)
(* workspace has none.                                                      *)
UpdateUsage(r) ==
    /\ stage[r] = "usage"
    /\ quota' = [w \in Metered |->
                   IF w = WorkspaceOf[r]
                   THEN [quota[w] EXCEPT !.docs = @ + 1, !.bytes = @ + SizeOf[r]]
                   ELSE quota[w]]
    /\ counted' = counted \cup {r}
    /\ AdvanceOrLose(r, "received")
    /\ UNCHANGED <<malformed, documents, channel>>

(* Mutant: a lost answer makes the handler publish again.                   *)
PublishReceivedAgain(r) ==
    /\ stage[r] = "received"
    /\ channel' = Append(channel, Event("received", r))
    /\ \/ Advance(r, "validated") /\ UNCHANGED faults
       \/ faults < MaxFaults /\ faults' = faults + 1 /\ UNCHANGED stage
    /\ UNCHANGED <<malformed, documents, quota, counted>>

(* publishDocumentReceived, for a document that is stored and charged.      *)
PublishReceived(r) ==
    /\ stage[r] = "received"
    /\ channel' = Append(channel, Event("received", r))
    /\ AdvanceOrLose(r, "validated")
    /\ UNCHANGED <<malformed, documents, quota, counted>>

(* The second event, and the answer to the request.                         *)
PublishValidated(r) ==
    /\ stage[r] = "validated"
    /\ channel' = Append(channel, Event("validated", r))
    /\ AdvanceOrLose(r, "201")
    /\ UNCHANGED <<malformed, documents, quota, counted>>

(* The awaited call rejects without an effect: the route answers 500, and   *)
(* nothing that was done before is undone.                                  *)
CallRejects(r) ==
    /\ stage[r] \in Working
    /\ faults < MaxFaults
    /\ faults' = faults + 1
    /\ Advance(r, "500")
    /\ UNCHANGED <<malformed, documents, quota, channel, counted>>

(* The process ends and is started again: whoever waits for a request that  *)
(* was under way gets a connection error, which the gateway answers as 500. *)
Restart ==
    /\ faults < MaxFaults
    /\ faults' = faults + 1
    /\ stage' = [r \in Requests |-> IF r \in InFlight THEN "500" ELSE stage[r]]
    /\ UNCHANGED <<malformed, documents, quota, channel, counted>>

RequestStep(r) ==
    \/ Arrive(r) \/ PublishRejected(r) \/ CheckQuota(r) \/ CreateDocument(r)
    \/ UpdateUsage(r) \/ PublishReceived(r) \/ PublishValidated(r)
=============================================================================
