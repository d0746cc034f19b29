-------------------------- MODULE ExtractionWorker --------------------------
(***************************************************************************)
(* services/extraction-service: processDocument, called once per delivery   *)
(* of a document.received event.  The queue delivers at least once and up   *)
(* to its concurrency at a time, so calls for one document may overlap or   *)
(* follow each other.  Every repository or publisher call is an await: it   *)
(* succeeds, rejects without an effect, or rejects after one (its answer is *)
(* lost).  A job has the identity of the call that created it: createJob    *)
(* draws a fresh id.                                                        *)
(***************************************************************************)
EXTENDS Integers, FiniteSets

CONSTANTS
    Deliveries,      \* deliveries of document.received events
    DocumentOf,      \* the document each of them is about
    Documents,
    MaxConcurrency,  \* ExtractionWorkerConfig.maxConcurrency
    ExtractOutcomes, \* what extract() may do: "text", or throw an error that
                     \* is "fatal" or "retryable"
    MaxExtractFaults \* rejected calls and crashes (bounds the model)

VARIABLES
    work,        \* where each call stands
    activeJobs,  \* #activeJobs
    jobs,        \* status of the extraction_jobs row of each call, or "none"
    texts,       \* calls whose job has a row in extracted_documents
    announced,   \* published events
    retryable,   \* calls whose error is an ExtractionError with retryable set
    extractFaults

extractVars == <<work, activeJobs, jobs, texts, announced, retryable, extractFaults>>

ExtractionAssumption ==
    /\ IsFiniteSet(Deliveries)
    /\ DocumentOf \in [Deliveries -> Documents]
    /\ MaxConcurrency \in Nat \ {0}
    /\ ExtractOutcomes \subseteq {"text", "fatal", "retryable"}
    /\ MaxExtractFaults \in Nat

ASSUME ExtractionConstants == ExtractionAssumption

(* A stage is named after the call processDocument awaits.                  *)
Trying    == {"create", "processing", "save", "completed", "publish"}
Catching  == {"failed", "announce", "announceUnknown"}
Underway  == Trying \cup Catching
WorkEnded == {"returned", "thrown", "killed"}

(* An event names the job of the call it comes from, or says "unknown".     *)
JobEvent == [type : {"extracted", "failed"}, by : Deliveries, named : BOOLEAN]

ExtractionTypeOK ==
    /\ work \in [Deliveries -> {"waiting"} \cup Underway \cup WorkEnded]
    /\ activeJobs \in 0..MaxConcurrency
    /\ jobs \in [Deliveries -> {"none", "pending", "processing", "completed", "failed"}]
    /\ texts \subseteq Deliveries
    /\ announced \subseteq JobEvent
    /\ retryable \subseteq Deliveries
    /\ extractFaults \in 0..MaxExtractFaults

ExtractionInit ==
    /\ work = [c \in Deliveries |-> "waiting"]
    /\ activeJobs = 0
    /\ jobs = [c \in Deliveries |-> "none"]
    /\ texts = {} /\ announced = {} /\ retryable = {}
    /\ extractFaults = 0

Move(c, stage) == work' = [work EXCEPT ![c] = stage]
SetJob(c, status) == jobs' = [jobs EXCEPT ![c] = status]
Announce(type, c, named) ==
    announced' = announced \cup {[type |-> type, by |-> c, named |-> named]}

Fault == extractFaults < MaxExtractFaults /\ extractFaults' = extractFaults + 1

(* The catch block's first await: the job's status, when there is a job id. *)
Catch(c) == Move(c, IF work[c] = "create" THEN "announceUnknown" ELSE "failed")

(* The call had its effect, and the worker goes on, or its answer is lost.  *)
Proceed(c, stage) ==
    \/ Move(c, stage) /\ UNCHANGED extractFaults
    \/ Fault /\ Catch(c)

-----------------------------------------------------------------------------
(* Mutant: the limit is off by one.                                         *)
StartWorkOneMore(c) ==
    /\ work[c] = "waiting"
    /\ \/ /\ activeJobs > MaxConcurrency
          /\ Move(c, "thrown")
          /\ UNCHANGED activeJobs
       \/ /\ activeJobs <= MaxConcurrency
          /\ Move(c, "create")
          /\ activeJobs' = activeJobs + 1
    /\ UNCHANGED <<jobs, texts, announced, retryable, extractFaults>>

(* processDocument up to its first await; at capacity it throws.            *)
StartWork(c) ==
    /\ work[c] = "waiting"
    /\ \/ /\ activeJobs >= MaxConcurrency
          /\ Move(c, "thrown")
          /\ UNCHANGED activeJobs
       \/ /\ activeJobs < MaxConcurrency
          /\ Move(c, "create")
          /\ activeJobs' = activeJobs + 1
    /\ UNCHANGED <<jobs, texts, announced, retryable, extractFaults>>

(* createJob: INSERT a row that is pending.                                 *)
CreateJob(c) ==
    /\ work[c] = "create"
    /\ SetJob(c, "pending")
    /\ Proceed(c, "processing")
    /\ UNCHANGED <<activeJobs, texts, announced, retryable>>

(* updateJobStatus(processing); extract() runs as soon as it is answered.   *)
MarkProcessing(c) ==
    /\ work[c] = "processing"
    /\ SetJob(c, "processing")
    /\ \/ /\ "text" \in ExtractOutcomes
          /\ Proceed(c, "save")
          /\ UNCHANGED retryable
       \/ \E error \in ExtractOutcomes \ {"text"} :
             /\ Catch(c)
             /\ retryable' = IF error = "retryable" THEN retryable \cup {c} ELSE retryable
             /\ UNCHANGED extractFaults
    /\ UNCHANGED <<activeJobs, texts, announced>>

(* saveExtractedDocument: one row per job id.                               *)
SaveText(c) ==
    /\ work[c] = "save"
    /\ texts' = texts \cup {c}
    /\ Proceed(c, "completed")
    /\ UNCHANGED <<activeJobs, jobs, announced, retryable>>

(* updateJobStatus(completed)                                               *)
MarkCompleted(c) ==
    /\ work[c] = "completed"
    /\ SetJob(c, "completed")
    /\ Proceed(c, "publish")
    /\ UNCHANGED <<activeJobs, texts, announced, retryable>>

(* Mutant: the finally block is left out.                                   *)
EndNotCounted(c, how) ==
    /\ Move(c, how)
    /\ UNCHANGED activeJobs

(* The finally block; how: the call returns, or throws.                     *)
End(c, how) ==
    /\ Move(c, how)
    /\ activeJobs' = activeJobs - 1

(* publishDocumentExtracted, and the call is done.                          *)
PublishExtracted(c) ==
    /\ work[c] = "publish"
    /\ Announce("extracted", c, TRUE)
    /\ \/ End(c, "returned") /\ UNCHANGED extractFaults
       \/ Fault /\ Catch(c) /\ UNCHANGED activeJobs
    /\ UNCHANGED <<jobs, texts, retryable>>

(* Mutant: a call that fails is treated like one that succeeded.            *)
TryRejectsUnnoticed(c) ==
    /\ work[c] \in Trying
    /\ Fault
    /\ IF work[c] = "publish" THEN End(c, "returned")
       ELSE Catch(c) /\ UNCHANGED activeJobs
    /\ UNCHANGED <<jobs, texts, announced, retryable>>

(* An awaited call in the try block rejects without an effect.              *)
TryRejects(c) ==
    /\ work[c] \in Trying
    /\ Fault
    /\ Catch(c)
    /\ UNCHANGED <<activeJobs, jobs, texts, announced, retryable>>

(* Mutant: the status of the job is left as it is.                          *)
MarkFailedUnset(c) ==
    /\ work[c] = "failed"
    /\ \/ Move(c, "announce") /\ UNCHANGED <<activeJobs, extractFaults>>
       \/ Fault /\ End(c, "thrown")
    /\ UNCHANGED <<jobs, texts, announced, retryable>>

(* updateJobStatus(failed) in the catch block, when the job id is known.    *)
MarkFailed(c) ==
    /\ work[c] = "failed"
    /\ SetJob(c, "failed")
    /\ \/ Move(c, "announce") /\ UNCHANGED <<activeJobs, extractFaults>>
       \/ Fault /\ End(c, "thrown")
    /\ UNCHANGED <<texts, announced, retryable>>

(* publishExtractionFailed; the error is thrown again when it is retryable. *)
PublishFailed(c) ==
    /\ work[c] \in {"announce", "announceUnknown"}
    /\ Announce("failed", c, work[c] = "announce")
    /\ \/ End(c, IF c \in retryable THEN "thrown" ELSE "returned")
          /\ UNCHANGED extractFaults
       \/ Fault /\ End(c, "thrown")
    /\ UNCHANGED <<jobs, texts, retryable>>

(* An awaited call in the catch block rejects without an effect: its error  *)
(* leaves processDocument.                                                  *)
CatchRejects(c) ==
    /\ work[c] \in Catching
    /\ Fault
    /\ End(c, "thrown")
    /\ UNCHANGED <<jobs, texts, announced, retryable>>

(* The process ends and is started again; its calls are never resumed.      *)
WorkerCrash ==
    /\ Fault
    /\ work' = [c \in Deliveries |-> IF work[c] \in Underway THEN "killed" ELSE work[c]]
    /\ activeJobs' = 0
    /\ UNCHANGED <<jobs, texts, announced, retryable>>

ExtractionNext ==
    \/ \E c \in Deliveries :
          \/ StartWork(c) \/ CreateJob(c) \/ MarkProcessing(c) \/ SaveText(c)
          \/ MarkCompleted(c) \/ PublishExtracted(c) \/ TryRejects(c)
          \/ MarkFailed(c) \/ PublishFailed(c) \/ CatchRejects(c)
    \/ WorkerCrash

ExtractionSpec == ExtractionInit /\ [][ExtractionNext]_extractVars

-----------------------------------------------------------------------------
(* #activeJobs is the number of calls between its increment and the finally *)
(* block, by whichever of the error paths they leave: a path that left      *)
(* without the decrement would lower the capacity of the worker for good.   *)
JobSlots ==
    activeJobs = Cardinality({c \in Deliveries : work[c] \in Underway})

Says(type, c) == \E e \in announced : e.type = type /\ e.by = c

(* A call that returns takes its message off the queue for good.  So it     *)
(* leaves nothing open: its text is stored, its job completed and announced *)
(* as extracted; or a failure is announced, and its job, if it knew of one, *)
(* is failed.                                                               *)
ReturnedIsSettled ==
    \A c \in Deliveries : work[c] = "returned" =>
        \/ c \in texts /\ jobs[c] = "completed" /\ Says("extracted", c)
        \/ Says("failed", c) /\ jobs[c] \in {"failed", "pending", "none"}

(* What consumers are told is so: an extracted document can be read, and    *)
(* its job is completed unless the answer to the announcement was lost; a   *)
(* job that is announced as failed is failed for good.                      *)
AnnouncementsHold ==
    \A e \in announced :
        /\ e.type = "extracted" => e.by \in texts /\ jobs[e.by] \in {"completed", "failed"}
        /\ e.type = "failed" /\ e.named => jobs[e.by] = "failed"
=============================================================================
