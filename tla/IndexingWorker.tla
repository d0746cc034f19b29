--------------------------- MODULE IndexingWorker ---------------------------
(***************************************************************************)
(* services/indexing-service: indexDocument, one run per call.  A run       *)
(* chunks a document, and writes chunks, embeddings, vectors and keywords   *)
(* to their stores one await after the other; when one rejects, the whole   *)
(* attempt is repeated with fresh chunk ids, and nothing is removed.  Runs  *)
(* on one document may overlap: events are delivered more than once.        *)
(*                                                                          *)
(* What an attempt writes to a store is one batch, named <<run, attempt>>.  *)
(***************************************************************************)
EXTENDS Integers, FiniteSets

CONSTANTS
    IndexRuns,       \* indexDocument calls
    IndexedDocs,
    DocOfRun,        \* the document of each run
    WithText,        \* runs whose caller passes the extracted text: the
                     \* consumer of document.extracted passes an empty one
    MaxIndexRetries, \* WORKER_RETRY_CONFIG.maxRetries
    MaxIndexFaults   \* rejected calls and crashes (bounds the model)

VARIABLES
    phase,        \* where each run stands
    tries,        \* the attempt each run is at
    docStatus,    \* documents.status
    chunkCount,   \* documents.chunk_count: 0, or 1 for the number of chunks
    stored,       \* the batches in each store
    writing,      \* index writes under way: <<store, batch>>
    told,         \* published events
    indexFaults

indexVars == <<phase, tries, docStatus, chunkCount, stored, writing, told, indexFaults>>

IndexingAssumption ==
    /\ IsFiniteSet(IndexRuns)
    /\ DocOfRun \in [IndexRuns -> IndexedDocs]
    /\ WithText \subseteq IndexRuns
    /\ MaxIndexRetries \in Nat
    /\ MaxIndexFaults \in Nat

ASSUME IndexingConstants == IndexingAssumption

(* A phase is named after the call the run awaits.                          *)
Attempting == {"chunking", "saveChunks", "indexing", "embed", "saveEmbeddings",
               "write", "ready", "readyEmpty"}
Telling    == {"chunks_created", "embeddings_generated", "completed", "completedEmpty"}
GivingUp   == {"error", "failed"}
RunEnded   == {"done", "gaveUp", "unsettled", "dead"}

Indexes == {"vectors", "keywords"}
Stores  == {"chunks", "embeddings"} \cup Indexes
Batches == IndexRuns \X (0..MaxIndexRetries)

IndexEvent == [type : {"chunks_created", "embeddings_generated", "completed", "failed"},
               run : IndexRuns]

IndexingTypeOK ==
    /\ phase \in [IndexRuns -> {"waiting"} \cup Attempting \cup Telling \cup GivingUp
                                  \cup RunEnded]
    /\ tries \in [IndexRuns -> 0..MaxIndexRetries]
    /\ docStatus \in [IndexedDocs -> {"pending", "chunking", "indexing", "ready", "error"}]
    /\ chunkCount \in [IndexedDocs -> 0..1]
    /\ stored \in [Stores -> SUBSET Batches]
    /\ writing \subseteq Indexes \X Batches
    /\ told \subseteq IndexEvent
    /\ indexFaults \in 0..MaxIndexFaults

IndexingInit ==
    /\ phase = [r \in IndexRuns |-> "waiting"]
    /\ tries = [r \in IndexRuns |-> 0]
    /\ docStatus = [d \in IndexedDocs |-> "pending"]
    /\ chunkCount = [d \in IndexedDocs |-> 0]
    /\ stored = [s \in Stores |-> {}]
    /\ writing = {} /\ told = {}
    /\ indexFaults = 0

Batch(r) == <<r, tries[r]>>

IndexFault == indexFaults < MaxIndexFaults /\ indexFaults' = indexFaults + 1

Goes(r, next) == phase' = [phase EXCEPT ![r] = next] /\ UNCHANGED tries

(* Mutant: the catch block does not set the status.                         *)
TryAgainUnmarked(r) ==
    \/ /\ tries[r] < MaxIndexRetries
       /\ tries' = [tries EXCEPT ![r] = @ + 1]
       /\ phase' = [phase EXCEPT ![r] = "chunking"]
    \/ /\ tries[r] = MaxIndexRetries
       /\ Goes(r, "failed")

(* retry(): the attempt rejects; the next one, or the catch block.          *)
TryAgain(r) ==
    \/ /\ tries[r] < MaxIndexRetries
       /\ tries' = [tries EXCEPT ![r] = @ + 1]
       /\ phase' = [phase EXCEPT ![r] = "chunking"]
    \/ /\ tries[r] = MaxIndexRetries
       /\ Goes(r, "error")

(* The awaited call had its effect, and its answer arrives or is lost.      *)
Continues(r, next) ==
    \/ Goes(r, next) /\ UNCHANGED indexFaults
    \/ IndexFault /\ TryAgain(r)

SetStatus(r, status) == docStatus' = [docStatus EXCEPT ![DocOfRun[r]] = status]

Save(store, b) == stored' = [stored EXCEPT ![store] = @ \cup {b}]

-----------------------------------------------------------------------------
BeginRun(r) ==
    /\ phase[r] = "waiting"
    /\ Goes(r, "chunking")
    /\ UNCHANGED <<docStatus, chunkCount, stored, writing, told, indexFaults>>

(* updateDocumentStatus(chunking); the text is chunked when it is answered, *)
(* and an empty text has no chunks.                                         *)
MarkChunking(r) ==
    /\ phase[r] = "chunking"
    /\ SetStatus(r, "chunking")
    /\ Continues(r, IF r \in WithText THEN "chunks_created" ELSE "completedEmpty")
    /\ UNCHANGED <<chunkCount, stored, writing, told>>

SaveChunks(r) ==
    /\ phase[r] = "saveChunks"
    /\ Save("chunks", Batch(r))
    /\ Continues(r, "indexing")
    /\ UNCHANGED <<docStatus, chunkCount, writing, told>>

MarkIndexing(r) ==
    /\ phase[r] = "indexing"
    /\ SetStatus(r, "indexing")
    /\ Continues(r, "embed")
    /\ UNCHANGED <<chunkCount, stored, writing, told>>

(* embedChunks: the provider answers; its own retries are over.             *)
Embed(r) ==
    /\ phase[r] = "embed"
    /\ Goes(r, "embeddings_generated")
    /\ UNCHANGED <<docStatus, chunkCount, stored, writing, told, indexFaults>>

(* saveEmbeddings; when it is answered, writeIndex starts both writes.      *)
SaveEmbeddings(r) ==
    /\ phase[r] = "saveEmbeddings"
    /\ Save("embeddings", Batch(r))
    /\ \/ /\ Goes(r, "write")
          /\ writing' = writing \cup (Indexes \X {Batch(r)})
          /\ UNCHANGED indexFaults
       \/ /\ IndexFault /\ TryAgain(r)
          /\ UNCHANGED writing
    /\ UNCHANGED <<docStatus, chunkCount, told>>

(* Run r awaits the Promise.all of the writes of batch b.                   *)
Awaits(r, b) == phase[r] = "write" /\ b = Batch(r)

(* Mutant: the run goes on with the first of the two writes.                *)
WriteLandsFirst(store, b) ==
    /\ <<store, b>> \in writing
    /\ writing' = writing \ {<<store, b>>}
    /\ Save(store, b)
    /\ IF Awaits(b[1], b) THEN Goes(b[1], "ready") ELSE UNCHANGED <<phase, tries>>
    /\ UNCHANGED <<docStatus, chunkCount, told, indexFaults>>

(* A write is answered; the second one resolves Promise.all.  It may belong *)
(* to an attempt that has been given up.                                    *)
WriteLands(store, b) ==
    /\ <<store, b>> \in writing
    /\ writing' = writing \ {<<store, b>>}
    /\ Save(store, b)
    /\ IF Awaits(b[1], b) /\ \A other \in Indexes \ {store} : <<other, b>> \notin writing
       THEN Goes(b[1], "ready") ELSE UNCHANGED <<phase, tries>>
    /\ UNCHANGED <<docStatus, chunkCount, told, indexFaults>>

(* A write rejects, after its effect or without one.  Promise.all does not  *)
(* wait for the other.                                                      *)
WriteRejects(store, b) ==
    /\ <<store, b>> \in writing
    /\ IndexFault
    /\ writing' = writing \ {<<store, b>>}
    /\ Save(store, b) \/ UNCHANGED stored
    /\ IF Awaits(b[1], b) THEN TryAgain(b[1]) ELSE UNCHANGED <<phase, tries>>
    /\ UNCHANGED <<docStatus, chunkCount, told>>

(* updateDocumentStatus(ready, chunks.length)                               *)
MarkReady(r) ==
    /\ phase[r] \in {"ready", "readyEmpty"}
    /\ SetStatus(r, "ready")
    /\ chunkCount' = [chunkCount EXCEPT ![DocOfRun[r]] =
                        IF phase[r] = "ready" THEN 1 ELSE 0]
    /\ Continues(r, IF phase[r] = "ready" THEN "completed" ELSE "done")
    /\ UNCHANGED <<stored, writing, told>>

(* Any other awaited call of the attempt rejects without an effect.         *)
AttemptRejects(r) ==
    /\ phase[r] \in Attempting \ {"write"}
    /\ IndexFault
    /\ TryAgain(r)
    /\ UNCHANGED <<docStatus, chunkCount, stored, writing, told>>

-----------------------------------------------------------------------------
(* Publishing: the event is out, or the error is logged and swallowed.      *)
Tell(type, r) ==
    \/ told' = told \cup {[type |-> type, run |-> r]} /\ UNCHANGED indexFaults
    \/ IndexFault /\ UNCHANGED told

(* publishChunksCreated, publishEmbeddingsGenerated                         *)
TellProgress(r) ==
    /\ \/ phase[r] = "chunks_created" /\ Goes(r, "saveChunks")
       \/ phase[r] = "embeddings_generated" /\ Goes(r, "saveEmbeddings")
    /\ Tell(phase[r], r)
    /\ UNCHANGED <<docStatus, chunkCount, stored, writing>>

(* publishDocumentIndexed: after the status with chunks, before it without. *)
TellCompleted(r) ==
    /\ phase[r] \in {"completed", "completedEmpty"}
    /\ Tell("completed", r)
    /\ Goes(r, IF phase[r] = "completed" THEN "done" ELSE "readyEmpty")
    /\ UNCHANGED <<docStatus, chunkCount, stored, writing>>

(* The catch block: updateDocumentStatus(error), then publishIndexingFailed.*)
(* What rejects is swallowed; the consumer swallows the error of the run.   *)
MarkError(r) ==
    /\ phase[r] = "error"
    /\ SetStatus(r, "error")
    /\ \/ Goes(r, "failed") /\ UNCHANGED indexFaults
       \/ IndexFault /\ Goes(r, "gaveUp")
    /\ UNCHANGED <<chunkCount, stored, writing, told>>

MarkErrorRejects(r) ==
    /\ phase[r] = "error"
    /\ IndexFault
    /\ Goes(r, "unsettled")
    /\ UNCHANGED <<docStatus, chunkCount, stored, writing, told>>

TellFailed(r) ==
    /\ phase[r] = "failed"
    /\ Tell("failed", r)
    /\ Goes(r, "gaveUp")
    /\ UNCHANGED <<docStatus, chunkCount, stored, writing>>

(* The process ends and is started again: its runs are never resumed, and   *)
(* writes that were under way are lost or have landed before.               *)
IndexerCrash ==
    /\ IndexFault
    /\ phase' = [r \in IndexRuns |->
                   IF phase[r] \in {"waiting"} \cup RunEnded THEN phase[r] ELSE "dead"]
    /\ writing' = {}
    /\ UNCHANGED <<tries, docStatus, chunkCount, stored, told>>

IndexingNext ==
    \/ \E r \in IndexRuns :
          \/ BeginRun(r) \/ MarkChunking(r) \/ SaveChunks(r) \/ MarkIndexing(r)
          \/ Embed(r) \/ SaveEmbeddings(r) \/ MarkReady(r) \/ AttemptRejects(r)
          \/ TellProgress(r) \/ TellCompleted(r)
          \/ MarkError(r) \/ MarkErrorRejects(r) \/ TellFailed(r)
    \/ \E w \in writing : WriteLands(w[1], w[2]) \/ WriteRejects(w[1], w[2])
    \/ IndexerCrash

IndexingSpec == IndexingInit /\ [][IndexingNext]_indexVars

-----------------------------------------------------------------------------
Complete(b) == \A s \in Stores : b \in stored[s]

Told(type, r) == [type |-> type, run |-> r] \in told

(* A document that is ready with chunks can be found: some attempt on it    *)
(* has written all its chunks, embeddings, vectors and keywords, whatever   *)
(* failed, was retried, or ran beside it.  The same holds when consumers    *)
(* are told that a run which had the text has completed.                    *)
ReadyIsIndexed ==
    /\ \A d \in IndexedDocs : docStatus[d] = "ready" /\ chunkCount[d] > 0 =>
          \E b \in Batches : DocOfRun[b[1]] = d /\ Complete(b)
    /\ \A r \in WithText : Told("completed", r) =>
          \E b \in Batches : b[1] = r /\ Complete(b)

(* When all runs on a document have ended, none of them by a crash or by an *)
(* error that could not be recorded, its status says so: it is ready or in  *)
(* error, not on its way, in whatever order the runs wrote it.              *)
SettledStatus ==
    \A d \in IndexedDocs :
        LET runs == {r \in IndexRuns : DocOfRun[r] = d /\ phase[r] # "waiting"} IN
        (runs # {} /\ \A r \in runs : phase[r] \in {"done", "gaveUp"})
            => docStatus[d] \in {"ready", "error"}

(* A run that had the text is announced as completed or as failed, never as *)
(* both: after the announcement nothing of the attempt is left to fail.     *)
OutcomeIsUnique ==
    \A r \in WithText : ~(Told("completed", r) /\ Told("failed", r))

(* What becomes of a document is settled, in its row and for consumers.     *)
OutcomeIsSettled == SettledStatus /\ OutcomeIsUnique
=============================================================================
