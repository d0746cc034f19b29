------------------------------ MODULE MCWorkers ------------------------------
(* Instances for TLC of what a document goes through once it is received,   *)
(* and of the processes that do it: upload sessions, the extraction and the *)
(* indexing workers, the chunker, and the start and end of a service.       *)
EXTENDS MCUploadSession, MCChunker, ExtractionWorker, IndexingWorker, ServiceLifecycle, TLC

(* Every delivery to the extraction worker is of one document.               *)
CONSTANTS m1, m2, m3, d1

MCDocumentOf == [c \in Deliveries |-> d1]

(* Every run of the indexing worker is on one document; runs with a text     *)
(* differ in nothing but their names.                                        *)
CONSTANTS r1, r2, r3

MCDocOfRun == [r \in IndexRuns |-> d1]
MCTextRuns == Permutations(WithText)

CONSTANTS request, health, message, job

MCTaskKind == (request :> "request" @@ health :> "health" @@ message :> "message" @@ job :> "job")

(* The parts share no state: one of them moves in each behaviour.            *)
VARIABLE focus

MCVars == <<uploadVars, extractVars, indexVars, chunkerVars, lifeVars, focus>>

MCInit ==
    /\ UploadInit /\ ExtractionInit /\ IndexingInit
    /\ focus \in {"uploads", "extraction", "indexing", "chunker", "lifecycle"}
    /\ ChunkerInit
    /\ focus # "chunker" => /\ chunking.text = <<>> /\ chunking.options.preserveSentences
                            /\ chunking.options.maxChunkSize = 3 /\ chunking.options.overlapSize = 0
    /\ LifecycleInit
    /\ focus # "lifecycle" => process.service = "extraction"

(* A second failure of the indexing worker comes when two runs are under way *)
(* at most, a third one when one is.                                         *)
IndexingFocus ==
    indexFaults' > indexFaults =>
        Cardinality({r \in IndexRuns : phase[r] \notin {"waiting"} \cup RunEnded}) <= 3 - indexFaults

(* Two pieces of work reach a process.                                       *)
LifecycleFocus == Cardinality({t \in Tasks : tasks'[t].at # "none"}) <= 2

MCNext ==
    /\ UNCHANGED focus
    /\ \/ /\ focus = "uploads" /\ UploadNext
          /\ UNCHANGED <<extractVars, indexVars, chunkerVars, lifeVars>>
       \/ /\ focus = "extraction" /\ ExtractionNext
          /\ UNCHANGED <<uploadVars, indexVars, chunkerVars, lifeVars>>
       \/ /\ focus = "indexing" /\ IndexingNext /\ IndexingFocus
          /\ UNCHANGED <<uploadVars, extractVars, chunkerVars, lifeVars>>
       \/ /\ focus = "chunker" /\ ChunkerNext
          /\ UNCHANGED <<uploadVars, extractVars, indexVars, lifeVars>>
       \/ /\ focus = "lifecycle" /\ LifecycleNext /\ LifecycleFocus
          /\ UNCHANGED <<uploadVars, extractVars, indexVars, chunkerVars>>

MCSpec == MCInit /\ [][MCNext]_MCVars

-----------------------------------------------------------------------------
(* The type invariants of the parts.                                         *)
WorkersTypeOK ==
    /\ UploadTypeOK /\ ExtractionTypeOK /\ IndexingTypeOK /\ ChunkerTypeOK /\ LifecycleTypeOK
=============================================================================
