---------------------------- MODULE UploadSession ----------------------------
(***************************************************************************)
(* services/ingestion-service/src/handlers/upload-session.ts: multipart     *)
(* uploads, kept in a Map of the process.  Every handler is synchronous, so *)
(* a request is one action; a client may send any chunk again (an answer    *)
(* was lost, or it lost count), and requests with invalid metadata or for a *)
(* session that is unknown or not active throw and change nothing.          *)
(***************************************************************************)
EXTENDS Integers, FiniteSets

CONSTANTS
    Sessions,     \* upload session ids
    TotalChunks   \* total_chunks of a session

VARIABLES
    session,      \* #sessions: the record of each id, or Absent
    chunksSeen    \* history: the distinct chunk indices a session accepted

uploadVars == <<session, chunksSeen>>

UploadAssumption == TotalChunks \in Nat \ {0}

ASSUME UploadConstants == UploadAssumption

ChunkIndices == 0..(TotalChunks - 1)

Absent    == [status |-> "absent", received |-> 0]
Forgotten == [status |-> "forgotten", received |-> 0]

SessionStatuses == {"absent", "active", "completed", "aborted", "forgotten"}

UploadInit ==
    /\ session = [u \in Sessions |-> Absent]
    /\ chunksSeen = [u \in Sessions |-> {}]

(* handleCreateUploadSession, after its checks of the metadata.             *)
CreateSession(u) ==
    /\ session[u] = Absent
    /\ session' = [session EXCEPT ![u] = [status |-> "active", received |-> 0]]
    /\ UNCHANGED chunksSeen

(* The record of session u once one more chunk has been counted.            *)
OneMore(u) ==
    LET n == session[u].received + 1 IN
    [status |-> IF n >= TotalChunks THEN "completed" ELSE session[u].status,
     received |-> n]

(* Mutant: a session that has ended still counts chunks.                    *)
UploadChunkUnchecked(u, i) ==
    /\ session[u].status \in {"active", "completed", "aborted"}
    /\ i >= 0 /\ i < TotalChunks
    /\ session' = [session EXCEPT ![u] = OneMore(u)]
    /\ chunksSeen' = [chunksSeen EXCEPT ![u] = @ \cup {i}]

(* handleUploadChunk: count the chunk, whichever it is.                     *)
UploadChunk(u, i) ==
    /\ session[u].status = "active"
    /\ i >= 0 /\ i < TotalChunks
    /\ session' = [session EXCEPT ![u] = OneMore(u)]
    /\ chunksSeen' = [chunksSeen EXCEPT ![u] = @ \cup {i}]

AbortSession(u) ==
    /\ session[u].status = "active"
    /\ session' = [session EXCEPT ![u].status = "aborted"]
    /\ UNCHANGED chunksSeen

(* The process ends: the Map is gone, its ids are never drawn again.        *)
RestartUploads ==
    /\ session' = [u \in Sessions |->
                     IF session[u] = Absent THEN Absent ELSE Forgotten]
    /\ chunksSeen' = [u \in Sessions |-> {}]

UploadNext ==
    \/ \E u \in Sessions :
          \/ CreateSession(u) \/ AbortSession(u)
          \/ \E i \in (-1)..TotalChunks : UploadChunk(u, i)
    \/ RestartUploads

UploadSpec == UploadInit /\ [][UploadNext]_uploadVars

-----------------------------------------------------------------------------
(* Every field of a session record has the type the code gives it.          *)
UploadTypeOK ==
    /\ session \in [Sessions -> [status : SessionStatuses, received : Nat]]
    /\ chunksSeen \in [Sessions -> SUBSET ChunkIndices]

(* A session counts every chunk it accepts, and none after it has ended: it *)
(* is complete exactly when it has accepted total_chunks of them, stays so  *)
(* until the process ends, and never counts an index it has not been sent.  *)
UploadAccounting ==
    \A u \in Sessions :
        /\ session[u].received <= TotalChunks
        /\ (session[u].status = "completed") <=> (session[u].received = TotalChunks)
        /\ Cardinality(chunksSeen[u]) <= session[u].received

(* The ingestion service's README: an upload "session auto-completes when   *)
(* all chunks received".                                                    *)
CompleteUpload ==
    \A u \in Sessions : session[u].status = "completed" => chunksSeen[u] = ChunkIndices
=============================================================================
