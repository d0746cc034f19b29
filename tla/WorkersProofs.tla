--------------------------- MODULE WorkersProofs ---------------------------
(***************************************************************************)
(* What is proved of the parts on a document's way and of their composition *)
(* in MCWorkers: the two workers, for any number of deliveries, runs and    *)
(* documents, any limit and any number of retries; the chunker, for any     *)
(* texts and options; the chunk counts of UploadSession; ServiceLifecycle,  *)
(* where the requests that came before the first signal find their stores   *)
(* open.                                                                    *)
(***************************************************************************)
EXTENDS MCWorkers, SequenceLemmas, FiniteSetTheorems, TLAPS

-----------------------------------------------------------------------------
(***************************************************************************)
(* ExtractionWorker.  The inductive invariant has three parts: types with    *)
(* the job slots (Slotted), what each stage of a call has done to its job    *)
(* (StageFacts), and what each event says of its call (EventFacts).          *)
(***************************************************************************)
Slots == {c \in Deliveries : work[c] \in Underway}

Typed ==
    /\ work \in [Deliveries -> {"waiting"} \cup Underway \cup WorkEnded]
    /\ jobs \in [Deliveries -> {"none", "pending", "processing", "completed", "failed"}]
    /\ texts \subseteq Deliveries
    /\ announced \subseteq JobEvent
    /\ retryable \subseteq Deliveries
    /\ extractFaults \in 0..MaxExtractFaults

Slotted == activeJobs = Cardinality(Slots) /\ activeJobs <= MaxConcurrency

(* What a call has done to its job when it is at a stage, or has returned.  *)
StageFacts ==
    \A c \in Deliveries :
        /\ work[c] \in {"waiting", "create"} => jobs[c] = "none"
        /\ work[c] \in {"completed", "publish"} => c \in texts
        /\ work[c] = "publish" => jobs[c] = "completed"
        /\ work[c] = "announce" => jobs[c] = "failed"
        /\ work[c] = "announceUnknown" => jobs[c] \in {"none", "pending"}
        /\ work[c] = "returned" =>
              \/ c \in texts /\ jobs[c] = "completed" /\ Says("extracted", c)
              \/ Says("failed", c) /\ jobs[c] \in {"failed", "pending", "none"}

(* What the call of an event has done, and where it can be afterwards.      *)
EventFacts ==
    \A e \in announced :
        /\ e.type = "extracted" =>
              /\ e.by \in texts
              /\ jobs[e.by] \in {"completed", "failed"}
              /\ work[e.by] \in {"failed", "announce"} \cup WorkEnded
        /\ e.type = "failed" /\ e.named =>
              jobs[e.by] = "failed" /\ work[e.by] \in WorkEnded

ExtractionInv == Typed /\ Slotted /\ StageFacts /\ EventFacts

-----------------------------------------------------------------------------
(* The number of calls under way follows the moves of processDocument.      *)
LEMMA SlotsFinite ==
    IsFiniteSet(Slots) /\ Cardinality(Slots) \in Nat
  <1>1. IsFiniteSet(Deliveries) BY ExtractionConstants DEF ExtractionAssumption
  <1>2. Slots \subseteq Deliveries BY DEF Slots
  <1> QED BY <1>1, <1>2, FS_Subset, FS_CardinalityType

(* A call that starts takes one slot.                                       *)
LEMMA SlotTaken ==
    ASSUME Typed, NEW c \in Deliveries, work[c] = "waiting", Move(c, "create")
    PROVE  Cardinality(Slots') = Cardinality(Slots) + 1
  <1>1. c \notin Slots BY DEF Slots, Underway, Trying, Catching
  <1>2. Slots' = Slots \cup {c}
    BY DEF Typed, Move, Slots, Underway, Trying, Catching
  <1> QED BY <1>1, <1>2, SlotsFinite, FS_AddElement

(* A call that ends gives one slot back.                                    *)
LEMMA SlotGivenBack ==
    ASSUME Typed, NEW c \in Deliveries, work[c] \in Underway,
           NEW how \in WorkEnded, Move(c, how)
    PROVE  Cardinality(Slots') = Cardinality(Slots) - 1 /\ Cardinality(Slots') \in Nat
  <1>1. c \in Slots BY DEF Slots
  <1>2. how \notin Underway BY DEF WorkEnded, Underway, Trying, Catching
  <1>3. Slots' = Slots \ {c}
    BY <1>2 DEF Typed, Move, Slots
  <1>4. IsFiniteSet(Slots') /\ Cardinality(Slots') = Cardinality(Slots) - 1
    BY <1>1, <1>3, SlotsFinite, FS_RemoveElement
  <1> QED BY <1>4, FS_CardinalityType

(* A call that goes on keeps its slot.                                      *)
LEMMA SlotKept ==
    ASSUME Typed, NEW c \in Deliveries, work[c] \in Underway,
           NEW stage \in Underway, Move(c, stage)
    PROVE  Slots' = Slots
  BY DEF Typed, Move, Slots

(* The error path of a call stays under way.                                *)
LEMMA CatchMoves ==
    ASSUME NEW c \in Deliveries, Catch(c)
    PROVE  \E stage \in {"failed", "announceUnknown"} : stage \in Underway /\ Move(c, stage)
  BY DEF Catch, Underway, Catching

(* A statement that may fail moves its call on, or into the error path.     *)
LEMMA ProceedMoves ==
    ASSUME NEW c \in Deliveries, NEW stage \in Underway, Proceed(c, stage)
    PROVE  \E s \in Underway : Move(c, s)
  BY CatchMoves DEF Proceed

(* Announcing adds one event, which says what it is given.                  *)
LEMMA AnnounceAdds ==
    ASSUME announced \subseteq JobEvent, NEW c \in Deliveries,
           NEW type \in {"extracted", "failed"}, NEW named \in BOOLEAN,
           Announce(type, c, named)
    PROVE  /\ announced' \subseteq JobEvent
           /\ announced \subseteq announced'
           /\ Says(type, c)'
           /\ \A e \in announced' :
                 e \in announced \/ (e.type = type /\ e.by = c /\ e.named = named)
  <1> DEFINE new == [type |-> type, by |-> c, named |-> named]
  <1>1. new \in JobEvent BY DEF JobEvent
  <1>2. new.type = type /\ new.by = c /\ new.named = named OBVIOUS
  <1>3. announced' = announced \cup {new} BY DEF Announce
  <1> HIDE DEF new
  <1>4. Says(type, c)' BY <1>2, <1>3 DEF Says
  <1> QED BY <1>1, <1>2, <1>3, <1>4

-----------------------------------------------------------------------------
(* Types: one step per action.                                              *)
LEMMA TypesKept ==
    ASSUME Typed, [ExtractionNext]_extractVars
    PROVE  Typed'
  <1> USE ExtractionConstants DEF ExtractionAssumption
  <1> USE DEF Typed, Move, SetJob, Underway, Trying, Catching, WorkEnded
  <1>1. ASSUME NEW c \in Deliveries, StartWork(c) PROVE Typed'
    BY <1>1 DEF StartWork
  <1>2. ASSUME NEW c \in Deliveries, CreateJob(c) PROVE Typed'
    BY <1>2 DEF CreateJob, Proceed, Catch, Fault
  <1>3. ASSUME NEW c \in Deliveries, MarkProcessing(c) PROVE Typed'
    BY <1>3 DEF MarkProcessing, Proceed, Catch, Fault
  <1>4. ASSUME NEW c \in Deliveries, SaveText(c) PROVE Typed'
    BY <1>4 DEF SaveText, Proceed, Catch, Fault
  <1>5. ASSUME NEW c \in Deliveries, MarkCompleted(c) PROVE Typed'
    BY <1>5 DEF MarkCompleted, Proceed, Catch, Fault
  <1>6. ASSUME NEW c \in Deliveries, PublishExtracted(c) PROVE Typed'
    <2>1. announced' \subseteq JobEvent
      BY <1>6, AnnounceAdds DEF PublishExtracted
    <2> QED BY <1>6, <2>1 DEF PublishExtracted, End, Catch, Fault
  <1>7. ASSUME NEW c \in Deliveries, TryRejects(c) PROVE Typed'
    BY <1>7 DEF TryRejects, Catch, Fault
  <1>8. ASSUME NEW c \in Deliveries, MarkFailed(c) PROVE Typed'
    BY <1>8 DEF MarkFailed, End, Fault
  <1>9. ASSUME NEW c \in Deliveries, PublishFailed(c) PROVE Typed'
    <2>1. announced' \subseteq JobEvent
      BY <1>9, AnnounceAdds, (work[c] = "announce") \in BOOLEAN DEF PublishFailed
    <2> QED BY <1>9, <2>1 DEF PublishFailed, End, Fault
  <1>10. ASSUME NEW c \in Deliveries, CatchRejects(c) PROVE Typed'
    BY <1>10 DEF CatchRejects, End, Fault
  <1>11. CASE WorkerCrash
    BY <1>11 DEF WorkerCrash, Fault
  <1>12. CASE UNCHANGED extractVars
    BY <1>12 DEF extractVars
  <1> QED
    BY <1>1, <1>2, <1>3, <1>4, <1>5, <1>6, <1>7, <1>8, <1>9, <1>10, <1>11, <1>12
       DEF ExtractionNext

(* Slots: a call takes one when it starts, and gives it back once.          *)
LEMMA SlotsKept ==
    ASSUME Typed, Slotted, [ExtractionNext]_extractVars
    PROVE  Slotted'
  <1> USE ExtractionConstants DEF ExtractionAssumption
  <1>0. /\ activeJobs \in Nat
        /\ \A s \in Trying \cup Catching : s \in Underway
    BY SlotsFinite DEF Slotted, Underway
  <1>a. ASSUME NEW c \in Deliveries, work[c] \in Underway,
               NEW s \in Underway, Move(c, s), UNCHANGED activeJobs
        PROVE  Slotted'
    BY <1>a, SlotKept DEF Slotted
  <1>b. ASSUME NEW c \in Deliveries, work[c] \in Underway,
               NEW how \in WorkEnded, End(c, how)
        PROVE  Slotted'
    <2>1. Cardinality(Slots') = Cardinality(Slots) - 1
      BY <1>b, SlotGivenBack DEF End
    <2> QED BY <1>0, <1>b, <2>1 DEF Slotted, End
  <1>c. ASSUME NEW c \in Deliveries, work[c] \in Underway, Catch(c), UNCHANGED activeJobs
        PROVE  Slotted'
    BY <1>a, <1>c, CatchMoves
  <1>1. ASSUME NEW c \in Deliveries, StartWork(c) PROVE Slotted'
    <2>1. CASE Move(c, "create") /\ activeJobs < MaxConcurrency /\ activeJobs' = activeJobs + 1
      <3>1. Cardinality(Slots') = Cardinality(Slots) + 1
        BY <1>1, <2>1, SlotTaken DEF StartWork
      <3> QED BY <1>0, <2>1, <3>1 DEF Slotted
    <2>2. CASE Move(c, "thrown") /\ UNCHANGED activeJobs
      <3>1. Slots' = Slots
        BY <1>1, <2>2 DEF StartWork, Typed, Move, Slots, Underway, Trying, Catching
      <3> QED BY <2>2, <3>1 DEF Slotted
    <2> QED BY <1>1, <2>1, <2>2 DEF StartWork
  <1>2. ASSUME NEW c \in Deliveries,
               \/ CreateJob(c) \/ MarkProcessing(c) \/ SaveText(c)
               \/ MarkCompleted(c) \/ TryRejects(c)
        PROVE  Slotted'
    <2>1. work[c] \in Underway /\ UNCHANGED activeJobs
      BY <1>2 DEF CreateJob, MarkProcessing, SaveText, MarkCompleted, TryRejects,
                  Underway, Trying
    <2>2. Catch(c) \/ \E s \in Underway : Move(c, s)
      BY <1>2 DEF CreateJob, MarkProcessing, SaveText, MarkCompleted, TryRejects,
                  Proceed, Underway, Trying
    <2> QED BY <2>1, <2>2, <1>a, <1>c
  <1>3. ASSUME NEW c \in Deliveries, PublishExtracted(c) PROVE Slotted'
    <2>1. work[c] \in Underway
      BY <1>3 DEF PublishExtracted, Underway, Trying
    <2>2. End(c, "returned") \/ (Catch(c) /\ UNCHANGED activeJobs)
      BY <1>3 DEF PublishExtracted
    <2> QED BY <2>1, <2>2, <1>b, <1>c DEF WorkEnded
  <1>4. ASSUME NEW c \in Deliveries, MarkFailed(c) \/ PublishFailed(c) \/ CatchRejects(c)
        PROVE  Slotted'
    <2>1. work[c] \in Underway /\ "announce" \in Underway
      BY <1>4 DEF MarkFailed, PublishFailed, CatchRejects, Underway, Catching
    <2>2. \/ \E how \in WorkEnded : End(c, how)
          \/ Move(c, "announce") /\ UNCHANGED activeJobs
      BY <1>4 DEF MarkFailed, PublishFailed, CatchRejects, WorkEnded
    <2> QED BY <2>1, <2>2, <1>a, <1>b
  <1>5. CASE WorkerCrash
    <2>1. Slots' = {}
      BY <1>5 DEF WorkerCrash, Typed, Slots, Underway, Trying, Catching
    <2> QED BY <1>5, <2>1, FS_EmptySet DEF WorkerCrash, Slotted
  <1>6. CASE UNCHANGED extractVars
    BY <1>6 DEF extractVars, Slotted, Slots
  <1> QED BY <1>1, <1>2, <1>3, <1>4, <1>5, <1>6 DEF ExtractionNext

-----------------------------------------------------------------------------
(* Stages and events: each action changes the job, the text and the events  *)
(* of its own call only.                                                    *)
LEMMA StagesKept ==
    ASSUME Typed, StageFacts, EventFacts, [ExtractionNext]_extractVars
    PROVE  StageFacts'
  <1> USE DEF Typed, StageFacts, Says, Move, SetJob, WorkEnded
  <1>1. ASSUME NEW c \in Deliveries, StartWork(c) PROVE StageFacts'
    BY <1>1 DEF StartWork
  <1>2. ASSUME NEW c \in Deliveries, CreateJob(c) PROVE StageFacts'
    BY <1>2 DEF CreateJob, Proceed, Catch
  <1>3. ASSUME NEW c \in Deliveries, MarkProcessing(c) PROVE StageFacts'
    BY <1>3 DEF MarkProcessing, Proceed, Catch
  <1>4. ASSUME NEW c \in Deliveries, SaveText(c) PROVE StageFacts'
    BY <1>4 DEF SaveText, Proceed, Catch
  <1>5. ASSUME NEW c \in Deliveries, MarkCompleted(c) PROVE StageFacts'
    BY <1>5 DEF MarkCompleted, Proceed, Catch
  <1>6. ASSUME NEW c \in Deliveries, PublishExtracted(c) PROVE StageFacts'
    <2>1. Says("extracted", c)' /\ announced \subseteq announced'
      BY <1>6, AnnounceAdds DEF PublishExtracted
    <2> QED BY <1>6, <2>1 DEF PublishExtracted, End, Catch
  <1>7. ASSUME NEW c \in Deliveries, TryRejects(c) PROVE StageFacts'
    BY <1>7 DEF TryRejects, Catch, Trying
  <1>8. ASSUME NEW c \in Deliveries, MarkFailed(c) PROVE StageFacts'
    BY <1>8 DEF MarkFailed, End
  <1>9. ASSUME NEW c \in Deliveries, PublishFailed(c) PROVE StageFacts'
    <2>1. Says("failed", c)' /\ announced \subseteq announced'
      BY <1>9, AnnounceAdds, (work[c] = "announce") \in BOOLEAN DEF PublishFailed
    <2> QED BY <1>9, <2>1 DEF PublishFailed, End
  <1>10. ASSUME NEW c \in Deliveries, CatchRejects(c) PROVE StageFacts'
    BY <1>10 DEF CatchRejects, End
  <1>11. CASE WorkerCrash
    BY <1>11 DEF WorkerCrash, Underway, Trying, Catching
  <1>12. CASE UNCHANGED extractVars
    BY <1>12 DEF extractVars
  <1> QED
    BY <1>1, <1>2, <1>3, <1>4, <1>5, <1>6, <1>7, <1>8, <1>9, <1>10, <1>11, <1>12
       DEF ExtractionNext

(* Every step keeps what the announced events say true.                     *)
LEMMA EventsKept ==
    ASSUME Typed, StageFacts, EventFacts, [ExtractionNext]_extractVars
    PROVE  EventFacts'
  <1> USE DEF Typed, StageFacts, EventFacts, Move, SetJob, WorkEnded, JobEvent
  <1>1. ASSUME NEW c \in Deliveries, StartWork(c) PROVE EventFacts'
    BY <1>1 DEF StartWork
  <1>2. ASSUME NEW c \in Deliveries, CreateJob(c) PROVE EventFacts'
    BY <1>2 DEF CreateJob, Proceed, Catch
  <1>3. ASSUME NEW c \in Deliveries, MarkProcessing(c) PROVE EventFacts'
    BY <1>3 DEF MarkProcessing, Proceed, Catch
  <1>4. ASSUME NEW c \in Deliveries, SaveText(c) PROVE EventFacts'
    BY <1>4 DEF SaveText, Proceed, Catch
  <1>5. ASSUME NEW c \in Deliveries, MarkCompleted(c) PROVE EventFacts'
    BY <1>5 DEF MarkCompleted, Proceed, Catch
  <1>6. ASSUME NEW c \in Deliveries, PublishExtracted(c) PROVE EventFacts'
    <2>1. \A e \in announced' : e \in announced \/ (e.type = "extracted" /\ e.by = c)
      BY <1>6, AnnounceAdds DEF PublishExtracted
    <2> QED BY <1>6, <2>1 DEF PublishExtracted, End, Catch
  <1>7. ASSUME NEW c \in Deliveries, TryRejects(c) PROVE EventFacts'
    BY <1>7 DEF TryRejects, Catch, Trying
  <1>8. ASSUME NEW c \in Deliveries, MarkFailed(c) PROVE EventFacts'
    BY <1>8 DEF MarkFailed, End
  <1>9. ASSUME NEW c \in Deliveries, PublishFailed(c) PROVE EventFacts'
    <2> DEFINE known == work[c] = "announce"
    <2>1. \A e \in announced' :
             e \in announced \/ (e.type = "failed" /\ e.by = c /\ e.named = known)
      BY <1>9, AnnounceAdds, known \in BOOLEAN DEF PublishFailed
    <2>2. \A e \in announced' :
             e \in announced \/ (e.type = "failed" /\ e.by = c /\ (e.named => known))
      <3> HIDE DEF known
      <3> QED BY <2>1, Zenon
    <2> QED BY <1>9, <2>2 DEF PublishFailed, End
  <1>10. ASSUME NEW c \in Deliveries, CatchRejects(c) PROVE EventFacts'
    BY <1>10 DEF CatchRejects, Catching, End
  <1>11. CASE WorkerCrash
    BY <1>11 DEF WorkerCrash, Underway, Trying, Catching
  <1>12. CASE UNCHANGED extractVars
    BY <1>12 DEF extractVars
  <1> QED
    BY <1>1, <1>2, <1>3, <1>4, <1>5, <1>6, <1>7, <1>8, <1>9, <1>10, <1>11, <1>12
       DEF ExtractionNext

-----------------------------------------------------------------------------
(* The inductive invariant holds initially, and every step keeps it.        *)
THEOREM ExtractionInvariant == ExtractionSpec => []ExtractionInv
  <1>1. ExtractionInit => ExtractionInv
    <2> SUFFICES ASSUME ExtractionInit PROVE ExtractionInv OBVIOUS
    <2>1. Typed
      BY ExtractionConstants DEF ExtractionInit, Typed, ExtractionAssumption
    <2>2. Slots = {}
      BY DEF ExtractionInit, Slots, Underway, Trying, Catching
    <2>3. Slotted
      BY <2>2, FS_EmptySet, ExtractionConstants DEF ExtractionInit, Slotted, ExtractionAssumption
    <2>4. StageFacts /\ EventFacts
      BY DEF ExtractionInit, StageFacts, EventFacts
    <2> QED BY <2>1, <2>3, <2>4 DEF ExtractionInv
  <1>2. ExtractionInv /\ [ExtractionNext]_extractVars => ExtractionInv'
    BY TypesKept, SlotsKept, StagesKept, EventsKept DEF ExtractionInv
  <1> QED BY <1>1, <1>2, PTL DEF ExtractionSpec

(* Type correctness, the range of #activeJobs among it: the capacity check  *)
(* and the decrement of processDocument keep it between 0 and the limit.    *)
THEOREM ExtractionTypeCorrect == ExtractionSpec => []ExtractionTypeOK
  <1>1. ExtractionInv => ExtractionTypeOK
    BY SlotsFinite, ExtractionConstants
       DEF ExtractionInv, Typed, Slotted, ExtractionTypeOK, ExtractionAssumption
  <1> QED BY <1>1, ExtractionInvariant, PTL

(* #activeJobs counts the calls under way: no path out of processDocument   *)
(* keeps a slot or gives it back twice.                                     *)
THEOREM CapacityReturned == ExtractionSpec => []JobSlots
  <1>1. ExtractionInv => JobSlots
    BY DEF ExtractionInv, Slotted, Slots, JobSlots
  <1> QED BY <1>1, ExtractionInvariant, PTL

(* A delivery whose call returns is settled: completed, stored and          *)
(* announced, or announced as failed.                                       *)
THEOREM NothingLeftOpen == ExtractionSpec => []ReturnedIsSettled
  <1>1. ExtractionInv => ReturnedIsSettled
    BY DEF ExtractionInv, StageFacts, ReturnedIsSettled
  <1> QED BY <1>1, ExtractionInvariant, PTL

(* What the extraction service announces is so, whatever call rejects.      *)
THEOREM AnnouncementsAreTrue == ExtractionSpec => []AnnouncementsHold
  <1>1. ExtractionInv => AnnouncementsHold
    BY DEF ExtractionInv, EventFacts, AnnouncementsHold
  <1> QED BY <1>1, ExtractionInvariant, PTL

-----------------------------------------------------------------------------
(***************************************************************************)
(* IndexingWorker.  ReadyIsIndexed and OutcomeIsSettled are not inductive:   *)
(* what a run has stored when it says that a document is ready follows from  *)
(* what it has stored at each phase before (RunFacts); what is announced,    *)
(* from where the run that announced it is (OutcomeFacts); and that a status *)
(* is not left on its way, from the runs that will still set it or have died *)
(* (DocumentFacts).                                                          *)
(***************************************************************************)
(* The phases of an attempt after saveChunks, and after saveEmbeddings.     *)
Chunked  == {"indexing", "embed", "embeddings_generated", "saveEmbeddings", "write", "ready",
             "completed"}
Embedded == {"write", "ready", "completed"}

(* The phases of a run that has yet to set the status, or never will.       *)
Unset == Attempting \cup {"chunks_created", "embeddings_generated", "completedEmpty", "error",
                          "unsettled", "dead"}

RunFact(r) ==
    /\ phase[r] \in Chunked => Batch(r) \in stored["chunks"]
    /\ phase[r] \in Embedded => Batch(r) \in stored["embeddings"]
    /\ phase[r] = "write" =>
          \A i \in Indexes : <<i, Batch(r)>> \in writing \/ Batch(r) \in stored[i]
    /\ phase[r] \in {"ready", "completed"} => \A i \in Indexes : Batch(r) \in stored[i]
    /\ r \in WithText => phase[r] \notin {"completedEmpty", "readyEmpty"}

RunFacts == \A r \in IndexRuns : RunFact(r)

IndexedBy(r) == \E b \in Batches : b[1] = r /\ Complete(b)

OutcomeFacts ==
    \A r \in WithText :
        /\ Told("completed", r) => phase[r] = "done" /\ IndexedBy(r)
        /\ Told("failed", r) => phase[r] = "gaveUp"

IndexedDoc(d) == \E b \in Batches : DocOfRun[b[1]] = d /\ Complete(b)
Begun(d) == \E r \in IndexRuns : DocOfRun[r] = d /\ phase[r] # "waiting"
Pending(d) == \E r \in IndexRuns : DocOfRun[r] = d /\ phase[r] \in Unset

DocumentFacts ==
    \A d \in IndexedDocs :
        /\ chunkCount[d] > 0 => IndexedDoc(d)
        /\ docStatus[d] \notin {"ready", "error"} /\ Begun(d) => Pending(d)

IndexingInv == IndexingTypeOK /\ RunFacts /\ OutcomeFacts /\ DocumentFacts

-----------------------------------------------------------------------------
(* Every step keeps the types.                                              *)
LEMMA IndexingTyped == IndexingTypeOK /\ [IndexingNext]_indexVars => IndexingTypeOK'
  <1> SUFFICES ASSUME IndexingTypeOK, [IndexingNext]_indexVars PROVE IndexingTypeOK' OBVIOUS
  <1> USE IndexingConstants DEF IndexingAssumption, IndexingTypeOK, Attempting, Telling, GivingUp,
          RunEnded, Stores, Indexes, Batches, IndexEvent, Goes, IndexFault, TryAgain, Continues,
          SetStatus, Save, Batch
  <1>1. ASSUME NEW r \in IndexRuns, BeginRun(r) PROVE IndexingTypeOK' BY <1>1 DEF BeginRun
  <1>2. ASSUME NEW r \in IndexRuns, MarkChunking(r) PROVE IndexingTypeOK' BY <1>2 DEF MarkChunking
  <1>3. ASSUME NEW r \in IndexRuns, SaveChunks(r) PROVE IndexingTypeOK' BY <1>3 DEF SaveChunks
  <1>4. ASSUME NEW r \in IndexRuns, MarkIndexing(r) PROVE IndexingTypeOK' BY <1>4 DEF MarkIndexing
  <1>5. ASSUME NEW r \in IndexRuns, Embed(r) PROVE IndexingTypeOK' BY <1>5 DEF Embed
  <1>6. ASSUME NEW r \in IndexRuns, SaveEmbeddings(r) PROVE IndexingTypeOK' BY <1>6 DEF SaveEmbeddings
  <1>7. ASSUME NEW r \in IndexRuns, MarkReady(r) PROVE IndexingTypeOK' BY <1>7 DEF MarkReady
  <1>8. ASSUME NEW r \in IndexRuns, AttemptRejects(r) PROVE IndexingTypeOK' BY <1>8 DEF AttemptRejects
  <1>9. ASSUME NEW r \in IndexRuns, TellProgress(r) PROVE IndexingTypeOK' BY <1>9 DEF TellProgress, Tell
  <1>10. ASSUME NEW r \in IndexRuns, TellCompleted(r) PROVE IndexingTypeOK' BY <1>10 DEF TellCompleted, Tell
  <1>11. ASSUME NEW r \in IndexRuns, MarkError(r) PROVE IndexingTypeOK' BY <1>11 DEF MarkError
  <1>12. ASSUME NEW r \in IndexRuns, MarkErrorRejects(r) PROVE IndexingTypeOK' BY <1>12 DEF MarkErrorRejects
  <1>13. ASSUME NEW r \in IndexRuns, TellFailed(r) PROVE IndexingTypeOK' BY <1>13 DEF TellFailed, Tell
  <1>14. ASSUME NEW s \in Indexes, NEW b \in Batches, WriteLands(s, b) PROVE IndexingTypeOK'
    BY <1>14 DEF WriteLands
  <1>15. ASSUME NEW s \in Indexes, NEW b \in Batches, WriteRejects(s, b) PROVE IndexingTypeOK'
    BY <1>15 DEF WriteRejects
  <1>16. CASE IndexerCrash BY <1>16 DEF IndexerCrash
  <1>17. CASE UNCHANGED indexVars BY <1>17 DEF indexVars
  <1>18. \A w \in writing : w[1] \in Indexes /\ w[2] \in Batches OBVIOUS
  <1> QED BY <1>1, <1>2, <1>3, <1>4, <1>5, <1>6, <1>7, <1>8, <1>9, <1>10, <1>11, <1>12, <1>13, <1>14,
             <1>15, <1>16, <1>17, <1>18 DEF IndexingNext

-----------------------------------------------------------------------------
(* What a step of run r leaves alone: where the other runs stand.           *)
OnlyRun(r) == \A q \in IndexRuns \ {r} : phase'[q] = phase[q] /\ tries'[q] = tries[q]

(* Nothing is ever removed from a store.                                    *)
StoredGrows == \A s \in Stores : stored[s] \subseteq stored'[s]

(* No step of the worker or of a crash removes anything from a store.       *)
LEMMA StoresGrow == IndexingTypeOK /\ [IndexingNext]_indexVars => StoredGrows
  <1> SUFFICES ASSUME IndexingTypeOK, [IndexingNext]_indexVars PROVE StoredGrows OBVIOUS
  <1>1. ASSUME NEW s, NEW b, Save(s, b) PROVE StoredGrows
    BY <1>1 DEF Save, StoredGrows, IndexingTypeOK
  <1>2. CASE UNCHANGED stored BY <1>2 DEF StoredGrows
  <1> QED BY <1>1, <1>2 DEF IndexingNext, indexVars, BeginRun, MarkChunking, SaveChunks, MarkIndexing,
        Embed, SaveEmbeddings, MarkReady, AttemptRejects, TellProgress, TellCompleted, MarkError,
        MarkErrorRejects, TellFailed, WriteLands, WriteRejects, IndexerCrash

(* A run whose place is left alone keeps its facts, unless a write of its   *)
(* batch ends without being stored.                                         *)
LEMMA OthersKeep ==
    ASSUME IndexingTypeOK, RunFacts, StoredGrows, NEW q \in IndexRuns,
           phase'[q] = phase[q], tries'[q] = tries[q],
           \A i \in Indexes : <<i, Batch(q)>> \in writing =>
               <<i, Batch(q)>> \in writing' \/ Batch(q) \in stored'[i] \/ phase[q] # "write"
    PROVE  RunFact(q)'
  <1>1. Batch(q)' = Batch(q) BY DEF Batch
  <1>2. RunFact(q) BY DEF RunFacts
  <1>3. \A s \in Stores : Batch(q) \in stored[s] => Batch(q) \in stored'[s] BY DEF StoredGrows
  <1> QED BY <1>1, <1>2, <1>3 DEF RunFact, Stores, Indexes

(* What the outcomes of an attempt leave: the run alone moves, to the next  *)
(* phase, to the start of another attempt, or to the catch block.           *)
LEMMA RunMoves ==
    ASSUME IndexingTypeOK, NEW r \in IndexRuns, NEW next
    PROVE  /\ Goes(r, next) => OnlyRun(r) /\ phase'[r] = next /\ tries'[r] = tries[r]
           /\ TryAgain(r) => OnlyRun(r) /\ phase'[r] \in {"chunking", "error"}
           /\ Continues(r, next) => /\ OnlyRun(r)
                                     /\ \/ phase'[r] = next /\ tries'[r] = tries[r]
                                        \/ phase'[r] \in {"chunking", "error"}
  BY DEF IndexingTypeOK, Goes, TryAgain, Continues, OnlyRun

(* A run at the start of an attempt or in its catch block has no facts.     *)
LEMMA FreshRun ==
    ASSUME NEW r \in IndexRuns, phase'[r] \in {"chunking", "error"}
    PROVE  RunFact(r)'
  BY DEF RunFact, Chunked, Embedded

(* Every step keeps what a run has written by its phase.                    *)
LEMMA RunFactsStep == IndexingTypeOK /\ RunFacts /\ [IndexingNext]_indexVars => RunFacts'
  <1> SUFFICES ASSUME IndexingTypeOK, RunFacts, [IndexingNext]_indexVars PROVE RunFacts' OBVIOUS
  <1>g. StoredGrows BY StoresGrow
  <1>o. ASSUME NEW r \in IndexRuns, OnlyRun(r), writing \subseteq writing', RunFact(r)' PROVE RunFacts'
    BY <1>g, <1>o, OthersKeep DEF RunFacts, OnlyRun
  <1>f. ASSUME NEW r \in IndexRuns PROVE RunFact(r) BY DEF RunFacts
  <1> USE DEF Chunked, Embedded
  <1>1. ASSUME NEW r \in IndexRuns, BeginRun(r) PROVE RunFacts'
    BY <1>1, <1>o, RunMoves, FreshRun DEF BeginRun
  <1>2. ASSUME NEW r \in IndexRuns, MarkChunking(r) PROVE RunFacts'
    BY <1>2, <1>o, RunMoves, FreshRun DEF MarkChunking, RunFact
  <1>3. ASSUME NEW r \in IndexRuns, SaveChunks(r) PROVE RunFacts'
    <2>1. Batch(r) \in stored'["chunks"] BY <1>3 DEF SaveChunks, Save, IndexingTypeOK, Stores
    <2>2. tries'[r] = tries[r] => Batch(r)' = Batch(r) BY DEF Batch
    <2> QED BY <1>3, <1>o, <2>1, <2>2, RunMoves, FreshRun DEF SaveChunks, RunFact
  <1>4. ASSUME NEW r \in IndexRuns, MarkIndexing(r) PROVE RunFacts'
    <2>2. tries'[r] = tries[r] => Batch(r)' = Batch(r) BY DEF Batch
    <2> QED BY <1>4, <1>f, <1>o, <2>2, RunMoves, FreshRun DEF MarkIndexing, RunFact
  <1>5. ASSUME NEW r \in IndexRuns, Embed(r) PROVE RunFacts'
    <2>2. tries'[r] = tries[r] => Batch(r)' = Batch(r) BY DEF Batch
    <2> QED BY <1>5, <1>f, <1>o, <2>2, RunMoves DEF Embed, RunFact
  <1>6. ASSUME NEW r \in IndexRuns, SaveEmbeddings(r) PROVE RunFacts'
    <2>1. /\ Batch(r) \in stored'["embeddings"] /\ stored'["chunks"] = stored["chunks"]
      BY <1>6 DEF SaveEmbeddings, Save, IndexingTypeOK, Stores
    <2>2. tries'[r] = tries[r] => Batch(r)' = Batch(r) BY DEF Batch
    <2>3. Goes(r, "write") => \A i \in Indexes : <<i, Batch(r)>> \in writing \cup (Indexes \X {Batch(r)})
      OBVIOUS
    <2>4. RunFact(r) BY <1>f
    <2>5. CASE Goes(r, "write") /\ writing' = writing \cup (Indexes \X {Batch(r)})
      <3>1. /\ OnlyRun(r) /\ phase'[r] = "write" /\ tries'[r] = tries[r] BY <2>5, RunMoves
      <3>2. /\ Batch(r)' = Batch(r) /\ writing \subseteq writing'
            /\ \A i \in Indexes : <<i, Batch(r)>> \in writing'
        BY <2>2, <2>5, <3>1
      <3>3. RunFact(r)' BY <1>6, <2>1, <2>4, <3>1, <3>2 DEF SaveEmbeddings, RunFact
      <3> QED BY <1>o, <3>1, <3>2, <3>3
    <2>6. CASE TryAgain(r) /\ UNCHANGED writing BY <1>o, <2>6, RunMoves, FreshRun
    <2> QED BY <1>6, <2>5, <2>6 DEF SaveEmbeddings
  <1>7. ASSUME NEW r \in IndexRuns, MarkReady(r) PROVE RunFacts'
    <2>2. tries'[r] = tries[r] => Batch(r)' = Batch(r) BY DEF Batch
    <2> QED BY <1>7, <1>f, <1>o, <2>2, RunMoves, FreshRun DEF MarkReady, RunFact
  <1>8. ASSUME NEW r \in IndexRuns, AttemptRejects(r) PROVE RunFacts'
    BY <1>8, <1>o, RunMoves, FreshRun DEF AttemptRejects
  <1>9. ASSUME NEW r \in IndexRuns, TellProgress(r) PROVE RunFacts'
    <2>2. tries'[r] = tries[r] => Batch(r)' = Batch(r) BY DEF Batch
    <2> QED BY <1>9, <1>f, <1>o, <2>2, RunMoves DEF TellProgress, RunFact
  <1>10. ASSUME NEW r \in IndexRuns, TellCompleted(r) PROVE RunFacts'
    BY <1>10, <1>f, <1>o, RunMoves DEF TellCompleted, RunFact
  <1>11. ASSUME NEW r \in IndexRuns, MarkError(r) PROVE RunFacts'
    BY <1>11, <1>o, RunMoves DEF MarkError, RunFact
  <1>12. ASSUME NEW r \in IndexRuns, MarkErrorRejects(r) PROVE RunFacts'
    BY <1>12, <1>o, RunMoves DEF MarkErrorRejects, RunFact
  <1>13. ASSUME NEW r \in IndexRuns, TellFailed(r) PROVE RunFacts'
    BY <1>13, <1>o, RunMoves DEF TellFailed, RunFact
  <1>14. ASSUME NEW s \in Indexes, NEW b \in Batches, WriteLands(s, b) PROVE RunFacts'
    <2>1. /\ b \in stored'[s] /\ \A w \in writing : w # <<s, b>> => w \in writing'
      BY <1>14 DEF WriteLands, Save, IndexingTypeOK, Stores
    <2>2. b[1] \in IndexRuns BY DEF Batches
    <2>3. ASSUME NEW q \in IndexRuns, phase'[q] = phase[q], tries'[q] = tries[q] PROVE RunFact(q)'
      BY <1>g, <2>1, <2>3, OthersKeep
    <2>4. CASE UNCHANGED <<phase, tries>> BY <2>3, <2>4 DEF RunFacts
    <2>5. CASE /\ Awaits(b[1], b) /\ \A other \in Indexes \ {s} : <<other, b>> \notin writing
               /\ Goes(b[1], "ready")
      <3>1. /\ OnlyRun(b[1]) /\ phase'[b[1]] = "ready" /\ tries'[b[1]] = tries[b[1]]
        BY <2>2, <2>5, RunMoves
      <3>2. Batch(b[1])' = Batch(b[1]) /\ b = Batch(b[1]) /\ phase[b[1]] = "write"
        BY <2>5, <3>1 DEF Batch, Awaits
      <3>3. RunFact(b[1]) BY <1>f, <2>2
      <3>4. \A i \in Indexes : b \in stored'[i]
        BY <1>g, <2>1, <2>5, <3>2, <3>3 DEF RunFact, StoredGrows, Stores
      <3>5. RunFact(b[1])'
        BY <1>g, <2>2, <3>1, <3>2, <3>3, <3>4 DEF RunFact, StoredGrows, Stores
      <3> QED BY <2>3, <3>1, <3>5 DEF RunFacts, OnlyRun
    <2> QED BY <1>14, <2>4, <2>5 DEF WriteLands
  <1>15. ASSUME NEW s \in Indexes, NEW b \in Batches, WriteRejects(s, b) PROVE RunFacts'
    <2>1. \A w \in writing : w # <<s, b>> => w \in writing' BY <1>15 DEF WriteRejects
    <2>2. b[1] \in IndexRuns BY DEF Batches
    <2>3. ASSUME NEW q \in IndexRuns, phase'[q] = phase[q], tries'[q] = tries[q],
                 phase[q] = "write" => Batch(q) # b
          PROVE  RunFact(q)'
      BY <1>g, <2>1, <2>3, OthersKeep
    <2>4. CASE Awaits(b[1], b) /\ TryAgain(b[1])
      <3>1. OnlyRun(b[1]) /\ phase'[b[1]] \in {"chunking", "error"} BY <2>2, <2>4, RunMoves
      <3>2. \A q \in IndexRuns \ {b[1]} : Batch(q) # b BY DEF Batch
      <3> QED BY <2>2, <2>3, <3>1, <3>2, FreshRun DEF RunFacts, OnlyRun
    <2>5. CASE ~Awaits(b[1], b) /\ UNCHANGED <<phase, tries>>
      <3>1. \A q \in IndexRuns : phase[q] = "write" => Batch(q) # b BY <2>5 DEF Awaits, Batch
      <3> QED BY <2>3, <2>5, <3>1 DEF RunFacts
    <2> QED BY <1>15, <2>4, <2>5 DEF WriteRejects
  <1>16. CASE IndexerCrash
    BY <1>16 DEF IndexerCrash, RunFacts, RunFact, RunEnded
  <1>17. CASE UNCHANGED indexVars BY <1>17, <1>g, OthersKeep DEF indexVars, RunFacts
  <1>18. \A w \in writing : w[1] \in Indexes /\ w[2] \in Batches BY DEF IndexingTypeOK
  <1> QED BY <1>1, <1>2, <1>3, <1>4, <1>5, <1>6, <1>7, <1>8, <1>9, <1>10, <1>11, <1>12, <1>13, <1>14,
             <1>15, <1>16, <1>17, <1>18 DEF IndexingNext

-----------------------------------------------------------------------------
(* Complete batches stay complete, and a run that has ended stays ended.    *)
LEMMA IndexedStays ==
    ASSUME StoredGrows
    PROVE  /\ \A r \in IndexRuns : IndexedBy(r) => IndexedBy(r)'
           /\ \A d \in IndexedDocs : IndexedDoc(d) => IndexedDoc(d)'
  <1>1. \A b \in Batches : Complete(b) => Complete(b)' BY DEF StoredGrows, Complete
  <1> QED BY <1>1 DEF IndexedBy, IndexedDoc

(* A run that has ended has ended for good.                                 *)
LEMMA EndedStays ==
    ASSUME IndexingTypeOK, [IndexingNext]_indexVars, NEW q \in IndexRuns, phase[q] \in RunEnded
    PROVE  phase'[q] = phase[q]
  <1>1. ASSUME NEW r \in IndexRuns, OnlyRun(r), phase[r] \notin RunEnded PROVE phase'[q] = phase[q]
    BY <1>1 DEF OnlyRun
  <1> USE <1>1, RunMoves DEF RunEnded
  <1>2. ASSUME NEW r \in IndexRuns, MarkReady(r) \/ AttemptRejects(r) \/ MarkError(r) \/ MarkErrorRejects(r)
        PROVE  phase'[q] = phase[q]
    BY <1>2 DEF MarkReady, AttemptRejects, MarkError, MarkErrorRejects, Attempting
  <1>3. ASSUME NEW r \in IndexRuns, TellProgress(r) \/ TellCompleted(r) \/ TellFailed(r)
        PROVE  phase'[q] = phase[q]
    BY <1>3 DEF TellProgress, TellCompleted, TellFailed
  <1>4. ASSUME NEW r \in IndexRuns, BeginRun(r) \/ MarkChunking(r) \/ SaveChunks(r) \/ MarkIndexing(r)
                                    \/ Embed(r) \/ SaveEmbeddings(r)
        PROVE  phase'[q] = phase[q]
    BY <1>4 DEF BeginRun, MarkChunking, SaveChunks, MarkIndexing, Embed, SaveEmbeddings
  <1>5. ASSUME NEW s \in Indexes, NEW b \in Batches, WriteLands(s, b) \/ WriteRejects(s, b)
        PROVE  phase'[q] = phase[q]
    <2>1. b[1] \in IndexRuns BY DEF Batches
    <2> QED BY <1>5, <2>1 DEF WriteLands, WriteRejects, Awaits
  <1>6. CASE IndexerCrash BY <1>6 DEF IndexerCrash
  <1>7. CASE UNCHANGED indexVars BY <1>7 DEF indexVars
  <1>8. \A w \in writing : w[1] \in Indexes /\ w[2] \in Batches BY DEF IndexingTypeOK
  <1> QED BY <1>2, <1>3, <1>4, <1>5, <1>6, <1>7, <1>8 DEF IndexingNext

(* Every step keeps the told outcomes true.                                 *)
LEMMA OutcomeFactsStep ==
    IndexingTypeOK /\ RunFacts /\ OutcomeFacts /\ [IndexingNext]_indexVars => OutcomeFacts'
  <1> SUFFICES ASSUME IndexingTypeOK, RunFacts, OutcomeFacts, [IndexingNext]_indexVars
               PROVE  OutcomeFacts'
    OBVIOUS
  <1>t. WithText \subseteq IndexRuns BY IndexingConstants DEF IndexingAssumption
  <1>g. StoredGrows BY StoresGrow
  <1>e. \A q \in IndexRuns : phase[q] \in {"done", "gaveUp"} => phase'[q] = phase[q]
    BY EndedStays DEF RunEnded
  <1>k. ASSUME NEW q \in WithText,
               Told("completed", q)' => Told("completed", q), Told("failed", q)' => Told("failed", q)
        PROVE  /\ Told("completed", q)' => phase'[q] = "done" /\ IndexedBy(q)'
               /\ Told("failed", q)' => phase'[q] = "gaveUp"
    BY <1>t, <1>g, <1>e, <1>k, IndexedStays DEF OutcomeFacts
  <1>1. CASE told' = told BY <1>1, <1>k DEF OutcomeFacts, Told
  <1>2. ASSUME NEW r \in IndexRuns, TellProgress(r) PROVE OutcomeFacts'
    <2>1. \A q \in WithText : /\ Told("completed", q)' => Told("completed", q)
                              /\ Told("failed", q)' => Told("failed", q)
      BY <1>2 DEF TellProgress, Tell, Told
    <2> QED BY <1>k, <2>1 DEF OutcomeFacts
  <1>3. ASSUME NEW r \in IndexRuns, TellCompleted(r) PROVE OutcomeFacts'
    <2>1. \A q \in WithText : /\ q # r => (Told("completed", q)' => Told("completed", q))
                              /\ Told("failed", q)' => Told("failed", q)
      BY <1>3 DEF TellCompleted, Tell, Told
    <2>2. CASE r \in WithText
      <3>1. phase[r] = "completed" /\ RunFact(r) BY <1>3, <2>2 DEF TellCompleted, RunFacts, RunFact
      <3>2. phase'[r] = "done" BY <1>3, <3>1, RunMoves DEF TellCompleted
      <3>3. Batch(r) \in Batches /\ Batch(r)[1] = r BY DEF Batch, Batches, IndexingTypeOK
      <3>4. Complete(Batch(r)) BY <3>1 DEF RunFact, Chunked, Embedded, Complete, Stores
      <3>5. IndexedBy(r)' BY <1>g, <3>3, <3>4, IndexedStays DEF IndexedBy
      <3>6. ~Told("failed", r)' BY <2>1, <2>2, <3>1 DEF OutcomeFacts
      <3> QED BY <1>k, <2>1, <3>2, <3>5, <3>6 DEF OutcomeFacts
    <2>3. CASE r \notin WithText BY <1>k, <2>1, <2>3 DEF OutcomeFacts
    <2> QED BY <2>2, <2>3
  <1>4. ASSUME NEW r \in IndexRuns, TellFailed(r) PROVE OutcomeFacts'
    <2>1. \A q \in WithText : /\ Told("completed", q)' => Told("completed", q)
                              /\ q # r => (Told("failed", q)' => Told("failed", q))
      BY <1>4 DEF TellFailed, Tell, Told
    <2>2. phase[r] = "failed" /\ phase'[r] = "gaveUp" BY <1>4, RunMoves DEF TellFailed
    <2>3. r \in WithText => ~Told("completed", r)' BY <2>1, <2>2 DEF OutcomeFacts
    <2> QED BY <1>k, <2>1, <2>2, <2>3 DEF OutcomeFacts
  <1> QED BY <1>1, <1>2, <1>3, <1>4 DEF IndexingNext, indexVars, BeginRun, MarkChunking, SaveChunks,
        MarkIndexing, Embed, SaveEmbeddings, MarkReady, AttemptRejects, MarkError, MarkErrorRejects,
        WriteLands, WriteRejects, IndexerCrash

-----------------------------------------------------------------------------
(* What a step of run r leaves of the documents' facts: it stays on its way *)
(* to set the status, or the status is settled, or it was not counted on.   *)
Answerable(r) ==
    \/ phase'[r] \in Unset
    \/ docStatus'[DocOfRun[r]] \in {"ready", "error"}
    \/ phase[r] \notin Unset \cup {"waiting"} /\ docStatus' = docStatus

(* A step of one run keeps what the rows of the documents say.              *)
LEMMA DocumentsKeep ==
    ASSUME IndexingTypeOK, DocumentFacts, StoredGrows, NEW r \in IndexRuns, OnlyRun(r),
           \A d \in IndexedDocs \ {DocOfRun[r]} : docStatus'[d] = docStatus[d],
           \A d \in IndexedDocs : chunkCount'[d] = chunkCount[d] \/ chunkCount'[d] = 0 \/ IndexedDoc(d),
           Answerable(r)
    PROVE  DocumentFacts'
  <1> SUFFICES ASSUME NEW d \in IndexedDocs
               PROVE  /\ chunkCount'[d] > 0 => IndexedDoc(d)'
                      /\ docStatus'[d] \notin {"ready", "error"} /\ Begun(d)' => Pending(d)'
    BY DEF DocumentFacts
  <1>1. chunkCount'[d] > 0 => IndexedDoc(d)' BY IndexedStays DEF DocumentFacts
  <1>2. docStatus'[d] \notin {"ready", "error"} /\ Begun(d)' => Pending(d)'
    <2>1. CASE d # DocOfRun[r] BY <2>1 DEF DocumentFacts, Begun, Pending, OnlyRun
    <2>2. CASE d = DocOfRun[r] /\ phase'[r] \in Unset BY <2>2 DEF Pending
    <2>3. CASE d = DocOfRun[r] /\ docStatus'[d] \in {"ready", "error"} BY <2>3
    <2>4. CASE d = DocOfRun[r] /\ phase[r] \notin Unset \cup {"waiting"} /\ docStatus' = docStatus
      <3>1. Begun(d) BY <2>4 DEF Begun
      <3>2. Pending(d) => Pending(d)' BY <2>4 DEF Pending, OnlyRun
      <3> QED BY <2>4, <3>1, <3>2 DEF DocumentFacts
    <2> QED BY <2>1, <2>2, <2>3, <2>4 DEF Answerable
  <1> QED BY <1>1, <1>2

(* Every step keeps what the rows of the documents say.                     *)
LEMMA DocumentFactsStep ==
    IndexingTypeOK /\ RunFacts /\ DocumentFacts /\ [IndexingNext]_indexVars => DocumentFacts'
  <1> SUFFICES ASSUME IndexingTypeOK, RunFacts, DocumentFacts, [IndexingNext]_indexVars
               PROVE  DocumentFacts'
    OBVIOUS
  <1>g. StoredGrows BY StoresGrow
  <1>k. ASSUME NEW r \in IndexRuns, OnlyRun(r), docStatus' = docStatus, chunkCount' = chunkCount,
               phase'[r] \in Unset \/ phase[r] \notin Unset \cup {"waiting"}
        PROVE  DocumentFacts'
    BY <1>g, <1>k, DocumentsKeep DEF Answerable
  <1>s. ASSUME NEW r \in IndexRuns, OnlyRun(r), NEW st, SetStatus(r, st), chunkCount' = chunkCount,
               phase'[r] \in Unset \/ st \in {"ready", "error"}
        PROVE  DocumentFacts'
    <2>1. DocOfRun[r] \in IndexedDocs BY IndexingConstants DEF IndexingAssumption
    <2>2. /\ docStatus'[DocOfRun[r]] = st
          /\ \A d \in IndexedDocs \ {DocOfRun[r]} : docStatus'[d] = docStatus[d]
      BY <1>s, <2>1 DEF SetStatus, IndexingTypeOK
    <2> QED BY <1>g, <1>s, <2>2, DocumentsKeep DEF Answerable
  <1> USE RunMoves DEF Unset, Attempting
  <1>1. ASSUME NEW r \in IndexRuns, BeginRun(r) PROVE DocumentFacts' BY <1>1, <1>k DEF BeginRun
  <1>2. ASSUME NEW r \in IndexRuns, MarkChunking(r) PROVE DocumentFacts'
    BY <1>2, <1>s DEF MarkChunking
  <1>3. ASSUME NEW r \in IndexRuns, SaveChunks(r) PROVE DocumentFacts' BY <1>3, <1>k DEF SaveChunks
  <1>4. ASSUME NEW r \in IndexRuns, MarkIndexing(r) PROVE DocumentFacts'
    BY <1>4, <1>s DEF MarkIndexing
  <1>5. ASSUME NEW r \in IndexRuns, Embed(r) PROVE DocumentFacts' BY <1>5, <1>k DEF Embed
  <1>6. ASSUME NEW r \in IndexRuns, SaveEmbeddings(r) PROVE DocumentFacts'
    BY <1>6, <1>k DEF SaveEmbeddings
  <1>7. ASSUME NEW r \in IndexRuns, MarkReady(r) PROVE DocumentFacts'
    <2>1. DocOfRun[r] \in IndexedDocs BY IndexingConstants DEF IndexingAssumption
    <2>2. /\ docStatus'[DocOfRun[r]] = "ready" /\ OnlyRun(r)
          /\ \A d \in IndexedDocs \ {DocOfRun[r]} : docStatus'[d] = docStatus[d]
      BY <1>7, <2>1 DEF MarkReady, SetStatus, IndexingTypeOK
    <2>3. phase[r] = "ready" => IndexedDoc(DocOfRun[r])
      <3> SUFFICES ASSUME phase[r] = "ready" PROVE IndexedDoc(DocOfRun[r]) OBVIOUS
      <3>1. Batch(r) \in Batches /\ Batch(r)[1] = r BY DEF Batch, Batches, IndexingTypeOK
      <3>2. Complete(Batch(r)) BY DEF RunFacts, RunFact, Chunked, Embedded, Complete, Stores
      <3> QED BY <3>1, <3>2 DEF IndexedDoc
    <2>4. \A d \in IndexedDocs : chunkCount'[d] = chunkCount[d] \/ chunkCount'[d] = 0 \/ IndexedDoc(d)
      BY <1>7, <2>1, <2>3 DEF MarkReady, IndexingTypeOK
    <2> QED BY <1>g, <2>2, <2>4, DocumentsKeep DEF Answerable
  <1>8. ASSUME NEW r \in IndexRuns, AttemptRejects(r) PROVE DocumentFacts'
    BY <1>8, <1>k DEF AttemptRejects
  <1>9. ASSUME NEW r \in IndexRuns, TellProgress(r) PROVE DocumentFacts' BY <1>9, <1>k DEF TellProgress
  <1>10. ASSUME NEW r \in IndexRuns, TellCompleted(r) PROVE DocumentFacts'
    BY <1>10, <1>k DEF TellCompleted
  <1>11. ASSUME NEW r \in IndexRuns, MarkError(r) PROVE DocumentFacts' BY <1>11, <1>s DEF MarkError
  <1>12. ASSUME NEW r \in IndexRuns, MarkErrorRejects(r) PROVE DocumentFacts'
    BY <1>12, <1>k DEF MarkErrorRejects
  <1>13. ASSUME NEW r \in IndexRuns, TellFailed(r) PROVE DocumentFacts' BY <1>13, <1>k DEF TellFailed
  <1>u. ASSUME UNCHANGED <<phase, docStatus, chunkCount>> PROVE DocumentFacts'
    BY <1>g, <1>u, IndexedStays DEF DocumentFacts, Begun, Pending
  <1>14. ASSUME NEW s \in Indexes, NEW b \in Batches, WriteLands(s, b) \/ WriteRejects(s, b)
         PROVE  DocumentFacts'
    <2>1. b[1] \in IndexRuns BY DEF Batches
    <2>2. UNCHANGED <<docStatus, chunkCount>> BY <1>14 DEF WriteLands, WriteRejects
    <2>3. UNCHANGED <<phase, tries>> \/ Goes(b[1], "ready") \/ TryAgain(b[1])
      BY <1>14 DEF WriteLands, WriteRejects
    <2> QED BY <1>k, <1>u, <2>1, <2>2, <2>3
  <1>15. CASE IndexerCrash
    <2>1. \A r \in IndexRuns : /\ phase'[r] = "waiting" <=> phase[r] = "waiting"
                               /\ phase[r] \in Unset => phase'[r] \in Unset
      BY <1>15 DEF IndexerCrash, RunEnded
    <2>2. UNCHANGED <<docStatus, chunkCount>> BY <1>15 DEF IndexerCrash
    <2> QED BY <1>g, <2>1, <2>2, IndexedStays DEF DocumentFacts, Begun, Pending
  <1>16. CASE UNCHANGED indexVars BY <1>16, <1>u DEF indexVars
  <1>17. \A w \in writing : w[1] \in Indexes /\ w[2] \in Batches BY DEF IndexingTypeOK
  <1> QED BY <1>1, <1>2, <1>3, <1>4, <1>5, <1>6, <1>7, <1>8, <1>9, <1>10, <1>11, <1>12, <1>13, <1>14,
             <1>15, <1>16, <1>17 DEF IndexingNext

-----------------------------------------------------------------------------
(* The invariant holds initially.                                           *)
LEMMA IndexingInvInitial == IndexingInit => IndexingInv
  <1> SUFFICES ASSUME IndexingInit PROVE IndexingInv OBVIOUS
  <1>1. IndexingTypeOK BY IndexingConstants DEF IndexingAssumption, IndexingInit, IndexingTypeOK
  <1>2. RunFacts BY DEF IndexingInit, RunFacts, RunFact, Chunked, Embedded
  <1>3. OutcomeFacts BY DEF IndexingInit, OutcomeFacts, Told
  <1>4. DocumentFacts BY DEF IndexingInit, DocumentFacts, Begun
  <1> QED BY <1>1, <1>2, <1>3, <1>4 DEF IndexingInv

(* Whatever fails, is retried or runs beside it, a run has stored what the  *)
(* phase it is at says, and a document on its way has a run to answer for.  *)
THEOREM IndexingInvariant == IndexingSpec => []IndexingInv
  <1>1. IndexingInv /\ [IndexingNext]_indexVars => IndexingInv'
    BY IndexingTyped, RunFactsStep, OutcomeFactsStep, DocumentFactsStep DEF IndexingInv
  <1> QED BY <1>1, IndexingInvInitial, PTL DEF IndexingSpec

(* Type correctness of the indexing worker, for any runs, documents and     *)
(* numbers of retries and faults.                                           *)
THEOREM IndexingTypes == IndexingSpec => []IndexingTypeOK
  BY IndexingInvariant, PTL DEF IndexingInv

(* A document that is ready with chunks, and a run with text announced as   *)
(* completed, have an attempt all of whose chunks, embeddings, vectors and  *)
(* keywords are in their stores (updateDocumentStatus(ready) in             *)
(* indexDocument), however runs overlap and calls are retried.              *)
THEOREM ReadyDocumentsAreIndexed == IndexingSpec => []ReadyIsIndexed
  <1>1. IndexingInv => ReadyIsIndexed
    BY DEF IndexingInv, OutcomeFacts, DocumentFacts, IndexedBy, IndexedDoc, ReadyIsIndexed
  <1> QED BY <1>1, IndexingInvariant, PTL

(* When the runs on a document have ended its status is ready or error, and *)
(* no run with text is announced both as completed and as failed (the try   *)
(* and catch blocks of indexDocument).                                      *)
THEOREM OutcomesAreSettled == IndexingSpec => []OutcomeIsSettled
  <1>1. IndexingInv => SettledStatus
    <2> SUFFICES ASSUME IndexingInv, NEW d \in IndexedDocs,
                        \A r \in IndexRuns : DocOfRun[r] = d /\ phase[r] # "waiting"
                                                => phase[r] \in {"done", "gaveUp"},
                        Begun(d)
                 PROVE  docStatus[d] \in {"ready", "error"}
      BY DEF SettledStatus, Begun
    <2>1. ~Pending(d) BY DEF Pending, Unset, Attempting
    <2> QED BY <2>1 DEF IndexingInv, DocumentFacts
  <1>2. IndexingInv => OutcomeIsUnique BY DEF IndexingInv, OutcomeFacts, OutcomeIsUnique
  <1> QED BY <1>1, <1>2, IndexingInvariant, PTL DEF OutcomeIsSettled

-----------------------------------------------------------------------------
(***************************************************************************)
(* Chunker.  What the loops keep is said of pieces of the text, which are    *)
(* runs of positions: cutting a piece and joining two neighbours makes       *)
(* pieces, and the merged splits and the chunks move on in the text.         *)
(***************************************************************************)
IsPiece(s, n) == /\ s \in Seq(1..n) /\ s # <<>>
                 /\ \A i \in 1..Len(s) : s[i] = s[1] + i - 1

(* Pieces of at most max characters, each beginning behind the one before,   *)
(* or right behind it.                                                       *)
Pieces(list, n, max) ==
    /\ list \in Seq(Seq(1..n))
    /\ \A k \in 1..Len(list) : IsPiece(list[k], n) /\ Len(list[k]) <= max
Rising(list) == \A k \in 1..(Len(list) - 1) : list[k][Len(list[k])] < list[k + 1][1]
Adjacent(list) == \A k \in 1..(Len(list) - 1) : list[k + 1][1] = list[k][Len(list[k])] + 1
Ending(list) == list[Len(list)][Len(list[Len(list)])]

LEMMA PieceFacts ==
    ASSUME NEW n \in Nat, NEW s, IsPiece(s, n)
    PROVE  /\ s \in Seq(1..n) /\ Len(s) \in Nat \ {0} /\ s[1] \in 1..n
           /\ s[Len(s)] = s[1] + Len(s) - 1 /\ s[Len(s)] \in 1..n
           /\ Head(s) = s[1] /\ Last(s) = s[Len(s)]
           /\ Contiguous(s)
<1>1. s \in Seq(1..n) /\ s # <<>> /\ Len(s) \in Nat \ {0} /\ \A i \in 1..Len(s) : s[i] \in 1..n
    BY DEF IsPiece
<1>2. \A i \in 1..Len(s) : s[i] = s[1] + i - 1  BY DEF IsPiece
<1>3. 1 \in 1..Len(s) /\ Len(s) \in 1..Len(s)  BY <1>1
<1>4. Head(s) = s[1] /\ Last(s) = s[Len(s)]  BY <1>1 DEF Last
<1>5. Contiguous(s)
  <2> SUFFICES ASSUME NEW k \in 1..(Len(s) - 1) PROVE s[k + 1] = s[k] + 1
      BY DEF Contiguous
  <2>1. k \in 1..Len(s) /\ k + 1 \in 1..Len(s)  BY <1>1
  <2>2. s[k] = s[1] + k - 1 /\ s[k + 1] = s[1] + (k + 1) - 1  BY <2>1, <1>2
  <2>3. s[1] \in Int /\ k \in Int  BY <1>1, <1>3
  <2>. QED  BY <2>2, <2>3
<1>. QED  BY <1>1, <1>2, <1>3, <1>4, <1>5

LEMMA PieceCut ==
    ASSUME NEW n \in Nat, NEW s, IsPiece(s, n), NEW i \in 1..Len(s), NEW j \in i..Len(s)
    PROVE  /\ IsPiece(SubSeq(s, i, j), n)
           /\ Len(SubSeq(s, i, j)) = j - i + 1
           /\ SubSeq(s, i, j)[1] = s[i]
           /\ SubSeq(s, i, j)[Len(SubSeq(s, i, j))] = s[j]
<1>1. s \in Seq(1..n) /\ s # <<>> /\ Len(s) \in Nat \ {0} /\ \A k \in 1..Len(s) : s[k] \in 1..n
    BY DEF IsPiece
<1>2. \A k \in 1..Len(s) : s[k] = s[1] + k - 1  BY DEF IsPiece
<1> DEFINE t == SubSeq(s, i, j)
<1>3. /\ Len(t) = j - i + 1
      /\ \A k \in 1..(j - i + 1) : t[k] = s[i + k - 1]
    BY <1>1, SubSeqProperties
<1>4. t \in Seq(1..n)  BY <1>1, PartOfSequence
<1> HIDE DEF t
<1>5. \A k \in 1..Len(t) : i + k - 1 \in 1..Len(s) /\ t[k] = s[i + k - 1]  BY <1>1, <1>3
<1>6. 1 \in 1..Len(t) /\ Len(t) \in 1..Len(t) /\ t[1] = s[i] /\ t[Len(t)] = s[j]
    BY <1>1, <1>3, <1>5
<1>7. ASSUME NEW k \in 1..Len(t) PROVE t[k] = t[1] + k - 1
  <2>1. t[k] = s[1] + (i + k - 1) - 1 /\ t[1] = s[1] + i - 1
      BY <1>1, <1>2, <1>5, <1>6
  <2>2. s[1] \in Int /\ k \in Int /\ i \in Int  BY <1>1
  <2>. QED  BY <2>1, <2>2
<1>8. t # <<>>  BY <1>3
<1>. QED  BY <1>3, <1>4, <1>6, <1>7, <1>8 DEF IsPiece, t

Cat(s, t) == s \o t
JoinedPiece(s, t, u, n) ==
    /\ IsPiece(u, n) /\ Len(u) = Len(s) + Len(t)
    /\ u[1] = s[1] /\ u[Len(u)] = t[Len(t)]

LEMMA PieceJoin ==
    ASSUME NEW n \in Nat, NEW s, NEW t, IsPiece(s, n), IsPiece(t, n), t[1] = s[Len(s)] + 1
    PROVE  JoinedPiece(s, t, Cat(s, t), n)
<1>7. PICK u : u = Cat(s, t)  OBVIOUS
<1>1. /\ s \in Seq(1..n) /\ Len(s) \in Nat \ {0} /\ t \in Seq(1..n) /\ Len(t) \in Nat \ {0}
      /\ s[1] \in 1..n /\ t[1] \in 1..n /\ s[Len(s)] = s[1] + Len(s) - 1
    BY PieceFacts
<1>2. /\ \A k \in 1..Len(s) : s[k] = s[1] + k - 1
      /\ \A k \in 1..Len(t) : t[k] = t[1] + k - 1
    BY DEF IsPiece
<1>3. /\ u \in Seq(1..n) /\ Len(u) = Len(s) + Len(t)
      /\ \A k \in 1..Len(u) : u[k] = IF k <= Len(s) THEN s[k] ELSE t[k - Len(s)]
    BY <1>1, <1>7 DEF Cat
<1>4. 1 \in 1..Len(u) /\ Len(u) \in 1..Len(u) /\ u # <<>>  BY <1>1, <1>3
<1>5. u[1] = s[1] /\ u[Len(u)] = t[Len(t)]
  <2>1. u[1] = s[1]  BY <1>4, <1>3, <1>1
  <2>2. Len(u) - Len(s) = Len(t) /\ ~(Len(u) <= Len(s))  BY <1>3, <1>1
  <2>. QED  BY <2>1, <2>2, <1>3, <1>4
<1>6. ASSUME NEW k \in 1..Len(u) PROVE u[k] = u[1] + k - 1
  <2>1. CASE k <= Len(s)
    <3>1. k \in 1..Len(s) /\ u[k] = s[k]  BY <2>1, <1>1, <1>3
    <3>. QED  BY <3>1, <1>2, <1>5
  <2>2. CASE ~(k <= Len(s))
    <3>1. k - Len(s) \in 1..Len(t) /\ u[k] = t[k - Len(s)]  BY <2>2, <1>1, <1>3
    <3>2. u[k] = t[1] + (k - Len(s)) - 1  BY <3>1, <1>2
    <3>4. s[1] \in Int /\ Len(s) \in Int /\ k \in Int
      <4>1. s[1] \in Int /\ Len(s) \in Int  BY <1>1
      <4>2. Len(u) \in Int  BY <1>3
      <4>. QED  BY <4>1, <4>2
    <3>3. t[1] = s[1] + Len(s)
      <4>1. t[1] = s[Len(s)] + 1 /\ s[Len(s)] = s[1] + Len(s) - 1  BY <1>1
      <4>. QED  BY <4>1, <3>4
    <3>. QED  BY <3>2, <3>3, <3>4, <1>5
  <2>. QED  BY <2>1, <2>2
<1>. QED  BY <1>3, <1>4, <1>5, <1>6, <1>7 DEF IsPiece, JoinedPiece

-----------------------------------------------------------------------------
(* Lists of pieces.                                                         *)
More(list, s) == Append(list, s)
WithLast(list, s) == [list EXCEPT ![Len(list)] = s]

LEMMA AddPiece ==
    ASSUME NEW n \in Nat, NEW max \in Nat, NEW list, NEW s,
           Pieces(list, n, max), IsPiece(s, n), Len(s) <= max, NEW t, t = More(list, s)
    PROVE  /\ Pieces(t, n, max) /\ t # <<>> /\ Len(t) = Len(list) + 1
           /\ t[1] = IF list = <<>> THEN s ELSE list[1]
           /\ Ending(t) = s[Len(s)]
           /\ Rising(list) /\ (list # <<>> => Ending(list) < s[1]) => Rising(t)
           /\ Adjacent(list) /\ (list # <<>> => s[1] = Ending(list) + 1) => Adjacent(t)
<1>1. /\ list \in Seq(Seq(1..n)) /\ Len(list) \in Nat /\ s \in Seq(1..n)
      /\ \A k \in 1..Len(list) : IsPiece(list[k], n) /\ Len(list[k]) <= max
    BY SMTT(30) DEF Pieces, IsPiece
<1>2. /\ t \in Seq(Seq(1..n)) /\ Len(t) = Len(list) + 1 /\ t[Len(list) + 1] = s
      /\ \A k \in 1..Len(list) : t[k] = list[k]
    BY <1>1, AppendProperties DEF More
<1>3. list = <<>> <=> Len(list) = 0  BY <1>1
<1>4. \A k \in 1..Len(t) : k \in 1..Len(list) \/ k = Len(list) + 1  BY <1>1, <1>2
<1>5. Pieces(t, n, max)  BY <1>1, <1>2, <1>4 DEF Pieces
<1>6. t # <<>> /\ t[1] = IF list = <<>> THEN s ELSE list[1]
  <2>1. CASE list = <<>>  BY <2>1, <1>2, <1>3
  <2>2. CASE list # <<>>
    <3>1. 1 \in 1..Len(list)  BY <2>2, <1>1, <1>3
    <3>2. t[1] = list[1] /\ Len(t) \in Nat \ {0}  BY <3>1, <1>1, <1>2
    <3>. QED  BY <2>2, <3>2, <1>2, EmptySeq
  <2>. QED  BY <2>1, <2>2
<1>7. Ending(t) = s[Len(s)]  BY <1>2 DEF Ending
<1>8. ASSUME NEW k \in 1..(Len(t) - 1)
      PROVE  /\ t[k] = list[k]
             /\ k \in 1..(Len(list) - 1) => t[k + 1] = list[k + 1]
             /\ k \notin 1..(Len(list) - 1) => list # <<>> /\ k = Len(list) /\ t[k + 1] = s
  <2>1. k \in 1..Len(list)  BY <1>1, <1>2
  <2>2. k \in 1..(Len(list) - 1) => k + 1 \in 1..Len(list)  BY <1>1
  <2>3. k \notin 1..(Len(list) - 1) => k = Len(list)  BY <2>1, <1>1
  <2>. QED  BY SMTT(30), <2>1, <2>2, <2>3, <1>2, <1>3, <1>1
<1>9. ASSUME Rising(list), list # <<>> => Ending(list) < s[1] PROVE Rising(t)
    BY <1>8, <1>9 DEF Rising, Ending
<1>10. ASSUME Adjacent(list), list # <<>> => s[1] = Ending(list) + 1 PROVE Adjacent(t)
    BY <1>8, <1>10 DEF Adjacent, Ending
<1>. QED  BY <1>2, <1>5, <1>6, <1>7, <1>9, <1>10

LEMMA FirstPiece ==
    ASSUME NEW n \in Nat, NEW max \in Nat, NEW list, Pieces(list, n, max), list # <<>>
    PROVE  /\ Len(list) \in Nat \ {0}
           /\ IsPiece(list[1], n) /\ Len(list[1]) <= max /\ Head(list) = list[1]
           /\ IsPiece(list[Len(list)], n) /\ Len(list[Len(list)]) <= max
           /\ Last(list) = list[Len(list)] /\ Last(Last(list)) = Ending(list) /\ Ending(list) \in 1..n
<1>1. /\ list \in Seq(Seq(1..n)) /\ Len(list) \in Nat \ {0}
      /\ \A k \in 1..Len(list) : IsPiece(list[k], n) /\ Len(list[k]) <= max
    BY DEF Pieces
<1>2. 1 \in 1..Len(list) /\ Len(list) \in 1..Len(list)  BY <1>1
<1>3. IsPiece(list[1], n) /\ Len(list[1]) <= max  BY <1>1, <1>2
<1>4. IsPiece(list[Len(list)], n) /\ Len(list[Len(list)]) <= max  BY <1>1, <1>2
<1>5. Head(list) = list[1] /\ Last(list) = list[Len(list)]  BY <1>1 DEF Last
<1>6. Last(list[Len(list)]) = Ending(list) /\ Ending(list) \in 1..n
    BY <1>4, PieceFacts DEF Ending
<1>. QED  BY <1>1, <1>3, <1>4, <1>5, <1>6

LEMMA OtherPieces ==
    ASSUME NEW n \in Nat, NEW max \in Nat, NEW list, Pieces(list, n, max), list # <<>>
    PROVE  /\ Pieces(Tail(list), n, max) /\ Len(Tail(list)) = Len(list) - 1
           /\ Tail(list) = <<>> <=> Len(list) = 1
           /\ Len(list) # 1 => Ending(Tail(list)) = Ending(list)
           /\ Rising(list) => Rising(Tail(list))
           /\ Rising(list) /\ Len(list) # 1 => list[1][Len(list[1])] < Tail(list)[1][1]
           /\ Adjacent(list) => Adjacent(Tail(list))
           /\ Adjacent(list) /\ Len(list) # 1 => Tail(list)[1][1] = list[1][Len(list[1])] + 1
<1>1. /\ list \in Seq(Seq(1..n)) /\ Len(list) \in Nat \ {0}
      /\ \A k \in 1..Len(list) : IsPiece(list[k], n) /\ Len(list[k]) <= max
    BY DEF Pieces
<1> DEFINE t == Tail(list)
<1>2. /\ t \in Seq(Seq(1..n)) /\ Len(t) = Len(list) - 1
      /\ \A k \in 1..Len(t) : t[k] = list[k + 1]
    BY <1>1
<1> HIDE DEF t
<1>3. t = <<>> <=> Len(list) = 1
  <2>1. t = <<>> <=> Len(t) = 0  BY <1>2, EmptySeq
  <2>2. Len(t) = 0 <=> Len(list) = 1  BY <1>1, <1>2
  <2>. QED  BY <2>1, <2>2
<1>4. \A k \in 1..Len(t) : k + 1 \in 1..Len(list)  BY <1>1, <1>2
<1>5. Pieces(t, n, max)  BY <1>1, <1>2, <1>4 DEF Pieces
<1>6. ASSUME NEW k \in 1..(Len(t) - 1)
      PROVE  k + 1 \in 1..(Len(list) - 1) /\ t[k] = list[k + 1] /\ t[k + 1] = list[(k + 1) + 1]
  <2>1. k \in 1..Len(t) /\ k + 1 \in 1..Len(t)  BY <1>1, <1>2
  <2>. QED  BY <2>1, <1>1, <1>2
<1>7. Rising(list) => Rising(t)  BY <1>6 DEF Rising
<1>8. Adjacent(list) => Adjacent(t)  BY <1>6 DEF Adjacent
<1>9. ASSUME Len(list) # 1
      PROVE  /\ Ending(t) = Ending(list)
             /\ Rising(list) => list[1][Len(list[1])] < t[1][1]
             /\ Adjacent(list) => t[1][1] = list[1][Len(list[1])] + 1
  <2>1. 1 \in 1..(Len(list) - 1) /\ 1 \in 1..Len(t) /\ Len(t) \in 1..Len(t) /\ Len(t) + 1 = Len(list)
      BY <1>1, <1>2, <1>9
  <2>2. t[1] = list[1 + 1] /\ t[Len(t)] = list[Len(list)]  BY <2>1, <1>2
  <2>. QED  BY <2>1, <2>2 DEF Ending, Rising, Adjacent
<1>. QED  BY <1>2, <1>3, <1>5, <1>7, <1>8, <1>9 DEF t

LEMMA LastPiece ==
    ASSUME NEW n \in Nat, NEW max \in Nat, NEW list, NEW s,
           Pieces(list, n, max), list # <<>>, IsPiece(s, n), Len(s) <= max,
           s[1] >= list[Len(list)][1], Rising(list),
           NEW t, t = WithLast(list, s)
    PROVE  Pieces(t, n, max) /\ t # <<>> /\ Ending(t) = s[Len(s)] /\ Rising(t)
<1>1. /\ list \in Seq(Seq(1..n)) /\ Len(list) \in Nat \ {0} /\ s \in Seq(1..n)
      /\ \A k \in 1..Len(list) : IsPiece(list[k], n) /\ Len(list[k]) <= max
    BY DEF Pieces, IsPiece
<1>2. /\ t \in Seq(Seq(1..n)) /\ Len(t) = Len(list) /\ t[Len(list)] = s
      /\ \A k \in 1..Len(list) : k # Len(list) => t[k] = list[k]
    BY <1>1 DEF WithLast
<1>3. Pieces(t, n, max) /\ t # <<>> /\ Ending(t) = s[Len(s)]
    BY <1>1, <1>2 DEF Pieces, Ending
<1>4. ASSUME NEW k \in 1..(Len(t) - 1) PROVE t[k][Len(t[k])] < t[k + 1][1]
  <2>8. PICK l \in Nat \ {0} : l = Len(list)  BY <1>1
  <2>9. k \in 1..(l - 1)  BY <2>8, <1>2
  <2>10. k \in 1..l /\ k # l /\ k + 1 \in 1..l  BY <2>8, <2>9
  <2>1. /\ k \in 1..(Len(list) - 1) /\ k \in 1..Len(list) /\ k # Len(list) /\ k + 1 \in 1..Len(list)
        /\ t[k] = list[k]
      BY <2>8, <2>9, <2>10, <1>2
  <2>2. list[k][Len(list[k])] < list[k + 1][1]  BY <2>1 DEF Rising
  <2>3. CASE k + 1 # Len(list)
    <3>1. t[k + 1] = list[k + 1]  BY <2>1, <2>3, <1>2
    <3>. QED  BY <3>1, <2>1, <2>2
  <2>4. CASE k + 1 = Len(list)
    <3>1. t[k + 1] = s /\ list[k + 1][1] <= s[1]  BY <2>4, <1>2
    <3>2. IsPiece(list[k], n) /\ IsPiece(list[k + 1], n)  BY <2>1, <1>1
    <3>3. list[k][Len(list[k])] \in Int /\ list[k + 1][1] \in Int /\ s[1] \in Int
      <4>1. PICK p : p = list[k]  OBVIOUS
      <4>2. PICK q : q = list[k + 1]  OBVIOUS
      <4>3. p[Len(p)] \in 1..n /\ q[1] \in 1..n /\ s[1] \in 1..n
          BY <3>2, <4>1, <4>2, PieceFacts
      <4>. QED  BY <4>1, <4>2, <4>3
    <3>. QED  BY SMTT(30), <3>1, <3>3, <2>1, <2>2
  <2>. QED  BY <2>3, <2>4
<1>5. Rising(t)  BY <1>4 DEF Rising
<1>. QED  BY <1>3, <1>5

-----------------------------------------------------------------------------
(* What one iteration does with a piece: cut, overlapped, trimmed.           *)
LEMMA MinOfIndices ==
    ASSUME NEW n \in Nat, NEW S, S \subseteq 1..n, S # {}
    PROVE  Min(S) \in S /\ \A y \in S : Min(S) <= y
<1> DEFINE T == {n + 1 - x : x \in S}
<1>1. T \subseteq 1..n /\ T # {}
  <2>1. ASSUME NEW x \in S PROVE n + 1 - x \in 1..n  OBVIOUS
  <2>2. PICK x \in S : TRUE  OBVIOUS
  <2>. QED  BY <2>1, <2>2
<1>2. Max(T) \in T /\ \A y \in T : Max(T) >= y  BY <1>1, MaxOfIndices
<1>3. PICK x \in S : Max(T) = n + 1 - x  BY <1>2
<1>4. ASSUME NEW y \in S PROVE x <= y
  <2>1. n + 1 - y \in T  OBVIOUS
  <2>2. n + 1 - x >= n + 1 - y  BY <2>1, <1>2, <1>3
  <2>3. x \in Int /\ y \in Int  OBVIOUS
  <2>. QED  BY <2>2, <2>3
<1>5. \E z \in S : \A y \in S : z <= y  BY <1>4
<1>. QED  BY <1>5 DEF Min

LEMMA CutSize ==
    ASSUME NEW rest, NEW n \in Nat, rest \in Seq(1..n), ChunkerAssumption,
           chunking.options \in ChunkOptions, Len(rest) > chunking.options.maxChunkSize
    PROVE  SplitIndex(rest) \in 1..chunking.options.maxChunkSize
<1> DEFINE max == chunking.options.maxChunkSize
           last(k) == LastIndexOf(SubSeq(rest, 1, max), Separators[k])
           good == {k \in DOMAIN Separators : Separators[k] = <<>> \/ 10 * last(k) > 3 * max}
<1>1. max \in Nat \ {0} /\ Separators \in Seq(Seq(CharacterKinds))  BY DEF ChunkerAssumption
<1>2. Len(rest) \in Nat /\ SubSeq(rest, 1, max) \in Seq(1..n) /\ Len(SubSeq(rest, 1, max)) = max
  <2>1. Len(rest) \in Nat /\ max \in 0..Len(rest) /\ 1 \in 1..Len(rest) + 1  BY <1>1
  <2>2. SubSeq(rest, 1, max) \in Seq(1..n)  BY <2>1, PartOfSequence
  <2>3. Len(SubSeq(rest, 1, max)) = max
    <3>1. \A i \in 1..max : rest[i] \in 1..n  BY <2>1
    <3>. QED  BY <3>1, <2>1, <1>1, SubSeqProperties
  <2>. QED  BY <2>1, <2>2, <2>3
<1>3. CASE good = {} \/ Separators[Min(good)] = <<>>
    BY <1>1, <1>3 DEF SplitIndex
<1>4. CASE ~(good = {} \/ Separators[Min(good)] = <<>>)
  <2>1. good \subseteq 1..Len(Separators) /\ Len(Separators) \in Nat  BY SMTT(30), <1>1
  <2>2. Min(good) \in good  BY <2>1, <1>4, MinOfIndices
  <2>3. PICK k : k = Min(good)  OBVIOUS
  <2>4. k \in DOMAIN Separators /\ 10 * last(k) > 3 * max  BY <2>2, <2>3, <1>4
  <2>5. Separators[k] \in Seq(CharacterKinds) /\ Len(Separators[k]) \in Nat \ {0}
      BY <2>3, <2>4, <1>1, <1>4
  <2> DEFINE slice == SubSeq(rest, 1, max)
             sep == Separators[k]
             found == {i \in 0..(Len(slice) - Len(sep)) :
                          \A h \in DOMAIN sep : chunking.text[slice[i + h]] = sep[h]}
  <2>6. last(k) = Max({-1} \cup found)  BY DEF LastIndexOf
  <2>7. {-1} \cup found \subseteq -1..max
    <3>1. 0..(Len(slice) - Len(sep)) \subseteq -1..max  BY SMTT(30), <1>1, <1>2, <2>5
    <3>2. -1 \in -1..max  BY <1>1
    <3>. QED  BY <3>1, <3>2
  <2>8. IsFiniteSet({-1} \cup found)
    <3>1. PICK a \in Int : a = -1  OBVIOUS
    <3>2. max \in Int  BY <1>1
    <3>3. IsFiniteSet(a..max)  BY <3>2, FS_Interval
    <3>4. {-1} \cup found \subseteq a..max  BY <3>1, <2>7
    <3>. QED  BY <3>3, <3>4, FS_Subset
  <2>9. last(k) \in {-1} \cup found
    <3>1. {-1} \cup found \subseteq Int /\ {-1} \cup found # {}  BY <2>7
    <3> HIDE DEF found, slice, sep
    <3>. QED  BY <3>1, <2>6, <2>8, MaxOfIntegers
  <2>10. last(k) \in 0..(max - Len(sep)) /\ last(k) > 0
    <3>1. last(k) = -1 \/ last(k) \in 0..(max - Len(sep))  BY <2>9, <1>2
    <3> HIDE DEF last, sep, good, max
    <3>. QED  BY <3>1, <2>4, <1>1
  <2>11. SplitIndex(rest) = last(k) + Len(sep)  BY <1>4, <2>3 DEF SplitIndex
  <2>12. Len(sep) \in Nat \ {0}  BY <2>5
  <2> HIDE DEF last, max, sep, good
  <2>13. last(k) + Len(sep) \in 1..max  BY <2>10, <1>1, <2>12
  <2>. QED  BY <2>11, <2>13 DEF max
<1>. QED  BY <1>3, <1>4

LEMMA OverlapPiece ==
    ASSUME NEW n \in Nat, NEW p, IsPiece(p, n), NEW o \in Nat \ {0}
    PROVE  /\ IsPiece(LastCharacters(p, o), n)
           /\ LastCharacters(p, o)[1] >= p[1]
           /\ LastCharacters(p, o)[Len(LastCharacters(p, o))] = p[Len(p)]
<1>1. p \in Seq(1..n) /\ Len(p) \in Nat \ {0} /\ \A k \in 1..Len(p) : p[k] = p[1] + k - 1
    BY PieceFacts DEF IsPiece
<1>2. PICK m : m = Max({1, Len(p) - o + 1})  OBVIOUS
<1>3. m \in 1..Len(p)
  <2>1. {1, Len(p) - o + 1} \subseteq Int /\ {1, Len(p) - o + 1} # {}  BY <1>1
  <2>2. IsFiniteSet({1, Len(p) - o + 1})
    <3>1. IsFiniteSet({1} \cup {Len(p) - o + 1})  BY FS_Singleton, FS_Union
    <3>2. {1} \cup {Len(p) - o + 1} = {1, Len(p) - o + 1}  OBVIOUS
    <3>. QED  BY <3>1, <3>2
  <2>3. m \in {1, Len(p) - o + 1} /\ m >= 1  BY <2>1, <2>2, <1>2, MaxOfIntegers
  <2>. QED  BY <2>3, <1>1
<1>4. Len(p) \in m..Len(p)  BY <1>1, <1>3
<1>5. LastCharacters(p, o) = SubSeq(p, m, Len(p))  BY <1>2 DEF LastCharacters
<1>6. p[m] >= p[1]
  <2>1. p[m] = p[1] + m - 1 /\ p[1] \in Int  BY <1>1, <1>3, PieceFacts
  <2>. QED  BY <2>1, <1>3
<1>. QED  BY <1>3, <1>4, <1>5, <1>6, PieceCut

LEMMA TrimmedPiece ==
    ASSUME NEW n \in Nat, NEW s, IsPiece(s, n)
    PROVE  /\ Trim(s) = <<>> => \A k \in 1..Len(s) : ~Visible(s[k])
           /\ Trim(s) # <<>> =>
                /\ IsPiece(Trim(s), n) /\ Len(Trim(s)) <= Len(s)
                /\ Trim(s)[1] >= s[1] /\ Trim(s)[Len(Trim(s))] <= s[Len(s)]
                /\ Visible(Trim(s)[1]) /\ Visible(Trim(s)[Len(Trim(s))])
                /\ \A k \in 1..Len(s) :
                      Visible(s[k]) => s[k] \in Trim(s)[1]..Trim(s)[Len(Trim(s))]
<1>1. s \in Seq(1..n) /\ Len(s) \in Nat \ {0} /\ \A k \in 1..Len(s) : s[k] = s[1] + k - 1
    BY PieceFacts DEF IsPiece
<1>2. s[1] \in Int /\ s[Len(s)] = s[1] + Len(s) - 1  BY PieceFacts
<1>3. PICK V : V = {k \in DOMAIN s : Visible(s[k])}  OBVIOUS
<1>4. V \subseteq 1..Len(s) /\ \A k \in 1..Len(s) : k \in V <=> Visible(s[k])  BY <1>1, <1>3
<1>5. CASE V = {}
  <2>1. Trim(s) = <<>>  BY <1>3, <1>5 DEF Trim
  <2>. QED  BY <2>1, <1>4, <1>5
<1>6. CASE V # {}
  <2>1. PICK i : i = Min(V)  OBVIOUS
  <2>2. PICK j : j = Max(V)  OBVIOUS
  <2>3. i \in V /\ \A k \in V : i <= k  BY <2>1, <1>1, <1>4, <1>6, MinOfIndices
  <2>4. j \in V /\ \A k \in V : j >= k  BY <2>2, <1>1, <1>4, <1>6, MaxOfIndices
  <2>5. i \in 1..Len(s) /\ j \in i..Len(s)  BY <2>3, <2>4, <1>1, <1>4
  <2>6. Trim(s) = SubSeq(s, i, j)  BY <2>1, <2>2, <1>3, <1>6 DEF Trim
  <2>7. /\ IsPiece(Trim(s), n) /\ Len(Trim(s)) = j - i + 1
        /\ Trim(s)[1] = s[i] /\ Trim(s)[Len(Trim(s))] = s[j]
      BY <2>5, <2>6, PieceCut
  <2>8. Visible(s[i]) /\ Visible(s[j])  BY <2>3, <2>4, <2>5, <1>1, <1>4
  <2>9. s[i] = s[1] + i - 1 /\ s[j] = s[1] + j - 1  BY <2>5, <1>1
  <2>10. ASSUME NEW k \in 1..Len(s), Visible(s[k]) PROVE s[k] \in s[i]..s[j]
    <3>1. i <= k /\ k <= j  BY <2>3, <2>4, <2>10, <1>4
    <3>2. s[k] = s[1] + k - 1  BY <1>1
    <3>. QED  BY SMTT(30), <3>1, <3>2, <2>5, <2>9, <1>2
  <2>11. Len(Trim(s)) <= Len(s) /\ s[i] >= s[1] /\ s[j] <= s[Len(s)]
    <3>1. i \in Int /\ j \in Int /\ Len(s) \in Int /\ 1 <= i /\ i <= j /\ j <= Len(s)
        BY <2>5, <1>1
    <3>. QED  BY SMTT(30), <3>1, <2>7, <2>9, <1>2
  <2>12. Trim(s) # <<>>  BY <2>7 DEF IsPiece
  <2>. QED  BY <2>7, <2>8, <2>10, <2>11, <2>12
<1>. QED  BY <1>5, <1>6

-----------------------------------------------------------------------------
(* The chunks that are out: SoundChunks is what ChunksAreSound says of them. *)
Seen(text, i) == text[i] \notin {"space", "line"}
ChunkRecords(n) == [sequence_number : Nat, text : Seq(1..n)]
ChunkIsSound(chunk, k, text, n, max) ==
    /\ chunk.sequence_number = k - 1 /\ IsPiece(chunk.text, n) /\ Len(chunk.text) <= max
    /\ Seen(text, chunk.text[1]) /\ Seen(text, chunk.text[Len(chunk.text)])
SoundChunks(list, text, n, max) ==
    /\ list \in Seq(ChunkRecords(n))
    /\ \A k \in 1..Len(list) : ChunkIsSound(list[k], k, text, n, max)
    /\ \A k \in 1..(Len(list) - 1) : list[k].text[Len(list[k].text)] < list[k + 1].text[1]
NewChunk(list, t) == [sequence_number |-> Len(list), text |-> t]
ChunksEnd(list) == list[Len(list)].text[Len(list[Len(list)].text)]
Covers(list, i) == \E k \in 1..Len(list) : i \in list[k].text[1]..list[k].text[Len(list[k].text)]
Beyond(list, t) == list # <<>> => ChunksEnd(list) < t[1]
CoversMore(list, t, new) ==
    \A i : Covers(list, i) \/ i \in t[1]..t[Len(t)] => Covers(new, i)

LEMMA NoChunks ==
    ASSUME NEW n \in Nat, NEW max, NEW text
    PROVE  SoundChunks(<<>>, text, n, max)
BY DEF SoundChunks

LEMMA AddChunk ==
    ASSUME NEW n \in Nat, NEW max \in Nat, NEW text, NEW list, NEW t,
           SoundChunks(list, text, n, max), IsPiece(t, n), Len(t) <= max,
           Seen(text, t[1]), Seen(text, t[Len(t)]),
           Beyond(list, t),
           NEW new, new = More(list, NewChunk(list, t))
    PROVE  /\ SoundChunks(new, text, n, max) /\ new # <<>> /\ ChunksEnd(new) = t[Len(t)]
           /\ CoversMore(list, t, new)
<1> DEFINE r == NewChunk(list, t)
<1>1. /\ list \in Seq(ChunkRecords(n)) /\ Len(list) \in Nat /\ t \in Seq(1..n)
      /\ \A k \in 1..Len(list) : ChunkIsSound(list[k], k, text, n, max)
      /\ \A k \in 1..(Len(list) - 1) : list[k].text[Len(list[k].text)] < list[k + 1].text[1]
  <2>1. list \in Seq(ChunkRecords(n))  BY DEF SoundChunks
  <2>2. Len(list) \in Nat  BY <2>1
  <2>3. t \in Seq(1..n)  BY DEF IsPiece
  <2>4. /\ \A k \in 1..Len(list) : ChunkIsSound(list[k], k, text, n, max)
        /\ \A k \in 1..(Len(list) - 1) : list[k].text[Len(list[k].text)] < list[k + 1].text[1]
      BY DEF SoundChunks
  <2>. QED  BY <2>1, <2>2, <2>3, <2>4
<1>2. r \in ChunkRecords(n) /\ r.text = t /\ r.sequence_number = Len(list)
    BY <1>1 DEF ChunkRecords, NewChunk
<1>11. new = Append(list, r)  BY DEF More
<1> HIDE DEF r
<1>3. /\ new \in Seq(ChunkRecords(n)) /\ Len(new) = Len(list) + 1 /\ new[Len(list) + 1] = r
      /\ \A k \in 1..Len(list) : new[k] = list[k]
    BY <1>1, <1>2, <1>11, AppendProperties
<1>4. list = <<>> <=> Len(list) = 0  BY <1>1, EmptySeq
<1>5. ChunkIsSound(r, Len(list) + 1, text, n, max)  BY <1>1, <1>2 DEF ChunkIsSound
<1>6. ASSUME NEW k \in 1..Len(new) PROVE ChunkIsSound(new[k], k, text, n, max)
  <2>1. k \in 1..Len(list) \/ k = Len(list) + 1  BY <1>1, <1>3
  <2>. QED  BY <2>1, <1>1, <1>3, <1>5
<1>7. ASSUME NEW k \in 1..(Len(new) - 1)
      PROVE  new[k].text[Len(new[k].text)] < new[k + 1].text[1]
  <2>1. k \in 1..Len(list) /\ new[k] = list[k]  BY <1>1, <1>3
  <2>2. CASE k = Len(list)
    <3>1. new[k + 1] = r /\ list # <<>>  BY <2>1, <2>2, <1>1, <1>3, <1>4
    <3>. QED  BY <3>1, <2>1, <2>2, <1>2 DEF ChunksEnd, Beyond
  <2>3. CASE k # Len(list)
    <3>1. k \in 1..(Len(list) - 1) /\ k + 1 \in 1..Len(list)  BY <2>1, <2>3, <1>1
    <3>. QED  BY <3>1, <2>1, <1>1, <1>3
  <2>. QED  BY <2>2, <2>3
<1>8. SoundChunks(new, text, n, max)  BY <1>3, <1>6, <1>7 DEF SoundChunks
<1>9. new # <<>> /\ ChunksEnd(new) = t[Len(t)]
  <2>1. new # <<>>  BY <1>1, <1>3, EmptySeq
  <2>2. new[Len(new)] = r  BY <1>3
  <2>. QED  BY <2>1, <2>2, <1>2 DEF ChunksEnd
<1>10. ASSUME NEW i, Covers(list, i) \/ i \in t[1]..t[Len(t)] PROVE Covers(new, i)
  <2>1. CASE Covers(list, i)
    <3>1. PICK k \in 1..Len(list) : i \in list[k].text[1]..list[k].text[Len(list[k].text)]
        BY <2>1 DEF Covers
    <3>2. k \in 1..Len(new) /\ new[k] = list[k]  BY <1>1, <1>3
    <3>. QED  BY <3>1, <3>2 DEF Covers
  <2>2. CASE i \in t[1]..t[Len(t)]
    <3>1. Len(new) \in 1..Len(new) /\ new[Len(new)].text = t  BY <1>1, <1>2, <1>3
    <3>. QED  BY <3>1, <2>2 DEF Covers
  <2>. QED  BY <1>10, <2>1, <2>2
<1>. QED  BY <1>8, <1>9, <1>10 DEF CoversMore

LEMMA ChunksEndType ==
    ASSUME NEW n \in Nat, NEW max, NEW text, NEW list, SoundChunks(list, text, n, max), list # <<>>
    PROVE  ChunksEnd(list) \in 1..n
<1>1. list \in Seq(ChunkRecords(n))  BY DEF SoundChunks
<1>2. Len(list) \in 1..Len(list)  BY <1>1, EmptySeq
<1>3. IsPiece(list[Len(list)].text, n)  BY <1>2 DEF SoundChunks, ChunkIsSound
<1>4. PICK p : p = list[Len(list)].text  OBVIOUS
<1>5. p[Len(p)] \in 1..n  BY <1>3, <1>4, PieceFacts
<1>. QED  BY <1>4, <1>5 DEF ChunksEnd

-----------------------------------------------------------------------------
(* The invariant says of a call what it holds in each of its loops.          *)
CallRecords ==
    [text : ChunkTexts, options : ChunkOptions, at : {"split", "merge", "emit", "done"},
     remaining : Seq(Nat), splits : Seq(Seq(Nat)), merged : Seq(Seq(Nat)),
     chunks : Seq([sequence_number : Nat, text : Seq(Nat)])]

Splitting(c, n, max) ==
    /\ Pieces(c.splits, n, max) /\ Adjacent(c.splits) /\ IsPiece(c.remaining, n)
    /\ c.remaining[Len(c.remaining)] = n
    /\ c.splits = <<>> => c.remaining[1] = 1
    /\ c.splits # <<>> => c.splits[1][1] = 1 /\ c.remaining[1] = Ending(c.splits) + 1
    /\ c.merged = <<>> /\ c.chunks = <<>>

Merging(c, n, max) ==
    /\ Pieces(c.splits, n, max) /\ Adjacent(c.splits) /\ c.splits # <<>> /\ Ending(c.splits) = n
    /\ Pieces(c.merged, n, max) /\ Rising(c.merged)
    /\ c.merged = <<>> => c.splits[1][1] = 1
    /\ c.merged # <<>> => c.options.overlapSize # 0 /\ c.splits[1][1] = Ending(c.merged) + 1
    /\ c.remaining = <<>> /\ c.chunks = <<>>

Emitting(c, n, max) ==
    /\ Pieces(c.merged, n, max) /\ Rising(c.merged) /\ c.merged # <<>> /\ Ending(c.merged) = n
    /\ SoundChunks(c.chunks, c.text, n, max)
    /\ c.chunks # <<>> => ChunksEnd(c.chunks) < c.merged[1][1]
    /\ c.options.overlapSize = 0 =>
          /\ Adjacent(c.merged)
          /\ \A i \in 1..(c.merged[1][1] - 1) : Seen(c.text, i) => Covers(c.chunks, i)
    /\ c.remaining = <<>> /\ c.splits = <<>>

Emitted(c, n, max) ==
    /\ SoundChunks(c.chunks, c.text, n, max)
    /\ c.options.overlapSize = 0 => \A i \in 1..n : Seen(c.text, i) => Covers(c.chunks, i)
    /\ c.remaining \in Seq(1..n) /\ c.splits = <<>> /\ c.merged = <<>>

CallFacts(c) ==
    /\ c \in CallRecords
    /\ c.at = "split" => Splitting(c, Len(c.text), c.options.maxChunkSize)
    /\ c.at = "merge" => Merging(c, Len(c.text), c.options.maxChunkSize)
    /\ c.at = "emit" => Emitting(c, Len(c.text), c.options.maxChunkSize)
    /\ c.at = "done" => Emitted(c, Len(c.text), c.options.maxChunkSize)

ChunkerInv == \E c : c = chunking /\ CallFacts(c)

LEMMA CallParameters ==
    ASSUME NEW c \in CallRecords
    PROVE  /\ Len(c.text) \in Nat /\ c.text \in Seq(CharacterKinds)
           /\ c.options.maxChunkSize \in Nat \ {0} /\ c.options.overlapSize \in Nat
BY ChunkerConstants DEF CallRecords, ChunkerAssumption

LEMMA PiecesAreNumbers ==
    ASSUME NEW n \in Nat
    PROVE  /\ Seq(1..n) \subseteq Seq(Nat) /\ Seq(Seq(1..n)) \subseteq Seq(Seq(Nat))
           /\ Seq(ChunkRecords(n)) \subseteq Seq([sequence_number : Nat, text : Seq(Nat)])
<1>1. Seq(1..n) \subseteq Seq(Nat)  OBVIOUS
<1>2. ChunkRecords(n) \subseteq [sequence_number : Nat, text : Seq(Nat)]
    BY <1>1 DEF ChunkRecords
<1>3. \A S, T : S \subseteq T => Seq(S) \subseteq Seq(T)  OBVIOUS
<1>. QED  BY <1>1, <1>2, <1>3

LEMMA ChunkerInitInv == ChunkerInit => ChunkerInv
<1> SUFFICES ASSUME ChunkerInit PROVE ChunkerInv  OBVIOUS
<1>1. PICK t \in ChunkTexts, o \in ChunkOptions :
        chunking = [text |-> t, options |-> o,
                    at |-> IF \A i \in DOMAIN t : t[i] \in {"space", "line"}
                           THEN "done" ELSE "split",
                    remaining |-> [i \in DOMAIN t |-> i],
                    splits |-> <<>>, merged |-> <<>>, chunks |-> <<>>]
    BY DEF ChunkerInit
<1>2. PICK c : c = chunking  OBVIOUS
<1>3. t \in Seq(CharacterKinds) /\ Len(t) \in Nat /\ DOMAIN t = 1..Len(t)
    BY ChunkerConstants DEF ChunkerAssumption
<1>4. PICK n \in Nat : n = Len(t)  BY <1>3
<1>5. PICK rest : rest = [i \in 1..n |-> i]  OBVIOUS
<1>6. rest \in Seq(1..n) /\ Len(rest) = n /\ \A i \in 1..n : rest[i] = i  BY <1>5
<1>7. /\ c.text = t /\ c.options = o /\ c.remaining = rest
      /\ c.splits = <<>> /\ c.merged = <<>> /\ c.chunks = <<>>
      /\ (\A i \in 1..n : t[i] \in {"space", "line"}) => c.at = "done"
      /\ ~(\A i \in 1..n : t[i] \in {"space", "line"}) => c.at = "split"
    BY <1>1, <1>2, <1>3, <1>4, <1>5
<1>8. c \in CallRecords
  <2>1. rest \in Seq(Nat)  BY <1>6, PiecesAreNumbers
  <2>. QED  BY <2>1, <1>1, <1>2, <1>3, <1>4, <1>5 DEF CallRecords
<1>9. PICK max \in Nat \ {0} : max = c.options.maxChunkSize  BY <1>8, CallParameters
<1>10. c.at = "done" => Emitted(c, n, max)
    BY <1>6, <1>7, NoChunks DEF Emitted, Seen
<1>11. ASSUME c.at = "split" PROVE Splitting(c, n, max)
  <2>1. n # 0  BY <1>7, <1>11
  <2>2. IsPiece(rest, n) /\ rest[1] = 1 /\ rest[Len(rest)] = n
    <3>1. 1 \in 1..n /\ n \in 1..n /\ rest # <<>>  BY <2>1, <1>6, EmptySeq
    <3>. QED  BY <3>1, <1>6 DEF IsPiece
  <2>3. Pieces(<<>>, n, max) /\ Adjacent(<<>>)  BY DEF Pieces, Adjacent
  <2>. QED  BY <2>2, <2>3, <1>7 DEF Splitting
<1>12. c.at = "done" \/ c.at = "split"  BY <1>7
<1>13. CallFacts(c)  BY <1>4, <1>7, <1>8, <1>9, <1>10, <1>11, <1>12 DEF CallFacts
<1>. QED  BY <1>2, <1>13 DEF ChunkerInv

LEMMA CutStep ==
    ASSUME ChunkerInv, CutSplit
    PROVE  ChunkerInv'
<1>1. PICK c : c = chunking /\ CallFacts(c)  BY DEF ChunkerInv
<1>2. c \in CallRecords /\ c.at = "split"  BY <1>1 DEF CutSplit, CallFacts
<1>3. PICK n \in Nat : n = Len(c.text)  BY <1>2, CallParameters
<1>4. PICK max \in Nat \ {0} : max = c.options.maxChunkSize  BY <1>2, CallParameters
<1>5. Splitting(c, n, max)  BY <1>1, <1>2, <1>3, <1>4 DEF CallFacts
<1>6. PICK rest : rest = c.remaining  OBVIOUS
<1>7. IsPiece(rest, n) /\ Len(rest) \in Nat \ {0} /\ rest[Len(rest)] = n
    BY <1>5, <1>6, PieceFacts DEF Splitting
<1>8. PICK cut : cut = IF Len(rest) <= max THEN Len(rest)
                       ELSE IF c.options.preserveSentences THEN SplitIndex(rest) ELSE max
    OBVIOUS
<1>9. cut \in 1..Len(rest) /\ cut <= max
  <2>1. rest \in Seq(1..n) /\ c.options \in ChunkOptions  BY <1>2, <1>7 DEF IsPiece, CallRecords
  <2>2. Len(rest) > max => SplitIndex(rest) \in 1..max
      BY <2>1, <1>1, <1>4, CutSize, ChunkerConstants
  <2>. QED  BY <2>2, <1>7, <1>8
<1>10. PICK head : head = SubSeq(rest, 1, cut)  OBVIOUS
<1>11. PICK tail : tail = SubSeq(rest, cut + 1, Len(rest))  OBVIOUS
<1>12. PICK new : new = More(c.splits, head)  OBVIOUS
<1>13. PICK d : d = chunking'  OBVIOUS
<1>14. d = [c EXCEPT !.splits = new, !.remaining = tail,
                     !.at = IF cut = Len(rest) THEN "merge" ELSE "split"]
    BY <1>1, <1>4, <1>6, <1>8, <1>10, <1>11, <1>12, <1>13 DEF CutSplit, More
<1>15. IsPiece(head, n) /\ Len(head) = cut /\ head[1] = rest[1] /\ head[Len(head)] = rest[cut]
  <2>1. 1 \in 1..Len(rest) /\ cut \in 1..Len(rest)  BY <1>7, <1>9
  <2>2. Len(head) = cut - 1 + 1  BY <2>1, <1>7, <1>10, PieceCut
  <2>. QED  BY <2>1, <2>2, <1>7, <1>9, <1>10, PieceCut
<1>16. /\ Pieces(new, n, max) /\ new # <<>> /\ Adjacent(new) /\ Ending(new) = rest[cut]
       /\ new[1][1] = 1
  <2>1. Pieces(c.splits, n, max) /\ Adjacent(c.splits)  BY <1>5 DEF Splitting
  <2>2. c.splits # <<>> => head[1] = Ending(c.splits) + 1 /\ c.splits[1][1] = 1
      BY <1>5, <1>6, <1>15 DEF Splitting
  <2>3. c.splits = <<>> => head[1] = 1  BY <1>5, <1>6, <1>15 DEF Splitting
  <2>4. max \in Nat /\ Len(head) <= max  BY <1>9, <1>15
  <2>5. /\ Pieces(new, n, max) /\ new # <<>> /\ Ending(new) = head[Len(head)]
        /\ new[1] = IF c.splits = <<>> THEN head ELSE c.splits[1]
      BY <2>1, <2>4, <1>12, <1>15, AddPiece
  <2>6. Adjacent(new)  BY <2>1, <2>2, <2>4, <1>12, <1>15, AddPiece
  <2>. QED  BY <2>2, <2>3, <2>5, <2>6, <1>15
<1>17. /\ cut = Len(rest) => tail = <<>>
       /\ cut # Len(rest) => IsPiece(tail, n) /\ tail[1] = rest[cut] + 1 /\ tail[Len(tail)] = n
  <2>1. CASE cut = Len(rest)
    <3>1. rest \in Seq(1..n)  BY <1>7 DEF IsPiece
    <3>. QED  BY <3>1, <2>1, <1>7, <1>11
  <2>2. CASE cut # Len(rest)
    <3>1. cut + 1 \in 1..Len(rest) /\ Len(rest) \in (cut + 1)..Len(rest)  BY <2>2, <1>7, <1>9
    <3>2. IsPiece(tail, n) /\ tail[1] = rest[cut + 1] /\ tail[Len(tail)] = rest[Len(rest)]
        BY <3>1, <1>7, <1>11, PieceCut
    <3>3. rest[cut + 1] = rest[1] + (cut + 1) - 1 /\ rest[cut] = rest[1] + cut - 1
        BY <3>1, <1>7, <1>9 DEF IsPiece
    <3>4. rest[1] \in Int /\ cut \in Int  BY <1>7, <1>9, PieceFacts
    <3>. QED  BY <3>2, <3>3, <3>4, <2>2, <1>7
  <2>. QED  BY <2>1, <2>2
<1>18. d \in CallRecords
  <2>1. tail \in Seq(Nat)
    <3>1. IsPiece(tail, n) => tail \in Seq(Nat)  BY PiecesAreNumbers DEF IsPiece
    <3>2. tail = <<>> => tail \in Seq(Nat)  OBVIOUS
    <3>. QED  BY <3>1, <3>2, <1>17
  <2>2. new \in Seq(Seq(Nat))  BY <1>16, PiecesAreNumbers DEF Pieces
  <2>. QED  BY <2>1, <2>2, <1>2, <1>14 DEF CallRecords
<1>19. /\ d.text = c.text /\ d.options = c.options /\ d.splits = new /\ d.remaining = tail
       /\ d.merged = <<>> /\ d.chunks = <<>>
       /\ d.at = IF cut = Len(rest) THEN "merge" ELSE "split"
    BY <1>2, <1>5, <1>14 DEF CallRecords, Splitting
<1>20. cut = Len(rest) => Merging(d, n, max)
  <2>1. Pieces(<<>>, n, max) /\ Rising(<<>>)  BY DEF Pieces, Rising
  <2>. QED  BY <2>1, <1>7, <1>16, <1>17, <1>19 DEF Merging
<1>21. cut # Len(rest) => Splitting(d, n, max)
    BY <1>16, <1>17, <1>19 DEF Splitting
<1>22. CallFacts(d)
    BY <1>3, <1>4, <1>18, <1>19, <1>20, <1>21 DEF CallFacts
<1>. QED  BY <1>13, <1>22 DEF ChunkerInv

(* A split is merged into the piece before it or becomes the next piece.     *)
LEMMA MergedPieces ==
    ASSUME NEW n \in Nat, NEW max \in Nat, NEW list, NEW split,
           Pieces(list, n, max), list # <<>>, Rising(list),
           IsPiece(split, n), Len(split) <= max, split[1] = Ending(list) + 1,
           max = chunking.options.maxChunkSize, chunking.options.overlapSize \in Nat \ {0}
    PROVE  /\ Pieces(Merged(list, split), n, max) /\ Rising(Merged(list, split))
           /\ Merged(list, split) # <<>> /\ Ending(Merged(list, split)) = split[Len(split)]
<1>1. PICK p : p = list[Len(list)]  OBVIOUS
<1>2. IsPiece(p, n) /\ Last(list) = p /\ p[Len(p)] = Ending(list) /\ Ending(list) \in 1..n
    BY <1>1, FirstPiece DEF Ending
<1>3. PICK o : o = LastCharacters(p, chunking.options.overlapSize)  OBVIOUS
<1>4. IsPiece(o, n) /\ o[1] >= p[1] /\ o[Len(o)] = p[Len(p)]  BY <1>2, <1>3, OverlapPiece
<1>5. PICK current : current = Cat(o, split)  OBVIOUS
<1>6. IsPiece(current, n) /\ current[1] = o[1] /\ current[Len(current)] = split[Len(split)]
  <2>1. split[1] = o[Len(o)] + 1  BY <1>2, <1>4
  <2>2. JoinedPiece(o, split, current, n)  BY <2>1, <1>4, <1>5, PieceJoin
  <2>. QED  BY <2>2 DEF JoinedPiece
<1>7. Merged(list, split) = IF Len(current) <= max THEN [list EXCEPT ![Len(list)] = current]
                            ELSE Append(list, split)
    BY <1>2, <1>3, <1>5 DEF Merged, Cat
<1>8. CASE Len(current) <= max
  <2>1. current[1] >= list[Len(list)][1]  BY <1>1, <1>4, <1>6
  <2>2. PICK new : new = WithLast(list, current)  OBVIOUS
  <2>3. Pieces(new, n, max) /\ new # <<>> /\ Ending(new) = current[Len(current)] /\ Rising(new)
      BY <2>1, <2>2, <1>6, <1>8, LastPiece
  <2>. QED  BY <2>2, <2>3, <1>6, <1>7, <1>8 DEF WithLast
<1>9. CASE ~(Len(current) <= max)
  <2>1. Ending(list) < split[1]  BY <1>2
  <2>2. PICK new : new = More(list, split)  OBVIOUS
  <2>3. Pieces(new, n, max) /\ new # <<>> /\ Ending(new) = split[Len(split)]
      BY SMTT(30), <2>2, AddPiece
  <2>4. Rising(new)
    <3>1. Rising(list) /\ (list # <<>> => Ending(list) < split[1])  BY <2>1
    <3>. QED  BY ZenonT(30), <3>1, <2>2, AddPiece
  <2>. QED  BY <2>2, <2>3, <2>4, <1>7, <1>9 DEF More
<1>. QED  BY <1>8, <1>9

LEMMA AdjacentRises ==
    ASSUME NEW n \in Nat, NEW max \in Nat, NEW list, Pieces(list, n, max), Adjacent(list)
    PROVE  Rising(list)
<1> SUFFICES ASSUME NEW k \in 1..(Len(list) - 1)
             PROVE  list[k][Len(list[k])] < list[k + 1][1]
    BY DEF Rising
<1>1. k \in 1..Len(list)  BY DEF Pieces
<1>2. IsPiece(list[k], n)  BY <1>1 DEF Pieces
<1>3. PICK p : p = list[k]  OBVIOUS
<1>4. p[Len(p)] \in 1..n  BY <1>2, <1>3, PieceFacts
<1>5. list[k + 1][1] = list[k][Len(list[k])] + 1  BY DEF Adjacent
<1>. QED  BY <1>3, <1>4, <1>5

LEMMA MergeStep ==
    ASSUME ChunkerInv, MergeSplit
    PROVE  ChunkerInv'
<1>1. PICK c : c = chunking /\ CallFacts(c)  BY DEF ChunkerInv
<1>2. c \in CallRecords /\ c.at = "merge"  BY <1>1 DEF MergeSplit, CallFacts
<1>3. PICK n \in Nat : n = Len(c.text)  BY <1>2, CallParameters
<1>4. PICK max \in Nat \ {0} : max = c.options.maxChunkSize  BY <1>2, CallParameters
<1>5. Merging(c, n, max)  BY <1>1, <1>2, <1>3, <1>4 DEF CallFacts
<1>6. PICK s : s = c.splits  OBVIOUS
<1>7. PICK m : m = c.merged  OBVIOUS
<1>8. PICK o \in Nat : o = c.options.overlapSize  BY <1>2, CallParameters
<1>9. /\ Pieces(s, n, max) /\ Adjacent(s) /\ s # <<>> /\ Ending(s) = n
      /\ Pieces(m, n, max) /\ Rising(m)
      /\ m = <<>> => s[1][1] = 1
      /\ m # <<>> => o # 0 /\ s[1][1] = Ending(m) + 1
      /\ c.remaining = <<>> /\ c.chunks = <<>>
    BY <1>5, <1>6, <1>7, <1>8 DEF Merging
<1>10. /\ Len(s) \in Nat \ {0} /\ Head(s) = s[1] /\ IsPiece(s[1], n) /\ Len(s[1]) <= max
       /\ max \in Nat
    BY <1>9, FirstPiece
<1>11. PICK d : d = chunking'  OBVIOUS
<1>12. CASE m = <<>> /\ (Len(s) <= 1 \/ o <= 0)
  <2>1. d = [c EXCEPT !.merged = s, !.splits = <<>>, !.at = "emit"]
      BY <1>1, <1>6, <1>7, <1>8, <1>11, <1>12 DEF MergeSplit
  <2>2. d \in CallRecords /\ d.text = c.text /\ d.options = c.options /\ d.at = "emit"
        /\ d.merged = s /\ d.splits = <<>> /\ d.remaining = <<>> /\ d.chunks = <<>>
    <3>1. s \in Seq(Seq(Nat)) /\ <<>> \in Seq(Seq(Nat))  BY <1>2, <1>6 DEF CallRecords
    <3>2. d \in CallRecords  BY <3>1, <2>1, <1>2 DEF CallRecords
    <3>. QED  BY <3>2, <2>1, <1>2, <1>9 DEF CallRecords
  <2>3. Emitting(d, n, max)
    <3>1. Rising(s)  BY <1>9, <1>10, AdjacentRises
    <3>2. SoundChunks(<<>>, d.text, n, max)  BY NoChunks
    <3>3. 1..(s[1][1] - 1) = {}  BY <1>9, <1>12
    <3>. QED  BY <3>1, <3>2, <3>3, <2>2, <1>9 DEF Emitting
  <2>. QED  BY <2>2, <2>3, <1>3, <1>4, <1>11 DEF CallFacts, ChunkerInv
<1>13. CASE ~(m = <<>> /\ (Len(s) <= 1 \/ o <= 0))
  <2>1. PICK next : next = IF m = <<>> THEN <<Head(s)>> ELSE Merged(m, Head(s))  OBVIOUS
  <2>2. d = [c EXCEPT !.merged = next, !.splits = Tail(s),
                      !.at = IF Len(s) = 1 THEN "emit" ELSE "merge"]
      BY <2>1, <1>1, <1>6, <1>7, <1>8, <1>11, <1>13 DEF MergeSplit
  <2>3. o \in Nat \ {0}  BY <1>9, <1>13
  <2>4. Pieces(next, n, max) /\ Rising(next) /\ next # <<>> /\ Ending(next) = s[1][Len(s[1])]
    <3>1. CASE m = <<>>
      <4>1. PICK p : p = s[1]  OBVIOUS
      <4>2. PICK none : none = <<>>  OBVIOUS
      <4>3. next = More(none, p)  BY <3>1, <4>1, <4>2, <2>1, <1>10 DEF More
      <4>4. Pieces(none, n, max) /\ Rising(none)  BY <4>2 DEF Pieces, Rising
      <4>5. Pieces(next, n, max) /\ next # <<>> /\ Ending(next) = p[Len(p)] /\ Rising(next)
          BY <4>1, <4>2, <4>3, <4>4, <1>10, AddPiece
      <4>. QED  BY <4>1, <4>5
    <3>2. CASE m # <<>>
      <4>1. next = Merged(m, s[1])  BY <3>2, <2>1, <1>10
      <4>. QED  BY <4>1, <3>2, <2>3, <1>1, <1>4, <1>8, <1>9, <1>10, MergedPieces
    <3>. QED  BY <3>1, <3>2
  <2>5. PICK t : t = Tail(s)  OBVIOUS
  <2>6. /\ Pieces(t, n, max) /\ Adjacent(t) /\ (t = <<>> <=> Len(s) = 1)
        /\ Len(s) # 1 => Ending(t) = n /\ t[1][1] = s[1][Len(s[1])] + 1
      BY <2>5, <1>9, <1>10, OtherPieces
  <2>7. d \in CallRecords
    <3>1. next \in Seq(Seq(Nat)) /\ t \in Seq(Seq(Nat))  BY <2>4, <2>6, PiecesAreNumbers DEF Pieces
    <3>. QED  BY <3>1, <2>2, <2>5, <1>2 DEF CallRecords
  <2>8. /\ d.text = c.text /\ d.options = c.options
        /\ d.at = (IF Len(s) = 1 THEN "emit" ELSE "merge")
        /\ d.merged = next /\ d.splits = t /\ d.remaining = <<>> /\ d.chunks = <<>>
      BY <2>2, <2>5, <1>2, <1>9 DEF CallRecords
  <2>9. ASSUME Len(s) = 1 PROVE Emitting(d, n, max)
    <3>1. SoundChunks(<<>>, d.text, n, max)  BY NoChunks
    <3>2. Ending(next) = n  BY <2>4, <2>9, <1>9 DEF Ending
    <3>3. d.options.overlapSize # 0  BY <2>3, <2>8, <1>8
    <3>. QED  BY <3>1, <3>2, <3>3, <2>4, <2>6, <2>8, <2>9 DEF Emitting
  <2>10. ASSUME Len(s) # 1 PROVE Merging(d, n, max)
    <3>1. d.options.overlapSize # 0  BY <2>3, <2>8, <1>8
    <3>. QED  BY <3>1, <2>4, <2>6, <2>8, <2>10 DEF Merging
  <2>11. CallFacts(d)
      BY <2>7, <2>8, <2>9, <2>10, <1>3, <1>4 DEF CallFacts
  <2>. QED  BY <2>11, <1>11 DEF ChunkerInv
<1>. QED  BY <1>12, <1>13

LEMMA EmitStep ==
    ASSUME ChunkerInv, EmitChunk
    PROVE  ChunkerInv'
<1>1. PICK c : c = chunking /\ CallFacts(c)  BY DEF ChunkerInv
<1>2. c \in CallRecords /\ c.at = "emit"  BY <1>1 DEF EmitChunk, CallFacts
<1>3. PICK n \in Nat : n = Len(c.text)  BY <1>2, CallParameters
<1>4. PICK max \in Nat \ {0} : max = c.options.maxChunkSize  BY <1>2, CallParameters
<1>5. Emitting(c, n, max)  BY <1>1, <1>2, <1>3, <1>4 DEF CallFacts
<1>6. PICK m : m = c.merged  OBVIOUS
<1>7. PICK list : list = c.chunks  OBVIOUS
<1>8. /\ Pieces(m, n, max) /\ Rising(m) /\ m # <<>> /\ Ending(m) = n
      /\ SoundChunks(list, c.text, n, max)
      /\ list # <<>> => ChunksEnd(list) < m[1][1]
      /\ c.options.overlapSize = 0 =>
            /\ Adjacent(m) /\ \A i \in 1..(m[1][1] - 1) : Seen(c.text, i) => Covers(list, i)
      /\ c.remaining = <<>> /\ c.splits = <<>>
    BY <1>5, <1>6, <1>7 DEF Emitting
<1>9. PICK s : s = m[1]  OBVIOUS
<1>10. /\ Len(m) \in Nat \ {0} /\ Head(m) = s /\ IsPiece(s, n) /\ Len(s) <= max /\ max \in Nat
    BY <1>8, <1>9, FirstPiece
<1>11. /\ s[1] \in 1..n /\ s[Len(s)] \in 1..n /\ s[Len(s)] = s[1] + Len(s) - 1
       /\ Len(s) \in Nat \ {0}
    BY <1>10, PieceFacts
<1>12. PICK t : t = Tail(m)  OBVIOUS
<1>13. /\ Pieces(t, n, max) /\ Rising(t) /\ (t = <<>> <=> Len(m) = 1)
       /\ Len(m) # 1 => Ending(t) = n /\ s[Len(s)] < t[1][1]
       /\ Adjacent(m) => Adjacent(t)
       /\ Adjacent(m) /\ Len(m) # 1 => t[1][1] = s[Len(s)] + 1
    BY <1>8, <1>9, <1>10, <1>12, OtherPieces
<1>14. Len(m) = 1 => s[Len(s)] = n  BY <1>8, <1>9 DEF Ending
<1>15. PICK trimmed : trimmed = Trim(s)  OBVIOUS
<1>16. \A i : Visible(i) <=> Seen(c.text, i)  BY <1>1 DEF Visible, Seen
<1>17. /\ trimmed = <<>> => \A k \in 1..Len(s) : ~Seen(c.text, s[k])
       /\ trimmed # <<>> =>
            /\ IsPiece(trimmed, n) /\ Len(trimmed) <= Len(s)
            /\ trimmed[1] >= s[1] /\ trimmed[Len(trimmed)] <= s[Len(s)]
            /\ Seen(c.text, trimmed[1]) /\ Seen(c.text, trimmed[Len(trimmed)])
            /\ \A k \in 1..Len(s) :
                  Seen(c.text, s[k]) => s[k] \in trimmed[1]..trimmed[Len(trimmed)]
    BY <1>10, <1>15, <1>16, TrimmedPiece
<1>18. PICK new : new = IF trimmed = <<>> THEN list
                        ELSE More(list, NewChunk(list, trimmed))
    OBVIOUS
<1>19. PICK d : d = chunking'  OBVIOUS
<1>20. d = [c EXCEPT !.chunks = new, !.merged = t,
                     !.at = IF Len(m) = 1 THEN "done" ELSE "emit"]
    BY <1>1, <1>6, <1>7, <1>10, <1>12, <1>15, <1>18, <1>19 DEF EmitChunk, NewChunk, More
<1>21. /\ SoundChunks(new, c.text, n, max)
       /\ new # <<>> => ChunksEnd(new) <= s[Len(s)]
       /\ \A i : Covers(list, i) => Covers(new, i)
       /\ trimmed # <<>> => \A i \in trimmed[1]..trimmed[Len(trimmed)] : Covers(new, i)
  <2>1. CASE trimmed = <<>>
    <3>1. new = list  BY <2>1, <1>18
    <3>2. list # <<>> => ChunksEnd(list) <= s[Len(s)]
      <4>1. list # <<>> => ChunksEnd(list) \in Int  BY <1>8, ChunksEndType
      <4>. QED  BY <4>1, <1>8, <1>9, <1>11
    <3>. QED  BY <3>1, <3>2, <2>1, <1>8
  <2>2. CASE trimmed # <<>>
    <3>1. new = More(list, NewChunk(list, trimmed))  BY <2>2, <1>18
    <3>2. IsPiece(trimmed, n) /\ Len(trimmed) \in Nat /\ trimmed[1] \in Int /\ trimmed[Len(trimmed)] \in Int
        BY <2>2, <1>17, PieceFacts
    <3>3. Len(trimmed) <= max  BY <3>2, <2>2, <1>10, <1>11, <1>17
    <3>4. Beyond(list, trimmed)
      <4>1. list # <<>> => ChunksEnd(list) \in Int  BY <1>8, ChunksEndType
      <4>. QED  BY <4>1, <3>2, <2>2, <1>8, <1>9, <1>11, <1>17 DEF Beyond
    <3>5. /\ SoundChunks(new, c.text, n, max) /\ new # <<>>
          /\ ChunksEnd(new) = trimmed[Len(trimmed)]
          /\ CoversMore(list, trimmed, new)
      <4>1. PICK text : text = c.text  OBVIOUS
      <4>2. /\ SoundChunks(list, text, n, max) /\ max \in Nat
            /\ Seen(text, trimmed[1]) /\ Seen(text, trimmed[Len(trimmed)])
          BY <4>1, <2>2, <1>8, <1>10, <1>17
      <4>3. /\ SoundChunks(new, text, n, max) /\ new # <<>>
            /\ ChunksEnd(new) = trimmed[Len(trimmed)]
            /\ CoversMore(list, trimmed, new)
          BY <4>2, <3>1, <3>2, <3>3, <3>4, AddChunk
      <4>. QED  BY <4>1, <4>3
    <3>. QED  BY <3>5, <2>2, <1>17 DEF CoversMore
  <2>. QED  BY <2>1, <2>2
<1>22. ASSUME c.options.overlapSize = 0, NEW i \in 1..s[Len(s)], Seen(c.text, i)
       PROVE  Covers(new, i)
  <2>1. CASE i < s[1]
    <3>1. i \in 1..(s[1] - 1)  BY <2>1, <1>11
    <3>2. Covers(list, i)  BY <3>1, <1>8, <1>9, <1>22
    <3>. QED  BY <3>2, <1>21
  <2>2. CASE ~(i < s[1])
    <3>1. PICK k \in 1..Len(s) : k = i - s[1] + 1  BY <2>2, <1>11
    <3>2. s[k] = s[1] + k - 1  BY <1>10 DEF IsPiece
    <3>3. s[k] = i  BY <3>1, <3>2, <1>11
    <3>. QED  BY <3>3, <1>17, <1>21, <1>22
  <2>. QED  BY <2>1, <2>2
<1>23. d \in CallRecords
  <2>1. t \in Seq(Seq(Nat))  BY <1>13, PiecesAreNumbers DEF Pieces
  <2>2. new \in Seq([sequence_number : Nat, text : Seq(Nat)])
      BY <1>21, PiecesAreNumbers DEF SoundChunks
  <2>. QED  BY <2>1, <2>2, <1>2, <1>20 DEF CallRecords
<1>24. /\ d.text = c.text /\ d.options = c.options
       /\ d.at = (IF Len(m) = 1 THEN "done" ELSE "emit")
       /\ d.merged = t /\ d.chunks = new /\ d.splits = <<>> /\ d.remaining = <<>>
    BY <1>2, <1>8, <1>20 DEF CallRecords
<1>25. ASSUME Len(m) = 1 PROVE Emitted(d, n, max)
  <2>1. <<>> \in Seq(1..n)  OBVIOUS
  <2>2. d.options.overlapSize = 0 => \A i \in 1..n : Seen(d.text, i) => Covers(d.chunks, i)
      BY <1>14, <1>22, <1>24, <1>25
  <2>. QED  BY <2>1, <2>2, <1>13, <1>21, <1>24, <1>25 DEF Emitted
<1>26. ASSUME Len(m) # 1 PROVE Emitting(d, n, max)
  <2>1. PICK first : first = t[1][1]  OBVIOUS
  <2>2. first \in 1..n /\ s[Len(s)] < first
    <3>1. IsPiece(t[1], n)  BY <1>13, <1>26, FirstPiece, <1>10
    <3>2. PICK p : p = t[1]  OBVIOUS
    <3>3. p[1] \in 1..n  BY <3>1, <3>2, PieceFacts
    <3>. QED  BY <3>2, <3>3, <2>1, <1>13, <1>26
  <2>3. ASSUME new # <<>> PROVE ChunksEnd(new) < first
    <3>1. ChunksEnd(new) <= s[Len(s)]  BY <2>3, <1>21
    <3>2. ChunksEnd(new) \in Int  BY <1>21, <2>3, ChunksEndType
    <3>. QED  BY <3>1, <3>2, <2>2, <1>11
  <2>4. d.options.overlapSize = 0 =>
          /\ Adjacent(t) /\ \A i \in 1..(first - 1) : Seen(d.text, i) => Covers(new, i)
    <3>1. SUFFICES ASSUME d.options.overlapSize = 0
                   PROVE  /\ Adjacent(t)
                          /\ \A i \in 1..(first - 1) : Seen(d.text, i) => Covers(new, i)
        OBVIOUS
    <3>2. Adjacent(m)  BY <3>1, <1>8, <1>24
    <3>3. Adjacent(t) /\ first - 1 = s[Len(s)]  BY <3>2, <2>1, <1>11, <1>13, <1>26
    <3>. QED  BY <3>1, <3>3, <1>22, <1>24
  <2>. QED  BY <2>1, <2>3, <2>4, <1>13, <1>21, <1>24, <1>26 DEF Emitting
<1>27. CallFacts(d)
    BY <1>3, <1>4, <1>23, <1>24, <1>25, <1>26 DEF CallFacts
<1>. QED  BY <1>19, <1>27 DEF ChunkerInv

(* The invariant of the chunker.                                             *)
THEOREM ChunkerInvariant == ChunkerSpec => []ChunkerInv
<1>1. ChunkerInv /\ [ChunkerNext]_chunkerVars => ChunkerInv'
  <2> SUFFICES ASSUME ChunkerInv, [ChunkerNext]_chunkerVars PROVE ChunkerInv'  OBVIOUS
  <2>1. CASE UNCHANGED chunkerVars  BY <2>1 DEF chunkerVars, ChunkerInv
  <2>. QED  BY <2>1, CutStep, MergeStep, EmitStep DEF ChunkerNext
<1>. QED  BY <1>1, ChunkerInitInv, PTL DEF ChunkerSpec

(* Types of a call: what it holds are positions of its text.                *)
THEOREM ChunkerTypeCorrect == ChunkerSpec => []ChunkerTypeOK
<1>1. ChunkerInv => ChunkerTypeOK
  <2> SUFFICES ASSUME ChunkerInv PROVE ChunkerTypeOK  OBVIOUS
  <2>1. PICK c : c = chunking /\ CallFacts(c)  BY DEF ChunkerInv
  <2>2. c \in CallRecords  BY <2>1 DEF CallFacts
  <2>3. PICK n \in Nat : n = Len(c.text)  BY <2>2, CallParameters
  <2>4. PICK max \in Nat \ {0} : max = c.options.maxChunkSize  BY <2>2, CallParameters
  <2>5. /\ c.text \in ChunkTexts /\ c.options \in ChunkOptions
        /\ c.at \in {"split", "merge", "emit", "done"}
      BY <2>2 DEF CallRecords
  <2>6. /\ <<>> \in Seq(1..n) /\ <<>> \in Seq(Seq(1..n)) /\ <<>> \in Seq(ChunkRecords(n))
      OBVIOUS
  <2>7. /\ c.remaining \in Seq(1..n)
        /\ c.splits \in Seq(Seq(1..n)) /\ c.merged \in Seq(Seq(1..n))
        /\ c.chunks \in Seq(ChunkRecords(n))
    <3>1. CASE c.at = "split"
      <4>1. Splitting(c, n, max)  BY <3>1, <2>1, <2>3, <2>4 DEF CallFacts
      <4>. QED  BY <4>1, <2>6 DEF Splitting, Pieces, IsPiece
    <3>2. CASE c.at = "merge"
      <4>1. Merging(c, n, max)  BY <3>2, <2>1, <2>3, <2>4 DEF CallFacts
      <4>. QED  BY <4>1, <2>6 DEF Merging, Pieces
    <3>3. CASE c.at = "emit"
      <4>1. Emitting(c, n, max)  BY <3>3, <2>1, <2>3, <2>4 DEF CallFacts
      <4>. QED  BY <4>1, <2>6 DEF Emitting, Pieces, SoundChunks
    <3>4. CASE c.at = "done"
      <4>1. Emitted(c, n, max)  BY <3>4, <2>1, <2>3, <2>4 DEF CallFacts
      <4>. QED  BY <4>1, <2>6 DEF Emitted, SoundChunks
    <3>. QED  BY <3>1, <3>2, <3>3, <3>4, <2>5
  <2>8. Positions = 1..n  BY <2>1, <2>3 DEF Positions
  <2>. QED  BY <2>1, <2>5, <2>7, <2>8 DEF ChunkerTypeOK, ChunkRecords
<1>. QED  BY <1>1, ChunkerInvariant, PTL

LEMMA SplitsJoin ==
    ASSUME ChunkerInv
    PROVE  SplitsAreTheText
<1> SUFFICES ASSUME chunking.at = "split" PROVE SplitsAreTheText  BY DEF SplitsAreTheText
<1>1. PICK c : c = chunking /\ CallFacts(c)  BY DEF ChunkerInv
<1>2. c \in CallRecords  BY <1>1 DEF CallFacts
<1>3. PICK n \in Nat : n = Len(c.text)  BY <1>2, CallParameters
<1>4. PICK max \in Nat \ {0} : max = c.options.maxChunkSize  BY <1>2, CallParameters
<1>5. Splitting(c, n, max)  BY <1>1, <1>3, <1>4 DEF CallFacts
<1>6. PICK rest : rest = c.remaining  OBVIOUS
<1>7. IsPiece(rest, n) /\ rest[Len(rest)] = n /\ Len(rest) \in Nat \ {0}
    BY <1>5, <1>6, PieceFacts DEF Splitting
<1>8. PICK size \in Nat : size = max + Len(rest)  BY <1>7
<1>9. Pieces(c.splits, n, size) /\ Len(rest) <= size
  <2>1. c.splits \in Seq(Seq(1..n)) /\ \A k \in 1..Len(c.splits) : IsPiece(c.splits[k], n) /\ Len(c.splits[k]) <= max
      BY <1>5 DEF Splitting, Pieces
  <2>2. ASSUME NEW k \in 1..Len(c.splits) PROVE Len(c.splits[k]) <= size
    <3>1. PICK p : p = c.splits[k]  OBVIOUS
    <3>2. Len(p) \in Nat /\ Len(p) <= max  BY <3>1, <2>1, PieceFacts
    <3>. QED  BY <3>1, <3>2, <1>7, <1>8
  <2>. QED  BY <2>1, <2>2, <1>7, <1>8 DEF Pieces
<1>10. PICK pieces : pieces = More(c.splits, rest)  OBVIOUS
<1>11. /\ Adjacent(c.splits)
       /\ c.splits # <<>> => rest[1] = Ending(c.splits) + 1 /\ c.splits[1][1] = 1
       /\ c.splits = <<>> => rest[1] = 1
    BY <1>5, <1>6 DEF Splitting
<1>12. /\ Pieces(pieces, n, size) /\ pieces # <<>> /\ Ending(pieces) = rest[Len(rest)]
       /\ pieces[1] = IF c.splits = <<>> THEN rest ELSE c.splits[1]
       /\ Adjacent(pieces)
    BY <1>7, <1>9, <1>10, <1>11, AddPiece
<1>13. /\ Len(pieces) \in Nat \ {0} /\ Head(pieces) = pieces[1] /\ IsPiece(pieces[1], n)
       /\ Last(Last(pieces)) = n
    BY <1>7, <1>12, FirstPiece
<1>14. Head(Head(pieces)) = 1
  <2>1. PICK p : p = pieces[1]  OBVIOUS
  <2>2. Head(p) = p[1]  BY <2>1, <1>13, PieceFacts
  <2>. QED  BY <2>1, <2>2, <1>11, <1>12, <1>13
<1>15. ASSUME NEW k \in 1..Len(pieces) PROVE pieces[k] # <<>> /\ Contiguous(pieces[k])
  <2>1. PICK p : p = pieces[k]  OBVIOUS
  <2>2. IsPiece(p, n)  BY <2>1, <1>12 DEF Pieces
  <2>3. p # <<>> /\ Contiguous(p)  BY <2>2, PieceFacts DEF IsPiece
  <2>. QED  BY <2>1, <2>3
<1>16. ASSUME NEW k \in 1..(Len(pieces) - 1) PROVE Head(pieces[k + 1]) = Last(pieces[k]) + 1
  <2>1. k \in 1..Len(pieces) /\ k + 1 \in 1..Len(pieces)  BY <1>13
  <2>2. PICK p : p = pieces[k]  OBVIOUS
  <2>3. PICK q : q = pieces[k + 1]  OBVIOUS
  <2>4. IsPiece(p, n) /\ IsPiece(q, n)  BY <2>1, <2>2, <2>3, <1>12 DEF Pieces
  <2>5. Last(p) = p[Len(p)]  BY <2>4, PieceFacts
  <2>6. Head(q) = q[1]  BY <2>4, PieceFacts
  <2>7. q[1] = p[Len(p)] + 1  BY <2>2, <2>3, <1>12 DEF Adjacent
  <2>. QED  BY <2>2, <2>3, <2>5, <2>6, <2>7
<1>17. DOMAIN pieces = 1..Len(pieces)  BY <1>12 DEF Pieces
<1>. QED  BY <1>1, <1>3, <1>6, <1>10, <1>13, <1>14, <1>15, <1>16, <1>17
          DEF SplitsAreTheText, More

(* What chunk() returns is sound (chunker.ts), for any texts, sizes, overlaps *)
(* and separators.                                                          *)
THEOREM ChunksStaySound == ChunkerSpec => []ChunksAreSound
<1>1. ChunkerInv => ChunksAreSound
  <2> SUFFICES ASSUME ChunkerInv PROVE ChunksAreSound  OBVIOUS
  <2>1. PICK c : c = chunking /\ CallFacts(c)  BY DEF ChunkerInv
  <2>2. c \in CallRecords  BY <2>1 DEF CallFacts
  <2>3. PICK n \in Nat : n = Len(c.text)  BY <2>2, CallParameters
  <2>4. PICK max \in Nat \ {0} : max = c.options.maxChunkSize  BY <2>2, CallParameters
  <2>5. PICK list : list = c.chunks  OBVIOUS
  <2>6. SoundChunks(list, c.text, n, max)
    <3>1. c.at = "split" => Splitting(c, n, max)  BY <2>1, <2>3, <2>4 DEF CallFacts
    <3>2. c.at = "merge" => Merging(c, n, max)  BY <2>1, <2>3, <2>4 DEF CallFacts
    <3>3. c.at = "emit" => Emitting(c, n, max)  BY <2>1, <2>3, <2>4 DEF CallFacts
    <3>4. c.at = "done" => Emitted(c, n, max)  BY <2>1, <2>3, <2>4 DEF CallFacts
    <3>5. c.at \in {"split", "merge", "emit", "done"}  BY <2>2 DEF CallRecords
    <3>. QED  BY <3>1, <3>2, <3>3, <3>4, <3>5, <2>5, NoChunks
              DEF Splitting, Merging, Emitting, Emitted
  <2>7. list \in Seq(ChunkRecords(n)) /\ DOMAIN list = 1..Len(list) /\ Len(list) \in Nat
    <3>1. list \in Seq(ChunkRecords(n))  BY <2>6 DEF SoundChunks
    <3>. QED  BY <3>1
  <2>8. ASSUME NEW k \in 1..Len(list)
        PROVE  /\ list[k].sequence_number = k - 1
               /\ Len(list[k].text) \in 1..max
               /\ Contiguous(list[k].text)
               /\ Visible(Head(list[k].text)) /\ Visible(Last(list[k].text))
               /\ k > 1 => Head(list[k].text) > Last(list[k - 1].text)
    <3>1. ChunkIsSound(list[k], k, c.text, n, max)  BY <2>6 DEF SoundChunks
    <3>2. PICK t : t = list[k].text  OBVIOUS
    <3>3. IsPiece(t, n) /\ Len(t) <= max /\ Seen(c.text, t[1]) /\ Seen(c.text, t[Len(t)])
        BY <3>1, <3>2 DEF ChunkIsSound
    <3>4. /\ Len(t) \in Nat \ {0} /\ Head(t) = t[1] /\ Last(t) = t[Len(t)] /\ Contiguous(t)
          /\ t[1] \in 1..n
        BY <3>3, PieceFacts
    <3>5. Visible(Head(t)) /\ Visible(Last(t))  BY <3>3, <3>4, <2>1 DEF Seen, Visible
    <3>6. ASSUME k > 1 PROVE t[1] > Last(list[k - 1].text)
      <4>1. k - 1 \in 1..(Len(list) - 1) /\ k - 1 \in 1..Len(list) /\ (k - 1) + 1 = k  BY <3>6, <2>7
      <4>2. PICK p : p = list[k - 1].text  OBVIOUS
      <4>3. ChunkIsSound(list[k - 1], k - 1, c.text, n, max)  BY <4>1, <2>6 DEF SoundChunks
      <4>4. IsPiece(p, n)  BY <4>2, <4>3 DEF ChunkIsSound
      <4>5. Last(p) = p[Len(p)] /\ p[Len(p)] \in 1..n  BY <4>4, PieceFacts
      <4>6. p[Len(p)] < t[1]  BY <4>1, <4>2, <3>2, <2>6 DEF SoundChunks
      <4>. QED  BY <4>2, <4>5, <4>6, <3>4
    <3>7. list[k].sequence_number = k - 1  BY <3>1 DEF ChunkIsSound
    <3>. QED  BY <3>2, <3>3, <3>4, <3>5, <3>6, <3>7, <2>4
  <2>9. ASSUME c.at = "emit" PROVE Last(Last(c.merged)) = n
    <3>1. Emitting(c, n, max)  BY <2>1, <2>3, <2>4, <2>9 DEF CallFacts
    <3>2. PICK m : m = c.merged  OBVIOUS
    <3>3. Pieces(m, n, max) /\ m # <<>> /\ Ending(m) = n  BY <3>1, <3>2 DEF Emitting
    <3>4. Last(Last(m)) = Ending(m)  BY <3>3, FirstPiece
    <3>. QED  BY <3>2, <3>3, <3>4
  <2>10. ASSUME c.at = "done", c.options.overlapSize = 0, NEW i \in 1..n, Visible(i)
         PROVE  InSomeChunk(i)
    <3>1. Emitted(c, n, max)  BY <2>1, <2>3, <2>4, <2>10 DEF CallFacts
    <3>2. Covers(list, i)  BY <3>1, <2>1, <2>5, <2>10 DEF Emitted, Seen, Visible
    <3>3. PICK k \in 1..Len(list) : i \in list[k].text[1]..list[k].text[Len(list[k].text)]
        BY <3>2 DEF Covers
    <3>4. PICK t : t = list[k].text  OBVIOUS
    <3>5. IsPiece(t, n)  BY <3>4, <2>6 DEF SoundChunks, ChunkIsSound
    <3>6. /\ t \in Seq(1..n) /\ Len(t) \in Nat \ {0} /\ t[1] \in 1..n
          /\ t[Len(t)] = t[1] + Len(t) - 1
        BY <3>5, PieceFacts
    <3>7. PICK a \in Int : a = t[1]  BY <3>6
    <3>8. i \in Int /\ a <= i /\ i <= a + Len(t) - 1  BY <3>3, <3>4, <3>6, <3>7
    <3>9. PICK j \in 1..Len(t) : j = i - a + 1  BY <3>6, <3>8
    <3>10. t[j] = a + j - 1  BY <3>5, <3>7 DEF IsPiece
    <3>11. t[j] = i  BY <3>8, <3>9, <3>10
    <3>12. DOMAIN t = 1..Len(t)  BY <3>6
    <3>13. i \in Range(t)  BY <3>11, <3>12 DEF Range
    <3>. QED  BY <3>4, <3>13, <2>1, <2>5, <2>7 DEF InSomeChunk
  <2>. QED  BY <2>1, <2>3, <2>4, <2>5, <2>7, <2>8, <2>9, <2>10, SplitsJoin
            DEF ChunksAreSound, Positions
<1>. QED  BY <1>1, ChunkerInvariant, PTL

-----------------------------------------------------------------------------
(***************************************************************************)
(* UploadSession.  UploadAccounting is not inductive: that a chunk takes    *)
(* the count to at most TotalChunks needs that an active session has        *)
(* counted fewer, and that the distinct indices are no more than the count  *)
(* needs that they are finitely many and that a session begins with none.   *)
(***************************************************************************)
Counting ==
    \A u \in Sessions :
        /\ session[u].status = "absent" => session[u] = Absent /\ chunksSeen[u] = {}
        /\ session[u].status = "active" => session[u].received < TotalChunks

UploadInv == UploadTypeOK /\ UploadAccounting /\ Counting

-----------------------------------------------------------------------------
(* A session has seen finitely many indices, and one more chunk adds at     *)
(* most one to them.                                                        *)
LEMMA SeenFinite ==
    ASSUME UploadTypeOK, NEW u \in Sessions
    PROVE  IsFiniteSet(chunksSeen[u]) /\ Cardinality(chunksSeen[u]) \in Nat
  <1>1. TotalChunks \in Nat BY UploadConstants DEF UploadAssumption
  <1>2. IsFiniteSet(0..(TotalChunks - 1)) BY <1>1, FS_Interval
  <1>3. chunksSeen[u] \subseteq 0..(TotalChunks - 1) BY DEF UploadTypeOK, ChunkIndices
  <1> QED BY <1>2, <1>3, FS_Subset, FS_CardinalityType

(* One more chunk adds at most one to the chunks seen.                      *)
LEMMA SeenGrowsByOne ==
    ASSUME UploadTypeOK, NEW u \in Sessions, NEW i
    PROVE  Cardinality(chunksSeen[u] \cup {i}) <= Cardinality(chunksSeen[u]) + 1
  <1>1. IsFiniteSet(chunksSeen[u]) /\ Cardinality(chunksSeen[u]) \in Nat BY SeenFinite
  <1>2. Cardinality(chunksSeen[u] \cup {i}) =
            IF i \in chunksSeen[u] THEN Cardinality(chunksSeen[u])
            ELSE Cardinality(chunksSeen[u]) + 1
    BY <1>1, FS_AddElement
  <1> QED BY <1>1, <1>2

(* The invariant holds initially.                                           *)
LEMMA UploadInvInitial == UploadInit => UploadInv
  <1> SUFFICES ASSUME UploadInit PROVE UploadInv OBVIOUS
  <1>1. TotalChunks \in Nat \ {0} BY UploadConstants DEF UploadAssumption
  <1>2. Cardinality({}) = 0 BY FS_EmptySet
  <1>3. UploadTypeOK
    BY DEF UploadInit, UploadTypeOK, Absent, SessionStatuses
  <1>4. UploadAccounting
    BY <1>1, <1>2 DEF UploadInit, UploadAccounting, Absent
  <1>5. Counting
    BY DEF UploadInit, Counting, Absent
  <1> QED BY <1>3, <1>4, <1>5 DEF UploadInv

-----------------------------------------------------------------------------
(* Each handler keeps the invariant.                                        *)
LEMMA CreateKeeps ==
    ASSUME UploadInv, NEW u \in Sessions, CreateSession(u)
    PROVE  UploadInv'
  <1>1. TotalChunks \in Nat \ {0} BY UploadConstants DEF UploadAssumption
  <1>2. chunksSeen[u] = {} /\ Cardinality({}) = 0
    BY FS_EmptySet DEF UploadInv, Counting, CreateSession, Absent
  <1>3. UploadTypeOK'
    BY DEF UploadInv, UploadTypeOK, CreateSession, SessionStatuses
  <1>4. UploadAccounting'
    <2>1. /\ session'[u] = [status |-> "active", received |-> 0]
          /\ \A v \in Sessions \ {u} : session'[v] = session[v]
          /\ chunksSeen' = chunksSeen
      BY DEF UploadInv, UploadTypeOK, CreateSession
    <2>2. /\ session'[u].received = 0 /\ session'[u].status = "active"
          /\ Cardinality(chunksSeen'[u]) = 0
      BY <1>2, <2>1
    <2> QED BY <1>1, <2>1, <2>2 DEF UploadInv, UploadAccounting
  <1>5. Counting'
    BY <1>1 DEF UploadInv, UploadTypeOK, Counting, CreateSession
  <1> QED BY <1>3, <1>4, <1>5 DEF UploadInv

(* Accepting or refusing a chunk keeps it.                                  *)
LEMMA ChunkKeeps ==
    ASSUME UploadInv, NEW u \in Sessions, NEW i \in (-1)..TotalChunks, UploadChunk(u, i)
    PROVE  UploadInv'
  <1>1. TotalChunks \in Nat \ {0} BY UploadConstants DEF UploadAssumption
  <1>2. /\ session[u].received \in Nat /\ session[u].received < TotalChunks
        /\ Cardinality(chunksSeen[u]) <= session[u].received
    BY DEF UploadInv, UploadTypeOK, UploadAccounting, Counting, UploadChunk
  <1>3. /\ Cardinality(chunksSeen[u]) \in Nat
        /\ Cardinality(chunksSeen[u] \cup {i}) <= Cardinality(chunksSeen[u]) + 1
    BY SeenFinite, SeenGrowsByOne DEF UploadInv
  <1>4. i \in ChunkIndices BY <1>1 DEF UploadChunk, ChunkIndices
  <1>5. /\ OneMore(u).received = session[u].received + 1
        /\ OneMore(u).status = IF session[u].received + 1 >= TotalChunks THEN "completed" ELSE "active"
        /\ OneMore(u) \in [status : SessionStatuses, received : Nat]
    BY <1>2 DEF OneMore, UploadChunk, SessionStatuses
  <1>6. UploadTypeOK'
    BY <1>4, <1>5 DEF UploadInv, UploadTypeOK, UploadChunk
  <1>7. /\ session'[u] = OneMore(u) /\ chunksSeen'[u] = chunksSeen[u] \cup {i}
        /\ \A v \in Sessions \ {u} : session'[v] = session[v] /\ chunksSeen'[v] = chunksSeen[v]
    BY DEF UploadInv, UploadTypeOK, UploadChunk
  <1>8. Cardinality(chunksSeen'[u]) <= session[u].received + 1
    <2>1. Cardinality(chunksSeen[u] \cup {i}) \in Nat
      BY SeenFinite, FS_AddElement, FS_CardinalityType DEF UploadInv
    <2> QED BY <1>2, <1>3, <1>7, <2>1
  <1>9. UploadAccounting'
    <2>1. session'[u].received = session[u].received + 1
      BY <1>5, <1>7
    <2>2. (session'[u].status = "completed") <=> (session[u].received + 1 >= TotalChunks)
      BY <1>5, <1>7
    <2>3. /\ session'[u].received <= TotalChunks
          /\ (session'[u].status = "completed") <=> (session'[u].received = TotalChunks)
          /\ Cardinality(chunksSeen'[u]) <= session'[u].received
      BY <1>1, <1>2, <1>8, <2>1, <2>2
    <2> QED BY <1>7, <2>3 DEF UploadInv, UploadAccounting
  <1>10. Counting'
    BY <1>1, <1>2, <1>5, <1>7 DEF UploadInv, Counting
  <1> QED BY <1>6, <1>9, <1>10 DEF UploadInv

(* Aborting a session keeps it.                                             *)
LEMMA AbortKeeps ==
    ASSUME UploadInv, NEW u \in Sessions, AbortSession(u)
    PROVE  UploadInv'
  <1>1. session[u].received \in Nat /\ session[u].received < TotalChunks
    BY DEF UploadInv, UploadTypeOK, Counting, AbortSession
  <1>2. UploadTypeOK'
    BY DEF UploadInv, UploadTypeOK, AbortSession, SessionStatuses
  <1>3. /\ session'[u].status = "aborted" /\ session'[u].received = session[u].received
        /\ \A v \in Sessions \ {u} : session'[v] = session[v]
        /\ chunksSeen' = chunksSeen
    BY DEF UploadInv, UploadTypeOK, AbortSession
  <1>4. TotalChunks \in Nat \ {0} BY UploadConstants DEF UploadAssumption
  <1>5. UploadAccounting'
    BY <1>1, <1>3, <1>4 DEF UploadInv, UploadAccounting
  <1>6. Counting'
    BY <1>3 DEF UploadInv, Counting
  <1> QED BY <1>2, <1>5, <1>6 DEF UploadInv

(* Losing every session in a restart keeps it.                              *)
LEMMA RestartKeeps ==
    ASSUME UploadInv, RestartUploads
    PROVE  UploadInv'
  <1>1. TotalChunks \in Nat \ {0} BY UploadConstants DEF UploadAssumption
  <1>2. Cardinality({}) = 0 BY FS_EmptySet
  <1>3. UploadTypeOK'
    BY DEF UploadTypeOK, RestartUploads, Absent, Forgotten, SessionStatuses
  <1>4. \A u \in Sessions : session'[u] \in {Absent, Forgotten} /\ chunksSeen'[u] = {}
    BY DEF RestartUploads
  <1>5. UploadAccounting'
    BY <1>1, <1>2, <1>4 DEF UploadAccounting, Absent, Forgotten
  <1>6. Counting'
    BY <1>4 DEF Counting, Absent, Forgotten
  <1> QED BY <1>3, <1>5, <1>6 DEF UploadInv

(* So does every step.                                                      *)
LEMMA UploadInvStep == UploadInv /\ [UploadNext]_uploadVars => UploadInv'
  <1> SUFFICES ASSUME UploadInv, [UploadNext]_uploadVars PROVE UploadInv' OBVIOUS
  <1>1. CASE UNCHANGED uploadVars
    BY <1>1 DEF uploadVars, UploadInv, UploadTypeOK, UploadAccounting, Counting
  <1>2. ASSUME NEW u \in Sessions, CreateSession(u) PROVE UploadInv' BY <1>2, CreateKeeps
  <1>3. ASSUME NEW u \in Sessions, AbortSession(u) PROVE UploadInv' BY <1>3, AbortKeeps
  <1>4. ASSUME NEW u \in Sessions, NEW i \in (-1)..TotalChunks, UploadChunk(u, i)
        PROVE  UploadInv'
    BY <1>4, ChunkKeeps
  <1>5. CASE RestartUploads BY <1>5, RestartKeeps
  <1> QED BY <1>1, <1>2, <1>3, <1>4, <1>5 DEF UploadNext

(* The invariant holds in every reachable state of upload-session.ts.       *)
THEOREM UploadInvariant == UploadSpec => []UploadInv
  <1> QED BY UploadInvInitial, UploadInvStep, PTL DEF UploadSpec

(* A session counts every chunk it accepts and none after it has ended, for *)
(* any sessions, any number of chunks, repetitions, aborts and restarts.    *)
THEOREM UploadsAreCounted == UploadSpec => []UploadAccounting
  <1>1. UploadInv => UploadAccounting BY DEF UploadInv
  <1> QED BY <1>1, UploadInvariant, PTL

-----------------------------------------------------------------------------
(***************************************************************************)
(* ServiceLifecycle.  RequestsAreFinished follows from what each shutdown   *)
(* has behind it: no store closes, and no process exits with 0, before a    *)
(* shutdown is past the server, and then the requests that came before the  *)
(* first signal are over.                                                   *)
(***************************************************************************)
Early(t) == OverHttp(t) /\ tasks[t].early
EarlyAreOver == \A t \in Tasks : Early(t) => tasks[t].at = "over"

Handlers == DOMAIN StopOf

(* The stores are closed from here on; the server, if there is one, is.      *)
PastServer(k) ==
    /\ process.service \in Handlers
    /\ \E i \in DOMAIN StopOf[process.service] :
          i < shutdowns[k].at /\ StopOf[process.service][i] = "server"

TaskShapes ==
    \A t \in Tasks : /\ tasks[t].at = "waiting" => tasks[t].left # <<>>
                     /\ tasks[t].at = "none" => ~tasks[t].early

ServerShapes ==
    /\ process.handled => process.service \in Handlers
    /\ process.service = "extraction" => process.server = "down"
    /\ process.server = "down" => \A t \in Tasks : OverHttp(t) => tasks[t].at = "none"
    /\ Signalled => process.handled
    /\ \A k \in Shutdowns : shutdowns[k].at > 0 => shutdowns[k].at <= Len(StopOf[process.service]) + 1

Closings ==
    /\ \A k \in Shutdowns : PastServer(k) => EarlyAreOver
    /\ \A r \in Resources : process.stores[r] # "open" => Signalled /\ EarlyAreOver
    /\ process.ended = "exit 0" => Signalled /\ EarlyAreOver
    /\ \A t \in Tasks : Early(t) => tasks[t].outcome # "cut"

LifecycleInv == LifecycleTypeOK /\ TaskShapes /\ ServerShapes /\ Closings

(* The start of a service installs its handlers before a signal can be one   *)
(* it handles, and the extraction service has no server.                     *)
LEMMA StartFacts ==
    ASSUME NEW s \in Services
    PROVE  /\ Len(StartOf[s]) \in 1..3
           /\ \A i \in 1..Len(StartOf[s]) :
                 /\ StartOf[s][i].needs \in Resources \cup {"nothing"}
                 /\ "handle signals" \in StartOf[s][i].does => s \in Handlers
                 /\ "listen" \in StartOf[s][i].does => s # "extraction"
<1> DEFINE Sound(step) == /\ step.needs \in Resources \cup {"nothing"}
                          /\ "handle signals" \in step.does => s \in Handlers
                          /\ "listen" \in step.does => s # "extraction"
<1> SUFFICES Len(StartOf[s]) \in 1..3 /\ \A i \in 1..Len(StartOf[s]) : Sound(StartOf[s][i])
  OBVIOUS
<1>1. ASSUME NEW a, StartOf[s] = <<a>>, Sound(a)
      PROVE  Len(StartOf[s]) = 1 /\ \A i \in 1..Len(StartOf[s]) : Sound(StartOf[s][i])
  <2> HIDE DEF Sound
  <2> QED BY <1>1
<1>2. ASSUME NEW a, NEW b, StartOf[s] = <<a, b>>, Sound(a), Sound(b)
      PROVE  Len(StartOf[s]) = 2 /\ \A i \in 1..Len(StartOf[s]) : Sound(StartOf[s][i])
  <2> HIDE DEF Sound
  <2> QED BY <1>2
<1>3. ASSUME NEW a, NEW b, NEW c, StartOf[s] = <<a, b, c>>, Sound(a), Sound(b), Sound(c)
      PROVE  Len(StartOf[s]) = 3 /\ \A i \in 1..Len(StartOf[s]) : Sound(StartOf[s][i])
  <2> HIDE DEF Sound
  <2> QED BY <1>3
<1>4. s \in Handlers <=> s \in {"ingestion", "connector", "profile", "extraction", "graph"}
  BY DEF Handlers, StopOf
<1>5. ASSUME NEW needs \in Resources \cup {"nothing"}, NEW does,
             "handle signals" \in does => s \in Handlers, "listen" \in does => s # "extraction"
      PROVE  Sound(Step(needs, does))
  BY <1>5 DEF Step
<1> HIDE DEF Sound
<1>6. Resources \cup {"nothing"} = {"postgres", "redis", "neo4j", "nothing"}
  BY DEF Resources
<1>10. CASE s = "gateway"
  <2> DEFINE a == Step("nothing", {"listen"})
  <2>1. Sound(a)
    BY <1>4, <1>5, <1>6, <1>10
  <2>2. StartOf[s] = <<a>>
    BY <1>10 DEF StartOf, GatewayStart
  <2> HIDE DEF a
  <2> QED BY <2>1, <2>2, <1>1
<1>11. CASE s = "retrieval"
  <2> DEFINE a == Step("nothing", {"listen"})
  <2>1. Sound(a)
    BY <1>4, <1>5, <1>6, <1>11
  <2>2. StartOf[s] = <<a>>
    BY <1>11 DEF StartOf, RetrievalStart
  <2> HIDE DEF a
  <2> QED BY <2>1, <2>2, <1>1
<1>12. CASE s = "evaluation"
  <2> DEFINE a == Step("nothing", {"consume", "listen"})
  <2>1. Sound(a)
    BY <1>4, <1>5, <1>6, <1>12
  <2>2. StartOf[s] = <<a>>
    BY <1>12 DEF StartOf, EvaluationStart
  <2> HIDE DEF a
  <2> QED BY <2>1, <2>2, <1>1
<1>13. CASE s = "ingestion"
  <2> DEFINE a == Step("nothing", {"listen", "handle signals"})
  <2>1. Sound(a)
    BY <1>4, <1>5, <1>6, <1>13
  <2>2. StartOf[s] = <<a>>
    BY <1>13 DEF StartOf, IngestionStart
  <2> HIDE DEF a
  <2> QED BY <2>1, <2>2, <1>1
<1>14. CASE s = "connector"
  <2> DEFINE a == Step("postgres", {"listen", "handle signals"})
  <2>1. Sound(a)
    BY <1>4, <1>5, <1>6, <1>14
  <2>2. StartOf[s] = <<a>>
    BY <1>14 DEF StartOf, ConnectorStart
  <2> HIDE DEF a
  <2> QED BY <2>1, <2>2, <1>1
<1>15. CASE s = "profile"
  <2> DEFINE a == Step("nothing", {"consume", "listen", "handle signals"})
  <2>1. Sound(a)
    BY <1>4, <1>5, <1>6, <1>15
  <2>2. StartOf[s] = <<a>>
    BY <1>15 DEF StartOf, ProfileStart
  <2> HIDE DEF a
  <2> QED BY <2>1, <2>2, <1>1
<1>16. CASE s = "indexing"
  <2> DEFINE a == Step("nothing", {})
             b == Step("redis", {"consume"})
  <2>1. Sound(a)
    BY <1>4, <1>5, <1>6, <1>16
  <2>2. Sound(b)
    BY <1>4, <1>5, <1>6, <1>16
  <2>3. StartOf[s] = <<a, b>>
    BY <1>16 DEF StartOf, IndexingStart
  <2> HIDE DEF a, b
  <2> QED BY <2>1, <2>2, <2>3, <1>2
<1>17. CASE s = "extraction"
  <2> DEFINE a == Step("nothing", {"handle signals"})
             b == Step("postgres", {"consume"})
  <2>1. Sound(a)
    BY <1>4, <1>5, <1>6, <1>17
  <2>2. Sound(b)
    BY <1>4, <1>5, <1>6, <1>17
  <2>3. StartOf[s] = <<a, b>>
    BY <1>17 DEF StartOf, ExtractionStart
  <2> HIDE DEF a, b
  <2> QED BY <2>1, <2>2, <2>3, <1>2
<1>18. CASE s = "graph"
  <2> DEFINE a == Step("nothing", {"handle signals"})
             b == Step("redis", {})
             c == Step("neo4j", {"consume", "listen"})
  <2>1. Sound(a)
    BY <1>4, <1>5, <1>6, <1>18
  <2>2. Sound(b)
    BY <1>4, <1>5, <1>6, <1>18
  <2>3. Sound(c)
    BY <1>4, <1>5, <1>6, <1>18
  <2>4. StartOf[s] = <<a, b, c>>
    BY <1>18 DEF StartOf, GraphStart
  <2> HIDE DEF a, b, c
  <2> QED BY <2>1, <2>2, <2>3, <2>4, <1>3
<1> QED BY <1>10, <1>11, <1>12, <1>13, <1>14, <1>15, <1>16, <1>17, <1>18 DEF Services

(* What a shutdown closes: stores only after the server.                     *)
LEMMA StopFacts ==
    ASSUME NEW s \in Handlers
    PROVE  /\ StopOf[s] \in Seq({"consumer", "server"} \cup Resources)
           /\ Len(StopOf[s]) \in 1..5 /\ DOMAIN StopOf[s] = 1..Len(StopOf[s])
           /\ \A i \in 1..(Len(StopOf[s]) + 1) :
                 /\ s # "extraction"
                 /\ i <= Len(StopOf[s]) => StopOf[s][i] \in Resources
                 => \E j \in 1..Len(StopOf[s]) : j < i /\ StopOf[s][j] = "server"
<1> USE DEF StopOf, IngestionStop, ConnectorStop, ProfileStop, ExtractionStop, GraphStop, Resources,
            Handlers
<1>1. CASE s = "ingestion" BY <1>1
<1>2. CASE s = "connector" BY <1>2
<1>3. CASE s = "profile" BY <1>3
<1>4. CASE s = "extraction" BY <1>4
<1>5. CASE s = "graph" BY <1>5
<1> QED BY <1>1, <1>2, <1>3, <1>4, <1>5

(* The calls of a task are calls of stores.                                  *)
LEMMA CallsTyped ==
    ASSUME NEW service, NEW kind PROVE CallsOf(service, kind) \in Seq(Resources)
<1>1. /\ <<>> \in Seq(Resources) /\ <<"postgres">> \in Seq(Resources) /\ <<"neo4j">> \in Seq(Resources)
      /\ <<"postgres", "redis">> \in Seq(Resources) /\ <<"neo4j", "redis">> \in Seq(Resources)
  BY DEF Resources
<1>2. ChecksOf(service) \in {<<>>, <<"postgres">>, <<"postgres", "redis">>}
  BY DEF ChecksOf
<1>3. CallsOf(service, kind) \in {ChecksOf(service), <<>>, <<"postgres">>, <<"neo4j">>,
                                 <<"postgres", "redis">>, <<"neo4j", "redis">>}
  BY DEF CallsOf
<1> QED BY <1>1, <1>2, <1>3

(* The types of the three variables.                                         *)
ProcessType ==
    [service : LiveServices, started : 0..3, handled : BOOLEAN,
     server : {"down", "listening", "closing", "closed"}, consuming : BOOLEAN,
     stores : [Resources -> {"open", "closing", "closed"}], faults : 0..MaxLifeFaults, ended : Exits]
ShutdownType == [at : 0..6, waiting : BOOLEAN]
TaskType == [at : {"none", "ready", "waiting", "over"}, early : BOOLEAN,
             left : Seq(Resources), outcome : {"fine", "failed", "cut"}]

LifecycleTypes ==
    process \in ProcessType /\ shutdowns \in [Shutdowns -> ShutdownType] /\ tasks \in [Tasks -> TaskType]

(* Every step keeps the types.                                               *)
LEMMA LifecycleTyped ==
    ASSUME LifecycleTypeOK, TaskShapes, ServerShapes, [LifecycleNext]_lifeVars
    PROVE  LifecycleTypeOK'
<1>a. LifecycleTypes
  BY DEF LifecycleTypeOK, LifecycleTypes, ProcessType, ShutdownType, TaskType
<1>b. SUFFICES LifecycleTypes'
  BY DEF LifecycleTypeOK, LifecycleTypes, ProcessType, ShutdownType, TaskType
<1>d. process \in ProcessType /\ shutdowns \in [Shutdowns -> ShutdownType] /\ tasks \in [Tasks -> TaskType]
  BY <1>a DEF LifecycleTypes
<1>s. process.service \in Services
  BY <1>d, LifecycleConstants DEF ProcessType, LifecycleAssumption
<1>r. ASSUME NEW t \in Tasks, tasks[t].left # <<>>
      PROVE  Head(tasks[t].left) \in Resources /\ Tail(tasks[t].left) \in Seq(Resources)
  <2>1. tasks[t].left \in Seq(Resources)
    BY <1>d DEF TaskType
  <2> QED BY <1>r, <2>1
<1>w. ASSUME NEW t \in Tasks, NEW outcome \in {"fine", "failed", "cut"}, tasks[t].left # <<>>
      PROVE  Rejected(t, outcome) \in TaskType
  BY <1>d, <1>r, <1>w DEF Rejected, Finish, TaskType
<1>t. ASSUME NEW t \in Tasks, NEW x \in TaskType, tasks' = [tasks EXCEPT ![t] = x]
      PROVE  tasks' \in [Tasks -> TaskType]
  BY <1>d, <1>t
<1>c. ASSUME NEW k \in Shutdowns, NEW what, Closing(k, what)
      PROVE  shutdowns[k].at \in 1..5
  <2>1. process.service \in Handlers
    BY <1>c DEF Closing, ServerShapes, Signalled, Handlers
  <2> QED BY <1>c, <2>1, StopFacts DEF Closing
<1>n. ASSUME NEW k \in Shutdowns, NextItem(k) \/ Wait(k), shutdowns[k].at \in 1..5
      PROVE  shutdowns' \in [Shutdowns -> ShutdownType]
  <2>1. shutdowns[k] \in ShutdownType
    BY <1>d
  <2>2. shutdowns[k].at + 1 \in 0..6
    BY <1>n
  <2>3. CASE NextItem(k)
    BY <1>d, <2>2, <2>3 DEF NextItem, ShutdownType
  <2>4. CASE Wait(k)
    BY <1>d, <2>1, <2>4 DEF Wait, ShutdownType
  <2> QED BY <1>n, <2>3, <2>4
<1>e. ASSUME NEW how \in Exits, Exit(how) PROVE process' \in ProcessType
  BY <1>d, <1>e DEF Exit, ProcessType
<1>1. CASE Start
  <2> DEFINE step == StartOf[process.service][process.started + 1]
  <2>1. process.started + 1 \in 0..3
    <3>1. Len(StartOf[process.service]) \in 1..3
      BY <1>s, StartFacts
    <3>2. process.started \in 0..3
      BY <1>d DEF ProcessType
    <3> QED BY <1>1, <3>1, <3>2 DEF Start
  <2>2. process' \in ProcessType
    BY <1>1, <1>d, <2>1 DEF Start, ProcessType
  <2> QED BY <1>1, <1>d, <2>2 DEF Start, LifecycleTypes
<1>2. CASE StartFails \/ ExitForced
  BY <1>2, <1>d, <1>e DEF StartFails, ExitForced, Exits, LifecycleTypes
<1>3. ASSUME NEW t \in Tasks, Accept(t) PROVE LifecycleTypes'
  <2>1. [at |-> "ready", early |-> ~Signalled, outcome |-> "fine",
         left |-> CallsOf(process.service, TaskKind[t])] \in TaskType
    BY CallsTyped DEF TaskType
  <2> QED BY <1>3, <1>d, <1>t, <2>1 DEF Accept, LifecycleTypes
<1>4. ASSUME NEW t \in Tasks, Call(t) PROVE LifecycleTypes'
  <2>1. [tasks[t] EXCEPT !.at = "waiting"] \in TaskType
    BY <1>d DEF TaskType
  <2> QED BY <1>4, <1>d, <1>t, <1>w, <2>1 DEF Call, LifecycleTypes
<1>5. ASSUME NEW t \in Tasks, CallReturns(t) PROVE LifecycleTypes'
  <2>1. Tail(tasks[t].left) \in Seq(Resources)
    BY <1>5, <1>r DEF CallReturns, TaskShapes
  <2> DEFINE x == [tasks[t] EXCEPT !.at = "ready", !.left = Tail(tasks[t].left)]
  <2>2. x \in TaskType
    BY <1>d, <2>1 DEF TaskType
  <2>3. tasks' = [tasks EXCEPT ![t] = x]
    BY <1>5, <1>d DEF CallReturns, TaskType
  <2> HIDE DEF x
  <2> QED BY <1>5, <1>d, <1>t, <2>2, <2>3 DEF CallReturns, LifecycleTypes
<1>6. ASSUME NEW t \in Tasks, CallRejects(t) PROVE LifecycleTypes'
  <2>1. Rejected(t, "failed") \in TaskType
    BY <1>6, <1>w DEF CallRejects, TaskShapes
  <2>2. process' \in ProcessType
    BY <1>6, <1>d, LifecycleConstants DEF CallRejects, ProcessType, LifecycleAssumption
  <2> QED BY <1>6, <1>d, <1>t, <2>1, <2>2 DEF CallRejects, LifecycleTypes
<1>7. ASSUME NEW t \in Tasks, CompleteTask(t) PROVE LifecycleTypes'
  BY <1>7, <1>d DEF CompleteTask, LifecycleTypes, TaskType
<1>8. ASSUME NEW k \in Shutdowns, Signal(k) PROVE LifecycleTypes'
  <2>1. CASE Exit("killed") /\ UNCHANGED shutdowns
    BY <1>8, <1>d, <1>e, <2>1 DEF Signal, Exits, LifecycleTypes
  <2>2. CASE shutdowns' = [shutdowns EXCEPT ![k].at = 1] /\ UNCHANGED process
    <3>1. [shutdowns[k] EXCEPT !.at = 1] \in ShutdownType
      BY <1>d DEF ShutdownType
    <3> QED BY <1>8, <1>d, <2>2, <3>1 DEF Signal, LifecycleTypes
  <2> QED BY <1>8, <2>1, <2>2 DEF Signal
<1>9. ASSUME NEW k \in Shutdowns, StopConsumer(k) PROVE LifecycleTypes'
  BY <1>9, <1>c, <1>d, <1>n DEF StopConsumer, LifecycleTypes, ProcessType
<1>10. ASSUME NEW k \in Shutdowns, CloseServer(k) PROVE LifecycleTypes'
  <2>1. process' \in ProcessType
    BY <1>10, <1>d DEF CloseServer, ProcessType
  <2> QED BY <1>10, <1>c, <1>d, <1>n, <2>1 DEF CloseServer, LifecycleTypes
<1>11. ASSUME NEW k \in Shutdowns, ServerIsClosed(k) PROVE LifecycleTypes'
  BY <1>11, <1>c, <1>d, <1>n DEF ServerIsClosed, LifecycleTypes, ProcessType
<1>12. ASSUME NEW k \in Shutdowns, ExitCleanly(k) PROVE LifecycleTypes'
  BY <1>12, <1>d, <1>e DEF ExitCleanly, Exits, LifecycleTypes
<1>x. ASSUME NEW r \in Resources, NEW x \in {"open", "closing", "closed"},
             process' = [process EXCEPT !.stores[r] = x]
      PROVE  process' \in ProcessType
  <2>1. [process.stores EXCEPT ![r] = x] \in [Resources -> {"open", "closing", "closed"}]
    BY <1>d DEF ProcessType
  <2> QED BY <1>x, <1>d, <2>1 DEF ProcessType
<1>13. ASSUME NEW k \in Shutdowns, NEW r \in Resources, CloseStore(k, r) PROVE LifecycleTypes'
  <2> DEFINE x == IF process.stores[r] = "open" THEN "closing" ELSE process.stores[r]
  <2>1. x \in {"open", "closing", "closed"}
    BY <1>d DEF ProcessType
  <2>2. CASE process' = [process EXCEPT !.stores[r] = x] /\ Wait(k)
    BY <1>13, <1>c, <1>d, <1>n, <1>x, <2>1, <2>2 DEF CloseStore, LifecycleTypes
  <2>3. CASE Exit("exit 1") /\ UNCHANGED shutdowns
    BY <1>13, <1>d, <1>e, <2>3 DEF CloseStore, LifecycleTypes, Exits
  <2> QED BY <1>13, <2>2, <2>3 DEF CloseStore
<1>14. ASSUME NEW k \in Shutdowns, NEW r \in Resources, StoreIsClosed(k, r) PROVE LifecycleTypes'
  BY <1>14, <1>c, <1>d, <1>n DEF StoreIsClosed, LifecycleTypes
<1>15. ASSUME NEW r \in Resources, StoreCloses(r) PROVE LifecycleTypes'
  <2>1. tasks' \in [Tasks -> TaskType]
    BY <1>15, <1>d, <1>w DEF StoreCloses, TaskShapes
  <2> QED BY <1>15, <1>d, <1>x, <2>1 DEF StoreCloses, LifecycleTypes
<1>16. CASE UNCHANGED lifeVars
  BY <1>16, <1>d DEF lifeVars, LifecycleTypes
<1> QED BY <1>1, <1>2, <1>3, <1>4, <1>5, <1>6, <1>7, <1>8, <1>9, <1>10, <1>11, <1>12, <1>13, <1>14,
           <1>15, <1>16 DEF LifecycleNext

(* A rejected call leaves a task neither unborn nor waiting, and as early as *)
(* it was; only a call on a closed store cuts it off.                        *)
LEMMA RejectedFacts ==
    ASSUME LifecycleTypeOK, NEW t \in Tasks, NEW outcome
    PROVE  /\ Rejected(t, outcome).at \in {"ready", "over"}
           /\ Rejected(t, outcome).early = tasks[t].early
           /\ Rejected(t, outcome).outcome = outcome
<1>1. tasks[t] \in TaskType
  BY DEF LifecycleTypeOK, TaskType
<1> QED BY <1>1 DEF Rejected, Finish, TaskType

(* What a step may do to a task: it is accepted, or goes on.                 *)
TasksGoOn ==
    \A t \in Tasks :
        \/ tasks'[t] = tasks[t]
        \/ /\ tasks[t].at = "none" /\ tasks'[t].at = "ready" /\ tasks'[t].early = ~Signalled
           /\ OverHttp(t) => process.server = "listening"
           /\ tasks'[t].outcome = "fine"
        \/ /\ tasks[t].at \in {"ready", "waiting"} /\ tasks'[t].at # "none"
           /\ tasks'[t].at = "waiting" => tasks'[t].left # <<>>
           /\ tasks'[t].early = tasks[t].early
           /\ \/ tasks'[t].outcome \in {tasks[t].outcome, "failed"}
              \/ \E r \in Resources : process.stores[r] # "open"

(* Every step does.                                                          *)
LEMMA TasksMove ==
    ASSUME LifecycleTypeOK, TaskShapes, [LifecycleNext]_lifeVars
    PROVE  TasksGoOn
<1>t. ASSUME NEW t \in Tasks
      PROVE  tasks[t] \in TaskType
  BY DEF LifecycleTypeOK, TaskType
<1>d. DOMAIN tasks = Tasks
  BY DEF LifecycleTypeOK
<1>0. CASE UNCHANGED tasks
  BY <1>0 DEF TasksGoOn
<1>1. ASSUME NEW t \in Tasks, Accept(t) PROVE TasksGoOn
  BY <1>1, <1>d DEF Accept, OverHttp, TasksGoOn
<1>2. ASSUME NEW t \in Tasks, Call(t) PROVE TasksGoOn
  <2>1. Head(tasks[t].left) \in Resources
    <3>1. tasks[t].left \in Seq(Resources)
      BY <1>t DEF TaskType
    <3> QED BY <1>2, <3>1 DEF Call
  <2>2. CASE process.stores[Head(tasks[t].left)] = "open"
    <3> DEFINE x == [tasks[t] EXCEPT !.at = "waiting"]
    <3>1. /\ x.at = "waiting" /\ x.early = tasks[t].early /\ x.left = tasks[t].left
          /\ x.outcome = tasks[t].outcome
      BY <1>t DEF TaskType
    <3>2. tasks' = [tasks EXCEPT ![t] = x]
      BY <1>2, <2>2, <1>d DEF Call
    <3> HIDE DEF x
    <3> QED BY <1>2, <1>d, <3>1, <3>2 DEF Call, TasksGoOn
  <2>3. CASE process.stores[Head(tasks[t].left)] # "open"
    <3>1. tasks' = [tasks EXCEPT ![t] = Rejected(t, "cut")]
      BY <1>2, <2>3, <1>d DEF Call
    <3> QED BY <1>2, <1>d, <2>1, <2>3, <3>1, RejectedFacts DEF Call, TasksGoOn
  <2> QED BY <2>2, <2>3
<1>3. ASSUME NEW t \in Tasks, CallReturns(t) PROVE TasksGoOn
  BY <1>3, <1>d, <1>t DEF CallReturns, TasksGoOn, TaskType
<1>4. ASSUME NEW t \in Tasks, CallRejects(t) PROVE TasksGoOn
  BY <1>4, <1>d, RejectedFacts DEF CallRejects, TasksGoOn
<1>5. ASSUME NEW t \in Tasks, CompleteTask(t) PROVE TasksGoOn
  BY <1>5, <1>d, <1>t DEF CompleteTask, TasksGoOn, TaskType
<1>6. ASSUME NEW r \in Resources, StoreCloses(r) PROVE TasksGoOn
  BY <1>6, <1>d, RejectedFacts DEF StoreCloses, TasksGoOn
<1> QED BY <1>0, <1>1, <1>2, <1>3, <1>4, <1>5, <1>6 DEF LifecycleNext, lifeVars, Start, StartFails,
           ExitForced, Signal, StopConsumer, CloseServer, ServerIsClosed, ExitCleanly, CloseStore, StoreIsClosed

(* What a step may do to the process: its service stays, a server is never   *)
(* "down" again, a store is closed by a shutdown that has come to it, and    *)
(* exit(0) is called by one that is through.                                 *)
ProcessGoesOn ==
    /\ process'.service = process.service
    /\ process.handled => process'.handled
    /\ process'.handled => process.handled \/ process.service \in Handlers
    /\ process'.server = "down" => process.server = "down"
    /\ process.server = "down" /\ process.service = "extraction" => process'.server = "down"
    /\ \A r \in Resources : process'.stores[r] # "open" =>
          process.stores[r] # "open" \/ \E k \in Shutdowns : Closing(k, r)
    /\ process'.ended = "exit 0" => \E k \in Shutdowns :
          shutdowns[k].at > 0 /\ shutdowns[k].at > Len(StopOf[process.service])

(* A shutdown begins where the signals are handled, or goes on to the next   *)
(* item; past the server, no request is under way, or there is no server.    *)
ShutdownsGoOn ==
    \A k \in Shutdowns :
        \/ shutdowns'[k].at = shutdowns[k].at
        \/ shutdowns[k].at = 0 /\ shutdowns'[k].at = 1 /\ process.handled
        \/ /\ \E what : Closing(k, what)
           /\ shutdowns'[k].at = shutdowns[k].at + 1
           /\ Closing(k, "server") =>
                 process.server = "down" \/ \A t \in Tasks : OverHttp(t) => ~UnderWay(t)

(* Every step does; none follows once the process has ended.                 *)
LEMMA ProcessMoves ==
    ASSUME LifecycleTypeOK, LifecycleNext
    PROVE  Running /\ ProcessGoesOn /\ ShutdownsGoOn
<1>p. process \in ProcessType /\ process.stores \in [Resources -> {"open", "closing", "closed"}]
  BY DEF LifecycleTypeOK, ProcessType
<1>k. DOMAIN shutdowns = Shutdowns /\ \A k \in Shutdowns : shutdowns[k] \in ShutdownType
  BY DEF LifecycleTypeOK, ShutdownType
<1>s. process.service \in Services
  BY <1>p, LifecycleConstants DEF ProcessType, LifecycleAssumption
<1>e. ASSUME NEW how, Exit(how), Running, UNCHANGED shutdowns,
             how = "exit 0" => \E k \in Shutdowns :
                 shutdowns[k].at > 0 /\ shutdowns[k].at > Len(StopOf[process.service])
      PROVE  Running /\ ProcessGoesOn /\ ShutdownsGoOn
  BY <1>e, <1>p DEF Exit, ProcessGoesOn, ShutdownsGoOn, ProcessType
<1>0. ASSUME UNCHANGED process, Running PROVE ProcessGoesOn
  BY <1>0 DEF ProcessGoesOn, Running
<1>u. ASSUME UNCHANGED shutdowns PROVE ShutdownsGoOn
  BY <1>u DEF ShutdownsGoOn
<1>n. ASSUME NEW k \in Shutdowns, NEW what, Closing(k, what), NextItem(k),
             what = "server" =>
                 process.server = "down" \/ \A t \in Tasks : OverHttp(t) => ~UnderWay(t)
      PROVE  ShutdownsGoOn
  <2>1. \A j \in Shutdowns \ {k} : shutdowns'[j] = shutdowns[j]
    BY <1>k, <1>n DEF NextItem
  <2>2. shutdowns'[k].at = shutdowns[k].at + 1
    BY <1>k, <1>n DEF NextItem
  <2>3. Closing(k, "server") => what = "server"
    BY <1>n DEF Closing
  <2> QED BY <1>n, <2>1, <2>2, <2>3 DEF ShutdownsGoOn
<1>w. ASSUME NEW k \in Shutdowns, Wait(k) PROVE ShutdownsGoOn
  BY <1>k, <1>w DEF Wait, ShutdownsGoOn, ShutdownType
<1>1. CASE Start
  <2> DEFINE step == StartOf[process.service][process.started + 1]
  <2>1. process.started + 1 \in 1..Len(StartOf[process.service])
    <3>1. Len(StartOf[process.service]) \in 1..3
      BY <1>s, StartFacts
    <3>2. process.started \in 0..3
      BY <1>p DEF ProcessType
    <3> QED BY <1>1, <3>1, <3>2 DEF Start
  <2>2. /\ "handle signals" \in step.does => process.service \in Handlers
        /\ "listen" \in step.does => process.service # "extraction"
    BY <1>s, <2>1, StartFacts
  <2> HIDE DEF step
  <2>3. process' = [process EXCEPT !.started = @ + 1, !.handled = @ \/ "handle signals" \in step.does,
                          !.server = IF "listen" \in step.does THEN "listening" ELSE @,
                          !.consuming = @ \/ "consume" \in step.does]
    BY <1>1 DEF Start, step
  <2>4. /\ process'.service = process.service /\ process'.stores = process.stores
        /\ process'.ended = process.ended
        /\ process'.handled <=> (process.handled \/ "handle signals" \in step.does)
        /\ process'.server = IF "listen" \in step.does THEN "listening" ELSE process.server
    BY <1>p, <2>3 DEF ProcessType
  <2>5. ProcessGoesOn
    <3>1. process.ended = "running"
      BY <1>1 DEF Start, Running
    <3> QED BY <2>2, <2>4, <3>1 DEF ProcessGoesOn
  <2> QED BY <1>1, <1>u, <2>5 DEF Start
<1>2. CASE StartFails \/ ExitForced
  BY <1>2, <1>e DEF StartFails, ExitForced
<1>3. ASSUME NEW t \in Tasks, Accept(t) \/ Call(t) \/ CallReturns(t) \/ CompleteTask(t)
      PROVE  Running /\ ProcessGoesOn /\ ShutdownsGoOn
  BY <1>0, <1>u, <1>3 DEF Accept, Call, CallReturns, CompleteTask
<1>4. ASSUME NEW t \in Tasks, CallRejects(t) PROVE Running /\ ProcessGoesOn /\ ShutdownsGoOn
  BY <1>u, <1>4, <1>p DEF CallRejects, ProcessGoesOn, ProcessType, Running
<1>5. ASSUME NEW k \in Shutdowns, Signal(k) PROVE Running /\ ProcessGoesOn /\ ShutdownsGoOn
  <2>1. CASE process.handled
    <3>1. /\ shutdowns' = [shutdowns EXCEPT ![k] = [shutdowns[k] EXCEPT !.at = 1]]
          /\ UNCHANGED process /\ Running /\ shutdowns[k].at = 0
      BY <1>5, <2>1 DEF Signal
    <3>2. shutdowns'[k].at = 1 /\ \A j \in Shutdowns \ {k} : shutdowns'[j] = shutdowns[j]
      BY <1>k, <3>1 DEF ShutdownType
    <3> QED BY <1>0, <2>1, <3>1, <3>2 DEF ShutdownsGoOn
  <2> QED BY <1>5, <1>e, <2>1 DEF Signal
<1>6. ASSUME NEW k \in Shutdowns, StopConsumer(k) PROVE Running /\ ProcessGoesOn /\ ShutdownsGoOn
  BY <1>6, <1>n, <1>p DEF StopConsumer, Closing, ProcessGoesOn, ProcessType, Running
<1>7. ASSUME NEW k \in Shutdowns, CloseServer(k) PROVE Running /\ ProcessGoesOn /\ ShutdownsGoOn
  <2>1. CASE process.server = "down"
    BY <1>7, <1>0, <1>n, <2>1 DEF CloseServer, Closing
  <2>2. CASE process.server # "down"
    BY <1>7, <1>w, <1>p, <2>2 DEF CloseServer, Closing, ProcessGoesOn, ProcessType, Running
  <2> QED BY <2>1, <2>2
<1>8. ASSUME NEW k \in Shutdowns, ServerIsClosed(k) PROVE Running /\ ProcessGoesOn /\ ShutdownsGoOn
  <2>1. Running /\ ProcessGoesOn
    <3>1. process.service # "extraction"
      BY <1>8 DEF ServerIsClosed, Closing, StopOf, ExtractionStop
    <3> QED BY <1>8, <1>p, <3>1 DEF ServerIsClosed, Closing, ProcessGoesOn, ProcessType, Running
  <2> QED BY <1>8, <1>n, <2>1 DEF ServerIsClosed
<1>9. ASSUME NEW k \in Shutdowns, ExitCleanly(k) PROVE Running /\ ProcessGoesOn /\ ShutdownsGoOn
  BY <1>9, <1>e DEF ExitCleanly
<1>10. ASSUME NEW k \in Shutdowns, NEW r \in Resources, CloseStore(k, r)
       PROVE  Running /\ ProcessGoesOn /\ ShutdownsGoOn
  <2>1. CASE Exit("exit 1") /\ UNCHANGED shutdowns
    BY <1>10, <1>e, <2>1 DEF CloseStore, Closing
  <2>2. CASE /\ process' = [process EXCEPT !.stores[r] = IF @ = "open" THEN "closing" ELSE @]
             /\ Wait(k)
    BY <1>10, <1>w, <1>p, <2>2 DEF CloseStore, Closing, ProcessGoesOn, ProcessType, Running
  <2> QED BY <1>10, <2>1, <2>2 DEF CloseStore
<1>11. ASSUME NEW k \in Shutdowns, NEW r \in Resources, StoreIsClosed(k, r)
       PROVE  Running /\ ProcessGoesOn /\ ShutdownsGoOn
  BY <1>11, <1>0, <1>n DEF StoreIsClosed, Closing, Resources
<1>12. ASSUME NEW r \in Resources, StoreCloses(r) PROVE Running /\ ProcessGoesOn /\ ShutdownsGoOn
  BY <1>12, <1>u, <1>p DEF StoreCloses, ProcessGoesOn, ProcessType, Running
<1> QED BY <1>1, <1>2, <1>3, <1>4, <1>5, <1>6, <1>7, <1>8, <1>9, <1>10, <1>11, <1>12 DEF LifecycleNext

(* The shapes of tasks and of the process are kept.                          *)
LEMMA ShapesKept ==
    ASSUME LifecycleTypeOK, TaskShapes, ServerShapes, LifecycleNext
    PROVE  TaskShapes' /\ ServerShapes'
<1>1. TasksGoOn /\ Running /\ ProcessGoesOn /\ ShutdownsGoOn
  BY TasksMove, ProcessMoves
<1>2. LifecycleTypeOK'
  BY LifecycleTyped
<1>k. \A k \in Shutdowns : shutdowns[k].at \in 0..6 /\ shutdowns'[k].at \in 0..6
  BY <1>2 DEF LifecycleTypeOK
<1>3. \A k \in Shutdowns : shutdowns'[k].at > 0 => shutdowns[k].at > 0 \/ process.handled
  BY <1>1 DEF ShutdownsGoOn, Closing
<1>4. process.handled => process.service \in Handlers
  BY DEF ServerShapes
<1>5. TaskShapes'
  <2>1. ASSUME NEW t \in Tasks
        PROVE  (tasks'[t].at = "waiting" => tasks'[t].left # <<>>) /\ (tasks'[t].at = "none" => ~tasks'[t].early)
    BY <1>1 DEF TasksGoOn, TaskShapes
  <2> QED BY <2>1 DEF TaskShapes
<1>6. process'.server = "down" => \A t \in Tasks : OverHttp(t) => tasks'[t].at = "none"
  <2> SUFFICES ASSUME process'.server = "down", NEW t \in Tasks, OverHttp(t) PROVE tasks'[t].at = "none"
    OBVIOUS
  <2>1. process.server = "down" /\ tasks[t].at = "none"
    BY <1>1 DEF ProcessGoesOn, ServerShapes
  <2> QED BY <1>1, <2>1 DEF TasksGoOn
<1>7. Signalled' => process'.handled
  BY <1>1, <1>3 DEF Signalled, ServerShapes, ProcessGoesOn
<1>8. ASSUME NEW k \in Shutdowns, shutdowns'[k].at > 0
      PROVE  shutdowns'[k].at <= Len(StopOf[process.service]) + 1
  <2>1. process.service \in Handlers
    BY <1>3, <1>4, <1>8 DEF ServerShapes, Signalled
  <2>2. Len(StopOf[process.service]) \in 1..5 /\ DOMAIN StopOf[process.service] = 1..Len(StopOf[process.service])
    BY <2>1, StopFacts
  <2>3. CASE shutdowns'[k].at = shutdowns[k].at
    BY <1>8, <2>3 DEF ServerShapes
  <2>4. CASE shutdowns'[k].at = 1
    BY <2>2, <2>4
  <2>5. CASE (\E what : Closing(k, what)) /\ shutdowns'[k].at = shutdowns[k].at + 1
    <3>1. shutdowns[k].at \in 1..Len(StopOf[process.service])
      BY <2>2, <2>5 DEF Closing
    <3> QED BY <2>2, <2>5, <3>1
  <2> QED BY <1>1, <2>3, <2>4, <2>5 DEF ShutdownsGoOn
<1>9. ServerShapes'
  BY <1>1, <1>4, <1>6, <1>7, <1>8 DEF ServerShapes, ProcessGoesOn, OverHttp
<1> QED BY <1>5, <1>9

(* So is what the closings rest on.                                          *)
LEMMA ClosingsKept ==
    ASSUME LifecycleInv, LifecycleNext
    PROVE  Closings'
<1>1. TasksGoOn /\ Running /\ ProcessGoesOn /\ ShutdownsGoOn
  BY TasksMove, ProcessMoves DEF LifecycleInv
<1>2. TaskShapes /\ ServerShapes /\ Closings /\ LifecycleTypeOK
  BY DEF LifecycleInv
<1>k. \A k \in Shutdowns : shutdowns[k].at \in 0..6
  BY <1>2 DEF LifecycleTypeOK
<1>3. ASSUME Signalled, EarlyAreOver PROVE EarlyAreOver'
  <2> SUFFICES ASSUME NEW t \in Tasks, Early(t)' PROVE tasks'[t].at = "over"
    BY DEF EarlyAreOver
  <2> QED BY <1>1, <1>3 DEF TasksGoOn, Early, OverHttp, EarlyAreOver
<1>4. ASSUME Signalled PROVE Signalled'
  BY <1>1, <1>4, <1>k DEF Signalled, ShutdownsGoOn, Closing
<1>5. ASSUME NEW k \in Shutdowns, PastServer(k) PROVE Signalled /\ EarlyAreOver
  <2>1. shutdowns[k].at > 0
    <3>1. PICK i \in DOMAIN StopOf[process.service] : i < shutdowns[k].at
      BY <1>5 DEF PastServer
    <3>2. i \in 1..Len(StopOf[process.service]) /\ Len(StopOf[process.service]) \in 1..5
      BY <1>5, StopFacts DEF PastServer
    <3> QED BY <1>k, <3>1, <3>2
  <2> QED BY <1>2, <1>5, <2>1 DEF Signalled, Closings
(* No request comes early to a process without a server.                     *)
<1>6. ASSUME process.server = "down" PROVE EarlyAreOver
  BY <1>2, <1>6 DEF EarlyAreOver, Early, TaskShapes, ServerShapes
(* A shutdown at a store, or through, has the server behind it.              *)
<1>7. ASSUME NEW k \in Shutdowns, shutdowns[k].at > 0,
             \/ \E r \in Resources : Closing(k, r)
             \/ shutdowns[k].at > Len(StopOf[process.service])
      PROVE  Signalled /\ EarlyAreOver
  <2>1. Signalled
    BY <1>7 DEF Signalled
  <2>2. process.service \in Handlers
    BY <1>2, <2>1 DEF ServerShapes
  <2>3. CASE process.service = "extraction"
    BY <1>2, <1>6, <2>1, <2>3 DEF ServerShapes
  <2>4. CASE process.service # "extraction"
    <3> DEFINE stops == StopOf[process.service]
               i == shutdowns[k].at
    <3>1. Len(stops) \in 1..5 /\ DOMAIN stops = 1..Len(stops)
      BY <2>2, StopFacts
    <3>2. i \in 1..(Len(stops) + 1) /\ (i <= Len(stops) => stops[i] \in Resources)
      BY <1>2, <1>7, <1>k, <3>1 DEF ServerShapes, Closing
    <3>3. \E j \in 1..Len(stops) : j < i /\ stops[j] = "server"
      BY <2>2, <2>4, <3>2, StopFacts
    <3> QED BY <1>5, <2>2, <3>1, <3>3 DEF PastServer
  <2> QED BY <2>3, <2>4
<1>8. ASSUME NEW k \in Shutdowns, PastServer(k)' PROVE Signalled /\ EarlyAreOver
  <2> DEFINE stops == StopOf[process.service]
  <2>1. process.service \in Handlers
    BY <1>1, <1>8 DEF PastServer, ProcessGoesOn
  <2>2. Len(stops) \in 1..5 /\ DOMAIN stops = 1..Len(stops)
    BY <2>1, StopFacts
  <2>3. PICK i \in 1..Len(stops) : i < shutdowns'[k].at /\ stops[i] = "server"
    BY <1>1, <1>8, <2>2 DEF PastServer, ProcessGoesOn
  <2>4. CASE i < shutdowns[k].at
    BY <1>5, <2>1, <2>2, <2>3, <2>4 DEF PastServer
  <2>5. CASE ~(i < shutdowns[k].at)
    <3>1. (\E what : Closing(k, what)) /\ shutdowns'[k].at = shutdowns[k].at + 1
      <4>1. i \in Nat /\ i > 0
        BY <2>2
      <4>2. shutdowns[k].at \in Nat /\ shutdowns'[k].at # shutdowns[k].at /\ ~(shutdowns'[k].at = 1)
        BY <1>k, <2>3, <2>5, <4>1
      <4> QED BY <1>1, <4>2 DEF ShutdownsGoOn
    <3>2. shutdowns[k].at = i
      BY <1>k, <2>3, <2>5, <3>1
    <3>3. Closing(k, "server")
      BY <2>3, <3>1, <3>2 DEF Closing
    <3>4. process.server = "down" \/ \A t \in Tasks : OverHttp(t) => ~UnderWay(t)
      <4>1. shutdowns[k].at > 0 /\ shutdowns[k].at \in Nat
        BY <1>k, <3>3 DEF Closing
      <4> QED BY <1>1, <3>1, <3>3, <4>1 DEF ShutdownsGoOn
    <3>5. ASSUME \A t \in Tasks : OverHttp(t) => ~UnderWay(t) PROVE EarlyAreOver
      <4> SUFFICES ASSUME NEW t \in Tasks, Early(t) PROVE tasks[t].at = "over"
        BY DEF EarlyAreOver
      <4>1. tasks[t].at \in {"none", "ready", "waiting", "over"}
        BY <1>2 DEF LifecycleTypeOK
      <4> QED BY <1>2, <3>5, <4>1 DEF Early, UnderWay, TaskShapes
    <3> QED BY <1>6, <3>3, <3>4, <3>5 DEF Closing, Signalled
  <2> QED BY <2>4, <2>5
<1>9. \A k \in Shutdowns : PastServer(k)' => EarlyAreOver'
  BY <1>3, <1>8
<1>10. ASSUME NEW r \in Resources, process'.stores[r] # "open" PROVE Signalled' /\ EarlyAreOver'
  BY <1>1, <1>2, <1>3, <1>4, <1>7, <1>10 DEF ProcessGoesOn, Closings, Closing
<1>11. process'.ended = "exit 0" => Signalled' /\ EarlyAreOver'
  BY <1>1, <1>3, <1>4, <1>7 DEF ProcessGoesOn
<1>12. ASSUME NEW t \in Tasks, Early(t)' PROVE tasks'[t].outcome # "cut"
  <2>1. CASE tasks'[t] = tasks[t]
    BY <1>2, <1>12, <2>1 DEF Early, OverHttp, Closings
  <2>2. CASE tasks'[t].outcome = "fine"
    BY <2>2
  <2>3. CASE /\ tasks[t].at \in {"ready", "waiting"} /\ tasks'[t].early = tasks[t].early
             /\ \/ tasks'[t].outcome \in {tasks[t].outcome, "failed"}
                \/ \E r \in Resources : process.stores[r] # "open"
    <3>1. Early(t) /\ tasks[t].outcome # "cut"
      BY <1>2, <1>12, <2>3 DEF Early, OverHttp, Closings
    <3>2. ~ \E r \in Resources : process.stores[r] # "open"
      BY <1>2, <2>3, <3>1 DEF Closings, EarlyAreOver
    <3> QED BY <2>3, <3>1, <3>2
  <2> QED BY <1>1, <2>1, <2>2, <2>3 DEF TasksGoOn
<1> QED BY <1>9, <1>10, <1>11, <1>12 DEF Closings

(* The invariant is inductive.                                               *)
LEMMA LifecycleInvStep == LifecycleInv /\ [LifecycleNext]_lifeVars => LifecycleInv'
<1> SUFFICES ASSUME LifecycleInv, [LifecycleNext]_lifeVars PROVE LifecycleInv'
  OBVIOUS
<1>1. CASE LifecycleNext
  BY <1>1, LifecycleTyped, ShapesKept, ClosingsKept DEF LifecycleInv
<1>2. CASE UNCHANGED lifeVars
  <2>1. process' = process /\ shutdowns' = shutdowns /\ tasks' = tasks
    BY <1>2 DEF lifeVars
  <2>2. LifecycleTypeOK' /\ TaskShapes'
    BY <2>1 DEF LifecycleInv, LifecycleTypeOK, TaskShapes
  <2>3. ServerShapes'
    BY <2>1 DEF LifecycleInv, ServerShapes, Signalled, OverHttp
  <2>4. Closings'
    BY <2>1 DEF LifecycleInv, Closings, Signalled, PastServer, EarlyAreOver, Early, OverHttp
  <2> QED BY <2>2, <2>3, <2>4 DEF LifecycleInv
<1> QED BY <1>1, <1>2

(* It holds initially.                                                       *)
LEMMA LifecycleInvInitial == LifecycleInit => LifecycleInv
<1> SUFFICES ASSUME LifecycleInit PROVE LifecycleInv
  OBVIOUS
<1>1. LifecycleTypeOK
  <2>0. \A x \in {[r \in Resources |-> "open"]} : x \in [Resources -> {"open", "closing", "closed"}]
    OBVIOUS
  <2>1. process \in ProcessType
    <3>1. {FALSE} \subseteq BOOLEAN /\ {0} \subseteq 0..3 /\ {0} \subseteq 0..MaxLifeFaults
      BY LifecycleConstants DEF LifecycleAssumption
    <3> DEFINE S == {[r \in Resources |-> "open"]}
    <3>2. S \subseteq [Resources -> {"open", "closing", "closed"}]
      BY <2>0
    <3>3. process \in [service : LiveServices, started : {0}, handled : {FALSE}, server : {"down"},
                      consuming : {FALSE}, stores : S, faults : {0}, ended : {"running"}]
      BY DEF LifecycleInit
    <3> HIDE DEF S
    <3> QED BY <3>1, <3>2, <3>3 DEF ProcessType, Exits
  <2>2. shutdowns \in [Shutdowns -> ShutdownType]
    BY DEF LifecycleInit, ShutdownType
  <2>3. [at |-> "none", early |-> FALSE, left |-> <<>>, outcome |-> "fine"] \in TaskType
    BY DEF TaskType
  <2>4. tasks \in [Tasks -> TaskType]
    BY <2>3 DEF LifecycleInit
  <2> QED BY <2>1, <2>2, <2>4 DEF LifecycleTypeOK, ProcessType, ShutdownType, TaskType
<1>2. TaskShapes
  BY DEF LifecycleInit, TaskShapes
<1>3. ServerShapes
  <2>1. process.handled = FALSE /\ process.server = "down"
    BY DEF LifecycleInit
  <2>2. (\A k \in Shutdowns : shutdowns[k].at = 0) /\ \A t \in Tasks : tasks[t].at = "none"
    BY DEF LifecycleInit
  <2>3. ~Signalled
    BY <2>2 DEF Signalled
  <2> QED BY <2>1, <2>2, <2>3 DEF ServerShapes
<1>4. EarlyAreOver /\ \A t \in Tasks : ~Early(t)
  BY DEF LifecycleInit, EarlyAreOver, Early
<1>5. \A r \in Resources : process.stores[r] = "open"
  <2>1. process.stores \in {[r \in Resources |-> "open"]}
    BY DEF LifecycleInit
  <2> QED BY <2>1
<1>6. process.ended # "exit 0"
  BY DEF LifecycleInit
<1> QED BY <1>1, <1>2, <1>3, <1>4, <1>5, <1>6 DEF LifecycleInv, Closings

(* The types of a service's process.                                         *)
THEOREM LifecycleTypeCorrect == LifecycleSpec => []LifecycleTypeOK
<1>1. LifecycleInv => LifecycleTypeOK
  BY DEF LifecycleInv
<1> QED BY <1>1, LifecycleInvInitial, LifecycleInvStep, PTL DEF LifecycleSpec

(* Every service that handles signals finishes the requests a shutdown       *)
(* finds: their calls find open stores, and no exit with 0 leaves one open,  *)
(* for any tasks, any number of signals and failures.                        *)
THEOREM RequestsFinish == LifecycleSpec => []RequestsAreFinished
<1>1. LifecycleInv => RequestsAreFinished
  BY DEF LifecycleInv, Closings, EarlyAreOver, Early, RequestsAreFinished, UnderWay
<1> QED BY <1>1, LifecycleInvInitial, LifecycleInvStep, PTL DEF LifecycleSpec

-----------------------------------------------------------------------------
(***************************************************************************)
(* The composition of MCWorkers.  One part moves in each behaviour, and the *)
(* others stay: every step of it is a step of each part or leaves it alone, *)
(* so that what holds of each part holds of the whole.                      *)
(***************************************************************************)
LEMMA PartsGoOn ==
    ASSUME [MCNext]_MCVars
    PROVE  /\ [UploadNext]_uploadVars /\ [ExtractionNext]_extractVars /\ [IndexingNext]_indexVars
           /\ [ChunkerNext]_chunkerVars /\ [LifecycleNext]_lifeVars
<1>1. CASE UNCHANGED MCVars
  BY <1>1, Zenon DEF MCVars
<1>2. CASE MCNext
  BY <1>2, Zenon DEF MCNext
<1> QED BY <1>1, <1>2

(* Every part of a document's way keeps its types, whichever of them moves.  *)
THEOREM WorkersTypeCorrect == MCSpec => []WorkersTypeOK
<1>1. MCInit => UploadInit /\ ExtractionInit /\ IndexingInit /\ ChunkerInit /\ LifecycleInit
  BY DEF MCInit
<1>2. UploadInv => UploadTypeOK
  BY DEF UploadInv
<1> QED
  BY <1>1, <1>2, PartsGoOn, UploadInvariant, ExtractionTypeCorrect, IndexingTypes,
     ChunkerTypeCorrect, LifecycleTypeCorrect, PTL
  DEF MCSpec, UploadSpec, ExtractionSpec, IndexingSpec, ChunkerSpec, LifecycleSpec, WorkersTypeOK
=============================================================================
