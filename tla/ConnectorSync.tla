----------------------------- MODULE ConnectorSync -----------------------------
(***************************************************************************)
(* The sync jobs of services/connector-service, with the Notion plugin, for  *)
(* one account: POST /internal/connectors/:type/sync (routes/connectors.ts)  *)
(* and SyncWorker.executeSyncJob (worker.ts), over the rows of repository.ts. *)
(*                                                                         *)
(* updateSyncJobStatus builds its SET list from strings in double quotes:    *)
(* PostgreSQL is sent the text "status = ${status}" and refuses it.  The     *)
(* variable statements says what the database does with it: "rejected", or   *)
(* "applied", as the repositories of tests/worker.test.ts do, which is how   *)
(* the rest of executeSyncJob is reached.                                   *)
(***************************************************************************)
EXTENDS NotionSync, FiniteSets

CONSTANTS
    SyncCalls,        \* the requests, and the jobs they create
    ModeOf,           \* ModeOf[c]: "full" or "incremental"
    SourceItems,      \* the pages and databases of the account
    MaxNow,           \* the clock stops here
    MaxSyncFaults     \* how many calls may fail

(* A listing has a page, if an empty one, and what is not archived is in one. *)
ASSUME SyncAssumption ==
    /\ MaxNow \in Nat \ {0} /\ MaxSyncFaults \in Nat /\ NotionRetries \in Nat
    /\ IsFiniteSet(SourceItems)
    /\ \A lists \in {PageLists, DatabaseLists} :
          lists # <<>> /\ lists \in Seq(SUBSET SourceItems)
    /\ PagesIn \in [SourceItems -> SUBSET SourceItems]
    /\ SourceItems \ Archived \subseteq UNION (ToSet(PageLists) \cup ToSet(DatabaseLists))

VARIABLES
    statements,       \* what becomes of the UPDATE of updateSyncJobStatus
    syncJobs,         \* sync_jobs
    syncState,        \* sync_states
    lastSynced,       \* connector_accounts.last_synced_at
    activeJobIds,     \* SyncScheduler.activeJobIds
    syncs,            \* the request and the execution of each job
    source,           \* when each item was last edited at Notion
    now,              \* the clock
    announced,        \* the items and checksums of external.document.updated
    told,             \* the other events, by type and job
    excused,          \* history: items whose processing failed, or edited during a sync
    syncFaults

envVars == <<statements, source, now>>
accountVars == <<syncState, lastSynced>>
newsVars == <<announced, told>>
historyVars == <<excused, syncFaults>>
syncVars == <<envVars, accountVars, newsVars, historyVars, syncJobs, activeJobIds, syncs>>

NoJob == [status |-> "none", discovered |-> 0, processed |-> 0, skipped |-> 0, errors |-> 0]
NewSync == [pc |-> "idle", plugin |-> StartSync(0), todo |-> <<>>, processed |-> 0, skipped |-> 0,
            errors |-> 0, begun |-> <<>>, syncedAt |-> 0]

SyncInit ==
    /\ statements \in {"applied", "rejected"}
    /\ syncJobs = [c \in SyncCalls |-> NoJob]
    /\ syncState = [synced |-> 0, checksums |-> <<>>]
    /\ lastSynced = 0
    /\ activeJobIds = {}
    /\ syncs = [c \in SyncCalls |-> NewSync]
    /\ source = [i \in SourceItems |-> 1]
    /\ now = 1
    /\ announced = {} /\ told = {} /\ excused = {}
    /\ syncFaults = 0

-----------------------------------------------------------------------------
At(c) == syncs[c].pc
SyncGoes(c, pc) == syncs' = [syncs EXCEPT ![c].pc = pc]
Executing == {"load", "scanning", "started", "token", "plugin", "processing", "item", "discovered",
              "updated", "completed", "upsert", "lastSync", "tell", "catch", "tellFailed"}

(* Where a rejected call leads.  The request answers 500; before the try of  *)
(* executeSyncJob, and in its catch, the execution rejects.                 *)
SyncFailsTo(pc) ==
    IF pc = "create" THEN "refused"
    ELSE IF pc = "request" THEN "abandoned"
    ELSE IF pc \in {"load", "scanning", "started", "catch", "tellFailed"} THEN "threw"
    ELSE "catch"

(* Mutant: only an execution that succeeds gives its slot back.             *)
ReleaseWhenDone(c, pc) == activeJobIds' = IF pc = "done" THEN activeJobIds \ {c} ELSE activeJobIds

(* The slot is given back when the execution ends, either way.              *)
Release(c, pc) == activeJobIds' = IF pc \in {"done", "threw"} THEN activeJobIds \ {c} ELSE activeJobIds

(* POST sync: the account is found, the job created, the request announced;  *)
(* then the execution is started, nobody waiting for it.                    *)
PostSync(c) ==
    /\ At(c) = "idle"
    /\ SyncGoes(c, "create")
    /\ UNCHANGED <<envVars, accountVars, newsVars, historyVars, syncJobs, activeJobIds>>

CreateSyncJob(c) ==
    /\ At(c) = "create"
    /\ syncJobs' = [syncJobs EXCEPT ![c].status = "pending"]
    /\ SyncGoes(c, "request")
    /\ UNCHANGED <<envVars, accountVars, newsVars, historyVars, activeJobIds>>

PublishSyncRequested(c) ==
    /\ At(c) = "request"
    /\ told' = told \cup {<<"requested", c>>}
    /\ activeJobIds' = activeJobIds \cup {c}
    /\ SyncGoes(c, "load")
    /\ UNCHANGED <<envVars, accountVars, announced, historyVars, syncJobs>>

(* executeSyncJob: the job and the account are read.                        *)
LoadJob(c) ==
    /\ At(c) = "load"
    /\ LET since == IF ModeOf[c] = "incremental" THEN lastSynced ELSE 0
       IN  syncs' = [syncs EXCEPT ![c].pc = "scanning", ![c].plugin = StartSync(since),
                                  ![c].begun = source]
    /\ UNCHANGED <<envVars, accountVars, newsVars, historyVars, syncJobs, activeJobIds>>

(* updateSyncJobStatus, when the database applies it.                       *)
UpdateSyncJobStatus(c, pc, job, next) ==
    /\ At(c) = pc
    /\ statements = "applied"
    /\ syncJobs' = [syncJobs EXCEPT ![c] = job]
    /\ SyncGoes(c, next)
    /\ UNCHANGED <<envVars, accountVars, newsVars, historyVars, activeJobIds>>

Counts(c) ==
    LET s == syncs[c]
    IN  [NoJob EXCEPT !.discovered = Len(s.plugin.found), !.processed = s.processed,
                      !.skipped = s.skipped, !.errors = s.errors]

MarkScanning(c) ==
    UpdateSyncJobStatus(c, "scanning", [syncJobs[c] EXCEPT !.status = "scanning"], "started")
MarkProcessing(c) ==
    UpdateSyncJobStatus(c, "processing",
        [syncJobs[c] EXCEPT !.status = "processing", !.discovered = Len(syncs[c].todo)],
        IF syncs[c].todo = <<>> THEN "completed" ELSE "item")
MarkCompleted(c) ==
    UpdateSyncJobStatus(c, "completed", [Counts(c) EXCEPT !.status = "completed"], "upsert")
MarkFailed(c) ==
    UpdateSyncJobStatus(c, "catch", [syncJobs[c] EXCEPT !.status = "failed"], "tellFailed")

(* PostgreSQL refuses the first update, which is outside of the try.        *)
UpdateRefused(c) ==
    /\ At(c) = "scanning"
    /\ statements = "rejected"
    /\ SyncGoes(c, "threw")
    /\ Release(c, "threw")
    /\ UNCHANGED <<envVars, accountVars, newsVars, historyVars, syncJobs>>

PublishSyncStarted(c) ==
    /\ At(c) = "started"
    /\ told' = told \cup {<<"started", c>>}
    /\ SyncGoes(c, "token")
    /\ UNCHANGED <<envVars, accountVars, announced, historyVars, syncJobs, activeJobIds>>

(* getValidAccessToken answers; the sync of the plugin begins.              *)
GetAccessToken(c) ==
    /\ At(c) = "token"
    /\ SyncGoes(c, "plugin")
    /\ UNCHANGED <<envVars, accountVars, newsVars, historyVars, syncJobs, activeJobIds>>

(* When the plugin returns, what it has found is left to process.           *)
PluginIs(c, plugin) ==
    syncs' = [syncs EXCEPT ![c].plugin = plugin,
                           ![c].pc = IF plugin.at = "returned" THEN "processing" ELSE "plugin",
                           ![c].todo = IF plugin.at = "returned" THEN plugin.found ELSE <<>>]

NotionAnswers(c) ==
    /\ At(c) = "plugin"
    /\ PluginIs(c, NotionAnswered(syncs[c].plugin, source))
    /\ UNCHANGED <<envVars, accountVars, newsVars, historyVars, syncJobs, activeJobIds>>

(* Notion refuses, or asks to wait.                                         *)
NotionRefuses(c) ==
    /\ At(c) = "plugin"
    /\ syncFaults < MaxSyncFaults
    /\ syncFaults' = syncFaults + 1
    /\ \E plugin \in {SyncCut(syncs[c].plugin), Throttled(syncs[c].plugin)} :
          /\ PluginIs(c, plugin)
          /\ excused' = IF plugin.at = "returned" THEN SourceItems ELSE excused
    /\ UNCHANGED <<envVars, accountVars, newsVars, syncJobs, activeJobIds>>

-----------------------------------------------------------------------------
(* processSyncResults: the items in turn.                                   *)
Item(c) == Head(syncs[c].todo)
Processed(s) == [s EXCEPT !.processed = @ + 1]
Skipped(s) == [s EXCEPT !.skipped = @ + 1]
Erred(s) == [s EXCEPT !.errors = @ + 1]
NextItem(s) ==
    [s EXCEPT !.todo = Tail(@), !.pc = IF Len(s.todo) = 1 THEN "completed" ELSE "item"]

(* Mutant: an item without a checksum is taken for known.                    *)
KnownWhenUnseen(i) == i.id \in DOMAIN syncState.checksums => syncState.checksums[i.id] = i.checksum
Known(i) == i.id \in DOMAIN syncState.checksums /\ syncState.checksums[i.id] = i.checksum

(* An archived item is announced as deleted.  Of any other, the checksums    *)
(* are read again.                                                          *)
PublishDocumentDeleted(c) ==
    /\ At(c) = "item"
    /\ Item(c).deleted
    /\ told' = told \cup {<<"deleted", Item(c).id>>}
    /\ syncs' = [syncs EXCEPT ![c] = NextItem(Processed(@))]
    /\ UNCHANGED <<envVars, accountVars, announced, historyVars, syncJobs, activeJobIds>>

TakeItem(c) ==
    /\ At(c) = "item"
    /\ ~Item(c).deleted
    /\ syncs' = [syncs EXCEPT ![c] = IF Known(Item(c)) THEN NextItem(Skipped(@))
                                     ELSE [@ EXCEPT !.pc = "discovered"]]
    /\ UNCHANGED <<envVars, accountVars, newsVars, historyVars, syncJobs, activeJobIds>>

PublishDocumentDiscovered(c) ==
    /\ At(c) = "discovered"
    /\ SyncGoes(c, "updated")
    /\ told' = told \cup {<<"discovered", Item(c).id>>}
    /\ UNCHANGED <<envVars, accountVars, announced, historyVars, syncJobs, activeJobIds>>

PublishDocumentUpdated(c) ==
    /\ At(c) = "updated"
    /\ announced' = announced \cup {Item(c)}
    /\ syncs' = [syncs EXCEPT ![c] = NextItem(Processed(@))]
    /\ UNCHANGED <<envVars, accountVars, told, historyVars, syncJobs, activeJobIds>>

(* The processing of an item fails: it is counted, and the next one taken.   *)
ItemFails(c) ==
    /\ At(c) \in {"item", "discovered", "updated"}
    /\ syncFaults < MaxSyncFaults
    /\ syncFaults' = syncFaults + 1
    /\ excused' = excused \cup {Item(c).id}
    /\ syncs' = [syncs EXCEPT ![c] = NextItem(Erred(@))]
    /\ UNCHANGED <<envVars, accountVars, newsVars, syncJobs, activeJobIds>>

-----------------------------------------------------------------------------
(* buildChecksumMap: of all that was found, processed or not.  When an item  *)
(* was found twice, the last one counts.                                    *)
ChecksumMap(found) ==
    [id \in {found[n].id : n \in DOMAIN found} |->
        LET last == CHOOSE n \in DOMAIN found :
                       found[n].id = id /\ \A m \in DOMAIN found : found[m].id = id => m <= n
        IN  found[last].checksum]

UpsertSyncState(c) ==
    /\ At(c) = "upsert"
    /\ syncState' = [synced |-> syncState.synced + 1, checksums |-> ChecksumMap(syncs[c].plugin.found)]
    /\ \/ /\ syncs' = [syncs EXCEPT ![c].pc = "lastSync", ![c].syncedAt = now]
          /\ UNCHANGED syncFaults
       \/ /\ SyncGoes(c, "catch")
          /\ syncFaults < MaxSyncFaults
          /\ syncFaults' = syncFaults + 1
    /\ UNCHANGED <<envVars, lastSynced, newsVars, excused, syncJobs, activeJobIds>>

UpdateAccountLastSync(c) ==
    /\ At(c) = "lastSync"
    /\ lastSynced' = syncs[c].syncedAt
    /\ SyncGoes(c, "tell")
    /\ UNCHANGED <<envVars, syncState, newsVars, historyVars, syncJobs, activeJobIds>>

PublishSyncCompleted(c) ==
    /\ At(c) = "tell"
    /\ told' = told \cup {<<"completed", c>>}
    /\ SyncGoes(c, "done")
    /\ Release(c, "done")
    /\ UNCHANGED <<envVars, accountVars, announced, historyVars, syncJobs>>

PublishSyncFailed(c) ==
    /\ At(c) = "tellFailed"
    /\ told' = told \cup {<<"failed", c>>}
    /\ SyncGoes(c, "threw")
    /\ Release(c, "threw")
    /\ UNCHANGED <<envVars, accountVars, announced, historyVars, syncJobs>>

(* Any other call is rejected, and did nothing.                             *)
SyncCallFails(c) ==
    /\ At(c) \in {"create", "request", "load", "scanning", "started", "token", "processing",
                  "completed", "upsert", "lastSync", "tell", "catch", "tellFailed"}
    /\ syncFaults < MaxSyncFaults
    /\ syncFaults' = syncFaults + 1
    /\ SyncGoes(c, SyncFailsTo(At(c)))
    /\ Release(c, SyncFailsTo(At(c)))
    /\ UNCHANGED <<envVars, accountVars, newsVars, excused, syncJobs>>

(* The process ends; what it kept in memory is lost.                        *)
ConnectorCrash ==
    /\ \E c \in SyncCalls : At(c) \in Executing
    /\ syncFaults < MaxSyncFaults
    /\ syncFaults' = syncFaults + 1
    /\ syncs' = [c \in SyncCalls |->
                    IF At(c) \in Executing \cup {"create", "request"}
                    THEN [syncs[c] EXCEPT !.pc = "crashed"] ELSE syncs[c]]
    /\ activeJobIds' = {}
    /\ UNCHANGED <<envVars, accountVars, newsVars, excused, syncJobs>>

-----------------------------------------------------------------------------
(* Somebody edits an item; time goes by.                                    *)
Reading == Executing \ {"load", "tell", "catch", "tellFailed"}

EditItem(i) ==
    /\ \E t \in {now, now + 1} :
          /\ source[i] < t /\ t <= MaxNow
          /\ source' = [source EXCEPT ![i] = t]
          /\ now' = t
    /\ excused' = IF \E c \in SyncCalls : At(c) \in Reading THEN excused \cup {i} ELSE excused
    /\ UNCHANGED <<statements, accountVars, newsVars, syncFaults, syncJobs, activeJobIds, syncs>>

TimePasses ==
    /\ now < MaxNow
    /\ now' = now + 1
    /\ UNCHANGED <<statements, source, accountVars, newsVars, historyVars, syncJobs, activeJobIds, syncs>>

SyncStep(c) ==
    \/ PostSync(c) \/ CreateSyncJob(c) \/ PublishSyncRequested(c) \/ LoadJob(c)
    \/ MarkScanning(c) \/ UpdateRefused(c) \/ PublishSyncStarted(c) \/ GetAccessToken(c)
    \/ NotionAnswers(c) \/ NotionRefuses(c) \/ MarkProcessing(c)
    \/ PublishDocumentDeleted(c) \/ TakeItem(c) \/ PublishDocumentDiscovered(c) \/ PublishDocumentUpdated(c) \/ ItemFails(c)
    \/ MarkCompleted(c) \/ UpsertSyncState(c) \/ UpdateAccountLastSync(c) \/ PublishSyncCompleted(c)
    \/ MarkFailed(c) \/ PublishSyncFailed(c) \/ SyncCallFails(c)

SyncNext ==
    \/ \E c \in SyncCalls : SyncStep(c)
    \/ \E i \in SourceItems : EditItem(i)
    \/ TimePasses
    \/ ConnectorCrash

SyncSpec == SyncInit /\ [][SyncNext]_syncVars

-----------------------------------------------------------------------------
SyncPcs == Executing \cup {"idle", "create", "request", "refused", "abandoned", "done", "threw", "crashed"}

(* Type correctness.                                                        *)
SyncTypeOK ==
    /\ statements \in {"applied", "rejected"}
    /\ \A c \in SyncCalls :
          /\ syncJobs[c].status \in {"none", "pending", "scanning", "processing", "completed", "failed"}
          /\ syncs[c].pc \in SyncPcs
          /\ syncs[c].plugin.retries \in 0..NotionRetries
    /\ lastSynced \in 0..now /\ now \in 1..MaxNow
    /\ activeJobIds \subseteq SyncCalls
    /\ source \in [SourceItems -> 1..now]
    /\ excused \subseteq SourceItems
    /\ syncFaults \in 0..MaxSyncFaults

(* executeSyncJob, whatever fails in it, gives its slot of the scheduler     *)
(* back; a job it announces completed is so, with every item accounted for,  *)
(* and a job it announces failed stays failed (worker.ts:54-139,             *)
(* routes/connectors.ts:178-188).                                           *)
JobsAreSettled ==
    \A c \in SyncCalls :
       /\ c \in activeJobIds <=> At(c) \in Executing
       /\ <<"completed", c>> \in told => syncJobs[c].status = "completed"
       /\ <<"failed", c>> \in told => syncJobs[c].status = "failed"
       /\ syncJobs[c].status = "completed" =>
             syncJobs[c].discovered = syncJobs[c].processed + syncJobs[c].skipped + syncJobs[c].errors

(* An item is only skipped, then or later, for a checksum that consumers     *)
(* heard of, unless its processing failed: the checksums are kept of items   *)
(* that were never announced (worker.ts:90-91, 165-168, 196-202).            *)
KnownIsAnnounced ==
    \A id \in DOMAIN syncState.checksums :
       \/ \E item \in announced : item.id = id /\ item.checksum = syncState.checksums[id]
       \/ id \in excused \/ <<"deleted", id>> \in told

(* When a job is done, consumers have heard of every item as it was when the *)
(* job began.  Excused are items that were edited while a job ran (its since *)
(* is the end of the last job, not its beginning), whose processing failed,  *)
(* and all of them after an error of Notion, which syncNotion makes a        *)
(* success of (worker.ts:61-63, 95-96; notion/src/sync.ts:80-85, 119).       *)
NothingMissed ==
    \A c \in SyncCalls : At(c) = "done" =>
       \A i \in SourceItems \ (Archived \cup excused) :
          ExternalItem(i, syncs[c].begun) \in announced

(* Both, of the syncs of one account: what is skipped was heard of, and what  *)
(* is there is heard of.                                                    *)
SyncIsWhole == KnownIsAnnounced /\ NothingMissed
=============================================================================
