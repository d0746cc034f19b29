------------------------------ MODULE NotionSync ------------------------------
(***************************************************************************)
(* connectors/notion: what syncNotion finds, answer by answer.  A sync is a *)
(* record: since is the account's last_synced_at, 0 when there is none;      *)
(* found is what it will return; local is what the function under way has    *)
(* collected; queue holds what is wanted of the databases of the last answer *)
(* and not yet looked at; page is the number of the next page of a listing.  *)
(* Notion gives the items of an answer in any order.                        *)
(***************************************************************************)
EXTENDS Integers, Sequences, SequencesExt

CONSTANTS
    PageLists,        \* the answers of listPages: a sequence of sets of items
    DatabaseLists,    \* the answers of listDatabases
    PagesIn,          \* PagesIn[d]: what queryDatabase answers for d
    Archived,         \* the items that are archived
    NotionRetries     \* MAX_RETRIES

Recent(item, source, since) == since = 0 \/ source[item] >= since

(* What a listing keeps: a sync without a cursor is never incremental, and   *)
(* skips what is archived.                                                  *)
Wanted(item, source, since) == item \notin Archived /\ Recent(item, source, since)

(* An ExternalItem: its id, its time of edition, which is its checksum, and  *)
(* isDeleted.                                                               *)
ExternalItem(item, source) ==
    [id |-> item, checksum |-> source[item], deleted |-> item \in Archived]
ExternalItems(items, source) == SetToSeq({ExternalItem(i, source) : i \in items})

(* What is kept of the answer of a listing, and of the pages in a database,  *)
(* the archived ones included.                                              *)
Listed(items, source, since) ==
    ExternalItems({i \in items : Wanted(i, source, since)}, source)
InDatabase(d, source, since) ==
    ExternalItems({i \in PagesIn[d] : Recent(i, source, since)}, source)

StartSync(since) ==
    [at |-> "pages", page |-> 1, since |-> since, found |-> <<>>, local |-> <<>>,
     queue |-> <<>>, retries |-> 0]

(* The items of a function that returned are kept, and the next one starts.  *)
Returned(sync, next) ==
    [sync EXCEPT !.at = next, !.page = 1, !.found = @ \o sync.local, !.local = <<>>]

(* An answer of listPages.  The last page has has_more false.                *)
PagesListed(sync, source) ==
    LET listed == [sync EXCEPT !.page = @ + 1, !.retries = 0,
                      !.local = @ \o Listed(PageLists[sync.page], source, sync.since)]
    IN  IF sync.page = Len(PageLists) THEN Returned(listed, "databases") ELSE listed

(* The databases still queued are looked at in turn.  With a since, the      *)
(* pages of each are asked for, and the sync waits for the answer.           *)
LookAt(sync) ==
    IF sync.since # 0 /\ sync.queue # <<>>
    THEN [sync EXCEPT !.at = "query", !.local = Append(@, Head(sync.queue))]
    ELSE LET looked == [sync EXCEPT !.at = "databases", !.local = @ \o sync.queue, !.queue = <<>>]
         IN  IF sync.page > Len(DatabaseLists) THEN Returned(looked, "returned") ELSE looked

DatabasesListed(sync, source) ==
    LookAt([sync EXCEPT !.page = @ + 1, !.retries = 0,
               !.queue = Listed(DatabaseLists[sync.page], source, sync.since)])

DatabaseQueried(sync, source) ==
    LookAt([sync EXCEPT !.retries = 0, !.queue = Tail(@),
               !.local = @ \o InDatabase(Head(sync.queue).id, source, sync.since)])

(* An error ends the sync, not in failure: it returns what the functions     *)
(* that came back have collected.                                           *)
SyncCut(sync) == [sync EXCEPT !.at = "returned", !.local = <<>>, !.queue = <<>>]

(* Mutant: one retry too many.                                              *)
ThrottledLate(sync) ==
    IF sync.retries > NotionRetries THEN SyncCut(sync) ELSE [sync EXCEPT !.retries = @ + 1]

(* 429: the request is sent again, NotionRetries times.                      *)
Throttled(sync) ==
    IF sync.retries >= NotionRetries THEN SyncCut(sync) ELSE [sync EXCEPT !.retries = @ + 1]

(* The answer of Notion to the request the sync waits for.                   *)
NotionAnswered(sync, source) ==
    IF sync.at = "pages" THEN PagesListed(sync, source)
    ELSE IF sync.at = "databases" THEN DatabasesListed(sync, source)
    ELSE DatabaseQueried(sync, source)
=============================================================================
