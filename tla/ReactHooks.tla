------------------------------ MODULE ReactHooks ------------------------------
(***************************************************************************)
(* The hooks of sdks/react/src: useDocuments, useMemorySearch and            *)
(* useConnectorStatus in one component, whose calls may overlap, with the     *)
(* page of documents that the ingestion service answers                     *)
(* (services/ingestion-service/src/repository.ts, listDocuments).            *)
(*                                                                         *)
(* The other answers carry nothing: what is kept of them is which call they  *)
(* belong to.                                                              *)
(***************************************************************************)
EXTENDS Integers, Sequences, FiniteSets, Functions, SequencesExt

CONSTANTS
    ListedDocs,       \* documents
    FirstDocs,        \* those there are at first
    CreatedAt,        \* created_at of each, a positive integer
    StatusOf,         \* status of each
    ListParams,       \* the parameters of list: [limit, status]; status may be "any"
    DefaultLimit,     \* the limit of a request without one, 20
    HookCalls         \* calls of the hooks

ASSUME HooksAssumption ==
    /\ IsFiniteSet(ListedDocs) /\ IsFiniteSet(HookCalls) /\ FirstDocs \subseteq ListedDocs
    /\ \A d \in ListedDocs : CreatedAt[d] \in Nat \ {0}
    /\ DefaultLimit \in Nat \ {0} /\ \A p \in ListParams : p.limit \in Nat \ {0}

VARIABLES
    rows,             \* external: the documents there are
    latest,           \* latestRequestId of each hook
    loading,          \* loading of each hook
    shown,            \* history: the call whose answer or error each hook shows
    items,            \* documents, the list useDocuments shows
    cursorRef,        \* cursorRef of useDocuments, 0 for null
    hookCalls,        \* each call: [pc, hook, op, id, cursor, params, page, next, seen]
    listed,           \* history: what the rows and the parameters of the list shown were
    overlapped,       \* history: calls of useDocuments overlapped, or a reset met one,
                      \* and no list has been answered alone since
    wasReset          \* history: the hooks that were reset with a call under way

hookVars == <<rows, latest, loading, shown, items, cursorRef, hookCalls, listed, overlapped, wasReset>>

HookNames == {"documents", "search", "connectors"}
AnyDocuments == [limit |-> DefaultLimit, status |-> "any"]
NoCall == [pc |-> "idle", hook |-> "documents", op |-> "list", id |-> 0, cursor |-> 0,
           params |-> AnyDocuments, page |-> <<>>, next |-> 0, seen |-> {}]

HooksInit ==
    /\ rows = FirstDocs
    /\ latest = [h \in HookNames |-> 0]
    /\ loading = [h \in HookNames |-> FALSE]
    /\ shown = [h \in HookNames |-> "none"]
    /\ items = <<>>
    /\ cursorRef = 0
    /\ hookCalls = [c \in HookCalls |-> NoCall]
    /\ listed = [seen |-> {}, params |-> AnyDocuments]
    /\ overlapped = FALSE
    /\ wasReset = {}

InFlight(hook) == {c \in HookCalls : hookCalls[c].pc \in {"asked", "served"} /\ hookCalls[c].hook = hook}

-----------------------------------------------------------------------------
(* A call takes the next number.                                            *)
Begin(c, hook, op, cursor, params) ==
    /\ hookCalls[c].pc = "idle"
    /\ latest' = [latest EXCEPT ![hook] = @ + 1]
    /\ loading' = [loading EXCEPT ![hook] = TRUE]
    /\ hookCalls' = [hookCalls EXCEPT ![c] =
           [NoCall EXCEPT !.pc = "asked", !.hook = hook, !.op = op, !.id = latest[hook] + 1,
                          !.cursor = cursor, !.params = params]]
    /\ overlapped' = (overlapped \/ (hook = "documents" /\ InFlight(hook) # {}))
    /\ UNCHANGED <<rows, shown, items, cursorRef, listed, wasReset>>

ListDocuments(c) == \E params \in ListParams : Begin(c, "documents", "list", 0, params)

(* loadMore asks for what is after the cursor and passes on nothing else;    *)
(* without a cursor it does nothing.                                        *)
LoadMore(c) == cursorRef # 0 /\ Begin(c, "documents", "loadMore", cursorRef, AnyDocuments)

SearchMemory(c) == Begin(c, "search", "search", 0, AnyDocuments)

FetchStatus(c) == Begin(c, "connectors", "fetchStatus", 0, AnyDocuments)

SyncConnector(c) == Begin(c, "connectors", "sync", 0, AnyDocuments)

-----------------------------------------------------------------------------
(* listDocuments: newest first, one more than the limit to know if there is  *)
(* a next page; rows of the same created_at come in any order.              *)
Selected(call) ==
    {d \in rows : /\ call.params.status \in {"any", StatusOf[d]}
                  /\ call.cursor # 0 => CreatedAt[d] < call.cursor}

InOrder(set) ==
    {seq \in [1..Cardinality(set) -> set] :
        IsInjective(seq) /\ \A i \in 1..Cardinality(set) - 1 : CreatedAt[seq[i]] >= CreatedAt[seq[i + 1]]}

Page(seq, limit) == SubSeq(seq, 1, IF Len(seq) > limit THEN limit ELSE Len(seq))

(* Mutant: the cursor is that of the extra row.                             *)
NextCursorOfTheExtraRow(seq, limit) == IF Len(seq) > limit THEN CreatedAt[seq[limit + 1]] ELSE 0

NextCursor(seq, limit) == IF Len(seq) > limit THEN CreatedAt[seq[limit]] ELSE 0

Serve(c) ==
    /\ hookCalls[c].pc = "asked"
    /\ LET call == hookCalls[c]
       IN  IF call.hook = "documents"
           THEN \E seq \in InOrder(Selected(call)) :
                    hookCalls' = [hookCalls EXCEPT ![c] =
                        [call EXCEPT !.pc = "served", !.seen = rows, !.page = Page(seq, call.params.limit),
                                     !.next = NextCursor(seq, call.params.limit)]]
           ELSE hookCalls' = [hookCalls EXCEPT ![c].pc = "served"]
    /\ UNCHANGED <<rows, latest, loading, shown, items, cursorRef, listed, overlapped, wasReset>>

AddDocument ==
    /\ \E d \in ListedDocs \ rows : rows' = rows \cup {d}
    /\ UNCHANGED <<latest, loading, shown, items, cursorRef, hookCalls, listed, overlapped, wasReset>>

-----------------------------------------------------------------------------
IsLatest(call) == call.id = latest[call.hook]

(* The answer of a call: useDocuments keeps its cursor whatever its number;   *)
(* the state is set only if no later call was made.                         *)
Settle(c) ==
    /\ hookCalls[c].pc = "served"
    /\ LET call == hookCalls[c]
           ofDocuments == call.hook = "documents"
           answers == IsLatest(call)
       IN  /\ hookCalls' = [hookCalls EXCEPT ![c] = [NoCall EXCEPT !.pc = "over", !.id = call.id]]
           /\ cursorRef' = IF ofDocuments THEN call.next ELSE cursorRef
           /\ loading' = IF answers THEN [loading EXCEPT ![call.hook] = FALSE] ELSE loading
           /\ shown' = IF answers THEN [shown EXCEPT ![call.hook] = c] ELSE shown
           /\ items' = IF ~answers \/ ~ofDocuments THEN items
                       ELSE IF call.op = "list" THEN call.page ELSE items \o call.page
           /\ IF answers /\ call.op = "list"
              THEN /\ listed' = [seen |-> call.seen, params |-> call.params]
                   /\ overlapped' = (overlapped /\ InFlight("documents") # {c})
              ELSE UNCHANGED <<listed, overlapped>>
    /\ UNCHANGED <<rows, latest, wasReset>>

(* A failure keeps what was shown, and is shown with it.                    *)
CallFails(c) ==
    /\ hookCalls[c].pc = "asked"
    /\ LET call == hookCalls[c]
       IN  /\ hookCalls' = [hookCalls EXCEPT ![c] = [NoCall EXCEPT !.pc = "over", !.id = call.id]]
           /\ loading' = IF IsLatest(call) THEN [loading EXCEPT ![call.hook] = FALSE] ELSE loading
           /\ shown' = IF IsLatest(call) THEN [shown EXCEPT ![call.hook] = c] ELSE shown
    /\ UNCHANGED <<rows, latest, items, cursorRef, listed, overlapped, wasReset>>

(* reset starts the numbers again, calls under way or not.                  *)
ResetHook(hook) ==
    /\ latest[hook] # 0
    /\ latest' = [latest EXCEPT ![hook] = 0]
    /\ loading' = [loading EXCEPT ![hook] = FALSE]
    /\ shown' = [shown EXCEPT ![hook] = "none"]
    /\ wasReset' = IF InFlight(hook) = {} THEN wasReset ELSE wasReset \cup {hook}
    /\ IF hook = "documents"
       THEN /\ items' = <<>> /\ cursorRef' = 0
            /\ listed' = [seen |-> {}, params |-> AnyDocuments]
            /\ overlapped' = (overlapped \/ InFlight(hook) # {})
       ELSE UNCHANGED <<items, cursorRef, listed, overlapped>>
    /\ UNCHANGED <<rows, hookCalls>>

HooksNext ==
    \/ \E c \in HookCalls : \/ ListDocuments(c) \/ LoadMore(c) \/ SearchMemory(c)
                           \/ FetchStatus(c) \/ SyncConnector(c)
                           \/ Serve(c) \/ Settle(c) \/ CallFails(c)
    \/ \E hook \in HookNames : ResetHook(hook)
    \/ AddDocument

HooksSpec == HooksInit /\ [][HooksNext]_hookVars

-----------------------------------------------------------------------------
HooksTypeOK ==
    /\ rows \subseteq ListedDocs
    /\ latest \in [HookNames -> 0..Cardinality(HookCalls)]
    /\ loading \in [HookNames -> BOOLEAN]
    /\ shown \in [HookNames -> HookCalls \cup {"none"}]
    /\ ToSet(items) \subseteq ListedDocs
    /\ cursorRef \in {0} \cup {CreatedAt[d] : d \in ListedDocs}
    /\ \A c \in HookCalls : hookCalls[c].pc \in {"idle", "asked", "served", "over"}

(* A hook that is not loading shows what its latest call answered, and one   *)
(* that is loading waits for it, in whatever order the answers come, as long  *)
(* as no reset met a call under way (it gives its number to the next call).   *)
LatestIsShown ==
    \A hook \in HookNames \ wasReset :
        /\ loading[hook] <=> \E c \in InFlight(hook) : IsLatest(hookCalls[c])
        /\ ~loading[hook] /\ latest[hook] # 0 =>
               shown[hook] \in HookCalls /\ hookCalls[shown[hook]].id = latest[hook]

(* The pages a user loads one after the other, while documents are added,    *)
(* are one list: newest first, no document twice, and none left out of those *)
(* there were when it was first asked for, except that documents of the same *)
(* created_at as the last one of a page are skipped.                        *)
PagesAreOneList ==
    ~overlapped /\ listed.params.status = "any" =>
        LET Created(i) == CreatedAt[items[i]]
        IN  /\ IsInjective(items)
            /\ \A i \in 1..Len(items) - 1 : Created(i) >= Created(i + 1)
            /\ \A d \in listed.seen \ ToSet(items) :
                   \/ CreatedAt[d] < cursorRef
                   \/ \E i \in DOMAIN items : CreatedAt[d] = Created(i)

(* What a client's lists show.                                              *)
ListsAreSound == LatestIsShown /\ PagesAreOneList
=============================================================================
