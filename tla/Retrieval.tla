------------------------------ MODULE Retrieval ------------------------------
(***************************************************************************)
(* services/retrieval-service: POST /internal/search (routes/search.ts with  *)
(* searchers/ and reranker.ts), POST /internal/context, and the log of the   *)
(* searches (tracker.ts).  The two indexes are external: documents enter and *)
(* leave each of them while searches run, and each orders what it finds as   *)
(* it likes.                                                                *)
(***************************************************************************)
EXTENDS RetrievalRanking

CONSTANTS
    IndexedChunks,    \* ids of chunks
    MovingChunks,     \* those written to an index, or deleted from it, meanwhile
    ChunkData,        \* ChunkData[id]: [workspace, document, created, tags, metadata]
    Searches,         \* the search requests
    SearchRequests,   \* the bodies: [workspace, filter, topK, hybrid, embedded, rerank]
    GivenScores,      \* the scores a reranker may give
    ContextRequests,  \* the bodies of context requests: [passages, max]
    RrfK,             \* rrf_k, 60
    MinFetch,         \* hybrid search fetches at least so many from each index, 20
    MaxLogs,          \* the log keeps so many searches, 10000
    MaxIndexWrites,   \* writes to an index during the searches
    MaxSearchFaults   \* failures of an index or of the reranker

ASSUME RetrievalAssumption ==
    /\ RrfK \in Nat \ {0} /\ MinFetch \in Nat /\ MaxLogs \in Nat \ {0}
    /\ MaxIndexWrites \in Nat /\ MaxSearchFaults \in Nat
    /\ IsFiniteSet(IndexedChunks)
    /\ MovingChunks \subseteq IndexedChunks
    /\ \A request \in SearchRequests :
          /\ request.topK \in Nat /\ request.rerank \in Nat
          /\ request.hybrid \in BOOLEAN /\ request.embedded \in BOOLEAN
    /\ GivenScores \subseteq Scores
    /\ ContextRequests \subseteq [passages : Seq([header : Nat, text : Nat]), max : Nat]

VARIABLES
    indexed,          \* external: the chunks in each index
    searches,         \* each search: [pc, request, vector, keyword, results]
    contextWindow,    \* the last window assembled, or <<>>
    searchLogs,       \* the tracker's log
    indexWrites, searchFaults

retrievalVars == <<indexed, searches, contextWindow, searchLogs, indexWrites, searchFaults>>

Pending == <<"pending">>    \* the result of a query under way, or not asked
Indexes == {"vector", "keyword"}

SearchAt(s) == searches[s].pc
Asked(s) == searches[s].request

RetrievalInit ==
    /\ indexed = [index \in Indexes |-> IndexedChunks]
    /\ searches = [s \in Searches |-> [pc |-> "idle", request |-> <<>>, vector |-> Pending,
                                       keyword |-> Pending, results |-> <<>>]]
    /\ contextWindow = <<>>
    /\ searchLogs = <<>>
    /\ indexWrites = 0 /\ searchFaults = 0

-----------------------------------------------------------------------------
(* An indexing run writes a chunk to one index, or a chunk goes from it.    *)
WriteIndex ==
    /\ indexWrites < MaxIndexWrites
    /\ \E index \in Indexes, id \in MovingChunks :
        indexed' = [indexed EXCEPT ![index] = IF id \in @ THEN @ \ {id} ELSE @ \cup {id}]
    /\ indexWrites' = indexWrites + 1
    /\ UNCHANGED <<searches, contextWindow, searchLogs, searchFaults>>

-----------------------------------------------------------------------------
(* The queries a search makes: both at once if it is hybrid (the vector one  *)
(* only with an embedding, otherwise its list is empty), else one of them.  *)
Search(s) ==
    /\ SearchAt(s) = "idle"
    /\ \E request \in SearchRequests :
        searches' = [searches EXCEPT ![s].pc = "searching", ![s].request = request,
                       ![s].vector = IF request.embedded THEN Pending ELSE <<>>,
                       ![s].keyword = IF request.embedded /\ ~request.hybrid THEN <<>> ELSE Pending]
    /\ UNCHANGED <<indexed, contextWindow, searchLogs, indexWrites, searchFaults>>

Limit(request) == IF request.hybrid THEN FetchTopK(request.topK, MinFetch) ELSE request.topK

(* An index answers with some of the chunks the filter admits, in its order: *)
(* Qdrant drops those below the threshold, PostgreSQL those without the      *)
(* words.                                                                   *)
Found(admitted, limit) ==
    UNION {{list \in [1..n -> admitted] : IsInjective(list)} : n \in 0..Fewer(limit, Cardinality(admitted))}

VectorSearch(s) ==
    /\ SearchAt(s) = "searching" /\ searches[s].vector = Pending
    /\ LET request == Asked(s)
           admitted == {id \in indexed["vector"] :
                           QdrantAdmits(request.filter, request.workspace, ChunkData[id])}
       IN  \E list \in Found(admitted, Limit(request)) : searches' = [searches EXCEPT ![s].vector = list]
    /\ UNCHANGED <<indexed, contextWindow, searchLogs, indexWrites, searchFaults>>

KeywordSearch(s) ==
    /\ SearchAt(s) = "searching" /\ searches[s].keyword = Pending
    /\ LET request == Asked(s)
           admitted == {id \in indexed["keyword"] :
                           PostgresAdmits(request.filter, request.workspace, ChunkData[id])}
       IN  \E list \in Found(admitted, Limit(request)) : searches' = [searches EXCEPT ![s].keyword = list]
    /\ UNCHANGED <<indexed, contextWindow, searchLogs, indexWrites, searchFaults>>

(* Either query failing fails the search: 500.                              *)
SearchFails(s) ==
    /\ searchFaults < MaxSearchFaults
    /\ SearchAt(s) = "searching" /\ Pending \in {searches[s].vector, searches[s].keyword}
    /\ searches' = [searches EXCEPT ![s].pc = "failed"]
    /\ searchFaults' = searchFaults + 1
    /\ UNCHANGED <<indexed, contextWindow, searchLogs, indexWrites>>

(* The results of both queries: fused and cut to topK, or as they came.     *)
Results(request, vector, keyword) ==
    IF request.hybrid
    THEN LET fused == ReciprocalRankFusion(vector, keyword, RrfK)
         IN  Ranked(SubSeq(fused, 1, Fewer(request.topK, Len(fused))),
                    [id \in ToSet(fused) |-> FusedScore(vector, keyword, RrfK, id)])
    ELSE LET list == vector \o keyword
         IN  Ranked(list, [id \in ToSet(list) |-> [num |-> 1, den |-> 1 + RankIn(list, id)]])

RankResults(s) ==
    /\ SearchAt(s) = "searching" /\ Pending \notin {searches[s].vector, searches[s].keyword}
    /\ searches' = [searches EXCEPT ![s].pc = "ranked",
                      ![s].results = Results(Asked(s), searches[s].vector, searches[s].keyword)]
    /\ UNCHANGED <<indexed, contextWindow, searchLogs, indexWrites, searchFaults>>

(* The first rerank results are reranked, if the request asks for it and     *)
(* there is any: the model gives a score to each of them, or to some.       *)
Reranks(s) == Asked(s).rerank > 0 /\ searches[s].results # <<>>

Rerank(s) ==
    /\ SearchAt(s) = "ranked" /\ Reranks(s)
    /\ \E scored \in SUBSET (1..Fewer(Asked(s).rerank, Len(searches[s].results))) :
       \E given \in [scored -> GivenScores] :
            searches' = [searches EXCEPT ![s].pc = "reranked",
                           ![s].results = Reranked(@, Asked(s).rerank, given)]
    /\ UNCHANGED <<indexed, contextWindow, searchLogs, indexWrites, searchFaults>>

RerankFails(s) ==
    /\ searchFaults < MaxSearchFaults
    /\ SearchAt(s) = "ranked" /\ Reranks(s)
    /\ searches' = [searches EXCEPT ![s].pc = "failed"]
    /\ searchFaults' = searchFaults + 1
    /\ UNCHANGED <<indexed, contextWindow, searchLogs, indexWrites>>

(* The search is logged, and answered.                                      *)
AnswerSearch(s) ==
    /\ SearchAt(s) = "reranked" \/ (SearchAt(s) = "ranked" /\ ~Reranks(s))
    /\ LET logs == Append(searchLogs, [search |-> s, hits |-> Len(searches[s].results)])
       IN  searchLogs' = SubSeq(logs, 1 + Len(logs) - Fewer(Len(logs), MaxLogs), Len(logs))
    /\ searches' = [searches EXCEPT ![s].pc = "answered"]
    /\ UNCHANGED <<indexed, contextWindow, indexWrites, searchFaults>>

(* A request without passages is refused.  The handler runs to its end       *)
(* before the next one begins.                                              *)
PostContext ==
    /\ contextWindow # <<>> => contextWindow.rest = <<>>
    /\ \E request \in ContextRequests :
        contextWindow' = IF request.passages = <<>> THEN <<>>
                         ELSE NewWindow(request.passages, request.max)
    /\ UNCHANGED <<indexed, searches, searchLogs, indexWrites, searchFaults>>

(* The loop of assemble: the next passage is taken if it fits with what was   *)
(* taken before it, and skipped otherwise.                                   *)
AssemblePassage ==
    /\ contextWindow # <<>>
    /\ contextWindow.rest # <<>>
    /\ LET p == Head(contextWindow.rest)
       IN  contextWindow' = IF Fits(contextWindow, p) THEN TakePassage(contextWindow, p)
                            ELSE SkipPassage(contextWindow, p)
    /\ UNCHANGED <<indexed, searches, searchLogs, indexWrites, searchFaults>>

SearchNext ==
    \/ \E s \in Searches : Search(s) \/ VectorSearch(s) \/ KeywordSearch(s) \/ SearchFails(s)
    \/ \E s \in Searches : RankResults(s) \/ Rerank(s) \/ RerankFails(s) \/ AnswerSearch(s)
    \/ WriteIndex

RetrievalNext == SearchNext \/ PostContext \/ AssemblePassage

RetrievalSpec == RetrievalInit /\ [][RetrievalNext]_retrievalVars

-----------------------------------------------------------------------------
RetrievalTypeOK ==
    /\ indexed \in [Indexes -> SUBSET IndexedChunks]
    /\ \A s \in Searches :
        /\ SearchAt(s) \in {"idle", "searching", "ranked", "reranked", "answered", "failed"}
        /\ Asked(s) \in SearchRequests \cup {<<>>}
        /\ searches[s].vector = Pending \/ ToSet(searches[s].vector) \subseteq IndexedChunks
        /\ searches[s].keyword = Pending \/ ToSet(searches[s].keyword) \subseteq IndexedChunks
    /\ Len(searchLogs) <= MaxLogs
    /\ indexWrites \in 0..MaxIndexWrites /\ searchFaults \in 0..MaxSearchFaults

(* Fusion favours neither index and contradicts neither: of two chunks that  *)
(* were found, the one whose better place and whose worse place are no worse *)
(* than the other's, and not both the same, is ahead of it in the answer, and *)
(* is not cut off before it.  To be missing from a list is the last place.  *)
Placed(rank, last) == IF rank = 0 THEN last ELSE rank
BetterPlaced(pa, qa, pb, qb) ==
    /\ Fewer(pa, qa) <= Fewer(pb, qb)
    /\ (pa + qa) - Fewer(pa, qa) <= (pb + qb) - Fewer(pb, qb)
    /\ pa + qa < pb + qb

FusionFavoursNeither ==
    \A s \in Searches :
        SearchAt(s) = "ranked" /\ Asked(s).hybrid =>
            LET found == ToSet(searches[s].vector) \cup ToSet(searches[s].keyword)
                last == Cardinality(found) + 1
                InVector(id) == Placed(RankIn(searches[s].vector, id), last)
                InKeyword(id) == Placed(RankIn(searches[s].keyword, id), last)
                results == searches[s].results
                chunks == [i \in DOMAIN results |-> results[i].chunk]
            IN  \A a, b \in found :
                    /\ BetterPlaced(InVector(a), InKeyword(a), InVector(b), InKeyword(b))
                    /\ RankIn(chunks, b) # 0
                    => RankIn(chunks, a) \in 1..RankIn(chunks, b) - 1

(* What a search answers, after the merge of two lists read at different     *)
(* moments and after reranking: each chunk once, each of the workspace and   *)
(* admitted by the filters, no more than asked for and none lost, the ranks  *)
(* in order, and the reranked ones first by their scores.                   *)
AnswersAreWhole ==
    \A s \in Searches :
        SearchAt(s) \in {"ranked", "reranked", "answered"} =>
            LET request == Asked(s)
                results == searches[s].results
                found == ToSet(searches[s].vector) \cup ToSet(searches[s].keyword)
                top == Fewer(request.rerank, Len(results))
            IN  /\ Len(results) = Fewer(request.topK, Cardinality(found))
                /\ \A i \in DOMAIN results : results[i].rank = i /\ results[i].chunk \in found
                /\ \A i, j \in DOMAIN results : results[i].chunk = results[j].chunk => i = j
                /\ \A i \in DOMAIN results :
                       PostgresAdmits(request.filter, request.workspace, ChunkData[results[i].chunk])
                /\ SearchAt(s) = "reranked" =>
                       \A i, j \in 1..top : i < j => ~Above(results[j].score, results[i].score)

(* The assembled text never has more tokens than the window says, the window *)
(* says no more than was allowed, and no passage that would still have       *)
(* fitted was left out.                                                     *)
ContextFits ==
    contextWindow # <<>> =>
        LET window == contextWindow
        IN  /\ CountTokens(window.length) <= window.tokens
            /\ window.tokens <= window.max
            /\ \A i \in DOMAIN window.skipped : ~Fits(window, window.skipped[i])

(* What a search answers is the fusion of what both indexes found.          *)
AnswersAreSound == AnswersAreWhole /\ FusionFavoursNeither
=============================================================================
