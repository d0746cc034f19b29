---------------------------- MODULE RetrievalRanking ----------------------------
(***************************************************************************)
(* The pure part of services/retrieval-service: the two translations of a    *)
(* search's filters (filters.ts), reciprocal rank fusion (searchers/         *)
(* hybrid.ts), reranking (reranker.ts) and the assembly of a context window  *)
(* (context-builder.ts).                                                    *)
(*                                                                         *)
(* A score is a fraction [num, den].  A text is its length.                 *)
(***************************************************************************)
EXTENDS Integers, Sequences, FiniteSets, FiniteSetsExt, SequencesExt

Fewer(a, b) == IF a <= b THEN a ELSE b
Scores == [num : Int, den : Nat \ {0}]
Above(a, b) == a.num * b.den > b.num * a.den

(* Array.prototype.sort, which is stable, with the best score first: in the  *)
(* n-th place is what n - 1 others are ahead of.  entered is where each was.  *)
Ahead(score, entered, x, y) ==
    Above(score[x], score[y]) \/ (~Above(score[y], score[x]) /\ entered[x] < entered[y])
Sorted(S, score, entered) ==
    [n \in 1..Cardinality(S) |->
        CHOOSE x \in S : Cardinality({y \in S : Ahead(score, entered, y, x)}) = n - 1]

-----------------------------------------------------------------------------
(* What both translations ask of a chunk: its workspace, document and date.  *)
(* An empty set and a date of 0 are no filter.                              *)
Admits(filter, workspace, chunk) ==
    /\ chunk.workspace = workspace
    /\ filter.documents = {} \/ chunk.document \in filter.documents
    /\ filter.after = 0 \/ chunk.created >= filter.after
    /\ filter.before = 0 \/ chunk.created <= filter.before

(* buildQdrantFilter compares values with their type; the points carry no    *)
(* tags (indexing-service/src/indexer.ts).  A value is <<type, text>>.      *)
QdrantAdmits(filter, workspace, chunk) ==
    /\ Admits(filter, workspace, chunk)
    /\ filter.tags = {}
    /\ filter.metadata = <<>> \/ chunk.metadata = filter.metadata

(* buildPostgresConditions compares the texts of the values.                *)
PostgresAdmits(filter, workspace, chunk) ==
    /\ Admits(filter, workspace, chunk)
    /\ filter.tags = {} \/ filter.tags \cap chunk.tags # {}
    /\ filter.metadata = <<>> \/ (chunk.metadata # <<>> /\ chunk.metadata[2] = filter.metadata[2])

-----------------------------------------------------------------------------
(* A chunk's place in a list, 0 if it is not there.                         *)
RankIn(list, id) ==
    IF \E i \in DOMAIN list : list[i] = id THEN CHOOSE i \in DOMAIN list : list[i] = id ELSE 0

(* 1 / (k + rank) of each list that has the chunk, added.                    *)
FusedScore(vector, keyword, k, id) ==
    LET v == RankIn(vector, id)
        w == RankIn(keyword, id)
    IN  IF w = 0 THEN [num |-> 1, den |-> k + v]
        ELSE IF v = 0 THEN [num |-> 1, den |-> k + w]
        ELSE [num |-> 2 * k + v + w, den |-> (k + v) * (k + w)]

(* The chunks of the vector list are entered first, then the other ones.     *)
EnteredAt(vector, keyword, id) ==
    IF RankIn(vector, id) # 0 THEN RankIn(vector, id) ELSE Len(vector) + RankIn(keyword, id)

(* Mutant: the fused list is not sorted.                                    *)
FusionUnsorted(vector, keyword, k) ==
    LET found == ToSet(vector) \cup ToSet(keyword)
    IN  Sorted(found, [id \in found |-> [num |-> 1, den |-> 1]],
                      [id \in found |-> EnteredAt(vector, keyword, id)])

(* reciprocalRankFusion                                                     *)
ReciprocalRankFusion(vector, keyword, k) ==
    LET found == ToSet(vector) \cup ToSet(keyword)
    IN  Sorted(found, [id \in found |-> FusedScore(vector, keyword, k, id)],
                      [id \in found |-> EnteredAt(vector, keyword, id)])

FetchTopK(topK, minFetch) == IF 2 * topK >= minFetch THEN 2 * topK ELSE minFetch

(* The results of a route: ranked from 1.                                   *)
Ranked(ids, score) == [i \in DOMAIN ids |-> [rank |-> i, chunk |-> ids[i], score |-> score[ids[i]]]]

(* The first topN results are sorted by the score the model gave, or by the  *)
(* one they had, the rest follow, and all are ranked again.                 *)
RerankScores(results, top, given) ==
    [i \in 1..top |-> IF i \in DOMAIN given THEN given[i] ELSE results[i].score]
Reordered(results, order, score) ==
    [i \in DOMAIN results |->
        IF i \in DOMAIN order
        THEN [rank |-> i, chunk |-> results[order[i]].chunk, score |-> score[order[i]]]
        ELSE [rank |-> i, chunk |-> results[i].chunk, score |-> results[i].score]]
Reranked(results, topN, given) ==
    LET top == 1..Fewer(topN, Len(results))
        score == RerankScores(results, Fewer(topN, Len(results)), given)
    IN  Reordered(results, Sorted(top, score, [i \in top |-> i]), score)

-----------------------------------------------------------------------------
(* Mutant: the quotient is rounded down.                                    *)
CountTokensFloored(length) == (10 * length) \div 37

(* countTokens for the default model, 3.7 characters to a token.            *)
CountTokens(length) == (10 * length + 36) \div 37

SeparatorLength == 7

(* assemble: the passages, records of header and text, are taken in turn     *)
(* into a window, which has what was taken, what was skipped, and what is     *)
(* still to come, the tokens of what was taken and the length of its text.    *)
NewWindow(passages, maxTokens) ==
    [chunks |-> <<>>, skipped |-> <<>>, rest |-> passages, tokens |-> 0, length |-> 0, max |-> maxTokens]

Separated(window, n) == IF window.chunks = <<>> THEN 0 ELSE n
Cost(window, p) == CountTokens(p.header + p.text) + Separated(window, CountTokens(SeparatorLength))
Fits(window, p) == window.tokens + Cost(window, p) <= window.max

TakePassage(window, p) ==
    [window EXCEPT !.chunks = Append(@, p), !.rest = Tail(@), !.tokens = @ + Cost(window, p),
                   !.length = @ + p.header + p.text + Separated(window, SeparatorLength)]
SkipPassage(window, p) == [window EXCEPT !.skipped = Append(@, p), !.rest = Tail(@)]
=============================================================================
