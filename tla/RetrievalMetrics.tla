--------------------------- MODULE RetrievalMetrics ---------------------------
(***************************************************************************)
(* The arithmetic of services/evaluation-service: metrics-calculator.ts,    *)
(* rag-analyzer.ts, and the rating that eval-runner.ts makes of them.       *)
(* Numbers between 0 and 1 are thousandths, rounded down.                   *)
(***************************************************************************)
EXTENDS Integers, Sequences, FiniteSets, FiniteSetsExt, SequencesExt

CONSTANTS
    Discount,     \* Discount[i] is 1 / log2(i + 1), in thousandths
    TopK          \* EvalRunConfig.top_k

SmallerOf(a, b) == IF a <= b THEN a ELSE b
Share(n, of) == (n * 1000) \div of
If(condition, n) == IF condition THEN n ELSE 0

(* The positions among the first k that hold a relevant document.           *)
HitsAtK(retrieved, relevant, k) ==
    {i \in 1..SmallerOf(Len(retrieved), k) : retrieved[i] \in relevant}

PrecisionAtK(retrieved, relevant, k) ==
    LET limit == SmallerOf(Len(retrieved), k)
    IN  IF limit = 0 THEN 0 ELSE Share(Cardinality(HitsAtK(retrieved, relevant, k)), limit)

RecallAtK(retrieved, relevant, k) ==
    IF relevant = {} THEN 1000
    ELSE Share(Cardinality(HitsAtK(retrieved, relevant, k)), Cardinality(relevant))

(* The first relevant document counts, wherever it is.                      *)
ReciprocalRank(retrieved, relevant) ==
    LET hits == HitsAtK(retrieved, relevant, Len(retrieved))
    IN  IF hits = {} THEN 0 ELSE Share(1, Min(hits))

Gain(positions) == LET discount(i) == Discount[i] IN MapThenSumSet(discount, positions)

Ndcg(retrieved, relevant, k) ==
    LET ideal == Gain(1..SmallerOf(Cardinality(relevant), k))
    IN  IF ideal = 0 THEN 0 ELSE Share(Gain(HitsAtK(retrieved, relevant, k)), ideal)

AveragePrecision(retrieved, relevant, k) ==
    LET limit == SmallerOf(Len(retrieved), k)
        hits == HitsAtK(retrieved, relevant, k)
        precision(i) == Share(Cardinality({j \in hits : j <= i}), i)
    IN  IF limit = 0 \/ relevant = {} THEN 0
        ELSE MapThenSumSet(precision, hits) \div SmallerOf(Cardinality(relevant), limit)

Mean(values) ==
    IF DOMAIN values = {} THEN 0
    ELSE MapThenSumSet(LAMBDA i : values[i], DOMAIN values) \div Cardinality(DOMAIN values)

(* computeAggregatedMetrics: for items and what is relevant to each, what   *)
(* was retrieved for them.                                                  *)
AggregatedMetrics(items, relevant, retrieved) ==
    [mrr |-> Mean([i \in items |-> ReciprocalRank(retrieved[i], relevant[i])]),
     precision_at_k |-> Mean([i \in items |-> PrecisionAtK(retrieved[i], relevant[i], TopK)]),
     recall_at_k |-> Mean([i \in items |-> RecallAtK(retrieved[i], relevant[i], TopK)]),
     ndcg |-> Mean([i \in items |-> Ndcg(retrieved[i], relevant[i], TopK)]),
     map |-> Mean([i \in items |-> AveragePrecision(retrieved[i], relevant[i], TopK)]),
     total_queries |-> Cardinality(items)]

-----------------------------------------------------------------------------
(* rag-analyzer.ts: a trace is the scores and ids of its chunks, whether it *)
(* has a context window, and the ids that the model's answer refers to.     *)
MinRelevance == 500
LowQuality == 300

IsContextSufficient(trace) == \E i \in DOMAIN trace.scores : trace.scores[i] >= MinRelevance
DetectHallucinatedSources(trace) == ~(trace.cited \subseteq trace.chunks)

RiskLevel(score) ==
    IF score >= 700 THEN "critical" ELSE IF score >= 500 THEN "high"
    ELSE IF score >= 300 THEN "medium" ELSE "low"

AnalyzeTrace(trace) ==
    LET n == Len(trace.scores)
        average == Mean(trace.scores)
        poor == Cardinality({i \in 1..n : trace.scores[i] < LowQuality})
        truncated == trace.window /\ n > TopK
    IN  [sufficient |-> IsContextSufficient(trace),
         truncated |-> truncated,
         hallucinated |-> DetectHallucinatedSources(trace),
         poor |-> poor, average |-> average, chunks |-> n,
         risk |-> If(~IsContextSufficient(trace), 400) + If(DetectHallucinatedSources(trace), 300)
                  + If(truncated, 150) + If(10 * poor > 3 * n, 100) + If(average < 300, 50)]

AnalyzeTraces(traces) ==
    LET result == [i \in DOMAIN traces |-> AnalyzeTrace(traces[i])]
        risk == Mean([i \in DOMAIN traces |-> result[i].risk])
    IN  [risk |-> risk,
         level |-> RiskLevel(risk),
         sufficient |-> \A i \in DOMAIN traces : result[i].sufficient,
         hallucinated |-> \E i \in DOMAIN traces : result[i].hallucinated,
         truncated |-> \E i \in DOMAIN traces : result[i].truncated,
         poor |-> MapThenSumSet(LAMBDA i : result[i].poor, DOMAIN traces),
         average |-> Mean([i \in DOMAIN traces |-> result[i].average])]

-----------------------------------------------------------------------------
(* The rating of a run, and the advice that goes with it.                   *)
OverallQuality(metrics, analysis) ==
    IF metrics.ndcg >= 800 /\ metrics.mrr >= 700 /\ analysis.level = "low" THEN "excellent"
    ELSE IF metrics.ndcg < 300 \/ metrics.mrr < 200 \/ analysis.level = "critical" THEN "poor"
    ELSE IF metrics.ndcg < 500 \/ metrics.mrr < 400 THEN "fair"
    ELSE "good"

Recommendations(metrics, analysis) ==
    {advice \in {"precision", "recall", "low quality", "truncated", "insufficient"} :
        \/ advice = "precision" /\ metrics.precision_at_k < 500
        \/ advice = "recall" /\ metrics.recall_at_k < 500
        \/ advice = "low quality" /\ analysis.poor > 0
        \/ advice = "truncated" /\ analysis.truncated
        \/ advice = "insufficient" /\ ~analysis.sufficient}
=============================================================================
