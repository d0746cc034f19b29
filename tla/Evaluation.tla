------------------------------ MODULE Evaluation ------------------------------
(***************************************************************************)
(* services/evaluation-service with one dataset and one run of it.  The run *)
(* is created and executed by POST /internal/eval/runs; events that request *)
(* it execute it too, if they find it pending.  Meanwhile the dataset is    *)
(* filled, extended and deleted, feedback is recorded, and a client reads   *)
(* the run.  Every statement and publication is an await of its own.        *)
(*                                                                          *)
(* The tables have the columns of the statements and the foreign keys of    *)
(* the migration.                                                           *)
(***************************************************************************)
EXTENDS RetrievalMetrics, TLC

CONSTANTS
    EvalItems,        \* the items a dataset may have
    RelevantTo,       \* the documents the dataset says are relevant to each
    RetrievedFor,     \* what the retrieval service answers: [documents, scores]
    EvalRequests,     \* deliveries of evaluation.run.requested
    Feedbacks,        \* deliveries of retrieval.feedback.recorded
    DatasetCalls,     \* calls of the repository's dataset operations
    QueryConcurrency, \* max_query_concurrency
    MaxEvalFaults     \* rejected calls, lost answers and crashes (a bound)

VARIABLES
    dataset,          \* [state, count]
    datasetItems,     \* its item rows
    datasetCalls,     \* what each call is at
    run,              \* the run row: [status, metrics]
    scores,           \* retrieval_scores: [by, item, precision, recall]
    executions,       \* what each execution is at
    feedback,         \* what each delivery is at, and human_feedback
    asked,            \* a GET of the run
    evalHeard,        \* published events
    evalFaults

datasetVars == <<dataset, datasetItems, datasetCalls>>
runVars == <<run, scores>>
evalVars == <<datasetVars, runVars, executions, feedback, asked, evalHeard, evalFaults>>

EvalAssumption ==
    /\ IsFiniteSet(EvalItems) /\ IsFiniteSet(DatasetCalls)
    /\ "api" \notin EvalRequests
    /\ TopK \in Nat \ {0} /\ \A i \in EvalItems : Len(RetrievedFor[i].documents) \in Nat
    /\ QueryConcurrency \in Nat \ {0}
    /\ MaxEvalFaults \in Nat

ASSUME EvalConstants == EvalAssumption

Executors == {"api"} \cup EvalRequests
Executing == {"start", "items", "query", "scores", "metrics", "complete", "tell", "report",
              "catch", "tellFailed"}

(* raced: the executions that had not started yet when this one was let     *)
(* through.  (For the properties.)                                          *)
Execution(pc) == [pc |-> pc, items |-> {}, batch |-> {}, answered |-> {}, raced |-> {}]
NoCall == [pc |-> "idle", items |-> {}]

EvalInit ==
    /\ dataset = [state |-> "none", count |-> 0] /\ datasetItems = {}
    /\ datasetCalls = [c \in DatasetCalls |-> NoCall]
    /\ run = [status |-> "none", metrics |-> <<>>]
    /\ scores = {}
    /\ executions = [e \in Executors |-> Execution("idle")]
    /\ feedback = [state |-> [f \in Feedbacks |-> "waiting"], rows |-> {}]
    /\ asked = [pc |-> "none", run |-> run, scores |-> {}]
    /\ evalHeard = {}
    /\ evalFaults = 0

EvalFault == evalFaults < MaxEvalFaults /\ evalFaults' = evalFaults + 1
NoEvalFault == UNCHANGED evalFaults

-----------------------------------------------------------------------------
(* createDataset: the dataset with its count, then the items, if any.       *)
CreateDataset(c) ==
    /\ datasetCalls[c].pc = "idle"
    /\ dataset.state = "none"
    /\ \E items \in SUBSET EvalItems :
          /\ dataset' = [state |-> "stored", count |-> Cardinality(items)]
          /\ datasetCalls' = [datasetCalls EXCEPT ![c] =
                IF items = {} THEN NoCall ELSE [pc |-> "insert", items |-> items]]
    /\ UNCHANGED <<datasetItems, runVars, executions, feedback, asked, evalHeard, evalFaults>>

(* ... which refer to the dataset.  There is no recount: when another call  *)
(* added items to the new dataset before, this call was "overtaken".        *)
InsertItems(c) ==
    /\ datasetCalls[c].pc = "insert"
    /\ IF dataset.state = "stored"
       THEN datasetItems' = datasetItems \cup datasetCalls[c].items
            /\ datasetCalls' = [datasetCalls EXCEPT
                   ![c] = [NoCall EXCEPT !.pc = IF datasetItems = {} THEN "idle" ELSE "overtaken"]]
       ELSE datasetCalls' = [datasetCalls EXCEPT ![c].pc = "broken"] /\ UNCHANGED datasetItems
    /\ UNCHANGED <<dataset, runVars, executions, feedback, asked, evalHeard, evalFaults>>

AddDatasetItem(c) ==
    /\ datasetCalls[c].pc = "idle"
    /\ dataset.state = "stored"
    /\ \E i \in EvalItems \ (datasetItems \cup UNION {datasetCalls[d].items : d \in DatasetCalls}) :
          /\ datasetItems' = datasetItems \cup {i}
          /\ datasetCalls' = [datasetCalls EXCEPT ![c] = [pc |-> "recount", items |-> {i}]]
    /\ UNCHANGED <<dataset, runVars, executions, feedback, asked, evalHeard, evalFaults>>

(* One statement: the count is taken when the row is updated, if it is      *)
(* still there.                                                             *)
Recount(c) ==
    /\ datasetCalls[c].pc = "recount"
    /\ dataset' = IF dataset.state = "stored" THEN [dataset EXCEPT !.count = Cardinality(datasetItems)]
                  ELSE dataset
    /\ datasetCalls' = [datasetCalls EXCEPT ![c] = NoCall]
    /\ UNCHANGED <<datasetItems, runVars, executions, feedback, asked, evalHeard, evalFaults>>

(* deleteDataset: the items, then the dataset, which a run or a new item    *)
(* may refer to: then the call fails half way.                              *)
DeleteItems(c) ==
    /\ datasetCalls[c].pc = "idle"
    /\ dataset.state = "stored"
    /\ datasetItems' = {}
    /\ datasetCalls' = [datasetCalls EXCEPT ![c].pc = "delete"]
    /\ UNCHANGED <<dataset, runVars, executions, feedback, asked, evalHeard, evalFaults>>

DeleteDataset(c) ==
    /\ datasetCalls[c].pc = "delete"
    /\ IF run.status # "none" \/ datasetItems # {}
       THEN datasetCalls' = [datasetCalls EXCEPT ![c].pc = "broken"] /\ UNCHANGED dataset
       ELSE /\ dataset' = [state |-> "deleted", count |-> 0]
            /\ datasetCalls' = [datasetCalls EXCEPT ![c] = NoCall]
    /\ UNCHANGED <<datasetItems, runVars, executions, feedback, asked, evalHeard, evalFaults>>

DatasetCallFails(c) ==
    /\ datasetCalls[c].pc \in {"insert", "recount", "delete"}
    /\ datasetCalls' = [datasetCalls EXCEPT ![c].pc = "broken"]
    /\ EvalFault
    /\ UNCHANGED <<dataset, datasetItems, runVars, executions, feedback, asked, evalHeard>>

-----------------------------------------------------------------------------
EPc(e) == executions[e].pc
Goes(e, pc) == executions' = [executions EXCEPT ![e].pc = pc]

(* The answer of an await comes and the execution goes on, or it is lost,   *)
(* and the execution is where a rejection takes it.                         *)
GoesOn(e, pc) ==
    \/ Goes(e, pc) /\ NoEvalFault
    \/ Goes(e, "catch") /\ EvalFault

(* POST /internal/eval/runs: the dataset is looked up, then the run is      *)
(* created and its execution started, nobody waiting for it.                *)
PostRun ==
    /\ EPc("api") = "idle"
    /\ Goes("api", IF dataset.state = "stored" THEN "create" ELSE "refused")
    /\ UNCHANGED <<datasetVars, runVars, feedback, asked, evalHeard, evalFaults>>

CreateRun ==
    /\ EPc("api") = "create"
    /\ IF dataset.state = "stored"
       THEN run' = [run EXCEPT !.status = "pending"] /\ Goes("api", "start")
       ELSE Goes("api", "refused") /\ UNCHANGED run
    /\ UNCHANGED <<datasetVars, scores, feedback, asked, evalHeard, evalFaults>>

(* The worker's handler: a run that is not there, or not pending, is        *)
(* skipped.                                                                 *)
ReceiveRequest(e) ==
    /\ EPc(e) = "idle"
    /\ executions' = [executions EXCEPT
          ![e].pc = IF run.status = "pending" THEN "start" ELSE "skipped",
          ![e].raced = {x \in Executors : EPc(x) = "start"}]
    /\ UNCHANGED <<datasetVars, runVars, feedback, asked, evalHeard, evalFaults>>

(* executeRun.  setRunStarted is outside of its try.                        *)
SetRunStarted(e) ==
    /\ EPc(e) = "start"
    /\ run' = [run EXCEPT !.status = "running"]
    /\ \/ Goes(e, "items") /\ NoEvalFault
       \/ Goes(e, "gave up") /\ EvalFault
    /\ UNCHANGED <<datasetVars, scores, feedback, asked, evalHeard>>

NextBatch(items) == {b \in SUBSET items : Cardinality(b) = SmallerOf(QueryConcurrency, Cardinality(items))}

GetDatasetItems(e) ==
    /\ EPc(e) = "items"
    /\ \E batch \in NextBatch(datasetItems) :
          executions' = [executions EXCEPT ![e].pc = IF datasetItems = {} THEN "catch" ELSE "query",
                                           ![e].items = datasetItems, ![e].batch = batch]
    /\ UNCHANGED <<datasetVars, runVars, feedback, asked, evalHeard, evalFaults>>

(* One of the searches of a batch is answered.  The next batch starts when  *)
(* all are.                                                                 *)
Search(e) ==
    /\ EPc(e) = "query"
    /\ \E i \in executions[e].batch :
          LET x == [executions[e] EXCEPT !.answered = @ \cup {i}, !.batch = @ \ {i}]
              rest == x.items \ x.answered
          IN  \E batch \in IF x.batch = {} THEN NextBatch(rest) ELSE {x.batch} :
                executions' = [executions EXCEPT
                    ![e] = [x EXCEPT !.batch = batch, !.pc = IF rest = {} THEN "scores" ELSE @]]
    /\ UNCHANGED <<datasetVars, runVars, feedback, asked, evalHeard, evalFaults>>

(* getDatasetItems gives the columns names in camel case: the calculator    *)
(* finds no relevant_document_ids in them.                                  *)
RelevantAsRead(i) == {}

RetrievedDocuments == [i \in EvalItems |-> RetrievedFor[i].documents]
MetricsOf(e) == AggregatedMetrics(executions[e].items, [i \in EvalItems |-> RelevantAsRead(i)],
                                  RetrievedDocuments)

(* The traces have no context window and no answer of a model.              *)
AnalysisOf(e) ==
    AnalyzeTraces([i \in executions[e].items |->
        [scores |-> RetrievedFor[i].scores, chunks |-> {}, cited |-> {}, window |-> FALSE]])

(* Mutant: the insertion is not awaited, and its failure not noticed.       *)
SaveScoresUnawaited(e) ==
    /\ EPc(e) = "scores"
    /\ Goes(e, "metrics")
    /\ UNCHANGED <<datasetVars, runVars, feedback, asked, evalHeard, evalFaults>>

SaveRetrievalScores(e) ==
    /\ EPc(e) = "scores"
    /\ scores' = scores \cup
         {[by |-> e, item |-> i,
           precision |-> PrecisionAtK(RetrievedDocuments[i], RelevantAsRead(i), TopK),
           recall |-> RecallAtK(RetrievedDocuments[i], RelevantAsRead(i), TopK)] :
             i \in executions[e].items}
    /\ GoesOn(e, "metrics")
    /\ UNCHANGED <<datasetVars, run, feedback, asked, evalHeard>>

UpdateRunMetrics(e) ==
    /\ EPc(e) = "metrics"
    /\ run' = [run EXCEPT !.metrics = MetricsOf(e)]
    /\ GoesOn(e, "complete")
    /\ UNCHANGED <<datasetVars, scores, feedback, asked, evalHeard>>

SetRunCompleted(e) ==
    /\ EPc(e) = "complete"
    /\ run' = [run EXCEPT !.status = "completed"]
    /\ GoesOn(e, "tell")
    /\ UNCHANGED <<datasetVars, scores, feedback, asked, evalHeard>>

PublishEvaluationCompleted(e) ==
    /\ EPc(e) = "tell"
    /\ evalHeard' = evalHeard \cup {[type |-> "completed", by |-> e, metrics |-> MetricsOf(e)]}
    /\ GoesOn(e, "report")
    /\ UNCHANGED <<datasetVars, runVars, feedback, asked>>

PublishRetrievalQualityReported(e) ==
    /\ EPc(e) = "report"
    /\ evalHeard' = evalHeard \cup
         {[type |-> "report", by |-> e, risk |-> AnalysisOf(e).risk,
           quality |-> OverallQuality(MetricsOf(e), AnalysisOf(e)),
           advice |-> Recommendations(MetricsOf(e), AnalysisOf(e))]}
    /\ GoesOn(e, "done")
    /\ UNCHANGED <<datasetVars, runVars, feedback, asked>>

(* Mutant: the failure is announced and not recorded.                       *)
OnlyAnnounceFailure(e) ==
    /\ EPc(e) = "catch"
    /\ Goes(e, "tellFailed")
    /\ UNCHANGED <<datasetVars, runVars, feedback, asked, evalHeard, evalFaults>>

(* The catch of executeRun: the run is marked failed, completed or not,     *)
(* that is announced, and the error thrown on.                              *)
UpdateRunStatusFailed(e) ==
    /\ EPc(e) = "catch"
    /\ run' = [run EXCEPT !.status = "failed"]
    /\ \/ Goes(e, "tellFailed") /\ NoEvalFault
       \/ Goes(e, "gave up") /\ EvalFault
    /\ UNCHANGED <<datasetVars, scores, feedback, asked, evalHeard>>

PublishEvaluationFailed(e) ==
    /\ EPc(e) = "tellFailed"
    /\ evalHeard' = evalHeard \cup {[type |-> "failed", by |-> e]}
    /\ Goes(e, "threw")
    /\ UNCHANGED <<datasetVars, runVars, feedback, asked, evalFaults>>

(* An await rejects with nothing done.                                      *)
ExecutionRejects(e) ==
    /\ EPc(e) \in Executing
    /\ Goes(e, IF EPc(e) \in {"start", "catch"} THEN "gave up"
               ELSE IF EPc(e) = "tellFailed" THEN "threw" ELSE "catch")
    /\ EvalFault
    /\ UNCHANGED <<datasetVars, runVars, feedback, asked, evalHeard>>

-----------------------------------------------------------------------------
(* recordFeedback: the row, then the report, whose failure is only logged.  *)
SaveFeedback(f) ==
    /\ feedback.state[f] = "waiting"
    /\ feedback' = [state |-> [feedback.state EXCEPT ![f] = "saved"], rows |-> feedback.rows \cup {f}]
    /\ UNCHANGED <<datasetVars, runVars, executions, asked, evalHeard, evalFaults>>

ReportFeedback(f) ==
    /\ feedback.state[f] = "saved"
    /\ feedback' = [feedback EXCEPT !.state[f] = "reported"]
    /\ evalHeard' = evalHeard \cup {[type |-> "feedback", of |-> f]}
    /\ UNCHANGED <<datasetVars, runVars, executions, asked, evalFaults>>

FeedbackFails(f) ==
    /\ feedback.state[f] \in {"waiting", "saved"}
    /\ feedback' = [feedback EXCEPT !.state[f] = "failed"]
    /\ EvalFault
    /\ UNCHANGED <<datasetVars, runVars, executions, asked, evalHeard>>

(* GET /internal/eval/runs/:id: the run, then its scores.                   *)
GetRun ==
    /\ asked.pc = "none" /\ run.status # "none"
    /\ asked' = [asked EXCEPT !.pc = "run", !.run = run]
    /\ UNCHANGED <<datasetVars, runVars, executions, feedback, evalHeard, evalFaults>>

GetRetrievalScores ==
    /\ asked.pc = "run"
    /\ asked' = [asked EXCEPT !.pc = "answered", !.scores = scores]
    /\ UNCHANGED <<datasetVars, runVars, executions, feedback, evalHeard, evalFaults>>

(* The process dies; what it was doing is not taken up again.               *)
EvalCrash ==
    /\ \E e \in Executors : EPc(e) \in Executing
    /\ executions' = [e \in Executors |->
                        IF EPc(e) \in Executing
                        THEN [Execution("lost") EXCEPT !.raced = executions[e].raced]
                        ELSE executions[e]]
    /\ EvalFault
    /\ UNCHANGED <<datasetVars, runVars, feedback, asked, evalHeard>>

EvalNext ==
    \/ \E c \in DatasetCalls :
          \/ CreateDataset(c) \/ InsertItems(c) \/ AddDatasetItem(c) \/ Recount(c)
          \/ DeleteItems(c) \/ DeleteDataset(c) \/ DatasetCallFails(c)
    \/ PostRun \/ CreateRun
    \/ \E e \in EvalRequests : ReceiveRequest(e)
    \/ \E e \in Executors :
          \/ SetRunStarted(e) \/ GetDatasetItems(e) \/ Search(e) \/ SaveRetrievalScores(e)
          \/ UpdateRunMetrics(e) \/ SetRunCompleted(e) \/ PublishEvaluationCompleted(e)
          \/ PublishRetrievalQualityReported(e) \/ UpdateRunStatusFailed(e)
          \/ PublishEvaluationFailed(e) \/ ExecutionRejects(e)
    \/ \E f \in Feedbacks : SaveFeedback(f) \/ ReportFeedback(f) \/ FeedbackFails(f)
    \/ GetRun \/ GetRetrievalScores
    \/ EvalCrash

EvalSpec == EvalInit /\ [][EvalNext]_evalVars

-----------------------------------------------------------------------------
EvalTypeOK ==
    /\ dataset.state \in {"none", "stored", "deleted"} /\ dataset.count \in 0..Cardinality(EvalItems)
    /\ datasetItems \subseteq EvalItems
    /\ \A c \in DatasetCalls : datasetCalls[c].pc \in {"idle", "insert", "recount", "delete", "broken",
                                                  "overtaken"}
    /\ run.status \in {"none", "pending", "running", "completed", "failed"}
    /\ \A s \in scores : s.by \in Executors /\ s.item \in EvalItems
                         /\ s.precision \in 0..1000 /\ s.recall \in 0..1000
    /\ \A e \in Executors :
          /\ EPc(e) \in Executing \cup {"idle", "create", "refused", "skipped", "done", "threw",
                                        "gave up", "lost"}
          /\ executions[e].answered \subseteq executions[e].items
          /\ Cardinality(executions[e].batch) <= QueryConcurrency
    /\ asked.pc \in {"none", "run", "answered"}
    /\ evalFaults \in 0..MaxEvalFaults

(* A run that was executed is completed or failed when its executions have  *)
(* ended, even if two of them overlapped and one of them failed; only a     *)
(* crash, or a rejected status update, leaves it running.  Without any      *)
(* failure of an await, what consumers heard last or before is its status.  *)
RunSettles ==
    (\A e \in Executors : EPc(e) \notin Executing \cup {"lost", "gave up"}) =>
        LET ended == {e \in Executors : EPc(e) \in {"done", "threw"}}
        IN  ended # {} =>
              /\ run.status \in {"completed", "failed"}
              /\ evalFaults = 0 => \E ev \in evalHeard : ev.type = run.status

(* Deliveries of one request, and the POST itself, store the scores of an   *)
(* item more than once only if one of them was let through before the other *)
(* had marked the run as running: a redelivery after that is skipped.       *)
ScoresStoredOnce ==
    \A s, t \in scores : s.item = t.item /\ s.by # t.by =>
        s.by \in executions[t.by].raced \/ t.by \in executions[s.by].raced

(* Whoever hears that a run is completed, or reads it in two steps and      *)
(* finds it completed, finds its metrics and a score of each of its items;  *)
(* and feedback that is reported is stored.                                 *)
CompletedRunIsWhole ==
    LET scored(rows) == {s.item : s \in rows}
    IN  /\ asked.pc = "answered" /\ asked.run.status = "completed" =>
              asked.run.metrics.total_queries <= Cardinality(scored(asked.scores))
        /\ \A ev \in evalHeard :
              /\ ev.type = "completed" =>
                    /\ run.metrics # <<>>
                    /\ Cardinality(scored({s \in scores : s.by = ev.by})) = ev.metrics.total_queries
              /\ ev.type = "feedback" => ev.of \in feedback.rows

(* However the calls overlap, the dataset's count is that of its items once *)
(* they have returned, unless one was cut off between its two statements or *)
(* overtaken; and no item is left without its dataset.                      *)
DatasetCount ==
    /\ dataset.state # "stored" => datasetItems = {}
    /\ (\A c \in DatasetCalls : datasetCalls[c].pc = "idle") /\ dataset.state = "stored" =>
          dataset.count = Cardinality(datasetItems)

(* What is stored of a dataset and its run is whole, once and counted.      *)
ResultsAreWhole == ScoresStoredOnce /\ CompletedRunIsWhole /\ DatasetCount
=============================================================================
