------------------------------ MODULE MCMemories ------------------------------
(* Instances for TLC of the services that consume documents and signals:    *)
(* the memory graph, the profile memory and the evaluation.                 *)
EXTENDS GraphMemory, ProfileMemory, Evaluation, TLC

CONSTANTS g1, g2, g3, w1, w2

Low(w) == [w |-> w, k |-> "low"]
Cap(w) == [w |-> w, k |-> "cap"]

MCRelationWords == <<[word |-> "manages", type |-> "manages"], [word |-> "owns", type |-> "owns"]>>
MCAlphaOrder == <<<<"ada">>, <<"bob">>>>
MCLogRatio == <<<<0>>, <<693, 0>>>>

(* "Ada owns Bob.", a document that names Bob alone, and an event without      *)
(* chunks, which is what the indexing service publishes.                     *)
AdaOwnsBob == <<<<<<Cap("ada"), Low("owns"), Cap("bob")>>>>>>
JustBob == <<<<<<Cap("bob")>>>>>>
MCChunksOf == (g1 :> AdaOwnsBob @@ g2 :> JustBob @@ g3 :> <<>>)
MCWorkspaceOf == (g1 :> w1 @@ g2 :> w1 @@ g3 :> w2)

CONSTANTS s1, s2, s3

(* A search with enough indicators, a setting, and a view of a document.     *)
Sig(via, type, words, settings, category) ==
    [via |-> via, type |-> type, words |-> words, settings |-> settings, category |-> category,
     rating |-> 0, topics |-> {}, hour |-> 9]
MCSignalOf == (s1 :> Sig("http", "search", {"brief", "summary", "react"}, {}, "none")
               @@ s2 :> Sig("queue", "setting_change", {}, {<<"response_style", "detailed">>}, "none")
               @@ s3 :> Sig("http", "document_view", {}, {}, "tech"))
MCPosted == <<s1, s3>>
MCIndicators == [concise |-> {"brief", "summary"}, detailed |-> {"explain"},
                 id |-> {"cara"}, en |-> {"explain"}]
MCDomainsOf == [react |-> {"web_dev"}]

CONSTANTS i1, i2, q1, f1, c1, c2

(* Of the two documents that answer i1, the second is relevant; the one      *)
(* relevant to i2 is not found.                                              *)
MCDiscount == <<1000, 631, 500>>
MCRelevantTo == (i1 :> {"d1"} @@ i2 :> {"d2"})
MCRetrievedFor == (i1 :> [documents |-> <<"d3", "d1">>, scores |-> <<700, 600>>]
                   @@ i2 :> [documents |-> <<"d3">>, scores |-> <<200>>])

(* The services share no state: one of them moves in each behaviour.  Of the *)
(* evaluation service that is a run, with one call that changes its dataset; *)
(* a run that nothing disturbs, and who reads it; two calls that change the  *)
(* dataset; or the feedback.  The delivery without chunks has no step to     *)
(* interleave: once it is taken, it goes on.  A second failure comes when    *)
(* one document is worked on.                                               *)
VARIABLE focus

MCVars == <<graphVars, profileVars, evalVars, focus>>
MCInit ==
    /\ GraphInit /\ ProfileInit /\ EvalInit
    /\ focus \in {"graph", "profile", "run", "read", "dataset", "feedback"}

EvalFocus ==
    CASE focus = "run" -> UNCHANGED <<feedback, asked, datasetCalls[c2]>>
      [] focus = "read" -> /\ UNCHANGED <<feedback, datasetCalls[c2], executions[q1]>>
                           /\ EPc("api") # "idle" => UNCHANGED datasetCalls
      [] focus = "dataset" -> UNCHANGED <<executions, feedback>>
      [] OTHER -> UNCHANGED <<executions, datasetCalls>>

MCNext ==
    /\ UNCHANGED focus
    /\ \/ /\ focus = "graph"
          /\ GraphNext
          /\ calls[g3].pc \in GraphRunning => calls'[g3] # calls[g3]
          /\ graphFaults' > graphFaults /\ graphFaults > 0 => activeJobs <= 1
          /\ UNCHANGED <<profileVars, evalVars>>
       \/ focus = "profile" /\ ProfileNext /\ UNCHANGED <<graphVars, evalVars>>
       \/ focus \notin {"graph", "profile"} /\ EvalNext /\ EvalFocus /\ UNCHANGED <<graphVars, profileVars>>

(* The type invariants of the three services.                                *)
MemoriesTypeOK == GraphTypeOK /\ ProfileTypeOK /\ EvalTypeOK

MCSpec == MCInit /\ [][MCNext]_MCVars
=============================================================================
