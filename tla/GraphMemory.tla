----------------------------- MODULE GraphMemory -----------------------------
(***************************************************************************)
(* services/memory-graph-service: the worker that turns an indexed document *)
(* into entities and relations in Neo4j, and the queries that read them.    *)
(*                                                                          *)
(* A delivery of document.indexed is processed by one call.  The call       *)
(* extracts, merges the entities, announces them, merges and announces the  *)
(* relations, looks for conflicts and announces them, and announces the     *)
(* update; when an announcement rejects, the whole attempt is repeated.     *)
(* MERGE of a node is not atomic: the only constraint is on the id, so two  *)
(* calls may both find no node of a name and both create one.  MERGE of a   *)
(* relation between two bound nodes locks them.                             *)
(***************************************************************************)
EXTENDS GraphText

CONSTANTS
    GraphDeliveries,
    ChunksOf,         \* the chunks of each delivery's document; the indexing
                      \* service sends none, other producers may
    WorkspaceOf,      \* the workspace of each delivery
    GraphConcurrency, \* GraphWorkerConfig.maxConcurrency
    GraphRetries,     \* WORKER_RETRY_CONFIG.maxRetries
    MaxGraphFaults    \* rejected calls, lost answers and crashes (a bound)

VARIABLES
    nodes,       \* the Entity nodes
    edges,       \* the relations between them
    calls,       \* what each delivery's call is at
    activeJobs,
    heard,       \* published events
    graphFaults

graphVars == <<nodes, edges, calls, activeJobs, heard, graphFaults>>

GraphAssumption ==
    /\ IsFiniteSet(GraphDeliveries)
    /\ GraphConcurrency \in Nat \ {0}
    /\ GraphRetries \in Nat
    /\ MaxGraphFaults \in Nat

ASSUME GraphConstants == GraphAssumption

GraphEnded == {"done", "failed", "refused", "lost"}
GraphRunning == {"merge", "create", "announce", "relate", "announceRelations",
                 "check", "checkRelations", "announceConflicts", "update"}

(* What a call holds: the items its loop still has to do, the entities and  *)
(* relations it merged, the conflicts it found, and whether it swallowed an *)
(* error (the code logs it and goes on).                                    *)
Call(pc, n) == [pc |-> pc, attempt |-> n, todo |-> <<>>, merged |-> {}, related |-> {},
                conflicts |-> {}, missed |-> FALSE]

GraphInit ==
    /\ nodes = {} /\ edges = {} /\ heard = {}
    /\ calls = [d \in GraphDeliveries |-> Call("waiting", 0)]
    /\ activeJobs = 0
    /\ graphFaults = 0

GraphFault == graphFaults < MaxGraphFaults /\ graphFaults' = graphFaults + 1
NoGraphFault == UNCHANGED graphFaults

(* What the text of each document gives (its pure part).                    *)
Extracted == [d \in GraphDeliveries |-> SetToSeq(Candidates(ChunksOf[d]))]
Detected  == [d \in GraphDeliveries |->
                 DetectRelations({e.name : e \in Range(Extracted[d])}, ChunksOf[d])]

AttemptOf(d, n) == [Call("merge", n) EXCEPT !.todo = Extracted[d]]

(* A text is finite, and so is what is read in it.                          *)
GraphTexts ==
    \A d \in GraphDeliveries : /\ IsText(ChunksOf[d])
                               /\ IsFiniteSet(Candidates(ChunksOf[d])) /\ IsFiniteSet(Detected[d])

ASSUME TextsAreFinite == GraphTexts

At(d, pc) == calls[d].pc = pc /\ calls[d].todo # <<>>
Now(d) == Head(calls[d].todo)

(* The loop's item is done, and the call is otherwise as given.             *)
Done(d, call) == calls' = [calls EXCEPT ![d] = [call EXCEPT !.todo = Tail(@)]]

(* The answer arrives, or is lost: the code logs that and goes on.          *)
Answered(d, call) ==
    \/ Done(d, call) /\ NoGraphFault
    \/ Done(d, [calls[d] EXCEPT !.pc = call.pc, !.missed = TRUE]) /\ GraphFault

(* retry(): the attempt rejects; a fresh one, or the call throws.           *)
GraphAttemptFails(d) ==
    IF calls[d].attempt < GraphRetries
    THEN /\ calls' = [calls EXCEPT ![d] = AttemptOf(d, @.attempt + 1)]
         /\ UNCHANGED activeJobs
    ELSE /\ calls' = [calls EXCEPT ![d] = Call("failed", 0)]
         /\ activeJobs' = activeJobs - 1

-----------------------------------------------------------------------------
(* Mutant: the limit is compared with > instead of >=.                      *)
ReceiveOneMore(d) ==
    /\ calls[d].pc = "waiting"
    /\ \/ /\ activeJobs > GraphConcurrency
          /\ calls' = [calls EXCEPT ![d].pc = "refused"]
          /\ UNCHANGED activeJobs
       \/ /\ activeJobs <= GraphConcurrency
          /\ activeJobs' = activeJobs + 1
          /\ calls' = [calls EXCEPT ![d] = AttemptOf(d, 0)]
    /\ UNCHANGED <<nodes, edges, heard, graphFaults>>

(* processDocumentIndexed: a call over the limit throws.                    *)
Receive(d) ==
    /\ calls[d].pc = "waiting"
    /\ \/ /\ activeJobs >= GraphConcurrency
          /\ calls' = [calls EXCEPT ![d].pc = "refused"]
          /\ UNCHANGED activeJobs
       \/ /\ activeJobs < GraphConcurrency
          /\ activeJobs' = activeJobs + 1
          /\ calls' = [calls EXCEPT ![d] = AttemptOf(d, 0)]
    /\ UNCHANGED <<nodes, edges, heard, graphFaults>>

(* mergeEntity, the match: on a match it raises the confidence and returns  *)
(* the first of the nodes; otherwise the node is still to be created.       *)
MergeEntity(d) ==
    /\ At(d, "merge")
    /\ LET e == Now(d)
           found == {n \in nodes : n.workspace = WorkspaceOf[d] /\ n.name = e.name}
           raised == {[n EXCEPT !.confidence = Max({@, e.confidence})] : n \in found}
       IN  \/ /\ found = {}
              /\ calls' = [calls EXCEPT ![d].pc = "create"]
              /\ UNCHANGED <<nodes, graphFaults>>
           \/ /\ nodes' = (nodes \ found) \cup raised
              /\ \E n \in found :
                    Answered(d, [calls[d] EXCEPT !.merged = @ \cup {<<e.name, n.id>>}])
    /\ UNCHANGED <<edges, activeJobs, heard>>

(* mergeEntity, the creation of a node nobody had when it matched.          *)
CreateEntity(d) ==
    /\ At(d, "create")
    /\ LET e == Now(d)
           id == Cardinality(nodes) + 1
           call == [calls[d] EXCEPT !.pc = "merge"]
       IN  /\ nodes' = nodes \cup {[id |-> id, workspace |-> WorkspaceOf[d], name |-> e.name,
                                    confidence |-> e.confidence]}
           /\ Answered(d, [call EXCEPT !.merged = @ \cup {<<e.name, id>>}])
    /\ UNCHANGED <<edges, activeJobs, heard>>

(* mergeEntities, mergeRelation and the conflict queries catch an error,    *)
(* log it, and go on with the next item.                                    *)
Skip(d) ==
    /\ At(d, "merge") \/ At(d, "relate") \/ At(d, "check") \/ At(d, "checkRelations")
    /\ Done(d, [calls[d] EXCEPT !.missed = TRUE])
    /\ GraphFault
    /\ UNCHANGED <<nodes, edges, activeJobs, heard>>

(* mergeRelation: the ends are matched by id, and the workspace.            *)
MergeRelation(d) ==
    /\ At(d, "relate")
    /\ LET r == Now(d)
           id == Cardinality(edges) + 1
           ends == {p \in calls[d].merged \X calls[d].merged :
                      p[1][1] = r.source /\ p[2][1] = r.target}
           same(p) == {x \in edges : x.source = p[1][2] /\ x.target = p[2][2] /\ x.type = r.type}
           raised(p) == {[x EXCEPT !.confidence = Max({@, r.confidence})] : x \in same(p)}
           new(p) == {[id |-> id, source |-> p[1][2], target |-> p[2][2], type |-> r.type,
                       confidence |-> r.confidence]}
       IN  \E p \in ends :
             LET out == IF same(p) = {} THEN new(p) ELSE raised(p)
             IN  /\ edges' = (edges \ same(p)) \cup out
                 /\ Answered(d, [calls[d] EXCEPT !.related = @ \cup out])
    /\ UNCHANGED <<nodes, activeJobs, heard>>

-----------------------------------------------------------------------------
(* Mutant: each pair is to be reported once, by the older node.             *)
EntityConflictsOnce(w, id) ==
    LET name == (CHOOSE n \in nodes : n.id = id).name
    IN  {[kind |-> "duplicate_entity", ids |-> {id, n.id}] : n \in
            {n \in nodes : n.workspace = w /\ n.id > id /\ n.name = name}}

(* Conflicts: another node of the same name; targets that the entity has    *)
(* relations of one type with in both directions, found only if a third     *)
(* entity has one to it as well; another relation with the same ends and    *)
(* type whose confidence differs by more than 0.4.                          *)
EntityConflicts(w, id) ==
    LET name == (CHOOSE n \in nodes : n.id = id).name
        into(t) == {x.source : x \in {x \in edges : x.target = id /\ x.type = t}}
        from(t) == {x.target : x \in {x \in edges : x.source = id /\ x.type = t}}
        mutual(t) == {m \in into(t) \cap from(t) : into(t) \ {m} # {}}
    IN  {[kind |-> "duplicate_entity", ids |-> {id, n.id}] : n \in
            {n \in nodes : n.workspace = w /\ n.id # id /\ n.name = name}}
        \cup {[kind |-> "mutually_exclusive_relation", ids |-> {id} \cup mutual(t)] : t \in
                {t \in {x.type : x \in edges} : mutual(t) # {}}}

RelationConflicts(r) ==
    LET rivals == {x \in edges : x.source = r.source /\ x.target = r.target
                                 /\ x.type = r.type /\ x.id # r.id}
        differs(x) == x.confidence - r.confidence > 400 \/ r.confidence - x.confidence > 400
    IN  {[kind |-> "contradictory_property", ids |-> {r.source, r.target}] :
            x \in {x \in rivals : (\A y \in rivals : y.confidence <= x.confidence) /\ differs(x)}}

CheckConflicts(d) ==
    /\ \/ /\ At(d, "check")
          /\ Done(d, [calls[d] EXCEPT !.conflicts = @ \cup EntityConflicts(WorkspaceOf[d], Now(d))])
       \/ /\ At(d, "checkRelations")
          /\ Done(d, [calls[d] EXCEPT !.conflicts = @ \cup RelationConflicts(Now(d))])
    /\ UNCHANGED <<nodes, edges, activeJobs, heard, graphFaults>>

-----------------------------------------------------------------------------
EventOf(d, item) ==
    CASE calls[d].pc = "announce"          -> [type |-> "entity_created", id |-> item]
      [] calls[d].pc = "announceRelations" -> [type |-> "relation_created", id |-> item.id,
                                               source |-> item.source, target |-> item.target]
      [] calls[d].pc = "announceConflicts" -> [type |-> "conflict_detected", conflict |-> item]
      [] calls[d].pc = "update"            -> [type |-> "updated", document |-> d]

GraphPublishes(d) == \E pc \in {"announce", "announceRelations", "announceConflicts", "update"} :
                        At(d, pc)

(* The four publish methods.  The event is out; its answer may be lost.     *)
Publish(d) ==
    /\ GraphPublishes(d)
    /\ heard' = heard \cup {EventOf(d, Now(d))}
    /\ \/ Done(d, calls[d]) /\ UNCHANGED activeJobs /\ NoGraphFault
       \/ GraphAttemptFails(d) /\ GraphFault
    /\ UNCHANGED <<nodes, edges>>

PublishRejects(d) ==
    /\ GraphPublishes(d)
    /\ GraphAttemptFails(d)
    /\ GraphFault
    /\ UNCHANGED <<nodes, edges, heard>>

(* Mutant: entities and relations are announced together, once both are     *)
(* merged, relations first.                                                 *)
FollowingLate == [merge |-> "relate", relate |-> "announceRelations",
                  announceRelations |-> "announce", announce |-> "check",
                  check |-> "checkRelations", checkRelations |-> "announceConflicts",
                  announceConflicts |-> "update"]

(* The loop of a stage has ended and the next one starts, in the order of   *)
(* the body of the attempt; detectRelations works on everything extracted,  *)
(* and a relation is merged only if both its ends were.                     *)
Following == [merge |-> "announce", announce |-> "relate", relate |-> "announceRelations",
              announceRelations |-> "check", check |-> "checkRelations",
              checkRelations |-> "announceConflicts", announceConflicts |-> "update"]

Items(d, stage) ==
    LET call == calls[d]
        known == {m[1] : m \in call.merged}
    IN  CASE stage \in {"announce", "check"} -> {m[2] : m \in call.merged}
          [] stage = "relate" -> {r \in Detected[d] :
                                    r.exact /\ r.source \in known /\ r.target \in known}
          [] stage \in {"announceRelations", "checkRelations"} -> call.related
          [] stage = "announceConflicts" -> call.conflicts
          [] stage = "update" -> {d}

Advance(d) ==
    /\ calls[d].pc \in DOMAIN Following
    /\ calls[d].todo = <<>>
    /\ LET stage == Following[calls[d].pc]
       IN  calls' = [calls EXCEPT ![d].pc = stage, ![d].todo = SetToSeq(Items(d, stage))]
    /\ UNCHANGED <<nodes, edges, activeJobs, heard, graphFaults>>

(* The pipeline completed.                                                  *)
Complete(d) ==
    /\ calls[d].pc = "update" /\ calls[d].todo = <<>>
    /\ calls' = [calls EXCEPT ![d].pc = "done"]
    /\ activeJobs' = activeJobs - 1
    /\ UNCHANGED <<nodes, edges, heard, graphFaults>>

(* SIGTERM, or a crash: the calls under way are gone.                       *)
GraphCrash ==
    /\ \E d \in GraphDeliveries : calls[d].pc \in GraphRunning
    /\ calls' = [d \in GraphDeliveries |->
                    IF calls[d].pc \in GraphRunning THEN Call("lost", 0) ELSE calls[d]]
    /\ activeJobs' = 0
    /\ GraphFault
    /\ UNCHANGED <<nodes, edges, heard>>

GraphNext ==
    \/ \E d \in GraphDeliveries :
          \/ Receive(d) \/ MergeEntity(d) \/ CreateEntity(d) \/ Skip(d) \/ MergeRelation(d)
          \/ CheckConflicts(d) \/ Publish(d) \/ PublishRejects(d) \/ Advance(d) \/ Complete(d)
    \/ GraphCrash

GraphSpec == GraphInit /\ [][GraphNext]_graphVars

-----------------------------------------------------------------------------
(* graph-reader.ts.  Paths of a query: at most depth relations, in either   *)
(* direction, none twice, as the set of relations and the node it ends at.  *)
Extend(p) == {[last |-> IF x.source = p.last THEN x.target ELSE x.source, over |-> p.over \cup {x}] :
                 x \in {x \in edges \ p.over : p.last \in {x.source, x.target}}}

PathsFrom(start, depth) ==
    LET paths[n \in 0..depth] ==
            IF n = 0 THEN {[last |-> start, over |-> {}]}
            ELSE UNION {Extend(p) : p \in paths[n - 1]}
    IN  UNION {paths[n] : n \in 1..depth}

EndsOf(over) == UNION {{x.source, x.target} : x \in over}

(* Mutant: the seeds are not looked up in the workspace.                    *)
QueryAnySeed(w, seeds, depth, minConfidence) ==
    LET paths == UNION {PathsFrom(i, depth) : i \in seeds}
        confident(p) == {x \in p.over : x.confidence >= minConfidence}
    IN  [nodes |-> UNION {EndsOf(p.over) : p \in {p \in paths : confident(p) # {}}},
         edges |-> UNION {confident(p) : p \in paths}]

(* A relationship of the Neo4j driver has its own id among its properties,  *)
(* and none of its own: all are "the same" to the filter that removes       *)
(* duplicates, and the first one stays.                                     *)
WithoutDuplicates(found) == IF found = {} THEN {} ELSE {CHOOSE x \in found : TRUE}

(* queryGraph: a path counts if one of its relations is confident enough,   *)
(* and all its nodes are answered.                                          *)
QueryGraph(w, seeds, depth, minConfidence) ==
    LET starts == {n.id : n \in {n \in nodes : n.id \in seeds /\ n.workspace = w}}
        inside(p) == \E n \in nodes : n.id = p.last /\ n.workspace = w
        confident(p) == {x \in p.over : x.confidence >= minConfidence}
        paths == {p \in UNION {PathsFrom(i, depth) : i \in starts} :
                    inside(p) /\ confident(p) # {}}
    IN  [nodes |-> UNION {EndsOf(p.over) : p \in paths},
         edges |-> WithoutDuplicates(UNION {confident(p) : p \in paths})]

(* POST /internal/graph/query.  With a filter on types the statement has    *)
(* two WHERE clauses, and the database refuses it.                          *)
QueryRoute(w, seeds, filtered, depth, minConfidence) ==
    IF seeds = {} THEN [status |-> 400]
    ELSE IF filtered THEN [status |-> 500]
    ELSE [status |-> 200, result |-> QueryGraph(w, seeds, depth, minConfidence)]

(* GET /internal/graph/entities/:id, with the neighbours of the entity.     *)
EntityRoute(w, id) ==
    IF ~\E n \in nodes : n.id = id /\ n.workspace = w THEN [status |-> 404]
    ELSE [status |-> 200, entity |-> id,
          neighbors |-> QueryGraph(w, {id}, 1, 0).nodes \ {id}]

(* findPaths: the shortest paths between two entities of the workspace.     *)
FindPaths(w, from, to, depth) ==
    LET known == {n.id : n \in {n \in nodes : n.workspace = w}}
        paths == {p \in PathsFrom(from, depth) : p.last = to}
    IN  IF {from, to} \subseteq known
        THEN {p \in paths : \A o \in paths : Cardinality(p.over) <= Cardinality(o.over)}
        ELSE {}

-----------------------------------------------------------------------------
(* Every variable has its type, and the counter counts the running calls.   *)
GraphTypeOK ==
    /\ \A n \in nodes : n.id \in 1..Cardinality(nodes) /\ n.confidence \in 0..1000
    /\ \A x \in edges : x.id \in 1..Cardinality(edges) /\ x.confidence \in 0..1000
    /\ \A d \in GraphDeliveries : calls[d].pc \in {"waiting"} \cup GraphRunning \cup GraphEnded
    /\ activeJobs = Cardinality({d \in GraphDeliveries : calls[d].pc \in GraphRunning})
    /\ activeJobs <= GraphConcurrency
    /\ graphFaults \in 0..MaxGraphFaults

(* What consumers hear can be found: an entity they heard of is a node, and *)
(* a relation they heard of is an edge between two entities they had heard  *)
(* of before.                                                               *)
HeardIsStored ==
    \A ev \in heard :
        /\ ev.type = "entity_created" => \E n \in nodes : n.id = ev.id
        /\ ev.type = "relation_created" =>
              /\ \E x \in edges : x.id = ev.id /\ x.source = ev.source /\ x.target = ev.target
              /\ \A i \in {ev.source, ev.target} : [type |-> "entity_created", id |-> i] \in heard

(* Calls may create several nodes for one name.  When every call on them    *)
(* has completed without a swallowed error, they were announced: one of     *)
(* them as the duplicate of each other one.  (Not every pair: a call that   *)
(* repeats its attempt takes any of the nodes for the one it had created.)   *)
DuplicatesAreAnnounced ==
    (\A d \in GraphDeliveries : calls[d].pc \in {"waiting", "done"} /\ ~calls[d].missed) =>
        \A m \in nodes :
            LET alike == {n \in nodes : n.workspace = m.workspace /\ n.name = m.name}
            IN  \E x \in alike : \A n \in alike \ {x} :
                    \E ev \in heard : ev.type = "conflict_detected"
                                      /\ ev.conflict = [kind |-> "duplicate_entity",
                                                        ids |-> {x.id, n.id}]

(* Whatever is asked, and whoever's entities are named as seeds: an answer   *)
(* names no entity of another workspace, an entity and its neighbours are   *)
(* each other's neighbours, and a path is answered exactly if there is one.  *)
QueryStaysInside ==
    \A w \in Range(WorkspaceOf) :
        LET ids == {n.id : n \in nodes}
            inside == {n.id : n \in {n \in nodes : n.workspace = w}}
            neighbors == [i \in inside |-> EntityRoute(w, i).neighbors]
        IN  /\ ids # {} => QueryRoute(w, ids, FALSE, 2, 0).result.nodes \subseteq inside
            /\ \A i \in inside : neighbors[i] \subseteq inside
            /\ \A i, j \in inside : i \in neighbors[j] => /\ j \in neighbors[i]
                                                       /\ FindPaths(w, i, j, 2) # {}
=============================================================================
