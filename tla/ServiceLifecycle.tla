--------------------------- MODULE ServiceLifecycle ---------------------------
(***************************************************************************)
(* The life of a service's process: what starts in which order, how SIGTERM *)
(* and SIGINT close what is open, and what becomes of the HTTP requests,    *)
(* messages and background jobs that are under way.  One behaviour is of    *)
(* one process.  Node runs what stands between two awaits in one piece, so  *)
(* a step of a start or of a shutdown ends where the code awaits.           *)
(*                                                                          *)
(* Four services install no handler of the signals, which end them at once; *)
(* the close() of the indexing and the evaluation service is never called.  *)
(***************************************************************************)
EXTENDS Integers, Sequences

CONSTANTS
    LiveServices,   \* the services a process may be of
    Tasks,          \* pieces of work
    TaskKind,       \* "request", "health", "message" or "job"
    Shutdowns,      \* signals that reach the process
    MaxLifeFaults   \* calls that a store rejects (bounds the model)

Services == {"gateway", "retrieval", "evaluation", "indexing", "ingestion", "connector",
             "profile", "extraction", "graph"}
Resources == {"postgres", "redis", "neo4j"}

LifecycleAssumption ==
    /\ LiveServices \subseteq Services
    /\ TaskKind \in [Tasks -> {"request", "health", "message", "job"}]
    /\ MaxLifeFaults \in Nat

ASSUME LifecycleConstants == LifecycleAssumption

VARIABLES
    process,     \* the process: its start, server, consumer, stores and end
    shutdowns,   \* where the shutdown of each signal stands
    tasks        \* the work: its calls that are left, and what became of it

lifeVars == <<process, shutdowns, tasks>>

(* A step of a start: the store it awaits, and what it does then.            *)
Step(needs, does) == [needs |-> needs, does |-> does]

GatewayStart    == <<Step("nothing", {"listen"})>>
RetrievalStart  == <<Step("nothing", {"listen"})>>
EvaluationStart == <<Step("nothing", {"consume", "listen"})>>
IndexingStart   == <<Step("nothing", {}), Step("redis", {"consume"})>>
IngestionStart  == <<Step("nothing", {"listen", "handle signals"})>>
ConnectorStart  == <<Step("postgres", {"listen", "handle signals"})>>
ProfileStart    == <<Step("nothing", {"consume", "listen", "handle signals"})>>
ExtractionStart == <<Step("nothing", {"handle signals"}), Step("postgres", {"consume"})>>
GraphStart      == <<Step("nothing", {"handle signals"}), Step("redis", {}),
                     Step("neo4j", {"consume", "listen"})>>

StartOf ==
    [gateway |-> GatewayStart, retrieval |-> RetrievalStart, evaluation |-> EvaluationStart,
     indexing |-> IndexingStart, ingestion |-> IngestionStart, connector |-> ConnectorStart,
     profile |-> ProfileStart, extraction |-> ExtractionStart, graph |-> GraphStart]

(* What a shutdown closes, in order.                                         *)
IngestionStop  == <<"server", "postgres">>
ConnectorStop  == <<"server", "postgres">>
ProfileStop    == <<"server", "consumer", "postgres", "redis">>
ExtractionStop == <<"consumer", "redis", "postgres">>
GraphStop      == <<"consumer", "server", "redis", "neo4j", "postgres">>

StopOf ==
    [ingestion |-> IngestionStop, connector |-> ConnectorStop, profile |-> ProfileStop,
     extraction |-> ExtractionStop, graph |-> GraphStop]

(* The services that set a timer of 10 seconds, after which they exit.       *)
ForcedExit == {"ingestion", "connector", "profile"}

(* The checks of GET /health, where they are more than a constant answer.    *)
ChecksOf(service) ==
    CASE service \in {"ingestion", "connector"} -> <<"postgres">>
      [] service = "profile" -> <<"postgres", "redis">>
      [] OTHER -> <<>>

(* The calls a piece of work makes, in order.                                *)
CallsOf(service, kind) ==
    IF kind = "health" THEN ChecksOf(service)
    ELSE CASE service = "gateway" -> <<>>
           [] service = "retrieval" -> <<"postgres">>
           [] service = "graph" -> IF kind = "message" THEN <<"neo4j", "redis">> ELSE <<"neo4j">>
           [] OTHER -> <<"postgres", "redis">>

Exits == {"running", "exit 0", "exit 1", "killed"}

LifecycleTypeOK ==
    /\ process \in [service : LiveServices, started : 0..3, handled : BOOLEAN,
                    server : {"down", "listening", "closing", "closed"},
                    consuming : BOOLEAN,
                    stores : [Resources -> {"open", "closing", "closed"}],
                    faults : 0..MaxLifeFaults, ended : Exits]
    /\ shutdowns \in [Shutdowns -> [at : 0..6, waiting : BOOLEAN]]
    /\ tasks \in [Tasks -> [at : {"none", "ready", "waiting", "over"}, early : BOOLEAN,
                            left : Seq(Resources), outcome : {"fine", "failed", "cut"}]]

LifecycleInit ==
    /\ process \in [service : LiveServices, started : {0}, handled : {FALSE}, server : {"down"},
                    consuming : {FALSE}, stores : {[r \in Resources |-> "open"]}, faults : {0},
                    ended : {"running"}]
    /\ shutdowns = [k \in Shutdowns |-> [at |-> 0, waiting |-> FALSE]]
    /\ tasks = [t \in Tasks |-> [at |-> "none", early |-> FALSE, left |-> <<>>,
                                 outcome |-> "fine"]]

Running == process.ended = "running"
Signalled == \E k \in Shutdowns : shutdowns[k].at > 0
Exit(how) == process' = [process EXCEPT !.ended = how]

-----------------------------------------------------------------------------
(* The next step of the start; what it listens to is open from then on.      *)
Start ==
    /\ Running /\ process.started < Len(StartOf[process.service])
    /\ LET step == StartOf[process.service][process.started + 1] IN
       /\ step.needs # "nothing" => process.stores[step.needs] = "open"
       /\ process' = [process EXCEPT
             !.started = @ + 1,
             !.handled = @ \/ "handle signals" \in step.does,
             !.server = IF "listen" \in step.does THEN "listening" ELSE @,
             !.consuming = @ \/ "consume" \in step.does]
    /\ UNCHANGED <<shutdowns, tasks>>

(* A step of the start rejects, or finds its store closed by a shutdown:     *)
(* the catch of the entry point exits.                                       *)
StartFails ==
    /\ Running /\ process.started < Len(StartOf[process.service])
    /\ LET step == StartOf[process.service][process.started + 1] IN
       \/ step.needs # "nothing"
       \/ "listen" \in step.does
    /\ Exit("exit 1")
    /\ UNCHANGED <<shutdowns, tasks>>

-----------------------------------------------------------------------------
Finish(t, outcome) == [tasks[t] EXCEPT !.at = "over", !.outcome = outcome]

(* A request arrives, a message is delivered, or a sync job is started by a  *)
(* request that has been answered.                                           *)
Accept(t) ==
    /\ Running /\ tasks[t].at = "none"
    /\ CASE TaskKind[t] = "message" -> process.consuming
         [] TaskKind[t] = "job" -> /\ process.service = "connector"
                                   /\ \E r \in Tasks : /\ TaskKind[r] = "request"
                                                       /\ tasks[r].at = "over"
         [] OTHER -> process.server = "listening"
    /\ tasks' = [tasks EXCEPT ![t] =
          [at |-> "ready", early |-> ~Signalled, outcome |-> "fine",
           left |-> CallsOf(process.service, TaskKind[t])]]
    /\ UNCHANGED <<process, shutdowns>>

(* What a call that is rejected does to its task: healthEndpoint notes it    *)
(* and goes on to the next check, anything else answers 500 or rejects.      *)
Rejected(t, outcome) ==
    IF TaskKind[t] = "health"
    THEN [tasks[t] EXCEPT !.at = "ready", !.left = Tail(@), !.outcome = outcome]
    ELSE Finish(t, outcome)

(* The next call of a task, on a store that is open or is not any more.      *)
Call(t) ==
    /\ Running /\ tasks[t].at = "ready" /\ tasks[t].left # <<>>
    /\ tasks' = [tasks EXCEPT ![t] =
          IF process.stores[Head(@.left)] = "open" THEN [@ EXCEPT !.at = "waiting"]
          ELSE Rejected(t, "cut")]
    /\ UNCHANGED <<process, shutdowns>>

CallReturns(t) ==
    /\ Running /\ tasks[t].at = "waiting"
    /\ tasks' = [tasks EXCEPT ![t].at = "ready", ![t].left = Tail(@)]
    /\ UNCHANGED <<process, shutdowns>>

CallRejects(t) ==
    /\ Running /\ tasks[t].at = "waiting" /\ process.faults < MaxLifeFaults
    /\ tasks' = [tasks EXCEPT ![t] = Rejected(t, "failed")]
    /\ process' = [process EXCEPT !.faults = @ + 1]
    /\ UNCHANGED shutdowns

(* The task is done: a request is answered.                                  *)
CompleteTask(t) ==
    /\ Running /\ tasks[t].at = "ready" /\ tasks[t].left = <<>>
    /\ tasks' = [tasks EXCEPT ![t].at = "over"]
    /\ UNCHANGED <<process, shutdowns>>

UnderWay(t) == tasks[t].at \in {"ready", "waiting"}
OverHttp(t) == TaskKind[t] \in {"request", "health"}

-----------------------------------------------------------------------------
(* A signal: without a handler it ends the process, with one it starts a     *)
(* shutdown, a further one beside the first.                                 *)
Signal(k) ==
    /\ Running /\ shutdowns[k].at = 0
    /\ IF process.handled
       THEN /\ shutdowns' = [shutdowns EXCEPT ![k].at = 1]
            /\ UNCHANGED process
       ELSE Exit("killed") /\ UNCHANGED shutdowns
    /\ UNCHANGED tasks

Closing(k, what) ==
    /\ Running /\ shutdowns[k].at > 0
    /\ shutdowns[k].at \in DOMAIN StopOf[process.service]
    /\ StopOf[process.service][shutdowns[k].at] = what

NextItem(k) == shutdowns' = [shutdowns EXCEPT ![k] = [at |-> @.at + 1, waiting |-> FALSE]]
Wait(k) == shutdowns' = [shutdowns EXCEPT ![k].waiting = TRUE]

(* unsubscribe(), worker.stop(): handlers that run are not waited for.       *)
StopConsumer(k) ==
    /\ Closing(k, "consumer")
    /\ process' = [process EXCEPT !.consuming = FALSE]
    /\ NextItem(k)
    /\ UNCHANGED tasks

(* server.close(): no further connections; a server that is not there yet    *)
(* (the graph service, while it starts) is passed over.                      *)
CloseServer(k) ==
    /\ Closing(k, "server") /\ ~shutdowns[k].waiting
    /\ IF process.server = "down"
       THEN NextItem(k) /\ UNCHANGED process
       ELSE /\ process' = [process EXCEPT !.server = IF @ = "listening" THEN "closing" ELSE @]
            /\ Wait(k)
    /\ UNCHANGED tasks

(* Mutant: the callback of server.close() does not wait for the requests.    *)
ServerIsClosedUnawaited(k) ==
    /\ Closing(k, "server") /\ shutdowns[k].waiting
    /\ process' = [process EXCEPT !.server = "closed"]
    /\ NextItem(k)
    /\ UNCHANGED tasks

(* The callback of server.close(): every request has been answered.          *)
ServerIsClosed(k) ==
    /\ Closing(k, "server") /\ shutdowns[k].waiting
    /\ \A t \in Tasks : OverHttp(t) => ~UnderWay(t)
    /\ process' = [process EXCEPT !.server = "closed"]
    /\ NextItem(k)
    /\ UNCHANGED tasks

(* The store takes no further calls.  A second quit() of a Redis client that *)
(* is closed, or about to be, may reject: no one catches it.                 *)
CloseStore(k, r) ==
    /\ Closing(k, r) /\ ~shutdowns[k].waiting
    /\ \/ /\ process.stores[r] # "closed" \/ r # "redis"
          /\ process' = [process EXCEPT !.stores[r] = IF @ = "open" THEN "closing" ELSE @]
          /\ Wait(k)
       \/ /\ r = "redis" /\ process.stores[r] # "open"
          /\ Exit("exit 1")
          /\ UNCHANGED shutdowns
    /\ UNCHANGED tasks

(* The calls under way have returned: quit() queues behind them, sql.end()   *)
(* waits five seconds for them; then, like the Neo4j driver at once, it cuts *)
(* them off.                                                                 *)
StoreCloses(r) ==
    /\ Running /\ process.stores[r] = "closing"
    /\ LET on == {t \in Tasks : tasks[t].at = "waiting" /\ Head(tasks[t].left) = r} IN
       /\ r = "redis" => on = {}
       /\ tasks' = [t \in Tasks |-> IF t \in on THEN Rejected(t, "cut") ELSE tasks[t]]
    /\ process' = [process EXCEPT !.stores[r] = "closed"]
    /\ UNCHANGED shutdowns

StoreIsClosed(k, r) ==
    /\ Closing(k, r) /\ shutdowns[k].waiting /\ process.stores[r] = "closed"
    /\ NextItem(k)
    /\ UNCHANGED <<process, tasks>>

(* process.exit(0), after everything is closed.                              *)
ExitCleanly(k) ==
    /\ Running /\ shutdowns[k].at > 0 /\ shutdowns[k].at > Len(StopOf[process.service])
    /\ Exit("exit 0")
    /\ UNCHANGED <<shutdowns, tasks>>

(* The timer of a shutdown, or whoever sent the signal, loses patience.      *)
ExitForced ==
    /\ Running /\ Signalled
    /\ \/ process.service \in ForcedExit /\ Exit("exit 1")
       \/ Exit("killed")
    /\ UNCHANGED <<shutdowns, tasks>>

LifecycleNext ==
    \/ Start \/ StartFails \/ ExitForced
    \/ \E t \in Tasks : Accept(t) \/ Call(t) \/ CallReturns(t) \/ CallRejects(t) \/ CompleteTask(t)
    \/ \E k \in Shutdowns :
          \/ Signal(k) \/ StopConsumer(k) \/ CloseServer(k) \/ ServerIsClosed(k) \/ ExitCleanly(k)
          \/ \E r \in Resources : CloseStore(k, r) \/ StoreIsClosed(k, r)
    \/ \E r \in Resources : StoreCloses(r)

LifecycleSpec == LifecycleInit /\ [][LifecycleNext]_lifeVars

-----------------------------------------------------------------------------
(* A shutdown lets the HTTP requests it finds finish: none that came before  *)
(* the first signal calls a store that is closed, whatever the order of the  *)
(* closings and however many signals come, and none is open when the process *)
(* exits with 0.                                                             *)
RequestsAreFinished ==
    \A t \in Tasks : OverHttp(t) /\ tasks[t].early =>
        /\ tasks[t].outcome # "cut"
        /\ process.ended = "exit 0" => ~UnderWay(t)
=============================================================================
