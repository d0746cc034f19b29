----------------------------- MODULE Subscriber -----------------------------
(***************************************************************************)
(* packages/queue/src/subscriber.ts, with the handler wrapper of            *)
(* Queue.process (queue.ts): the consumer processes of one channel.         *)
(*                                                                          *)
(* A process has one Subscriber: a set of handlers, a "subscribed" flag, a  *)
(* count of active messages, and listeners.  A listener receives pub/sub    *)
(* messages and, once, drains the list.  Each message it takes from either  *)
(* source is one #processMessage call, which occupies a slot; the code      *)
(* between two awaits of that call is one action.                           *)
(***************************************************************************)
EXTENDS RedisChannel

CONSTANTS
    Procs,              \* consumer processes, one Subscriber each
    Owner,              \* the process a listener would belong to
    Handlers,           \* handler functions that may be registered
    Slots,              \* #processMessage calls under way (bounds the model)
    Concurrency,        \* SubscribeOptions.concurrency
    AckModes,           \* values of SubscribeOptions.autoAcknowledge used
    DlqHandlers,        \* handlers registered with useDLQ (and enableDLQ)
    UnsubscribeAllowed, \* whether unsubscribe() is called at all
    MaxFailures,        \* handler failures (bounds the model)
    MaxCrashes          \* process crashes (bounds the model)

VARIABLES
    handlers,    \* #handlers of each process
    subscribed,  \* #subscribed of each process
    active,      \* #activeCount of each process
    connecting,  \* listeners awaiting the reply to SUBSCRIBE
    ack,         \* the autoAck each listener was started with
    drain,       \* #drainPending of each listener: off, pop, wait (for a slot)
    task,        \* the #processMessage call in each slot
    running,     \* handlers of a slot that have not settled
    failing,     \* handlers of a slot that threw and are pushing to the DLQ
    failures,    \* handler failures so far
    crashes,     \* process crashes so far
    orphaned     \* history: calls under way that #activeCount has forgotten

procVars == <<handlers, subscribed, active, orphaned>>
lisVars  == <<connecting, ack, drain>>
taskVars == <<task, running, failing>>
faults   == <<failures, crashes>>
subVars  == <<procVars, lisVars, taskVars, faults>>

SubscriberAssumption ==
    /\ IsFiniteSet(Procs)
    /\ Owner \in [Listeners -> Procs]
    /\ IsFiniteSet(Slots)
    /\ Concurrency \in Nat \ {0}
    /\ AckModes \subseteq BOOLEAN
    /\ DlqHandlers \subseteq Handlers
    /\ MaxFailures \in Nat
    /\ MaxCrashes \in Nat

ASSUME SubscriberConstants == SubscriberAssumption

(* Stages of a #processMessage call.  "full": pushing the message back      *)
(* because #activeCount is at the limit.  "settled": the call has returned, *)
(* but handlers that Promise.all no longer waits for are still running.     *)
CountedStages == {"hget", "hset", "run", "requeue"}
Stages == CountedStages \cup {"full", "settled"}

Free == [stage |-> "free"]

TaskType == [stage : Stages, ev : Events, lis : Listeners,
             drained : BOOLEAN, att : Nat]

SubscriberTypeOK ==
    /\ handlers \in [Procs -> SUBSET Handlers]
    /\ subscribed \in [Procs -> BOOLEAN]
    /\ active \in [Procs -> Int]
    /\ orphaned \in [Procs -> Int]
    /\ connecting \subseteq Listeners
    /\ ack \in [Listeners -> BOOLEAN]
    /\ drain \in [Listeners -> {"off", "pop", "wait"}]
    /\ task \in [Slots -> TaskType \cup {Free}]
    /\ running \in [Slots -> SUBSET Handlers]
    /\ failing \in [Slots -> SUBSET Handlers]
    /\ failures \in 0..MaxFailures
    /\ crashes \in 0..MaxCrashes

SubscriberInit ==
    /\ handlers = [p \in Procs |-> {}]
    /\ subscribed = [p \in Procs |-> FALSE]
    /\ active = [p \in Procs |-> 0]
    /\ orphaned = [p \in Procs |-> 0]
    /\ connecting = {}
    /\ ack = [l \in Listeners |-> FALSE]
    /\ drain = [l \in Listeners |-> "off"]
    /\ task = [s \in Slots |-> Free]
    /\ running = [s \in Slots |-> {}]
    /\ failing = [s \in Slots |-> {}]
    /\ failures = 0
    /\ crashes = 0

TaskProc(s) == Owner[task[s].lis]

(* The calls of p that have incremented #activeCount and not decremented it.*)
Counted(p) ==
    {s \in Slots : task[s].stage \in CountedStages /\ TaskProc(s) = p}

(* The call in slot s holds the only copy of an entry popped off the list.  *)
Holds(s) == task[s].stage \in CountedStages \cup {"full"} /\ task[s].drained

-----------------------------------------------------------------------------
(* subscribe(): register the handler; #activeCount starts at 0 whenever the *)
(* channel had no handlers; start a listener unless #subscribed says so.    *)
Subscribe(p, h, autoAck) ==
    /\ h \notin handlers[p]
    /\ handlers' = [handlers EXCEPT ![p] = @ \cup {h}]
    /\ active' = [active EXCEPT ![p] = IF handlers[p] = {} THEN 0 ELSE @]
    /\ orphaned' = [orphaned EXCEPT ![p] =
                      IF handlers[p] = {} THEN @ + active[p] ELSE @]
    /\ subscribed' = [subscribed EXCEPT ![p] = TRUE]
    /\ \/ /\ subscribed[p]
          /\ UNCHANGED <<connecting, ack>>
       \/ /\ ~subscribed[p]
          /\ \E l \in Listeners \ (connecting \cup connected) :
                /\ Owner[l] = p
                /\ connecting' = connecting \cup {l}
                /\ ack' = [ack EXCEPT ![l] = autoAck]
    /\ UNCHANGED <<redisVars, history, drain, taskVars, faults>>

(* unsubscribe(): forget the handler and, with the last one, the flag.  The *)
(* listener keeps its connection and its message callback.                  *)
Unsubscribe(p, h) ==
    /\ UnsubscribeAllowed
    /\ h \in handlers[p]
    /\ handlers' = [handlers EXCEPT ![p] = @ \ {h}]
    /\ subscribed' = [subscribed EXCEPT ![p] = @ /\ handlers[p] # {h}]
    /\ UNCHANGED <<redisVars, history, active, orphaned, lisVars, taskVars, faults>>

(* #listen(): SUBSCRIBE is acknowledged; install the callback and drain.    *)
Listen(l) ==
    /\ l \in connecting
    /\ connecting' = connecting \ {l}
    /\ connected' = connected \cup {l}
    /\ drain' = [drain EXCEPT ![l] = "pop"]
    /\ UNCHANGED <<list, listTtl, attempts, dlq, dedupe, inbox, history,
                   procVars, ack, taskVars, faults>>

-----------------------------------------------------------------------------
(* Mutants: the limit is not checked; the limit is off by one.              *)
ProcessMessageUnlimited(s, l, e, drained) ==
    /\ task[s] = Free
    /\ task' = [task EXCEPT ![s] =
                  [stage |-> "hget", ev |-> e, lis |-> l, drained |-> drained, att |-> 0]]
    /\ active' = [active EXCEPT ![Owner[l]] = @ + 1]
    /\ UNCHANGED <<handlers, subscribed, orphaned, running, failing>>

ProcessMessageOffByOne(s, l, e, drained) ==
    /\ task[s] = Free
    /\ LET full == active[Owner[l]] > Concurrency IN
       /\ task' = [task EXCEPT ![s] =
                     [stage |-> IF full THEN "full" ELSE "hget", ev |-> e,
                      lis |-> l, drained |-> drained, att |-> 0]]
       /\ active' = [active EXCEPT ![Owner[l]] = IF full THEN @ ELSE @ + 1]
    /\ UNCHANGED <<handlers, subscribed, orphaned, running, failing>>

(* #processMessage up to its first await: at the limit the call only pushes *)
(* the message back, otherwise it is counted and asks for the attempts.     *)
ProcessMessage(s, l, e, drained) ==
    /\ task[s] = Free
    /\ LET full == active[Owner[l]] >= Concurrency IN
       /\ task' = [task EXCEPT ![s] =
                     [stage |-> IF full THEN "full" ELSE "hget", ev |-> e,
                      lis |-> l, drained |-> drained, att |-> 0]]
       /\ active' = [active EXCEPT ![Owner[l]] = IF full THEN @ ELSE @ + 1]
    /\ UNCHANGED <<handlers, subscribed, orphaned, running, failing>>

(* on("message"): a pub/sub copy arrives.  The copy on the list stays.      *)
Receive(s, l) ==
    /\ l \in connected /\ inbox[l] # <<>>
    /\ ProcessMessage(s, l, Head(inbox[l]), FALSE)
    /\ inbox' = [inbox EXCEPT ![l] = Tail(@)]
    /\ UNCHANGED <<list, listTtl, attempts, dlq, dedupe, connected, history,
                   lisVars, faults>>

(* Mutant: the loop does not await the call.                                *)
DrainPopNoAwait(s, l) ==
    /\ drain[l] = "pop" /\ list # <<>>
    /\ ProcessMessage(s, l, Last(list), TRUE)
    /\ SetList(Front(list))
    /\ UNCHANGED <<attempts, dlq, dedupe, connected, inbox, history,
                   drain, connecting, ack, faults>>

(* #drainPending: RPOP the oldest entry and wait for its call to return.    *)
DrainPop(s, l) ==
    /\ drain[l] = "pop" /\ list # <<>>
    /\ ProcessMessage(s, l, Last(list), TRUE)
    /\ SetList(Front(list))
    /\ drain' = [drain EXCEPT ![l] = "wait"]
    /\ UNCHANGED <<attempts, dlq, dedupe, connected, inbox, history,
                   connecting, ack, faults>>

(* #drainPending: RPOP answers nil, the loop is over for good.              *)
DrainEnds(l) ==
    /\ drain[l] = "pop" /\ list = <<>>
    /\ drain' = [drain EXCEPT ![l] = "off"]
    /\ UNCHANGED <<redisVars, history, procVars, connecting, ack, taskVars, faults>>

(* The call in slot s returns to the drain loop that awaits it, if any.     *)
ResumeDrain(s) ==
    drain' = IF task[s].drained
             THEN [drain EXCEPT ![task[s].lis] = "pop"] ELSE drain

(* Mutant: at the limit the message is dropped.                             *)
PushBackDropped(s) ==
    /\ task[s].stage = "full"
    /\ task' = [task EXCEPT ![s] = Free]
    /\ ResumeDrain(s)
    /\ UNCHANGED <<redisVars, history, procVars, connecting, ack, running,
                   failing, faults>>

(* At the limit: LPUSH the message back and return.                         *)
PushBack(s) ==
    /\ task[s].stage = "full"
    /\ LPushList(task[s].ev)
    /\ task' = [task EXCEPT ![s] = Free]
    /\ ResumeDrain(s)
    /\ UNCHANGED <<attempts, dlq, dedupe, connected, inbox, history, procVars,
                   connecting, ack, running, failing, faults>>

-----------------------------------------------------------------------------
(* Mutant: no finally block, the count is not decremented.                  *)
ReturnCounted(s, rest, dying) ==
    /\ running' = [running EXCEPT ![s] = rest]
    /\ failing' = [failing EXCEPT ![s] = dying]
    /\ task' = [task EXCEPT ![s] =
                  IF rest \cup dying = {} THEN Free ELSE [@ EXCEPT !.stage = "settled"]]
    /\ ResumeDrain(s)
    /\ UNCHANGED procVars

(* The finally block: decrement, return, and leave behind the handlers that *)
(* are still running (rest) or pushing to the DLQ (dying).                  *)
Return(s, rest, dying) ==
    /\ active' = [active EXCEPT ![TaskProc(s)] = @ - 1]
    /\ running' = [running EXCEPT ![s] = rest]
    /\ failing' = [failing EXCEPT ![s] = dying]
    /\ task' = [task EXCEPT ![s] =
                  IF rest \cup dying = {} THEN Free ELSE [@ EXCEPT !.stage = "settled"]]
    /\ ResumeDrain(s)
    /\ UNCHANGED <<handlers, subscribed, orphaned>>

(* #dispatchHandlers: call every registered handler; with none registered   *)
(* the message counts as processed by nobody, and is gone.                  *)
Dispatch(s, att) ==
    LET hs == handlers[TaskProc(s)] IN
    \/ /\ hs # {}
       /\ task' = [task EXCEPT ![s].stage = "run", ![s].att = att]
       /\ running' = [running EXCEPT ![s] = hs]
       /\ UNCHANGED <<procVars, drain, failing, lost>>
    \/ /\ hs = {}
       /\ Return(s, {}, {})
       /\ lost' = IF task[s].drained THEN lost \cup {task[s].ev} ELSE lost

(* HGET attempts: this attempt is one more than what the hash says now.     *)
(* With autoAck the handlers are called at once.                            *)
GetAttempts(s) ==
    /\ task[s].stage = "hget"
    /\ LET att == attempts[task[s].ev] + 1 IN
       \/ /\ ack[task[s].lis]
          /\ Dispatch(s, att)
       \/ /\ ~ack[task[s].lis]
          /\ task' = [task EXCEPT ![s].stage = "hset", ![s].att = att]
          /\ UNCHANGED <<procVars, drain, running, failing, lost>>
    /\ UNCHANGED <<redisVars, pushed, processed, connecting, ack, faults>>

(* HSET attempts: the value computed at the HGET, then the handlers.        *)
SetAttempts(s) ==
    /\ task[s].stage = "hset"
    /\ attempts' = [attempts EXCEPT ![task[s].ev] = task[s].att]
    /\ Dispatch(s, task[s].att)
    /\ UNCHANGED <<list, listTtl, dlq, dedupe, connected, inbox, pushed,
                   processed, connecting, ack, faults>>

-----------------------------------------------------------------------------
(* Handlers that Promise.all no longer waits for settle.                    *)
Abandon(s, rest, dying) ==
    /\ running' = [running EXCEPT ![s] = rest]
    /\ failing' = [failing EXCEPT ![s] = dying]
    /\ task' = [task EXCEPT ![s] =
                  IF task[s].stage = "settled" /\ rest \cup dying = {} THEN Free ELSE @]
    /\ UNCHANGED <<procVars, drain>>

(* A handler resolves; the last one resolves Promise.all.                   *)
HandlerSucceeds(s, h) ==
    LET rest == running[s] \ {h} IN
    /\ h \in running[s]
    /\ \/ /\ task[s].stage = "run" /\ rest \cup failing[s] = {}
          /\ Return(s, {}, {})
          /\ processed' = processed \cup {task[s].ev}
       \/ /\ ~(task[s].stage = "run" /\ rest \cup failing[s] = {})
          /\ Abandon(s, rest, failing[s])
          /\ UNCHANGED processed
    /\ UNCHANGED <<redisVars, pushed, lost, connecting, ack, faults>>

(* Promise.all rejects with the first handler that rejects: the error is    *)
(* swallowed with autoAck, otherwise the message goes back on the list.     *)
(* dead: whether the message has been stored on the DLQ.                    *)
Reject(s, rest, dying, dead) ==
    \/ /\ task[s].stage = "run" /\ ack[task[s].lis]
       /\ Return(s, rest, dying)
       /\ lost' = IF task[s].drained /\ ~dead THEN lost \cup {task[s].ev} ELSE lost
    \/ /\ task[s].stage = "run" /\ ~ack[task[s].lis]
       /\ task' = [task EXCEPT ![s].stage = "requeue"]
       /\ running' = [running EXCEPT ![s] = rest]
       /\ failing' = [failing EXCEPT ![s] = dying]
       /\ UNCHANGED <<procVars, drain, lost>>
    \/ /\ task[s].stage # "run"
       /\ Abandon(s, rest, dying)
       /\ UNCHANGED lost

(* Mutant: the wrapper swallows the error; the message is neither put on    *)
(* the DLQ nor requeued.                                                    *)
HandlerFailsSwallowed(s, h) ==
    /\ h \in running[s]
    /\ failures < MaxFailures
    /\ failures' = failures + 1
    /\ IF task[s].stage = "run"
       THEN Return(s, running[s] \ {h}, failing[s])
       ELSE Abandon(s, running[s] \ {h}, failing[s])
    /\ UNCHANGED <<redisVars, history, connecting, ack, crashes>>

(* Queue.process's wrapper: a handler throws.  It pushes to the DLQ before  *)
(* it throws again; without a DLQ it throws at once.                        *)
HandlerFails(s, h) ==
    /\ h \in running[s]
    /\ failures < MaxFailures
    /\ failures' = failures + 1
    /\ \/ /\ h \in DlqHandlers
          /\ running' = [running EXCEPT ![s] = @ \ {h}]
          /\ failing' = [failing EXCEPT ![s] = @ \cup {h}]
          /\ UNCHANGED <<task, procVars, drain, lost>>
       \/ /\ h \notin DlqHandlers
          /\ Reject(s, running[s] \ {h}, failing[s], FALSE)
    /\ UNCHANGED <<redisVars, pushed, processed, connecting, ack, crashes>>

(* pushToDLQ: LPUSH the entry, then the handler's error goes on.            *)
PushToDLQ(s, h) ==
    /\ h \in failing[s]
    /\ dlq' = Cons([ev |-> task[s].ev, att |-> task[s].att], dlq)
    /\ Reject(s, running[s], failing[s] \ {h}, TRUE)
    /\ UNCHANGED <<list, listTtl, attempts, dedupe, connected, inbox, pushed,
                   processed, connecting, ack, faults>>

(* pushToDLQ itself rejects: its error takes the place of the handler's.    *)
PushToDLQFails(s, h) ==
    /\ h \in failing[s]
    /\ failures < MaxFailures
    /\ failures' = failures + 1
    /\ Reject(s, running[s], failing[s] \ {h}, FALSE)
    /\ UNCHANGED <<redisVars, pushed, processed, connecting, ack, crashes>>

(* The catch block: LPUSH the message back on the list, then finally.  No   *)
(* PUBLISH: only a drain will see it again.                                 *)
Requeue(s) ==
    /\ task[s].stage = "requeue"
    /\ LPushList(task[s].ev)
    /\ Return(s, running[s], failing[s])
    /\ UNCHANGED <<attempts, dlq, dedupe, connected, inbox, history,
                   connecting, ack, faults>>

-----------------------------------------------------------------------------
(* The process dies, or one of its Redis commands rejects outside a try     *)
(* block (an unhandled rejection ends the process): everything in memory is *)
(* gone, and the entries it had popped with it.                             *)
Crash(p) ==
    /\ crashes < MaxCrashes
    /\ subscribed[p] \/ \E l \in connected : Owner[l] = p
    /\ crashes' = crashes + 1
    /\ handlers' = [handlers EXCEPT ![p] = {}]
    /\ subscribed' = [subscribed EXCEPT ![p] = FALSE]
    /\ active' = [active EXCEPT ![p] = 0]
    /\ orphaned' = [orphaned EXCEPT ![p] = 0]
    /\ LET mine == {l \in Listeners : Owner[l] = p}
           gone == {s \in Slots : task[s] # Free /\ TaskProc(s) = p} IN
       /\ connecting' = connecting \ mine
       /\ connected' = connected \ mine
       /\ inbox' = [l \in Listeners |-> IF l \in mine THEN <<>> ELSE inbox[l]]
       /\ ack' = [l \in Listeners |-> IF l \in mine THEN FALSE ELSE ack[l]]
       /\ drain' = [l \in Listeners |-> IF l \in mine THEN "off" ELSE drain[l]]
       /\ task' = [s \in Slots |-> IF s \in gone THEN Free ELSE task[s]]
       /\ running' = [s \in Slots |-> IF s \in gone THEN {} ELSE running[s]]
       /\ failing' = [s \in Slots |-> IF s \in gone THEN {} ELSE failing[s]]
       /\ lost' = lost \cup {task[s].ev : s \in {t \in gone : Holds(t)}}
    /\ UNCHANGED <<list, listTtl, attempts, dlq, dedupe, pushed, processed, failures>>

-----------------------------------------------------------------------------
HandlerStep(s, h) == HandlerSucceeds(s, h) \/ PushToDLQ(s, h)

SlotStep(s) ==
    \/ PushBack(s) \/ GetAttempts(s) \/ SetAttempts(s) \/ Requeue(s)
    \/ \E h \in Handlers : HandlerStep(s, h)

ListenerStep(l) ==
    \/ Listen(l)
    \/ DrainEnds(l)
    \/ \E s \in Slots : Receive(s, l) \/ DrainPop(s, l)

SubscriberNext ==
    \/ \E p \in Procs, h \in Handlers :
          (\E a \in AckModes : Subscribe(p, h, a)) \/ Unsubscribe(p, h)
    \/ \E l \in Listeners : ListenerStep(l)
    \/ \E s \in Slots : SlotStep(s)
    \/ \E s \in Slots, h \in Handlers : HandlerFails(s, h) \/ PushToDLQFails(s, h)
    \/ \E p \in Procs : Crash(p)
=============================================================================
