----------------------------- MODULE EventQueue -----------------------------
(***************************************************************************)
(* One channel of packages/queue: publishers, consumer processes and the    *)
(* operator's tools on the same Redis keys, interleaved command by command. *)
(***************************************************************************)
EXTENDS Publisher, Subscriber, DeadLetter

vars == <<redisVars, history, pub, subVars, admVars>>

Init ==
    /\ RedisInit
    /\ PublisherInit
    /\ SubscriberInit
    /\ DeadLetterInit

Next ==
    \/ RedisNext      /\ UNCHANGED <<pub, subVars, admVars>>
    \/ PublisherNext  /\ UNCHANGED <<subVars, admVars>>
    \/ SubscriberNext /\ UNCHANGED <<pub, admVars>>
    \/ DeadLetterNext /\ UNCHANGED <<pub, subVars>>

Spec == Init /\ [][Next]_vars

(***************************************************************************)
(* Fairness.  Node's event loop runs every continuation whose reply has     *)
(* come, and Redis answers every command, so a call that is under way goes  *)
(* on; handlers settle (their failures are bounded by MaxFailures, their    *)
(* promises resolve).  A process that has no handler registers one: the     *)
(* services subscribe when they start.  Nothing is assumed of crashes,      *)
(* failures, expiry, unsubscribing or the operator.                         *)
(***************************************************************************)
Fairness ==
    /\ \A e \in Events : WF_vars(PublishStep(e) /\ UNCHANGED <<subVars, admVars>>)
    /\ \A l \in Listeners : WF_vars(ListenerStep(l) /\ UNCHANGED <<pub, admVars>>)
    /\ \A s \in Slots : WF_vars(SlotStep(s) /\ UNCHANGED <<pub, admVars>>)
    /\ \A p \in Procs :
          WF_vars(/\ handlers[p] = {}
                  /\ \E h \in Handlers, a \in AckModes : Subscribe(p, h, a)
                  /\ UNCHANGED <<pub, admVars>>)

FairSpec == Spec /\ Fairness

-----------------------------------------------------------------------------
(* Every variable holds a value of the type its key or field has in the     *)
(* code.                                                                    *)
TypeOK ==
    /\ RedisTypeOK
    /\ PublisherTypeOK
    /\ SubscriberTypeOK
    /\ DeadLetterTypeOK

(* Where an event still exists.                                             *)
Stored(e) ==
    \/ e \in ToSet(list)
    \/ e \in DeadEvents(dlq)
    \/ e \in ToSet(pipeline)
    \/ \E s \in Slots : Holds(s) /\ task[s].ev = e

(* No event disappears on its own: once LPUSHed it is on the list, held by  *)
(* a drain loop, on the DLQ or in a replay until it has been processed, or  *)
(* until a copy was destroyed by one of the paths that destroy copies.      *)
(* Push-back at the limit, requeueing after a failure and replay may        *)
(* duplicate an event but never drop it.                                    *)
NoSilentLoss ==
    \A e \in pushed : Stored(e) \/ e \in processed \/ e \in lost

(* #activeCount is exact: it is the number of #processMessage calls between *)
(* its increment and its decrement, less those forgotten when subscribe()   *)
(* reset it to 0 while they were under way.                                 *)
ActiveAccounting ==
    \A p \in Procs : active[p] + orphaned[p] = Cardinality(Counted(p))

(* The concurrency option bounds the calls under way: however deliveries,   *)
(* drains and failures interleave, no more than Concurrency of them beyond  *)
(* those that a reset of #activeCount has forgotten.                        *)
ConcurrencyBound ==
    \A p \in Procs : Cardinality(Counted(p)) <= Concurrency + orphaned[p]

(* A drain loop has at most one message in hand, and waits exactly while    *)
(* its call is under way: otherwise it would pop entries it does not wait   *)
(* for, or wait for ever.                                                   *)
DrainHoldsOne ==
    \A l \in Listeners :
        Cardinality({s \in Slots : Holds(s) /\ task[s].lis = l})
            = IF drain[l] = "wait" THEN 1 ELSE 0

(* With Concurrency = 1 in a single process whose counter was never reset,  *)
(* the HGET and HSET of the attempts hash are not interleaved with another  *)
(* call's, so no attempt is lost: the counter of an event never goes back,  *)
(* whichever of its copies are delivered.                                   *)
AttemptsNeverLost ==
    [][ (Concurrency = 1 /\ Cardinality(Procs) = 1 /\ \A p \in Procs : orphaned[p] = 0) =>
        \A e \in Events :
            attempts'[e] # attempts[e] => attempts'[e] = attempts[e] + 1 ]_vars

(* A drain loop comes to an end: it does not spin for ever on messages it   *)
(* pushes back at the limit or requeues after a failure.                    *)
DrainTerminates ==
    \A l \in Listeners : (drain[l] # "off") ~> (drain[l] = "off")

(* What is on the list while a drain loop runs is processed, or destroyed,  *)
(* or at least dead-lettered; also when it fails, is pushed back, or when   *)
(* the draining process dies and starts again.                              *)
BacklogDelivered ==
    \A e \in Events :
        (e \in ToSet(list) /\ \E l \in Listeners : drain[l] # "off")
            ~> (e \in processed \/ e \in lost \/ e \in DeadEvents(dlq))

-----------------------------------------------------------------------------
(* The queue implements the delivery contract: an event is owed from its    *)
(* LPUSH on, done once processed, and gone when no copy is left anywhere,   *)
(* pub/sub and live calls included.                                         *)
Anywhere(e) ==
    \/ Stored(e)
    \/ pub[e] \in {"trim", "notify", "bulkNotify"}   \* still to be PUBLISHed
    \/ \E l \in Listeners : e \in ToSet(inbox[l])
    \/ \E s \in Slots : task[s] # Free /\ task[s].ev = e

Status(e) ==
    IF e \notin pushed THEN "unsent"
    ELSE IF e \in processed THEN "done"
    ELSE IF Anywhere(e) THEN "owed" ELSE "gone"

Contract == INSTANCE DeliveryContract
              WITH status <- [e \in Events |-> Status(e)], excused <- lost

ImplementsContract == Contract!Spec

-----------------------------------------------------------------------------
(* types.ts documents the concurrency option as "max simultaneous handler   *)
(* invocations".                                                            *)
HandlerInvocations(p) ==
    Cardinality({i \in Slots \X Handlers :
                    task[i[1]] # Free /\ TaskProc(i[1]) = p /\ i[2] \in running[i[1]]})

SimultaneousHandlers == \A p \in Procs : HandlerInvocations(p) <= Concurrency

(* subscriber.ts documents subscribe(): "Messages are dequeued from the     *)
(* Redis list and delivered to the handler".  So, when no connection drops  *)
(* and no handler fails, an event whose publish() has returned is processed *)
(* by a consumer that stays subscribed.                                     *)
ListIsDelivered ==
    \A e \in Events : (pub[e] = "published") ~> (e \in processed)
=============================================================================
