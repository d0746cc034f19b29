-------------------------- MODULE EventQueueProofs --------------------------
(***************************************************************************)
(* The safety properties of EventQueue, for every set of events, processes, *)
(* listeners, handlers and slots and every value of the options.            *)
(***************************************************************************)
EXTENDS EventQueueTypes, FiniteSetTheorems

(***************************************************************************)
(* Part 1: #activeCount.  ConcurrencyBound is not inductive: it follows     *)
(* from the exact accounting of #activeCount and from the bound on the      *)
(* counter itself.                                                          *)
(***************************************************************************)
ActiveLimit == \A p \in Procs : active[p] <= Concurrency

CountInv == ActiveAccounting /\ ActiveLimit

(* The set of counted calls is finite.                                      *)
LEMMA CountedFinite ==
    ASSUME SubscriberAssumption, NEW q \in Procs
    PROVE  IsFiniteSet(Counted(q)) /\ Cardinality(Counted(q)) \in Nat
<1>1. IsFiniteSet(Counted(q))
  BY FS_Subset DEF Counted, SubscriberAssumption
<1> QED BY <1>1, FS_CardinalityType

(* A step that moves a call neither in nor out of the counted stages, and   *)
(* leaves the counters alone, keeps the accounting.                         *)
LEMMA CountKept ==
    ASSUME CountInv, UNCHANGED <<active, orphaned>>,
           \A q \in Procs : Counted(q)' = Counted(q)
    PROVE  CountInv'
BY DEF CountInv, ActiveAccounting, ActiveLimit

(* Moving the call in slot s to another stage of the same class.            *)
LEMMA CountedSame ==
    ASSUME CallsInv, NEW s \in Slots, NEW t, task' = [task EXCEPT ![s] = t],
           (t.stage \in CountedStages) <=> (task[s].stage \in CountedStages),
           t.stage \in CountedStages => t.lis = task[s].lis
    PROVE  \A q \in Procs : Counted(q)' = Counted(q)
BY DEF CallsInv, Counted, TaskProc

(* A call that starts is counted iff it was not refused at the limit.       *)
LEMMA ProcessMessageCount ==
    ASSUME SubscriberAssumption, CallsInv, CountInv,
           NEW s \in Slots, NEW l \in Listeners, NEW e \in Events,
           NEW drained \in BOOLEAN, ProcessMessage(s, l, e, drained)
    PROVE  CountInv'
<1> DEFINE full == active[Owner[l]] >= Concurrency
           t == [stage |-> IF full THEN "full" ELSE "hget", ev |-> e,
                 lis |-> l, drained |-> drained, att |-> 0]
<1>1. task[s].stage \notin CountedStages
  BY DEF ProcessMessage, Free, CountedStages
<1>2. task' = [task EXCEPT ![s] = t] /\ orphaned' = orphaned
      /\ active' = [active EXCEPT ![Owner[l]] = IF full THEN @ ELSE @ + 1]
  BY DEF ProcessMessage
<1>3. Owner[l] \in Procs /\ active[Owner[l]] \in Int /\ Concurrency \in Nat
  BY DEF SubscriberAssumption, CallsInv
<1>4. CASE full
  <2>1. t.stage \notin CountedStages
    BY <1>4 DEF CountedStages
  <2>2. \A q \in Procs : Counted(q)' = Counted(q)
    <3> HIDE DEF t
    <3> QED BY <1>1, <1>2, <2>1, CountedSame
  <2>3. active' = active
    BY <1>2, <1>3, <1>4 DEF CallsInv
  <2> QED BY <1>2, <2>2, <2>3, CountKept
<1>5. CASE ~full
  <2>1. t.stage \in CountedStages /\ t.lis = l
    BY <1>5 DEF CountedStages
  <2> HIDE DEF t, full
  <2>2. \A q \in Procs : Counted(q)' = IF q = Owner[l] THEN Counted(q) \cup {s}
                                                        ELSE Counted(q)
    BY <1>1, <1>2, <2>1 DEF Counted, TaskProc, CallsInv
  <2>3. s \notin Counted(Owner[l])
    BY <1>1 DEF Counted
  <2>4. Cardinality(Counted(Owner[l]) \cup {s}) = Cardinality(Counted(Owner[l])) + 1
    BY <1>3, <2>3, CountedFinite, FS_AddElement
  <2>5. active' = [active EXCEPT ![Owner[l]] = @ + 1]
    BY <1>2, <1>5
  <2>6. active[Owner[l]] < Concurrency
    BY <1>3, <1>5 DEF full
  <2>7. ASSUME NEW q \in Procs
        PROVE  /\ active'[q] + orphaned'[q] = Cardinality(Counted(q)')
               /\ active'[q] <= Concurrency
    <3>1. /\ active[q] \in Int /\ orphaned[q] \in Int
          /\ active[q] + orphaned[q] = Cardinality(Counted(q))
          /\ active[q] <= Concurrency
      BY DEF CallsInv, CountInv, ActiveAccounting, ActiveLimit
    <3>2. CASE q = Owner[l]
      <4>1. active'[q] = active[q] + 1 /\ orphaned'[q] = orphaned[q]
        BY <1>2, <2>5, <3>2 DEF CallsInv
      <4>2. Cardinality(Counted(q)') = Cardinality(Counted(q)) + 1
        BY <2>2, <2>4, <3>2
      <4> QED BY <1>3, <2>6, <3>1, <3>2, <4>1, <4>2
    <3>3. CASE q # Owner[l]
      <4>1. active'[q] = active[q] /\ orphaned'[q] = orphaned[q]
        BY <1>2, <2>5, <3>3 DEF CallsInv
      <4>2. Counted(q)' = Counted(q)
        BY <2>2, <3>3
      <4> QED BY <3>1, <4>1, <4>2
    <3> QED BY <3>2, <3>3
  <2> QED BY <2>7 DEF CountInv, ActiveAccounting, ActiveLimit
<1> QED BY <1>4, <1>5

(* The finally block decrements for exactly the call that stops counting.   *)
LEMMA ReturnCount ==
    ASSUME SubscriberAssumption, CallsInv, CountInv,
           NEW s \in Slots, task[s].stage \in CountedStages,
           NEW rest, NEW dying, Return(s, rest, dying)
    PROVE  CountInv'
<1> DEFINE p == TaskProc(s)
           t == IF rest \cup dying = {} THEN Free ELSE [task[s] EXCEPT !.stage = "settled"]
<1>1. task[s] \in TaskType /\ p \in Procs
  BY CallTypes, StageNotFree DEF CountedStages, SubscriberAssumption, TaskProc
<1>2. t.stage \notin CountedStages
  BY <1>1 DEF TaskType, Free, CountedStages
<1>3. task' = [task EXCEPT ![s] = t] /\ orphaned' = orphaned
      /\ active' = [active EXCEPT ![p] = @ - 1]
  BY DEF Return
<1>4. s \in Counted(p)
  BY DEF Counted
<1>5. \A q \in Procs : Counted(q)' = IF q = p THEN Counted(q) \ {s} ELSE Counted(q)
  <2> HIDE DEF t
  <2> QED BY <1>2, <1>3 DEF Counted, TaskProc, CallsInv
<1>6. Cardinality(Counted(p) \ {s}) = Cardinality(Counted(p)) - 1
  BY <1>1, <1>4, CountedFinite, FS_RemoveElement
<1> HIDE DEF t, p
<1>7. ASSUME NEW q \in Procs
      PROVE  /\ active'[q] + orphaned'[q] = Cardinality(Counted(q)')
             /\ active'[q] <= Concurrency
  <2>1. /\ active[q] \in Int /\ orphaned[q] \in Int
        /\ active[q] + orphaned[q] = Cardinality(Counted(q))
        /\ active[q] <= Concurrency /\ Concurrency \in Nat
    BY DEF CallsInv, CountInv, ActiveAccounting, ActiveLimit, SubscriberAssumption
  <2>2. CASE q = p
    <3>1. active'[q] = active[q] - 1 /\ orphaned'[q] = orphaned[q]
      BY <1>3, <2>2 DEF CallsInv
    <3>2. Cardinality(Counted(q)') = Cardinality(Counted(q)) - 1
      BY <1>5, <1>6, <2>2
    <3> QED BY <2>1, <3>1, <3>2
  <2>3. CASE q # p
    <3>1. active'[q] = active[q] /\ orphaned'[q] = orphaned[q]
      BY <1>3, <2>3 DEF CallsInv
    <3>2. Counted(q)' = Counted(q)
      BY <1>5, <2>3
    <3> QED BY <2>1, <3>1, <3>2
  <2> QED BY <2>2, <2>3
<1> QED BY <1>7 DEF CountInv, ActiveAccounting, ActiveLimit

(* Dispatching keeps the call counted, or returns it.                       *)
LEMMA DispatchCount ==
    ASSUME SubscriberAssumption, CallsInv, CountInv,
           NEW s \in Slots, task[s].stage \in CountedStages,
           NEW att, Dispatch(s, att)
    PROVE  CountInv'
<1>1. CASE Return(s, {}, {})
  BY <1>1, ReturnCount
<1>2. CASE task' = [task EXCEPT ![s].stage = "run", ![s].att = att]
           /\ UNCHANGED procVars
  <2> DEFINE t == [task[s] EXCEPT !.stage = "run", !.att = att]
  <2>1. task[s] \in TaskType
    BY CallTypes, StageNotFree DEF CountedStages
  <2>2. t.stage \in CountedStages /\ t.lis = task[s].lis /\ task' = [task EXCEPT ![s] = t]
    BY <1>2, <2>1 DEF TaskType, CountedStages
  <2> HIDE DEF t
  <2>3. \A q \in Procs : Counted(q)' = Counted(q)
    BY <2>2, CountedSame
  <2> QED BY <1>2, <2>3, CountKept DEF procVars
<1> QED BY <1>1, <1>2 DEF Dispatch

(* A settling handler whose call has been left behind counts for nothing.   *)
LEMMA AbandonCount ==
    ASSUME SubscriberAssumption, CallsInv, CountInv,
           NEW s \in Slots, task[s].stage \in Dispatched,
           NEW rest, NEW dying, Abandon(s, rest, dying)
    PROVE  CountInv'
<1> DEFINE t == IF task[s].stage = "settled" /\ rest \cup dying = {} THEN Free ELSE task[s]
<1>1. task' = [task EXCEPT ![s] = t] /\ UNCHANGED <<active, orphaned>>
  BY DEF Abandon, procVars
<1>2. (t.stage \in CountedStages) <=> (task[s].stage \in CountedStages)
  BY DEF Free, CountedStages
<1>3. t.stage \in CountedStages => t.lis = task[s].lis
  BY DEF Free, CountedStages
<1> HIDE DEF t
<1> QED BY <1>1, <1>2, <1>3, CountedSame, CountKept

(* Promise.all rejecting returns the call or leaves it counted.             *)
LEMMA RejectCount ==
    ASSUME SubscriberAssumption, CallsInv, CountInv,
           NEW s \in Slots, task[s].stage \in Dispatched,
           NEW rest, NEW dying, NEW dead, Reject(s, rest, dying, dead)
    PROVE  CountInv'
<1>1. ASSUME task[s].stage = "run", Return(s, rest, dying) PROVE CountInv'
  <2>1. task[s].stage \in CountedStages
    BY <1>1 DEF CountedStages
  <2> QED BY <1>1, <2>1, ReturnCount
<1>2. ASSUME task[s].stage = "run", task' = [task EXCEPT ![s].stage = "requeue"],
             UNCHANGED procVars
      PROVE  CountInv'
  <2> DEFINE t == [task[s] EXCEPT !.stage = "requeue"]
  <2>1. task[s] \in TaskType
    BY CallTypes, StageNotFree DEF Dispatched
  <2>2. /\ t.stage \in CountedStages /\ t.lis = task[s].lis
        /\ task[s].stage \in CountedStages /\ task' = [task EXCEPT ![s] = t]
    BY <1>2, <2>1 DEF TaskType, CountedStages
  <2> HIDE DEF t
  <2>3. \A q \in Procs : Counted(q)' = Counted(q)
    BY <2>2, CountedSame
  <2> QED BY <1>2, <2>3, CountKept DEF procVars
<1>3. ASSUME Abandon(s, rest, dying) PROVE CountInv'
  BY <1>3, AbandonCount
<1> QED BY <1>1, <1>2, <1>3 DEF Reject

(* Steps that leave the calls and the counters alone.                       *)
LEMMA CountUntouched ==
    ASSUME CountInv, UNCHANGED <<active, orphaned, task>>
    PROVE  CountInv'
BY CountKept DEF Counted, TaskProc

(* subscribe() may reset #activeCount to 0; what it forgets is orphaned.    *)
LEMMA SubscribeCount ==
    ASSUME SubscriberAssumption, CallsInv, CountInv,
           NEW p \in Procs, NEW h \in Handlers, NEW a \in AckModes, Subscribe(p, h, a)
    PROVE  CountInv'
<1>1. \A q \in Procs : Counted(q)' = Counted(q)
  BY DEF Subscribe, taskVars, Counted, TaskProc
<1>2. ASSUME NEW q \in Procs
      PROVE  /\ active'[q] + orphaned'[q] = active[q] + orphaned[q]
             /\ active'[q] <= Concurrency
  <2>1. active[q] \in Int /\ orphaned[q] \in Int /\ active[q] <= Concurrency
        /\ Concurrency \in Nat
    BY DEF CallsInv, CountInv, ActiveLimit, SubscriberAssumption
  <2>2. \/ active'[q] = active[q] /\ orphaned'[q] = orphaned[q]
        \/ active'[q] = 0 /\ orphaned'[q] = orphaned[q] + active[q]
    BY DEF Subscribe, CallsInv
  <2> QED BY <2>1, <2>2
<1> QED BY <1>1, <1>2 DEF CountInv, ActiveAccounting, ActiveLimit

(* A crash ends all calls of the process and starts the counter again.      *)
LEMMA CrashCount ==
    ASSUME SubscriberAssumption, CallsInv, CountInv, NEW p \in Procs, Crash(p)
    PROVE  CountInv'
<1> DEFINE gone == {s \in Slots : task[s] # Free /\ TaskProc(s) = p}
<1>1. task' = [s \in Slots |-> IF s \in gone THEN Free ELSE task[s]]
  BY DEF Crash
<1>2. Counted(p)' = {}
  BY <1>1, StageNotFree DEF Counted, TaskProc, Free, CountedStages
<1>3. \A q \in Procs \ {p} : Counted(q)' = Counted(q)
  BY <1>1 DEF Counted, TaskProc, Free, CountedStages
<1>4. active' = [active EXCEPT ![p] = 0] /\ orphaned' = [orphaned EXCEPT ![p] = 0]
  BY DEF Crash
<1>5. Cardinality({}) = 0
  BY FS_EmptySet
<1>6. ASSUME NEW q \in Procs
      PROVE  /\ active'[q] + orphaned'[q] = Cardinality(Counted(q)')
             /\ active'[q] <= Concurrency
  <2>1. CASE q = p
    <3>1. active'[q] = 0 /\ orphaned'[q] = 0 /\ Concurrency \in Nat
      BY <1>4, <2>1 DEF CallsInv, SubscriberAssumption
    <3>2. Cardinality(Counted(q)') = 0
      BY <1>2, <1>5, <2>1
    <3> QED BY <3>1, <3>2
  <2>2. CASE q # p
    BY <1>3, <1>4, <2>2 DEF CallsInv, CountInv, ActiveAccounting, ActiveLimit
  <2> QED BY <2>1, <2>2
<1> QED BY <1>6 DEF CountInv, ActiveAccounting, ActiveLimit

(* Every step of the channel keeps the accounting and the limit.            *)
LEMMA CountStep ==
    ASSUME SubscriberAssumption, TypeInv, CountInv, [Next]_vars
    PROVE  CountInv'
<1>1. CallsInv /\ RedisTypeOK
  BY SubscriberParts DEF TypeInv
<1>2. ASSUME UNCHANGED subVars PROVE CountInv'
  BY <1>2, CountUntouched DEF subVars, procVars, taskVars
<1>3. ASSUME SubscriberNext PROVE CountInv'
  <2>1. ASSUME NEW p \in Procs, NEW h \in Handlers, NEW a \in AckModes, Subscribe(p, h, a)
        PROVE  CountInv'
    BY <1>1, <2>1, SubscribeCount
  <2>2. ASSUME NEW p \in Procs, NEW h \in Handlers, Unsubscribe(p, h) PROVE CountInv'
    BY <2>2, CountUntouched DEF Unsubscribe, taskVars
  <2>3. ASSUME NEW l \in Listeners, Listen(l) \/ DrainEnds(l) PROVE CountInv'
    BY <2>3, CountUntouched DEF Listen, DrainEnds, procVars, taskVars
  <2>4. ASSUME NEW l \in Listeners, NEW s \in Slots, Receive(s, l) PROVE CountInv'
    <3>1. inbox[l] \in Seq(Events) /\ inbox[l] # <<>>
      BY <1>1, <2>4 DEF Receive, RedisTypeOK
    <3>2. Head(inbox[l]) \in Events
      BY <3>1, TailElements
    <3> QED BY <1>1, <2>4, <3>2, ProcessMessageCount DEF Receive
  <2>5. ASSUME NEW l \in Listeners, NEW s \in Slots, DrainPop(s, l) PROVE CountInv'
    <3>1. Last(list) \in Events
      BY <1>1, <2>5, FrontElements DEF DrainPop, RedisTypeOK
    <3> QED BY <1>1, <2>5, <3>1, ProcessMessageCount DEF DrainPop
  <2>6. ASSUME NEW s \in Slots, PushBack(s) PROVE CountInv'
    <3>1. /\ task' = [task EXCEPT ![s] = Free] /\ UNCHANGED <<active, orphaned>>
          /\ Free.stage \notin CountedStages /\ task[s].stage \notin CountedStages
      BY <2>6 DEF PushBack, procVars, Free, CountedStages
    <3> QED BY <1>1, <3>1, CountedSame, CountKept
  <2>7. ASSUME NEW s \in Slots, GetAttempts(s) PROVE CountInv'
    <3>1. task[s].stage \in CountedStages
      BY <2>7 DEF GetAttempts, CountedStages
    <3> DEFINE att == attempts[task[s].ev] + 1
    <3>2. CASE Dispatch(s, att)
      BY <1>1, <3>1, <3>2, DispatchCount
    <3>3. CASE task' = [task EXCEPT ![s].stage = "hset", ![s].att = att]
               /\ UNCHANGED procVars
      <4> DEFINE t == [task[s] EXCEPT !.stage = "hset", !.att = att]
      <4>1. task[s] \in TaskType
        BY <1>1, <3>1, CallTypes, StageNotFree DEF CountedStages
      <4>2. t.stage \in CountedStages /\ t.lis = task[s].lis /\ task' = [task EXCEPT ![s] = t]
        BY <3>3, <4>1 DEF TaskType, CountedStages
      <4> HIDE DEF t
      <4> QED BY <1>1, <3>1, <3>3, <4>2, CountedSame, CountKept DEF procVars
    <3> QED BY <2>7, <3>2, <3>3 DEF GetAttempts
  <2>8. ASSUME NEW s \in Slots, SetAttempts(s) PROVE CountInv'
    BY <1>1, <2>8, DispatchCount DEF SetAttempts, CountedStages
  <2>9. ASSUME NEW s \in Slots, Requeue(s) PROVE CountInv'
    BY <1>1, <2>9, ReturnCount DEF Requeue, CountedStages
  <2>10. ASSUME NEW s \in Slots, NEW h \in Handlers, HandlerSucceeds(s, h) PROVE CountInv'
    <3>1. task[s].stage \in Dispatched
      BY <1>1, <2>10 DEF HandlerSucceeds, CallsInv
    <3>2. "run" \in CountedStages
      BY DEF CountedStages
    <3> QED BY <1>1, <2>10, <3>1, <3>2, ReturnCount, AbandonCount DEF HandlerSucceeds
  <2>11. ASSUME NEW s \in Slots, NEW h \in Handlers, HandlerFails(s, h) PROVE CountInv'
    <3>1. task[s].stage \in Dispatched
      BY <1>1, <2>11 DEF HandlerFails, CallsInv
    <3>2. CASE UNCHANGED <<task, procVars>>
      BY <3>2, CountUntouched DEF procVars
    <3>3. CASE Reject(s, running[s] \ {h}, failing[s], FALSE)
      BY <1>1, <3>1, <3>3, RejectCount
    <3> QED BY <2>11, <3>2, <3>3 DEF HandlerFails
  <2>12. ASSUME NEW s \in Slots, NEW h \in Handlers,
                PushToDLQ(s, h) \/ PushToDLQFails(s, h)
         PROVE  CountInv'
    <3>1. task[s].stage \in Dispatched
      BY <1>1, <2>12 DEF PushToDLQ, PushToDLQFails, CallsInv
    <3>2. \E dead \in BOOLEAN : Reject(s, running[s], failing[s] \ {h}, dead)
      BY <2>12 DEF PushToDLQ, PushToDLQFails
    <3> QED BY <1>1, <3>1, <3>2, RejectCount
  <2>13. ASSUME NEW p \in Procs, Crash(p) PROVE CountInv'
    BY <1>1, <2>13, CrashCount
  <2> QED BY <1>3, <2>1, <2>2, <2>3, <2>4, <2>5, <2>6, <2>7, <2>8, <2>9, <2>10,
             <2>11, <2>12, <2>13
          DEF SubscriberNext, ListenerStep, SlotStep, HandlerStep
<1> QED BY <1>2, <1>3 DEF Next, vars

(* Before any process subscribes no call is counted, and every counter is   *)
(* 0.                                                                       *)
LEMMA CountInit == ASSUME SubscriberAssumption, Init PROVE CountInv
<1>1. \A q \in Procs : Counted(q) = {}
  BY DEF Init, SubscriberInit, Counted, Free, CountedStages
<1>2. Cardinality({}) = 0
  BY FS_EmptySet
<1>3. \A q \in Procs : active[q] = 0 /\ orphaned[q] = 0 /\ Concurrency \in Nat
  BY DEF Init, SubscriberInit, SubscriberAssumption
<1>4. \A q \in Procs : Cardinality(Counted(q)) = 0
  BY <1>1, <1>2
<1> QED BY <1>3, <1>4 DEF CountInv, ActiveAccounting, ActiveLimit

(* #activeCount plus what subscribe() made it forget is the number of calls *)
(* between its increment and its decrement.                                 *)
THEOREM ActiveCountExact == Spec => []ActiveAccounting
<1>1. SubscriberAssumption
  BY SubscriberConstants
<1>2. Init => CountInv
  BY <1>1, CountInit
<1>3. TypeInv /\ CountInv /\ [Next]_vars => CountInv'
  BY <1>1, CountStep
<1>4. CountInv => ActiveAccounting
  BY DEF CountInv
<1> QED BY <1>2, <1>3, <1>4, TypeInvariant, PTL DEF Spec

(* No more than Concurrency calls are under way in a process, beyond those  *)
(* that a reset of #activeCount has forgotten.                              *)
THEOREM ConcurrencyBounded == Spec => []ConcurrencyBound
<1>1. SubscriberAssumption
  BY SubscriberConstants
<1>2. Init => CountInv
  BY <1>1, CountInit
<1>3. TypeInv /\ CountInv /\ [Next]_vars => CountInv'
  BY <1>1, CountStep
<1>4. TypeInv /\ CountInv => ConcurrencyBound
  <2> SUFFICES ASSUME TypeInv, CountInv, NEW p \in Procs
               PROVE  Cardinality(Counted(p)) <= Concurrency + orphaned[p]
    BY DEF ConcurrencyBound
  <2>1. active[p] \in Int /\ orphaned[p] \in Int /\ Concurrency \in Nat
    BY <1>1, SubscriberParts DEF TypeInv, CallsInv, SubscriberAssumption
  <2>2. active[p] + orphaned[p] = Cardinality(Counted(p)) /\ active[p] <= Concurrency
    BY DEF CountInv, ActiveAccounting, ActiveLimit
  <2> QED BY <2>1, <2>2
<1> QED BY <1>2, <1>3, <1>4, TypeInvariant, PTL DEF Spec

-----------------------------------------------------------------------------
(***************************************************************************)
(* Part 2: NoSilentLoss.  It is inductive given the types: no step takes an *)
(* event out of every place where it is, and what is pushed is somewhere.   *)
(***************************************************************************)
HeldEvents == {task[s].ev : s \in {r \in Slots : Holds(r)}}

Somewhere ==
    ToSet(list) \cup DeadEvents(dlq) \cup ToSet(pipeline) \cup HeldEvents
        \cup processed \cup lost

(* NoSilentLoss as one inclusion of sets, which is what each step below     *)
(* extends on the left or on the right.                                     *)
LEMMA NoSilentLossAsSet == NoSilentLoss <=> pushed \subseteq Somewhere
BY DEF NoSilentLoss, Stored, Somewhere, HeldEvents

(* The same in the state after a step.                                      *)
LEMMA NoSilentLossAsSetNext == NoSilentLoss' <=> pushed' \subseteq Somewhere'
BY DEF NoSilentLoss, Stored, Somewhere, HeldEvents

(* What a step must do to keep NoSilentLoss.                                *)
KeepsEvents == Somewhere \subseteq Somewhere' /\ pushed' \subseteq pushed \cup Somewhere'

(* The events of a DLQ in terms of its elements.                            *)
LEMMA DeadEventsOf ==
    ASSUME NEW s \in Seq(DlqEntry)
    PROVE  DeadEvents(s) = {d.ev : d \in ToSet(s)}
<1>1. DOMAIN s = 1..Len(s)
  BY LenProperties
<1> QED BY <1>1, ElementsByPosition DEF DeadEvents

(* Replacing the call of one slot.                                          *)
LEMMA HeldChange ==
    ASSUME CallsInv, NEW s \in Slots, NEW t, task' = [task EXCEPT ![s] = t]
    PROVE  /\ HeldEvents \ {task[s].ev} \subseteq HeldEvents'
           /\ ~Holds(s) => HeldEvents \subseteq HeldEvents'
           /\ t.stage \in CountedStages \cup {"full"} /\ t.drained => t.ev \in HeldEvents'
<1>1. \A r \in Slots \ {s} : task'[r] = task[r]
  BY DEF CallsInv
<1>2. task'[s] = t
  BY DEF CallsInv
<1> QED BY <1>1, <1>2 DEF HeldEvents, Holds

(* A call that goes on to a stage that still holds what it held.            *)
LEMMA HeldStays ==
    ASSUME CallsInv, NEW s \in Slots, NEW t, task' = [task EXCEPT ![s] = t],
           t.stage \in CountedStages, t.drained = task[s].drained, t.ev = task[s].ev
    PROVE  HeldEvents \subseteq HeldEvents'
<1>1. CASE Holds(s)
  <2>1. task[s].ev \in HeldEvents'
    <3>1. t.drained
      BY <1>1 DEF Holds
    <3> QED BY <3>1, HeldChange
  <2> QED BY <2>1, HeldChange
<1>2. CASE ~Holds(s)
  BY <1>2, HeldChange
<1> QED BY <1>1, <1>2

(* Steps that leave the calls alone.                                        *)
LEMMA HeldUntouched == ASSUME UNCHANGED task PROVE HeldEvents' = HeldEvents
BY DEF HeldEvents, Holds

(* LPUSH adds one event to those on the list.                               *)
LEMMA LPushElements ==
    ASSUME RedisTypeOK, NEW e \in Events, LPushList(e)
    PROVE  ToSet(list') = ToSet(list) \cup {e}
<1>1. list' = Cons(e, list)
  BY DEF LPushList, SetList
<1>2. list \in Seq(Events)
  BY DEF RedisTypeOK
<1>3. ToSet(Cons(e, list)) = ToSet(list) \cup {e}
  BY <1>2, ConsElements
<1> QED BY <1>1, <1>3

(* Redis itself: what expires is lost.                                      *)
LEMMA RedisKeeps ==
    ASSUME RedisNext, UNCHANGED <<pub, subVars, admVars>>
    PROVE  KeepsEvents
<1>1. HeldEvents' = HeldEvents /\ pipeline' = pipeline
  BY HeldUntouched DEF subVars, taskVars, admVars
<1>2. ASSUME NEW k \in Keys, DedupeKeyExpires(k) PROVE KeepsEvents
  BY <1>1, <1>2 DEF DedupeKeyExpires, KeepsEvents, Somewhere, history
<1>3. ASSUME ListExpires PROVE KeepsEvents
  BY <1>1, <1>3 DEF ListExpires, SetList, KeepsEvents, Somewhere
<1>4. ASSUME NEW l \in Listeners, ConnectionDrops(l) PROVE KeepsEvents
  BY <1>1, <1>4 DEF ConnectionDrops, KeepsEvents, Somewhere, history
<1> QED BY <1>2, <1>3, <1>4 DEF RedisNext

(* Publishers: a push adds to the list, and LTRIM loses what it cuts off.   *)
LEMMA PublisherKeeps ==
    ASSUME PublisherAssumption, RedisTypeOK, PublisherNext, UNCHANGED <<subVars, admVars>>
    PROVE  KeepsEvents
<1> USE DEF KeepsEvents, Somewhere
<1>1. HeldEvents' = HeldEvents /\ pipeline' = pipeline
  BY HeldUntouched DEF subVars, taskVars, admVars
<1>3. ASSUME NEW e \in Events, Push(e) \/ BulkPush(e) PROVE KeepsEvents
  <2>1. LPushList(e) /\ pushed' = pushed \cup {e} /\ UNCHANGED <<dlq, processed, lost>>
    BY <1>3 DEF Push, BulkPush
  <2> QED BY <1>1, <2>1, LPushElements
<1>4. ASSUME NEW e \in Events, Trim(e) PROVE KeepsEvents
  <2>1. ToSet(list) = ToSet(list') \cup ToSet(SubSeq(list, MaxQueueLength + 1, Len(list)))
    BY <1>4, TrimParts DEF Trim, SetList, RedisTypeOK, PublisherAssumption
  <2> QED BY <1>1, <1>4, <2>1 DEF Trim
<1>5. ASSUME UNCHANGED <<list, dlq, history>> PROVE KeepsEvents
  BY <1>1, <1>5 DEF history
<1>6. ASSUME NEW e \in Events,
             CheckDedupe(e) \/ SetDedupe(e) \/ Notify(e) \/ Expire(e) \/ PublishFails(e)
                \/ BulkNotify(e)
      PROVE  KeepsEvents
  BY <1>5, <1>6 DEF CheckDedupe, SetDedupe, Notify, Expire, PublishFails, BulkNotify, redisVars
<1>7. ASSUME NEW batch, BulkStart(batch) PROVE KeepsEvents
  BY <1>5, <1>7 DEF BulkStart, redisVars
<1>8. ASSUME BulkFails \/ BulkFinish PROVE KeepsEvents
  BY <1>5, <1>8 DEF BulkFails, BulkFinish, redisVars
<1> QED BY <1>3, <1>4, <1>6, <1>7, <1>8 DEF PublisherNext, PublishStep

(* The operator's tools: a replay moves events, the rest loses them.        *)
LEMMA DeadLetterKeeps ==
    ASSUME RedisTypeOK, DeadLetterInv, DeadLetterNext, UNCHANGED <<pub, subVars>>
    PROVE  KeepsEvents
<1> USE DEF KeepsEvents, Somewhere
<1>1. HeldEvents' = HeldEvents
  BY HeldUntouched DEF subVars, taskVars
<1>2. ASSUME UNCHANGED <<list, dlq, pipeline, history>> PROVE KeepsEvents
  BY <1>1, <1>2 DEF history
<1>3. ASSUME ReplayPop PROVE KeepsEvents
  <2>1. dlq \in Seq(DlqEntry) /\ dlq # <<>> /\ pipeline \in Seq(Events)
    BY <1>3 DEF ReplayPop, RedisTypeOK, DeadLetterInv, DeadLetterTypeOK
  <2>2. /\ Front(dlq) \in Seq(DlqEntry) /\ Last(dlq) \in DlqEntry
        /\ ToSet(dlq) = ToSet(Front(dlq)) \cup {Last(dlq)}
    BY <2>1, FrontElements
  <2>3. Last(dlq).ev \in Events
    BY <2>2 DEF DlqEntry
  <2>4. ToSet(pipeline') = ToSet(pipeline) \cup {Last(dlq).ev}
    BY <1>3, <2>1, <2>3, AppendElements DEF ReplayPop
  <2>5. DeadEvents(dlq) = DeadEvents(dlq') \cup {Last(dlq).ev}
    <3>1. dlq' = Front(dlq)
      BY <1>3 DEF ReplayPop
    <3>2. /\ DeadEvents(dlq) = {d.ev : d \in ToSet(dlq)}
          /\ DeadEvents(dlq') = {d.ev : d \in ToSet(dlq')}
      BY <2>1, <2>2, <3>1, DeadEventsOf
    <3> QED BY <2>2, <3>1, <3>2
  <2>6. UNCHANGED <<list, pushed, processed, lost>>
    BY <1>3 DEF ReplayPop, history
  <2> QED BY <1>1, <2>4, <2>5, <2>6
<1>4. ASSUME ReplayExec PROVE KeepsEvents
  <2>1. /\ Tail(pipeline) \in Seq(Events) /\ Head(pipeline) \in Events
        /\ ToSet(pipeline) = ToSet(Tail(pipeline)) \cup {Head(pipeline)}
    BY <1>4, TailElements DEF ReplayExec, DeadLetterInv, DeadLetterTypeOK
  <2>2. ToSet(list') = ToSet(list) \cup {Head(pipeline)}
    BY <1>4, <2>1, LPushElements DEF ReplayExec
  <2>3. pipeline' = Tail(pipeline) /\ UNCHANGED <<dlq, pushed, processed, lost>>
    BY <1>4 DEF ReplayExec, history
  <2> QED BY <1>1, <2>1, <2>2, <2>3
<1>5. ASSUME ReplayDies PROVE KeepsEvents
  BY <1>1, <1>5 DEF ReplayDies, redisVars
<1>6. ASSUME RemoveDelete PROVE KeepsEvents
  <2>1. CASE UNCHANGED <<dlq, lost>>
    BY <1>1, <1>6, <2>1 DEF RemoveDelete
  <2>2. ASSUME NEW i \in DOMAIN dlq, dlq' = RemoveAt(dlq, i), lost' = lost \cup {dlq[i].ev}
        PROVE  KeepsEvents
    <3>1. dlq \in Seq(DlqEntry) /\ i \in 1..Len(dlq)
      BY DlqEntries DEF RedisTypeOK
    <3>2. /\ RemoveAt(dlq, i) \in Seq(DlqEntry)
          /\ ToSet(dlq) \subseteq ToSet(RemoveAt(dlq, i)) \cup {dlq[i]}
      BY <3>1, RemoveAtElements
    <3>3. /\ DeadEvents(dlq) = {d.ev : d \in ToSet(dlq)}
          /\ DeadEvents(dlq') = {d.ev : d \in ToSet(dlq')}
      BY <2>2, <3>1, <3>2, DeadEventsOf
    <3>4. DeadEvents(dlq) \subseteq DeadEvents(dlq') \cup {dlq[i].ev}
      BY <2>2, <3>2, <3>3
    <3> QED BY <1>1, <1>6, <2>2, <3>4 DEF RemoveDelete
  <2> QED BY <1>6, <2>1, <2>2 DEF RemoveDelete
<1>7. ASSUME Purge PROVE KeepsEvents
  BY <1>1, <1>7 DEF Purge, admVars
<1>8. ASSUME DrainQueue PROVE KeepsEvents
  BY <1>1, <1>8 DEF DrainQueue, SetList, admVars
<1>9. ASSUME ReplayStart \/ ReplayEmpty PROVE KeepsEvents
  BY <1>2, <1>9 DEF ReplayStart, ReplayEmpty, redisVars
<1>10. ASSUME NEW e \in Events, RemoveScan(e) PROVE KeepsEvents
  BY <1>2, <1>10 DEF RemoveScan, redisVars
<1> QED BY <1>3, <1>4, <1>5, <1>6, <1>7, <1>8, <1>9, <1>10 DEF DeadLetterNext, ReplayStep

(* A returning call lets go of its event and of no other.                   *)
LEMMA ReturnHeld ==
    ASSUME CallsInv, NEW s \in Slots, NEW rest, NEW dying, Return(s, rest, dying)
    PROVE  /\ HeldEvents \ {task[s].ev} \subseteq HeldEvents'
           /\ ~Holds(s) => HeldEvents \subseteq HeldEvents'
<1> DEFINE t == IF rest \cup dying = {} THEN Free ELSE [task[s] EXCEPT !.stage = "settled"]
<1>1. task' = [task EXCEPT ![s] = t]
  BY DEF Return
<1> HIDE DEF t
<1> QED BY <1>1, HeldChange

(* A dispatched call holds its event, or the dispatch has lost it.          *)
LEMMA DispatchHeld ==
    ASSUME CallsInv, NEW s \in Slots, task[s].stage \in CountedStages,
           NEW att, Dispatch(s, att)
    PROVE  HeldEvents \subseteq HeldEvents' \cup lost' /\ lost \subseteq lost'
<1>1. CASE /\ Return(s, {}, {})
           /\ lost' = IF task[s].drained THEN lost \cup {task[s].ev} ELSE lost
  BY <1>1, ReturnHeld DEF Holds
<1>2. CASE task' = [task EXCEPT ![s].stage = "run", ![s].att = att] /\ lost' = lost
  <2> DEFINE t == [task[s] EXCEPT !.stage = "run", !.att = att]
  <2>1. task[s] \in TaskType
    BY CallTypes, StageNotFree DEF CountedStages
  <2>2. /\ t.stage \in CountedStages /\ t.drained = task[s].drained
        /\ t.ev = task[s].ev /\ task' = [task EXCEPT ![s] = t]
    BY <1>2, <2>1 DEF TaskType, CountedStages
  <2> HIDE DEF t
  <2> QED BY <1>2, <2>2, HeldStays
<1> QED BY <1>1, <1>2 DEF Dispatch

(* A handler left behind by its call holds nothing.                         *)
LEMMA AbandonHeld ==
    ASSUME CallsInv, NEW s \in Slots, NEW rest, NEW dying, Abandon(s, rest, dying)
    PROVE  HeldEvents \subseteq HeldEvents'
<1>1. CASE task[s].stage = "settled"
  <2> DEFINE t == IF task[s].stage = "settled" /\ rest \cup dying = {}
                  THEN Free ELSE task[s]
  <2>1. task' = [task EXCEPT ![s] = t] /\ ~Holds(s)
    BY <1>1 DEF Abandon, Holds, CountedStages
  <2> HIDE DEF t
  <2> QED BY <2>1, HeldChange
<1>2. CASE task[s].stage # "settled"
  <2>1. task' = task
    BY <1>2 DEF Abandon, CallsInv
  <2> QED BY <2>1, HeldUntouched
<1> QED BY <1>1, <1>2

(* A rejected call goes on to requeue its event, or it is on the DLQ, or it *)
(* is lost: with autoAck the error is swallowed.                            *)
LEMMA RejectHeld ==
    ASSUME CallsInv, NEW s \in Slots, task[s].stage \in Dispatched,
           NEW rest, NEW dying, NEW dead, Reject(s, rest, dying, dead),
           dead => task[s].ev \in DeadEvents(dlq')
    PROVE  /\ HeldEvents \subseteq HeldEvents' \cup DeadEvents(dlq') \cup lost'
           /\ lost \subseteq lost'
<1>1. CASE /\ Return(s, rest, dying)
           /\ lost' = IF task[s].drained /\ ~dead THEN lost \cup {task[s].ev} ELSE lost
  BY <1>1, ReturnHeld DEF Holds
<1>2. CASE task[s].stage = "run" /\ task' = [task EXCEPT ![s].stage = "requeue"]
           /\ lost' = lost
  <2> DEFINE t == [task[s] EXCEPT !.stage = "requeue"]
  <2>1. task[s] \in TaskType
    BY CallTypes, StageNotFree DEF Dispatched
  <2>2. /\ t.stage \in CountedStages /\ t.drained = task[s].drained
        /\ t.ev = task[s].ev /\ task' = [task EXCEPT ![s] = t]
    BY <1>2, <2>1 DEF TaskType, CountedStages
  <2> HIDE DEF t
  <2> QED BY <1>2, <2>2, HeldStays
<1>3. CASE Abandon(s, rest, dying) /\ lost' = lost
  BY <1>3, AbandonHeld
<1> QED BY <1>1, <1>2, <1>3 DEF Reject

(* Consumers: an event popped off the list is held until it is processed,   *)
(* put back, on the DLQ or lost.                                            *)
LEMMA SubscriberKeeps ==
    ASSUME SubscriberAssumption, RedisTypeOK, CallsInv, SubscriberNext,
           UNCHANGED <<pub, admVars>>
    PROVE  KeepsEvents
<1> USE DEF KeepsEvents, Somewhere
<1>1. pipeline' = pipeline
  BY DEF admVars
<1>2. ASSUME UNCHANGED <<list, dlq, history, task>> PROVE KeepsEvents
  BY <1>1, <1>2, HeldUntouched DEF history
<1>3. ASSUME NEW p \in Procs, NEW h \in Handlers,
             Unsubscribe(p, h) \/ \E a \in AckModes : Subscribe(p, h, a)
      PROVE  KeepsEvents
  BY <1>2, <1>3 DEF Subscribe, Unsubscribe, redisVars, taskVars
<1>4. ASSUME NEW l \in Listeners, Listen(l) \/ DrainEnds(l) PROVE KeepsEvents
  BY <1>2, <1>4 DEF Listen, DrainEnds, redisVars, taskVars
<1>5. ASSUME NEW l \in Listeners, NEW s \in Slots, NEW e \in Events, NEW drained \in BOOLEAN,
             ProcessMessage(s, l, e, drained)
      PROVE  HeldEvents \subseteq HeldEvents' /\ (drained => e \in HeldEvents')
  <2> DEFINE full == active[Owner[l]] >= Concurrency
             t == [stage |-> IF full THEN "full" ELSE "hget", ev |-> e,
                   lis |-> l, drained |-> drained, att |-> 0]
  <2>1. task' = [task EXCEPT ![s] = t] /\ ~Holds(s)
    BY <1>5 DEF ProcessMessage, Holds, Free, CountedStages
  <2>2. t.stage \in CountedStages \cup {"full"} /\ t.drained = drained /\ t.ev = e
    BY DEF CountedStages
  <2> HIDE DEF t, full
  <2> QED BY <2>1, <2>2, HeldChange
<1>6. ASSUME NEW l \in Listeners, NEW s \in Slots, Receive(s, l) PROVE KeepsEvents
  <2>1. inbox[l] \in Seq(Events) /\ inbox[l] # <<>>
    BY <1>6 DEF Receive, RedisTypeOK
  <2>2. Head(inbox[l]) \in Events
    BY <2>1, TailElements
  <2>3. HeldEvents \subseteq HeldEvents'
    BY <1>5, <1>6, <2>2 DEF Receive
  <2> QED BY <1>1, <1>6, <2>3 DEF Receive, history
<1>7. ASSUME NEW l \in Listeners, NEW s \in Slots, DrainPop(s, l) PROVE KeepsEvents
  <2>1. /\ Last(list) \in Events
        /\ ToSet(list) = ToSet(Front(list)) \cup {Last(list)}
    BY <1>7, FrontElements DEF DrainPop, RedisTypeOK
  <2>2. HeldEvents \subseteq HeldEvents' /\ Last(list) \in HeldEvents'
    BY <1>5, <1>7, <2>1 DEF DrainPop
  <2>3. list' = Front(list)
    BY <1>7 DEF DrainPop, SetList
  <2> QED BY <1>1, <1>7, <2>1, <2>2, <2>3 DEF DrainPop, history
<1>8. ASSUME NEW s \in Slots, PushBack(s) PROVE KeepsEvents
  <2>1. task[s].ev \in Events
    BY <1>8, StageNotFree, CallTypes DEF PushBack
  <2>2. ToSet(list') = ToSet(list) \cup {task[s].ev}
    BY <1>8, <2>1, LPushElements DEF PushBack
  <2>3. HeldEvents \ {task[s].ev} \subseteq HeldEvents'
    BY <1>8, HeldChange DEF PushBack
  <2> QED BY <1>1, <1>8, <2>2, <2>3 DEF PushBack, history
<1>9. ASSUME NEW s \in Slots, GetAttempts(s) PROVE KeepsEvents
  <2>1. task[s].stage \in CountedStages
    BY <1>9 DEF GetAttempts, CountedStages
  <2> DEFINE att == attempts[task[s].ev] + 1
  <2>2. HeldEvents \subseteq HeldEvents' \cup lost' /\ lost \subseteq lost'
    <3>1. CASE Dispatch(s, att)
      BY <2>1, <3>1, DispatchHeld
    <3>2. CASE task' = [task EXCEPT ![s].stage = "hset", ![s].att = att] /\ lost' = lost
      <4> DEFINE t == [task[s] EXCEPT !.stage = "hset", !.att = att]
      <4>1. task[s] \in TaskType
        BY <2>1, CallTypes, StageNotFree DEF CountedStages
      <4>2. /\ t.stage \in CountedStages /\ t.drained = task[s].drained
            /\ t.ev = task[s].ev /\ task' = [task EXCEPT ![s] = t]
        BY <3>2, <4>1 DEF TaskType, CountedStages
      <4> HIDE DEF t
      <4> QED BY <3>2, <4>2, HeldStays
    <3> QED BY <1>9, <3>1, <3>2 DEF GetAttempts
  <2> QED BY <1>1, <1>9, <2>2 DEF GetAttempts, redisVars
<1>10. ASSUME NEW s \in Slots, SetAttempts(s) PROVE KeepsEvents
  <2>1. HeldEvents \subseteq HeldEvents' \cup lost' /\ lost \subseteq lost'
    BY <1>10, DispatchHeld DEF SetAttempts, CountedStages
  <2> QED BY <1>1, <1>10, <2>1 DEF SetAttempts
<1>11. ASSUME NEW s \in Slots, Requeue(s) PROVE KeepsEvents
  <2>1. task[s].ev \in Events
    BY <1>11, StageNotFree, CallTypes DEF Requeue
  <2>2. ToSet(list') = ToSet(list) \cup {task[s].ev}
    BY <1>11, <2>1, LPushElements DEF Requeue
  <2>3. HeldEvents \ {task[s].ev} \subseteq HeldEvents'
    BY <1>11, ReturnHeld DEF Requeue
  <2> QED BY <1>1, <1>11, <2>2, <2>3 DEF Requeue, history
<1>12. ASSUME NEW s \in Slots, NEW h \in Handlers, HandlerSucceeds(s, h) PROVE KeepsEvents
  <2>1. HeldEvents \subseteq HeldEvents' \cup processed' /\ processed \subseteq processed'
    BY <1>12, ReturnHeld, AbandonHeld DEF HandlerSucceeds
  <2> QED BY <1>1, <1>12, <2>1 DEF HandlerSucceeds, redisVars
<1>13. ASSUME NEW s \in Slots, NEW h \in Handlers, HandlerFails(s, h) PROVE KeepsEvents
  <2>1. task[s].stage \in Dispatched
    BY <1>13 DEF HandlerFails, CallsInv
  <2>2. CASE UNCHANGED <<task, lost>>
    BY <1>1, <1>13, <2>2, HeldUntouched DEF HandlerFails, redisVars
  <2>3. CASE Reject(s, running[s] \ {h}, failing[s], FALSE)
    <3>1. /\ HeldEvents \subseteq HeldEvents' \cup DeadEvents(dlq') \cup lost'
          /\ lost \subseteq lost'
      BY <2>1, <2>3, RejectHeld
    <3> QED BY <1>1, <1>13, <3>1 DEF HandlerFails, redisVars
  <2> QED BY <1>13, <2>2, <2>3 DEF HandlerFails
<1>14. ASSUME NEW s \in Slots, NEW h \in Handlers, PushToDLQ(s, h) PROVE KeepsEvents
  <2>1. task[s].stage \in Dispatched
    BY <1>14 DEF PushToDLQ, CallsInv
  <2>2. task[s].ev \in Events /\ task[s].att \in Nat
    BY <2>1, StageNotFree, CallTypes DEF Dispatched
  <2> DEFINE d == [ev |-> task[s].ev, att |-> task[s].att]
  <2>3. d \in DlqEntry /\ dlq' = Cons(d, dlq) /\ dlq \in Seq(DlqEntry)
    BY <1>14, <2>2 DEF PushToDLQ, DlqEntry, RedisTypeOK
  <2>4. dlq' \in Seq(DlqEntry) /\ ToSet(dlq') = ToSet(dlq) \cup {d}
    <3> HIDE DEF d
    <3> QED BY ZenonT(40), <2>3, ConsElements
  <2>5. /\ DeadEvents(dlq) = {x.ev : x \in ToSet(dlq)}
        /\ DeadEvents(dlq') = {x.ev : x \in ToSet(dlq')}
    BY <2>3, <2>4, DeadEventsOf
  <2>6. DeadEvents(dlq) \subseteq DeadEvents(dlq') /\ task[s].ev \in DeadEvents(dlq')
    BY <2>4, <2>5
  <2>7. /\ HeldEvents \subseteq HeldEvents' \cup DeadEvents(dlq') \cup lost'
        /\ lost \subseteq lost'
    BY <1>14, <2>1, <2>6, RejectHeld DEF PushToDLQ
  <2> QED BY <1>1, <1>14, <2>6, <2>7 DEF PushToDLQ
<1>15. ASSUME NEW s \in Slots, NEW h \in Handlers, PushToDLQFails(s, h) PROVE KeepsEvents
  <2>1. task[s].stage \in Dispatched
    BY <1>15 DEF PushToDLQFails, CallsInv
  <2>2. /\ HeldEvents \subseteq HeldEvents' \cup DeadEvents(dlq') \cup lost'
        /\ lost \subseteq lost'
    BY <1>15, <2>1, RejectHeld DEF PushToDLQFails
  <2> QED BY <1>1, <1>15, <2>2 DEF PushToDLQFails, redisVars
<1>16. ASSUME NEW p \in Procs, Crash(p) PROVE KeepsEvents
  <2> DEFINE gone == {s \in Slots : task[s] # Free /\ TaskProc(s) = p}
  <2>1. /\ task' = [s \in Slots |-> IF s \in gone THEN Free ELSE task[s]]
        /\ lost' = lost \cup {task[s].ev : s \in {r \in gone : Holds(r)}}
    BY <1>16 DEF Crash
  <2> HIDE DEF gone
  <2>2. \A s \in Slots : s \notin gone => task'[s] = task[s]
    BY <2>1
  <2>3. HeldEvents \subseteq HeldEvents' \cup lost'
    BY <2>1, <2>2 DEF HeldEvents, Holds
  <2> QED BY <1>1, <1>16, <2>1, <2>3 DEF Crash
<1> QED BY <1>3, <1>4, <1>6, <1>7, <1>8, <1>9, <1>10, <1>11, <1>12, <1>13, <1>14,
           <1>15, <1>16
        DEF SubscriberNext, ListenerStep, SlotStep, HandlerStep

(* No step of the channel makes a pushed event disappear.                   *)
LEMMA NoSilentLossStep ==
    ASSUME PublisherAssumption, SubscriberAssumption, TypeInv, NoSilentLoss, [Next]_vars
    PROVE  NoSilentLoss'
<1>1. RedisTypeOK /\ CallsInv /\ DeadLetterInv
  BY SubscriberParts DEF TypeInv
<1>2. CASE UNCHANGED vars
  BY <1>2 DEF vars, redisVars, history, subVars, taskVars, admVars, NoSilentLoss, Stored, Holds
<1>3. CASE Next
  <2>1. KeepsEvents
    BY <1>1, <1>3, RedisKeeps, PublisherKeeps, SubscriberKeeps, DeadLetterKeeps DEF Next
  <2>2. pushed \subseteq Somewhere
    BY NoSilentLossAsSet
  <2>3. pushed' \subseteq Somewhere'
    BY <2>1, <2>2 DEF KeepsEvents
  <2> QED BY <2>3, NoSilentLossAsSetNext
<1> QED BY <1>2, <1>3

(* An event that was LPUSHed is on the list, held by a drain loop, on the   *)
(* DLQ or in a replay until it has been processed, or a copy of it has been *)
(* destroyed by one of the paths that destroy copies.                       *)
THEOREM NothingLostSilently == Spec => []NoSilentLoss
<1>1. PublisherAssumption /\ SubscriberAssumption
  BY PublisherConstants, SubscriberConstants
<1>2. Init => NoSilentLoss
  BY DEF Init, RedisInit, NoSilentLoss
<1>3. TypeInv /\ NoSilentLoss /\ [Next]_vars => NoSilentLoss'
  BY <1>1, NoSilentLossStep
<1> QED BY <1>2, <1>3, TypeInvariant, PTL DEF Spec
-----------------------------------------------------------------------------
(***************************************************************************)
(* Part 3: DrainHoldsOne.  It is inductive once it says which call a        *)
(* waiting loop waits for, and that a loop runs only after its listener is  *)
(* connected, which happens once.                                           *)
(***************************************************************************)
HeldBy(l) == {s \in Slots : Holds(s) /\ task[s].lis = l}

DrainConnected ==
    /\ connecting \cap connected = {}
    /\ \A l \in Listeners : drain[l] # "off" => l \in connected

DrainCalls ==
    \A l \in Listeners :
        /\ drain[l] = "wait" => \E s \in Slots : HeldBy(l) = {s}
        /\ drain[l] # "wait" => HeldBy(l) = {}

DrainInv == DrainConnected /\ DrainCalls

(* What the rest of a call does to the calls and to the drain loops: it     *)
(* goes on for the same message, or it returns to the loop that awaits it.  *)
CallMoves(s) ==
    /\ task[s] # Free
    /\ \A r \in Slots \ {s} : task'[r] = task[r]
    /\ \/ task'[s] = Free
       \/ /\ task'[s] # Free
          /\ task'[s].ev = task[s].ev /\ task'[s].lis = task[s].lis
          /\ task'[s].drained = task[s].drained
    /\ \/ Holds(s)' = Holds(s) /\ drain' = drain
       \/ /\ ~Holds(s)' /\ task[s].stage \in CountedStages \cup {"full"}
          /\ ResumeDrain(s)

(* The finally block, a dispatch, a handler that has been left behind and   *)
(* one that rejects move the call.                                          *)
LEMMA ReturnMoves ==
    ASSUME CallsInv, NEW s \in Slots, task[s].stage \in CountedStages,
           NEW rest, NEW dying, Return(s, rest, dying)
    PROVE  CallMoves(s)
<1> DEFINE t == IF rest \cup dying = {} THEN Free ELSE [task[s] EXCEPT !.stage = "settled"]
<1>1. task[s] # Free /\ task[s] \in TaskType
  BY StageNotFree, CallTypes DEF CountedStages
<1>2. task' = [task EXCEPT ![s] = t] /\ ResumeDrain(s)
  BY DEF Return
<1>3. t = Free \/ (t # Free /\ t.ev = task[s].ev /\ t.lis = task[s].lis /\ t.drained = task[s].drained)
  BY <1>1 DEF TaskType, Free
<1>4. t.stage \notin CountedStages \cup {"full"}
  BY <1>1 DEF TaskType, Free, CountedStages
<1> HIDE DEF t
<1> QED BY <1>1, <1>2, <1>3, <1>4 DEF CallMoves, CallsInv, Holds

(* Setting the stage and the attempt of a call within the counted stages.   *)
LEMMA StageMoves ==
    ASSUME CallsInv, NEW s \in Slots, task[s].stage \in CountedStages,
           NEW t, task' = [task EXCEPT ![s] = t], t.stage \in CountedStages,
           t.ev = task[s].ev, t.lis = task[s].lis, t.drained = task[s].drained,
           drain' = drain
    PROVE  CallMoves(s)
<1>1. task[s] # Free /\ t # Free
  BY DEF Free, CountedStages
<1> QED BY <1>1 DEF CallMoves, CallsInv, Holds

(* Taking up a message starts the handler, or the call returns.             *)
LEMMA DispatchMoves ==
    ASSUME CallsInv, NEW s \in Slots, task[s].stage \in CountedStages,
           NEW att, Dispatch(s, att)
    PROVE  CallMoves(s)
<1>1. CASE Return(s, {}, {})
  BY <1>1, ReturnMoves
<1>2. CASE task' = [task EXCEPT ![s].stage = "run", ![s].att = att] /\ drain' = drain
  <2> DEFINE t == [task[s] EXCEPT !.stage = "run", !.att = att]
  <2>1. task[s] \in TaskType
    BY CallTypes, StageNotFree DEF CountedStages
  <2>2. /\ t.stage \in CountedStages /\ t.lis = task[s].lis /\ t.ev = task[s].ev
        /\ t.drained = task[s].drained /\ task' = [task EXCEPT ![s] = t]
    BY <1>2, <2>1 DEF TaskType, CountedStages
  <2> HIDE DEF t
  <2> QED BY <1>2, <2>2, StageMoves
<1> QED BY <1>1, <1>2 DEF Dispatch

(* A call that abandons its message ends, or waits for what it started.     *)
LEMMA AbandonMoves ==
    ASSUME CallsInv, NEW s \in Slots, task[s].stage \in Dispatched,
           NEW rest, NEW dying, Abandon(s, rest, dying)
    PROVE  CallMoves(s)
<1>1. task[s] # Free /\ drain' = drain
  BY DEF Dispatched, Free, Abandon
<1>2. CASE task' = [task EXCEPT ![s] = Free] /\ task[s].stage = "settled"
  BY <1>1, <1>2 DEF CallMoves, CallsInv, Holds, Free, CountedStages
<1>3. CASE task' = task
  BY <1>1, <1>3 DEF CallMoves, Holds
<1> QED BY <1>2, <1>3 DEF Abandon, CallsInv

(* A call whose handler failed re-queues its message, buries it, or returns.*)
LEMMA RejectMoves ==
    ASSUME CallsInv, NEW s \in Slots, task[s].stage \in Dispatched,
           NEW rest, NEW dying, NEW dead, Reject(s, rest, dying, dead)
    PROVE  CallMoves(s)
<1>1. CASE task[s].stage = "run" /\ Return(s, rest, dying)
  BY <1>1, ReturnMoves DEF CountedStages
<1>2. CASE /\ task[s].stage = "run" /\ drain' = drain
           /\ task' = [task EXCEPT ![s].stage = "requeue"]
  <2> DEFINE t == [task[s] EXCEPT !.stage = "requeue"]
  <2>1. task[s] \in TaskType /\ task[s].stage \in CountedStages
    BY <1>2, CallTypes, StageNotFree DEF CountedStages
  <2>2. /\ t.stage \in CountedStages /\ t.lis = task[s].lis /\ t.ev = task[s].ev
        /\ t.drained = task[s].drained /\ task' = [task EXCEPT ![s] = t]
    BY <1>2, <2>1 DEF TaskType, CountedStages
  <2> HIDE DEF t
  <2> QED BY <1>2, <2>1, <2>2, StageMoves
<1>3. CASE Abandon(s, rest, dying)
  BY <1>3, AbandonMoves
<1> QED BY <1>1, <1>2, <1>3 DEF Reject

(* Every step of a call moves it.                                           *)
LEMMA SlotMoves ==
    ASSUME CallsInv, NEW s \in Slots,
           \/ SlotStep(s)
           \/ \E h \in Handlers : HandlerFails(s, h) \/ PushToDLQFails(s, h)
    PROVE  CallMoves(s)
<1>1. CASE PushBack(s)
  BY <1>1 DEF PushBack, CallMoves, CallsInv, Holds, Free, CountedStages
<1>2. CASE GetAttempts(s)
  <2>1. task[s].stage \in CountedStages
    BY <1>2 DEF GetAttempts, CountedStages
  <2> DEFINE att == attempts[task[s].ev] + 1
  <2>2. CASE Dispatch(s, att)
    BY <2>1, <2>2, DispatchMoves
  <2>3. CASE task' = [task EXCEPT ![s].stage = "hset", ![s].att = att] /\ drain' = drain
    <3> DEFINE t == [task[s] EXCEPT !.stage = "hset", !.att = att]
    <3>1. task[s] \in TaskType
      BY <2>1, CallTypes, StageNotFree DEF CountedStages
    <3>2. /\ t.stage \in CountedStages /\ t.lis = task[s].lis /\ t.ev = task[s].ev
          /\ t.drained = task[s].drained /\ task' = [task EXCEPT ![s] = t]
      BY <2>3, <3>1 DEF TaskType, CountedStages
    <3> HIDE DEF t
    <3> QED BY <2>1, <2>3, <3>2, StageMoves
  <2> QED BY <1>2, <2>2, <2>3 DEF GetAttempts
<1>3. CASE SetAttempts(s)
  BY <1>3, DispatchMoves DEF SetAttempts, CountedStages
<1>4. CASE Requeue(s)
  BY <1>4, ReturnMoves DEF Requeue, CountedStages
<1>5. ASSUME NEW h \in Handlers, HandlerSucceeds(s, h) PROVE CallMoves(s)
  <2>1. task[s].stage \in Dispatched
    BY <1>5 DEF HandlerSucceeds, CallsInv
  <2> QED BY <1>5, <2>1, ReturnMoves, AbandonMoves DEF HandlerSucceeds, CountedStages
<1>6. ASSUME NEW h \in Handlers, HandlerFails(s, h) PROVE CallMoves(s)
  <2>1. task[s].stage \in Dispatched
    BY <1>6 DEF HandlerFails, CallsInv
  <2>2. CASE UNCHANGED <<task, drain>>
    BY <2>1, <2>2 DEF CallMoves, Holds, Dispatched, Free
  <2>3. CASE Reject(s, running[s] \ {h}, failing[s], FALSE)
    BY <2>1, <2>3, RejectMoves
  <2> QED BY <1>6, <2>2, <2>3 DEF HandlerFails
<1>7. ASSUME NEW h \in Handlers, PushToDLQ(s, h) \/ PushToDLQFails(s, h) PROVE CallMoves(s)
  <2>1. task[s].stage \in Dispatched
    BY <1>7 DEF PushToDLQ, PushToDLQFails, CallsInv
  <2>2. \E dead \in BOOLEAN : Reject(s, running[s], failing[s] \ {h}, dead)
    BY <1>7 DEF PushToDLQ, PushToDLQFails
  <2> QED BY <2>1, <2>2, RejectMoves
<1> QED BY <1>1, <1>2, <1>3, <1>4, <1>5, <1>6, <1>7 DEF SlotStep, HandlerStep

-----------------------------------------------------------------------------
(* A step that moves one call keeps the drain loops and their calls in step.*)
LEMMA CallMovesDrain ==
    ASSUME CallsInv, DrainInv, NEW s \in Slots, CallMoves(s), UNCHANGED <<connecting, connected>>
    PROVE  DrainInv'
<1>1. task[s].lis \in Listeners
  BY CallTypes DEF CallMoves
<1>2. CASE Holds(s)' = Holds(s) /\ drain' = drain
  <2>1. \A l \in Listeners : HeldBy(l)' = HeldBy(l)
    BY <1>2 DEF HeldBy, CallMoves, Holds, Free, CountedStages
  <2> QED BY <1>2, <2>1 DEF DrainInv, DrainConnected, DrainCalls
<1>3. CASE /\ ~Holds(s)' /\ task[s].stage \in CountedStages \cup {"full"}
           /\ ResumeDrain(s)
  <2>1. \A l \in Listeners : HeldBy(l)' = HeldBy(l) \ {s}
    BY <1>3 DEF HeldBy, CallMoves, Holds
  <2>2. CASE task[s].drained
    <3>1. s \in HeldBy(task[s].lis)
      BY <1>3, <2>2 DEF HeldBy, Holds
    <3>2. drain[task[s].lis] = "wait" /\ HeldBy(task[s].lis) = {s}
      BY <1>1, <3>1 DEF DrainInv, DrainCalls
    <3>4. drain' = [drain EXCEPT ![task[s].lis] = "pop"]
      BY <1>3, <2>2 DEF ResumeDrain
    <3>5. DrainCalls'
      <4> SUFFICES ASSUME NEW l \in Listeners
                   PROVE  /\ drain'[l] = "wait" => \E r \in Slots : HeldBy(l)' = {r}
                          /\ drain'[l] # "wait" => HeldBy(l)' = {}
        BY DEF DrainCalls
      <4>1. CASE l = task[s].lis
        <5>1. HeldBy(l) = {s}
          BY <3>2, <4>1 DEF HeldBy
        <5>2. HeldBy(l)' = {}
          BY <2>1, <5>1
        <5>3. drain'[l] = "pop"
          BY <1>1, <3>4, <4>1 DEF CallsInv
        <5> QED BY <5>2, <5>3
      <4>2. CASE l # task[s].lis
        <5>1. s \notin HeldBy(l)
          BY <4>2 DEF HeldBy
        <5>2. HeldBy(l)' = HeldBy(l)
          BY <2>1, <5>1
        <5>3. drain'[l] = drain[l]
          BY <1>1, <3>4, <4>2 DEF CallsInv
        <5> QED BY <5>2, <5>3 DEF DrainInv, DrainCalls
      <4> QED BY <4>1, <4>2
    <3>6. DrainConnected'
      BY <1>1, <3>2, <3>4 DEF DrainInv, DrainConnected, CallsInv
    <3> QED BY <3>5, <3>6 DEF DrainInv
  <2>3. CASE ~task[s].drained
    <3>1. drain' = drain
      BY <1>3, <2>3 DEF ResumeDrain
    <3>2. \A l \in Listeners : s \notin HeldBy(l)
      BY <2>3 DEF HeldBy, Holds
    <3>3. \A l \in Listeners : HeldBy(l)' = HeldBy(l)
      BY <2>1, <3>2
    <3> QED BY <3>1, <3>3 DEF DrainInv, DrainConnected, DrainCalls
  <2> QED BY <2>2, <2>3
<1> QED BY <1>2, <1>3 DEF CallMoves

(* Every step of the queue keeps a drain loop and its call together.        *)
LEMMA DrainInvStep ==
    ASSUME SubscriberAssumption, TypeInv, DrainInv, [Next]_vars
    PROVE  DrainInv'
<1>1. CallsInv /\ RestInv /\ RedisTypeOK
  BY SubscriberParts DEF TypeInv
<1>2. ASSUME UNCHANGED <<task, drain, connecting, connected>> PROVE DrainInv'
  BY <1>2 DEF DrainInv, DrainConnected, DrainCalls, HeldBy, Holds
<1>3. CASE RedisNext /\ UNCHANGED <<pub, subVars, admVars>>
  <2>1. UNCHANGED connected
    BY <1>3 DEF RedisNext, DedupeKeyExpires, ListExpires, ConnectionDrops
  <2> QED BY <1>2, <1>3, <2>1 DEF subVars, lisVars, taskVars
<1>4. CASE PublisherNext /\ UNCHANGED <<subVars, admVars>>
  <2>1. UNCHANGED connected
    BY <1>4 DEF PublisherNext, PublishStep, CheckDedupe, SetDedupe, Push, Trim, Notify, Expire,
               BulkPush, BulkNotify, PublishFails, BulkStart, BulkFails, BulkFinish, redisVars
  <2> QED BY <1>2, <1>4, <2>1 DEF subVars, lisVars, taskVars
<1>5. CASE DeadLetterNext /\ UNCHANGED <<pub, subVars>>
  <2>1. UNCHANGED connected
    BY <1>5 DEF DeadLetterNext, ReplayStart, ReplayStep, ReplayPop, ReplayEmpty, ReplayExec,
               ReplayDies, RemoveScan, RemoveDelete, Purge, DrainQueue, redisVars
  <2> QED BY <1>2, <1>5, <2>1 DEF subVars, lisVars, taskVars
<1>6. CASE UNCHANGED vars
  BY <1>2, <1>6 DEF vars, redisVars, subVars, lisVars, taskVars
<1>7. ASSUME NEW p \in Procs, NEW h \in Handlers, Unsubscribe(p, h) PROVE DrainInv'
  BY <1>2, <1>7 DEF Unsubscribe, redisVars, lisVars, taskVars
<1>8. ASSUME NEW p \in Procs, NEW h \in Handlers, NEW a \in AckModes, Subscribe(p, h, a)
      PROVE  DrainInv'
  <2>1. UNCHANGED <<task, drain, connected>>
    BY <1>8 DEF Subscribe, redisVars, taskVars
  <2>2. DrainCalls'
    BY <2>1 DEF DrainInv, DrainCalls, HeldBy, Holds
  <2>3. DrainConnected'
    BY <1>8, <2>1 DEF Subscribe, DrainInv, DrainConnected
  <2> QED BY <2>2, <2>3 DEF DrainInv
<1>9. ASSUME NEW l \in Listeners, Listen(l) PROVE DrainInv'
  <2>1. /\ UNCHANGED task /\ drain' = [drain EXCEPT ![l] = "pop"]
        /\ connecting' = connecting \ {l} /\ connected' = connected \cup {l}
    BY <1>9 DEF Listen, taskVars
  <2>2. drain[l] = "off"
    BY <1>1, <1>9 DEF Listen, DrainInv, DrainConnected, CallsInv
  <2>3. \A k \in Listeners : HeldBy(k)' = HeldBy(k)
    BY <2>1 DEF HeldBy, Holds
  <2>4. DrainCalls'
    BY <1>1, <2>1, <2>2, <2>3 DEF DrainInv, DrainCalls, CallsInv
  <2>5. DrainConnected'
    BY <1>1, <2>1 DEF DrainInv, DrainConnected, CallsInv
  <2> QED BY <2>4, <2>5 DEF DrainInv
<1>10. ASSUME NEW l \in Listeners, DrainEnds(l) PROVE DrainInv'
  <2>1. /\ UNCHANGED <<task, connecting, connected>> /\ drain' = [drain EXCEPT ![l] = "off"]
        /\ drain[l] = "pop"
    BY <1>10 DEF DrainEnds, redisVars, taskVars
  <2>2. \A k \in Listeners : HeldBy(k)' = HeldBy(k)
    BY <2>1 DEF HeldBy, Holds
  <2> QED BY <1>1, <2>1, <2>2 DEF DrainInv, DrainCalls, DrainConnected, CallsInv
<1>11. ASSUME NEW l \in Listeners, NEW s \in Slots, NEW e, NEW drained \in BOOLEAN,
              ProcessMessage(s, l, e, drained)
       PROVE  \A k \in Listeners : HeldBy(k)' = IF drained /\ k = l THEN HeldBy(k) \cup {s} ELSE HeldBy(k)
  <2> DEFINE t == [stage |-> IF active[Owner[l]] >= Concurrency THEN "full" ELSE "hget", ev |-> e,
                   lis |-> l, drained |-> drained, att |-> 0]
  <2>1. task' = [task EXCEPT ![s] = t] /\ ~Holds(s)
    BY <1>11 DEF ProcessMessage, Holds, Free, CountedStages
  <2>2. t.stage \in CountedStages \cup {"full"} /\ t.drained = drained /\ t.lis = l
    BY DEF CountedStages
  <2> HIDE DEF t
  <2> QED BY <1>1, <2>1, <2>2 DEF HeldBy, Holds, CallsInv
<1>12. ASSUME NEW l \in Listeners, NEW s \in Slots, Receive(s, l) PROVE DrainInv'
  <2>1. UNCHANGED <<drain, connecting, connected>> /\ ProcessMessage(s, l, Head(inbox[l]), FALSE)
    BY <1>12 DEF Receive, lisVars
  <2>2. \A k \in Listeners : HeldBy(k)' = HeldBy(k)
    BY <1>11, <2>1
  <2> QED BY <2>1, <2>2 DEF DrainInv, DrainCalls, DrainConnected
<1>13. ASSUME NEW l \in Listeners, NEW s \in Slots, DrainPop(s, l) PROVE DrainInv'
  <2>1. /\ UNCHANGED <<connecting, connected>> /\ ProcessMessage(s, l, Last(list), TRUE)
        /\ drain[l] = "pop" /\ drain' = [drain EXCEPT ![l] = "wait"]
    BY <1>13 DEF DrainPop
  <2>2. \A k \in Listeners : HeldBy(k)' = IF k = l THEN HeldBy(k) \cup {s} ELSE HeldBy(k)
    BY <1>11, <2>1
  <2>3. HeldBy(l)' = {s}
    BY <2>1, <2>2 DEF DrainInv, DrainCalls
  <2> QED BY <1>1, <2>1, <2>2, <2>3 DEF DrainInv, DrainCalls, DrainConnected, CallsInv
<1>14. ASSUME NEW s \in Slots,
              \/ SlotStep(s)
              \/ \E h \in Handlers : HandlerFails(s, h) \/ PushToDLQFails(s, h)
       PROVE  DrainInv'
  <2>1. UNCHANGED <<connecting, connected>>
    BY <1>14 DEF SlotStep, HandlerStep, PushBack, GetAttempts, SetAttempts, Requeue, HandlerSucceeds,
                 PushToDLQ, HandlerFails, PushToDLQFails, redisVars
  <2> QED BY <1>1, <1>14, <2>1, SlotMoves, CallMovesDrain
<1>15. ASSUME NEW p \in Procs, Crash(p) PROVE DrainInv'
  <2> DEFINE mine == {l \in Listeners : Owner[l] = p}
             gone == {s \in Slots : task[s] # Free /\ TaskProc(s) = p}
  <2>1. /\ connecting' = connecting \ mine /\ connected' = connected \ mine
        /\ drain' = [l \in Listeners |-> IF l \in mine THEN "off" ELSE drain[l]]
        /\ task' = [s \in Slots |-> IF s \in gone THEN Free ELSE task[s]]
    BY <1>15 DEF Crash
  <2>2. DrainConnected'
    <3> HIDE DEF mine, gone
    <3> QED BY <2>1 DEF DrainInv, DrainConnected
  <2>3. ASSUME NEW l \in mine PROVE HeldBy(l)' = {}
    BY <2>1, <2>3 DEF HeldBy, Holds, Free, CountedStages, TaskProc
  <2>4. ASSUME NEW l \in Listeners \ mine PROVE HeldBy(l)' = HeldBy(l)
    BY <2>1, <2>4 DEF HeldBy, Holds, Free, CountedStages, TaskProc
  <2>5. DrainCalls'
    <3> HIDE DEF mine, gone
    <3> QED BY <2>1, <2>3, <2>4 DEF DrainInv, DrainCalls
  <2> QED BY <2>2, <2>5 DEF DrainInv
<1>16. CASE SubscriberNext
  BY <1>7, <1>8, <1>9, <1>10, <1>12, <1>13, <1>14, <1>15, <1>16 DEF SubscriberNext, ListenerStep
<1> QED BY <1>3, <1>4, <1>5, <1>6, <1>16 DEF Next

(* A drain loop that waits for a call has popped exactly one entry, the one *)
(* of that call; a loop that does not wait has none in hand.                *)
THEOREM DrainsHoldOne == Spec => []DrainHoldsOne
<1>1. SubscriberAssumption
  BY SubscriberConstants
<1>2. Init => DrainInv
  BY DEF Init, RedisInit, SubscriberInit, DrainInv, DrainConnected, DrainCalls, HeldBy, Holds,
         Free, CountedStages
<1>3. TypeInv /\ DrainInv /\ [Next]_vars => DrainInv'
  BY <1>1, DrainInvStep
<1>4. TypeInv /\ DrainInv => DrainHoldsOne
  <2> SUFFICES ASSUME DrainInv, NEW l \in Listeners
               PROVE  Cardinality(HeldBy(l)) = IF drain[l] = "wait" THEN 1 ELSE 0
    BY DEF DrainHoldsOne, HeldBy
  <2>1. CASE drain[l] = "wait"
    <3>1. PICK s \in Slots : HeldBy(l) = {s}
      BY <2>1 DEF DrainInv, DrainCalls
    <3> QED BY <2>1, <3>1, FS_Singleton
  <2>2. CASE drain[l] # "wait"
    BY <2>2, FS_EmptySet DEF DrainInv, DrainCalls
  <2> QED BY <2>1, <2>2
<1> QED BY <1>2, <1>3, <1>4, TypeInvariant, PTL DEF Spec

-----------------------------------------------------------------------------
(***************************************************************************)
(* Part 4: AttemptsNeverLost.  What a call is about to HSET must still be   *)
(* one more than the hash says.  This holds where there is one process, one *)
(* call at a time and no call has been forgotten; that it may be assumed    *)
(* again after a reset needs the exact accounting of part 1: a counter      *)
(* reset while nothing is forgotten is reset while nothing is under way.    *)
(***************************************************************************)
OneCall == Concurrency = 1 /\ Cardinality(Procs) = 1 /\ \A p \in Procs : orphaned[p] = 0

AttemptsFresh ==
    OneCall => \A s \in Slots : task[s].stage = "hset" => task[s].att = attempts[task[s].ev] + 1

(* There is then at most one call under way.                                *)
LEMMA OneCounted ==
    ASSUME SubscriberAssumption, CallsInv, CountInv, OneCall,
           NEW s \in Slots, task[s].stage \in CountedStages,
           NEW r \in Slots, task[r].stage \in CountedStages
    PROVE  s = r
<1>1. PICK p : Procs = {p}
  BY FS_Singleton DEF OneCall, SubscriberAssumption
<1>2. TaskProc(s) = p /\ TaskProc(r) = p
  BY <1>1, CallTypes, StageNotFree DEF TaskProc, SubscriberAssumption, CountedStages
<1>3. s \in Counted(p) /\ r \in Counted(p)
  BY <1>2 DEF Counted
<1>4. IsFiniteSet(Counted(p)) /\ Cardinality(Counted(p)) \in Nat
  BY <1>1, CountedFinite
<1>5. Cardinality(Counted(p)) <= 1
  <2>1. active[p] \in Int /\ active[p] <= 1 /\ orphaned[p] = 0
    BY <1>1 DEF CallsInv, CountInv, ActiveLimit, OneCall
  <2>2. active[p] + orphaned[p] = Cardinality(Counted(p))
    BY <1>1 DEF CountInv, ActiveAccounting
  <2> QED BY <2>1, <2>2
<1>6. Cardinality(Counted(p)) # 0
  BY <1>3, <1>4, FS_EmptySet
<1>7. Cardinality(Counted(p)) = 1
  BY <1>4, <1>5, <1>6
<1>8. PICK x : Counted(p) = {x}
  BY <1>4, <1>7, FS_Singleton
<1> QED BY <1>3, <1>8

(* No call comes to its HSET with this step.                                *)
NoNewHset == \A r \in Slots : task'[r].stage = "hset" => task'[r] = task[r]

(* Nothing but the start of a call leads to the HSET of its attempts.       *)
LEMMA CallsAwayFromHset ==
    ASSUME CallsInv, NEW s \in Slots, NEW rest, NEW dying
    PROVE  /\ task[s] # Free /\ Return(s, rest, dying) => NoNewHset
           /\ \A att : task[s] # Free /\ Dispatch(s, att) => NoNewHset
           /\ Abandon(s, rest, dying) => NoNewHset
           /\ \A dead : Reject(s, rest, dying, dead) => NoNewHset
<1>0. ASSUME NEW t, task' = [task EXCEPT ![s] = t], t.stage # "hset" \/ t = task[s] PROVE NoNewHset
  BY <1>0 DEF NoNewHset, CallsInv
<1>1. ASSUME task[s] # Free, Return(s, rest, dying) PROVE NoNewHset
  <2> DEFINE t == IF rest \cup dying = {} THEN Free ELSE [task[s] EXCEPT !.stage = "settled"]
  <2>1. t.stage # "hset"
    BY <1>1, CallTypes DEF TaskType, Free
  <2>2. task' = [task EXCEPT ![s] = t]
    BY <1>1 DEF Return
  <2> HIDE DEF t
  <2> QED BY <1>0, <2>1, <2>2
<1>2. ASSUME NEW att, task[s] # Free, Dispatch(s, att) PROVE NoNewHset
  <2>1. CASE task' = [task EXCEPT ![s].stage = "run", ![s].att = att]
    <3> DEFINE t == [task[s] EXCEPT !.stage = "run", !.att = att]
    <3>1. t.stage = "run" /\ task' = [task EXCEPT ![s] = t]
      BY <1>2, <2>1, CallTypes DEF TaskType
    <3> HIDE DEF t
    <3> QED BY <1>0, <3>1
  <2>2. CASE Return(s, {}, {})
    <3> DEFINE t == IF {} \cup {} = {} THEN Free ELSE [task[s] EXCEPT !.stage = "settled"]
    <3>1. task' = [task EXCEPT ![s] = Free]
      BY <2>2 DEF Return
    <3>2. Free.stage # "hset"
      BY DEF Free
    <3> QED BY <1>0, <3>1, <3>2
  <2> QED BY <1>2, <2>1, <2>2 DEF Dispatch
<1>3. ASSUME Abandon(s, rest, dying) PROVE NoNewHset
  <2> DEFINE t == IF task[s].stage = "settled" /\ rest \cup dying = {} THEN Free ELSE task[s]
  <2>1. t.stage # "hset" \/ t = task[s]
    BY DEF Free
  <2>2. task' = [task EXCEPT ![s] = t]
    BY <1>3 DEF Abandon
  <2> HIDE DEF t
  <2> QED BY <1>0, <2>1, <2>2
<1>4. ASSUME NEW dead, Reject(s, rest, dying, dead) PROVE NoNewHset
  <2>1. CASE task[s].stage = "run" /\ task' = [task EXCEPT ![s].stage = "requeue"]
    <3> DEFINE t == [task[s] EXCEPT !.stage = "requeue"]
    <3>1. t.stage = "requeue" /\ task' = [task EXCEPT ![s] = t]
      BY <2>1, StageNotFree, CallTypes DEF TaskType
    <3> HIDE DEF t
    <3> QED BY <1>0, <3>1
  <2>2. CASE task[s].stage = "run" /\ Return(s, rest, dying)
    BY <1>1, <2>2, StageNotFree
  <2> QED BY <1>3, <1>4, <2>1, <2>2 DEF Reject
<1> QED BY <1>1, <1>2, <1>3, <1>4

(* Every step keeps what a call is about to HSET fresh.                     *)
LEMMA AttemptsFreshStep ==
    ASSUME SubscriberAssumption, TypeInv, CountInv, AttemptsFresh, [Next]_vars
    PROVE  AttemptsFresh'
<1> SUFFICES ASSUME OneCall' 
             PROVE  \A s \in Slots : task'[s].stage = "hset" => task'[s].att = attempts'[task'[s].ev] + 1
  BY DEF AttemptsFresh
<1> DEFINE Goal == \A s \in Slots : task'[s].stage = "hset" => task'[s].att = attempts'[task'[s].ev] + 1
<1>a. CallsInv /\ RestInv /\ RedisTypeOK
  BY SubscriberParts DEF TypeInv
<1>b. UNCHANGED orphaned => OneCall
  BY DEF OneCall
<1>c. ASSUME UNCHANGED <<attempts, orphaned>>, NoNewHset PROVE Goal
  BY <1>b, <1>c DEF AttemptsFresh, NoNewHset
<1>d. UNCHANGED task => NoNewHset
  BY DEF NoNewHset
<1>e. UNCHANGED subVars => UNCHANGED <<orphaned, task>>
  BY DEF subVars, procVars, taskVars
<1>1. CASE RedisNext /\ UNCHANGED <<pub, subVars, admVars>>
  <2>1. UNCHANGED attempts
    BY <1>1 DEF RedisNext, DedupeKeyExpires, ListExpires, ConnectionDrops
  <2> QED BY <1>1, <1>c, <1>d, <1>e, <2>1
<1>2. CASE PublisherNext /\ UNCHANGED <<subVars, admVars>>
  <2>1. UNCHANGED attempts
    BY <1>2 DEF PublisherNext, PublishStep, CheckDedupe, SetDedupe, Push, Trim, Notify, Expire,
               BulkPush, BulkNotify, PublishFails, BulkStart, BulkFails, BulkFinish, redisVars
  <2> QED BY <1>2, <1>c, <1>d, <1>e, <2>1
<1>3. CASE DeadLetterNext /\ UNCHANGED <<pub, subVars>>
  <2>1. UNCHANGED attempts
    BY <1>3 DEF DeadLetterNext, ReplayStart, ReplayStep, ReplayPop, ReplayEmpty, ReplayExec,
               ReplayDies, RemoveScan, RemoveDelete, Purge, DrainQueue, redisVars
  <2> QED BY <1>3, <1>c, <1>d, <1>e, <2>1
<1>4. CASE UNCHANGED vars
  BY <1>4, <1>c, <1>d, <1>e DEF vars, redisVars
<1>5. ASSUME NEW p \in Procs, NEW h \in Handlers, NEW a \in AckModes, Subscribe(p, h, a) PROVE Goal
  <2>1. UNCHANGED <<attempts, task>>
    BY <1>5 DEF Subscribe, redisVars, taskVars
  <2>2. CASE handlers[p] # {}
    <3>1. UNCHANGED orphaned
      BY <1>a, <1>5, <2>2 DEF Subscribe, CallsInv
    <3> QED BY <1>c, <1>d, <2>1, <3>1
  <2>3. CASE handlers[p] = {}
    <3>1. orphaned'[p] = orphaned[p] + active[p] /\ orphaned'[p] = 0
      BY <1>a, <1>5, <2>3 DEF Subscribe, CallsInv, OneCall
    <3>2. Cardinality(Counted(p)) = 0 /\ IsFiniteSet(Counted(p))
      <4>1. active[p] \in Int /\ orphaned[p] \in Int
            /\ active[p] + orphaned[p] = Cardinality(Counted(p))
        BY <1>a DEF CallsInv, CountInv, ActiveAccounting
      <4> QED BY <3>1, <4>1, CountedFinite
    <3>3. Counted(p) = {}
      BY <3>2, FS_EmptySet
    <3>4. Procs = {p}
      <4>1. PICK x : Procs = {x}
        BY FS_Singleton DEF OneCall, SubscriberAssumption
      <4> QED BY <4>1
    <3>5. \A s \in Slots : task[s].stage = "hset" => s \in Counted(p)
      BY <1>a, <3>4, CallTypes, StageNotFree DEF Counted, CountedStages, TaskProc, SubscriberAssumption
    <3> QED BY <2>1, <3>3, <3>5
  <2> QED BY <2>2, <2>3
<1>6. ASSUME NEW p \in Procs, NEW h \in Handlers, Unsubscribe(p, h) PROVE Goal
  BY <1>6, <1>c, <1>d DEF Unsubscribe, redisVars, taskVars
<1>7. ASSUME NEW l \in Listeners, Listen(l) \/ DrainEnds(l) PROVE Goal
  BY <1>7, <1>c, <1>d DEF Listen, DrainEnds, redisVars, procVars, taskVars
<1>8. ASSUME NEW l \in Listeners, NEW s \in Slots, Receive(s, l) \/ DrainPop(s, l) PROVE Goal
  <2>1. \E e, drained : ProcessMessage(s, l, e, drained)
    BY <1>8 DEF Receive, DrainPop
  <2>2. NoNewHset /\ UNCHANGED orphaned
    BY <1>a, <2>1 DEF ProcessMessage, NoNewHset, CallsInv
  <2> QED BY <1>8, <1>c, <2>2 DEF Receive, DrainPop
<1>9. ASSUME NEW s \in Slots, PushBack(s) PROVE Goal
  <2>1. NoNewHset
    BY <1>a, <1>9 DEF PushBack, NoNewHset, CallsInv, Free
  <2> QED BY <1>9, <1>c, <2>1 DEF PushBack, procVars
<1>10. ASSUME NEW s \in Slots, GetAttempts(s) PROVE Goal
  <2>1. task[s] # Free /\ UNCHANGED <<attempts, orphaned>>
    BY <1>10, StageNotFree DEF GetAttempts, redisVars, Dispatch, Return, procVars
  <2> DEFINE att == attempts[task[s].ev] + 1
  <2>2. CASE Dispatch(s, att)
    BY <1>a, <1>c, <2>1, <2>2, CallsAwayFromHset
  <2>3. CASE task' = [task EXCEPT ![s].stage = "hset", ![s].att = att]
    <3>1. task'[s].att = attempts[task'[s].ev] + 1 /\ \A r \in Slots \ {s} : task'[r] = task[r]
      BY <1>a, <2>1, <2>3, CallTypes DEF CallsInv, TaskType
    <3> QED BY <1>b, <2>1, <3>1 DEF AttemptsFresh
  <2> QED BY <1>10, <2>2, <2>3 DEF GetAttempts
<1>11. ASSUME NEW s \in Slots, SetAttempts(s) PROVE Goal
  <2>1. task[s].stage = "hset" /\ task[s] # Free /\ UNCHANGED orphaned /\ Dispatch(s, task[s].att)
    BY <1>11, StageNotFree DEF SetAttempts, Dispatch, Return, procVars
  <2>2. NoNewHset
    BY <1>a, <2>1, CallsAwayFromHset
  <2>3. task'[s].stage # "hset"
    BY <1>a, <2>1, CallTypes DEF Dispatch, Return, CallsInv, Free, TaskType
  <2>4. \A r \in Slots \ {s} : task[r].stage # "hset"
    BY <1>a, <1>b, <2>1, OneCounted DEF CountedStages
  <2> QED BY <2>2, <2>3, <2>4 DEF NoNewHset
<1>12. ASSUME NEW s \in Slots, Requeue(s) PROVE Goal
  <2>1. task[s] # Free
    BY <1>12, StageNotFree DEF Requeue
  <2>2. NoNewHset
    BY <1>a, <1>12, <2>1, CallsAwayFromHset DEF Requeue
  <2> QED BY <1>12, <1>c, <2>2 DEF Requeue, Return
<1>13. ASSUME NEW s \in Slots, NEW h \in Handlers,
              HandlerSucceeds(s, h) \/ HandlerFails(s, h) \/ PushToDLQ(s, h) \/ PushToDLQFails(s, h)
       PROVE  Goal
  <2>1. task[s] # Free
    BY <1>a, <1>13, StageNotFree
       DEF HandlerSucceeds, HandlerFails, PushToDLQ, PushToDLQFails, CallsInv, Dispatched
  <2>2. NoNewHset
    BY <1>a, <1>13, <1>d, <2>1, CallsAwayFromHset DEF HandlerSucceeds, HandlerFails, PushToDLQ, PushToDLQFails
  <2>3. UNCHANGED <<attempts, orphaned>>
    BY <1>13 DEF HandlerSucceeds, HandlerFails, PushToDLQ, PushToDLQFails, redisVars, procVars, Return,
                 Abandon, Reject
  <2> QED BY <1>c, <2>2, <2>3
<1>14. ASSUME NEW p \in Procs, Crash(p) PROVE Goal
  <2>1. Procs = {p}
    <3>1. PICK x : Procs = {x}
      BY FS_Singleton DEF OneCall, SubscriberAssumption
    <3> QED BY <3>1
  <2>2. \A s \in Slots : task[s] # Free => TaskProc(s) = p
    BY <1>a, <2>1, CallTypes DEF TaskProc, SubscriberAssumption
  <2>3. \A s \in Slots : task'[s] = Free
    BY <1>14, <2>2 DEF Crash
  <2> QED BY <2>3 DEF Free
<1>15. CASE SubscriberNext
  BY <1>5, <1>6, <1>7, <1>8, <1>9, <1>10, <1>11, <1>12, <1>13, <1>14, <1>15
     DEF SubscriberNext, ListenerStep, SlotStep, HandlerStep
<1> QED BY <1>1, <1>2, <1>3, <1>4, <1>15 DEF Next

(* Where #processMessage calls cannot overlap, the read-modify-write of the *)
(* attempts hash loses no attempt: a counter is only ever raised by one.    *)
THEOREM AttemptsAreNeverLost == Spec => AttemptsNeverLost
<1>1. SubscriberAssumption
  BY SubscriberConstants
<1>2. Init => CountInv /\ AttemptsFresh
  <2>1. Init => AttemptsFresh
    BY DEF Init, SubscriberInit, AttemptsFresh, Free
  <2> QED BY <1>1, <2>1, CountInit
<1>3. TypeInv /\ CountInv /\ AttemptsFresh /\ [Next]_vars => CountInv' /\ AttemptsFresh'
  BY <1>1, CountStep, AttemptsFreshStep
<1>4. TypeInv /\ AttemptsFresh /\ [Next]_vars =>
        [ (Concurrency = 1 /\ Cardinality(Procs) = 1 /\ \A p \in Procs : orphaned[p] = 0) =>
            \A e \in Events : attempts'[e] # attempts[e] => attempts'[e] = attempts[e] + 1 ]_vars
  <2> SUFFICES ASSUME TypeInv, AttemptsFresh, Next, OneCall, NEW e \in Events, attempts'[e] # attempts[e]
               PROVE  attempts'[e] = attempts[e] + 1
    BY DEF OneCall
  <2>a. CallsInv /\ RedisTypeOK
    BY SubscriberParts DEF TypeInv
  <2>1. ~UNCHANGED attempts
    OBVIOUS
  <2>2. PICK s \in Slots : SetAttempts(s)
    BY <2>1 DEF Next, RedisNext, DedupeKeyExpires, ListExpires, ConnectionDrops,
         PublisherNext, PublishStep, CheckDedupe, SetDedupe, Push, Trim, Notify, Expire,
         BulkPush, BulkNotify, PublishFails, BulkStart, BulkFails, BulkFinish,
         DeadLetterNext, ReplayStart, ReplayStep, ReplayPop, ReplayEmpty, ReplayExec,
         ReplayDies, RemoveScan, RemoveDelete, Purge, DrainQueue, redisVars,
         SubscriberNext, Subscribe, Unsubscribe, ListenerStep, Listen, DrainEnds, Receive, DrainPop,
         SlotStep, PushBack, GetAttempts, Requeue, HandlerStep, HandlerSucceeds, PushToDLQ,
         HandlerFails, PushToDLQFails, Crash
  <2>3. task[s].stage = "hset" /\ attempts' = [attempts EXCEPT ![task[s].ev] = task[s].att]
    BY <2>2 DEF SetAttempts
  <2>4. task[s].att = attempts[task[s].ev] + 1
    BY <2>3 DEF AttemptsFresh
  <2> QED BY <2>a, <2>3, <2>4 DEF RedisTypeOK
<1> QED BY <1>2, <1>3, <1>4, TypeInvariant, PTL DEF Spec, AttemptsNeverLost

-----------------------------------------------------------------------------
(***************************************************************************)
(* Part 5: the channel implements DeliveryContract.  Its status map counts  *)
(* an event as owed while a copy of it is anywhere.  Copies come only from  *)
(* copies, or from the one LPUSH of the event's publish call; so an event   *)
(* of which nothing is left never comes back, and NoSilentLoss says that it *)
(* was processed or excused.                                                *)
(***************************************************************************)
Unpushed == {"new", "setkey", "push", "bulk"}

PushedOnce == \A e \in Events : pub[e] \in Unpushed => e \notin pushed

OnlyPushed == \A e \in Events : Anywhere(e) \/ e \in processed => e \in pushed

ContractInv == PushedOnce /\ OnlyPushed /\ NoSilentLoss

(* The events that are anywhere, as a set.                                  *)
Sending == {e \in Events : pub[e] \in {"trim", "notify", "bulkNotify"}}
Arriving == UNION {ToSet(inbox[l]) : l \in Listeners}
Called == {task[s].ev : s \in {r \in Slots : task[r] # Free}}
Copies == ToSet(list) \cup DeadEvents(dlq) \cup ToSet(pipeline) \cup Sending \cup Arriving \cup Called

(* An event is stored or held somewhere when a copy of it is in Copies.     *)
LEMMA AnywhereAsSet == \A e \in Events : Anywhere(e) <=> e \in Copies
<1>1. \A s \in Slots : Holds(s) => task[s] # Free
  BY DEF Holds, Free, CountedStages
<1> QED BY <1>1 DEF Anywhere, Stored, Copies, Sending, Arriving, Called

(* The same in the next state.                                              *)
LEMMA AnywhereAsSetNext == \A e \in Events : Anywhere(e)' <=> e \in Copies'
<1>1. \A s \in Slots : Holds(s)' => task'[s] # Free
  BY DEF Holds, Free, CountedStages
<1> QED BY <1>1 DEF Anywhere, Stored, Copies, Sending, Arriving, Called

(* What a step that pushes and processes nothing may do.                    *)
Quiet == Copies' \subseteq Copies /\ UNCHANGED <<pushed, processed>> /\ lost \subseteq lost'

(* A step that leaves the calls alone leaves their messages alone.          *)
LEMMA CalledUntouched == ASSUME UNCHANGED task PROVE Called' = Called
BY DEF Called

(* The same for the messages on their way to a listener.                    *)
LEMMA ArrivingUntouched == ASSUME UNCHANGED inbox PROVE Arriving' = Arriving
BY DEF Arriving

(* The same for the messages being published.                               *)
LEMMA SendingUntouched == ASSUME UNCHANGED pub PROVE Sending' = Sending
BY DEF Sending

(* Redis makes no copies.                                                   *)
LEMMA RedisQuiet ==
    ASSUME RedisTypeOK, RedisNext, UNCHANGED <<pub, subVars, admVars>>
    PROVE  Quiet
<1>1. Called' = Called /\ Sending' = Sending /\ pipeline' = pipeline
  BY CalledUntouched, SendingUntouched DEF subVars, taskVars, admVars
<1>2. ASSUME NEW k \in Keys, DedupeKeyExpires(k) PROVE Quiet
  BY <1>1, <1>2, ArrivingUntouched DEF DedupeKeyExpires, Quiet, Copies, history
<1>3. ASSUME ListExpires PROVE Quiet
  <2>1. list' = <<>> /\ UNCHANGED <<inbox, dlq, pushed, processed>> /\ lost \subseteq lost'
    BY <1>3 DEF ListExpires, SetList
  <2>2. ToSet(list') = {}
    BY <2>1, EmptyElements
  <2> QED BY <1>1, <2>1, <2>2, ArrivingUntouched DEF Quiet, Copies
<1>4. ASSUME NEW l \in Listeners, ConnectionDrops(l) PROVE Quiet
  <2>1. inbox' = [inbox EXCEPT ![l] = <<>>] /\ UNCHANGED <<list, dlq, pushed, processed, lost>>
    BY <1>4 DEF ConnectionDrops, history
  <2>2. \A k \in Listeners : inbox'[k] = inbox[k] \/ inbox'[k] = <<>>
    BY <2>1 DEF RedisTypeOK
  <2>3. Arriving' \subseteq Arriving
    BY <2>2, EmptyElements DEF Arriving
  <2> QED BY <1>1, <2>1, <2>3 DEF Quiet, Copies
<1> QED BY <1>2, <1>3, <1>4 DEF RedisNext

(* The step that puts an event on the queue.                                *)
Accepted(e) ==
    /\ pub[e] \in Unpushed
    /\ pushed' = pushed \cup {e}
    /\ UNCHANGED <<processed, lost>>
    /\ Copies' = Copies \cup {e}

(* A publish call puts its event on the queue once; after that it only      *)
(* sends copies of what is being sent, or cuts the list.                    *)
LEMMA PublisherContract ==
    ASSUME PublisherAssumption, RedisTypeOK, PublisherInv, PublisherNext, UNCHANGED <<subVars, admVars>>
    PROVE  Quiet \/ \E e \in Events : Accepted(e)
<1>1. Called' = Called /\ pipeline' = pipeline
  BY CalledUntouched DEF subVars, taskVars, admVars
<1>2. ASSUME NEW e \in Events, Push(e) \/ BulkPush(e) PROVE Accepted(e)
  <2>1. /\ LPushList(e) /\ pushed' = pushed \cup {e} /\ UNCHANGED <<dlq, inbox, processed, lost>>
        /\ pub[e] \in Unpushed
    BY <1>2 DEF Push, BulkPush, Unpushed
  <2>2. ToSet(list') = ToSet(list) \cup {e} /\ Arriving' = Arriving
    BY <2>1, LPushElements, ArrivingUntouched
  <2>3. \E st \in {"trim", "notify", "bulkNotify"} : pub' = [pub EXCEPT ![e] = st]
    BY <1>2 DEF Push, BulkPush, Goto
  <2>4. Sending' = Sending \cup {e}
    BY <2>3 DEF Sending, PublisherInv, PublisherTypeOK
  <2> QED BY <1>1, <2>1, <2>2, <2>4 DEF Accepted, Copies
<1>3. ASSUME UNCHANGED <<list, dlq, inbox, history>>, Sending' \subseteq Sending PROVE Quiet
  BY <1>1, <1>3, ArrivingUntouched DEF Quiet, Copies, history
<1>4. ASSUME NEW e \in Events, NEW st, Goto(e, st), st \in {"trim", "notify", "bulkNotify"} => e \in Sending
      PROVE  Sending' \subseteq Sending
  BY <1>4 DEF Sending, Goto, PublisherInv, PublisherTypeOK
<1>5. ASSUME NEW e \in Events, Trim(e) PROVE Quiet
  <2>1. ToSet(list) = ToSet(list') \cup ToSet(SubSeq(list, MaxQueueLength + 1, Len(list)))
    BY <1>5, TrimParts DEF Trim, SetList, RedisTypeOK, PublisherAssumption
  <2>2. Sending' \subseteq Sending
    <3>1. e \in Sending
      BY <1>5 DEF Trim, Sending
    <3> QED BY <1>4, <1>5, <3>1 DEF Trim
  <2>3. UNCHANGED <<dlq, inbox, pushed, processed>> /\ lost \subseteq lost'
    BY <1>5 DEF Trim
  <2> QED BY <1>1, <2>1, <2>2, <2>3, ArrivingUntouched DEF Quiet, Copies
<1>6. ASSUME NEW e \in Events, Notify(e) \/ BulkNotify(e) PROVE Quiet
  <2>1. PubSub(e) /\ UNCHANGED <<list, dlq, history>> /\ e \in Sending
    BY <1>6 DEF Notify, BulkNotify, Sending
  <2>2. Sending' \subseteq Sending
    BY <1>4, <1>6, <2>1 DEF Notify, BulkNotify
  <2>3. Arriving' \subseteq Arriving \cup {e}
    <3>1. \A l \in Listeners : ToSet(Append(inbox[l], e)) = ToSet(inbox[l]) \cup {e}
      BY AppendElements DEF RedisTypeOK
    <3>2. \A l \in Listeners : inbox'[l] = inbox[l] \/ inbox'[l] = Append(inbox[l], e)
      BY <2>1 DEF PubSub
    <3>3. \A l \in Listeners : ToSet(inbox'[l]) \subseteq ToSet(inbox[l]) \cup {e}
      BY <3>1, <3>2
    <3> QED BY <3>3 DEF Arriving
  <2> QED BY <1>1, <2>1, <2>2, <2>3 DEF Quiet, Copies, history
<1>7. ASSUME NEW e \in Events, CheckDedupe(e) \/ SetDedupe(e) \/ Expire(e) \/ PublishFails(e)
      PROVE  Quiet
  <2>1. UNCHANGED <<list, dlq, inbox, history>>
    BY <1>7 DEF CheckDedupe, SetDedupe, Expire, PublishFails, redisVars
  <2>2. Sending' \subseteq Sending
    BY <1>4, <1>7 DEF CheckDedupe, SetDedupe, Expire, PublishFails
  <2> QED BY <1>3, <2>1, <2>2
<1>8. ASSUME NEW batch, BulkStart(batch) PROVE Quiet
  <2>1. UNCHANGED <<list, dlq, inbox, history>> /\ Sending' \subseteq Sending
    BY <1>8 DEF BulkStart, redisVars, Sending
  <2> QED BY <1>3, <2>1
<1>9. ASSUME BulkFails \/ BulkFinish PROVE Quiet
  <2>1. UNCHANGED <<list, dlq, inbox, history>> /\ Sending' \subseteq Sending
    BY <1>9 DEF BulkFails, BulkFinish, redisVars, Sending
  <2> QED BY <1>3, <2>1
<1> QED BY <1>2, <1>5, <1>6, <1>7, <1>8, <1>9 DEF PublisherNext, PublishStep

(* The operator's tools move copies from the DLQ to the list, or destroy    *)
(* them.                                                                    *)
LEMMA DeadLetterQuiet ==
    ASSUME RedisTypeOK, DeadLetterInv, DeadLetterNext, UNCHANGED <<pub, subVars>>
    PROVE  Quiet
<1> USE DEF Quiet, Copies
<1>1. Called' = Called /\ Sending' = Sending
  BY CalledUntouched, SendingUntouched DEF subVars, taskVars
<1>2. ASSUME UNCHANGED <<list, dlq, inbox, pipeline, history>> PROVE Quiet
  BY <1>1, <1>2, ArrivingUntouched DEF history
<1>3. ASSUME ReplayPop PROVE Quiet
  <2>1. dlq \in Seq(DlqEntry) /\ dlq # <<>> /\ pipeline \in Seq(Events)
    BY <1>3 DEF ReplayPop, RedisTypeOK, DeadLetterInv, DeadLetterTypeOK
  <2>2. /\ Front(dlq) \in Seq(DlqEntry) /\ Last(dlq) \in DlqEntry
        /\ ToSet(dlq) = ToSet(Front(dlq)) \cup {Last(dlq)}
    BY <2>1, FrontElements
  <2>3. ToSet(pipeline') = ToSet(pipeline) \cup {Last(dlq).ev}
    <3>1. Last(dlq).ev \in Events
      BY <2>2 DEF DlqEntry
    <3> QED BY <1>3, <2>1, <3>1, AppendElements DEF ReplayPop
  <2>4. DeadEvents(dlq) = DeadEvents(dlq') \cup {Last(dlq).ev}
    <3>1. dlq' = Front(dlq)
      BY <1>3 DEF ReplayPop
    <3>2. /\ DeadEvents(dlq) = {d.ev : d \in ToSet(dlq)}
          /\ DeadEvents(dlq') = {d.ev : d \in ToSet(dlq')}
      BY <2>1, <2>2, <3>1, DeadEventsOf
    <3> QED BY <2>2, <3>1, <3>2
  <2>5. UNCHANGED <<list, inbox, pushed, processed, lost>>
    BY <1>3 DEF ReplayPop, history
  <2> QED BY <1>1, <2>3, <2>4, <2>5, ArrivingUntouched
<1>4. ASSUME ReplayExec PROVE Quiet
  <2>1. /\ Tail(pipeline) \in Seq(Events) /\ Head(pipeline) \in Events
        /\ ToSet(pipeline) = ToSet(Tail(pipeline)) \cup {Head(pipeline)}
    BY <1>4, TailElements DEF ReplayExec, DeadLetterInv, DeadLetterTypeOK
  <2>2. ToSet(list') = ToSet(list) \cup {Head(pipeline)}
    BY <1>4, <2>1, LPushElements DEF ReplayExec
  <2>3. pipeline' = Tail(pipeline) /\ UNCHANGED <<dlq, inbox, pushed, processed, lost>>
    BY <1>4 DEF ReplayExec, history
  <2> QED BY <1>1, <2>1, <2>2, <2>3, ArrivingUntouched
<1>5. ASSUME ReplayDies PROVE Quiet
  <2>1. pipeline' = <<>> /\ UNCHANGED <<list, dlq, inbox, pushed, processed>> /\ lost \subseteq lost'
    BY <1>5 DEF ReplayDies, redisVars
  <2>2. ToSet(pipeline') = {}
    BY <2>1, EmptyElements
  <2> QED BY <1>1, <2>1, <2>2, ArrivingUntouched
<1>6. ASSUME RemoveDelete PROVE Quiet
  <2>1. UNCHANGED <<list, inbox, pushed, processed, pipeline>>
    BY <1>6 DEF RemoveDelete
  <2>2. CASE UNCHANGED <<dlq, lost>>
    BY <1>1, <2>1, <2>2, ArrivingUntouched
  <2>3. ASSUME NEW i \in DOMAIN dlq, dlq' = RemoveAt(dlq, i), lost' = lost \cup {dlq[i].ev}
        PROVE  Quiet
    <3>1. dlq \in Seq(DlqEntry) /\ i \in 1..Len(dlq)
      BY DlqEntries DEF RedisTypeOK
    <3>2. RemoveAt(dlq, i) \in Seq(DlqEntry) /\ ToSet(RemoveAt(dlq, i)) \subseteq ToSet(dlq)
      BY <3>1, RemoveAtElements
    <3>3. /\ DeadEvents(dlq) = {d.ev : d \in ToSet(dlq)}
          /\ DeadEvents(dlq') = {d.ev : d \in ToSet(dlq')}
      BY <2>3, <3>1, <3>2, DeadEventsOf
    <3>4. DeadEvents(dlq') \subseteq DeadEvents(dlq)
      BY <2>3, <3>2, <3>3
    <3> QED BY <1>1, <2>1, <2>3, <3>4, ArrivingUntouched
  <2> QED BY <1>6, <2>2, <2>3 DEF RemoveDelete
<1>7. ASSUME Purge PROVE Quiet
  <2>1. dlq' = <<>> /\ UNCHANGED <<list, inbox, pushed, processed, pipeline>> /\ lost \subseteq lost'
    BY <1>7 DEF Purge, admVars
  <2>2. DeadEvents(dlq') = {}
    BY <2>1 DEF DeadEvents
  <2> QED BY <1>1, <2>1, <2>2, ArrivingUntouched
<1>8. ASSUME DrainQueue PROVE Quiet
  <2>1. list' = <<>> /\ UNCHANGED <<dlq, inbox, pushed, processed, pipeline>> /\ lost \subseteq lost'
    BY <1>8 DEF DrainQueue, SetList, admVars
  <2>2. ToSet(list') = {}
    BY <2>1, EmptyElements
  <2> QED BY <1>1, <2>1, <2>2, ArrivingUntouched
<1>9. ASSUME ReplayStart \/ ReplayEmpty \/ \E e \in Events : RemoveScan(e) PROVE Quiet
  BY <1>2, <1>9 DEF ReplayStart, ReplayEmpty, RemoveScan, redisVars
<1> QED BY <1>3, <1>4, <1>5, <1>6, <1>7, <1>8, <1>9 DEF DeadLetterNext, ReplayStep

(* The step that ends the processing of an event: its call is the last copy *)
(* that may go.                                                             *)
Completed(e) ==
    /\ e \in Copies
    /\ Copies' \subseteq Copies /\ Copies \ {e} \subseteq Copies'
    /\ processed' = processed \cup {e}
    /\ UNCHANGED <<pushed, lost>>

(* A call that moves is about the same event as before, or it has ended.    *)
LEMMA CallMovesCopies ==
    ASSUME NEW s \in Slots, CallMoves(s)
    PROVE  /\ task[s].ev \in Called
           /\ Called' \subseteq Called /\ Called \ {task[s].ev} \subseteq Called'
<1>1. task[s].ev \in Called
  BY DEF CallMoves, Called
<1>2. \A r \in Slots : task'[r] # Free => task[r] # Free /\ task'[r].ev = task[r].ev
  BY DEF CallMoves
<1>3. \A r \in Slots : task[r] # Free => task[r].ev = task[s].ev \/ task'[r] = task[r]
  BY DEF CallMoves
<1>4. Called' \subseteq Called
  BY <1>2 DEF Called
<1>5. Called \ {task[s].ev} \subseteq Called'
  BY <1>3 DEF Called
<1> QED BY <1>1, <1>4, <1>5

(* Consumers take copies from an inbox or the list, put them back on the    *)
(* list or on the DLQ, and process them.                                    *)
LEMMA SubscriberContract ==
    ASSUME SubscriberAssumption, RedisTypeOK, CallsInv, SubscriberNext, UNCHANGED <<pub, admVars>>
    PROVE  Quiet \/ \E e \in Events : Completed(e)
<1>1. Sending' = Sending /\ pipeline' = pipeline
  BY SendingUntouched DEF admVars
<1>2. ASSUME UNCHANGED <<list, dlq, inbox, task, history>> PROVE Quiet
  BY <1>1, <1>2, CalledUntouched, ArrivingUntouched DEF Quiet, Copies, history
<1>3. ASSUME NEW p \in Procs, NEW h \in Handlers,
             Unsubscribe(p, h) \/ \E a \in AckModes : Subscribe(p, h, a)
      PROVE  Quiet
  BY <1>2, <1>3 DEF Subscribe, Unsubscribe, redisVars, taskVars
<1>4. ASSUME NEW l \in Listeners, Listen(l) \/ DrainEnds(l) PROVE Quiet
  BY <1>2, <1>4 DEF Listen, DrainEnds, redisVars, taskVars
<1>5. ASSUME NEW l \in Listeners, NEW s \in Slots, NEW e, NEW drained, ProcessMessage(s, l, e, drained)
      PROVE  Called' \subseteq Called \cup {e}
  <2> DEFINE t == [stage |-> IF active[Owner[l]] >= Concurrency THEN "full" ELSE "hget", ev |-> e,
                   lis |-> l, drained |-> drained, att |-> 0]
  <2>1. task' = [task EXCEPT ![s] = t] /\ t.ev = e
    BY <1>5 DEF ProcessMessage
  <2> HIDE DEF t
  <2>2. \A r \in Slots : task'[r] = task[r] \/ task'[r].ev = e
    BY <2>1 DEF CallsInv
  <2> QED BY <2>2 DEF Called
<1>6. ASSUME NEW l \in Listeners, NEW s \in Slots, Receive(s, l) PROVE Quiet
  <2>1. /\ ProcessMessage(s, l, Head(inbox[l]), FALSE) /\ inbox' = [inbox EXCEPT ![l] = Tail(@)]
        /\ UNCHANGED <<list, dlq, pushed, processed, lost>> /\ inbox[l] # <<>>
    BY <1>6 DEF Receive, history
  <2>2. ToSet(inbox[l]) = ToSet(Tail(inbox[l])) \cup {Head(inbox[l])}
    BY <2>1, TailElements DEF RedisTypeOK
  <2>3. \A k \in Listeners : inbox'[k] = inbox[k] \/ (k = l /\ inbox'[k] = Tail(inbox[l]))
    BY <2>1 DEF RedisTypeOK
  <2>4. \A k \in Listeners : ToSet(inbox'[k]) \subseteq ToSet(inbox[k])
    BY <2>2, <2>3
  <2>5. Arriving' \subseteq Arriving /\ Head(inbox[l]) \in Arriving
    BY <2>2, <2>4 DEF Arriving
  <2>6. Called' \subseteq Called \cup {Head(inbox[l])}
    BY <1>5, <2>1
  <2> QED BY <1>1, <2>1, <2>5, <2>6 DEF Quiet, Copies
<1>7. ASSUME NEW l \in Listeners, NEW s \in Slots, DrainPop(s, l) PROVE Quiet
  <2>1. /\ ProcessMessage(s, l, Last(list), TRUE) /\ list' = Front(list)
        /\ UNCHANGED <<inbox, dlq, pushed, processed, lost>>
    BY <1>7 DEF DrainPop, SetList, history
  <2>2. ToSet(list) = ToSet(list') \cup {Last(list)}
    BY <1>7, <2>1, FrontElements DEF DrainPop, RedisTypeOK
  <2>3. Called' \subseteq Called \cup {Last(list)}
    BY <1>5, <2>1
  <2> QED BY <1>1, <2>1, <2>2, <2>3, ArrivingUntouched DEF Quiet, Copies
<1>8. ASSUME NEW s \in Slots, SlotStep(s) \/ \E h \in Handlers : HandlerFails(s, h) \/ PushToDLQFails(s, h)
      PROVE  CallMoves(s) /\ task[s].ev \in Events /\ task[s].att \in Nat
  BY <1>8, SlotMoves, CallTypes DEF CallMoves
<1>9. ASSUME NEW s \in Slots, CallMoves(s), UNCHANGED <<list, dlq, inbox, pushed, processed>>,
             lost \subseteq lost'
      PROVE  Quiet
  BY <1>1, <1>9, CallMovesCopies, ArrivingUntouched DEF Quiet, Copies
<1>10. ASSUME NEW s \in Slots, PushBack(s) \/ Requeue(s) PROVE Quiet
  <2>1. CallMoves(s) /\ task[s].ev \in Events
    BY <1>8, <1>10 DEF SlotStep
  <2>2. LPushList(task[s].ev) /\ UNCHANGED <<dlq, inbox, pushed, processed, lost>>
    BY <1>10 DEF PushBack, Requeue, history
  <2>3. ToSet(list') = ToSet(list) \cup {task[s].ev}
    BY <2>1, <2>2, LPushElements
  <2> QED BY <1>1, <2>1, <2>2, <2>3, CallMovesCopies, ArrivingUntouched DEF Quiet, Copies
<1>11. ASSUME NEW s \in Slots, GetAttempts(s) \/ SetAttempts(s) PROVE Quiet
  <2>1. CallMoves(s)
    BY <1>8, <1>11 DEF SlotStep
  <2>2. UNCHANGED <<list, dlq, inbox, pushed, processed>> /\ lost \subseteq lost'
    BY <1>11 DEF GetAttempts, SetAttempts, Dispatch, redisVars
  <2> QED BY <1>9, <2>1, <2>2
<1>12. ASSUME NEW s \in Slots, NEW h \in Handlers, HandlerFails(s, h) \/ PushToDLQFails(s, h)
       PROVE  Quiet
  <2>1. CallMoves(s)
    BY <1>8, <1>12
  <2>2. UNCHANGED <<list, dlq, inbox, pushed, processed>> /\ lost \subseteq lost'
    BY <1>12 DEF HandlerFails, PushToDLQFails, Reject, redisVars
  <2> QED BY <1>9, <2>1, <2>2
<1>13. ASSUME NEW s \in Slots, NEW h \in Handlers, PushToDLQ(s, h) PROVE Quiet
  <2>1. CallMoves(s) /\ task[s].ev \in Events /\ task[s].att \in Nat
    BY <1>8, <1>13 DEF SlotStep, HandlerStep
  <2> DEFINE d == [ev |-> task[s].ev, att |-> task[s].att]
  <2>2. d \in DlqEntry /\ dlq' = Cons(d, dlq) /\ dlq \in Seq(DlqEntry) /\ d.ev = task[s].ev
    BY <1>13, <2>1 DEF PushToDLQ, DlqEntry, RedisTypeOK
  <2>3. dlq' \in Seq(DlqEntry) /\ ToSet(dlq') = ToSet(dlq) \cup {d}
    <3> HIDE DEF d
    <3> QED BY ZenonT(40), <2>2, ConsElements
  <2>4. /\ DeadEvents(dlq) = {x.ev : x \in ToSet(dlq)}
        /\ DeadEvents(dlq') = {x.ev : x \in ToSet(dlq')}
    BY <2>2, <2>3, DeadEventsOf
  <2>5. DeadEvents(dlq') = DeadEvents(dlq) \cup {task[s].ev}
    BY <2>2, <2>3, <2>4
  <2>6. UNCHANGED <<list, inbox, pushed, processed>> /\ lost \subseteq lost'
    BY <1>13 DEF PushToDLQ, Reject
  <2> QED BY <1>1, <2>1, <2>5, <2>6, CallMovesCopies, ArrivingUntouched DEF Quiet, Copies
<1>14. ASSUME NEW s \in Slots, NEW h \in Handlers, HandlerSucceeds(s, h)
       PROVE  Quiet \/ \E e \in Events : Completed(e)
  <2>1. CallMoves(s) /\ task[s].ev \in Events
    BY <1>8, <1>14 DEF SlotStep, HandlerStep
  <2>2. UNCHANGED <<list, dlq, inbox, pushed, lost>>
    BY <1>14 DEF HandlerSucceeds, redisVars
  <2>3. CASE processed' = processed
    BY <1>9, <2>1, <2>2, <2>3
  <2>4. CASE processed' = processed \cup {task[s].ev}
    <3> DEFINE e == task[s].ev
    <3>1. /\ e \in Called /\ Called' \subseteq Called /\ Called \ {e} \subseteq Called'
          /\ e \in Events /\ processed' = processed \cup {e}
      BY <2>1, <2>4, CallMovesCopies
    <3> HIDE DEF e
    <3>2. Completed(e)
      BY <1>1, <2>2, <3>1, ArrivingUntouched DEF Completed, Copies
    <3> QED BY <3>1, <3>2
  <2> QED BY <1>14, <2>3, <2>4 DEF HandlerSucceeds
<1>15. ASSUME NEW p \in Procs, Crash(p) PROVE Quiet
  <2> DEFINE mine == {l \in Listeners : Owner[l] = p}
             gone == {s \in Slots : task[s] # Free /\ TaskProc(s) = p}
  <2>1. /\ inbox' = [l \in Listeners |-> IF l \in mine THEN <<>> ELSE inbox[l]]
        /\ task' = [s \in Slots |-> IF s \in gone THEN Free ELSE task[s]]
        /\ UNCHANGED <<list, dlq, pushed, processed>> /\ lost \subseteq lost'
    BY <1>15 DEF Crash
  <2> HIDE DEF mine, gone
  <2>2. Called' \subseteq Called
    <3>1. \A s \in Slots : task'[s] # Free => task'[s] = task[s]
      BY <2>1
    <3> QED BY <3>1 DEF Called
  <2>3. Arriving' \subseteq Arriving
    <3>1. \A l \in Listeners : inbox'[l] = inbox[l] \/ inbox'[l] = <<>>
      BY <2>1
    <3> QED BY <3>1, EmptyElements DEF Arriving
  <2> QED BY <1>1, <2>1, <2>2, <2>3 DEF Quiet, Copies
<1> QED BY <1>3, <1>4, <1>6, <1>7, <1>10, <1>11, <1>12, <1>13, <1>14, <1>15
        DEF SubscriberNext, ListenerStep, SlotStep, HandlerStep

-----------------------------------------------------------------------------
(* Every step of the channel is one of the three.                           *)
LEMMA StepKinds ==
    ASSUME PublisherAssumption, SubscriberAssumption, TypeInv, [Next]_vars
    PROVE  Quiet \/ \E e \in Events : Accepted(e) \/ Completed(e)
<1>1. RedisTypeOK /\ CallsInv /\ DeadLetterInv /\ PublisherInv
  BY SubscriberParts DEF TypeInv
<1>2. CASE UNCHANGED vars
  BY <1>2, CalledUntouched, ArrivingUntouched, SendingUntouched
     DEF vars, redisVars, history, subVars, taskVars, admVars, Quiet, Copies
<1>3. CASE Next
  BY <1>1, <1>3, RedisQuiet, PublisherContract, SubscriberContract, DeadLetterQuiet DEF Next
<1> QED BY <1>2, <1>3

(* An event is pushed only by its own publish call, and once.               *)
LEMMA PushedOnceStep ==
    ASSUME TypeInv, PushedOnce, [Next]_vars
    PROVE  PushedOnce'
<1>1. PublisherTypeOK
  BY DEF TypeInv, PublisherInv
<1>2. ASSUME UNCHANGED <<pub, pushed>> PROVE PushedOnce'
  BY <1>2 DEF PushedOnce
<1>3. CASE RedisNext /\ UNCHANGED <<pub, subVars, admVars>>
  BY <1>2, <1>3 DEF RedisNext, DedupeKeyExpires, ListExpires, ConnectionDrops, history
<1>4. CASE DeadLetterNext /\ UNCHANGED <<pub, subVars>>
  <2>1. UNCHANGED pushed
    BY <1>4 DEF DeadLetterNext, ReplayStart, ReplayStep, ReplayPop, ReplayEmpty, ReplayExec,
               ReplayDies, RemoveScan, RemoveDelete, Purge, DrainQueue, history
  <2> QED BY <1>2, <1>4, <2>1
<1>5. CASE SubscriberNext /\ UNCHANGED <<pub, admVars>>
  <2>1. UNCHANGED pushed
    BY <1>5 DEF SubscriberNext, Subscribe, Unsubscribe, ListenerStep, Listen, DrainEnds, Receive, DrainPop,
         SlotStep, PushBack, GetAttempts, SetAttempts, Requeue, HandlerStep, HandlerSucceeds, PushToDLQ,
         HandlerFails, PushToDLQFails, Crash, history
  <2> QED BY <1>2, <1>5, <2>1
<1>6. CASE PublisherNext
  <2>1. ASSUME NEW e \in Events, NEW st, Goto(e, st), st \in Unpushed => pub[e] \in Unpushed,
               UNCHANGED pushed
        PROVE  PushedOnce'
    BY <1>1, <2>1 DEF Goto, PushedOnce, PublisherTypeOK
  <2>2. ASSUME NEW e \in Events, Push(e) \/ BulkPush(e) PROVE PushedOnce'
    <3>1. PICK st \in {"trim", "notify", "bulkNotify"} : pub' = [pub EXCEPT ![e] = st]
      BY <2>2 DEF Push, BulkPush, Goto
    <3>2. pushed' = pushed \cup {e}
      BY <2>2 DEF Push, BulkPush
    <3> QED BY <1>1, <3>1, <3>2 DEF PushedOnce, PublisherTypeOK, Unpushed
  <2>3. ASSUME NEW e \in Events,
               \/ CheckDedupe(e) \/ SetDedupe(e) \/ Trim(e) \/ Notify(e) \/ Expire(e)
               \/ BulkNotify(e) \/ PublishFails(e)
        PROVE  PushedOnce'
    BY <2>1, <2>3 DEF CheckDedupe, SetDedupe, Trim, Notify, Expire, BulkNotify, PublishFails, history,
                      Unpushed
  <2>4. ASSUME NEW batch, BulkStart(batch) PROVE PushedOnce'
    BY <2>4 DEF BulkStart, PushedOnce, Unpushed, history
  <2>5. ASSUME BulkFails \/ BulkFinish PROVE PushedOnce'
    BY <2>5 DEF BulkFails, BulkFinish, PushedOnce, Unpushed, history
  <2> QED BY <1>6, <2>2, <2>3, <2>4, <2>5 DEF PublisherNext, PublishStep
<1>7. CASE UNCHANGED vars
  BY <1>2, <1>7 DEF vars, history
<1> QED BY <1>3, <1>4, <1>5, <1>6, <1>7 DEF Next

(* What the refinement rests on is inductive.                               *)
LEMMA ContractInvStep ==
    ASSUME PublisherAssumption, SubscriberAssumption, TypeInv, ContractInv, [Next]_vars
    PROVE  ContractInv'
<1>1. PushedOnce' /\ NoSilentLoss'
  BY PushedOnceStep, NoSilentLossStep DEF ContractInv
<1>2. \A e \in Events : e \in Copies \/ e \in processed => e \in pushed
  BY AnywhereAsSet DEF ContractInv, OnlyPushed
<1>3. \A e \in Events : e \in Copies' \/ e \in processed' => e \in pushed'
  BY <1>2, StepKinds DEF Quiet, Accepted, Completed
<1>4. OnlyPushed'
  BY <1>3, AnywhereAsSetNext DEF OnlyPushed
<1> QED BY <1>1, <1>4 DEF ContractInv

-----------------------------------------------------------------------------
(* The status of an event in the contract, from the sets of the queue.      *)
LEMMA StatusBySets ==
    \A e \in Events :
        Status(e) = IF e \notin pushed THEN "unsent" ELSE IF e \in processed THEN "done"
                    ELSE IF e \in Copies THEN "owed" ELSE "gone"
BY AnywhereAsSet DEF Status

(* The same in the next state.                                              *)
LEMMA StatusBySetsNext ==
    \A e \in Events :
        Status(e)' = IF e \notin pushed' THEN "unsent" ELSE IF e \in processed' THEN "done"
                     ELSE IF e \in Copies' THEN "owed" ELSE "gone"
BY AnywhereAsSetNext DEF Status

(* Initially nothing has been sent.                                         *)
LEMMA ContractInitial == Init => Contract!Init /\ ContractInv
<1> SUFFICES ASSUME Init PROVE Contract!Init /\ ContractInv
  OBVIOUS
<1>1. pushed = {} /\ processed = {} /\ lost = {}
  BY DEF Init, RedisInit
<1>2. Contract!Init
  BY <1>1 DEF Contract!Init, Status
<1>3. \A e \in Events : ~Anywhere(e)
  <2>1. /\ list = <<>> /\ dlq = <<>> /\ pipeline = <<>> /\ inbox = [l \in Listeners |-> <<>>]
        /\ pub = [e \in Events |-> "new"] /\ task = [s \in Slots |-> Free]
    BY DEF Init, RedisInit, PublisherInit, SubscriberInit, DeadLetterInit
  <2>2. ToSet(list) = {} /\ ToSet(pipeline) = {} /\ DeadEvents(dlq) = {}
    BY <2>1, EmptyElements DEF DeadEvents
  <2>3. \A l \in Listeners : ToSet(inbox[l]) = {}
    BY <2>1, EmptyElements
  <2> QED BY <2>1, <2>2, <2>3 DEF Anywhere, Stored, Holds, Free, CountedStages
<1>4. ContractInv
  BY <1>1, <1>3 DEF ContractInv, PushedOnce, OnlyPushed, NoSilentLoss
<1> QED BY <1>2, <1>4

(* A quiet step destroys copies, perhaps the last one of an event that is   *)
(* excused.                                                                 *)
LEMMA QuietDestroys ==
    ASSUME Quiet, NoSilentLoss', lost' \subseteq Events
    PROVE  \E es \in SUBSET Events : Contract!Destroy(es)
<1> DEFINE es == lost' \ lost
           forgotten == {e \in Events : Status(e) = "owed" /\ Status(e)' = "gone"}
<1>1. es \in SUBSET Events /\ lost' = lost \cup es
  BY DEF Quiet
<1>2. forgotten \in SUBSET lost'
  <2> SUFFICES ASSUME NEW e \in Events, Status(e)' = "gone" PROVE e \in lost'
    OBVIOUS
  <2>1. e \in pushed' /\ e \notin processed' /\ e \notin Copies'
    BY StatusBySetsNext
  <2>2. ~Stored(e)'
    BY <2>1, AnywhereAsSetNext DEF Anywhere
  <2> QED BY <2>1, <2>2 DEF NoSilentLoss
<1>3. ASSUME NEW e \in Events PROVE Status(e)' = IF e \in forgotten THEN "gone" ELSE Status(e)
  BY StatusBySets, StatusBySetsNext DEF Quiet
<1>4. [e \in Events |-> Status(e)]' = [e \in Events |-> IF e \in forgotten THEN "gone"
                                                        ELSE [f \in Events |-> Status(f)][e]]
  BY <1>3
<1>5. \A e \in forgotten : [f \in Events |-> Status(f)][e] = "owed"
  OBVIOUS
<1>6. Contract!Destroy(es)
  <2> HIDE DEF es, forgotten
  <2> QED BY <1>1, <1>2, <1>4, <1>5 DEF Contract!Destroy
<1> QED BY <1>1, <1>6

(* An LPUSH of a publish call accepts the event.                            *)
LEMMA AcceptedIsAccept ==
    ASSUME ContractInv, NEW e \in Events, Accepted(e)
    PROVE  Contract!Accept(e)
<1>1. e \notin pushed /\ e \notin processed
  BY DEF ContractInv, PushedOnce, OnlyPushed, Accepted
<1>2. Status(e) = "unsent" /\ Status(e)' = "owed"
  BY <1>1, StatusBySets, StatusBySetsNext DEF Accepted
<1>3. \A f \in Events \ {e} : Status(f)' = Status(f)
  BY StatusBySets, StatusBySetsNext DEF Accepted
<1>4. lost' = lost
  BY DEF Accepted
<1> QED BY <1>2, <1>3, <1>4 DEF Contract!Accept

(* The last handler of a call completes the event, or had done so before.   *)
LEMMA CompletedIsComplete ==
    ASSUME ContractInv, NEW e \in Events, Completed(e)
    PROVE  Contract!Complete(e) \/ UNCHANGED Contract!contractVars
<1>1. e \in pushed
  BY AnywhereAsSet DEF ContractInv, OnlyPushed, Completed
<1>2. Status(e) \in {"owed", "done"} /\ Status(e)' = "done"
  BY <1>1, StatusBySets, StatusBySetsNext DEF Completed
<1>3. \A f \in Events \ {e} : Status(f)' = Status(f)
  BY StatusBySets, StatusBySetsNext DEF Completed
<1>4. lost' = lost
  BY DEF Completed
<1>5. CASE Status(e) = "owed"
  BY <1>2, <1>3, <1>4, <1>5 DEF Contract!Complete
<1>6. CASE Status(e) = "done"
  BY <1>2, <1>3, <1>4, <1>6 DEF Contract!contractVars
<1> QED BY <1>2, <1>5, <1>6

(* Every step of the channel is a step of the contract, or leaves what the  *)
(* contract sees as it is.                                                  *)
LEMMA ContractStep ==
    ASSUME PublisherAssumption, SubscriberAssumption, TypeInv, ContractInv, [Next]_vars
    PROVE  [Contract!Next]_Contract!contractVars
<1>1. CASE Quiet
  <2>1. TypeInv' /\ ContractInv'
    BY TypeInvStep, ContractInvStep
  <2>2. NoSilentLoss' /\ lost' \subseteq Events
    BY <2>1 DEF ContractInv, TypeInv, RedisTypeOK
  <2> QED BY <1>1, <2>2, QuietDestroys DEF Contract!Next
<1>2. ASSUME NEW e \in Events, Accepted(e) PROVE Contract!Next
  BY <1>2, AcceptedIsAccept DEF Contract!Next
<1>3. ASSUME NEW e \in Events, Completed(e) PROVE [Contract!Next]_Contract!contractVars
  BY <1>3, CompletedIsComplete DEF Contract!Next
<1> QED BY <1>1, <1>2, <1>3, StepKinds

(* The queue implements the delivery contract: an event that was pushed is  *)
(* owed until a consumer has processed it, and is forgotten only after a    *)
(* copy of it was destroyed by one of the paths that destroy copies.        *)
THEOREM QueueImplementsContract == Spec => ImplementsContract
<1>1. PublisherAssumption /\ SubscriberAssumption
  BY PublisherConstants, SubscriberConstants
<1>2. Init => Contract!Init /\ ContractInv
  BY ContractInitial
<1>3. TypeInv /\ ContractInv /\ [Next]_vars => ContractInv'
  BY <1>1, ContractInvStep
<1>4. TypeInv /\ ContractInv /\ [Next]_vars => [Contract!Next]_Contract!contractVars
  BY <1>1, ContractStep
<1> QED BY <1>2, <1>3, <1>4, TypeInvariant, PTL DEF Spec, ImplementsContract, Contract!Spec
=============================================================================
