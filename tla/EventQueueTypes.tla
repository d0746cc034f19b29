-------------------------- MODULE EventQueueTypes ---------------------------
(***************************************************************************)
(* Type correctness of EventQueue, for every set of events, processes,      *)
(* listeners, handlers and slots and every value of the options: one lemma  *)
(* per component, one step per action.                                      *)
(***************************************************************************)
EXTENDS EventQueue, SequenceLemmas, TLAPS

(* The elements of a sequence over S are in S.                              *)
LEMMA ElementsAreMembers ==
    ASSUME NEW S, NEW s \in Seq(S)
    PROVE  ToSet(s) \subseteq S
BY ElementsByPosition

(* What a command that replaces the list does to the types.                 *)
LEMMA SetListTypes ==
    ASSUME NEW l \in Seq(Events), listTtl \in BOOLEAN, SetList(l)
    PROVE  list' \in Seq(Events) /\ listTtl' \in BOOLEAN
BY DEF SetList

(* LPUSH keeps the types.                                                   *)
LEMMA LPushTypes ==
    ASSUME NEW e \in Events, list \in Seq(Events), listTtl \in BOOLEAN, LPushList(e)
    PROVE  list' \in Seq(Events) /\ listTtl' \in BOOLEAN
<1>1. Cons(e, list) \in Seq(Events)
  BY ConsElements
<1> QED BY <1>1, SetListTypes DEF LPushList

(* PUBLISH keeps the type of the inboxes.                                   *)
LEMMA PubSubTypes ==
    ASSUME NEW e \in Events, inbox \in [Listeners -> Seq(Events)], PubSub(e)
    PROVE  inbox' \in [Listeners -> Seq(Events)]
<1>1. \A l \in Listeners : Append(inbox[l], e) \in Seq(Events)
  BY AppendElements
<1> QED BY <1>1 DEF PubSub

(* The parts of a list that LTRIM keeps and cuts.                           *)
LEMMA TrimParts ==
    ASSUME NEW n \in Nat, list \in Seq(Events)
    PROVE  /\ Newest(n) \in Seq(Events)
           /\ SubSeq(list, n + 1, Len(list)) \in Seq(Events)
           /\ ToSet(list) = ToSet(Newest(n)) \cup ToSet(SubSeq(list, n + 1, Len(list)))
<1>1. Len(list) \in Nat
  OBVIOUS
<1>2. CASE n <= Len(list)
  <2>1. n \in 0..Len(list) /\ (IF n < Len(list) THEN n ELSE Len(list)) = n
    BY <1>1, <1>2
  <2> QED BY <2>1, CutElements DEF Newest
<1>3. CASE n > Len(list)
  <2>1. Newest(n) = SubSeq(list, 1, Len(list))
    BY <1>1, <1>3 DEF Newest
  <2>2. SubSeq(list, n + 1, Len(list)) = <<>>
    BY <1>1, <1>3
  <2>3. SubSeq(list, Len(list) + 1, Len(list)) = <<>>
    BY <1>1
  <2>4. Len(list) \in 0..Len(list)
    BY <1>1
  <2>5. \A m \in 0..Len(list) :
           /\ SubSeq(list, 1, m) \in Seq(Events)
           /\ ToSet(list) = ToSet(SubSeq(list, 1, m)) \cup ToSet(SubSeq(list, m + 1, Len(list)))
    BY CutElements
  <2>6. <<>> \in Seq(Events)
    OBVIOUS
  <2> QED BY <2>1, <2>2, <2>3, <2>4, <2>5, <2>6
<1> QED BY <1>1, <1>2, <1>3

-----------------------------------------------------------------------------
(* The types are not inductive by themselves.  A call that is about to SETEX*)
(* has a dedupeKey; a replay that executes has something left to LPUSH;     *)
(* handlers run only after the dispatch.                                    *)
Dispatched == {"run", "requeue", "settled"}

PublisherInv ==
    /\ PublisherTypeOK
    /\ \A e \in Events : pub[e] = "setkey" => KeyOf[e] \in Keys

DeadLetterInv ==
    /\ DeadLetterTypeOK
    /\ replay = "exec" => pipeline # <<>>

SubscriberInv ==
    /\ SubscriberTypeOK
    /\ \A s \in Slots : task[s].stage \notin Dispatched => running[s] = {} /\ failing[s] = {}

TypeInv == RedisTypeOK /\ PublisherInv /\ SubscriberInv /\ DeadLetterInv

(* Expiry and dropped connections keep the types of the Redis keys.         *)
LEMMA RedisTypes ==
    ASSUME RedisTypeOK, RedisNext
    PROVE  RedisTypeOK'
<1>1. ASSUME NEW k \in Keys, DedupeKeyExpires(k) PROVE RedisTypeOK'
  BY <1>1 DEF DedupeKeyExpires, RedisTypeOK, history
<1>2. ASSUME ListExpires PROVE RedisTypeOK'
  <2>1. list' \in Seq(Events) /\ listTtl' \in BOOLEAN
    <3>1. <<>> \in Seq(Events)
      OBVIOUS
    <3> QED BY <1>2, <3>1, SetListTypes DEF ListExpires, RedisTypeOK
  <2>2. lost' \subseteq Events
    BY <1>2, ElementsAreMembers DEF ListExpires, RedisTypeOK
  <2> QED BY <1>2, <2>1, <2>2 DEF ListExpires, RedisTypeOK
<1>3. ASSUME NEW l \in Listeners, ConnectionDrops(l) PROVE RedisTypeOK'
  <2>1. inbox' \in [Listeners -> Seq(Events)]
    BY <1>3 DEF ConnectionDrops, RedisTypeOK
  <2> QED BY <1>3, <2>1 DEF ConnectionDrops, RedisTypeOK, history
<1> QED BY <1>1, <1>2, <1>3 DEF RedisNext

(* Publish calls keep the types of the Redis keys and of their own stages.  *)
LEMMA PublisherTypes ==
    ASSUME PublisherAssumption, RedisTypeOK, PublisherInv, PublisherNext
    PROVE  RedisTypeOK' /\ PublisherInv'
<1> USE DEF RedisTypeOK, PublisherTypeOK, PublisherInv, Goto, redisVars, history, Single, Bulk, Ended
<1> DEFINE Goal == RedisTypeOK' /\ PublisherInv'
<1>1. ASSUME NEW e \in Events, CheckDedupe(e) PROVE Goal
  BY <1>1 DEF CheckDedupe, PublisherAssumption
<1>2. ASSUME NEW e \in Events, SetDedupe(e) PROVE Goal
  BY <1>2 DEF SetDedupe
<1>3. ASSUME NEW e \in Events, Push(e) PROVE Goal
  <2>1. list' \in Seq(Events) /\ listTtl' \in BOOLEAN
    BY <1>3, LPushTypes DEF Push
  <2> QED BY <1>3, <2>1 DEF Push
<1>4. ASSUME NEW e \in Events, Trim(e) PROVE Goal
  <2>1. /\ Newest(MaxQueueLength) \in Seq(Events)
        /\ SubSeq(list, MaxQueueLength + 1, Len(list)) \in Seq(Events)
    BY TrimParts DEF PublisherAssumption
  <2>2. list' \in Seq(Events) /\ listTtl' \in BOOLEAN
    BY <1>4, <2>1, SetListTypes DEF Trim
  <2>3. lost' \subseteq Events
    BY <1>4, <2>1, ElementsAreMembers DEF Trim
  <2> QED BY <1>4, <2>2, <2>3 DEF Trim
<1>5. ASSUME NEW e \in Events, Notify(e) PROVE Goal
  <2>1. inbox' \in [Listeners -> Seq(Events)]
    BY <1>5, PubSubTypes DEF Notify
  <2> QED BY <1>5, <2>1 DEF Notify
<1>6. ASSUME NEW e \in Events, Expire(e) PROVE Goal
  BY <1>6 DEF Expire
<1>7. ASSUME NEW e \in Events, PublishFails(e) PROVE Goal
  BY <1>7 DEF PublishFails
<1>8. ASSUME NEW batch \in SUBSET Events, BulkStart(batch) PROVE Goal
  BY <1>8 DEF BulkStart
<1>9. ASSUME NEW e \in Events, BulkPush(e) PROVE Goal
  <2>1. list' \in Seq(Events) /\ listTtl' \in BOOLEAN
    BY <1>9, LPushTypes DEF BulkPush
  <2> QED BY <1>9, <2>1 DEF BulkPush
<1>10. ASSUME NEW e \in Events, BulkNotify(e) PROVE Goal
  <2>1. inbox' \in [Listeners -> Seq(Events)]
    BY <1>10, PubSubTypes DEF BulkNotify
  <2> QED BY <1>10, <2>1 DEF BulkNotify
<1>11. ASSUME BulkFails PROVE Goal
  BY <1>11 DEF BulkFails
<1>12. ASSUME BulkFinish PROVE Goal
  BY <1>12 DEF BulkFinish
<1> QED
  BY <1>1, <1>2, <1>3, <1>4, <1>5, <1>6, <1>7, <1>8, <1>9, <1>10, <1>11, <1>12
  DEF PublisherNext, PublishStep

(* A DLQ entry is about an event.                                           *)
LEMMA DlqEntries ==
    ASSUME dlq \in Seq(DlqEntry), NEW i \in DOMAIN dlq
    PROVE  i \in 1..Len(dlq) /\ dlq[i] \in DlqEntry /\ dlq[i].ev \in Events
<1>1. i \in 1..Len(dlq)
  BY LenProperties
<1>2. dlq[i] \in DlqEntry
  BY <1>1
<1> QED BY <1>1, <1>2 DEF DlqEntry

(* Replay, removal and purging keep the types of the Redis keys and of      *)
(* their own state.                                                         *)
LEMMA DeadLetterTypes ==
    ASSUME RedisTypeOK, DeadLetterInv, DeadLetterNext
    PROVE  RedisTypeOK' /\ DeadLetterInv'
<1> USE DEF RedisTypeOK, DeadLetterTypeOK, DeadLetterInv, redisVars, history, admVars
<1> DEFINE Goal == RedisTypeOK' /\ DeadLetterInv'
<1>1. ASSUME ReplayStart PROVE Goal
  BY <1>1 DEF ReplayStart
<1>2. ASSUME ReplayPop PROVE Goal
  <2>1. Front(dlq) \in Seq(DlqEntry) /\ Last(dlq) \in DlqEntry
    BY <1>2, FrontElements DEF ReplayPop
  <2>2. Append(pipeline, Last(dlq).ev) \in Seq(Events)
    BY <2>1, AppendElements DEF DlqEntry
  <2> QED BY <1>2, <2>1, <2>2 DEF ReplayPop
<1>3. ASSUME ReplayEmpty PROVE Goal
  BY <1>3 DEF ReplayEmpty
<1>4. ASSUME ReplayExec PROVE Goal
  <2>1. Tail(pipeline) \in Seq(Events) /\ Head(pipeline) \in Events
    BY <1>4, TailElements DEF ReplayExec
  <2>2. list' \in Seq(Events) /\ listTtl' \in BOOLEAN
    BY <1>4, <2>1, LPushTypes DEF ReplayExec
  <2> QED BY <1>4, <2>1, <2>2 DEF ReplayExec
<1>5. ASSUME ReplayDies PROVE Goal
  <2>1. lost' \subseteq Events
    BY <1>5, ElementsAreMembers DEF ReplayDies
  <2>2. <<>> \in Seq(Events)
    OBVIOUS
  <2> QED BY <1>5, <2>1, <2>2 DEF ReplayDies
<1>6. ASSUME NEW e \in Events, RemoveScan(e) PROVE Goal
  <2>1. PICK i \in DOMAIN dlq : removing' = <<dlq[i]>>
    BY <1>6 DEF RemoveScan
  <2>2. dlq[i] \in DlqEntry
    BY <2>1
  <2>3. removing' \in Seq(DlqEntry)
    BY <2>1, <2>2
  <2> QED BY <1>6, <2>3 DEF RemoveScan
<1>7. ASSUME RemoveDelete PROVE Goal
  <2>1. dlq' \in Seq(DlqEntry) /\ lost' \subseteq Events
    <3>1. CASE UNCHANGED <<dlq, lost>>
      BY <3>1
    <3>2. ASSUME NEW i \in DOMAIN dlq, dlq' = RemoveAt(dlq, i),
                 lost' = lost \cup {dlq[i].ev}
          PROVE  dlq' \in Seq(DlqEntry) /\ lost' \subseteq Events
      <4>1. i \in 1..Len(dlq) /\ dlq[i].ev \in Events
        BY DlqEntries
      <4>2. dlq' \in Seq(DlqEntry)
        BY <3>2, <4>1, RemoveAtElements
      <4> QED BY <3>2, <4>1, <4>2
    <3> QED BY <1>7, <3>1, <3>2 DEF RemoveDelete
  <2>2. <<>> \in Seq(DlqEntry)
    OBVIOUS
  <2> QED BY <1>7, <2>1, <2>2 DEF RemoveDelete
<1>8. ASSUME Purge PROVE Goal
  <2>1. \A i \in DOMAIN dlq : dlq[i].ev \in Events
    BY DlqEntries
  <2>2. lost' \subseteq Events /\ dlq' \in Seq(DlqEntry)
    BY <1>8, <2>1 DEF Purge, DeadEvents
  <2> QED BY <1>8, <2>2 DEF Purge
<1>9. ASSUME DrainQueue PROVE Goal
  <2>1. <<>> \in Seq(Events)
    OBVIOUS
  <2>2. list' \in Seq(Events) /\ listTtl' \in BOOLEAN
    BY <1>9, <2>1, SetListTypes DEF DrainQueue
  <2>3. lost' \subseteq Events
    BY <1>9, ElementsAreMembers DEF DrainQueue
  <2> QED BY <1>9, <2>2, <2>3 DEF DrainQueue
<1> QED BY <1>1, <1>2, <1>3, <1>4, <1>5, <1>6, <1>7, <1>8, <1>9
        DEF DeadLetterNext, ReplayStep

-----------------------------------------------------------------------------
(* The part of SubscriberInv that #processMessage and its handlers change.  *)
CallsInv ==
    /\ handlers \in [Procs -> SUBSET Handlers]
    /\ subscribed \in [Procs -> BOOLEAN]
    /\ active \in [Procs -> Int]
    /\ orphaned \in [Procs -> Int]
    /\ drain \in [Listeners -> {"off", "pop", "wait"}]
    /\ task \in [Slots -> TaskType \cup {Free}]
    /\ running \in [Slots -> SUBSET Handlers]
    /\ failing \in [Slots -> SUBSET Handlers]
    /\ \A s \in Slots : task[s].stage \notin Dispatched => running[s] = {} /\ failing[s] = {}

RestInv ==
    /\ connecting \subseteq Listeners
    /\ ack \in [Listeners -> BOOLEAN]
    /\ failures \in 0..MaxFailures
    /\ crashes \in 0..MaxCrashes

(* The subscriber's invariant splits into the part about calls and the      *)
(* rest, which different actions disturb.                                   *)
LEMMA SubscriberParts == SubscriberInv <=> CallsInv /\ RestInv
BY DEF SubscriberInv, SubscriberTypeOK, CallsInv, RestInv

(* The same in the state after a step.                                      *)
LEMMA SubscriberPartsNext == SubscriberInv' <=> CallsInv' /\ RestInv'
BY DEF SubscriberInv, SubscriberTypeOK, CallsInv, RestInv

(* A slot that is not free holds a call.                                    *)
LEMMA CallTypes ==
    ASSUME CallsInv, NEW s \in Slots, task[s] # Free
    PROVE  /\ task[s] \in TaskType
           /\ task[s].stage \in Stages /\ task[s].ev \in Events
           /\ task[s].lis \in Listeners /\ task[s].drained \in BOOLEAN
           /\ task[s].att \in Nat
BY DEF CallsInv, TaskType

(* A stage other than "free" means the slot is not free.                    *)
LEMMA StageNotFree ==
    ASSUME NEW s \in Slots, task[s].stage # "free"
    PROVE  task[s] # Free
BY DEF Free

(* Starting a call keeps the types.                                         *)
LEMMA ProcessMessageTypes ==
    ASSUME SubscriberAssumption, CallsInv,
           NEW s \in Slots, NEW l \in Listeners, NEW e \in Events,
           NEW drained \in BOOLEAN, ProcessMessage(s, l, e, drained),
           drain' \in [Listeners -> {"off", "pop", "wait"}]
    PROVE  CallsInv'
<1> DEFINE full == active[Owner[l]] >= Concurrency
           t == [stage |-> IF full THEN "full" ELSE "hget", ev |-> e,
                 lis |-> l, drained |-> drained, att |-> 0]
<1>1. t \in TaskType /\ t # Free
  BY DEF TaskType, Stages, CountedStages, Free
<1>2. Owner[l] \in Procs
  BY DEF SubscriberAssumption
<1>3. task' = [task EXCEPT ![s] = t]
  BY DEF ProcessMessage
<1>4. active' = [active EXCEPT ![Owner[l]] = IF full THEN @ ELSE @ + 1]
  BY DEF ProcessMessage
<1> HIDE DEF t, full
<1>5. task' \in [Slots -> TaskType \cup {Free}]
      /\ \A r \in Slots : task'[r].stage \notin Dispatched
            => running[r] = {} /\ failing[r] = {}
  <2>1. running[s] = {} /\ failing[s] = {}
    BY DEF CallsInv, ProcessMessage, Free, Dispatched
  <2> QED BY <1>1, <1>3, <2>1 DEF CallsInv
<1>6. active' \in [Procs -> Int]
  BY <1>2, <1>4 DEF CallsInv
<1> QED BY <1>5, <1>6 DEF CallsInv, ProcessMessage

(* So does the loop getting its call back.                                  *)
LEMMA ResumeDrainTypes ==
    ASSUME CallsInv, NEW s \in Slots, ResumeDrain(s)
    PROVE  drain' \in [Listeners -> {"off", "pop", "wait"}]
BY DEF CallsInv, ResumeDrain

(* The finally block keeps the types.                                       *)
LEMMA ReturnTypes ==
    ASSUME SubscriberAssumption, CallsInv, NEW s \in Slots, task[s] # Free,
           NEW rest \in SUBSET Handlers, NEW dying \in SUBSET Handlers,
           Return(s, rest, dying)
    PROVE  CallsInv'
<1>1. Owner[task[s].lis] \in Procs /\ task[s] \in TaskType
  BY CallTypes DEF SubscriberAssumption
<1>2. active' \in [Procs -> Int]
  BY <1>1 DEF Return, TaskProc, CallsInv
<1>3. drain' \in [Listeners -> {"off", "pop", "wait"}]
  BY ResumeDrainTypes DEF Return
<1>4. [task[s] EXCEPT !.stage = "settled"] \in TaskType
  BY <1>1 DEF TaskType, Stages
<1>5. running' \in [Slots -> SUBSET Handlers] /\ failing' \in [Slots -> SUBSET Handlers]
  BY DEF Return, CallsInv
<1>6. task' \in [Slots -> TaskType \cup {Free}]
  BY <1>4 DEF Return, CallsInv
<1>7. [task[s] EXCEPT !.stage = "settled"].stage \in Dispatched
  BY <1>1 DEF TaskType, Dispatched
<1>8. \A r \in Slots : task'[r].stage \notin Dispatched
         => running'[r] = {} /\ failing'[r] = {}
  BY <1>7 DEF Return, CallsInv
<1> QED BY <1>2, <1>3, <1>5, <1>6, <1>8 DEF CallsInv, Return

(* So does calling the handlers.                                            *)
LEMMA DispatchTypes ==
    ASSUME SubscriberAssumption, CallsInv, NEW s \in Slots, task[s] # Free,
           NEW att \in Nat, Dispatch(s, att)
    PROVE  CallsInv'
<1>1. task[s] \in TaskType /\ TaskProc(s) \in Procs
  BY CallTypes DEF SubscriberAssumption, TaskProc
<1>2. CASE Return(s, {}, {})
  BY <1>2, ReturnTypes
<1>3. CASE task' = [task EXCEPT ![s].stage = "run", ![s].att = att]
           /\ running' = [running EXCEPT ![s] = handlers[TaskProc(s)]]
           /\ UNCHANGED <<procVars, drain, failing>>
  <2> DEFINE t == [task[s] EXCEPT !.stage = "run", !.att = att]
  <2>1. t \in TaskType /\ t.stage \in Dispatched
    BY <1>1 DEF TaskType, Stages, CountedStages, Dispatched
  <2>2. task' = [task EXCEPT ![s] = t]
    BY <1>3
  <2> HIDE DEF t
  <2> QED BY ZenonT(40), <1>1, <1>3, <2>1, <2>2 DEF CallsInv, procVars
<1> QED BY <1>2, <1>3 DEF Dispatch

(* So does a handler that settles after the call has returned.              *)
LEMMA AbandonTypes ==
    ASSUME SubscriberAssumption, CallsInv, NEW s \in Slots, task[s].stage \in Dispatched,
           NEW rest \in SUBSET Handlers, NEW dying \in SUBSET Handlers,
           Abandon(s, rest, dying)
    PROVE  CallsInv'
<1>1. task' \in [Slots -> TaskType \cup {Free}]
  BY DEF Abandon, CallsInv
<1>2. running' \in [Slots -> SUBSET Handlers] /\ failing' \in [Slots -> SUBSET Handlers]
  BY DEF Abandon, CallsInv
<1>3. \A r \in Slots : task'[r].stage \notin Dispatched
         => running'[r] = {} /\ failing'[r] = {}
  BY DEF Abandon, CallsInv
<1> QED BY <1>1, <1>2, <1>3 DEF CallsInv, Abandon, procVars

(* So does Promise.all rejecting.                                           *)
LEMMA RejectTypes ==
    ASSUME SubscriberAssumption, CallsInv, NEW s \in Slots, task[s].stage \in Dispatched,
           lost \subseteq Events,
           NEW rest \in SUBSET Handlers, NEW dying \in SUBSET Handlers, NEW dead,
           Reject(s, rest, dying, dead)
    PROVE  CallsInv' /\ lost' \subseteq Events
<1>1. task[s] # Free /\ task[s] \in TaskType /\ task[s].ev \in Events
  BY CallTypes, StageNotFree DEF Dispatched
<1>2. ASSUME Return(s, rest, dying),
             lost' = IF task[s].drained /\ ~dead THEN lost \cup {task[s].ev} ELSE lost
      PROVE  CallsInv' /\ lost' \subseteq Events
  BY <1>1, <1>2, ReturnTypes
<1>3. ASSUME task' = [task EXCEPT ![s].stage = "requeue"],
             running' = [running EXCEPT ![s] = rest],
             failing' = [failing EXCEPT ![s] = dying],
             UNCHANGED <<procVars, drain, lost>>
      PROVE  CallsInv' /\ lost' \subseteq Events
  <2> DEFINE t == [task[s] EXCEPT !.stage = "requeue"]
  <2>1. t \in TaskType /\ t.stage \in Dispatched
    BY <1>1 DEF TaskType, Stages, CountedStages, Dispatched
  <2>2. task' = [task EXCEPT ![s] = t]
    BY <1>3
  <2> HIDE DEF t
  <2> QED BY <1>3, <2>1, <2>2 DEF CallsInv, procVars
<1>4. ASSUME Abandon(s, rest, dying), UNCHANGED lost
      PROVE  CallsInv' /\ lost' \subseteq Events
  BY <1>4, AbandonTypes
<1> QED BY <1>2, <1>3, <1>4 DEF Reject

-----------------------------------------------------------------------------
(* Subscribing, listening and the message sources.                          *)
LEMMA ListenerTypes ==
    ASSUME SubscriberAssumption, RedisTypeOK, CallsInv, RestInv
    PROVE  /\ \A p \in Procs, h \in Handlers, a \in AckModes :
                 Subscribe(p, h, a) => RedisTypeOK' /\ CallsInv' /\ RestInv'
           /\ \A p \in Procs, h \in Handlers :
                 Unsubscribe(p, h) => RedisTypeOK' /\ CallsInv' /\ RestInv'
           /\ \A l \in Listeners :
                 ListenerStep(l) => RedisTypeOK' /\ CallsInv' /\ RestInv'
<1> DEFINE Goal == RedisTypeOK' /\ CallsInv' /\ RestInv'
<1>1. ASSUME NEW p \in Procs, NEW h \in Handlers, NEW a \in AckModes, Subscribe(p, h, a)
      PROVE  Goal
  <2>1. RedisTypeOK'
    BY <1>1 DEF Subscribe, RedisTypeOK, redisVars, history
  <2>2. CallsInv'
    BY <1>1 DEF Subscribe, CallsInv, taskVars
  <2>3. RestInv'
    <3>1. a \in BOOLEAN
      BY DEF SubscriberAssumption
    <3> QED BY <1>1, <3>1 DEF Subscribe, RestInv, faults
  <2> QED BY <2>1, <2>2, <2>3
<1>2. ASSUME NEW p \in Procs, NEW h \in Handlers, Unsubscribe(p, h)
      PROVE  Goal
  <2>1. RedisTypeOK' /\ RestInv'
    BY <1>2 DEF Unsubscribe, RedisTypeOK, RestInv, redisVars, history, lisVars, faults
  <2>2. CallsInv'
    BY <1>2 DEF Unsubscribe, CallsInv, taskVars, lisVars
  <2> QED BY <2>1, <2>2
<1>3. ASSUME NEW l \in Listeners, Listen(l) PROVE Goal
  BY <1>3 DEF Listen, RedisTypeOK, CallsInv, RestInv, history, procVars, taskVars, faults
<1>4. ASSUME NEW l \in Listeners, DrainEnds(l) PROVE Goal
  BY <1>4 DEF DrainEnds, RedisTypeOK, CallsInv, RestInv, redisVars, history,
              procVars, taskVars, faults
<1>5. ASSUME NEW l \in Listeners, NEW s \in Slots, Receive(s, l) PROVE Goal
  <2>1. inbox[l] \in Seq(Events) /\ inbox[l] # <<>>
    BY <1>5 DEF Receive, RedisTypeOK
  <2>2. Head(inbox[l]) \in Events /\ Tail(inbox[l]) \in Seq(Events)
    BY <2>1, TailElements
  <2>3. CallsInv'
    <3>1. ProcessMessage(s, l, Head(inbox[l]), FALSE) /\ drain' = drain
      BY <1>5 DEF Receive, lisVars
    <3>2. drain' \in [Listeners -> {"off", "pop", "wait"}]
      BY <3>1 DEF CallsInv
    <3> QED BY <2>2, <3>1, <3>2, ProcessMessageTypes
  <2>4. RedisTypeOK' /\ RestInv'
    BY <1>5, <2>2 DEF Receive, RedisTypeOK, RestInv, history, lisVars, faults
  <2> QED BY <2>3, <2>4
<1>6. ASSUME NEW l \in Listeners, NEW s \in Slots, DrainPop(s, l) PROVE Goal
  <2>1. Front(list) \in Seq(Events) /\ Last(list) \in Events
    BY <1>6, FrontElements DEF DrainPop, RedisTypeOK
  <2>2. list' \in Seq(Events) /\ listTtl' \in BOOLEAN
    BY <1>6, <2>1, SetListTypes DEF DrainPop, RedisTypeOK
  <2>3. CallsInv'
    <3>1. drain' \in [Listeners -> {"off", "pop", "wait"}]
      BY <1>6 DEF DrainPop, CallsInv
    <3> QED BY <1>6, <2>1, <3>1, ProcessMessageTypes DEF DrainPop
  <2>4. RedisTypeOK' /\ RestInv'
    BY <1>6, <2>2 DEF DrainPop, RedisTypeOK, RestInv, history, faults
  <2> QED BY <2>3, <2>4
<1> QED BY <1>1, <1>2, <1>3, <1>4, <1>5, <1>6 DEF ListenerStep

(* The rest of a #processMessage call.                                      *)
LEMMA SlotTypes ==
    ASSUME SubscriberAssumption, RedisTypeOK, CallsInv, RestInv, NEW s \in Slots
    PROVE  /\ SlotStep(s) => RedisTypeOK' /\ CallsInv' /\ RestInv'
           /\ \A h \in Handlers : HandlerFails(s, h) \/ PushToDLQFails(s, h)
                 => RedisTypeOK' /\ CallsInv' /\ RestInv'
<1> DEFINE Goal == RedisTypeOK' /\ CallsInv' /\ RestInv'
<1> DEFINE Drains == drain' \in [Listeners -> {"off", "pop", "wait"}]
<1>1. ASSUME PushBack(s) PROVE Goal
  <2>1. task[s] # Free /\ task[s].ev \in Events
    BY <1>1, StageNotFree, CallTypes DEF PushBack
  <2>2. list' \in Seq(Events) /\ listTtl' \in BOOLEAN
    BY <1>1, <2>1, LPushTypes DEF PushBack, RedisTypeOK
  <2>3. Drains
    BY <1>1, ResumeDrainTypes DEF PushBack
  <2>4. running[s] = {} /\ failing[s] = {}
    BY <1>1 DEF PushBack, CallsInv, Dispatched
  <2>5. CallsInv'
    BY <1>1, <2>3, <2>4 DEF PushBack, CallsInv, procVars
  <2> QED BY <1>1, <2>2, <2>5 DEF PushBack, RedisTypeOK, RestInv, history, faults
<1>2. ASSUME GetAttempts(s) PROVE Goal
  <2> DEFINE att == attempts[task[s].ev] + 1
  <2>1. task[s] # Free /\ task[s] \in TaskType /\ task[s].ev \in Events
    BY <1>2, StageNotFree, CallTypes DEF GetAttempts
  <2>2. att \in Nat
    BY <2>1 DEF RedisTypeOK
  <2>3. CASE Dispatch(s, att)
    <3>1. CallsInv'
      BY <2>1, <2>2, <2>3, DispatchTypes
    <3>2. lost' \subseteq Events
      BY <2>1, <2>3 DEF Dispatch, RedisTypeOK
    <3> QED BY <1>2, <3>1, <3>2 DEF GetAttempts, RedisTypeOK, RestInv, redisVars, faults
  <2>4. CASE task' = [task EXCEPT ![s].stage = "hset", ![s].att = att]
             /\ UNCHANGED <<procVars, drain, running, failing, lost>>
    <3> DEFINE t == [task[s] EXCEPT !.stage = "hset", !.att = att]
    <3>1. t \in TaskType
      BY <2>1, <2>2 DEF TaskType, Stages, CountedStages
    <3>2. task' = [task EXCEPT ![s] = t]
      BY <2>4
    <3>3. running[s] = {} /\ failing[s] = {}
      BY <1>2 DEF GetAttempts, CallsInv, Dispatched
    <3> HIDE DEF t
    <3>4. CallsInv'
      BY <2>4, <3>1, <3>2, <3>3 DEF CallsInv, procVars
    <3> QED BY <1>2, <2>4, <3>4 DEF GetAttempts, RedisTypeOK, RestInv, redisVars, faults
  <2> QED BY <1>2, <2>3, <2>4 DEF GetAttempts
<1>3. ASSUME SetAttempts(s) PROVE Goal
  <2>1. task[s] # Free /\ task[s].ev \in Events /\ task[s].att \in Nat
    BY <1>3, StageNotFree, CallTypes DEF SetAttempts
  <2>2. CallsInv'
    BY <1>3, <2>1, DispatchTypes DEF SetAttempts
  <2>3. lost' \subseteq Events
    BY <1>3, <2>1 DEF SetAttempts, Dispatch, RedisTypeOK
  <2>4. attempts' \in [Events -> Nat]
    BY <1>3, <2>1 DEF SetAttempts, RedisTypeOK
  <2> QED BY <1>3, <2>2, <2>3, <2>4 DEF SetAttempts, RedisTypeOK, RestInv, faults
<1>4. ASSUME Requeue(s) PROVE Goal
  <2>1. task[s] # Free /\ task[s].ev \in Events
    BY <1>4, StageNotFree, CallTypes DEF Requeue
  <2>2. list' \in Seq(Events) /\ listTtl' \in BOOLEAN
    BY <1>4, <2>1, LPushTypes DEF Requeue, RedisTypeOK
  <2>3. running[s] \in SUBSET Handlers /\ failing[s] \in SUBSET Handlers
    BY DEF CallsInv
  <2>4. CallsInv'
    BY <1>4, <2>1, <2>3, ReturnTypes DEF Requeue
  <2> QED BY <1>4, <2>2, <2>4 DEF Requeue, RedisTypeOK, RestInv, history, faults
<1>5. ASSUME NEW h \in Handlers, HandlerSucceeds(s, h) PROVE Goal
  <2>1. task[s].stage \in Dispatched
    BY <1>5 DEF HandlerSucceeds, CallsInv
  <2>2. task[s] # Free /\ task[s].ev \in Events
    BY <2>1, StageNotFree, CallTypes DEF Dispatched
  <2>3. running[s] \ {h} \in SUBSET Handlers /\ failing[s] \in SUBSET Handlers
        /\ {} \in SUBSET Handlers
    BY DEF CallsInv
  <2>4. CallsInv'
    BY <1>5, <2>1, <2>2, <2>3, ReturnTypes, AbandonTypes DEF HandlerSucceeds
  <2> QED BY <1>5, <2>2, <2>4 DEF HandlerSucceeds, RedisTypeOK, RestInv, redisVars, faults
<1>6. ASSUME NEW h \in Handlers, HandlerFails(s, h) PROVE Goal
  <2>1. task[s].stage \in Dispatched
    BY <1>6 DEF HandlerFails, CallsInv
  <2>2. running[s] \ {h} \in SUBSET Handlers /\ failing[s] \in SUBSET Handlers
    BY DEF CallsInv
  <2>3. CallsInv' /\ lost' \subseteq Events
    <3>1. CASE Reject(s, running[s] \ {h}, failing[s], FALSE)
      BY <2>1, <2>2, <3>1, RejectTypes DEF RedisTypeOK
    <3>2. CASE /\ running' = [running EXCEPT ![s] = @ \ {h}]
               /\ failing' = [failing EXCEPT ![s] = @ \cup {h}]
               /\ UNCHANGED <<task, procVars, drain, lost>>
      BY <2>1, <3>2 DEF CallsInv, RedisTypeOK, procVars
    <3> QED BY <1>6, <3>1, <3>2 DEF HandlerFails
  <2>4. failures' \in 0..MaxFailures
    BY <1>6 DEF HandlerFails, RestInv, SubscriberAssumption
  <2> QED BY <1>6, <2>3, <2>4 DEF HandlerFails, RedisTypeOK, RestInv, redisVars
<1>7. ASSUME NEW h \in Handlers, PushToDLQ(s, h) PROVE Goal
  <2>1. task[s].stage \in Dispatched
    BY <1>7 DEF PushToDLQ, CallsInv
  <2>2. task[s].ev \in Events /\ task[s].att \in Nat
    BY <2>1, StageNotFree, CallTypes DEF Dispatched
  <2>3. running[s] \in SUBSET Handlers /\ failing[s] \ {h} \in SUBSET Handlers
    BY DEF CallsInv
  <2>4. CallsInv' /\ lost' \subseteq Events
    BY <1>7, <2>1, <2>3, RejectTypes DEF PushToDLQ, RedisTypeOK
  <2>5. dlq' \in Seq(DlqEntry)
    <3>1. [ev |-> task[s].ev, att |-> task[s].att] \in DlqEntry
      BY <2>2 DEF DlqEntry
    <3> QED BY <1>7, <3>1, ConsElements DEF PushToDLQ, RedisTypeOK
  <2> QED BY <1>7, <2>4, <2>5 DEF PushToDLQ, RedisTypeOK, RestInv, faults
<1>8. ASSUME NEW h \in Handlers, PushToDLQFails(s, h) PROVE Goal
  <2>1. task[s].stage \in Dispatched
    BY <1>8 DEF PushToDLQFails, CallsInv
  <2>2. running[s] \in SUBSET Handlers /\ failing[s] \ {h} \in SUBSET Handlers
    BY DEF CallsInv
  <2>3. CallsInv' /\ lost' \subseteq Events
    BY <1>8, <2>1, <2>2, RejectTypes DEF PushToDLQFails, RedisTypeOK
  <2>4. failures' \in 0..MaxFailures
    BY <1>8 DEF PushToDLQFails, RestInv, SubscriberAssumption
  <2> QED BY <1>8, <2>3, <2>4 DEF PushToDLQFails, RedisTypeOK, RestInv, redisVars
<1> QED BY <1>1, <1>2, <1>3, <1>4, <1>5, <1>6, <1>7, <1>8 DEF SlotStep, HandlerStep

(* A crash clears what the process had in memory.                           *)
LEMMA CrashTypes ==
    ASSUME SubscriberAssumption, RedisTypeOK, CallsInv, RestInv,
           NEW p \in Procs, Crash(p)
    PROVE  RedisTypeOK' /\ CallsInv' /\ RestInv'
<1> DEFINE mine == {l \in Listeners : Owner[l] = p}
           gone == {s \in Slots : task[s] # Free /\ TaskProc(s) = p}
<1>1. /\ connecting' = connecting \ mine /\ connected' = connected \ mine
      /\ inbox' = [l \in Listeners |-> IF l \in mine THEN <<>> ELSE inbox[l]]
      /\ ack' = [l \in Listeners |-> IF l \in mine THEN FALSE ELSE ack[l]]
      /\ drain' = [l \in Listeners |-> IF l \in mine THEN "off" ELSE drain[l]]
      /\ task' = [s \in Slots |-> IF s \in gone THEN Free ELSE task[s]]
      /\ running' = [s \in Slots |-> IF s \in gone THEN {} ELSE running[s]]
      /\ failing' = [s \in Slots |-> IF s \in gone THEN {} ELSE failing[s]]
      /\ lost' = lost \cup {task[s].ev : s \in {t \in gone : Holds(t)}}
  BY DEF Crash
<1>2. \A s \in gone : task[s].ev \in Events
  BY CallTypes
<1> HIDE DEF mine, gone
<1>3. lost' \subseteq Events
  BY <1>1, <1>2 DEF RedisTypeOK
<1>4. <<>> \in Seq(Events)
  OBVIOUS
<1>5. RedisTypeOK'
  BY <1>1, <1>3, <1>4 DEF Crash, RedisTypeOK
<1>6. CallsInv'
  BY <1>1 DEF Crash, CallsInv
<1>7. RestInv'
  <2>1. crashes' = crashes + 1 /\ crashes < MaxCrashes /\ failures' = failures
    BY DEF Crash
  <2>2. crashes' \in 0..MaxCrashes
    BY <2>1 DEF RestInv, SubscriberAssumption
  <2>3. ack' \in [Listeners -> BOOLEAN]
    BY <1>1 DEF RestInv
  <2> QED BY <1>1, <2>1, <2>2, <2>3 DEF RestInv
<1> QED BY <1>5, <1>6, <1>7

(* Consumer processes keep the types of the Redis keys and of their own     *)
(* state.                                                                   *)
LEMMA SubscriberTypes ==
    ASSUME SubscriberAssumption, RedisTypeOK, SubscriberInv, SubscriberNext
    PROVE  RedisTypeOK' /\ SubscriberInv'
<1>1. CallsInv /\ RestInv
  BY SubscriberParts
<1>2. RedisTypeOK' /\ CallsInv' /\ RestInv'
  BY <1>1, ListenerTypes, SlotTypes, CrashTypes DEF SubscriberNext
<1> QED BY <1>2, SubscriberPartsNext

-----------------------------------------------------------------------------
(* TypeInv holds initially and every step of the channel keeps it.          *)
LEMMA TypeInvInit == ASSUME SubscriberAssumption, Init PROVE TypeInv
<1> USE DEF Init
<1>1. RedisTypeOK
  <2>1. <<>> \in Seq(Events) /\ <<>> \in Seq(DlqEntry)
    OBVIOUS
  <2> QED BY <2>1 DEF RedisInit, RedisTypeOK
<1>2. PublisherInv
  BY DEF PublisherInit, PublisherInv, PublisherTypeOK
<1>3. SubscriberInv
  BY DEF SubscriberInit, SubscriberInv, SubscriberTypeOK, SubscriberAssumption
<1>4. DeadLetterInv
  BY DEF DeadLetterInit, DeadLetterInv, DeadLetterTypeOK
<1> QED BY <1>1, <1>2, <1>3, <1>4 DEF TypeInv

(* Every step of the composed system, of whichever component, preserves     *)
(* the inductive type invariant.                                            *)
LEMMA TypeInvStep ==
    ASSUME PublisherAssumption, SubscriberAssumption, TypeInv, [Next]_vars
    PROVE  TypeInv'
<1> USE DEF TypeInv
<1>1. ASSUME UNCHANGED pub PROVE PublisherInv'
  BY <1>1 DEF PublisherInv, PublisherTypeOK
<1>2. ASSUME UNCHANGED subVars PROVE SubscriberInv'
  BY <1>2 DEF SubscriberInv, SubscriberTypeOK, subVars, procVars, lisVars, taskVars, faults
<1>3. ASSUME UNCHANGED admVars PROVE DeadLetterInv'
  BY <1>3 DEF DeadLetterInv, DeadLetterTypeOK, admVars
<1>4. CASE RedisNext /\ UNCHANGED <<pub, subVars, admVars>>
  BY <1>1, <1>2, <1>3, <1>4, RedisTypes
<1>5. CASE PublisherNext /\ UNCHANGED <<subVars, admVars>>
  BY <1>2, <1>3, <1>5, PublisherTypes
<1>6. CASE SubscriberNext /\ UNCHANGED <<pub, admVars>>
  BY <1>1, <1>3, <1>6, SubscriberTypes
<1>7. CASE DeadLetterNext /\ UNCHANGED <<pub, subVars>>
  BY <1>1, <1>2, <1>7, DeadLetterTypes
<1>8. CASE UNCHANGED vars
  <2>1. RedisTypeOK'
    BY <1>8 DEF RedisTypeOK, vars, redisVars, history
  <2> QED BY <1>1, <1>2, <1>3, <1>8, <2>1 DEF vars
<1> QED BY <1>4, <1>5, <1>6, <1>7, <1>8 DEF Next

(* In every reachable state every variable has its type, whatever the sets  *)
(* of events, processes, listeners, handlers and slots and the options.     *)
THEOREM TypeInvariant == Spec => []TypeInv
<1>1. PublisherAssumption /\ SubscriberAssumption
  BY PublisherConstants, SubscriberConstants
<1>2. Init => TypeInv
  BY <1>1, TypeInvInit
<1>3. TypeInv /\ [Next]_vars => TypeInv'
  BY <1>1, TypeInvStep
<1> QED BY <1>2, <1>3, PTL DEF Spec

(* In every reachable state each Redis key and each field of the            *)
(* publishers, the consumers and the operator tools has the type the code   *)
(* gives it.                                                                *)
THEOREM TypeCorrect == Spec => []TypeOK
<1>1. TypeInv => TypeOK
  BY DEF TypeInv, TypeOK, PublisherInv, SubscriberInv, DeadLetterInv
<1> QED BY <1>1, TypeInvariant, PTL
=============================================================================
