----------------------------- MODULE Publisher ------------------------------
(***************************************************************************)
(* packages/queue/src/publisher.ts: one publish (or publishBulk) call per   *)
(* event.  Every await is a step of its own, so calls interleave, and a     *)
(* call may fail (a Redis error, the publishing process gone) between any   *)
(* two of its commands.  Envelopes that do not validate are rejected before *)
(* the first command and leave no trace; they are not modelled.             *)
(***************************************************************************)
EXTENDS RedisChannel

CONSTANTS
    KeyOf,           \* the dedupeKey option of each event's publish call
    NoKey,           \* ... or none
    MaxQueueLength,  \* QueueConfig.maxQueueLength, 0 = unlimited
    TtlEvents,       \* events published with the ttl option
    BulkAllowed      \* whether publishBulk is called at all

VARIABLE pub         \* where the publish call of each event stands

PublisherAssumption ==
    /\ NoKey \notin Keys
    /\ KeyOf \in [Events -> Keys \cup {NoKey}]
    /\ MaxQueueLength \in Nat
    /\ TtlEvents \subseteq Events
    /\ BulkAllowed \in BOOLEAN

ASSUME PublisherConstants == PublisherAssumption

Single == {"setkey", "push", "trim", "notify", "expire"}
Bulk   == {"bulk", "bulkNotify", "bulkDone"}
Ended  == {"published", "rejected", "failed"}

PublisherTypeOK == pub \in [Events -> {"new"} \cup Single \cup Bulk \cup Ended]

PublisherInit == pub = [e \in Events |-> "new"]

Goto(e, stage) == pub' = [pub EXCEPT ![e] = stage]

-----------------------------------------------------------------------------
(* publish(): EXISTS dedupeKey, and throw when the key is there.            *)
CheckDedupe(e) ==
    /\ pub[e] = "new" /\ KeyOf[e] # NoKey
    /\ Goto(e, IF KeyOf[e] \in dedupe THEN "rejected" ELSE "setkey")
    /\ UNCHANGED <<redisVars, history>>

(* publish(): SETEX dedupeKey, whatever happened since the EXISTS.          *)
SetDedupe(e) ==
    /\ pub[e] = "setkey"
    /\ dedupe' = dedupe \cup {KeyOf[e]}
    /\ Goto(e, "push")
    /\ UNCHANGED <<list, listTtl, attempts, dlq, connected, inbox, history>>

(* publish(): LPUSH.  A call without a dedupeKey starts here.               *)
Push(e) ==
    /\ pub[e] = "push" \/ (pub[e] = "new" /\ KeyOf[e] = NoKey)
    /\ LPushList(e)
    /\ pushed' = pushed \cup {e}
    /\ Goto(e, IF MaxQueueLength > 0 THEN "trim" ELSE "notify")
    /\ UNCHANGED <<attempts, dlq, dedupe, connected, inbox, processed, lost>>

(* publish(): LTRIM 0 maxQueueLength-1 cuts the tail, the oldest entries.   *)
Trim(e) ==
    /\ pub[e] = "trim"
    /\ SetList(Newest(MaxQueueLength))
    /\ lost' = lost \cup ToSet(SubSeq(list, MaxQueueLength + 1, Len(list)))
    /\ Goto(e, "notify")
    /\ UNCHANGED <<attempts, dlq, dedupe, connected, inbox, pushed, processed>>

(* publish(): PUBLISH the same envelope on the pub/sub key.                 *)
Notify(e) ==
    /\ pub[e] = "notify"
    /\ PubSub(e)
    /\ Goto(e, IF e \in TtlEvents THEN "expire" ELSE "published")
    /\ UNCHANGED <<list, listTtl, attempts, dlq, dedupe, connected, history>>

(* publish(): EXPIRE listKey ttl puts the TTL on the whole list.            *)
Expire(e) ==
    /\ pub[e] = "expire"
    /\ listTtl' = (list # <<>>)
    /\ Goto(e, "published")
    /\ UNCHANGED <<list, attempts, dlq, dedupe, connected, inbox, history>>

(* A command rejects or the process is gone: publish() throws where it is.  *)
PublishFails(e) ==
    /\ pub[e] \in Single
    /\ Goto(e, "failed")
    /\ UNCHANGED <<redisVars, history>>

-----------------------------------------------------------------------------
(* publishBulk(): one pipeline of LPUSH and PUBLISH pairs, in the order of  *)
(* the caller's array (any order), with one EXPIRE last.  The dedupe keys   *)
(* it sets carry the event id and are never read, so they are left out.     *)
(* At most one bulk call is under way.                                      *)
BulkStart(batch) ==
    /\ BulkAllowed
    /\ \A e \in Events : pub[e] \notin Bulk
    /\ \A e \in batch : pub[e] = "new"
    /\ batch \subseteq TtlEvents \/ batch \cap TtlEvents = {}
    /\ pub' = [e \in Events |-> IF e \in batch THEN "bulk" ELSE pub[e]]
    /\ UNCHANGED <<redisVars, history>>

BulkPush(e) ==
    /\ pub[e] = "bulk"
    /\ \A f \in Events : pub[f] # "bulkNotify"
    /\ LPushList(e)
    /\ pushed' = pushed \cup {e}
    /\ Goto(e, "bulkNotify")
    /\ UNCHANGED <<attempts, dlq, dedupe, connected, inbox, processed, lost>>

BulkNotify(e) ==
    /\ pub[e] = "bulkNotify"
    /\ PubSub(e)
    /\ Goto(e, "bulkDone")
    /\ UNCHANGED <<list, listTtl, attempts, dlq, dedupe, connected, history>>

(* The connection is gone before the pipeline has run to its end: exec()    *)
(* rejects for the whole batch, some of which may be on the list.           *)
BulkFails ==
    /\ \E e \in Events : pub[e] \in Bulk
    /\ pub' = [e \in Events |-> IF pub[e] \in Bulk THEN "failed" ELSE pub[e]]
    /\ UNCHANGED <<redisVars, history>>

BulkFinish ==
    LET done == {e \in Events : pub[e] = "bulkDone"} IN
    /\ done # {}
    /\ \A e \in Events : pub[e] \notin {"bulk", "bulkNotify"}
    /\ pub' = [e \in Events |-> IF e \in done THEN "published" ELSE pub[e]]
    /\ listTtl' = (list # <<>> /\ (listTtl \/ done \subseteq TtlEvents))
    /\ UNCHANGED <<list, attempts, dlq, dedupe, connected, inbox, history>>

-----------------------------------------------------------------------------
PublishStep(e) ==
    \/ CheckDedupe(e) \/ SetDedupe(e) \/ Push(e) \/ Trim(e)
    \/ Notify(e) \/ Expire(e) \/ BulkPush(e) \/ BulkNotify(e)

PublisherNext ==
    \/ \E e \in Events : PublishStep(e) \/ PublishFails(e)
    \/ \E batch \in SUBSET Events \ {{}} : BulkStart(batch)
    \/ BulkFails
    \/ BulkFinish
=============================================================================
