----------------------------- MODULE DeadLetter -----------------------------
(***************************************************************************)
(* packages/queue/src/dead-letter.ts and Queue.drain (queue.ts): the        *)
(* operator's side of a channel.  One replay and one removal may be under   *)
(* way at a time.  getDLQStats, peekDLQ and depth only read.                *)
(***************************************************************************)
EXTENDS RedisChannel

CONSTANT AdminOps   \* the operations that are used: replay, remove, purge, drain

VARIABLES
    replay,    \* stage of replayFromDLQ: off, pop, exec
    pipeline,  \* the entries it has popped and queued for LPUSH
    removing   \* the raw entry removeFromDLQ has found, as a 0/1-element tuple

admVars == <<replay, pipeline, removing>>

DeadLetterAssumption == AdminOps \subseteq {"replay", "remove", "purge", "drain"}

ASSUME DeadLetterConstants == DeadLetterAssumption

DeadLetterTypeOK ==
    /\ replay \in {"off", "pop", "exec"}
    /\ pipeline \in Seq(Events)
    /\ removing \in Seq(DlqEntry)

DeadLetterInit ==
    /\ replay = "off"
    /\ pipeline = <<>>
    /\ removing = <<>>

-----------------------------------------------------------------------------
ReplayStart ==
    /\ "replay" \in AdminOps /\ replay = "off" /\ dlq # <<>>
    /\ replay' = "pop"
    /\ UNCHANGED <<redisVars, history, pipeline, removing>>

(* Mutant: the whole entry is queued for replay, not the event inside it.   *)
ReplayPopEntry ==
    /\ replay = "pop" /\ dlq # <<>>
    /\ pipeline' = Append(pipeline, Last(dlq))
    /\ dlq' = Front(dlq)
    /\ UNCHANGED <<list, listTtl, attempts, dedupe, connected, inbox, history,
                   replay, removing>>

(* replayFromDLQ: RPOP the oldest entry; its event joins a pipeline that    *)
(* exists in this process only.                                             *)
ReplayPop ==
    /\ replay = "pop" /\ dlq # <<>>
    /\ pipeline' = Append(pipeline, Last(dlq).ev)
    /\ dlq' = Front(dlq)
    /\ UNCHANGED <<list, listTtl, attempts, dedupe, connected, inbox, history,
                   replay, removing>>

(* The DLQ is empty: exec() the pipeline, if anything is in it.             *)
ReplayEmpty ==
    /\ replay = "pop" /\ dlq = <<>>
    /\ replay' = IF pipeline = <<>> THEN "off" ELSE "exec"
    /\ UNCHANGED <<redisVars, history, pipeline, removing>>

(* The pipeline's commands run: an LPUSH each, and no PUBLISH.              *)
ReplayExec ==
    /\ replay = "exec"
    /\ LPushList(Head(pipeline))
    /\ pipeline' = Tail(pipeline)
    /\ replay' = IF Tail(pipeline) = <<>> THEN "off" ELSE "exec"
    /\ UNCHANGED <<attempts, dlq, dedupe, connected, inbox, history, removing>>

(* The replaying process dies, or exec() rejects: what was popped is gone.  *)
ReplayDies ==
    /\ replay # "off"
    /\ lost' = lost \cup ToSet(pipeline)
    /\ pipeline' = <<>>
    /\ replay' = "off"
    /\ UNCHANGED <<redisVars, pushed, processed, removing>>

(* removeFromDLQ: LRANGE, and pick the first entry with this message id.    *)
RemoveScan(e) ==
    /\ "remove" \in AdminOps /\ removing = <<>>
    /\ \E i \in DOMAIN dlq :
          /\ dlq[i].ev = e
          /\ \A j \in 1..(i - 1) : dlq[j].ev # e
          /\ removing' = <<dlq[i]>>
    /\ UNCHANGED <<redisVars, history, replay, pipeline>>

(* removeFromDLQ: LREM 1 of exactly that entry, wherever it is by now.      *)
RemoveDelete ==
    /\ removing # <<>>
    /\ \/ \E i \in DOMAIN dlq :
             /\ dlq[i] = removing[1]
             /\ \A j \in 1..(i - 1) : dlq[j] # removing[1]
             /\ dlq' = RemoveAt(dlq, i)
             /\ lost' = lost \cup {dlq[i].ev}
       \/ /\ \A i \in DOMAIN dlq : dlq[i] # removing[1]
          /\ UNCHANGED <<dlq, lost>>
    /\ removing' = <<>>
    /\ UNCHANGED <<list, listTtl, attempts, dedupe, connected, inbox, pushed,
                   processed, replay, pipeline>>

(* purgeDLQ: DEL dlqKey                                                     *)
Purge ==
    /\ "purge" \in AdminOps /\ dlq # <<>>
    /\ dlq' = <<>>
    /\ lost' = lost \cup DeadEvents(dlq)
    /\ UNCHANGED <<list, listTtl, attempts, dedupe, connected, inbox, pushed,
                   processed, admVars>>

(* Queue.drain: DEL listKey (the LLEN before it only feeds the result).     *)
DrainQueue ==
    /\ "drain" \in AdminOps /\ list # <<>>
    /\ SetList(<<>>)
    /\ lost' = lost \cup ToSet(list)
    /\ UNCHANGED <<attempts, dlq, dedupe, connected, inbox, pushed, processed,
                   admVars>>

ReplayStep == ReplayPop \/ ReplayEmpty \/ ReplayExec

DeadLetterNext ==
    \/ ReplayStart \/ ReplayStep \/ ReplayDies
    \/ \E e \in Events : RemoveScan(e)
    \/ RemoveDelete \/ Purge \/ DrainQueue
=============================================================================
