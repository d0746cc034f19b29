---------------------------- MODULE RedisChannel ----------------------------
(***************************************************************************)
(* The Redis keys behind one channel of packages/queue, and the commands    *)
(* the package issues on them.  Redis runs one command at a time, so each   *)
(* operator below is the effect of one command; what may happen between two *)
(* commands of one caller is left to the modules that issue them.           *)
(*                                                                          *)
(* The package always writes the head of a list (LPUSH) and reads its tail  *)
(* (RPOP): the head of the sequence is the newest entry.                    *)
(***************************************************************************)
EXTENDS Integers, Sequences, SequencesExt

CONSTANTS
    Events,      \* event envelopes, told apart by their id
    Keys,        \* values of PublishOptions.dedupeKey in use
    Listeners,   \* duplicated connections that may SUBSCRIBE to the channel
    DropsAllowed \* whether a pub/sub connection may drop

VARIABLES
    list,        \* <prefix>:queue:<channel>
    listTtl,     \* whether an EXPIRE is pending on that key
    attempts,    \* <prefix>:attempts:<channel>, one counter per event id
    dlq,         \* <prefix>:dlq:<channel>
    dedupe,      \* the <prefix>:dedupe:<channel>:<key> keys that exist
    connected,   \* listeners subscribed to <prefix>:pubsub:<channel>
    inbox,       \* pub/sub messages sent to a listener, not yet received
    pushed,      \* history: events some publish call has put on the list
    processed,   \* history: events all handlers of some dispatch have run for
    lost         \* history: events of which a stored copy was destroyed

redisVars == <<list, listTtl, attempts, dlq, dedupe, connected, inbox>>
history   == <<pushed, processed, lost>>

DlqEntry == [ev : Events, att : Nat]

RedisTypeOK ==
    /\ list \in Seq(Events)
    /\ listTtl \in BOOLEAN
    /\ attempts \in [Events -> Nat]
    /\ dlq \in Seq(DlqEntry)
    /\ dedupe \subseteq Keys
    /\ connected \subseteq Listeners
    /\ inbox \in [Listeners -> Seq(Events)]
    /\ pushed \subseteq Events
    /\ processed \subseteq Events
    /\ lost \subseteq Events

RedisInit ==
    /\ list = <<>> /\ listTtl = FALSE
    /\ attempts = [e \in Events |-> 0]
    /\ dlq = <<>> /\ dedupe = {}
    /\ connected = {} /\ inbox = [l \in Listeners |-> <<>>]
    /\ pushed = {} /\ processed = {} /\ lost = {}

-----------------------------------------------------------------------------

(* Replace the list by l: Redis drops a key, and its TTL, with its last     *)
(* element.                                                                 *)
SetList(l) ==
    /\ list' = l
    /\ listTtl' = (listTtl /\ l # <<>>)

(* LPUSH listKey e *)
LPushList(e) == SetList(Cons(e, list))

(* PUBLISH pubKey e: one copy per connection subscribed at that moment.     *)
PubSub(e) ==
    inbox' = [l \in Listeners |->
                IF l \in connected THEN Append(inbox[l], e) ELSE inbox[l]]

(* LTRIM listKey 0 n-1: keeps the n newest entries.                         *)
Newest(n) == SubSeq(list, 1, IF n < Len(list) THEN n ELSE Len(list))

(* The events a sequence of DLQ entries is about.                           *)
DeadEvents(s) == {s[i].ev : i \in DOMAIN s}

(* Time passes: the TTL of a dedupe key or of the whole list runs out.      *)
DedupeKeyExpires(k) ==
    /\ k \in dedupe
    /\ dedupe' = dedupe \ {k}
    /\ UNCHANGED <<list, listTtl, attempts, dlq, connected, inbox, history>>

ListExpires ==
    /\ listTtl
    /\ SetList(<<>>)
    /\ lost' = lost \cup ToSet(list)
    /\ UNCHANGED <<attempts, dlq, dedupe, connected, inbox, pushed, processed>>

(* The pub/sub connection of a listener drops and reconnects: Redis keeps   *)
(* nothing for it, the copies in flight are gone.                           *)
ConnectionDrops(l) ==
    /\ DropsAllowed
    /\ inbox[l] # <<>>
    /\ inbox' = [inbox EXCEPT ![l] = <<>>]
    /\ UNCHANGED <<list, listTtl, attempts, dlq, dedupe, connected, history>>

RedisNext ==
    \/ \E k \in Keys : DedupeKeyExpires(k)
    \/ ListExpires
    \/ \E l \in Listeners : ConnectionDrops(l)
=============================================================================
