-------------------------- MODULE DeliveryContract --------------------------
(***************************************************************************)
(* What packages/queue promises for one channel, whatever it keeps in       *)
(* Redis: an event that was put on the queue is owed to the consumers until *)
(* a consumer has processed it.  It may be forgotten only when it has been  *)
(* excused: a stored copy of it was trimmed, expired, drained, purged, or   *)
(* died with the process that held it.  Being dead-lettered does not end    *)
(* the debt.  Processing is at least once: "done" says nothing about how    *)
(* often.                                                                   *)
(***************************************************************************)
CONSTANT Events

VARIABLES
    status,   \* unsent, owed, done or gone
    excused   \* events the queue may forget

contractVars == <<status, excused>>

Init ==
    /\ status = [e \in Events |-> "unsent"]
    /\ excused = {}

(* A publisher stores the event.                                            *)
Accept(e) ==
    /\ status[e] = "unsent"
    /\ status' = [status EXCEPT ![e] = "owed"]
    /\ UNCHANGED excused

(* All handlers of a consumer have run for it.                              *)
Complete(e) ==
    /\ status[e] = "owed"
    /\ status' = [status EXCEPT ![e] = "done"]
    /\ UNCHANGED excused

(* Copies of the events in es are destroyed; those of which nothing is left *)
(* and that nobody has processed are forgotten.                             *)
Destroy(es) ==
    /\ excused' = excused \cup es
    /\ \E forgotten \in SUBSET excused' :
          /\ \A e \in forgotten : status[e] = "owed"
          /\ status' = [e \in Events |-> IF e \in forgotten THEN "gone" ELSE status[e]]

Next ==
    \/ \E e \in Events : Accept(e) \/ Complete(e)
    \/ \E es \in SUBSET Events : Destroy(es)

Spec == Init /\ [][Next]_contractVars
=============================================================================
