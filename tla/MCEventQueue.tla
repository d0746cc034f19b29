---------------------------- MODULE MCEventQueue ----------------------------
(* Instances of EventQueue for TLC.                                         *)
EXTENDS EventQueue

CONSTANTS e1, e2, p1, l1, l2, h1, h2, s1, s2, k1, none

(* The dedupeKey of every publish call: none, or one key for all of them.   *)
MCKeyNone   == [e \in Events |-> none]
MCKeyShared == [e \in Events |-> k1]

(* Every listener belongs to the one consumer process.                      *)
MCOwner == [l \in Listeners |-> p1]

(* Slots are interchangeable: no action orders or names them.               *)
MCSymmetry == Permutations(Slots)
=============================================================================
