--------------------------- MODULE MemoriesProofs ---------------------------
(***************************************************************************)
(* What is proved of the components that remember: GraphMemory, for any      *)
(* documents, workspaces, limits and numbers of retries and faults;          *)
(* ProfileMemory, for any signals, word lists and thresholds; Evaluation,    *)
(* for any deliveries, executions, datasets and readers; and their types in  *)
(* the composition of MCMemories.                                           *)
(***************************************************************************)
EXTENDS MCMemories, SequenceLemmas
-----------------------------------------------------------------------------
(***************************************************************************)
(* GraphMemory.  The nodes and the relations, without the confidences that  *)
(* every merge may raise; and the conflicts and entities consumers know of. *)
(***************************************************************************)
Named  == {<<n.id, n.workspace, n.name>> : n \in nodes}
Linked == {<<x.id, x.source, x.target>> : x \in edges}
Pair(i, j) == [kind |-> "duplicate_entity", ids |-> {i, j}]
Told == {ev.conflict : ev \in {ev \in heard : ev.type = "conflict_detected"}}
Known(i) == [type |-> "entity_created", id |-> i] \in heard

IsNode(n) == n = [id |-> n.id, workspace |-> n.workspace, name |-> n.name, confidence |-> n.confidence]
IsEdge(x) == x = [id |-> x.id, source |-> x.source, target |-> x.target, type |-> x.type,
                  confidence |-> x.confidence]

(* Ids are drawn from the number of nodes, and unique.                       *)
Identified(S) ==
    /\ IsFiniteSet(S)
    /\ \A n \in S : n.id \in 1..Cardinality(S)
    /\ \A m, n \in S : m.id = n.id => m = n

StoreFacts ==
    /\ Identified(nodes) /\ \A n \in nodes : IsNode(n)
    /\ Identified(edges) /\ \A x \in edges : IsEdge(x)

(* What a call holds at each stage: what it merged is stored, and what it    *)
(* goes on with was announced.                                               *)
IsCall(c) == c = [pc |-> c.pc, attempt |-> c.attempt, todo |-> c.todo, merged |-> c.merged,
                  related |-> c.related, conflicts |-> c.conflicts, missed |-> c.missed]

Merging   == {"merge", "create"}
Announced == {"relate", "announceRelations", "check", "checkRelations", "announceConflicts",
              "update", "done"}

CallShape(c) ==
    /\ IsCall(c) /\ c.pc \in {"waiting"} \cup GraphRunning \cup GraphEnded
    /\ c.missed \in BOOLEAN
    /\ \E S : c.todo \in Seq(S)
    /\ IsFiniteSet(c.merged) /\ IsFiniteSet(c.related) /\ IsFiniteSet(c.conflicts)

CallFacts(d, c) ==
    /\ \A m \in c.merged : m = <<m[1], m[2]>> /\ <<m[2], WorkspaceOf[d], m[1]>> \in Named
    /\ \A x \in c.related :
          /\ IsEdge(x) /\ <<x.id, x.source, x.target>> \in Linked
          /\ \A i \in {x.source, x.target} : \E m \in c.merged : m[2] = i
    /\ c.pc = "create" => c.todo # <<>>
    /\ c.pc \in Merging => ToSet(c.todo) \subseteq ToSet(Extracted[d])
    /\ c.pc \in {"announce", "check"} => \A i \in ToSet(c.todo) : \E m \in c.merged : m[2] = i
    /\ c.pc = "announce" => \A m \in c.merged : Known(m[2]) \/ m[2] \in ToSet(c.todo)
    /\ c.pc \in Announced => \A m \in c.merged : Known(m[2])
    /\ c.pc \in {"announceRelations", "checkRelations"} => ToSet(c.todo) \subseteq c.related

(* That each node is told of as a duplicate, or will be: a call on its name  *)
(* still has it to merge, has merged one of that name, or has noted or told  *)
(* one to be the duplicate of all that are no younger than the node; unless  *)
(* it swallowed an error or ended without success.                           *)
Alike(k) == {y \in Named : y[2] = k[2] /\ y[3] = k[3]}
PairsUpTo(x, k) == {Pair(x[1], y[1]) : y \in {y \in Alike(k) \ {x} : y[1] <= k[1]}}

SeesTo(c, x, k) ==
    \/ c.pc \in Merging \cup {"announce", "relate", "announceRelations"}
    \/ c.pc = "check" /\ (x[1] \in ToSet(c.todo) \/ PairsUpTo(x, k) \subseteq c.conflicts)
    \/ c.pc = "checkRelations" /\ PairsUpTo(x, k) \subseteq c.conflicts
    \/ c.pc = "announceConflicts" /\ PairsUpTo(x, k) \subseteq Told \cup ToSet(c.todo)
    \/ c.pc \in {"update", "done"} /\ PairsUpTo(x, k) \subseteq Told

Handles(d, c, k) ==
    /\ c.pc \in GraphRunning \cup {"done", "failed", "lost"}
    /\ k[2] = WorkspaceOf[d] /\ \E e \in ToSet(Extracted[d]) : e.name = k[3]
    /\ \/ c.missed
       \/ c.pc \in {"failed", "lost"}
       \/ c.pc \in Merging /\ \E e \in ToSet(c.todo) : e.name = k[3]
       \/ \E x \in Alike(k) : <<x[3], x[1]>> \in c.merged /\ SeesTo(c, x, k)

GraphInv ==
    /\ StoreFacts
    /\ calls = [d \in GraphDeliveries |-> calls[d]]
    /\ \A d \in GraphDeliveries : \E c : c = calls[d] /\ CallShape(c) /\ CallFacts(d, c)
    /\ \A k \in Named : \E d \in GraphDeliveries : \E c : c = calls[d] /\ Handles(d, c, k)
    /\ HeardIsStored

-----------------------------------------------------------------------------
(* Elements whose ids stay and are unique are as many as before.             *)
LEMMA Relabelled ==
    ASSUME NEW S, Identified(S), NEW T, NEW g, g \in [S -> T],
           \A y \in T : \E x \in S : g[x] = y,
           \A x \in S : g[x].id = x.id
    PROVE  Identified(T)
<1>1. g \in Surjection(S, T)
  BY DEF Surjection
<1>2. g \in Injection(S, T)
  BY DEF Injection, IsInjective, Identified
<1>3. IsFiniteSet(T) /\ Cardinality(T) = Cardinality(S)
  BY <1>1, <1>2, FS_Surjection DEF Identified
<1>4. \A n \in T : n.id \in 1..Cardinality(T)
  BY <1>3 DEF Identified
<1>5. \A m, n \in T : m.id = n.id => m = n
  BY DEF Identified
<1> QED BY <1>3, <1>4, <1>5 DEF Identified

(* One more element, with the next id.                                       *)
LEMMA NextIdentified ==
    ASSUME NEW S, Identified(S), NEW e, e.id = Cardinality(S) + 1
    PROVE  Identified(S \cup {e}) /\ e \notin S /\ \A n \in S : n.id < e.id
<1>1. Cardinality(S) \in Nat /\ IsFiniteSet(S)
  BY FS_CardinalityType DEF Identified
<1>2. \A n \in S : n.id < e.id /\ n.id \in 1..Cardinality(S)
  BY <1>1 DEF Identified
<1>3. e \notin S
  BY <1>1, <1>2
<1>4. IsFiniteSet(S \cup {e}) /\ Cardinality(S \cup {e}) = Cardinality(S) + 1
  BY <1>1, <1>3, FS_AddElement
<1>5. \A n \in S \cup {e} : n.id \in 1..Cardinality(S \cup {e})
  BY <1>1, <1>2, <1>4
<1>6. \A m, n \in S \cup {e} : m.id = n.id => m = n
  BY <1>1, <1>2 DEF Identified
<1> QED BY <1>2, <1>3, <1>4, <1>5, <1>6 DEF Identified

-----------------------------------------------------------------------------
(* What is stored and heard only grows, and by newer nodes.                  *)
Grows ==
    /\ Named \subseteq Named' /\ Linked \subseteq Linked' /\ heard \subseteq heard'
    /\ \A y \in Named' \ Named : \A k \in Named : y[1] > k[1]

LEMMA NamedIds ==
    ASSUME StoreFacts
    PROVE  /\ \A k \in Named : k = <<k[1], k[2], k[3]>> /\ k[1] \in Nat
           /\ \A k, l \in Named : k[1] = l[1] => k = l
<1>1. ASSUME NEW k \in Named PROVE \E n \in nodes : k = <<n.id, n.workspace, n.name>> /\ n.id \in Nat
  <2>1. PICK n \in nodes : k = <<n.id, n.workspace, n.name>>
    BY DEF Named
  <2>2. n.id \in Nat
    BY FS_CardinalityType DEF StoreFacts, Identified
  <2> QED BY <2>1, <2>2
<1>2. ASSUME NEW k \in Named, NEW l \in Named, k[1] = l[1] PROVE k = l
  <2>1. PICK m \in nodes : k = <<m.id, m.workspace, m.name>>
    BY DEF Named
  <2>2. PICK n \in nodes : l = <<n.id, n.workspace, n.name>>
    BY DEF Named
  <2>3. m = n
    BY <1>2, <2>1, <2>2 DEF StoreFacts, Identified
  <2> QED BY <2>1, <2>2, <2>3
<1>3. \A k \in Named : k = <<k[1], k[2], k[3]>> /\ k[1] \in Nat
  BY <1>1
<1> QED BY <1>2, <1>3

LEMMA ToldGrows == ASSUME heard \subseteq heard' PROVE Told \subseteq Told'
BY DEF Told

LEMMA PairsStay ==
    ASSUME StoreFacts, StoreFacts', Grows, NEW k \in Named, NEW x \in Alike(k)
    PROVE  x \in Alike(k)' /\ PairsUpTo(x, k)' = PairsUpTo(x, k)
<1>1. \A y \in Named' : y[1] \in Nat
  BY NamedIds DEF StoreFacts, Identified, Named
<1>2. k[1] \in Nat
  BY NamedIds
<1>3. {y \in Alike(k)' \ {x} : y[1] <= k[1]} = {y \in Alike(k) \ {x} : y[1] <= k[1]}
  BY <1>1, <1>2 DEF Grows, Alike
<1>4. PairsUpTo(x, k)' = {Pair(x[1], y[1]) : y \in {y \in Alike(k)' \ {x} : y[1] <= k[1]}}
  BY DEF PairsUpTo, Pair
<1>5. PairsUpTo(x, k) = {Pair(x[1], y[1]) : y \in {y \in Alike(k) \ {x} : y[1] <= k[1]}}
  BY DEF PairsUpTo
<1>6. x \in Alike(k)'
  BY DEF Grows, Alike
<1> QED BY <1>3, <1>4, <1>5, <1>6

(* What a call holds stays so, and it goes on to see to what it sees to.     *)
LEMMA FactsStay ==
    ASSUME Grows, NEW d, NEW c, CallFacts(d, c)
    PROVE  CallFacts(d, c)'
<1>1. \A i : Known(i) => Known(i)'
  BY DEF Grows, Known
<1> QED BY <1>1 DEF Grows, CallFacts

LEMMA HandlesStay ==
    ASSUME StoreFacts, StoreFacts', Grows, NEW d, NEW c, NEW k \in Named, Handles(d, c, k)
    PROVE  Handles(d, c, k)'
<1>1. ASSUME NEW x \in Alike(k), SeesTo(c, x, k) PROVE x \in Alike(k)' /\ SeesTo(c, x, k)'
  <2>1. x \in Alike(k)' /\ PairsUpTo(x, k)' = PairsUpTo(x, k)
    BY PairsStay
  <2>2. Told \subseteq Told'
    BY ToldGrows DEF Grows
  <2> QED BY <1>1, <2>1, <2>2 DEF SeesTo
<1> QED BY <1>1 DEF Handles

-----------------------------------------------------------------------------
(* A step of one call.                                                       *)
LEMMA CallMoves ==
    ASSUME GraphInv, NEW d \in GraphDeliveries, StoreFacts', Grows, HeardIsStored',
           NEW old, old = calls[d], NEW new, calls' = [calls EXCEPT ![d] = new],
           CallShape(new), CallFacts(d, new)',
           \A k \in Named : Handles(d, old, k) => Handles(d, new, k)',
           \A k \in Named' \ Named : Handles(d, new, k)'
    PROVE  GraphInv'
<1>1. /\ calls' = [e \in GraphDeliveries |-> calls'[e]] /\ calls'[d] = new
      /\ \A e \in GraphDeliveries \ {d} : calls'[e] = calls[e]
  BY DEF GraphInv
<1>2. ASSUME NEW e \in GraphDeliveries
      PROVE  \E c : c = calls'[e] /\ CallShape(c) /\ CallFacts(e, c)'
  <2>1. CASE e = d
    BY <1>1, <2>1
  <2>2. CASE e # d
    <3>1. PICK c : c = calls[e] /\ CallShape(c) /\ CallFacts(e, c)
      BY DEF GraphInv
    <3>2. CallFacts(e, c)'
      BY <3>1, FactsStay
    <3>3. calls'[e] = c
      BY <1>1, <2>2, <3>1
    <3> QED BY <3>1, <3>2, <3>3
  <2> QED BY <2>1, <2>2
<1>3. ASSUME NEW k \in Named'
      PROVE  \E e \in GraphDeliveries : \E c : c = calls'[e] /\ Handles(e, c, k)'
  <2>1. CASE k \notin Named
    BY <1>1, <2>1
  <2>2. CASE k \in Named
    <3>1. PICK e \in GraphDeliveries : \E c : c = calls[e] /\ Handles(e, c, k)
      BY <2>2 DEF GraphInv
    <3>2. PICK c : c = calls[e] /\ Handles(e, c, k)
      BY <3>1
    <3>3. CASE e = d
      <4>1. Handles(d, old, k)
        BY <3>2, <3>3
      <4>2. Handles(d, new, k)'
        BY <2>2, <4>1
      <4> QED BY <1>1, <4>2
    <3>4. CASE e # d
      <4>1. Handles(e, c, k)' /\ calls'[e] = c
        BY <1>1, <2>2, <3>2, <3>4, HandlesStay DEF GraphInv
      <4> QED BY <4>1
    <3> QED BY <3>3, <3>4
  <2> QED BY <2>1, <2>2
<1> QED BY <1>1, <1>2, <1>3 DEF GraphInv

-----------------------------------------------------------------------------
(* What a call is to merge first.                                            *)
LEMMA ExtractedElements ==
    ASSUME NEW d \in GraphDeliveries
    PROVE  \E S : Extracted[d] \in Seq(S)
<1>1. IsFiniteSet(Candidates(ChunksOf[d]))
  BY TextsAreFinite DEF GraphTexts
<1>2. Extracted[d] = SetToSeq(Candidates(ChunksOf[d]))
  BY DEF Extracted
<1> QED BY <1>1, <1>2, SetAsSequence

(* A call that begins, or ends without success.                              *)
LEMMA AttemptFacts ==
    ASSUME NEW d \in GraphDeliveries, NEW n, NEW new, new = AttemptOf(d, n)
    PROVE  /\ CallShape(new) /\ CallFacts(d, new) /\ new.pc = "merge"
           /\ \A k : k[2] = WorkspaceOf[d] /\ (\E e \in ToSet(Extracted[d]) : e.name = k[3])
                     => Handles(d, new, k)
<1>1. PICK c : /\ c = Call("merge", n) /\ IsCall(c) /\ c.pc = "merge" /\ c.todo = <<>> /\ c.merged = {}
               /\ c.related = {} /\ c.conflicts = {} /\ c.missed = FALSE
  <2>1. PICK c : c = Call("merge", n)
    OBVIOUS
  <2>2. /\ IsCall(c) /\ c.pc = "merge" /\ c.todo = <<>> /\ c.merged = {}
        /\ c.related = {} /\ c.conflicts = {} /\ c.missed = FALSE
    BY <2>1 DEF Call, IsCall
  <2> QED BY <2>1, <2>2
<1>2. PICK todo : todo = Extracted[d]
  OBVIOUS
<1>3. new = [c EXCEPT !.todo = todo]
  BY <1>1, <1>2 DEF AttemptOf
<1>4. /\ IsCall(c) /\ c.pc = "merge" /\ c.merged = {} /\ c.related = {} /\ c.conflicts = {}
      /\ c.missed = FALSE
  BY <1>1
<1>5. /\ IsCall(new) /\ new.pc = "merge" /\ new.todo = todo /\ new.merged = {} /\ new.related = {}
      /\ new.conflicts = {} /\ new.missed = FALSE
  BY <1>3, <1>4 DEF IsCall
<1>6. IsFiniteSet({})
  BY FS_EmptySet
<1>7. CallShape(new)
  BY <1>2, <1>5, <1>6, ExtractedElements DEF CallShape, GraphRunning
<1>8. CallFacts(d, new)
  BY <1>2, <1>5 DEF CallFacts, Merging, Announced
<1>9. ASSUME NEW k, k[2] = WorkspaceOf[d], \E e \in ToSet(Extracted[d]) : e.name = k[3]
      PROVE  Handles(d, new, k)
  BY <1>2, <1>5, <1>9 DEF Handles, Merging, GraphRunning
<1> QED BY <1>5, <1>7, <1>8, <1>9

LEMMA EndFacts ==
    ASSUME NEW d \in GraphDeliveries, NEW n, NEW pc \in {"failed", "lost"}, NEW new, new = Call(pc, n)
    PROVE  /\ CallShape(new) /\ CallFacts(d, new)
           /\ \A k : k[2] = WorkspaceOf[d] /\ (\E e \in ToSet(Extracted[d]) : e.name = k[3])
                     => Handles(d, new, k)
<1>1. /\ IsCall(new) /\ new.pc = pc /\ new.todo = <<>> /\ new.merged = {} /\ new.related = {}
      /\ new.conflicts = {} /\ new.missed = FALSE
  BY DEF Call, IsCall
<1>2. IsFiniteSet({}) /\ <<>> \in Seq({})
  BY FS_EmptySet
<1>3. CallShape(new)
  BY <1>1, <1>2 DEF CallShape, GraphEnded
<1>4. CallFacts(d, new)
  BY <1>1 DEF CallFacts, Merging, Announced
<1>5. ASSUME NEW k, k[2] = WorkspaceOf[d], \E e \in ToSet(Extracted[d]) : e.name = k[3]
      PROVE  Handles(d, new, k)
  BY <1>1, <1>5 DEF Handles
<1> QED BY <1>3, <1>4, <1>5

LEMMA AttemptFails ==
    ASSUME GraphInv, NEW d \in GraphDeliveries, GraphAttemptFails(d)
    PROVE  \E new :
              /\ calls' = [calls EXCEPT ![d] = new]
              /\ CallShape(new) /\ CallFacts(d, new)
              /\ \A k : k[2] = WorkspaceOf[d] /\ (\E e \in ToSet(Extracted[d]) : e.name = k[3])
                        => Handles(d, new, k)
<1>1. CASE calls[d].attempt < GraphRetries
  <2>1. PICK new : new = AttemptOf(d, calls[d].attempt + 1)
    OBVIOUS
  <2>2. calls' = [calls EXCEPT ![d] = new]
    BY <1>1, <2>1 DEF GraphAttemptFails
  <2> QED BY <2>1, <2>2, AttemptFacts
<1>2. CASE ~(calls[d].attempt < GraphRetries)
  <2>1. PICK new : new = Call("failed", 0)
    OBVIOUS
  <2>2. calls' = [calls EXCEPT ![d] = new]
    BY <1>2, <2>1 DEF GraphAttemptFails
  <2> QED BY <2>1, <2>2, EndFacts
<1> QED BY <1>1, <1>2

(* A step that stores and tells nothing.                                     *)
LEMMA StoreStays ==
    ASSUME GraphInv, UNCHANGED <<nodes, edges, heard>>
    PROVE  /\ StoreFacts' /\ Grows /\ HeardIsStored' /\ Named' = Named
<1>1. StoreFacts'
  BY DEF GraphInv, StoreFacts
<1>2. Named' = Named /\ Linked' = Linked
  BY DEF Named, Linked
<1>3. HeardIsStored'
  BY DEF GraphInv, HeardIsStored
<1> QED BY <1>1, <1>2, <1>3 DEF Grows

LEMMA QuietMove ==
    ASSUME GraphInv, NEW d \in GraphDeliveries, UNCHANGED <<nodes, edges, heard>>,
           NEW old, old = calls[d], NEW new, calls' = [calls EXCEPT ![d] = new],
           CallShape(new), CallFacts(d, new),
           \A k \in Named : Handles(d, old, k) => Handles(d, new, k)
    PROVE  GraphInv'
<1>1. StoreFacts' /\ StoreFacts /\ Grows /\ HeardIsStored' /\ Named' = Named
  BY StoreStays DEF GraphInv
<1>2. CallFacts(d, new)'
  BY <1>1, FactsStay
<1>3. \A k \in Named : Handles(d, old, k) => Handles(d, new, k)'
  BY <1>1, HandlesStay
<1> QED BY <1>1, <1>2, <1>3, CallMoves

-----------------------------------------------------------------------------
(* The loop's item is done.                                                  *)
LEMMA ItemDone ==
    ASSUME GraphInv, NEW d \in GraphDeliveries, NEW call, IsCall(call), call.todo # <<>>,
           \E S : call.todo \in Seq(S), Done(d, call)
    PROVE  \E new : /\ calls' = [calls EXCEPT ![d] = new] /\ IsCall(new)
                    /\ new.pc = call.pc /\ new.merged = call.merged /\ new.related = call.related
                    /\ new.conflicts = call.conflicts /\ new.missed = call.missed
                    /\ \E S : new.todo \in Seq(S)
                    /\ ToSet(call.todo) = ToSet(new.todo) \cup {Head(call.todo)}
<1>1. PICK S : call.todo \in Seq(S)
  OBVIOUS
<1>2. PICK rest : rest = Tail(call.todo)
  OBVIOUS
<1>3. rest \in Seq(S) /\ ToSet(call.todo) = ToSet(rest) \cup {Head(call.todo)}
  BY <1>1, <1>2, TailElements
<1>4. PICK new : new = [call EXCEPT !.todo = rest]
  OBVIOUS
<1>5. calls' = [calls EXCEPT ![d] = new]
  BY <1>2, <1>4 DEF Done
<1>6. /\ IsCall(new) /\ new.pc = call.pc /\ new.todo = rest /\ new.merged = call.merged
      /\ new.related = call.related /\ new.conflicts = call.conflicts /\ new.missed = call.missed
  BY <1>4 DEF IsCall
<1> QED BY <1>3, <1>5, <1>6

LEMMA ReceiveStep ==
    ASSUME GraphInv, NEW d \in GraphDeliveries, Receive(d)
    PROVE  GraphInv'
<1>1. PICK old : old = calls[d] /\ CallShape(old) /\ CallFacts(d, old)
  BY DEF GraphInv
<1>2. old.pc = "waiting" /\ UNCHANGED <<nodes, edges, heard>>
  BY <1>1 DEF Receive
<1>3. \A k : ~Handles(d, old, k)
  BY <1>2 DEF Handles, GraphRunning
<1>4. CASE calls' = [calls EXCEPT ![d].pc = "refused"]
  <2>1. PICK new : new = [old EXCEPT !.pc = "refused"]
    OBVIOUS
  <2>2. calls' = [calls EXCEPT ![d] = new]
    BY <1>1, <1>4, <2>1
  <2>3. /\ IsCall(new) /\ new.pc = "refused" /\ new.todo = old.todo /\ new.merged = old.merged
        /\ new.related = old.related /\ new.conflicts = old.conflicts /\ new.missed = old.missed
    BY <1>1, <2>1 DEF CallShape, IsCall
  <2>4. CallShape(new)
    BY <1>1, <2>3 DEF CallShape, GraphEnded
  <2>5. CallFacts(d, new)
    BY <1>1, <2>3 DEF CallFacts, Merging, Announced
  <2> QED BY <1>1, <1>2, <1>3, <2>2, <2>4, <2>5, QuietMove
<1>5. CASE calls' = [calls EXCEPT ![d] = AttemptOf(d, 0)]
  <2>1. PICK new : new = AttemptOf(d, 0)
    OBVIOUS
  <2>2. calls' = [calls EXCEPT ![d] = new]
    BY <1>5, <2>1
  <2>3. CallShape(new) /\ CallFacts(d, new)
    BY <2>1, AttemptFacts
  <2> QED BY <1>1, <1>2, <1>3, <2>2, <2>3, QuietMove
<1> QED BY <1>4, <1>5 DEF Receive

LEMMA CompleteStep ==
    ASSUME GraphInv, NEW d \in GraphDeliveries, Complete(d)
    PROVE  GraphInv'
<1>1. PICK old : old = calls[d] /\ CallShape(old) /\ CallFacts(d, old)
  BY DEF GraphInv
<1>2. old.pc = "update" /\ UNCHANGED <<nodes, edges, heard>>
  BY <1>1 DEF Complete
<1>3. PICK new : new = [old EXCEPT !.pc = "done"]
  OBVIOUS
<1>4. calls' = [calls EXCEPT ![d] = new]
  BY <1>1, <1>3 DEF Complete
<1>5. /\ IsCall(new) /\ new.pc = "done" /\ new.todo = old.todo /\ new.merged = old.merged
      /\ new.related = old.related /\ new.conflicts = old.conflicts /\ new.missed = old.missed
  BY <1>1, <1>3 DEF CallShape, IsCall
<1>6. CallShape(new)
  BY <1>1, <1>5 DEF CallShape, GraphEnded
<1>7. CallFacts(d, new)
  BY <1>1, <1>2, <1>5 DEF CallFacts, Merging, Announced
<1>8. ASSUME NEW k \in Named, Handles(d, old, k) PROVE Handles(d, new, k)
  BY <1>2, <1>5, <1>8 DEF Handles, SeesTo, Merging
<1> QED BY <1>1, <1>2, <1>4, <1>6, <1>7, <1>8, QuietMove

LEMMA SkipStep ==
    ASSUME GraphInv, NEW d \in GraphDeliveries, Skip(d)
    PROVE  GraphInv'
<1>1. PICK old : old = calls[d] /\ CallShape(old) /\ CallFacts(d, old)
  BY DEF GraphInv
<1>2. /\ old.pc \in {"merge", "relate", "check", "checkRelations"} /\ old.todo # <<>>
      /\ UNCHANGED <<nodes, edges, heard>>
  BY <1>1 DEF Skip, At
<1>3. PICK call : call = [old EXCEPT !.missed = TRUE]
  OBVIOUS
<1>4. /\ IsCall(call) /\ call.pc = old.pc /\ call.todo = old.todo /\ call.merged = old.merged
      /\ call.related = old.related /\ call.conflicts = old.conflicts /\ call.missed = TRUE
  BY <1>1, <1>3 DEF CallShape, IsCall
<1>5. Done(d, call)
  BY <1>1, <1>3 DEF Skip
<1>6. \E S : call.todo \in Seq(S)
  BY <1>1, <1>4 DEF CallShape
<1>7. PICK new : /\ calls' = [calls EXCEPT ![d] = new] /\ IsCall(new)
                 /\ new.pc = call.pc /\ new.merged = call.merged /\ new.related = call.related
                 /\ new.conflicts = call.conflicts /\ new.missed = call.missed
                 /\ \E S : new.todo \in Seq(S)
                 /\ ToSet(call.todo) = ToSet(new.todo) \cup {Head(call.todo)}
  BY <1>2, <1>4, <1>5, <1>6, ItemDone
<1>8. CallShape(new)
  BY <1>1, <1>4, <1>7 DEF CallShape
<1>9. CallFacts(d, new)
  BY <1>1, <1>2, <1>4, <1>7 DEF CallFacts, Merging, Announced
<1>10. ASSUME NEW k \in Named, Handles(d, old, k) PROVE Handles(d, new, k)
  BY <1>4, <1>7, <1>10 DEF Handles
<1> QED BY <1>1, <1>2, <1>7, <1>8, <1>9, <1>10, QuietMove

(* The ids of what a call merged, and the pairs of a node, are finitely many. *)
LEMMA MergedIds ==
    ASSUME NEW S, IsFiniteSet(S)
    PROVE  IsFiniteSet({m[2] : m \in S})
<1>1. PICK T : T = {m[2] : m \in S}
  OBVIOUS
<1>2. [m \in S |-> m[2]] \in Surjection(S, T)
  BY <1>1 DEF Surjection
<1> QED BY <1>1, <1>2, FS_Surjection

(* What the next loop works on.                                              *)
LEMMA NextItems ==
    ASSUME GraphInv, NEW d \in GraphDeliveries, NEW old, old = calls[d],
           NEW stage \in {"announce", "relate", "announceRelations", "check", "checkRelations",
                          "announceConflicts", "update"}
    PROVE  /\ IsFiniteSet(Items(d, stage))
           /\ stage \in {"announce", "check"} => Items(d, stage) = {m[2] : m \in old.merged}
           /\ stage \in {"announceRelations", "checkRelations"} => Items(d, stage) = old.related
           /\ stage = "announceConflicts" => Items(d, stage) = old.conflicts
<1>1. CallShape(old)
  BY DEF GraphInv
<1>2. CASE stage \in {"announce", "check"}
  <2>1. Items(d, stage) = {m[2] : m \in old.merged}
    BY <1>2 DEF Items
  <2>2. IsFiniteSet({m[2] : m \in old.merged})
    BY <1>1, MergedIds DEF CallShape
  <2> QED BY <1>2, <2>1, <2>2
<1>3. CASE stage = "relate"
  <2>1. Items(d, stage) \in SUBSET Detected[d]
    BY <1>3 DEF Items
  <2>2. IsFiniteSet(Detected[d])
    BY TextsAreFinite DEF GraphTexts
  <2> QED BY <1>3, <2>1, <2>2, FS_Subset
<1>4. CASE stage \in {"announceRelations", "checkRelations"}
  BY <1>1, <1>4 DEF Items, CallShape
<1>5. CASE stage = "announceConflicts"
  BY <1>1, <1>5 DEF Items, CallShape
<1>6. CASE stage = "update"
  <2>1. Items(d, stage) = {d}
    BY <1>6 DEF Items
  <2> QED BY <1>6, <2>1, FS_Singleton
<1> QED BY <1>2, <1>3, <1>4, <1>5, <1>6

LEMMA AdvanceStep ==
    ASSUME GraphInv, NEW d \in GraphDeliveries, Advance(d)
    PROVE  GraphInv'
<1>1. PICK old : old = calls[d] /\ CallShape(old) /\ CallFacts(d, old)
  BY DEF GraphInv
<1>2. old.todo = <<>> /\ UNCHANGED <<nodes, edges, heard>>
  BY <1>1 DEF Advance
<1>3. PICK stage : stage = Following[old.pc]
  OBVIOUS
<1>4. \/ old.pc = "merge" /\ stage = "announce"
      \/ old.pc = "announce" /\ stage = "relate"
      \/ old.pc = "relate" /\ stage = "announceRelations"
      \/ old.pc = "announceRelations" /\ stage = "check"
      \/ old.pc = "check" /\ stage = "checkRelations"
      \/ old.pc = "checkRelations" /\ stage = "announceConflicts"
      \/ old.pc = "announceConflicts" /\ stage = "update"
  BY <1>1, <1>3 DEF Advance, Following
<1>5. stage \in {"announce", "relate", "announceRelations", "check", "checkRelations",
                 "announceConflicts", "update"}
  BY <1>4
<1>6. PICK items : items = Items(d, stage)
  OBVIOUS
<1>7. /\ IsFiniteSet(items)
      /\ stage \in {"announce", "check"} => items = {m[2] : m \in old.merged}
      /\ stage \in {"announceRelations", "checkRelations"} => items = old.related
      /\ stage = "announceConflicts" => items = old.conflicts
  BY <1>1, <1>5, <1>6, NextItems
<1>8. PICK todo : todo = SetToSeq(items)
  OBVIOUS
<1>9. todo \in Seq(items) /\ ToSet(todo) = items
  BY <1>7, <1>8, SetAsSequence
<1>10. PICK new : new = [old EXCEPT !.pc = stage, !.todo = todo]
  OBVIOUS
<1>11. calls' = [calls EXCEPT ![d] = new]
  <2>1. calls' = [calls EXCEPT ![d].pc = stage, ![d].todo = todo]
    BY <1>1, <1>3, <1>6, <1>8 DEF Advance
  <2> QED BY <1>1, <1>10, <2>1 DEF GraphInv
<1>12. /\ IsCall(new) /\ new.pc = stage /\ new.todo = todo /\ new.merged = old.merged
       /\ new.related = old.related /\ new.conflicts = old.conflicts /\ new.missed = old.missed
  BY <1>1, <1>10 DEF CallShape, IsCall
<1>13. CallShape(new)
  BY <1>1, <1>5, <1>9, <1>12 DEF CallShape, GraphRunning
<1>14. ToSet(old.todo) = {}
  BY <1>2, EmptyElements
<1>15. CallFacts(d, new)
  <2>1. stage = "announce" =>
           /\ \A i \in ToSet(new.todo) : \E m \in new.merged : m[2] = i
           /\ \A m \in new.merged : m[2] \in ToSet(new.todo)
    BY <1>7, <1>9, <1>12
  <2>2. stage = "check" => \A i \in ToSet(new.todo) : \E m \in new.merged : m[2] = i
    BY <1>7, <1>9, <1>12
  <2>3. stage \in Announced => \A m \in new.merged : Known(m[2])
    BY <1>1, <1>4, <1>12, <1>14 DEF CallFacts, Announced
  <2>4. stage \in {"announceRelations", "checkRelations"} => ToSet(new.todo) \subseteq new.related
    BY <1>7, <1>9, <1>12
  <2>5. stage \notin Merging
    BY <1>5 DEF Merging
  <2>6. /\ \A m \in new.merged : m = <<m[1], m[2]>> /\ <<m[2], WorkspaceOf[d], m[1]>> \in Named
        /\ \A x \in new.related :
              /\ IsEdge(x) /\ <<x.id, x.source, x.target>> \in Linked
              /\ \A i \in {x.source, x.target} : \E m \in new.merged : m[2] = i
    BY <1>1, <1>12 DEF CallFacts
  <2> QED BY <1>5, <1>12, <2>1, <2>2, <2>3, <2>4, <2>5, <2>6 DEF CallFacts, Merging
<1>16. ASSUME NEW k \in Named, Handles(d, old, k) PROVE Handles(d, new, k)
  <2>1. new.pc \in GraphRunning
    BY <1>5, <1>12 DEF GraphRunning
  <2>2. CASE new.missed
    BY <1>12, <1>16, <2>1, <2>2 DEF Handles
  <2>3. CASE ~new.missed
    <3>1. PICK x \in Alike(k) : <<x[3], x[1]>> \in old.merged /\ SeesTo(old, x, k)
      BY <1>4, <1>12, <1>14, <1>16, <2>3 DEF Handles
    <3>2. SeesTo(new, x, k)
      <4>1. CASE stage \in {"announce", "relate", "announceRelations"}
        BY <1>12, <4>1 DEF SeesTo
      <4>2. CASE stage = "check"
        <5>1. x[1] \in {m[2] : m \in old.merged}
          BY <3>1
        <5> QED BY <1>7, <1>9, <1>12, <4>2, <5>1 DEF SeesTo
      <4>3. CASE stage = "checkRelations"
        BY <1>4, <1>12, <1>14, <3>1, <4>3 DEF SeesTo, Merging
      <4>4. CASE stage = "announceConflicts"
        <5>1. PairsUpTo(x, k) \subseteq old.conflicts
          BY <1>4, <3>1, <4>4 DEF SeesTo, Merging
        <5> QED BY <1>7, <1>9, <1>12, <4>4, <5>1 DEF SeesTo
      <4>5. CASE stage = "update"
        <5>1. PairsUpTo(x, k) \subseteq Told
          BY <1>4, <1>14, <3>1, <4>5 DEF SeesTo, Merging
        <5> QED BY <1>12, <4>5, <5>1 DEF SeesTo
      <4> QED BY <1>5, <4>1, <4>2, <4>3, <4>4, <4>5
    <3> QED BY <1>12, <1>16, <2>1, <3>1, <3>2 DEF Handles
  <2> QED BY <2>2, <2>3
<1> QED BY <1>1, <1>2, <1>11, <1>13, <1>15, <1>16, QuietMove

-----------------------------------------------------------------------------
(* The query for duplicates of an entity finds every other one of its name.  *)
LEMMA DuplicatesFound ==
    ASSUME GraphInv, NEW k \in Named, NEW x \in Alike(k)
    PROVE  PairsUpTo(x, k) \subseteq EntityConflicts(k[2], x[1])
<1>1. \A l \in Named : \E n \in nodes : l = <<n.id, n.workspace, n.name>>
  BY DEF Named
<1>2. x \in Named /\ x[2] = k[2] /\ x[3] = k[3]
  BY DEF Alike
<1>3. PICK n \in nodes : n.id = x[1]
  BY <1>1, <1>2
<1>4. \A m \in nodes : m.id = x[1] => m.name = x[3]
  <2> SUFFICES ASSUME NEW m \in nodes, m.id = x[1] PROVE m.name = x[3]
    OBVIOUS
  <2>1. PICK o \in nodes : x = <<o.id, o.workspace, o.name>>
    BY <1>1, <1>2
  <2>2. o = m
    BY <2>1 DEF GraphInv, StoreFacts, Identified
  <2> QED BY <2>1, <2>2
<1>5. PICK own : own = (CHOOSE m \in nodes : m.id = x[1])
  OBVIOUS
<1>6. own \in nodes /\ own.id = x[1] /\ own.name = x[3]
  BY <1>3, <1>4, <1>5
<1>7. ASSUME NEW y \in Alike(k) \ {x} PROVE Pair(x[1], y[1]) \in EntityConflicts(k[2], x[1])
  <2>1. PICK m \in nodes : y = <<m.id, m.workspace, m.name>>
    BY <1>1 DEF Alike
  <2>2. m.workspace = k[2] /\ m.name = own.name
    BY <1>2, <1>6, <2>1 DEF Alike
  <2>3. m.id # x[1]
    BY <1>2, <1>7, <2>1, NamedIds DEF GraphInv, Alike
  <2>4. EntityConflicts(k[2], x[1]) =
           {[kind |-> "duplicate_entity", ids |-> {x[1], n0.id}] : n0 \in
               {n0 \in nodes : n0.workspace = k[2] /\ n0.id # x[1] /\ n0.name = own.name}}
           \cup (EntityConflicts(k[2], x[1]) \cap EntityConflicts(k[2], x[1]))
    BY <1>5 DEF EntityConflicts
  <2>5. Pair(x[1], m.id) \in
           {[kind |-> "duplicate_entity", ids |-> {x[1], n0.id}] : n0 \in
               {n0 \in nodes : n0.workspace = k[2] /\ n0.id # x[1] /\ n0.name = own.name}}
    BY <2>2, <2>3 DEF Pair
  <2> QED BY <2>1, <2>4, <2>5
<1> QED BY <1>7 DEF PairsUpTo

LEMMA ConflictsAreFinite ==
    ASSUME GraphInv
    PROVE  /\ \A w, id : IsFiniteSet(EntityConflicts(w, id))
           /\ \A r : IsFiniteSet(RelationConflicts(r))
<1>1. IsFiniteSet(nodes) /\ IsFiniteSet(edges)
  BY DEF GraphInv, StoreFacts, Identified
<1>2. ASSUME NEW w, NEW id PROVE IsFiniteSet(EntityConflicts(w, id))
  <2> DEFINE name == (CHOOSE n \in nodes : n.id = id).name
             into(t) == {x.source : x \in {x \in edges : x.target = id /\ x.type = t}}
             from(t) == {x.target : x \in {x \in edges : x.source = id /\ x.type = t}}
             mutual(t) == {m \in into(t) \cap from(t) : into(t) \ {m} # {}}
             alike == {n \in nodes : n.workspace = w /\ n.id # id /\ n.name = name}
             types == {x.type : x \in edges}
             both == {t \in types : mutual(t) # {}}
             A == {[kind |-> "duplicate_entity", ids |-> {id, n.id}] : n \in alike}
             B == {[kind |-> "mutually_exclusive_relation", ids |-> {id} \cup mutual(t)] : t \in both}
  <2>1. EntityConflicts(w, id) = A \cup B
    BY DEF EntityConflicts
  <2>2. IsFiniteSet(alike)
    BY <1>1, FS_Subset
  <2>3. IsFiniteSet(types)
    <3>1. [x \in edges |-> x.type] \in Surjection(edges, types)
      BY DEF Surjection
    <3> QED BY <1>1, <3>1, FS_Surjection
  <2>4. IsFiniteSet(both)
    BY <2>3, FS_Subset
  <2>5. IsFiniteSet(A)
    <3>1. [n \in alike |-> [kind |-> "duplicate_entity", ids |-> {id, n.id}]] \in Surjection(alike, A)
      BY DEF Surjection
    <3> QED BY <2>2, <3>1, FS_Surjection
  <2>6. IsFiniteSet(B)
    <3> HIDE DEF mutual, both
    <3>1. [t \in both |-> [kind |-> "mutually_exclusive_relation", ids |-> {id} \cup mutual(t)]]
             \in Surjection(both, B)
      BY DEF Surjection
    <3> QED BY <2>4, <3>1, FS_Surjection
  <2> HIDE DEF A, B
  <2> QED BY <2>1, <2>5, <2>6, FS_Union
<1>3. ASSUME NEW r PROVE IsFiniteSet(RelationConflicts(r))
  <2>1. PICK conflict : conflict = [kind |-> "contradictory_property", ids |-> {r.source, r.target}]
    OBVIOUS
  <2>2. RelationConflicts(r) \in SUBSET {conflict}
    BY <2>1 DEF RelationConflicts
  <2>3. IsFiniteSet({conflict})
    BY FS_Singleton
  <2> QED BY <2>2, <2>3, FS_Subset
<1> QED BY <1>2, <1>3

LEMMA CheckConflictsStep ==
    ASSUME GraphInv, NEW d \in GraphDeliveries, CheckConflicts(d)
    PROVE  GraphInv'
<1>1. PICK old : old = calls[d] /\ CallShape(old) /\ CallFacts(d, old)
  BY DEF GraphInv
<1>2. PICK found : \/ old.pc = "check" /\ found = EntityConflicts(WorkspaceOf[d], Now(d))
                   \/ old.pc = "checkRelations" /\ found = RelationConflicts(Now(d))
  BY <1>1 DEF CheckConflicts, At
<1>3. /\ old.todo # <<>> /\ Done(d, [calls[d] EXCEPT !.conflicts = @ \cup found])
      /\ UNCHANGED <<nodes, edges, heard>> /\ Now(d) = Head(old.todo)
  BY <1>1, <1>2 DEF CheckConflicts, At, Now
<1>4. PICK call : call = [old EXCEPT !.conflicts = @ \cup found]
  OBVIOUS
<1>5. /\ IsCall(call) /\ call.pc = old.pc /\ call.todo = old.todo /\ call.merged = old.merged
      /\ call.related = old.related /\ call.conflicts = old.conflicts \cup found
      /\ call.missed = old.missed
  BY <1>1, <1>4 DEF CallShape, IsCall
<1>6. Done(d, call) /\ \E S : call.todo \in Seq(S)
  BY <1>1, <1>3, <1>4, <1>5 DEF CallShape
<1>7. PICK new : /\ calls' = [calls EXCEPT ![d] = new] /\ IsCall(new)
                 /\ new.pc = call.pc /\ new.merged = call.merged /\ new.related = call.related
                 /\ new.conflicts = call.conflicts /\ new.missed = call.missed
                 /\ \E S : new.todo \in Seq(S)
                 /\ ToSet(call.todo) = ToSet(new.todo) \cup {Head(call.todo)}
  BY <1>3, <1>5, <1>6, ItemDone
<1>8. CallShape(new)
  <2>1. IsFiniteSet(found)
    BY <1>2, ConflictsAreFinite
  <2>2. IsFiniteSet(new.conflicts)
    <3>1. new.conflicts = old.conflicts \cup found
      BY <1>5, <1>7
    <3>2. IsFiniteSet(old.conflicts)
      BY <1>1 DEF CallShape
    <3>3. IsFiniteSet(old.conflicts \cup found)
      BY <2>1, <3>2, FS_Union
    <3> QED BY <3>1, <3>3
  <2> QED BY <1>1, <1>5, <1>7, <2>2 DEF CallShape
<1>9. CallFacts(d, new)
  BY <1>1, <1>2, <1>5, <1>7 DEF CallFacts, Merging, Announced
<1>10. ASSUME NEW k \in Named, Handles(d, old, k) PROVE Handles(d, new, k)
  <2>1. CASE new.missed
    BY <1>5, <1>7, <1>10, <2>1 DEF Handles
  <2>2. CASE ~new.missed
    <3>1. PICK x \in Alike(k) : <<x[3], x[1]>> \in old.merged /\ SeesTo(old, x, k)
      BY <1>2, <1>5, <1>7, <1>10, <2>2 DEF Handles, Merging
    <3>2. SeesTo(new, x, k)
      <4>1. CASE old.pc = "checkRelations"
        BY <1>5, <1>7, <3>1, <4>1 DEF SeesTo, Merging
      <4>2. CASE old.pc = "check"
        <5>1. PairsUpTo(x, k) \subseteq EntityConflicts(k[2], x[1])
          BY DuplicatesFound
        <5>2. k[2] = WorkspaceOf[d]
          BY <1>10 DEF Handles
        <5>3. x[1] = Now(d) => PairsUpTo(x, k) \subseteq new.conflicts
          BY <1>2, <1>5, <1>7, <4>2, <5>1, <5>2
        <5>4. x[1] \in ToSet(old.todo) \/ PairsUpTo(x, k) \subseteq old.conflicts
          BY <3>1, <4>2 DEF SeesTo, Merging
        <5>5. x[1] \in ToSet(new.todo) \/ PairsUpTo(x, k) \subseteq new.conflicts
          BY <1>3, <1>5, <1>7, <5>3, <5>4
        <5> QED BY <1>5, <1>7, <4>2, <5>5 DEF SeesTo
      <4> QED BY <1>2, <4>1, <4>2
    <3> QED BY <1>5, <1>7, <1>10, <3>1, <3>2 DEF Handles
  <2> QED BY <2>1, <2>2
<1> QED BY <1>1, <1>3, <1>7, <1>8, <1>9, <1>10, QuietMove

-----------------------------------------------------------------------------
(* An entity is merged into the node of an id, old or new.                   *)
MergedInto(call, old, l) ==
    /\ IsCall(call) /\ call.pc = "merge" /\ call.todo = old.todo
    /\ call.related = old.related /\ call.conflicts = old.conflicts
    /\ \/ call.merged = old.merged \cup {<<l[3], l[1]>>} /\ call.missed = old.missed
       \/ call.merged = old.merged /\ call.missed = TRUE

LEMMA EntityMerged ==
    ASSUME GraphInv, NEW d \in GraphDeliveries, StoreFacts', Grows, HeardIsStored',
           NEW old, old = calls[d], CallShape(old), CallFacts(d, old),
           old.pc \in Merging, old.todo # <<>>,
           NEW l \in Named', l = <<l[1], WorkspaceOf[d], Head(old.todo).name>>,
           \A k \in Named' \ Named : k = l,
           NEW call, MergedInto(call, old, l), Done(d, call)
    PROVE  GraphInv'
<1> USE DEF MergedInto
<1>1. \E S : call.todo \in Seq(S)
  BY DEF CallShape
<1>2. PICK new : /\ calls' = [calls EXCEPT ![d] = new] /\ IsCall(new)
                 /\ new.pc = call.pc /\ new.merged = call.merged /\ new.related = call.related
                 /\ new.conflicts = call.conflicts /\ new.missed = call.missed
                 /\ \E S : new.todo \in Seq(S)
                 /\ ToSet(call.todo) = ToSet(new.todo) \cup {Head(call.todo)}
  BY <1>1, ItemDone
<1>3. CallShape(new)
  <2>1. IsFiniteSet(old.merged)
    BY DEF CallShape
  <2>2. IsFiniteSet(old.merged \cup {<<l[3], l[1]>>})
    BY <2>1, FS_AddElement
  <2>3. IsFiniteSet(new.merged)
    BY <1>2, <2>1, <2>2
  <2> QED BY <1>2, <2>3 DEF CallShape, GraphRunning
<1>4. CallFacts(d, new)'
  <2>1. CallFacts(d, old)'
    BY FactsStay
  <2>2. \A m \in new.merged : m = <<m[1], m[2]>> /\ <<m[2], WorkspaceOf[d], m[1]>> \in Named'
    <3>1. \A m \in old.merged : m = <<m[1], m[2]>> /\ <<m[2], WorkspaceOf[d], m[1]>> \in Named'
      BY <2>1 DEF CallFacts
    <3>2. PICK m0 : m0 = <<l[3], l[1]>>
      OBVIOUS
    <3>3. m0 = <<m0[1], m0[2]>> /\ <<m0[2], WorkspaceOf[d], m0[1]>> \in Named'
      BY <3>2
    <3> QED BY <1>2, <3>1, <3>2, <3>3
  <2>3. \A x \in new.related :
           /\ IsEdge(x) /\ <<x.id, x.source, x.target>> \in Linked'
           /\ \A i \in {x.source, x.target} : \E m \in new.merged : m[2] = i
    <3>1. new.related = old.related /\ old.merged \subseteq new.merged
      BY <1>2
    <3>2. \A x \in old.related :
             /\ IsEdge(x) /\ <<x.id, x.source, x.target>> \in Linked'
             /\ \A i \in {x.source, x.target} : \E m \in old.merged : m[2] = i
      BY <2>1 DEF CallFacts
    <3> QED BY <3>1, <3>2
  <2>4. ToSet(new.todo) \subseteq ToSet(Extracted[d])
    BY <1>2 DEF CallFacts
  <2> QED BY <1>2, <2>2, <2>3, <2>4 DEF CallFacts, Announced
<1>5. ASSUME NEW k \in Named', k[2] = WorkspaceOf[d], k[3] = l[3] PROVE Handles(d, new, k)'
  <2>1. l \in Alike(k)'
    BY <1>5 DEF Alike
  <2>2. SeesTo(new, l, k)'
    BY <1>2 DEF SeesTo, Merging
  <2>3. <<l[3], l[1]>> \in new.merged \/ new.missed
    BY <1>2
  <2>4. Head(old.todo) \in ToSet(Extracted[d]) /\ Head(old.todo).name = k[3]
    BY <1>2, <1>5 DEF CallFacts
  <2>5. k[2] = WorkspaceOf[d] /\ \E e \in ToSet(Extracted[d]) : e.name = k[3]
    BY <1>5, <2>4
  <2> QED BY <1>2, <2>1, <2>2, <2>3, <2>5 DEF Handles, GraphRunning
<1>6. ASSUME NEW k \in Named, Handles(d, old, k) PROVE Handles(d, new, k)'
  <2>1. k \in Named' /\ k[2] = WorkspaceOf[d] /\ \E e \in ToSet(Extracted[d]) : e.name = k[3]
    BY <1>6 DEF Handles, Grows
  <2>2. CASE new.missed
    BY <1>2, <2>1, <2>2 DEF Handles, GraphRunning
  <2>3. CASE ~new.missed /\ \E e \in ToSet(old.todo) : e.name = k[3]
    <3>1. PICK e \in ToSet(old.todo) : e.name = k[3]
      BY <2>3
    <3>2. CASE e = Head(old.todo)
      BY <1>5, <2>1, <3>1, <3>2
    <3>3. CASE e # Head(old.todo)
      <4>1. e \in ToSet(new.todo)
        BY <1>2, <3>1, <3>3
      <4>2. new.pc \in Merging \cap GraphRunning
        BY <1>2 DEF Merging, GraphRunning
      <4> QED BY <2>1, <3>1, <4>1, <4>2 DEF Handles
    <3> QED BY <3>2, <3>3
  <2>4. CASE ~new.missed /\ ~\E e \in ToSet(old.todo) : e.name = k[3]
    <3>1. PICK x \in Alike(k) : <<x[3], x[1]>> \in old.merged
      BY <1>2, <1>6, <2>4 DEF Handles, Merging
    <3>2. x \in Alike(k)' /\ <<x[3], x[1]>> \in new.merged
      BY <1>2, <3>1 DEF Alike, Grows
    <3>3. SeesTo(new, x, k)'
      BY <1>2 DEF SeesTo, Merging
    <3> QED BY <1>2, <2>1, <3>2, <3>3 DEF Handles, GraphRunning
  <2> QED BY <2>2, <2>3, <2>4
<1>7. ASSUME NEW k \in Named' \ Named PROVE Handles(d, new, k)'
  BY <1>5, <1>7
<1> QED BY <1>2, <1>3, <1>4, <1>6, <1>7, CallMoves

(* The answer to the merge of an entity, lost or not.                        *)
LEMMA EntityAnswered ==
    ASSUME GraphInv, NEW d \in GraphDeliveries, StoreFacts', Grows, HeardIsStored',
           NEW old, old = calls[d], CallShape(old), CallFacts(d, old),
           old.pc \in Merging, old.todo # <<>>,
           NEW l \in Named', l = <<l[1], WorkspaceOf[d], Head(old.todo).name>>,
           \A k \in Named' \ Named : k = l,
           NEW call, call = [old EXCEPT !.pc = "merge", !.merged = old.merged \cup {<<l[3], l[1]>>}],
           Answered(d, call)
    PROVE  GraphInv'
<1>1. /\ IsCall(call) /\ call.pc = "merge" /\ call.todo = old.todo /\ call.related = old.related
      /\ call.conflicts = old.conflicts /\ call.missed = old.missed
      /\ call.merged = old.merged \cup {<<l[3], l[1]>>}
  <2>1. PICK more : more = old.merged \cup {<<l[3], l[1]>>}
    OBVIOUS
  <2>2. IsCall(old)
    BY DEF CallShape
  <2>3. call = [pc |-> "merge", attempt |-> old.attempt, todo |-> old.todo, merged |-> more,
                related |-> old.related, conflicts |-> old.conflicts, missed |-> old.missed]
    BY <2>1, <2>2 DEF IsCall
  <2> QED BY <2>1, <2>3 DEF IsCall
<1>2. CASE Done(d, call)
  <2>1. MergedInto(call, old, l)
    BY <1>1 DEF MergedInto
  <2> QED BY <1>2, <2>1, EntityMerged
<1>3. CASE Done(d, [calls[d] EXCEPT !.pc = call.pc, !.missed = TRUE])
  <2>1. PICK lost : lost = [old EXCEPT !.pc = "merge", !.missed = TRUE]
    OBVIOUS
  <2>2. IsCall(old)
    BY DEF CallShape
  <2>3. MergedInto(lost, old, l)
    BY <2>1, <2>2 DEF MergedInto, IsCall
  <2>4. Done(d, lost)
    BY <1>1, <1>3, <2>1
  <2> QED BY <2>3, <2>4, EntityMerged
<1> QED BY <1>2, <1>3 DEF Answered

(* What is heard of stays stored when nodes keep their ids.                  *)
LEMMA NodesStay ==
    ASSUME GraphInv, StoreFacts', UNCHANGED <<edges, heard>>,
           Named \subseteq Named', \A y \in Named' \ Named : \A k \in Named : y[1] > k[1]
    PROVE  Grows /\ HeardIsStored'
<1>1. Grows
  BY DEF Grows, Linked
<1>2. ASSUME NEW ev \in heard, ev.type = "entity_created" PROVE \E n \in nodes' : n.id = ev.id
  <2>1. PICK n \in nodes : n.id = ev.id
    BY <1>2 DEF GraphInv, HeardIsStored
  <2>2. <<n.id, n.workspace, n.name>> \in Named'
    BY DEF Named
  <2>3. PICK m \in nodes' : <<n.id, n.workspace, n.name>> = <<m.id, m.workspace, m.name>>
    BY <2>2 DEF Named
  <2> QED BY <2>1, <2>3
<1>3. HeardIsStored'
  BY <1>2 DEF GraphInv, HeardIsStored
<1> QED BY <1>1, <1>3

LEMMA MergeEntityStep ==
    ASSUME GraphInv, NEW d \in GraphDeliveries, MergeEntity(d)
    PROVE  GraphInv'
<1>1. PICK old : old = calls[d] /\ CallShape(old) /\ CallFacts(d, old)
  BY DEF GraphInv
<1>2. PICK e : e = Head(old.todo)
  OBVIOUS
<1>3. old.pc = "merge" /\ old.todo # <<>> /\ Now(d) = e /\ UNCHANGED <<edges, heard>>
  BY <1>1, <1>2 DEF MergeEntity, At, Now
<1>4. PICK found \in SUBSET nodes :
         found = {n \in nodes : n.workspace = WorkspaceOf[d] /\ n.name = e.name}
  OBVIOUS
<1>5. PICK raise : raise = [n \in nodes |-> IF n \in found
                              THEN [n EXCEPT !.confidence = Max({n.confidence, e.confidence})] ELSE n]
  OBVIOUS
<1>6. PICK raised : raised = {[n EXCEPT !.confidence = Max({@, e.confidence})] : n \in found}
  OBVIOUS
<1>7. \/ calls' = [calls EXCEPT ![d].pc = "create"] /\ UNCHANGED nodes
      \/ /\ nodes' = (nodes \ found) \cup raised
         /\ \E n \in found :
               Answered(d, [calls[d] EXCEPT !.merged = @ \cup {<<e.name, n.id>>}])
  BY <1>3, <1>4, <1>6 DEF MergeEntity
<1>8. CASE calls' = [calls EXCEPT ![d].pc = "create"] /\ UNCHANGED nodes
  <2>1. PICK new : new = [old EXCEPT !.pc = "create"]
    OBVIOUS
  <2>2. calls' = [calls EXCEPT ![d] = new]
    BY <1>1, <1>8, <2>1
  <2>3. /\ IsCall(new) /\ new.pc = "create" /\ new.todo = old.todo /\ new.merged = old.merged
        /\ new.related = old.related /\ new.conflicts = old.conflicts /\ new.missed = old.missed
    BY <1>1, <2>1 DEF CallShape, IsCall
  <2>4. CallShape(new)
    BY <1>1, <2>3 DEF CallShape, GraphRunning
  <2>5. CallFacts(d, new)
    BY <1>1, <1>3, <2>3 DEF CallFacts, Merging, Announced
  <2>6. ASSUME NEW k \in Named, Handles(d, old, k) PROVE Handles(d, new, k)
    BY <1>3, <2>3, <2>6 DEF Handles, SeesTo, Merging, GraphRunning
  <2> QED BY <1>1, <1>3, <1>8, <2>2, <2>4, <2>5, <2>6, QuietMove
<1>9. CASE /\ nodes' = (nodes \ found) \cup raised
           /\ \E n \in found :
                 Answered(d, [calls[d] EXCEPT !.merged = @ \cup {<<e.name, n.id>>}])
  <2>1. PICK n \in found : Answered(d, [calls[d] EXCEPT !.merged = @ \cup {<<e.name, n.id>>}])
    BY <1>9
  <2>2. ASSUME NEW m \in nodes
        PROVE  /\ raise[m].id = m.id /\ raise[m].workspace = m.workspace /\ raise[m].name = m.name
               /\ IsNode(raise[m]) /\ raise[m] \in nodes'
    <3>1. IsNode(m)
      BY DEF GraphInv, StoreFacts
    <3>2. CASE m \in found
      <4>1. PICK high : high = Max({m.confidence, e.confidence})
        OBVIOUS
      <4>2. raise[m] = [m EXCEPT !.confidence = high]
        BY <1>5, <3>2, <4>1
      <4>3. raise[m] \in nodes'
        BY <1>6, <1>9, <3>2, <4>1, <4>2
      <4> QED BY <3>1, <4>2, <4>3 DEF IsNode
    <3>3. CASE m \notin found
      BY <1>5, <1>9, <3>1, <3>3
    <3> QED BY <3>2, <3>3
  <2>3. \A y \in nodes' : \E m \in nodes : raise[m] = y
    <3>1. \A y \in raised : \E m \in nodes : raise[m] = y
      BY <1>5, <1>6
    <3> QED BY <1>5, <1>9, <3>1
  <2>4. raise \in [nodes -> nodes']
    BY <1>5, <2>2
  <2>5. Identified(nodes')
    BY <2>2, <2>3, <2>4, Relabelled DEF GraphInv, StoreFacts
  <2>6. StoreFacts'
    <3>1. \A y \in nodes' : IsNode(y)
      BY <2>2, <2>3
    <3> QED BY <1>3, <2>5, <3>1 DEF GraphInv, StoreFacts, Identified, IsNode, IsEdge
  <2>7. Named' = Named
    <3>1. ASSUME NEW k \in Named PROVE k \in Named'
      <4>1. PICK m \in nodes : k = <<m.id, m.workspace, m.name>>
        BY DEF Named
      <4>2. PICK y \in nodes' : y = raise[m]
        BY <2>2
      <4>3. k = <<y.id, y.workspace, y.name>>
        BY <2>2, <4>1, <4>2
      <4> QED BY <4>3 DEF Named
    <3>2. ASSUME NEW k \in Named' PROVE k \in Named
      <4>1. PICK y \in nodes' : k = <<y.id, y.workspace, y.name>>
        BY DEF Named
      <4>2. PICK m \in nodes : raise[m] = y
        BY <2>3
      <4>3. k = <<m.id, m.workspace, m.name>>
        BY <2>2, <4>1, <4>2
      <4> QED BY <4>3 DEF Named
    <3> QED BY <3>1, <3>2
  <2>8. Grows /\ HeardIsStored'
    BY <1>3, <2>6, <2>7, NodesStay
  <2>9. PICK l : l = <<n.id, WorkspaceOf[d], e.name>>
    OBVIOUS
  <2>10. l \in Named'
    <3>1. l = <<n.id, n.workspace, n.name>> /\ n \in nodes
      BY <1>4, <2>9
    <3> QED BY <2>7, <3>1 DEF Named
  <2>11. l = <<l[1], WorkspaceOf[d], Head(old.todo).name>> /\ l[3] = e.name /\ l[1] = n.id
    BY <1>2, <2>9
  <2>12. PICK call : call = [old EXCEPT !.pc = "merge", !.merged = old.merged \cup {<<l[3], l[1]>>}]
    OBVIOUS
  <2>13. Answered(d, call)
    <3>1. call = [old EXCEPT !.merged = old.merged \cup {<<e.name, n.id>>}]
      BY <1>1, <1>3, <2>11, <2>12 DEF CallShape, IsCall
    <3> QED BY <1>1, <2>1, <3>1
  <2>14. old.pc \in Merging
    BY <1>3 DEF Merging
  <2> QED BY <1>1, <1>3, <2>6, <2>7, <2>8, <2>10, <2>11, <2>12, <2>13, <2>14, EntityAnswered
<1> QED BY <1>7, <1>8, <1>9

LEMMA CreateEntityStep ==
    ASSUME GraphInv, NEW d \in GraphDeliveries, CreateEntity(d)
    PROVE  GraphInv'
<1>1. PICK old : old = calls[d] /\ CallShape(old) /\ CallFacts(d, old)
  BY DEF GraphInv
<1>2. PICK e : e = Head(old.todo)
  OBVIOUS
<1>3. old.pc = "create" /\ old.todo # <<>> /\ Now(d) = e /\ UNCHANGED <<edges, heard>>
  BY <1>1, <1>2 DEF CreateEntity, At, Now
<1>4. PICK id : id = Cardinality(nodes) + 1
  OBVIOUS
<1>5. PICK n : n = [id |-> id, workspace |-> WorkspaceOf[d], name |-> e.name,
                    confidence |-> e.confidence]
  OBVIOUS
<1>6. /\ nodes' = nodes \cup {n}
      /\ Answered(d, [[calls[d] EXCEPT !.pc = "merge"] EXCEPT
                        !.merged = @ \cup {<<e.name, id>>}])
  BY <1>3, <1>4, <1>5 DEF CreateEntity
<1>7. n.id = id /\ n.workspace = WorkspaceOf[d] /\ n.name = e.name /\ IsNode(n)
  BY <1>5 DEF IsNode
<1>8. Identified(nodes') /\ \A m \in nodes : m.id < id
  BY <1>4, <1>6, <1>7, NextIdentified DEF GraphInv, StoreFacts
<1>9. StoreFacts'
  <2>1. \A m \in nodes' : IsNode(m)
    BY <1>6, <1>7 DEF GraphInv, StoreFacts
  <2> QED BY <1>3, <1>8, <2>1 DEF GraphInv, StoreFacts, Identified, IsNode, IsEdge
<1>10. PICK l : l = <<id, WorkspaceOf[d], e.name>>
  OBVIOUS
<1>11. /\ l[1] = id /\ l[3] = e.name /\ l = <<l[1], WorkspaceOf[d], Head(old.todo).name>>
       /\ l = <<n.id, n.workspace, n.name>>
  BY <1>2, <1>7, <1>10
<1>12. Named' = Named \cup {l}
  BY <1>6, <1>11 DEF Named
<1>13. \A k \in Named : l[1] > k[1]
  <2> SUFFICES ASSUME NEW k \in Named PROVE l[1] > k[1]
    OBVIOUS
  <2>1. PICK m \in nodes : k = <<m.id, m.workspace, m.name>>
    BY DEF Named
  <2>2. m.id < id /\ m.id = k[1] /\ l[1] = id
    BY <1>8, <1>11, <2>1
  <2>3. id \in Int /\ m.id \in Int
    BY <1>4, FS_CardinalityType DEF GraphInv, StoreFacts, Identified
  <2> QED BY <2>2, <2>3
<1>14. Grows /\ HeardIsStored'
  BY <1>3, <1>9, <1>12, <1>13, NodesStay
<1>15. PICK call : call = [old EXCEPT !.pc = "merge", !.merged = old.merged \cup {<<l[3], l[1]>>}]
  OBVIOUS
<1>16. Answered(d, call)
  <2>1. call = [[old EXCEPT !.pc = "merge"] EXCEPT !.merged = old.merged \cup {<<e.name, id>>}]
    BY <1>1, <1>11, <1>15 DEF CallShape, IsCall
  <2>2. [[old EXCEPT !.pc = "merge"] EXCEPT !.merged = old.merged \cup {<<e.name, id>>}]
           = [[old EXCEPT !.pc = "merge"] EXCEPT !.merged = @ \cup {<<e.name, id>>}]
    BY <1>1 DEF CallShape, IsCall
  <2> QED BY <1>1, <1>6, <2>1, <2>2
<1>17. old.pc \in Merging
  BY <1>3 DEF Merging
<1>18. l \in Named' /\ \A k \in Named' \ Named : k = l
  BY <1>12
<1> QED BY <1>1, <1>3, <1>9, <1>11, <1>14, <1>15, <1>16, <1>17, <1>18, EntityAnswered

-----------------------------------------------------------------------------
(* Relations: others' confidences raised, or one more edge.                  *)
(* Some edges are raised to others, which take their place.                  *)
Raises(raise, same, raised) ==
    /\ same \in SUBSET edges /\ raise \in [same -> raised]
    /\ \A y \in raised : \E x \in same : raise[x] = y
    /\ \A x \in same : /\ IsEdge(raise[x]) /\ raise[x].id = x.id
                       /\ raise[x].source = x.source /\ raise[x].target = x.target
    /\ edges' = (edges \ same) \cup raised

LEMMA EdgesRaised ==
    ASSUME GraphInv, NEW same, NEW raised, NEW raise, Raises(raise, same, raised)
    PROVE  /\ Identified(edges') /\ \A x \in edges' : IsEdge(x)
           /\ Linked \subseteq Linked'
           /\ \A y \in raised : \E x \in same : y.source = x.source /\ y.target = x.target
<1> USE DEF Raises
<1>1. PICK g : g = [x \in edges |-> IF x \in same THEN raise[x] ELSE x]
  OBVIOUS
<1>2. ASSUME NEW x \in edges
      PROVE  /\ g[x].id = x.id /\ g[x].source = x.source /\ g[x].target = x.target
             /\ IsEdge(g[x]) /\ g[x] \in edges'
  <2>1. IsEdge(x)
    BY DEF GraphInv, StoreFacts
  <2>2. CASE x \in same
    BY <1>1, <2>2
  <2>3. CASE x \notin same
    BY <1>1, <2>1, <2>3
  <2> QED BY <2>2, <2>3
<1>3. \A y \in raised : \E x \in same : g[x] = y
  BY <1>1
<1>4. \A y \in edges' : \E x \in edges : g[x] = y
  BY <1>1, <1>3
<1>5. g \in [edges -> edges']
  BY <1>1, <1>2
<1>6. Identified(edges')
  <2>1. Identified(edges) /\ \A x \in edges : g[x].id = x.id
    BY <1>2 DEF GraphInv, StoreFacts
  <2> QED BY <1>4, <1>5, <2>1, Relabelled
<1>7. \A x \in edges' : IsEdge(x)
  BY <1>2, <1>4
<1>8. ASSUME NEW k \in Linked PROVE k \in Linked'
  <2>1. PICK x \in edges : k = <<x.id, x.source, x.target>>
    BY DEF Linked
  <2>2. PICK y \in edges' : y = g[x]
    BY <1>2
  <2>3. k = <<y.id, y.source, y.target>>
    BY <1>2, <2>1, <2>2
  <2> QED BY <2>3 DEF Linked
<1>9. ASSUME NEW y \in raised PROVE \E x \in same : y.source = x.source /\ y.target = x.target
  <2>1. PICK x \in same : g[x] = y
    BY <1>3
  <2> QED BY <1>2, <2>1
<1> QED BY <1>6, <1>7, <1>8, <1>9

LEMMA EdgeAdded ==
    ASSUME GraphInv, NEW x, IsEdge(x), x.id = Cardinality(edges) + 1, edges' = edges \cup {x}
    PROVE  /\ Identified(edges') /\ \A y \in edges' : IsEdge(y)
           /\ Linked \subseteq Linked'
<1>1. Identified(edges')
  BY NextIdentified DEF GraphInv, StoreFacts
<1>2. \A y \in edges' : IsEdge(y)
  BY DEF GraphInv, StoreFacts
<1>3. Linked \subseteq Linked'
  BY DEF Linked
<1> QED BY <1>1, <1>2, <1>3

(* What is heard of stays stored when edges keep their ids and ends.         *)
LEMMA EdgesStay ==
    ASSUME GraphInv, Identified(edges'), \A x \in edges' : IsEdge(x),
           UNCHANGED <<nodes, heard>>, Linked \subseteq Linked'
    PROVE  StoreFacts' /\ Grows /\ HeardIsStored' /\ Named' = Named
<1>1. Named' = Named
  BY DEF Named
<1>2. Grows
  BY <1>1 DEF Grows
<1>3. StoreFacts'
  BY DEF GraphInv, StoreFacts, Identified, IsNode, IsEdge
<1>4. ASSUME NEW ev \in heard, ev.type = "relation_created"
      PROVE  \E x \in edges' : x.id = ev.id /\ x.source = ev.source /\ x.target = ev.target
  <2>1. PICK x \in edges : x.id = ev.id /\ x.source = ev.source /\ x.target = ev.target
    BY <1>4 DEF GraphInv, HeardIsStored
  <2>2. <<x.id, x.source, x.target>> \in Linked'
    BY DEF Linked
  <2>3. PICK y \in edges' : <<x.id, x.source, x.target>> = <<y.id, y.source, y.target>>
    BY <2>2 DEF Linked
  <2> QED BY <2>1, <2>3
<1>5. HeardIsStored'
  BY <1>4 DEF GraphInv, HeardIsStored
<1> QED BY <1>1, <1>2, <1>3, <1>5

LEMMA RelationMerged ==
    ASSUME GraphInv, NEW d \in GraphDeliveries, StoreFacts', Grows, HeardIsStored', Named' = Named,
           NEW old, old = calls[d], CallShape(old), CallFacts(d, old),
           old.pc = "relate", old.todo # <<>>,
           NEW out, IsFiniteSet(out),
           \A x \in out : /\ IsEdge(x) /\ <<x.id, x.source, x.target>> \in Linked'
                          /\ \A i \in {x.source, x.target} : \E m \in old.merged : m[2] = i,
           Answered(d, [calls[d] EXCEPT !.related = @ \cup out])
    PROVE  GraphInv'
<1>1. \E call : /\ IsCall(call) /\ call.pc = "relate" /\ call.todo = old.todo
                /\ call.merged = old.merged /\ call.conflicts = old.conflicts
                /\ \/ call.related = old.related \cup out /\ call.missed = old.missed
                   \/ call.related = old.related /\ call.missed = TRUE
                /\ Done(d, call)
  <2>1. CASE Done(d, [calls[d] EXCEPT !.related = @ \cup out])
    <3>1. PICK call : call = [old EXCEPT !.related = @ \cup out]
      OBVIOUS
    <3>2. /\ IsCall(call) /\ call.pc = "relate" /\ call.todo = old.todo
          /\ call.merged = old.merged /\ call.conflicts = old.conflicts
          /\ call.related = old.related \cup out /\ call.missed = old.missed
      BY <3>1 DEF CallShape, IsCall
    <3>3. Done(d, call)
      BY <2>1, <3>1
    <3> QED BY <3>2, <3>3
  <2>2. CASE Done(d, [calls[d] EXCEPT !.pc = [calls[d] EXCEPT !.related = @ \cup out].pc,
                                      !.missed = TRUE])
    <3>1. PICK call : call = [old EXCEPT !.pc = [old EXCEPT !.related = @ \cup out].pc, !.missed = TRUE]
      OBVIOUS
    <3>2. [old EXCEPT !.related = @ \cup out].pc = "relate"
      BY DEF CallShape, IsCall
    <3>3. /\ IsCall(call) /\ call.pc = "relate" /\ call.todo = old.todo
          /\ call.merged = old.merged /\ call.conflicts = old.conflicts
          /\ call.related = old.related /\ call.missed = TRUE
      BY <3>1, <3>2 DEF CallShape, IsCall
    <3>4. Done(d, call)
      BY <2>2, <3>1
    <3> QED BY <3>3, <3>4
  <2> QED BY <2>1, <2>2 DEF Answered
<1>2. PICK call : /\ IsCall(call) /\ call.pc = "relate" /\ call.todo = old.todo
                  /\ call.merged = old.merged /\ call.conflicts = old.conflicts
                  /\ \/ call.related = old.related \cup out /\ call.missed = old.missed
                     \/ call.related = old.related /\ call.missed = TRUE
                  /\ Done(d, call)
  BY <1>1
<1>3. \E S : call.todo \in Seq(S)
  BY <1>2 DEF CallShape
<1>4. PICK new : /\ calls' = [calls EXCEPT ![d] = new] /\ IsCall(new)
                 /\ new.pc = call.pc /\ new.merged = call.merged /\ new.related = call.related
                 /\ new.conflicts = call.conflicts /\ new.missed = call.missed
                 /\ \E S : new.todo \in Seq(S)
                 /\ ToSet(call.todo) = ToSet(new.todo) \cup {Head(call.todo)}
  BY <1>2, <1>3, ItemDone
<1>5. CallShape(new)
  <2>1. IsFiniteSet(old.related)
    BY DEF CallShape
  <2>2. IsFiniteSet(old.related \cup out)
    BY <2>1, FS_Union
  <2>3. IsFiniteSet(new.related)
    BY <1>2, <1>4, <2>1, <2>2
  <2> QED BY <1>2, <1>4, <2>3 DEF CallShape
<1>6. CallFacts(d, new)'
  <2>1. CallFacts(d, old)'
    BY FactsStay
  <2>2. \A x \in new.related :
           /\ IsEdge(x) /\ <<x.id, x.source, x.target>> \in Linked'
           /\ \A i \in {x.source, x.target} : \E m \in new.merged : m[2] = i
    <3>1. \A x \in old.related :
             /\ IsEdge(x) /\ <<x.id, x.source, x.target>> \in Linked'
             /\ \A i \in {x.source, x.target} : \E m \in old.merged : m[2] = i
      BY <2>1 DEF CallFacts
    <3>2. new.merged = old.merged /\ \A x \in new.related : x \in old.related \/ x \in out
      BY <1>2, <1>4
    <3> QED BY <3>1, <3>2
  <2>3. \A m \in new.merged : m = <<m[1], m[2]>> /\ <<m[2], WorkspaceOf[d], m[1]>> \in Named'
    BY <1>2, <1>4, <2>1 DEF CallFacts
  <2>4. \A m \in new.merged : Known(m[2])'
    BY <1>2, <1>4, <2>1 DEF CallFacts, Announced
  <2>5. new.pc = "relate"
    BY <1>2, <1>4
  <2> QED BY <2>2, <2>3, <2>4, <2>5 DEF CallFacts, Merging
<1>7. ASSUME NEW k \in Named, Handles(d, old, k) PROVE Handles(d, new, k)'
  <2>1. Handles(d, new, k)
    BY <1>2, <1>4, <1>7 DEF Handles, SeesTo, Merging
  <2> QED BY <2>1, HandlesStay DEF GraphInv
<1> QED BY <1>4, <1>5, <1>6, <1>7, CallMoves

LEMMA MergeRelationStep ==
    ASSUME GraphInv, NEW d \in GraphDeliveries, MergeRelation(d)
    PROVE  GraphInv'
<1>1. PICK old : old = calls[d] /\ CallShape(old) /\ CallFacts(d, old)
  BY DEF GraphInv
<1>2. old.pc = "relate" /\ old.todo # <<>> /\ UNCHANGED <<nodes, heard>>
  BY <1>1 DEF MergeRelation, At
<1>3. PICK r : r = Now(d)
  OBVIOUS
<1>4. PICK p \in calls[d].merged \X calls[d].merged :
         LET same == {x \in edges : x.source = p[1][2] /\ x.target = p[2][2]
                                    /\ x.type = Now(d).type}
             raised == {[x EXCEPT !.confidence = Max({@, Now(d).confidence})] : x \in same}
             new == {[id |-> Cardinality(edges) + 1, source |-> p[1][2], target |-> p[2][2],
                      type |-> Now(d).type, confidence |-> Now(d).confidence]}
             out == IF same = {} THEN new ELSE raised
         IN  /\ edges' = (edges \ same) \cup out
             /\ Answered(d, [calls[d] EXCEPT !.related = @ \cup out])
  BY DEF MergeRelation
<1>5. p \in old.merged \X old.merged
  BY <1>1
<1>6. PICK from : from = p[1][2]
  OBVIOUS
<1>7. PICK to : to = p[2][2]
  OBVIOUS
<1>8. (\E m \in old.merged : m[2] = from) /\ (\E m \in old.merged : m[2] = to)
  BY <1>5, <1>6, <1>7
<1>9. CASE {x \in edges : x.source = from /\ x.target = to /\ x.type = r.type} = {}
  <2>1. PICK x : x = [id |-> Cardinality(edges) + 1, source |-> from, target |-> to,
                      type |-> r.type, confidence |-> r.confidence]
    OBVIOUS
  <2>2. edges' = edges \cup {x} /\ Answered(d, [calls[d] EXCEPT !.related = @ \cup {x}])
    BY <1>3, <1>4, <1>6, <1>7, <1>9, <2>1
  <2>3. /\ IsEdge(x) /\ x.id = Cardinality(edges) + 1 /\ x.source = from /\ x.target = to
    BY <2>1 DEF IsEdge
  <2>4. Identified(edges') /\ (\A y \in edges' : IsEdge(y)) /\ Linked \subseteq Linked'
    BY <2>2, <2>3, EdgeAdded
  <2>5. StoreFacts' /\ Grows /\ HeardIsStored' /\ Named' = Named
    BY <1>2, <2>4, EdgesStay
  <2>6. <<x.id, x.source, x.target>> \in Linked'
    BY <2>2 DEF Linked
  <2>7. \A y \in {x} : /\ IsEdge(y) /\ <<y.id, y.source, y.target>> \in Linked'
                       /\ \A i \in {y.source, y.target} : \E m \in old.merged : m[2] = i
    BY <1>8, <2>3, <2>6
  <2>8. IsFiniteSet({x})
    BY FS_Singleton
  <2> QED BY <1>1, <1>2, <2>2, <2>5, <2>7, <2>8, RelationMerged
<1>10. CASE {x \in edges : x.source = from /\ x.target = to /\ x.type = r.type} # {}
  <2>1. PICK same \in SUBSET edges :
           same = {x \in edges : x.source = from /\ x.target = to /\ x.type = r.type}
    OBVIOUS
  <2>2. PICK raised : raised = {[x EXCEPT !.confidence = Max({@, r.confidence})] : x \in same}
    OBVIOUS
  <2>3. /\ edges' = (edges \ same) \cup raised
        /\ Answered(d, [calls[d] EXCEPT !.related = @ \cup raised])
    BY <1>3, <1>4, <1>6, <1>7, <1>10, <2>1, <2>2
  <2>4. /\ Identified(edges') /\ \A x \in edges' : IsEdge(x)
        /\ Linked \subseteq Linked'
        /\ \A y \in raised : \E x \in same : y.source = x.source /\ y.target = x.target
    <3>1. PICK raise : raise = [x \in same |-> [x EXCEPT !.confidence = Max({@, r.confidence})]]
      OBVIOUS
    <3>2. raise \in [same -> raised] /\ \A y \in raised : \E x \in same : raise[x] = y
      BY <2>2, <3>1
    <3>3. ASSUME NEW x \in same
          PROVE  /\ IsEdge(raise[x]) /\ raise[x].id = x.id
                 /\ raise[x].source = x.source /\ raise[x].target = x.target
      <4>1. PICK high : high = Max({x.confidence, r.confidence})
        OBVIOUS
      <4>2. raise[x] = [x EXCEPT !.confidence = high]
        BY <3>1, <4>1
      <4>3. IsEdge(x)
        BY <2>1 DEF GraphInv, StoreFacts
      <4> QED BY <4>2, <4>3 DEF IsEdge
    <3>4. edges' = (edges \ same) \cup raised
      BY <2>3
    <3>5. Raises(raise, same, raised)
      BY <3>2, <3>3, <3>4 DEF Raises
    <3> QED BY <3>5, EdgesRaised
  <2>5. StoreFacts' /\ Grows /\ HeardIsStored' /\ Named' = Named
    BY <1>2, <2>4, EdgesStay
  <2>6. \A y \in raised : /\ IsEdge(y) /\ <<y.id, y.source, y.target>> \in Linked'
                          /\ \A i \in {y.source, y.target} : \E m \in old.merged : m[2] = i
    <3>1. \A y \in raised : y \in edges' /\ y.source = from /\ y.target = to
      BY <2>1, <2>3, <2>4
    <3>2. \A y \in edges' : <<y.id, y.source, y.target>> \in Linked'
      BY DEF Linked
    <3> QED BY <1>8, <2>4, <3>1, <3>2
  <2>7. IsFiniteSet(raised)
    <3>1. raised \in SUBSET edges'
      BY <2>3
    <3> QED BY <2>4, <3>1, FS_Subset DEF Identified
  <2> QED BY <1>1, <1>2, <2>3, <2>5, <2>6, <2>7, RelationMerged
<1> QED BY <1>9, <1>10

-----------------------------------------------------------------------------
(* An attempt that fails after its event went out, or before.                *)
LEMMA AttemptMove ==
    ASSUME GraphInv, NEW d \in GraphDeliveries, StoreFacts', Grows, HeardIsStored', Named' = Named,
           GraphAttemptFails(d)
    PROVE  GraphInv'
<1>1. PICK old : old = calls[d] /\ CallShape(old) /\ CallFacts(d, old)
  BY DEF GraphInv
<1>2. PICK new : /\ calls' = [calls EXCEPT ![d] = new]
                 /\ CallShape(new) /\ CallFacts(d, new)
                 /\ \A k : k[2] = WorkspaceOf[d] /\ (\E e \in ToSet(Extracted[d]) : e.name = k[3])
                           => Handles(d, new, k)
  BY AttemptFails
<1>3. CallFacts(d, new)'
  BY <1>2, FactsStay
<1>4. ASSUME NEW k \in Named, Handles(d, old, k) PROVE Handles(d, new, k)'
  <2>1. Handles(d, new, k)
    BY <1>2, <1>4 DEF Handles
  <2> QED BY <2>1, HandlesStay DEF GraphInv
<1> QED BY <1>1, <1>2, <1>3, <1>4, CallMoves

LEMMA PublishRejectsStep ==
    ASSUME GraphInv, NEW d \in GraphDeliveries, PublishRejects(d)
    PROVE  GraphInv'
<1>1. UNCHANGED <<nodes, edges, heard>> /\ GraphAttemptFails(d)
  BY DEF PublishRejects
<1>2. StoreFacts' /\ Grows /\ HeardIsStored' /\ Named' = Named
  BY <1>1, StoreStays
<1> QED BY <1>1, <1>2, AttemptMove

(* What is published was stored, and its ends were published before.         *)
LEMMA EventIsStored ==
    ASSUME GraphInv, NEW d \in GraphDeliveries, NEW old, old = calls[d],
           CallShape(old), CallFacts(d, old), old.todo # <<>>,
           old.pc \in {"announce", "announceRelations", "announceConflicts", "update"},
           NEW ev, ev = EventOf(d, Head(old.todo))
    PROVE  /\ old.pc = "announce" =>
                 /\ ev = [type |-> "entity_created", id |-> Head(old.todo)]
                 /\ ev.type = "entity_created"
                 /\ \E n \in nodes : n.id = ev.id
           /\ old.pc = "announceRelations" =>
                 /\ ev.type = "relation_created"
                 /\ \E x \in edges : x.id = ev.id /\ x.source = ev.source /\ x.target = ev.target
                 /\ \A i \in {ev.source, ev.target} : Known(i)
           /\ old.pc = "announceConflicts" =>
                 ev.type = "conflict_detected" /\ ev.conflict = Head(old.todo)
           /\ old.pc = "update" => ev.type = "updated"
<1>1. PICK item : item = Head(old.todo)
  OBVIOUS
<1>2. item \in ToSet(old.todo)
  <2>1. PICK S : old.todo \in Seq(S)
    BY DEF CallShape
  <2> QED BY <1>1, <2>1, TailElements
<1>3. CASE old.pc = "announce"
  <2>1. ev = [type |-> "entity_created", id |-> item]
    BY <1>1, <1>3 DEF EventOf
  <2>2. PICK m \in old.merged : m[2] = item
    BY <1>2, <1>3 DEF CallFacts
  <2>3. <<item, WorkspaceOf[d], m[1]>> \in Named
    BY <2>2 DEF CallFacts
  <2>4. PICK n \in nodes : <<item, WorkspaceOf[d], m[1]>> = <<n.id, n.workspace, n.name>>
    BY <2>3 DEF Named
  <2> QED BY <1>1, <1>3, <2>1, <2>4
<1>4. CASE old.pc = "announceRelations"
  <2>1. ev = [type |-> "relation_created", id |-> item.id, source |-> item.source,
              target |-> item.target]
    BY <1>1, <1>4 DEF EventOf
  <2>2. ev.type = "relation_created" /\ ev.id = item.id /\ ev.source = item.source
        /\ ev.target = item.target
    BY <2>1
  <2>3. /\ <<item.id, item.source, item.target>> \in Linked
        /\ \A i \in {item.source, item.target} : \E m \in old.merged : m[2] = i
    BY <1>2, <1>4 DEF CallFacts
  <2>4. PICK x \in edges : <<item.id, item.source, item.target>> = <<x.id, x.source, x.target>>
    BY <2>3 DEF Linked
  <2>5. \A m \in old.merged : Known(m[2])
    BY <1>4 DEF CallFacts, Announced
  <2>6. \A i \in {ev.source, ev.target} : Known(i)
    BY <2>2, <2>3, <2>5
  <2> QED BY <1>4, <2>2, <2>4, <2>6
<1>5. CASE old.pc = "announceConflicts"
  <2>1. ev = [type |-> "conflict_detected", conflict |-> item]
    BY <1>1, <1>5 DEF EventOf
  <2> QED BY <1>1, <1>5, <2>1
<1>6. CASE old.pc = "update"
  <2>1. ev = [type |-> "updated", document |-> d]
    BY <1>1, <1>6 DEF EventOf
  <2> QED BY <1>6, <2>1
<1> QED BY <1>3, <1>4, <1>5, <1>6

LEMMA PublishStep ==
    ASSUME GraphInv, NEW d \in GraphDeliveries, Publish(d)
    PROVE  GraphInv'
<1>1. PICK old : old = calls[d] /\ CallShape(old) /\ CallFacts(d, old)
  BY DEF GraphInv
<1>2. PICK item : item = Head(old.todo)
  OBVIOUS
<1>3. PICK ev : ev = EventOf(d, item)
  OBVIOUS
<1>4. /\ old.pc \in {"announce", "announceRelations", "announceConflicts", "update"}
      /\ old.todo # <<>> /\ UNCHANGED <<nodes, edges>> /\ Now(d) = item
  BY <1>1, <1>2 DEF Publish, GraphPublishes, At, Now
<1>5. heard' = heard \cup {ev}
  BY <1>3, <1>4 DEF Publish
<1>6. /\ old.pc = "announce" =>
            /\ ev = [type |-> "entity_created", id |-> item]
            /\ ev.type = "entity_created"
            /\ \E n \in nodes : n.id = ev.id
      /\ old.pc = "announceRelations" =>
            /\ ev.type = "relation_created"
            /\ \E x \in edges : x.id = ev.id /\ x.source = ev.source /\ x.target = ev.target
            /\ \A i \in {ev.source, ev.target} : Known(i)
      /\ old.pc = "announceConflicts" => ev.type = "conflict_detected" /\ ev.conflict = item
      /\ old.pc = "update" => ev.type = "updated"
  BY <1>1, <1>2, <1>3, <1>4, EventIsStored
<1>7. Named' = Named /\ StoreFacts'
  BY <1>4 DEF Named, GraphInv, StoreFacts, Identified, IsNode, IsEdge
<1>8. Grows
  BY <1>4, <1>5, <1>7 DEF Grows, Linked
<1>9. HeardIsStored'
  <2>1. ASSUME NEW e \in heard, e.type = "relation_created"
        PROVE  /\ \E x \in edges : x.id = e.id /\ x.source = e.source /\ x.target = e.target
               /\ \A i \in {e.source, e.target} : [type |-> "entity_created", id |-> i] \in heard'
    BY <1>5, <2>1 DEF GraphInv, HeardIsStored
  <2>2. \A e \in heard : e.type = "entity_created" => \E n \in nodes : n.id = e.id
    BY DEF GraphInv, HeardIsStored
  <2>3. ev.type = "entity_created" => \E n \in nodes : n.id = ev.id
    BY <1>4, <1>6
  <2>4. ev.type = "relation_created" =>
           /\ \E x \in edges : x.id = ev.id /\ x.source = ev.source /\ x.target = ev.target
           /\ \A i \in {ev.source, ev.target} : [type |-> "entity_created", id |-> i] \in heard'
    BY <1>4, <1>5, <1>6 DEF Known
  <2> QED BY <1>4, <1>5, <2>1, <2>2, <2>3, <2>4 DEF HeardIsStored
<1>10. CASE GraphAttemptFails(d)
  BY <1>7, <1>8, <1>9, <1>10, AttemptMove
<1>11. CASE Done(d, calls[d])
  <2>1. IsCall(old) /\ \E S : old.todo \in Seq(S)
    BY <1>1 DEF CallShape
  <2>2. Done(d, old)
    BY <1>1, <1>11
  <2>3. PICK new : /\ calls' = [calls EXCEPT ![d] = new] /\ IsCall(new)
                   /\ new.pc = old.pc /\ new.merged = old.merged /\ new.related = old.related
                   /\ new.conflicts = old.conflicts /\ new.missed = old.missed
                   /\ \E S : new.todo \in Seq(S)
                   /\ ToSet(old.todo) = ToSet(new.todo) \cup {Head(old.todo)}
    BY <1>4, <2>1, <2>2, ItemDone
  <2>4. CallShape(new)
    BY <1>1, <2>3 DEF CallShape
  <2>5. CallFacts(d, new)'
    <3>1. CallFacts(d, old)'
      BY <1>1, <1>8, FactsStay
    <3>2. old.pc = "announce" => Known(item)'
      BY <1>5, <1>6 DEF Known
    <3>3. old.pc = "announce" => \A m \in new.merged : Known(m[2])' \/ m[2] \in ToSet(new.todo)
      BY <1>2, <2>3, <3>1, <3>2 DEF CallFacts
    <3>4. /\ \A m \in new.merged : m = <<m[1], m[2]>> /\ <<m[2], WorkspaceOf[d], m[1]>> \in Named'
          /\ \A x \in new.related :
                /\ IsEdge(x) /\ <<x.id, x.source, x.target>> \in Linked'
                /\ \A i \in {x.source, x.target} : \E m \in new.merged : m[2] = i
      BY <2>3, <3>1 DEF CallFacts
    <3>5. new.pc \in {"announce", "check"} => \A i \in ToSet(new.todo) : \E m \in new.merged : m[2] = i
      BY <2>3, <3>1 DEF CallFacts
    <3>6. new.pc \in Announced => \A m \in new.merged : Known(m[2])'
      BY <2>3, <3>1 DEF CallFacts
    <3>7. new.pc \in {"announceRelations", "checkRelations"} => ToSet(new.todo) \subseteq new.related
      BY <2>3, <3>1 DEF CallFacts
    <3>8. new.pc \notin Merging
      BY <1>4, <2>3 DEF Merging
    <3> QED BY <2>3, <3>3, <3>4, <3>5, <3>6, <3>7, <3>8 DEF CallFacts, Merging
  <2>6. ASSUME NEW k \in Named, Handles(d, old, k) PROVE Handles(d, new, k)'
    <3>1. /\ new.pc \in GraphRunning /\ k[2] = WorkspaceOf[d]
          /\ \E e \in ToSet(Extracted[d]) : e.name = k[3]
      BY <1>4, <2>3, <2>6 DEF Handles, GraphRunning
    <3>2. CASE new.missed
      BY <3>1, <3>2 DEF Handles
    <3>3. CASE ~new.missed
      <4>1. PICK x \in Alike(k) : <<x[3], x[1]>> \in old.merged /\ SeesTo(old, x, k)
        BY <1>4, <2>3, <2>6, <3>3 DEF Handles, Merging
      <4>2. x \in Alike(k)' /\ PairsUpTo(x, k)' = PairsUpTo(x, k)
        BY <1>7, <1>8, PairsStay DEF GraphInv
      <4>3. Told \subseteq Told'
        BY <1>5, ToldGrows
      <4>4. SeesTo(new, x, k)'
        <5>1. CASE old.pc \in {"announce", "announceRelations"}
          BY <2>3, <5>1 DEF SeesTo
        <5>2. CASE old.pc = "announceConflicts"
          <6>1. PairsUpTo(x, k) \subseteq Told \cup ToSet(old.todo)
            BY <4>1, <5>2 DEF SeesTo, Merging
          <6>2. item \in Told'
            BY <1>5, <1>6, <5>2 DEF Told
          <6>3. PairsUpTo(x, k)' \subseteq Told' \cup ToSet(new.todo)
            BY <1>2, <2>3, <4>2, <4>3, <6>1, <6>2
          <6> QED BY <2>3, <5>2, <6>3 DEF SeesTo
        <5>3. CASE old.pc = "update"
          <6>1. PairsUpTo(x, k) \subseteq Told
            BY <4>1, <5>3 DEF SeesTo, Merging
          <6>2. PairsUpTo(x, k)' \subseteq Told'
            BY <4>2, <4>3, <6>1
          <6> QED BY <2>3, <5>3, <6>2 DEF SeesTo
        <5> QED BY <1>4, <5>1, <5>2, <5>3
      <4> QED BY <2>3, <3>1, <4>1, <4>2, <4>4 DEF Handles
    <3> QED BY <3>2, <3>3
  <2> QED BY <1>1, <1>7, <1>8, <1>9, <2>3, <2>4, <2>5, <2>6, CallMoves
<1> QED BY <1>10, <1>11 DEF Publish

-----------------------------------------------------------------------------
(* A crash takes every call under way.                                       *)
LEMMA GraphCrashStep ==
    ASSUME GraphInv, GraphCrash
    PROVE  GraphInv'
<1>1. StoreFacts /\ StoreFacts' /\ Grows /\ HeardIsStored' /\ Named' = Named
  BY StoreStays DEF GraphInv, GraphCrash
<1>2. PICK lost : lost = Call("lost", 0)
  OBVIOUS
<1>3. calls' = [d \in GraphDeliveries |-> IF calls[d].pc \in GraphRunning THEN lost ELSE calls[d]]
  BY <1>2 DEF GraphCrash
<1>4. ASSUME NEW d \in GraphDeliveries
      PROVE  \E c : /\ c = calls'[d] /\ CallShape(c) /\ CallFacts(d, c)'
                    /\ \A k \in Named : \A o : o = calls[d] /\ Handles(d, o, k) => Handles(d, c, k)'
  <2>1. PICK old : old = calls[d] /\ CallShape(old) /\ CallFacts(d, old)
    BY DEF GraphInv
  <2>2. CASE old.pc \in GraphRunning
    <3>1. /\ CallShape(lost) /\ CallFacts(d, lost)
          /\ \A k : k[2] = WorkspaceOf[d] /\ (\E e \in ToSet(Extracted[d]) : e.name = k[3])
                    => Handles(d, lost, k)
      BY <1>2, EndFacts
    <3>2. CallFacts(d, lost)'
      BY <1>1, <3>1, FactsStay
    <3>3. ASSUME NEW k \in Named, Handles(d, old, k) PROVE Handles(d, lost, k)'
      <4>1. Handles(d, lost, k)
        BY <3>1, <3>3 DEF Handles
      <4> QED BY <1>1, <4>1, HandlesStay
    <3>4. calls'[d] = lost
      BY <1>3, <2>1, <2>2
    <3> QED BY <2>1, <3>1, <3>2, <3>3, <3>4
  <2>3. CASE old.pc \notin GraphRunning
    <3>1. CallFacts(d, old)'
      BY <1>1, <2>1, FactsStay
    <3>2. \A k \in Named : Handles(d, old, k) => Handles(d, old, k)'
      BY <1>1, HandlesStay
    <3>3. calls'[d] = old
      BY <1>3, <2>1, <2>3
    <3> QED BY <2>1, <3>1, <3>2, <3>3
  <2> QED BY <2>2, <2>3
<1>5. calls' = [d \in GraphDeliveries |-> calls'[d]]
  BY <1>3
<1>6. \A d \in GraphDeliveries : \E c : c = calls'[d] /\ CallShape(c) /\ CallFacts(d, c)'
  BY <1>4
<1>7. ASSUME NEW k \in Named' PROVE \E d \in GraphDeliveries : \E c : c = calls'[d] /\ Handles(d, c, k)'
  <2>1. PICK d \in GraphDeliveries : \E c : c = calls[d] /\ Handles(d, c, k)
    BY <1>1 DEF GraphInv
  <2>2. PICK o : o = calls[d] /\ Handles(d, o, k)
    BY <2>1
  <2>3. PICK c : c = calls'[d] /\ Handles(d, c, k)'
    BY <1>1, <1>4, <2>2
  <2> QED BY <2>3
<1> QED BY <1>1, <1>5, <1>6, <1>7 DEF GraphInv

LEMMA GraphStarts == ASSUME GraphInit PROVE GraphInv
<1>1. StoreFacts
  <2>1. IsFiniteSet({})
    BY FS_EmptySet
  <2> QED BY <2>1 DEF GraphInit, StoreFacts, Identified
<1>2. PICK first : first = Call("waiting", 0)
  OBVIOUS
<1>3. /\ IsCall(first) /\ first.pc = "waiting" /\ first.todo = <<>> /\ first.merged = {}
      /\ first.related = {} /\ first.conflicts = {} /\ first.missed = FALSE
  BY <1>2 DEF Call, IsCall
<1>4. CallShape(first)
  <2>1. IsFiniteSet({}) /\ <<>> \in Seq({})
    BY FS_EmptySet
  <2> QED BY <1>3, <2>1 DEF CallShape
<1>5. \A d \in GraphDeliveries : CallFacts(d, first)
  BY <1>3 DEF CallFacts, Merging, Announced
<1>6. calls = [d \in GraphDeliveries |-> first]
  BY <1>2 DEF GraphInit
<1>7. Named = {} /\ HeardIsStored
  BY DEF GraphInit, Named, HeardIsStored
<1> QED BY <1>1, <1>4, <1>5, <1>6, <1>7 DEF GraphInv

(* The inductive invariant, in every state.                                  *)
THEOREM GraphInvariant == GraphSpec => []GraphInv
<1>1. GraphInit => GraphInv
  BY GraphStarts
<1>2. GraphInv /\ [GraphNext]_graphVars => GraphInv'
  <2> SUFFICES ASSUME GraphInv, [GraphNext]_graphVars PROVE GraphInv'
    OBVIOUS
  <2>1. ASSUME NEW d \in GraphDeliveries,
               \/ Receive(d) \/ MergeEntity(d) \/ CreateEntity(d) \/ Skip(d) \/ MergeRelation(d)
               \/ CheckConflicts(d) \/ Publish(d) \/ PublishRejects(d) \/ Advance(d) \/ Complete(d)
        PROVE  GraphInv'
    BY <2>1, ReceiveStep, MergeEntityStep, CreateEntityStep, SkipStep, MergeRelationStep,
       CheckConflictsStep, PublishStep, PublishRejectsStep, AdvanceStep, CompleteStep
  <2>2. CASE GraphCrash
    BY <2>2, GraphCrashStep
  <2>3. CASE UNCHANGED graphVars
    <3>1. UNCHANGED <<nodes, edges, calls, heard>>
      BY <2>3 DEF graphVars
    <3>2. StoreFacts' /\ Grows /\ HeardIsStored' /\ Named' = Named /\ StoreFacts
      BY <3>1, StoreStays DEF GraphInv
    <3>3. calls' = [d \in GraphDeliveries |-> calls'[d]]
      BY <3>1 DEF GraphInv
    <3>4. \A d \in GraphDeliveries : \E c : c = calls'[d] /\ CallShape(c) /\ CallFacts(d, c)'
      BY <3>1, <3>2, FactsStay DEF GraphInv
    <3>5. \A k \in Named' : \E d \in GraphDeliveries : \E c : c = calls'[d] /\ Handles(d, c, k)'
      BY <3>1, <3>2, HandlesStay DEF GraphInv
    <3> QED BY <3>2, <3>3, <3>4, <3>5 DEF GraphInv
  <2> QED BY <2>1, <2>2, <2>3 DEF GraphNext
<1> QED BY <1>1, <1>2, PTL DEF GraphSpec

(* What consumers hear of can be found, and an entity before its relations.  *)
THEOREM EventsAreOfStored == GraphSpec => []HeardIsStored
<1>1. GraphInv => HeardIsStored
  BY DEF GraphInv
<1> QED BY <1>1, GraphInvariant, PTL

(* The call that handles the youngest node of a name has told of it.         *)
LEMMA ToldInTheEnd == ASSUME GraphInv PROVE DuplicatesAreAnnounced
<1> SUFFICES ASSUME \A d \in GraphDeliveries : calls[d].pc \in {"waiting", "done"} /\ ~calls[d].missed,
                    NEW m \in nodes
             PROVE  LET alike == {n \in nodes : n.workspace = m.workspace /\ n.name = m.name}
                    IN  \E x \in alike : \A n \in alike \ {x} :
                           \E ev \in heard : ev.type = "conflict_detected"
                                             /\ ev.conflict = [kind |-> "duplicate_entity",
                                                               ids |-> {x.id, n.id}]
  BY DEF DuplicatesAreAnnounced
<1>0. PICK alike : alike = {n \in nodes : n.workspace = m.workspace /\ n.name = m.name}
  OBVIOUS
<1>1. PICK top \in alike : \A n \in alike : n.id \in Nat /\ n.id <= top.id
  <2>1. PICK ids : ids = {n.id : n \in alike}
    OBVIOUS
  <2>2. IsFiniteSet(ids)
    <3>1. [n \in alike |-> n.id] \in Surjection(alike, ids)
      BY <2>1 DEF Surjection
    <3>2. IsFiniteSet(nodes) /\ alike \in SUBSET nodes
      BY <1>0 DEF GraphInv, StoreFacts, Identified
    <3>3. IsFiniteSet(alike)
      BY <3>2, FS_Subset
    <3> QED BY <3>1, <3>3, FS_Surjection
  <2>3. \A n \in nodes : n.id \in Nat
    BY FS_CardinalityType DEF GraphInv, StoreFacts, Identified
  <2>4. ids \in SUBSET Int /\ ids # {}
    BY <1>0, <2>1, <2>3
  <2>5. Max(ids) \in ids /\ \A i \in ids : i <= Max(ids)
    BY <2>2, <2>4, MaxOfIntegers
  <2>6. PICK top \in alike : top.id = Max(ids)
    BY <2>1, <2>5
  <2> QED BY <1>0, <2>1, <2>3, <2>5, <2>6
<1>2. PICK k : k = <<top.id, m.workspace, m.name>>
  OBVIOUS
<1>3. \A n \in alike : <<n.id, m.workspace, m.name>> \in Named
  BY <1>0 DEF Named
<1>4. k \in Named /\ k[1] = top.id /\ k[2] = m.workspace /\ k[3] = m.name
  BY <1>2, <1>3
<1>5. PICK d \in GraphDeliveries : \E c : c = calls[d] /\ Handles(d, c, k)
  BY <1>4 DEF GraphInv
<1>6. PICK c : c = calls[d] /\ Handles(d, c, k)
  BY <1>5
<1>7. c.pc = "done" /\ ~c.missed
  BY <1>6 DEF Handles, GraphRunning
<1>8. PICK x \in Alike(k) : PairsUpTo(x, k) \subseteq Told
  BY <1>6, <1>7 DEF Handles, SeesTo, Merging
<1>9. PICK y \in nodes : x = <<y.id, y.workspace, y.name>>
  BY DEF Alike, Named
<1>10. y \in alike
  BY <1>0, <1>4, <1>8, <1>9 DEF Alike
<1>11. ASSUME NEW n \in alike \ {y}
       PROVE  \E ev \in heard : ev.type = "conflict_detected" /\ ev.conflict = Pair(y.id, n.id)
  <2>1. PICK z : z = <<n.id, m.workspace, m.name>>
    OBVIOUS
  <2>2. z \in Alike(k) /\ z[1] = n.id
    BY <1>3, <1>4, <2>1 DEF Alike
  <2>3. n.id # y.id
    BY <1>0, <1>9, <1>11 DEF GraphInv, StoreFacts, Identified
  <2>4. x[1] = y.id
    BY <1>9
  <2>5. z # x /\ z[1] <= k[1]
    BY <1>1, <1>4, <2>2, <2>3, <2>4
  <2>6. Pair(x[1], z[1]) \in PairsUpTo(x, k)
    BY <2>2, <2>5 DEF PairsUpTo
  <2>7. Pair(y.id, n.id) \in Told
    BY <1>8, <2>2, <2>4, <2>6
  <2> QED BY <2>7 DEF Told
<1> QED BY <1>0, <1>10, <1>11 DEF Pair

(* When all calls on a name completed without a swallowed error, one of its  *)
(* nodes was announced as the duplicate of each other one.                   *)
THEOREM DuplicatesAreTold == GraphSpec => []DuplicatesAreAnnounced
BY ToldInTheEnd, GraphInvariant, PTL

-----------------------------------------------------------------------------
(***************************************************************************)
(* GraphMemory, queries.  A relation joins two entities of one workspace,   *)
(* so that no path leaves the workspace it starts in.                       *)
(***************************************************************************)
HasNode(i, w) == \E n \in nodes : n.id = i /\ n.workspace = w
EdgesInside == \A x \in edges : \E w : HasNode(x.source, w) /\ HasNode(x.target, w)

(* Entities keep their ids and their workspaces.                             *)
LEMMA NodesKept ==
    ASSUME GraphInv, GraphNext
    PROVE  \A n \in nodes : \E m \in nodes' : m.id = n.id /\ m.workspace = n.workspace
<1>1. CASE \E d \in GraphDeliveries : MergeEntity(d)
  <2>1. PICK d \in GraphDeliveries : MergeEntity(d)
    BY <1>1
  <2>2. PICK found \in SUBSET nodes :
           found = {n \in nodes : n.workspace = WorkspaceOf[d] /\ n.name = Now(d).name}
    OBVIOUS
  <2>3. \/ nodes' = nodes
        \/ nodes' = (nodes \ found) \cup
                       {[n EXCEPT !.confidence = Max({@, Now(d).confidence})] : n \in found}
    BY <2>1, <2>2 DEF MergeEntity
  <2>4. ASSUME NEW n \in found
        PROVE  LET m == [n EXCEPT !.confidence = Max({@, Now(d).confidence})]
               IN  m.id = n.id /\ m.workspace = n.workspace
    <3>1. PICK high : high = Max({n.confidence, Now(d).confidence})
      OBVIOUS
    <3>2. IsNode(n)
      BY DEF GraphInv, StoreFacts
    <3>3. LET m == [n EXCEPT !.confidence = high] IN m.id = n.id /\ m.workspace = n.workspace
      BY <3>2 DEF IsNode
    <3> QED BY <3>1, <3>3
  <2>5. CASE nodes' = nodes
    BY <2>5
  <2>6. CASE nodes' # nodes
    <3>1. ASSUME NEW n \in nodes, n \in found
          PROVE  \E m \in nodes' : m.id = n.id /\ m.workspace = n.workspace
      <4>1. PICK m : m = [n EXCEPT !.confidence = Max({@, Now(d).confidence})]
        OBVIOUS
      <4>2. m \in nodes'
        BY <2>3, <2>6, <3>1, <4>1
      <4>3. m.id = n.id /\ m.workspace = n.workspace
        BY <2>4, <3>1, <4>1
      <4> QED BY <4>2, <4>3
    <3>2. \A n \in nodes : n \notin found => n \in nodes'
      BY <2>3, <2>6
    <3> QED BY <3>1, <3>2
  <2> QED BY <2>5, <2>6
<1>2. CASE \E d \in GraphDeliveries : CreateEntity(d)
  BY <1>2 DEF CreateEntity
<1>3. CASE nodes' = nodes
  BY <1>3
<1> QED BY <1>1, <1>2, <1>3 DEF GraphNext, Receive, Skip, MergeRelation, CheckConflicts, Publish,
           PublishRejects, Advance, Complete, GraphCrash

(* A relation that is merged has both ends among what its call has merged.   *)
LEMMA NewEdgesInside ==
    ASSUME GraphInv, NEW d \in GraphDeliveries, MergeRelation(d)
    PROVE  \A x \in edges' :
              \/ x \in edges
              \/ HasNode(x.source, WorkspaceOf[d]) /\ HasNode(x.target, WorkspaceOf[d])
<1>1. PICK c : c = calls[d] /\ CallFacts(d, c)
  BY DEF GraphInv
<1>2. PICK p \in calls[d].merged \X calls[d].merged :
         LET same == {x \in edges : x.source = p[1][2] /\ x.target = p[2][2]
                                    /\ x.type = Now(d).type}
             raised == {[x EXCEPT !.confidence = Max({@, Now(d).confidence})] : x \in same}
             new == {[id |-> Cardinality(edges) + 1, source |-> p[1][2], target |-> p[2][2],
                      type |-> Now(d).type, confidence |-> Now(d).confidence]}
         IN  edges' = (edges \ same) \cup (IF same = {} THEN new ELSE raised)
  BY DEF MergeRelation
<1>3. PICK from : from = p[1][2]
  OBVIOUS
<1>4. PICK to : to = p[2][2]
  OBVIOUS
<1>5. ASSUME NEW m \in c.merged
      PROVE  HasNode(m[2], WorkspaceOf[d])
  <2>1. <<m[2], WorkspaceOf[d], m[1]>> \in Named
    BY <1>1 DEF CallFacts
  <2> QED BY <2>1 DEF Named, HasNode
<1>6. HasNode(from, WorkspaceOf[d]) /\ HasNode(to, WorkspaceOf[d])
  BY <1>1, <1>3, <1>4, <1>5
<1>7. ASSUME NEW x \in edges', x \notin edges
      PROVE  x.source = from /\ x.target = to
  <2>1. CASE x = [id |-> Cardinality(edges) + 1, source |-> from, target |-> to,
                  type |-> Now(d).type, confidence |-> Now(d).confidence]
    BY <2>1
  <2>2. CASE \E y \in edges : /\ y.source = from /\ y.target = to
                              /\ x = [y EXCEPT !.confidence = Max({@, Now(d).confidence})]
    <3>1. PICK y \in edges : /\ y.source = from /\ y.target = to
                             /\ x = [y EXCEPT !.confidence = Max({@, Now(d).confidence})]
      BY <2>2
    <3>2. PICK high : high = Max({y.confidence, Now(d).confidence})
      OBVIOUS
    <3>3. x = [y EXCEPT !.confidence = high]
      BY <3>1, <3>2
    <3>4. IsEdge(y)
      BY DEF GraphInv, StoreFacts
    <3> QED BY <3>1, <3>3, <3>4 DEF IsEdge
  <2>3. \/ x = [id |-> Cardinality(edges) + 1, source |-> from, target |-> to,
                type |-> Now(d).type, confidence |-> Now(d).confidence]
        \/ \E y \in edges : /\ y.source = from /\ y.target = to
                            /\ x = [y EXCEPT !.confidence = Max({@, Now(d).confidence})]
    BY <1>2, <1>3, <1>4, <1>7
  <2> QED BY <2>1, <2>2, <2>3
<1> QED BY <1>6, <1>7

LEMMA EdgesStayInside ==
    ASSUME GraphInv, EdgesInside, [GraphNext]_graphVars
    PROVE  EdgesInside'
<1>1. CASE UNCHANGED graphVars
  BY <1>1 DEF graphVars, EdgesInside, HasNode
<1>2. CASE GraphNext
  <2>1. ASSUME NEW i, NEW w, HasNode(i, w)
        PROVE  HasNode(i, w)'
    BY <1>2, <2>1, NodesKept DEF HasNode
  <2>2. ASSUME NEW x \in edges'
        PROVE  \E w : HasNode(x.source, w) /\ HasNode(x.target, w)
    <3>1. CASE x \in edges
      BY <3>1 DEF EdgesInside
    <3>2. CASE x \notin edges
      <4>1. PICK d \in GraphDeliveries : MergeRelation(d)
        BY <1>2, <3>2 DEF GraphNext, Receive, MergeEntity, CreateEntity, Skip, CheckConflicts,
              Publish, PublishRejects, Advance, Complete, GraphCrash
      <4> QED BY <3>2, <4>1, NewEdgesInside
    <3> QED BY <3>1, <3>2
  <2>3. ASSUME NEW x \in edges'
        PROVE  \E w : HasNode(x.source, w)' /\ HasNode(x.target, w)'
    <3>1. PICK w : HasNode(x.source, w) /\ HasNode(x.target, w)
      BY <2>2
    <3>2. PICK i : i = x.source
      OBVIOUS
    <3>3. PICK j : j = x.target
      OBVIOUS
    <3>4. HasNode(i, w)' /\ HasNode(j, w)'
      BY <2>1, <3>1, <3>2, <3>3
    <3> QED BY <3>2, <3>3, <3>4 DEF HasNode
  <2> QED BY <2>3 DEF EdgesInside, HasNode
<1> QED BY <1>1, <1>2

LEMMA EdgesKeptInside == GraphSpec => []EdgesInside
<1>1. GraphInit => EdgesInside
  BY DEF GraphInit, EdgesInside
<1>2. GraphInv /\ EdgesInside /\ [GraphNext]_graphVars => EdgesInside'
  BY EdgesStayInside
<1> QED BY <1>1, <1>2, GraphInvariant, PTL DEF GraphSpec

-----------------------------------------------------------------------------
(* Paths of one relation, and of two.                                        *)
Outset(i) == {[last |-> i, over |-> {}]}
Longer(paths) == UNION {Extend(p) : p \in paths}

LEMMA PathsOfOne == ASSUME NEW i PROVE PathsFrom(i, 1) = Longer(Outset(i))
<1> DEFINE Level(f) == [n \in 0..1 |-> IF n = 0 THEN {[last |-> i, over |-> {}]}
                                       ELSE UNION {Extend(p) : p \in f[n - 1]}]
           paths == CHOOSE f : f = Level(f)
           f0 == [n \in 0..1 |-> IF n = 0 THEN Outset(i) ELSE Longer(Outset(i))]
<1>1. f0 = Level(f0)
  <2>1. f0[0] = Outset(i) /\ f0[1] = Longer(Outset(i))
    OBVIOUS
  <2> HIDE DEF f0
  <2>2. UNION {Extend(p) : p \in f0[0]} = Longer(Outset(i))
    BY <2>1 DEF Longer
  <2>3. Level(f0)[0] = Outset(i)
    BY DEF Outset
  <2>4. Level(f0)[1] = UNION {Extend(p) : p \in f0[0]}
    OBVIOUS
  <2>5. f0 = [n \in 0..1 |-> f0[n]]
    BY DEF f0
  <2>6. \A n \in 0..1 : n = 0 \/ n = 1
    OBVIOUS
  <2>7. Level(f0) = [n \in 0..1 |-> Level(f0)[n]]
    OBVIOUS
  <2> HIDE DEF Level
  <2> QED BY <2>1, <2>2, <2>3, <2>4, <2>5, <2>6, <2>7
<1>2. paths = Level(paths)
  BY <1>1
<1>3. PathsFrom(i, 1) = UNION {paths[n] : n \in 1..1}
  BY DEF PathsFrom
<1> HIDE DEF paths
<1>4. paths[0] = Outset(i)
  <2>1. Level(paths)[0] = Outset(i)
    BY DEF Outset
  <2> HIDE DEF Level
  <2> QED BY <1>2, <2>1
<1>5. paths[1] = UNION {Extend(p) : p \in paths[0]}
  <2>1. Level(paths)[1] = UNION {Extend(p) : p \in paths[0]}
    OBVIOUS
  <2> HIDE DEF Level
  <2> QED BY <1>2, <2>1
<1>6. PathsFrom(i, 1) = paths[1]
  BY <1>3
<1> QED BY <1>4, <1>5, <1>6 DEF Longer

LEMMA PathsOfTwo ==
    ASSUME NEW i
    PROVE  PathsFrom(i, 2) = Longer(Outset(i)) \cup Longer(Longer(Outset(i)))
<1> DEFINE Level(f) == [n \in 0..2 |-> IF n = 0 THEN {[last |-> i, over |-> {}]}
                                       ELSE UNION {Extend(p) : p \in f[n - 1]}]
           paths == CHOOSE f : f = Level(f)
           f0 == [n \in 0..2 |-> IF n = 0 THEN Outset(i)
                                 ELSE IF n = 1 THEN Longer(Outset(i))
                                 ELSE Longer(Longer(Outset(i)))]
<1>1. f0 = Level(f0)
  <2>1. f0[0] = Outset(i) /\ f0[1] = Longer(Outset(i)) /\ f0[2] = Longer(Longer(Outset(i)))
    OBVIOUS
  <2> HIDE DEF f0
  <2>2. /\ UNION {Extend(p) : p \in f0[0]} = Longer(Outset(i))
        /\ UNION {Extend(p) : p \in f0[1]} = Longer(Longer(Outset(i)))
    BY <2>1 DEF Longer
  <2>3. Level(f0)[0] = Outset(i)
    BY DEF Outset
  <2>4. /\ Level(f0)[1] = UNION {Extend(p) : p \in f0[0]}
        /\ Level(f0)[2] = UNION {Extend(p) : p \in f0[1]}
    OBVIOUS
  <2>5. f0 = [n \in 0..2 |-> f0[n]]
    BY DEF f0
  <2>6. \A n \in 0..2 : n = 0 \/ n = 1 \/ n = 2
    OBVIOUS
  <2>7. Level(f0) = [n \in 0..2 |-> Level(f0)[n]]
    OBVIOUS
  <2> HIDE DEF Level
  <2> QED BY <2>1, <2>2, <2>3, <2>4, <2>5, <2>6, <2>7
<1>2. paths = Level(paths)
  BY <1>1
<1>3. PathsFrom(i, 2) = UNION {paths[n] : n \in 1..2}
  BY DEF PathsFrom
<1> HIDE DEF paths
<1>4. paths[0] = Outset(i)
  <2>1. Level(paths)[0] = Outset(i)
    BY DEF Outset
  <2> HIDE DEF Level
  <2> QED BY <1>2, <2>1
<1>5. /\ paths[1] = UNION {Extend(p) : p \in paths[0]}
      /\ paths[2] = UNION {Extend(p) : p \in paths[1]}
  <2>1. /\ Level(paths)[1] = UNION {Extend(p) : p \in paths[0]}
        /\ Level(paths)[2] = UNION {Extend(p) : p \in paths[1]}
    OBVIOUS
  <2> HIDE DEF Level
  <2> QED BY <1>2, <2>1
<1>6. PathsFrom(i, 2) = paths[1] \cup paths[2]
  BY <1>3
<1> QED BY <1>4, <1>5, <1>6 DEF Longer

(* A path that has stayed in a workspace.                                    *)
PathInside(p, w) ==
    /\ HasNode(p.last, w)
    /\ \A x \in p.over : HasNode(x.source, w) /\ HasNode(x.target, w)

LEMMA OneWorkspace ==
    ASSUME GraphInv, NEW i, NEW v, NEW w, HasNode(i, v), HasNode(i, w)
    PROVE  v = w
BY DEF HasNode, GraphInv, StoreFacts, Identified

LEMMA ExtendStaysInside ==
    ASSUME GraphInv, EdgesInside, NEW w, NEW p, PathInside(p, w), NEW q \in Extend(p)
    PROVE  PathInside(q, w) /\ \E x \in edges \ p.over : q.over = p.over \cup {x}
<1>1. PICK x \in edges \ p.over :
         /\ p.last \in {x.source, x.target}
         /\ q = [last |-> IF x.source = p.last THEN x.target ELSE x.source,
                 over |-> p.over \cup {x}]
  BY DEF Extend
<1>2. PICK v : HasNode(x.source, v) /\ HasNode(x.target, v)
  BY DEF EdgesInside
<1>3. v = w
  BY <1>1, <1>2, OneWorkspace DEF PathInside
<1>4. q.over = p.over \cup {x} /\ q.last \in {x.source, x.target}
  BY <1>1
<1> QED BY <1>1, <1>2, <1>3, <1>4 DEF PathInside

OneOrTwo(S) == \E x, y : S = {x} \/ (x # y /\ S = {x, y})

LEMMA PathsStayInside ==
    ASSUME GraphInv, EdgesInside, NEW w, NEW i, HasNode(i, w)
    PROVE  /\ \A p \in PathsFrom(i, 1) : PathInside(p, w) /\ \E x : p.over = {x}
           /\ \A p \in PathsFrom(i, 2) : PathInside(p, w) /\ OneOrTwo(p.over)
<1>1. \A p \in Outset(i) : PathInside(p, w) /\ p.over = {}
  BY DEF Outset, PathInside
<1>2. ASSUME NEW p \in Longer(Outset(i))
      PROVE  PathInside(p, w) /\ \E x : p.over = {x}
  <2>1. PICK o \in Outset(i) : p \in Extend(o)
    BY DEF Longer
  <2>2. PathInside(p, w) /\ \E x \in edges \ o.over : p.over = o.over \cup {x}
    BY <1>1, <2>1, ExtendStaysInside
  <2> QED BY <1>1, <2>2
<1>3. ASSUME NEW p \in Longer(Longer(Outset(i)))
      PROVE  PathInside(p, w) /\ \E x, y : x # y /\ p.over = {x, y}
  <2>1. PICK o \in Longer(Outset(i)) : p \in Extend(o)
    BY DEF Longer
  <2>2. PathInside(o, w) /\ \E x : o.over = {x}
    BY <1>2
  <2>3. PICK x : o.over = {x}
    BY <2>2
  <2>4. PathInside(p, w) /\ \E y \in edges \ o.over : p.over = o.over \cup {y}
    BY <2>1, <2>2, ExtendStaysInside
  <2>5. PICK y \in edges \ o.over : p.over = o.over \cup {y}
    BY <2>4
  <2>6. x # y /\ p.over = {x, y}
    BY <2>3, <2>5
  <2> QED BY SMTT(30), <2>4, <2>6
<1> QED BY <1>2, <1>3, PathsOfOne, PathsOfTwo DEF OneOrTwo

(* What joins two entities, whichever way.                                   *)
Joins(x, i, j) == {x.source, x.target} = {i, j}

(* A relation is a path from each of its ends to the other.                  *)
LEMMA RelationIsPath ==
    ASSUME NEW x \in edges, NEW i, NEW j, Joins(x, i, j)
    PROVE  \E p \in Longer(Outset(i)) : p.last = j /\ p.over = {x}
<1>1. PICK o : o = [last |-> i, over |-> {}]
  OBVIOUS
<1>2. PICK p : p = [last |-> IF x.source = o.last THEN x.target ELSE x.source,
                    over |-> o.over \cup {x}]
  OBVIOUS
<1>3. o.last = i /\ o.over = {} /\ o \in Outset(i)
  BY <1>1 DEF Outset
<1>4. i \in {x.source, x.target}
  BY DEF Joins
<1>5. p \in Extend(o)
  BY <1>2, <1>3, <1>4 DEF Extend
<1>6. p \in Longer(Outset(i))
  BY <1>3, <1>5 DEF Longer
<1>7. p.last = j /\ p.over = {x}
  BY <1>2, <1>3 DEF Joins
<1> QED BY <1>6, <1>7

(* What a query answers, from entities of the workspace.                     *)
LEMMA AnswerStaysInside ==
    ASSUME GraphInv, EdgesInside, NEW w, NEW seeds, NEW depth \in {1, 2}, NEW least
    PROVE  \A j \in QueryGraph(w, seeds, depth, least).nodes : HasNode(j, w)
<1>1. PICK starts : starts = {n.id : n \in {n \in nodes : n.id \in seeds /\ n.workspace = w}}
  OBVIOUS
<1>2. PICK paths : /\ paths \subseteq UNION {PathsFrom(i, depth) : i \in starts}
                   /\ QueryGraph(w, seeds, depth, least).nodes = UNION {EndsOf(p.over) : p \in paths}
  BY <1>1 DEF QueryGraph
<1>3. ASSUME NEW p \in paths
      PROVE  \A j \in EndsOf(p.over) : HasNode(j, w)
  <2>1. PICK i \in starts : p \in PathsFrom(i, depth)
    BY <1>2
  <2>2. HasNode(i, w)
    BY <1>1, <2>1 DEF HasNode
  <2>3. PathInside(p, w)
    BY <2>1, <2>2, PathsStayInside
  <2> QED BY <2>3 DEF PathInside, EndsOf
<1> QED BY <1>2, <1>3

(* The neighbours of an entity are what a relation joins it with.            *)
LEMMA NeighborsAreJoined ==
    ASSUME GraphInv, EdgesInside, NEW w, NEW i, HasNode(i, w), NEW j
    PROVE  j \in EntityRoute(w, i).neighbors
              <=> j # i /\ \E x \in edges : x.confidence >= 0 /\ Joins(x, i, j)
<1>1. EntityRoute(w, i).neighbors = QueryGraph(w, {i}, 1, 0).nodes \ {i}
  BY DEF EntityRoute, HasNode
<1>2. {n.id : n \in {n \in nodes : n.id \in {i} /\ n.workspace = w}} = {i}
  BY DEF HasNode
<1>3. PICK paths :
         /\ paths = {p \in PathsFrom(i, 1) : /\ \E n \in nodes : n.id = p.last /\ n.workspace = w
                                             /\ {x \in p.over : x.confidence >= 0} # {}}
         /\ QueryGraph(w, {i}, 1, 0).nodes = UNION {EndsOf(p.over) : p \in paths}
  <2>1. UNION {PathsFrom(k, 1) : k \in {i}} = PathsFrom(i, 1)
    OBVIOUS
  <2> QED BY <1>2, <2>1 DEF QueryGraph
<1>4. ASSUME j \in QueryGraph(w, {i}, 1, 0).nodes, j # i
      PROVE  \E x \in edges : x.confidence >= 0 /\ Joins(x, i, j)
  <2>1. PICK p \in PathsFrom(i, 1) : /\ j \in EndsOf(p.over)
                                     /\ {x \in p.over : x.confidence >= 0} # {}
    BY <1>3, <1>4
  <2>2. PICK o \in Outset(i) : p \in Extend(o)
    BY <2>1, PathsOfOne DEF Longer
  <2>3. o.last = i /\ o.over = {}
    BY <2>2 DEF Outset
  <2>4. PICK x \in edges \ o.over : /\ o.last \in {x.source, x.target}
                                    /\ p = [last |-> IF x.source = o.last THEN x.target ELSE x.source,
                                            over |-> o.over \cup {x}]
    BY <2>2 DEF Extend
  <2>5. p.over = {x} /\ i \in {x.source, x.target}
    BY <2>3, <2>4
  <2>6. j \in {x.source, x.target} /\ x.confidence >= 0
    BY <2>1, <2>5 DEF EndsOf
  <2>7. Joins(x, i, j)
    BY <1>4, <2>5, <2>6 DEF Joins
  <2> QED BY <2>6, <2>7
<1>5. ASSUME NEW x \in edges, x.confidence >= 0, Joins(x, i, j)
      PROVE  j \in QueryGraph(w, {i}, 1, 0).nodes
  <2>1. PICK p \in PathsFrom(i, 1) : p.last = j /\ p.over = {x}
    BY <1>5, RelationIsPath, PathsOfOne
  <2>2. HasNode(j, w)
    BY <2>1, PathsStayInside DEF PathInside
  <2>3. p \in paths
    BY <1>3, <1>5, <2>1, <2>2 DEF HasNode
  <2>4. j \in EndsOf(p.over)
    BY <1>5, <2>1 DEF EndsOf, Joins
  <2> QED BY <1>3, <2>3, <2>4
<1> QED BY <1>1, <1>4, <1>5

(* Between joined entities there is a shortest path.                         *)
LEMMA JoinedAreFound ==
    ASSUME GraphInv, EdgesInside, NEW w, NEW i, NEW j, HasNode(i, w), HasNode(j, w),
           NEW x \in edges, Joins(x, i, j)
    PROVE  FindPaths(w, i, j, 2) # {}
<1>1. PICK p \in PathsFrom(i, 2) : p.last = j /\ p.over = {x}
  BY RelationIsPath, PathsOfTwo
<1>2. ASSUME NEW o \in PathsFrom(i, 2)
      PROVE  Cardinality(p.over) <= Cardinality(o.over)
  <2>1. OneOrTwo(o.over)
    BY PathsStayInside
  <2>3. PICK y, z : o.over = {y} \/ (y # z /\ o.over = {y, z})
    BY <2>1 DEF OneOrTwo
  <2>2. Cardinality({x}) = 1 /\ Cardinality({y}) = 1 /\ (y # z => Cardinality({y, z}) = 2)
    <3>1. IsFiniteSet({y}) /\ Cardinality({y}) = 1 /\ Cardinality({x}) = 1
      BY FS_Singleton
    <3>2. y # z => Cardinality({y} \cup {z}) = Cardinality({y}) + 1
      BY <3>1, FS_AddElement
    <3>3. {y, z} = {y} \cup {z}
      OBVIOUS
    <3> QED BY <3>1, <3>2, <3>3
  <2> QED BY <1>1, <2>2, <2>3
<1>3. {i, j} \subseteq {n.id : n \in {n \in nodes : n.workspace = w}}
  BY DEF HasNode
<1>4. p \in FindPaths(w, i, j, 2)
  BY <1>1, <1>2, <1>3 DEF FindPaths
<1> QED BY <1>4

LEMMA QueriesInside == ASSUME GraphInv, EdgesInside PROVE QueryStaysInside
<1> SUFFICES ASSUME NEW w
             PROVE  LET ids == {n.id : n \in nodes}
                        inside == {n.id : n \in {n \in nodes : n.workspace = w}}
                        neighbors == [i \in inside |-> EntityRoute(w, i).neighbors]
                    IN
                    /\ ids # {} => QueryRoute(w, ids, FALSE, 2, 0).result.nodes \subseteq inside
                    /\ \A i \in inside : neighbors[i] \subseteq inside
                    /\ \A i, j \in inside : i \in neighbors[j] => /\ j \in neighbors[i]
                                                               /\ FindPaths(w, i, j, 2) # {}
  BY Zenon DEF QueryStaysInside
<1> DEFINE ids == {n.id : n \in nodes}
           inside == {n.id : n \in {n \in nodes : n.workspace = w}}
           neighbors == [i \in inside |-> EntityRoute(w, i).neighbors]
<1>1. \A i : i \in inside <=> HasNode(i, w)
  BY DEF HasNode
<1>2. ids # {} => QueryRoute(w, ids, FALSE, 2, 0).result.nodes \subseteq inside
  <2>1. ids # {} => QueryRoute(w, ids, FALSE, 2, 0).result = QueryGraph(w, ids, 2, 0)
    BY DEF QueryRoute
  <2> QED BY <1>1, <2>1, AnswerStaysInside
<1>3. ASSUME NEW i \in inside
      PROVE  neighbors[i] \subseteq inside
  <2>1. neighbors[i] = QueryGraph(w, {i}, 1, 0).nodes \ {i}
    BY <1>1 DEF EntityRoute, HasNode
  <2> QED BY <1>1, <2>1, AnswerStaysInside
<1>4. ASSUME NEW i \in inside, NEW j \in inside, i \in neighbors[j]
      PROVE  j \in neighbors[i] /\ FindPaths(w, i, j, 2) # {}
  <2>1. HasNode(i, w) /\ HasNode(j, w)
    BY <1>1
  <2>2. i \in EntityRoute(w, j).neighbors
    BY <1>4
  <2>3. i # j /\ \E x \in edges : x.confidence >= 0 /\ Joins(x, j, i)
    BY <2>1, <2>2, NeighborsAreJoined
  <2>4. PICK x \in edges : x.confidence >= 0 /\ Joins(x, i, j)
    BY <2>3 DEF Joins
  <2>5. j \in EntityRoute(w, i).neighbors
    BY <2>1, <2>3, <2>4, NeighborsAreJoined
  <2>6. FindPaths(w, i, j, 2) # {}
    BY <2>1, <2>4, JoinedAreFound
  <2> QED BY <2>5, <2>6
<1> QED BY <1>2, <1>3, <1>4

(* Whatever is asked, and whoever's entities are named as seeds: an answer   *)
(* of graph-reader.ts names no entity of another workspace, an entity and    *)
(* its neighbours are each other's, and a path is found if there is one.     *)
THEOREM QueriesStayInside == GraphSpec => []QueryStaysInside
BY QueriesInside, GraphInvariant, EdgesKeptInside, PTL

-----------------------------------------------------------------------------
(***************************************************************************)
(* GraphText.  A text is finite, and the confidence of what is read in it   *)
(* is a number of thousandths.                                              *)
(***************************************************************************)
Text(T) == Seq(Seq(Seq(T)))

LEMMA ImageIsFinite ==
    ASSUME NEW S, IsFiniteSet(S), NEW f, f = [x \in S |-> f[x]]
    PROVE  IsFiniteSet({f[x] : x \in S})
<1>1. f \in Surjection(S, {f[x] : x \in S})
  BY DEF Surjection
<1> QED BY <1>1, FS_Surjection

LEMMA DomainIsFinite ==
    ASSUME NEW S, NEW s \in Seq(S)
    PROVE  IsFiniteSet(DOMAIN s)
<1>1. DOMAIN s = 1..Len(s) /\ Len(s) \in Int
  OBVIOUS
<1> QED BY <1>1, FS_Interval

LEMMA SentencesAreFinite ==
    ASSUME NEW T, NEW chunks \in Text(T)
    PROVE  /\ IsFiniteSet(Sentences(chunks))
           /\ \A p \in Sentences(chunks) : /\ p = <<p[1], p[2]>> /\ p[1] \in DOMAIN chunks
                                           /\ p[2] \in DOMAIN chunks[p[1]]
                                           /\ chunks[p[1]][p[2]] \in Seq(T)
<1>1. chunks \in Seq(Seq(Seq(T))) /\ \A c \in DOMAIN chunks : chunks[c] \in Seq(Seq(T))
  BY DEF Text
<1>2. ASSUME NEW c \in DOMAIN chunks
      PROVE  IsFiniteSet({<<c, s>> : s \in DOMAIN chunks[c]})
  <2>1. PICK f : f = [s \in DOMAIN chunks[c] |-> <<c, s>>]
    OBVIOUS
  <2>2. {f[s] : s \in DOMAIN chunks[c]} = {<<c, s>> : s \in DOMAIN chunks[c]}
    BY <2>1
  <2>3. IsFiniteSet(DOMAIN chunks[c])
    BY <1>1, DomainIsFinite
  <2> QED BY <2>1, <2>2, <2>3, ImageIsFinite
<1>3. PICK g : g = [c \in DOMAIN chunks |-> {<<c, s>> : s \in DOMAIN chunks[c]}]
  OBVIOUS
<1>4. IsFiniteSet({g[c] : c \in DOMAIN chunks})
  <2>1. IsFiniteSet(DOMAIN chunks)
    BY <1>1, DomainIsFinite
  <2>2. g = [c \in DOMAIN chunks |-> g[c]]
    BY <1>3
  <2> QED BY <2>1, <2>2, ImageIsFinite
<1>5. \A A \in {g[c] : c \in DOMAIN chunks} : IsFiniteSet(A)
  BY <1>2, <1>3
<1>6. Sentences(chunks) = UNION {g[c] : c \in DOMAIN chunks}
  BY <1>3 DEF Sentences
<1>7. IsFiniteSet(Sentences(chunks))
  BY <1>4, <1>5, <1>6, FS_UNION
<1>8. ASSUME NEW p \in Sentences(chunks)
      PROVE  /\ p = <<p[1], p[2]>> /\ p[1] \in DOMAIN chunks /\ p[2] \in DOMAIN chunks[p[1]]
             /\ chunks[p[1]][p[2]] \in Seq(T)
  <2>1. PICK c \in DOMAIN chunks : \E s \in DOMAIN chunks[c] : p = <<c, s>>
    BY DEF Sentences
  <2>2. PICK s \in DOMAIN chunks[c] : p = <<c, s>>
    BY <2>1
  <2>3. chunks[c][s] \in Seq(T)
    BY <1>1
  <2> QED BY <2>2, <2>3
<1> QED BY <1>7, <1>8

LEMMA PlacesAreFinite ==
    ASSUME NEW T, NEW chunks \in Text(T)
    PROVE  /\ IsFiniteSet(Places(chunks))
           /\ \A p \in Places(chunks) : /\ <<p[1], p[2]>> \in Sentences(chunks)
                                        /\ p[3] \in DOMAIN chunks[p[1]][p[2]]
                                        /\ p = <<p[1], p[2], p[3]>>
<1>1. ASSUME NEW p \in Sentences(chunks)
      PROVE  IsFiniteSet({<<p[1], p[2], i>> : i \in DOMAIN chunks[p[1]][p[2]]})
  <2>1. PICK f : f = [i \in DOMAIN chunks[p[1]][p[2]] |-> <<p[1], p[2], i>>]
    OBVIOUS
  <2>2. {f[i] : i \in DOMAIN chunks[p[1]][p[2]]}
           = {<<p[1], p[2], i>> : i \in DOMAIN chunks[p[1]][p[2]]}
    BY <2>1
  <2>3. PICK s : s = chunks[p[1]][p[2]]
    OBVIOUS
  <2>4. s \in Seq(T)
    BY <2>3, SentencesAreFinite
  <2>5. IsFiniteSet(DOMAIN chunks[p[1]][p[2]])
    BY <2>3, <2>4, DomainIsFinite
  <2>6. f = [i \in DOMAIN chunks[p[1]][p[2]] |-> f[i]]
    BY <2>1
  <2>7. IsFiniteSet({f[i] : i \in DOMAIN chunks[p[1]][p[2]]})
    BY <2>5, <2>6, ImageIsFinite
  <2> QED BY <2>2, <2>7
<1>2. PICK g : g = [p \in Sentences(chunks) |->
                       {<<p[1], p[2], i>> : i \in DOMAIN chunks[p[1]][p[2]]}]
  OBVIOUS
<1>3. IsFiniteSet({g[p] : p \in Sentences(chunks)})
  <2>1. IsFiniteSet(Sentences(chunks))
    BY SentencesAreFinite
  <2>2. g = [p \in Sentences(chunks) |-> g[p]]
    BY <1>2
  <2> QED BY <2>1, <2>2, ImageIsFinite
<1>4. \A A \in {g[p] : p \in Sentences(chunks)} : IsFiniteSet(A)
  BY <1>1, <1>2
<1>5. Places(chunks) = UNION {g[p] : p \in Sentences(chunks)}
  BY <1>2 DEF Places
<1>6. IsFiniteSet(Places(chunks))
  BY <1>3, <1>4, <1>5, FS_UNION
<1>7. ASSUME NEW p \in Places(chunks)
      PROVE  /\ <<p[1], p[2]>> \in Sentences(chunks) /\ p[3] \in DOMAIN chunks[p[1]][p[2]]
             /\ p = <<p[1], p[2], p[3]>>
  <2>1. PICK q \in Sentences(chunks) :
           \E i \in DOMAIN chunks[q[1]][q[2]] : p = <<q[1], q[2], i>>
    BY DEF Places
  <2>2. q = <<q[1], q[2]>>
    BY SentencesAreFinite
  <2> QED BY <2>1, <2>2
<1> QED BY <1>6, <1>7

LEMMA MentionsAreFinite ==
    ASSUME NEW T, NEW chunks \in Text(T)
    PROVE  /\ IsFiniteSet(Mentions(chunks))
           /\ \A m \in Mentions(chunks) : /\ <<m[1], m[2], m[3]>> \in Places(chunks)
                                          /\ m[4] \in m[3]..Len(chunks[m[1]][m[2]])
<1> DEFINE Capital(c, s, i) == i \in DOMAIN chunks[c][s] /\ chunks[c][s][i].k = "cap"
           Runs(p) == {b \in p[3]..Len(chunks[p[1]][p[2]]) :
                         /\ \A i \in p[3]..b : Capital(p[1], p[2], i)
                         /\ ~Capital(p[1], p[2], p[3] - 1) /\ ~Capital(p[1], p[2], b + 1)}
           At4(p) == {<<p[1], p[2], p[3], b>> : b \in Runs(p)}
<1>1. Mentions(chunks) = UNION {At4(p) : p \in Places(chunks)}
  BY DEF Mentions
<1>2. \A p \in Places(chunks) : Runs(p) \subseteq p[3]..Len(chunks[p[1]][p[2]])
  OBVIOUS
<1> HIDE DEF Runs
<1>3. ASSUME NEW p \in Places(chunks)
      PROVE  IsFiniteSet(At4(p))
  <2>1. PICK s : s = chunks[p[1]][p[2]]
    OBVIOUS
  <2>2. <<p[1], p[2]>> \in Sentences(chunks) /\ p[3] \in DOMAIN s
    BY <2>1, PlacesAreFinite
  <2>3. s \in Seq(T)
    BY <2>1, <2>2, SentencesAreFinite
  <2>4. p[3] \in Int /\ Len(s) \in Int
    BY <2>2, <2>3
  <2>5. IsFiniteSet(p[3]..Len(s))
    BY <2>4, FS_Interval
  <2>6. IsFiniteSet(Runs(p))
    BY <1>2, <2>1, <2>5, FS_Subset
  <2>7. PICK f : f = [b \in Runs(p) |-> <<p[1], p[2], p[3], b>>]
    OBVIOUS
  <2>8. {f[b] : b \in Runs(p)} = At4(p)
    BY <2>7
  <2> QED BY <2>6, <2>7, <2>8, ImageIsFinite
<1>4. PICK g : g = [p \in Places(chunks) |-> At4(p)]
  OBVIOUS
<1>5. \A p \in Places(chunks) : g[p] = At4(p)
  BY <1>4
<1>6. IsFiniteSet({g[p] : p \in Places(chunks)})
  <2>1. IsFiniteSet(Places(chunks))
    BY PlacesAreFinite
  <2>2. g = [p \in Places(chunks) |-> g[p]]
    BY <1>4
  <2> QED BY <2>1, <2>2, ImageIsFinite
<1>7. \A A \in {g[p] : p \in Places(chunks)} : IsFiniteSet(A)
  BY <1>3, <1>5
<1>8. Mentions(chunks) = UNION {g[p] : p \in Places(chunks)}
  BY <1>1, <1>5
<1>9. IsFiniteSet(Mentions(chunks))
  BY <1>6, <1>7, <1>8, FS_UNION
<1>10. ASSUME NEW m \in Mentions(chunks)
       PROVE  /\ <<m[1], m[2], m[3]>> \in Places(chunks)
              /\ m[4] \in m[3]..Len(chunks[m[1]][m[2]])
  <2>1. PICK p \in Places(chunks) : \E b \in Runs(p) : m = <<p[1], p[2], p[3], b>>
    BY <1>1
  <2>2. p = <<p[1], p[2], p[3]>>
    BY PlacesAreFinite
  <2> QED BY <1>2, <2>1, <2>2
<1> QED BY <1>9, <1>10

(* The table of logarithms has an entry for each share of the chunks.        *)
Tabled(chunks) == \A m \in 1..Len(chunks) : LogRatio[Len(chunks)][m] \in Nat

LEMMA TermScoreIsNumber ==
    ASSUME NEW T, NEW chunks \in Text(T), Tabled(chunks), NEW p \in Places(chunks)
    PROVE  TermScore(chunks, Token(chunks, p).w) \in Nat
<1>1. PICK word : word = Token(chunks, p).w
  OBVIOUS
<1>2. PICK tf : tf = Cardinality({q \in Places(chunks) : Token(chunks, q).w = word})
  OBVIOUS
<1>3. tf \in Nat
  <2>1. {q \in Places(chunks) : Token(chunks, q).w = word} \in SUBSET Places(chunks)
    OBVIOUS
  <2>2. IsFiniteSet({q \in Places(chunks) : Token(chunks, q).w = word})
    BY <2>1, PlacesAreFinite, FS_Subset
  <2> QED BY <1>2, <2>2, FS_CardinalityType
<1>4. PICK with \in SUBSET DOMAIN chunks :
         with = {c \in DOMAIN chunks : ChunkIncludes(chunks[c], <<word>>)}
  OBVIOUS
<1>5. p[1] \in with
  <2>1. PICK s : s = chunks[p[1]][p[2]]
    OBVIOUS
  <2>2. <<p[1], p[2]>> \in Sentences(chunks) /\ p[3] \in DOMAIN s
    BY <2>1, PlacesAreFinite
  <2>3. s \in Seq(T) /\ p[1] \in DOMAIN chunks /\ p[2] \in DOMAIN chunks[p[1]]
    BY <2>1, <2>2, SentencesAreFinite
  <2>4. p[3] \in 1..Len(s) /\ Len(s) \in Nat
    BY <2>2, <2>3
  <2>5. s[p[3]].w = word
    BY <1>1, <2>1 DEF Token
  <2>6. WordsAt(s, p[3], p[3]) = [i \in 1..1 |-> s[p[3] + i - 1].w]
    BY <2>4 DEF WordsAt
  <2>7. WordsAt(s, p[3], p[3]) = <<word>>
    BY <2>4, <2>5, <2>6
  <2>8. Len(<<word>>) = 1
    OBVIOUS
  <2>9. p[3] \in 1..(Len(s) - 1 + 1) /\ p[3] + 1 - 1 = p[3]
    BY <2>4
  <2>10. Includes(s, <<word>>)
    BY <2>7, <2>8, <2>9 DEF Includes
  <2>11. ChunkIncludes(chunks[p[1]], <<word>>)
    BY <2>1, <2>3, <2>10 DEF ChunkIncludes
  <2> QED BY <1>4, <2>3, <2>11
<1>6. Cardinality(with) \in 1..Len(chunks)
  <2>1. DOMAIN chunks = 1..Len(chunks) /\ Len(chunks) \in Nat
    BY DEF Text
  <2>2. IsFiniteSet(1..Len(chunks)) /\ Cardinality(1..Len(chunks)) = Len(chunks)
    BY <2>1, FS_Interval
  <2>3. IsFiniteSet(with) /\ Cardinality(with) <= Len(chunks)
    BY <2>1, <2>2, FS_Subset
  <2>4. Cardinality(with) \in Nat /\ Cardinality(with) # 0
    BY <1>5, <2>3, FS_CardinalityType, FS_EmptySet
  <2> QED BY <2>1, <2>3, <2>4
<1>7. PICK ratio \in Nat : ratio = LogRatio[Len(chunks)][Cardinality(with)]
  BY <1>6 DEF Tabled
<1>8. TermScore(chunks, word) = tf * ratio
  BY <1>2, <1>4, <1>7 DEF TermScore
<1>9. tf * ratio \in Nat
  BY <1>3, <1>7
<1> QED BY <1>1, <1>8, <1>9

LEMMA AtMostIsNumber ==
    ASSUME NEW n \in Int, NEW limit \in Int
    PROVE  AtMost(n, limit) \in Int /\ AtMost(n, limit) <= limit
BY DEF AtMost

LEMMA CandidateConfidence ==
    ASSUME NEW T, NEW chunks \in Text(T), Tabled(chunks)
    PROVE  \A e \in Candidates(chunks) : e.confidence \in 0..1000
<1> DEFINE named == {NameAt(chunks, m) : m \in Mentions(chunks)}
           count(n) == Cardinality({m \in Mentions(chunks) : NameAt(chunks, m) = n})
           words == {<<Token(chunks, p).w>> : p \in Places(chunks)}
           dates == {<<Token(chunks, p).w>> : p \in
                        {p \in Places(chunks) : Token(chunks, p).k = "date"}}
           boost(n) == IF Len(n) = 1 THEN TermScore(chunks, n[1]) \div 10 ELSE 0
           entity(n, c) == [name |-> n, confidence |-> AtMost(c, 1000)]
<1>1. \A n \in words : TermScore(chunks, n[1]) \in Nat
  BY TermScoreIsNumber
<1>2. dates \subseteq words
  OBVIOUS
<1>3. \A n \in words : boost(n) \in Int /\ TermScore(chunks, n[1]) \div 10 \in Int
  BY <1>1
<1>4. ASSUME NEW n \in named
      PROVE  boost(n) \in Int
  <2>1. PICK m \in Mentions(chunks) : n = NameAt(chunks, m)
    OBVIOUS
  <2>2. PICK s : s = chunks[m[1]][m[2]]
    OBVIOUS
  <2>3. PICK p \in Places(chunks) : p = <<m[1], m[2], m[3]>>
    BY MentionsAreFinite
  <2>4. p[1] = m[1] /\ p[2] = m[2] /\ p[3] = m[3]
    BY <2>3
  <2>5. s \in Seq(T) /\ m[3] \in DOMAIN s
    <3>1. PICK q \in Sentences(chunks) : q = <<p[1], p[2]>>
      BY PlacesAreFinite
    <3>2. q[1] = m[1] /\ q[2] = m[2]
      BY <2>4, <3>1
    <3>3. s \in Seq(T)
      BY <2>2, <3>2, SentencesAreFinite
    <3>4. m[3] \in DOMAIN s
      BY <2>2, <2>4, PlacesAreFinite
    <3> QED BY <3>3, <3>4
  <2>6. m[3] \in 1..Len(s) /\ m[4] \in m[3]..Len(s)
    <3>1. m[4] \in m[3]..Len(s)
      BY <2>2, MentionsAreFinite
    <3>2. m[3] \in 1..Len(s)
      BY <2>5
    <3> QED BY <3>1, <3>2
  <2>7. n = [i \in 1..(m[4] - m[3] + 1) |-> s[m[3] + i - 1].w] /\ m[4] - m[3] + 1 \in Nat \ {0}
    BY <2>1, <2>2, <2>6 DEF NameAt, WordsAt
  <2>8. n[1] = s[m[3]].w
    BY <2>6, <2>7
  <2>9. n[1] = Token(chunks, p).w
    BY <2>2, <2>4, <2>8 DEF Token
  <2>10. TermScore(chunks, n[1]) \in Nat
    BY <2>9, TermScoreIsNumber
  <2> QED BY <2>10
<1>5. ASSUME NEW n
      PROVE  count(n) \in Nat
  <2>1. {m \in Mentions(chunks) : NameAt(chunks, m) = n} \in SUBSET Mentions(chunks)
    OBVIOUS
  <2>2. IsFiniteSet({m \in Mentions(chunks) : NameAt(chunks, m) = n})
    BY <2>1, MentionsAreFinite, FS_Subset
  <2> QED BY <2>2, FS_CardinalityType
<1> HIDE DEF boost, count
<1>6. ASSUME NEW n \in named
      PROVE  AtMost(400 + 100 * count(n), 1000) + boost(n) \in Int
  <2>1. 400 + 100 * count(n) \in Int
    BY <1>5
  <2>2. AtMost(400 + 100 * count(n), 1000) \in Int
    BY <2>1, AtMostIsNumber
  <2> QED BY <1>4, <2>2
<1>7. \A n \in words : 700 + boost(n) \in Int
  BY <1>3
<1>8. ASSUME NEW e \in Candidates(chunks)
      PROVE  /\ \E c \in Int : e.confidence = AtMost(c, 1000)
             /\ e.confidence >= 300
  <2>1. /\ e \in {entity(n, AtMost(400 + 100 * count(n), 1000) + boost(n)) : n \in named}
              \cup {entity(n, 700 + boost(n)) : n \in dates \ named}
              \cup {entity(n, TermScore(chunks, n[1]) \div 10) : n \in
                       {n \in words \ (named \cup dates) : TermScore(chunks, n[1]) > 1500}}
        /\ e.confidence >= 300
    BY DEF Candidates, MinEntityConfidence, boost, count
  <2>2. \/ \E n \in named : e = entity(n, AtMost(400 + 100 * count(n), 1000) + boost(n))
        \/ \E n \in words : e = entity(n, 700 + boost(n))
        \/ \E n \in words : e = entity(n, TermScore(chunks, n[1]) \div 10)
    BY <1>2, <2>1
  <2>3. \E n, c : c \in Int /\ e = entity(n, c)
    BY <1>3, <1>6, <1>7, <2>2
  <2>4. PICK n, c : c \in Int /\ e = entity(n, c)
    BY <2>3
  <2>5. e.confidence = AtMost(c, 1000)
    BY <2>4
  <2> QED BY <2>1, <2>4, <2>5
<1>9. ASSUME NEW e \in Candidates(chunks)
      PROVE  e.confidence \in 0..1000
  <2>1. PICK c \in Int : e.confidence = AtMost(c, 1000) /\ e.confidence >= 300
    BY <1>8
  <2>2. AtMost(c, 1000) \in Int /\ AtMost(c, 1000) <= 1000
    BY <2>1, AtMostIsNumber
  <2> QED BY <2>1, <2>2
<1> QED BY <1>9

Confidences == 0..1000

Nearness(m, n) == Max({200, 500 - (500 * (n - m - 1)) \div 3})

LEMMA NearnessIsNumber ==
    ASSUME NEW m \in Int, NEW n \in Int, m < n
    PROVE  Nearness(m, n) \in Confidences
<1>1. PICK apart \in Nat : apart = n - m - 1
  OBVIOUS
<1>2. PICK less : less = 500 - (500 * apart) \div 3
  OBVIOUS
<1>3. less \in Int /\ less <= 500
  BY <1>2
<1>4. PICK both : both = {200, less}
  OBVIOUS
<1>5. IsFiniteSet(both)
  <2>1. IsFiniteSet({200}) /\ IsFiniteSet({less})
    BY FS_Singleton
  <2>2. IsFiniteSet({200} \cup {less})
    BY <2>1, FS_Union
  <2>3. both = {200} \cup {less}
    BY <1>4
  <2> QED BY <2>2, <2>3
<1>6. both \subseteq Int /\ both # {}
  BY <1>3, <1>4
<1>7. Max(both) \in both /\ \A y \in both : Max(both) >= y
  BY <1>5, <1>6, MaxOfIntegers
<1>8. Max(both) \in Confidences
  BY <1>3, <1>4, <1>7 DEF Confidences
<1>9. Nearness(m, n) = Max(both)
  BY <1>1, <1>2, <1>4 DEF Nearness
<1> QED BY <1>8, <1>9

LEMMA ProximityConfidence ==
    ASSUME NEW T, NEW chunk \in Seq(Seq(T)), NEW names,
           NEW r \in ProximityRelations(names, chunk)
    PROVE  r.confidence \in Confidences
<1> DEFINE close == {p \in (DOMAIN chunk) \X (DOMAIN chunk) :
                       p[1] < p[2] /\ p[2] - p[1] <= MaxSentenceDistance}
           score(p) == Max({200, 500 - (500 * (p[2] - p[1] - 1)) \div MaxSentenceDistance})
           meets(a, b, p) == Includes(chunk[p[1]], a) /\ Includes(chunk[p[2]], b)
           near == {h \in names \X names \X close :
                      h[1] # h[2] /\ meets(h[1], h[2], h[3])
                      /\ score(h[3]) >= MinRelationConfidence}
<1>1. r \in {Rel(h[1], h[2], "nearby", score(h[3]), Len(h[1]) = 1 /\ Len(h[2]) = 1) : h \in near}
  BY Zenon DEF ProximityRelations
<1>2. near \subseteq names \X names \X close
  OBVIOUS
<1>3. ASSUME NEW p \in close
      PROVE  score(p) \in Confidences
  <2>1. p[1] \in Int /\ p[2] \in Int /\ p[1] < p[2]
    OBVIOUS
  <2>2. score(p) = Nearness(p[1], p[2])
    BY DEF MaxSentenceDistance, Nearness
  <2> HIDE DEF score, close
  <2>3. PICK m \in Int, n \in Int : m = p[1] /\ n = p[2]
    BY <2>1
  <2>4. Nearness(m, n) \in Confidences
    BY SMTT(30), <2>1, <2>3, NearnessIsNumber
  <2>5. score(p) = Nearness(m, n)
    BY Zenon, <2>2, <2>3
  <2> QED BY <2>4, <2>5
<1> HIDE DEF near, score, close
<1>4. PICK h \in near : r = Rel(h[1], h[2], "nearby", score(h[3]), Len(h[1]) = 1 /\ Len(h[2]) = 1)
  BY Zenon, <1>1
<1>5. r.confidence = score(h[3])
  BY <1>4 DEF Rel
<1>6. PICK p \in close : p = h[3]
  BY <1>2, <1>4
<1>7. r.confidence = score(p)
  BY Zenon, <1>5, <1>6
<1>8. PICK c : c = score(p)
  OBVIOUS
<1>9. c \in Confidences
  BY <1>3, <1>8
<1> QED BY <1>7, <1>8, <1>9

LEMMA RelationConfidence ==
    ASSUME NEW T, NEW chunks \in Text(T), NEW names
    PROVE  \A r \in DetectRelations(names, chunks) : r.confidence \in Confidences
<1>1. ASSUME NEW c \in DOMAIN chunks, NEW r \in ExplicitRelations(names, chunks[c])
      PROVE  r.confidence = 700
  <2> DEFINE says(s, a, word, b) == \/ Includes(s, a \o <<word>> \o b)
                                    \/ Includes(s, b \o <<"is", word>> \o a)
             hits(a, b) == {i \in DOMAIN RelationWords :
                              \E k \in DOMAIN chunks[c] :
                                 says(chunks[c][k], a, RelationWords[i].word, b)}
             pairs == {p \in names \X names : p[1] # p[2] /\ hits(p[1], p[2]) # {}}
             type(p) == RelationWords[Min(hits(p[1], p[2]))].type
  <2>1. r \in {Rel(p[1], p[2], type(p), 700, TRUE) : p \in pairs}
    BY DEF ExplicitRelations
  <2> HIDE DEF pairs, type
  <2>2. PICK p \in pairs : r = Rel(p[1], p[2], type(p), 700, TRUE)
    BY <2>1
  <2> QED BY <2>2 DEF Rel
<1>2. ASSUME NEW r \in CoOccurrences(names, chunks)
      PROVE  r.confidence \in Int /\ r.confidence <= 1000
  <2> DEFINE both(a, b) == {c \in DOMAIN chunks : ChunkIncludes(chunks[c], a)
                                                  /\ ChunkIncludes(chunks[c], b)}
             before(a, b) == \E i, j \in DOMAIN AlphaOrder :
                                 i < j /\ AlphaOrder[i] = a /\ AlphaOrder[j] = b
             together(a, b) == Cardinality(both(a, b))
             pairs == {p \in names \X names : before(p[1], p[2]) /\ together(p[1], p[2]) >= 2}
             share(p) == AtMost((together(p[1], p[2]) * 2000) \div Len(chunks), 1000)
  <2>0. r \in {Rel(p[1], p[2], "related_to", share(p), TRUE) : p \in pairs}
    BY DEF CoOccurrences, MinCoOccurrence
  <2> HIDE DEF before, both
  <2>1. PICK a, b : /\ r.confidence = AtMost((Cardinality(both(a, b)) * 2000) \div Len(chunks), 1000)
                    /\ Cardinality(both(a, b)) >= 2
    <3> HIDE DEF share
    <3>1. PICK p \in pairs : r = Rel(p[1], p[2], "related_to", share(p), TRUE)
      BY <2>0
    <3>2. r.confidence = share(p)
      BY <3>1 DEF Rel
    <3>3. Cardinality(both(p[1], p[2])) >= 2
      BY <3>1
    <3> QED BY <3>2, <3>3 DEF share
  <2> HIDE DEF pairs, share, together
  <2>2. DOMAIN chunks = 1..Len(chunks) /\ Len(chunks) \in Nat /\ IsFiniteSet(DOMAIN chunks)
    BY DomainIsFinite DEF Text
  <2>3. IsFiniteSet(both(a, b)) /\ Cardinality(both(a, b)) <= Cardinality(DOMAIN chunks)
    <3>1. both(a, b) \in SUBSET DOMAIN chunks
      BY DEF both
    <3> QED BY <2>2, <3>1, FS_Subset
  <2>4. Cardinality(DOMAIN chunks) = Len(chunks)
    <3>1. Len(chunks) \in Int /\ 1 \in Int
      BY <2>2
    <3>2. Cardinality(1..Len(chunks)) = IF 1 > Len(chunks) THEN 0 ELSE Len(chunks) - 1 + 1
      BY <3>1, FS_Interval
    <3> QED BY <2>2, <3>2
  <2>5. PICK n \in Nat : n = Cardinality(both(a, b))
    BY <2>3, FS_CardinalityType
  <2>6. Len(chunks) \in Nat \ {0}
    BY <2>1, <2>2, <2>3, <2>4, <2>5
  <2>7. (n * 2000) \div Len(chunks) \in Int
    BY <2>6
  <2> QED BY <2>1, <2>5, <2>7, AtMostIsNumber
<1>3. ASSUME NEW c \in DOMAIN chunks, NEW r \in ProximityRelations(names, chunks[c])
      PROVE  r.confidence \in Confidences
  <2>1. PICK chunk \in Seq(Seq(T)) : chunk = chunks[c]
    BY DEF Text
  <2>2. r \in ProximityRelations(names, chunk)
    BY <2>1
  <2> QED BY <2>2, ProximityConfidence
<1>4. ASSUME NEW r \in DetectRelations(names, chunks)
      PROVE  r.confidence \in Int /\ r.confidence <= 1000 /\ r.confidence >= 400
  <2>1. r.confidence >= 400
    BY DEF DetectRelations, MinRelationConfidence
  <2>2. \/ \E c \in DOMAIN chunks : r \in ExplicitRelations(names, chunks[c])
        \/ r \in CoOccurrences(names, chunks)
        \/ \E c \in DOMAIN chunks : r \in ProximityRelations(names, chunks[c])
    <3> PICK explicit : explicit = UNION {ExplicitRelations(names, chunks[c]) : c \in DOMAIN chunks}
      OBVIOUS
    <3> PICK nearby : nearby = UNION {ProximityRelations(names, chunks[c]) : c \in DOMAIN chunks}
      OBVIOUS
    <3> DEFINE all == (UNION {ExplicitRelations(names, chunks[c]) : c \in DOMAIN chunks})
                      \cup CoOccurrences(names, chunks)
                      \cup (UNION {ProximityRelations(names, chunks[c]) : c \in DOMAIN chunks})
               key(x) == <<x.source, x.type, x.target>>
    <3>1. DetectRelations(names, chunks)
             = {x \in all : /\ \A o \in all : key(o) = key(x) => o.confidence <= x.confidence
                            /\ x.confidence >= MinRelationConfidence}
      BY Zenon DEF DetectRelations
    <3>2. all = explicit \cup CoOccurrences(names, chunks) \cup nearby
      OBVIOUS
    <3>3. r \in all
      <4> HIDE DEF all
      <4> QED BY Zenon, <3>1
    <3>4. r \in explicit \/ r \in CoOccurrences(names, chunks) \/ r \in nearby
      <4> HIDE DEF all
      <4> QED BY <3>2, <3>3
    <3> QED BY <3>4
  <2>3. CASE \E c \in DOMAIN chunks : r \in ExplicitRelations(names, chunks[c])
    BY <1>1, <2>3
  <2>4. CASE r \in CoOccurrences(names, chunks)
    BY <1>2, <2>1, <2>4
  <2>5. CASE \E c \in DOMAIN chunks : r \in ProximityRelations(names, chunks[c])
    <3>1. PICK c \in DOMAIN chunks : r \in ProximityRelations(names, chunks[c])
      BY <2>5
    <3>2. r.confidence \in Confidences
      BY ZenonT(60), <1>3, <3>1
    <3>3. PICK level \in Confidences : level = r.confidence
      BY <3>2
    <3>4. level \in Int /\ level <= 1000
      BY <3>3 DEF Confidences
    <3> QED BY Zenon, <2>1, <3>3, <3>4
  <2> QED BY <2>2, <2>3, <2>4, <2>5
<1> QED BY <1>4 DEF Confidences

LEMMA TextConfidences ==
    ASSUME NEW d \in GraphDeliveries
    PROVE  /\ \A e \in ToSet(Extracted[d]) : e.confidence \in Confidences
           /\ \A r \in Detected[d] : r.confidence \in Confidences
           /\ IsFiniteSet(Detected[d])
<1> PICK chunks, T : chunks = ChunksOf[d] /\ T = TokensOf(chunks)
  OBVIOUS
<1>1. /\ IsFiniteSet(Candidates(chunks)) /\ IsFiniteSet(Detected[d])
      /\ chunks \in Text(T) /\ Tabled(chunks)
  BY TextsAreFinite DEF GraphTexts, IsText, Text, Tabled
<1>2. Extracted[d] = SetToSeq(Candidates(chunks))
  BY DEF Extracted
<1>3. ToSet(Extracted[d]) = Candidates(chunks)
  BY <1>1, <1>2, SetAsSequence
<1>4. \A e \in Candidates(chunks) : e.confidence \in Confidences
  BY <1>1, CandidateConfidence DEF Confidences
<1> PICK names : names = {e.name : e \in Range(Extracted[d])}
  OBVIOUS
<1>5. Detected[d] = DetectRelations(names, chunks)
  BY DEF Detected
<1>6. \A r \in DetectRelations(names, chunks) : r.confidence \in Confidences
  BY <1>1, RelationConfidence
<1> QED BY <1>1, <1>3, <1>4, <1>5, <1>6

-----------------------------------------------------------------------------
(* GraphMemory.  Confidences are thousandths, a call relates what was        *)
(* detected in its text, and the counter counts the running calls.           *)
Confident(S) == \A x \in S : x.confidence \in Confidences
RunningCalls == {d \in GraphDeliveries : calls[d].pc \in GraphRunning}
Relates(d, c) == c.pc = "relate" => ToSet(c.todo) \subseteq Detected[d]

GraphData ==
    /\ Confident(nodes) /\ Confident(edges)
    /\ \A d \in GraphDeliveries : Relates(d, calls[d])
    /\ activeJobs = Cardinality(RunningCalls) /\ activeJobs <= GraphConcurrency
    /\ graphFaults \in 0..MaxGraphFaults

(* What a step of one call does to it and to the counter.                    *)
Faults == graphFaults' = graphFaults \/ GraphFault
JobsCount(old, new) ==
    \/ /\ old.pc \notin GraphRunning /\ new.pc \in GraphRunning
       /\ activeJobs < GraphConcurrency /\ activeJobs' = activeJobs + 1
    \/ (old.pc \in GraphRunning <=> new.pc \in GraphRunning) /\ activeJobs' = activeJobs
    \/ old.pc \in GraphRunning /\ new.pc \notin GraphRunning /\ activeJobs' = activeJobs - 1
CallTurn(d, old, new) ==
    /\ calls' = [calls EXCEPT ![d] = new]
    /\ Relates(d, new) /\ JobsCount(old, new) /\ Faults

LEMMA HigherConfidence ==
    ASSUME NEW m \in Confidences, NEW n \in Confidences, NEW both, both = {m, n}
    PROVE  Max(both) \in Confidences
<1>1. IsFiniteSet(both)
  <2>1. IsFiniteSet({m}) /\ IsFiniteSet({n})
    BY FS_Singleton
  <2>2. IsFiniteSet({m} \cup {n})
    BY <2>1, FS_Union
  <2>3. both = {m} \cup {n}
    OBVIOUS
  <2> QED BY <2>2, <2>3
<1>2. both \subseteq Int /\ both # {}
  BY DEF Confidences
<1>3. Max(both) \in both
  BY <1>1, <1>2, MaxOfIntegers
<1> QED BY <1>3

LEMMA RunningCount ==
    ASSUME GraphAssumption
    PROVE  IsFiniteSet(RunningCalls) /\ Cardinality(RunningCalls) \in Nat
<1>1. IsFiniteSet(GraphDeliveries) /\ RunningCalls \in SUBSET GraphDeliveries
  BY DEF GraphAssumption, RunningCalls
<1>2. IsFiniteSet(RunningCalls)
  BY <1>1, FS_Subset
<1> QED BY <1>2, FS_CardinalityType

LEMMA TurnTypesOfCalls ==
    ASSUME GraphAssumption, GraphInv, GraphData, NEW d \in GraphDeliveries,
           NEW old, old = calls[d], NEW new, CallTurn(d, old, new)
    PROVE  /\ \A e \in GraphDeliveries : Relates(e, calls[e])'
           /\ activeJobs' = Cardinality(RunningCalls') /\ activeJobs' <= GraphConcurrency
           /\ graphFaults' \in 0..MaxGraphFaults
<1>1. /\ calls' = [e \in GraphDeliveries |-> calls'[e]] /\ calls'[d] = new
      /\ \A e \in GraphDeliveries \ {d} : calls'[e] = calls[e]
  BY DEF GraphInv, CallTurn
<1>2. \A e \in GraphDeliveries : Relates(e, calls[e])'
  <2>1. ASSUME NEW e \in GraphDeliveries PROVE Relates(e, calls[e])'
    <3>1. CASE e = d
      BY <1>1, <3>1 DEF CallTurn, Relates
    <3>2. CASE e # d
      BY <1>1, <3>2 DEF GraphData, Relates
    <3> QED BY <3>1, <3>2
  <2> QED BY <2>1
<1>3. graphFaults' \in 0..MaxGraphFaults
  BY DEF CallTurn, Faults, GraphFault, GraphData, GraphAssumption
<1> PICK R : R = RunningCalls
  OBVIOUS
<1> PICK Q : Q = RunningCalls'
  OBVIOUS
<1>4. /\ \A e \in GraphDeliveries \ {d} : e \in Q <=> e \in R
      /\ d \in Q <=> new.pc \in GraphRunning
      /\ d \in R <=> old.pc \in GraphRunning
      /\ Q \subseteq GraphDeliveries /\ R \subseteq GraphDeliveries
  BY <1>1 DEF RunningCalls
<1>5. IsFiniteSet(R) /\ Cardinality(R) \in Nat /\ activeJobs = Cardinality(R)
      /\ Cardinality(R) <= GraphConcurrency /\ GraphConcurrency \in Nat
  BY RunningCount DEF GraphData, GraphAssumption
<1>6. activeJobs' = Cardinality(Q) /\ activeJobs' <= GraphConcurrency
  <2>1. CASE /\ old.pc \notin GraphRunning /\ new.pc \in GraphRunning
             /\ activeJobs < GraphConcurrency /\ activeJobs' = activeJobs + 1
    <3>1. Q = R \cup {d} /\ d \notin R
      BY <1>4, <2>1
    <3>2. Cardinality(Q) = Cardinality(R) + 1
      BY <1>5, <3>1, FS_AddElement
    <3> QED BY <1>5, <2>1, <3>2
  <2>2. CASE (old.pc \in GraphRunning <=> new.pc \in GraphRunning) /\ activeJobs' = activeJobs
    <3>1. Q = R
      BY <1>4, <2>2
    <3> QED BY <1>5, <2>2, <3>1
  <2>3. CASE old.pc \in GraphRunning /\ new.pc \notin GraphRunning /\ activeJobs' = activeJobs - 1
    <3>1. Q = R \ {d} /\ d \in R
      BY <1>4, <2>3
    <3>2. Cardinality(Q) = Cardinality(R) - 1
      BY <1>5, <3>1, FS_RemoveElement
    <3> QED BY <1>5, <2>3, <3>2
  <2> QED BY <2>1, <2>2, <2>3 DEF CallTurn, JobsCount
<1> QED BY <1>2, <1>3, <1>6

-----------------------------------------------------------------------------
(* The steps of a call.                                                      *)
Loops(d, old, new) == /\ calls' = [calls EXCEPT ![d] = new] /\ new.pc = old.pc
                      /\ ToSet(new.todo) \subseteq ToSet(old.todo)

LEMMA DoneTurn ==
    ASSUME GraphInv, NEW d \in GraphDeliveries, NEW old, CallShape(old), old.todo # <<>>,
           NEW call, IsCall(call), call.todo = old.todo, Done(d, call)
    PROVE  \E new : Loops(d, call, new)
<1>1. \E S : call.todo \in Seq(S)
  BY DEF CallShape
<1>2. PICK new : /\ calls' = [calls EXCEPT ![d] = new] /\ new.pc = call.pc
                 /\ ToSet(call.todo) = ToSet(new.todo) \cup {Head(call.todo)}
  BY <1>1, ItemDone
<1> QED BY <1>2 DEF Loops

LEMMA AnsweredTurn ==
    ASSUME GraphInv, NEW d \in GraphDeliveries, NEW old, old = calls[d], CallShape(old), old.todo # <<>>,
           NEW call, IsCall(call), call.todo = old.todo, Answered(d, call)
    PROVE  Faults /\ \E new : Loops(d, call, new)
<1>1. CASE Done(d, call) /\ NoGraphFault
  BY <1>1, DoneTurn DEF Faults, NoGraphFault
<1>2. CASE Done(d, [calls[d] EXCEPT !.pc = call.pc, !.missed = TRUE]) /\ GraphFault
  <2>1. PICK pc : pc = call.pc
    OBVIOUS
  <2>2. PICK c : c = [old EXCEPT !.pc = pc, !.missed = TRUE]
    OBVIOUS
  <2>3. IsCall(old)
    BY DEF CallShape
  <2>4. IsCall(c) /\ c.pc = pc /\ c.todo = old.todo
    BY <2>2, <2>3 DEF IsCall
  <2>5. Done(d, c)
    BY <1>2, <2>1, <2>2
  <2>6. PICK new : Loops(d, c, new)
    BY <2>4, <2>5, DoneTurn
  <2>7. Loops(d, call, new)
    BY <2>1, <2>4, <2>6 DEF Loops
  <2> QED BY <1>2, <2>7 DEF Faults
<1> QED BY <1>1, <1>2 DEF Answered

LEMMA GoesOnTurn ==
    ASSUME GraphInv, GraphData, NEW d \in GraphDeliveries, NEW old, old = calls[d], CallShape(old),
           old.pc \in GraphRunning, NEW call, call.pc \in GraphRunning \ {"relate"} \/ call.pc = old.pc,
           call.todo = old.todo,
           NEW new, Loops(d, call, new), Faults, activeJobs' = activeJobs
    PROVE  CallTurn(d, old, new)
<1>1. Relates(d, old)
  BY DEF GraphData
<1>2. Relates(d, new)
  BY <1>1 DEF Relates, Loops
<1> QED BY <1>2 DEF CallTurn, JobsCount, Loops

LEMMA AttemptFailsTurn ==
    ASSUME NEW d \in GraphDeliveries, NEW old, old = calls[d], old.pc \in GraphRunning,
           GraphAttemptFails(d), Faults
    PROVE  \E new : CallTurn(d, old, new)
<1>1. CASE calls[d].attempt < GraphRetries
  <2>1. PICK new : new = AttemptOf(d, calls[d].attempt + 1)
    OBVIOUS
  <2>2. calls' = [calls EXCEPT ![d] = new] /\ activeJobs' = activeJobs
    BY <1>1, <2>1 DEF GraphAttemptFails
  <2>3. new.pc = "merge"
    BY <2>1, AttemptFacts
  <2> QED BY <2>2, <2>3 DEF CallTurn, JobsCount, Relates, GraphRunning
<1>2. CASE ~(calls[d].attempt < GraphRetries)
  <2>1. PICK new : new = Call("failed", 0)
    OBVIOUS
  <2>2. calls' = [calls EXCEPT ![d] = new] /\ activeJobs' = activeJobs - 1
    BY <1>2, <2>1 DEF GraphAttemptFails
  <2>3. new.pc = "failed"
    BY <2>1 DEF Call
  <2> QED BY <2>2, <2>3 DEF CallTurn, JobsCount, Relates, GraphRunning
<1> QED BY <1>1, <1>2

LEMMA ReceiveTurn ==
    ASSUME GraphInv, GraphData, NEW d \in GraphDeliveries, NEW old, old = calls[d], CallShape(old),
           Receive(d)
    PROVE  \E new : CallTurn(d, old, new)
<1>1. old.pc = "waiting" /\ Faults
  BY DEF Receive, Faults
<1>2. CASE calls' = [calls EXCEPT ![d].pc = "refused"] /\ activeJobs' = activeJobs
  <2>1. PICK new : new = [old EXCEPT !.pc = "refused"]
    OBVIOUS
  <2>2. calls' = [calls EXCEPT ![d] = new]
    BY <1>2, <2>1
  <2>3. IsCall(old)
    BY DEF CallShape
  <2>4. new.pc = "refused"
    BY <2>1, <2>3 DEF IsCall
  <2> QED BY <1>1, <1>2, <2>2, <2>4 DEF CallTurn, JobsCount, Relates, GraphRunning
<1>3. CASE /\ activeJobs < GraphConcurrency /\ activeJobs' = activeJobs + 1
           /\ calls' = [calls EXCEPT ![d] = AttemptOf(d, 0)]
  <2>1. PICK new : new = AttemptOf(d, 0)
    OBVIOUS
  <2>2. calls' = [calls EXCEPT ![d] = new]
    BY <1>3, <2>1
  <2>3. new.pc = "merge"
    BY <2>1, AttemptFacts
  <2> QED BY <1>1, <1>3, <2>2, <2>3 DEF CallTurn, JobsCount, Relates, GraphRunning
<1> QED BY <1>2, <1>3 DEF Receive

LEMMA MergeEntityTurn ==
    ASSUME GraphInv, GraphData, NEW d \in GraphDeliveries, NEW old, old = calls[d], CallShape(old),
           MergeEntity(d)
    PROVE  \E new : CallTurn(d, old, new)
<1>1. old.pc = "merge" /\ old.todo # <<>> /\ activeJobs' = activeJobs
  BY DEF MergeEntity, At
<1>2. IsCall(old)
  BY DEF CallShape
<1>3. CASE calls' = [calls EXCEPT ![d].pc = "create"] /\ UNCHANGED graphFaults
  <2>1. PICK new : new = [old EXCEPT !.pc = "create"]
    OBVIOUS
  <2>2. calls' = [calls EXCEPT ![d] = new]
    BY <1>3, <2>1
  <2>3. new.pc = "create"
    BY <1>2, <2>1 DEF IsCall
  <2> QED BY <1>1, <1>3, <2>2, <2>3 DEF CallTurn, JobsCount, Relates, GraphRunning, Faults
<1>4. CASE \E n \in nodes : Answered(d, [calls[d] EXCEPT !.merged = @ \cup {<<Now(d).name, n.id>>}])
  <2>1. PICK n \in nodes : Answered(d, [calls[d] EXCEPT !.merged = @ \cup {<<Now(d).name, n.id>>}])
    BY <1>4
  <2>2. PICK more : more = old.merged \cup {<<Now(d).name, n.id>>}
    OBVIOUS
  <2>3. PICK call : call = [old EXCEPT !.merged = more]
    OBVIOUS
  <2>4. IsCall(call) /\ call.pc = old.pc /\ call.todo = old.todo
    BY <1>2, <2>3 DEF IsCall
  <2>5. Answered(d, call)
    BY <2>1, <2>2, <2>3
  <2>6. Faults /\ \E new : Loops(d, call, new)
    BY <1>1, <2>4, <2>5, AnsweredTurn
  <2> QED BY <1>1, <2>4, <2>6, GoesOnTurn DEF GraphRunning
<1> QED BY <1>3, <1>4 DEF MergeEntity

LEMMA CreateEntityTurn ==
    ASSUME GraphInv, GraphData, NEW d \in GraphDeliveries, NEW old, old = calls[d], CallShape(old),
           CreateEntity(d)
    PROVE  \E new : CallTurn(d, old, new)
<1>1. old.pc = "create" /\ old.todo # <<>> /\ activeJobs' = activeJobs
  BY DEF CreateEntity, At
<1>2. IsCall(old)
  BY DEF CallShape
<1>3. PICK pair : Answered(d, [[calls[d] EXCEPT !.pc = "merge"] EXCEPT !.merged = @ \cup {pair}])
  BY DEF CreateEntity
<1>4. PICK first : first = [old EXCEPT !.pc = "merge"]
  OBVIOUS
<1>5. IsCall(first) /\ first.pc = "merge" /\ first.todo = old.todo
  BY <1>2, <1>4 DEF IsCall
<1>6. PICK call : call = [first EXCEPT !.merged = @ \cup {pair}]
  OBVIOUS
<1>7. IsCall(call) /\ call.pc = "merge" /\ call.todo = old.todo
  BY <1>5, <1>6 DEF IsCall
<1>8. Answered(d, call)
  BY <1>3, <1>4, <1>6
<1>9. Faults /\ \E new : Loops(d, call, new)
  BY <1>1, <1>7, <1>8, AnsweredTurn
<1> QED BY <1>1, <1>7, <1>9, GoesOnTurn DEF GraphRunning

LEMMA SkipTurn ==
    ASSUME GraphInv, GraphData, NEW d \in GraphDeliveries, NEW old, old = calls[d], CallShape(old),
           Skip(d)
    PROVE  \E new : CallTurn(d, old, new)
<1>1. /\ old.pc \in {"merge", "relate", "check", "checkRelations"} /\ old.todo # <<>>
      /\ activeJobs' = activeJobs /\ Faults
  BY DEF Skip, At, Faults
<1>2. IsCall(old)
  BY DEF CallShape
<1>3. PICK call : call = [old EXCEPT !.missed = TRUE]
  OBVIOUS
<1>4. IsCall(call) /\ call.pc = old.pc /\ call.todo = old.todo
  BY <1>2, <1>3 DEF IsCall
<1>5. Done(d, call)
  BY <1>3 DEF Skip
<1>6. \E new : Loops(d, call, new)
  BY <1>1, <1>4, <1>5, DoneTurn
<1> QED BY <1>1, <1>4, <1>6, GoesOnTurn DEF GraphRunning

LEMMA MergeRelationTurn ==
    ASSUME GraphInv, GraphData, NEW d \in GraphDeliveries, NEW old, old = calls[d], CallShape(old),
           MergeRelation(d)
    PROVE  \E new : CallTurn(d, old, new)
<1>1. old.pc = "relate" /\ old.todo # <<>> /\ activeJobs' = activeJobs
  BY DEF MergeRelation, At
<1>2. IsCall(old)
  BY DEF CallShape
<1>3. PICK out : Answered(d, [calls[d] EXCEPT !.related = @ \cup out])
  BY DEF MergeRelation
<1>4. PICK call : call = [old EXCEPT !.related = @ \cup out]
  OBVIOUS
<1>5. IsCall(call) /\ call.pc = old.pc /\ call.todo = old.todo
  BY <1>2, <1>4 DEF IsCall
<1>6. Answered(d, call)
  BY <1>3, <1>4
<1>7. Faults /\ \E new : Loops(d, call, new)
  BY <1>1, <1>5, <1>6, AnsweredTurn
<1> QED BY <1>1, <1>5, <1>7, GoesOnTurn DEF GraphRunning

LEMMA CheckConflictsTurn ==
    ASSUME GraphInv, GraphData, NEW d \in GraphDeliveries, NEW old, old = calls[d], CallShape(old),
           CheckConflicts(d)
    PROVE  \E new : CallTurn(d, old, new)
<1>1. /\ old.pc \in {"check", "checkRelations"} /\ old.todo # <<>>
      /\ activeJobs' = activeJobs /\ Faults
  BY DEF CheckConflicts, At, Faults
<1>2. IsCall(old)
  BY DEF CallShape
<1>3. PICK found : Done(d, [calls[d] EXCEPT !.conflicts = @ \cup found])
  BY DEF CheckConflicts
<1>4. PICK call : call = [old EXCEPT !.conflicts = @ \cup found]
  OBVIOUS
<1>5. IsCall(call) /\ call.pc = old.pc /\ call.todo = old.todo
  BY <1>2, <1>4 DEF IsCall
<1>6. Done(d, call)
  BY <1>3, <1>4
<1>7. \E new : Loops(d, call, new)
  BY <1>1, <1>5, <1>6, DoneTurn
<1> QED BY <1>1, <1>5, <1>7, GoesOnTurn DEF GraphRunning

LEMMA PublishTurn ==
    ASSUME GraphInv, GraphData, NEW d \in GraphDeliveries, NEW old, old = calls[d], CallShape(old),
           Publish(d) \/ PublishRejects(d)
    PROVE  \E new : CallTurn(d, old, new)
<1>1. old.pc \in {"announce", "announceRelations", "announceConflicts", "update"} /\ old.todo # <<>>
  BY DEF Publish, PublishRejects, GraphPublishes, At
<1>2. CASE GraphAttemptFails(d) /\ GraphFault
  BY <1>1, <1>2, AttemptFailsTurn DEF Faults, GraphRunning
<1>3. CASE Done(d, calls[d]) /\ UNCHANGED activeJobs /\ NoGraphFault
  <2>1. IsCall(old) /\ Faults
    BY <1>3 DEF CallShape, Faults, NoGraphFault
  <2>2. \E new : Loops(d, old, new)
    BY <1>1, <1>3, <2>1, DoneTurn
  <2> QED BY <1>1, <1>3, <2>1, <2>2, GoesOnTurn DEF GraphRunning
<1> QED BY <1>2, <1>3 DEF Publish, PublishRejects

LEMMA AdvanceTurn ==
    ASSUME GraphInv, GraphData, NEW d \in GraphDeliveries, NEW old, old = calls[d], CallShape(old),
           Advance(d)
    PROVE  \E new : CallTurn(d, old, new)
<1>1. IsCall(old) /\ activeJobs' = activeJobs /\ Faults
  BY DEF CallShape, Advance, Faults
<1> PICK stage : stage = Following[old.pc]
  OBVIOUS
<1>2. /\ old.pc \in {"merge", "announce", "relate", "announceRelations", "check", "checkRelations",
                     "announceConflicts"}
      /\ stage \in {"announce", "relate", "announceRelations", "check", "checkRelations",
                    "announceConflicts", "update"}
  BY DEF Advance, Following
<1> PICK items, todo : items = Items(d, stage) /\ todo = SetToSeq(items)
  OBVIOUS
<1>3. PICK new : new = [old EXCEPT !.pc = stage, !.todo = todo]
  OBVIOUS
<1>4. calls' = [calls EXCEPT ![d] = new]
  <2>1. calls' = [calls EXCEPT ![d].pc = stage, ![d].todo = todo]
    BY DEF Advance
  <2> QED BY <1>3, <2>1 DEF GraphInv
<1>5. new.pc = stage /\ new.todo = todo
  BY <1>1, <1>3 DEF IsCall
<1>6. stage = "relate" => ToSet(todo) \subseteq Detected[d]
  <2> SUFFICES ASSUME stage = "relate" PROVE ToSet(todo) \subseteq Detected[d]
    OBVIOUS
  <2>1. items \subseteq Detected[d]
    BY DEF Items
  <2>2. IsFiniteSet(items)
    BY <2>1, TextConfidences, FS_Subset
  <2>3. ToSet(todo) = items
    BY <2>2, SetAsSequence
  <2> QED BY <2>1, <2>3
<1> QED BY <1>1, <1>2, <1>4, <1>5, <1>6 DEF CallTurn, JobsCount, Relates, GraphRunning

LEMMA CompleteTurn ==
    ASSUME GraphInv, GraphData, NEW d \in GraphDeliveries, NEW old, old = calls[d], CallShape(old),
           Complete(d)
    PROVE  \E new : CallTurn(d, old, new)
<1>1. IsCall(old) /\ old.pc = "update" /\ activeJobs' = activeJobs - 1 /\ Faults
  BY DEF CallShape, Complete, Faults
<1>2. PICK new : new = [old EXCEPT !.pc = "done"]
  OBVIOUS
<1>3. calls' = [calls EXCEPT ![d] = new]
  BY <1>2 DEF Complete
<1>4. new.pc = "done"
  BY <1>1, <1>2 DEF IsCall
<1> QED BY <1>1, <1>3, <1>4 DEF CallTurn, JobsCount, Relates, GraphRunning

-----------------------------------------------------------------------------
(* The confidences.                                                          *)
LEMMA NowOfTodo ==
    ASSUME NEW d \in GraphDeliveries, NEW old, old = calls[d], CallShape(old), old.todo # <<>>
    PROVE  Now(d) \in ToSet(old.todo)
<1>1. PICK S : old.todo \in Seq(S)
  BY DEF CallShape
<1>2. ToSet(old.todo) = ToSet(Tail(old.todo)) \cup {Head(old.todo)}
  BY <1>1, TailElements
<1> QED BY <1>2 DEF Now

LEMMA EntityConfidences ==
    ASSUME GraphInv, GraphData, NEW d \in GraphDeliveries, MergeEntity(d) \/ CreateEntity(d)
    PROVE  Confident(nodes)'
<1>1. PICK old : old = calls[d] /\ CallShape(old) /\ CallFacts(d, old)
  BY DEF GraphInv
<1>2. old.pc \in Merging /\ old.todo # <<>>
  BY <1>1 DEF MergeEntity, CreateEntity, At, Merging
<1> PICK e : e = Now(d)
  OBVIOUS
<1>3. e.confidence \in Confidences
  <2>1. e \in ToSet(old.todo)
    BY <1>1, <1>2, NowOfTodo
  <2>2. ToSet(old.todo) \subseteq ToSet(Extracted[d])
    BY <1>1, <1>2 DEF CallFacts
  <2> QED BY <2>1, <2>2, TextConfidences
<1>4. CASE MergeEntity(d)
  <2> PICK found \in SUBSET nodes : found = {n \in nodes : n.workspace = WorkspaceOf[d] /\ n.name = e.name}
    OBVIOUS
  <2> PICK raised : raised = {[n EXCEPT !.confidence = Max({@, e.confidence})] : n \in found}
    OBVIOUS
  <2>1. nodes' = nodes \/ nodes' = (nodes \ found) \cup raised
    BY <1>4 DEF MergeEntity
  <2>2. ASSUME NEW y \in raised PROVE y.confidence \in Confidences
    <3>1. PICK n \in found : y = [n EXCEPT !.confidence = Max({n.confidence, e.confidence})]
      OBVIOUS
    <3>2. PICK low, more, both, high : /\ low = n.confidence /\ more = e.confidence
                               /\ both = {low, more} /\ high = Max(both)
      OBVIOUS
    <3>6. low \in Confidences /\ more \in Confidences
      BY <1>3, <3>2 DEF GraphData, Confident
    <3>3. high \in Confidences
      BY <3>2, <3>6, HigherConfidence
    <3>4. IsNode(n) /\ y = [n EXCEPT !.confidence = high]
      BY <3>1, <3>2 DEF GraphInv, StoreFacts
    <3>5. y.confidence = high
      BY <3>4 DEF IsNode
    <3> QED BY <3>3, <3>5
  <2>3. \A m \in nodes : m.confidence \in Confidences
    BY DEF GraphData, Confident
  <2>4. \A m \in nodes' : m \in nodes \/ m \in raised
    BY <2>1
  <2>5. \A m \in nodes' : m.confidence \in Confidences
    BY Zenon, <2>2, <2>3, <2>4
  <2> QED BY <2>5 DEF Confident
<1>5. CASE CreateEntity(d)
  <2> PICK id : id = Cardinality(nodes) + 1
    OBVIOUS
  <2> PICK n : n = [id |-> id, workspace |-> WorkspaceOf[d], name |-> e.name, confidence |-> e.confidence]
    OBVIOUS
  <2>1. nodes' = nodes \cup {n}
    BY <1>5 DEF CreateEntity
  <2>2. n.confidence = e.confidence
    OBVIOUS
  <2> QED BY <1>3, <2>1, <2>2 DEF GraphData, Confident
<1> QED BY <1>4, <1>5

LEMMA RelationConfidences ==
    ASSUME GraphInv, GraphData, NEW d \in GraphDeliveries, MergeRelation(d)
    PROVE  Confident(edges)'
<1>1. PICK old : old = calls[d] /\ CallShape(old)
  BY DEF GraphInv
<1>2. old.pc = "relate" /\ old.todo # <<>>
  BY <1>1 DEF MergeRelation, At
<1> PICK r : r = Now(d)
  OBVIOUS
<1>3. r.confidence \in Confidences
  <2>1. r \in ToSet(old.todo)
    BY <1>1, <1>2, NowOfTodo
  <2>2. ToSet(old.todo) \subseteq Detected[d]
    BY <1>1, <1>2 DEF GraphData, Relates
  <2> QED BY <2>1, <2>2, TextConfidences
<1>4. PICK p \in calls[d].merged \X calls[d].merged :
         LET same == {x \in edges : x.source = p[1][2] /\ x.target = p[2][2]
                                    /\ x.type = Now(d).type}
             raised == {[x EXCEPT !.confidence = Max({@, Now(d).confidence})] : x \in same}
             new == {[id |-> Cardinality(edges) + 1, source |-> p[1][2], target |-> p[2][2],
                      type |-> Now(d).type, confidence |-> Now(d).confidence]}
             out == IF same = {} THEN new ELSE raised
         IN  edges' = (edges \ same) \cup out
  BY DEF MergeRelation
<1> PICK same \in SUBSET edges : same = {x \in edges : x.source = p[1][2] /\ x.target = p[2][2]
                                                       /\ x.type = r.type}
  OBVIOUS
<1> PICK raised : raised = {[x EXCEPT !.confidence = Max({@, r.confidence})] : x \in same}
  OBVIOUS
<1> PICK new : new = [id |-> Cardinality(edges) + 1, source |-> p[1][2], target |-> p[2][2],
                      type |-> r.type, confidence |-> r.confidence]
  OBVIOUS
<1>5. edges' = (edges \ same) \cup (IF same = {} THEN {new} ELSE raised)
  BY <1>4
<1>6. ASSUME NEW y \in raised PROVE y.confidence \in Confidences
  <2>1. PICK x \in same : y = [x EXCEPT !.confidence = Max({x.confidence, r.confidence})]
    OBVIOUS
  <2>2. PICK low, more, both, high : /\ low = x.confidence /\ more = r.confidence
                             /\ both = {low, more} /\ high = Max(both)
    OBVIOUS
  <2>6. low \in Confidences /\ more \in Confidences
    BY <1>3, <2>2 DEF GraphData, Confident
  <2>3. high \in Confidences
    BY <2>2, <2>6, HigherConfidence
  <2>4. IsEdge(x) /\ y = [x EXCEPT !.confidence = high]
    BY <2>1, <2>2 DEF GraphInv, StoreFacts
  <2>5. y.confidence = high
    BY <2>4 DEF IsEdge
  <2> QED BY <2>3, <2>5
<1>7. new.confidence = r.confidence
  OBVIOUS
<1>8. \A x \in edges : x.confidence \in Confidences
  BY DEF GraphData, Confident
<1>9. \A x \in edges' : x \in edges \/ x \in raised \/ x = new
  BY <1>5
<1>10. new.confidence \in Confidences
  BY <1>3, <1>7
<1>11. \A x \in edges' : x.confidence \in Confidences
  BY <1>6, <1>8, <1>9, <1>10
<1> QED BY <1>11 DEF Confident

LEMMA CallStepTypes ==
    ASSUME GraphAssumption, GraphInv, GraphData, NEW d \in GraphDeliveries,
           \/ Receive(d) \/ MergeEntity(d) \/ CreateEntity(d) \/ Skip(d) \/ MergeRelation(d)
           \/ CheckConflicts(d) \/ Publish(d) \/ PublishRejects(d) \/ Advance(d) \/ Complete(d)
    PROVE  GraphData'
<1>1. PICK old : old = calls[d] /\ CallShape(old)
  BY DEF GraphInv
<1>2. PICK new : CallTurn(d, old, new)
  BY <1>1, ReceiveTurn, MergeEntityTurn, CreateEntityTurn, SkipTurn, MergeRelationTurn,
     CheckConflictsTurn, PublishTurn, AdvanceTurn, CompleteTurn
<1>3. Confident(nodes)'
  <2>1. CASE MergeEntity(d) \/ CreateEntity(d)
    BY <2>1, EntityConfidences
  <2>2. CASE nodes' = nodes
    BY <2>2 DEF GraphData, Confident
  <2> QED BY <2>1, <2>2 DEF Receive, Skip, MergeRelation, CheckConflicts, Publish, PublishRejects,
                            Advance, Complete
<1>4. Confident(edges)'
  <2>1. CASE MergeRelation(d)
    BY <2>1, RelationConfidences
  <2>2. CASE edges' = edges
    BY <2>2 DEF GraphData, Confident
  <2> QED BY <2>1, <2>2 DEF Receive, Skip, MergeEntity, CreateEntity, CheckConflicts, Publish,
                            PublishRejects, Advance, Complete
<1>5. /\ \A e \in GraphDeliveries : Relates(e, calls[e])'
      /\ activeJobs' = Cardinality(RunningCalls') /\ activeJobs' <= GraphConcurrency
      /\ graphFaults' \in 0..MaxGraphFaults
  BY <1>1, <1>2, TurnTypesOfCalls
<1> QED BY <1>3, <1>4, <1>5 DEF GraphData

LEMMA CrashTypes ==
    ASSUME GraphAssumption, GraphInv, GraphData, GraphCrash
    PROVE  GraphData'
<1>1. Confident(nodes)' /\ Confident(edges)'
  BY DEF GraphCrash, GraphData, Confident
<1> PICK lost : lost = Call("lost", 0)
  OBVIOUS
<1>2. lost.pc = "lost"
  BY DEF Call
<1>3. \A d \in GraphDeliveries : calls'[d] = IF calls[d].pc \in GraphRunning THEN lost ELSE calls[d]
  BY DEF GraphCrash
<1>4. \A d \in GraphDeliveries : Relates(d, calls[d])'
  BY <1>2, <1>3 DEF Relates, GraphData
<1>5. RunningCalls' = {}
  BY <1>2, <1>3 DEF RunningCalls, GraphRunning
<1>6. activeJobs' = Cardinality(RunningCalls') /\ activeJobs' <= GraphConcurrency
  <2>1. Cardinality({}) = 0
    BY FS_EmptySet
  <2> QED BY <1>5, <2>1 DEF GraphCrash, GraphAssumption
<1>7. graphFaults' \in 0..MaxGraphFaults
  BY DEF GraphCrash, GraphFault, GraphData, GraphAssumption
<1> QED BY <1>1, <1>4, <1>6, <1>7 DEF GraphData

LEMMA GraphDataInitially == ASSUME GraphAssumption, GraphInit PROVE GraphData
<1> PICK first : first = Call("waiting", 0)
  OBVIOUS
<1>1. first.pc = "waiting"
  BY DEF Call
<1>2. \A d \in GraphDeliveries : calls[d] = first
  BY DEF GraphInit
<1>3. RunningCalls = {}
  BY <1>1, <1>2 DEF RunningCalls, GraphRunning
<1>4. Cardinality({}) = 0
  BY FS_EmptySet
<1>5. \A d \in GraphDeliveries : Relates(d, calls[d])
  BY <1>1, <1>2 DEF Relates
<1>6. Confident(nodes) /\ Confident(edges) /\ activeJobs = 0 /\ graphFaults = 0
  BY DEF GraphInit, Confident
<1> QED BY <1>3, <1>4, <1>5, <1>6 DEF GraphData, GraphAssumption

(* For any texts and deliveries (memory-graph-service): ids are drawn from   *)
(* the number of nodes and of relations, every confidence stays between 0    *)
(* and 1 however often it is raised, and activeJobs counts the running       *)
(* calls, which are at most maxConcurrency, through retries and crashes.     *)
THEOREM GraphTypeCorrect == GraphSpec => []GraphTypeOK
<1>1. GraphInit => GraphData
  BY GraphConstants, GraphDataInitially
<1>2. GraphInv /\ GraphData /\ [GraphNext]_graphVars => GraphData'
  <2> SUFFICES ASSUME GraphInv, GraphData, [GraphNext]_graphVars PROVE GraphData'
    OBVIOUS
  <2>1. ASSUME NEW d \in GraphDeliveries,
               \/ Receive(d) \/ MergeEntity(d) \/ CreateEntity(d) \/ Skip(d) \/ MergeRelation(d)
               \/ CheckConflicts(d) \/ Publish(d) \/ PublishRejects(d) \/ Advance(d) \/ Complete(d)
        PROVE  GraphData'
    BY <2>1, GraphConstants, CallStepTypes
  <2>2. CASE GraphCrash
    BY <2>2, GraphConstants, CrashTypes
  <2>3. CASE UNCHANGED graphVars
    BY <2>3 DEF graphVars, GraphData, Confident, Relates, RunningCalls
  <2> QED BY <2>1, <2>2, <2>3 DEF GraphNext
<1>3. GraphInv /\ GraphData => GraphTypeOK
  <2> SUFFICES ASSUME GraphInv, GraphData PROVE GraphTypeOK
    OBVIOUS
  <2>1. \A n \in nodes : n.id \in 1..Cardinality(nodes) /\ n.confidence \in 0..1000
    BY DEF GraphInv, StoreFacts, Identified, GraphData, Confident, Confidences
  <2>2. \A x \in edges : x.id \in 1..Cardinality(edges) /\ x.confidence \in 0..1000
    BY DEF GraphInv, StoreFacts, Identified, GraphData, Confident, Confidences
  <2>3. \A d \in GraphDeliveries : calls[d].pc \in {"waiting"} \cup GraphRunning \cup GraphEnded
    BY DEF GraphInv, CallShape
  <2>4. /\ activeJobs = Cardinality({d \in GraphDeliveries : calls[d].pc \in GraphRunning})
        /\ activeJobs <= GraphConcurrency /\ graphFaults \in 0..MaxGraphFaults
    BY DEF GraphData, RunningCalls
  <2> QED BY <2>1, <2>2, <2>3, <2>4 DEF GraphTypeOK
<1> QED BY <1>1, <1>2, <1>3, GraphInvariant, PTL DEF GraphSpec

-----------------------------------------------------------------------------
(***************************************************************************)
(* ProfileMemory.  A handler's stage tells what it has stored before, by    *)
(* the order in which a signal of its kind is worked on.                    *)
(***************************************************************************)
IsHandler(h) == h = [pc |-> h.pc, at |-> h.at, found |-> h.found, todo |-> h.todo,
                     recent |-> h.recent, counts |-> h.counts]
IsContext(c) == c = [pc |-> c.pc, promised |-> c.promised, read |-> c.read]

Unrecorded == {"waiting", "profile", "record"}
Working    == {"prefs", "fact", "read", "summary", "count", "update"}
Writing    == {"writePref", "writeFact", "detected"}

(* The stage a row is written at is part of one of the plan.                *)
BaseOf(pc) == IF pc \in {"writePref", "detected"} THEN "prefs" ELSE IF pc = "writeFact" THEN "fact" ELSE pc

(* The stages of a plan, each with the one after it.                        *)
Order(s) ==
    IF SignalOf[s].via = "http"
    THEN {<<"record", "prefs">>, <<"prefs", "fact">>, <<"fact", "read">>, <<"read", "summary">>,
          <<"summary", "count">>, <<"count", "update">>}
    ELSE IF SignalOf[s].type = "search"
    THEN {<<"record", "read">>, <<"read", "summary">>, <<"summary", "prefs">>, <<"prefs", "count">>,
          <<"count", "update">>}
    ELSE IF SignalOf[s].type = "document_view"
    THEN {<<"record", "read">>, <<"read", "summary">>, <<"summary", "fact">>, <<"fact", "count">>,
          <<"count", "update">>}
    ELSE {<<"record", "prefs">>, <<"prefs", "read">>, <<"read", "summary">>, <<"summary", "count">>,
          <<"count", "update">>}

Planned(s, stage) ==
    /\ stage \in {"record", "read", "summary", "count", "update"} \cup {"prefs", "fact"}
    /\ stage = "prefs" => SignalOf[s].via = "http" \/ SignalOf[s].type # "document_view"
    /\ stage = "fact" => SignalOf[s].via = "http" \/ SignalOf[s].type = "document_view"

LEMMA NextOfPlan ==
    ASSUME NEW s, Planned(s, Pc(s)), Pc(s) # "update"
    PROVE  <<Pc(s), NextStage(s)>> \in Order(s) /\ Planned(s, NextStage(s))
<1> PICK pc, plan : pc = Pc(s) /\ plan = Plan(s)
  OBVIOUS
<1> PICK i : i = CHOOSE j \in DOMAIN plan : plan[j] = pc
  OBVIOUS
<1>1. NextStage(s) = plan[i + 1]
  BY DEF NextStage
<1>2. CASE SignalOf[s].via = "http"
  <2>1. plan = <<"profile", "record", "prefs", "fact", "read", "summary", "count", "update">>
    BY <1>2 DEF Plan
  <2>2. \E j \in DOMAIN plan : plan[j] = pc
    BY <2>1 DEF Planned
  <2>3. i \in 1..8 /\ plan[i] = pc
    BY <2>1, <2>2
  <2>4. <<pc, plan[i + 1]>> \in Order(s) /\ Planned(s, plan[i + 1])
    BY <1>2, <2>1, <2>3 DEF Order, Planned
  <2> QED BY <1>1, <2>4
<1>3. CASE SignalOf[s].via # "http" /\ SignalOf[s].type = "search"
  <2>1. plan = <<"profile", "record", "read", "summary", "prefs", "count", "update">>
    BY <1>3 DEF Plan
  <2>2. \E j \in DOMAIN plan : plan[j] = pc
    BY <1>3, <2>1 DEF Planned
  <2>3. i \in 1..7 /\ plan[i] = pc
    BY <2>1, <2>2
  <2>4. <<pc, plan[i + 1]>> \in Order(s) /\ Planned(s, plan[i + 1])
    BY <1>3, <2>1, <2>3 DEF Order, Planned
  <2> QED BY <1>1, <2>4
<1>4. CASE SignalOf[s].via # "http" /\ SignalOf[s].type = "document_view"
  <2>1. plan = <<"profile", "record", "read", "summary", "fact", "count", "update">>
    BY <1>4 DEF Plan
  <2>2. \E j \in DOMAIN plan : plan[j] = pc
    BY <1>4, <2>1 DEF Planned
  <2>3. i \in 1..7 /\ plan[i] = pc
    BY <2>1, <2>2
  <2>4. <<pc, plan[i + 1]>> \in Order(s) /\ Planned(s, plan[i + 1])
    BY <1>4, <2>1, <2>3 DEF Order, Planned
  <2> QED BY <1>1, <2>4
<1>5. CASE SignalOf[s].via # "http" /\ SignalOf[s].type \notin {"search", "document_view"}
  <2>1. plan = <<"profile", "record", "prefs", "read", "summary", "count", "update">>
    BY <1>5 DEF Plan
  <2>2. \E j \in DOMAIN plan : plan[j] = pc
    BY <1>5, <2>1 DEF Planned
  <2>3. i \in 1..7 /\ plan[i] = pc
    BY <2>1, <2>2
  <2>4. <<pc, plan[i + 1]>> \in Order(s) /\ Planned(s, plan[i + 1])
    BY <1>5, <2>1, <2>3 DEF Order, Planned
  <2> QED BY <1>1, <2>4
<1> QED BY <1>2, <1>3, <1>4, <1>5

(* What a signal leads to is finite, and does not depend on recent events,  *)
(* unless it is a search that an event of the queue tells of.               *)
LEMMA ThreeFiniteSets ==
    ASSUME NEW A, NEW B, NEW C, IsFiniteSet(A), IsFiniteSet(B), IsFiniteSet(C)
    PROVE  IsFiniteSet(A \cup B \cup C)
<1>1. IsFiniteSet(A \cup B)
  BY FS_Union
<1> QED BY <1>1, FS_Union

LEMMA LeaningIsFinite ==
    ASSUME NEW words, NEW key, NEW options, NEW enough, NEW whole, NEW limit, IsFiniteSet(options)
    PROVE  IsFiniteSet(Leaning(words, key, options, enough, whole, limit))
<1> DEFINE O == {o \in options : /\ Hits(words, o) >= enough
                                 /\ \A p \in options \ {o} : Hits(words, o) > Hits(words, p)}
           pref(o) == Pref(key, o, "inferred", Least((Hits(words, o) * 1000) \div whole, limit))
           L == {pref(o) : o \in O}
<1>1. IsFiniteSet(O)
  BY FS_Subset
<1>2. L = Leaning(words, key, options, enough, whole, limit)
  BY DEF Leaning
<1>3. [o \in O |-> pref(o)] \in Surjection(O, L)
  <2> HIDE DEF O, pref
  <2> QED BY DEF Surjection
<1> HIDE DEF O, L
<1>4. IsFiniteSet(L)
  BY <1>1, <1>3, FS_Surjection
<1> QED BY <1>2, <1>4

LEMMA AnalysesAreFinite == ASSUME NEW queries PROVE IsFiniteSet(AnalyzeSearchQueries(queries))
<1>2. \A a, b : IsFiniteSet({a, b}) /\ IsFiniteSet({a})
  <2> TAKE a, b
  <2>1. IsFiniteSet({a}) /\ IsFiniteSet({b})
    BY FS_Singleton
  <2>2. IsFiniteSet({a} \cup {b})
    BY <2>1, FS_Union
  <2>3. {a} \cup {b} = {a, b}
    OBVIOUS
  <2> QED BY <2>2, <2>1, <2>3
<1> DEFINE words == UNION Range(queries)
           domains == UNION {DomainsOf[w] : w \in words \cap DOMAIN DomainsOf}
           interest == Pref("domain_interests", domains, "inferred", 600)
           A == Leaning(words, "response_style", {"concise", "detailed"}, 2, Len(queries), 900)
           B == Leaning(words, "language", {"id", "en"}, 3, LanguageHits(words), 950)
           C == When(domains # {}, {interest})
<1>3. AnalyzeSearchQueries(queries) = (IF queries = <<>> THEN {} ELSE A \cup B \cup C)
  BY DEF AnalyzeSearchQueries
<1>4. IsFiniteSet({"concise", "detailed"}) /\ IsFiniteSet({"id", "en"}) /\ IsFiniteSet({interest}) /\ IsFiniteSet({})
  <2>1. IsFiniteSet({"concise", "detailed"})
    BY <1>2
  <2>2. IsFiniteSet({"id", "en"})
    BY <1>2
  <2>3. \A a : IsFiniteSet({a})
    BY FS_Singleton
  <2>4. IsFiniteSet({interest})
    <3> HIDE DEF interest
    <3> QED BY Zenon, <2>3
  <2> QED BY <2>1, <2>2, <2>4, FS_EmptySet
<1>5. IsFiniteSet(A)
  BY <1>4, LeaningIsFinite
<1>6. IsFiniteSet(B)
  BY <1>4, LeaningIsFinite
<1>7. IsFiniteSet(C)
  BY <1>4 DEF When
<1> HIDE DEF A, B, C
<1>9. IsFiniteSet(A \cup B \cup C)
  BY <1>5, <1>6, <1>7, ThreeFiniteSets
<1> QED BY <1>3, <1>4, <1>9

HasPreferences(s) == ~ FromRecentSearches(s) /\ PreferencesOf(s, <<>>) # {}
HasFacts(s) == FactsOf(s) # {}

LEMMA OfSignal ==
    ASSUME ProfileAssumption, NEW s \in Signals, NEW recent
    PROVE  /\ IsFiniteSet(PreferencesOf(s, recent)) /\ IsFiniteSet(FactsOf(s))
           /\ HasPreferences(s) => /\ PreferencesOf(s, recent) # {}
                                  /\ \/ SignalOf[s].via = "http"
                                     \/ SignalOf[s].type \notin {"search", "document_view"}
           /\ FactsOf(s) # {} => SignalOf[s].type = "document_view"
<1> PICK sig : sig = SignalOf[s]
  OBVIOUS
<1>1. IsFiniteSet({}) /\ \A a : IsFiniteSet({a})
  BY FS_EmptySet, FS_Singleton
<1>2. IsFiniteSet(AnalyzeFeedback(<<sig>>))
  BY <1>1 DEF AnalyzeFeedback
<1>3. IsFiniteSet(AnalyzeExplicitSettings(sig.settings))
  <2> DEFINE f == [x \in sig.settings |-> Pref(x[1], x[2], "explicit", 1000)]
  <2>1. f \in Surjection(sig.settings, AnalyzeExplicitSettings(sig.settings))
    BY DEF Surjection, AnalyzeExplicitSettings
  <2>2. IsFiniteSet(sig.settings)
    BY DEF ProfileAssumption
  <2> QED BY <2>1, <2>2, FS_Surjection
<1>4. \A r : PreferencesOf(s, r) =
          (IF sig.type = "search" THEN AnalyzeSearchQueries(QueriesOf(s, r))
           ELSE IF sig.type = "feedback" THEN AnalyzeFeedback(<<sig>>)
           ELSE IF sig.type = "setting_change" THEN AnalyzeExplicitSettings(sig.settings) ELSE {})
  BY DEF PreferencesOf
<1>5. IsFiniteSet(PreferencesOf(s, recent))
  BY <1>1, <1>2, <1>3, <1>4, AnalysesAreFinite
<1>6. IsFiniteSet(FactsOf(s)) /\ (FactsOf(s) # {} => SignalOf[s].type = "document_view")
  BY <1>1 DEF FactsOf, When
<1>7. sig.via = "http" => \A r : QueriesOf(s, r) = <<sig.words>>
  BY DEF QueriesOf
<1>8. ASSUME HasPreferences(s)
      PROVE  /\ PreferencesOf(s, recent) # {}
             /\ sig.via = "http" \/ sig.type \notin {"search", "document_view"}
  BY <1>4, <1>7, <1>8 DEF HasPreferences, FromRecentSearches
<1> QED BY <1>5, <1>6, <1>8

-----------------------------------------------------------------------------
(* The rows of a table have keys of their own: to store one more leaves no  *)
(* fewer, and every key that had a row.                                     *)
Keyed(rows) == IsFiniteSet(rows) /\ \A p, q \in rows : p.key = q.key => p = q
HasKey(rows, key) == \E r \in rows : r.key = key
Grown(old, new) ==
    /\ Keyed(new) /\ Cardinality(old) <= Cardinality(new)
    /\ \A key : HasKey(old, key) => HasKey(new, key)
Stored(rows, row) == (rows \ {r \in rows : r.key = row.key}) \cup {row}

LEMMA RowsGrow ==
    ASSUME NEW rows, NEW row, Keyed(rows)
    PROVE  Grown(rows, Stored(rows, row)) /\ row \in Stored(rows, row)
<1> DEFINE old == {r \in rows : r.key = row.key}
           kept == rows \ old
           new == kept \cup {row}
<1>1. IsFiniteSet(kept) /\ row \notin kept /\ IsFiniteSet(rows)
  BY FS_Subset DEF Keyed
<1>2. IsFiniteSet(new) /\ Cardinality(new) = Cardinality(kept) + 1
  BY <1>1, FS_AddElement
<1>3. Cardinality(kept) \in Nat /\ Cardinality(rows) \in Nat
  BY <1>1, FS_CardinalityType
<1>4. Cardinality(rows) <= Cardinality(kept) + 1
  <2>1. CASE old = {}
    <3>1. kept = rows
      BY <2>1
    <3> QED BY <3>1, <1>3
  <2>2. CASE old # {}
    <3>1. PICK r : r \in old
      BY <2>2
    <3>2. kept = rows \ {r} /\ r \in rows
      BY <3>1 DEF Keyed
    <3>3. Cardinality(rows \ {r}) = Cardinality(rows) - 1
      BY <3>2, <1>1, FS_RemoveElement
    <3>4. Cardinality(kept) = Cardinality(rows) - 1
      BY <3>2, <3>3
    <3> HIDE DEF kept
    <3> QED BY <3>4, <1>3
  <2> QED BY <2>1, <2>2
<1>5. \A p, q \in new : p.key = q.key => p = q
  BY DEF Keyed
<1>6. \A key : HasKey(rows, key) => HasKey(new, key)
  BY DEF HasKey
<1>7. Stored(rows, row) = new
  BY DEF Stored
<1> QED BY <1>2, <1>3, <1>4, <1>5, <1>6, <1>7 DEF Grown, Keyed

LEMMA SameRows ==
    ASSUME NEW rows, Keyed(rows)
    PROVE  Grown(rows, rows) /\ Cardinality(rows) \in Nat /\ (rows # {} => Cardinality(rows) >= 1)
<1>1. IsFiniteSet(rows) /\ Cardinality(rows) \in Nat
  BY FS_CardinalityType DEF Keyed
<1>2. Cardinality(rows) = 0 <=> rows = {}
  BY <1>1, FS_EmptySet
<1> QED BY <1>1, <1>2 DEF Grown

-----------------------------------------------------------------------------
(* What a handler is at, by its stage.                                      *)
HandlerShape(s, h) ==
    /\ IsHandler(h)
    /\ h.pc \in Unrecorded \cup Working \cup Writing \cup HandlerEnded
    /\ h.pc \in Working \cup Writing => Planned(s, BaseOf(h.pc)) /\ \E S : h.todo \in Seq(S)
    /\ h.pc \in Writing => h.todo # <<>>
    /\ h.pc \in {"fact", "writeFact"} /\ h.todo # <<>> => SignalOf[s].type = "document_view"
    /\ h.pc \notin {"count", "update"} => h.counts = <<>>

(* ... and what it has recorded: a summary is to be made of the events      *)
(* there were at some moment.                                               *)
IsRecorded(s) == \E i \in DOMAIN behavior : behavior[i].of = s
OfAMoment(recent) == \E n \in 1..Len(behavior) : recent = RecentOf(SubSeq(behavior, 1, n))

HandlerRecords(s, h) ==
    /\ h.pc \notin {"waiting", "profile", "failed"} => profile
    /\ h.pc \in Unrecorded => ~ IsRecorded(s)
    /\ h.pc \in Working \cup Writing \cup {"done"} => IsRecorded(s)
    /\ h.pc = "summary" => OfAMoment(h.recent)

(* ... and which rows there are for it, and how many it has counted.        *)
Counts(s, n, own, rows) == n \in Nat /\ n <= Cardinality(rows) /\ (own => n >= 1)
CountsBoth(s, c) ==
    Counts(s, c[1], HasPreferences(s), preferences) /\ Counts(s, c[2], HasFacts(s), facts)

HandlerRows(s, h) ==
    /\ h.pc = "detected" => HasKey(preferences, Head(h.todo).key)
    /\ HasPreferences(s) =>
          /\ h.pc \in (Working \ {"prefs"}) \cup {"writeFact"} => preferences # {}
          /\ h.pc = "prefs" => h.todo # <<>> \/ preferences # {}
    /\ HasFacts(s) =>
          /\ h.pc \in {"count", "update"} => facts # {}
          /\ h.pc \in {"read", "summary"} /\ SignalOf[s].via = "http" => facts # {}
          /\ h.pc = "fact" => h.todo # <<>> \/ facts # {}
    /\ h.pc = "count" => \/ h.counts = <<>>
                        \/ \E n : h.counts = <<n>> /\ Counts(s, n, HasPreferences(s), preferences)
    /\ h.pc = "update" => CountsBoth(s, h.counts)

StoredFacts ==
    /\ profile \in BOOLEAN
    /\ Keyed(preferences) /\ Keyed(facts)
    /\ \E S : behavior \in Seq(S)
    /\ \A i, j \in DOMAIN behavior : behavior[i].of = behavior[j].of => i = j
    /\ behavior # <<>> => profile
    /\ SummaryOfAMoment

HandlersFacts ==
    /\ handling = [s \in Signals |-> handling[s]]
    /\ \A s \in Signals : \E h : /\ h = handling[s]
                                /\ HandlerShape(s, h) /\ HandlerRecords(s, h) /\ HandlerRows(s, h)

IsTrue(e) ==
    /\ e.type = "preference" => HasKey(preferences, e.row.key)
    /\ e.type = "updated" => profile /\ CountsBoth(e.of, e.counts)

PublishedFacts == \A e \in published : IsTrue(e)

ContextFacts ==
    /\ IsContext(context)
    /\ context.promised # {} => context.pc # "not found"
    /\ context.pc = "none" => context.read = <<>>
    /\ context.pc = "reading" => context.read = <<>> \/ \E stage : DOMAIN context.read = {stage}
                                                                  /\ stage \in {"prefs", "fact"}
    /\ context.pc = "answered" => DOMAIN context.read = {"prefs", "fact"}
    /\ \A c \in context.promised :
          /\ c[1] \in Nat /\ c[1] <= Cardinality(preferences)
          /\ c[2] \in Nat /\ c[2] <= Cardinality(facts)
          /\ "prefs" \in DOMAIN context.read => c[1] <= Cardinality(context.read["prefs"])
          /\ "fact" \in DOMAIN context.read => c[2] <= Cardinality(context.read["fact"])

ProfileInv == StoredFacts /\ HandlersFacts /\ PublishedFacts /\ ContextFacts

-----------------------------------------------------------------------------
(* A handler's steps, each with the record it has after it.                 *)
Becomes(s, h) == handling' = [handling EXCEPT ![s] = h] /\ IsHandler(h)

LEMMA HandlerBecomes ==
    ASSUME HandlersFacts, NEW s \in Signals, NEW h, Becomes(s, h)
    PROVE  /\ handling' = [r \in Signals |-> handling'[r]]
           /\ handling'[s] = h
           /\ \A r \in Signals \ {s} : handling'[r] = handling[r]
  BY DEF HandlersFacts, Becomes

LEMMA GoesToStage ==
    ASSUME NEW s, NEW old, NEW h, NEW pc, old = handling[s], IsHandler(old), h = [old EXCEPT !.pc = pc]
    PROVE  /\ IsHandler(h) /\ h.pc = pc /\ h.at = old.at /\ h.found = old.found /\ h.todo = old.todo
           /\ h.recent = old.recent /\ h.counts = old.counts
<1>1. h = [pc |-> pc, at |-> old.at, found |-> old.found, todo |-> old.todo, recent |-> old.recent,
           counts |-> old.counts]
  BY DEF IsHandler
<1> QED BY <1>1 DEF IsHandler

LEMMA GoesOnward ==
    ASSUME ProfileAssumption, NEW s \in Signals, NEW h, IsHandler(h), Planned(s, Pc(s)), Pc(s) # "update",
           Onward(s, h)
    PROVE  \E g : /\ Becomes(s, g)
                  /\ <<Pc(s), g.pc>> \in Order(s) /\ Planned(s, g.pc)
                  /\ g.recent = h.recent /\ g.counts = h.counts
                  /\ \E S : g.todo \in Seq(S)
                  /\ g.pc = "prefs" /\ HasPreferences(s) => g.todo # <<>>
                  /\ g.pc = "fact" => (HasFacts(s) <=> g.todo # <<>>)
<1> PICK stage, items : /\ stage = NextStage(s)
                        /\ items = IF stage = "prefs" THEN PreferencesOf(s, h.recent)
                                   ELSE IF stage = "fact" THEN FactsOf(s) ELSE {}
  OBVIOUS
<1> PICK g : g = [h EXCEPT !.pc = stage, !.todo = SetToSeq(items), !.found = FALSE]
  OBVIOUS
<1>1. handling' = [handling EXCEPT ![s] = g]
  BY DEF Onward, Sets
<1>2. g = [pc |-> stage, at |-> h.at, found |-> FALSE, todo |-> SetToSeq(items), recent |-> h.recent,
           counts |-> h.counts]
  BY DEF IsHandler
<1>3. /\ IsHandler(g) /\ g.pc = stage /\ g.todo = SetToSeq(items) /\ g.recent = h.recent
      /\ g.counts = h.counts
  BY <1>2 DEF IsHandler
<1>4. <<Pc(s), stage>> \in Order(s) /\ Planned(s, stage)
  BY NextOfPlan
<1>5. IsFiniteSet(items)
  BY OfSignal, FS_EmptySet
<1>6. SetToSeq(items) \in Seq(items) /\ ToSet(SetToSeq(items)) = items
  BY <1>5, SetAsSequence
<1>7. SetToSeq(items) = <<>> => items = {}
  BY <1>6, EmptyElements
<1>8. items # {} => SetToSeq(items) # <<>>
  BY <1>7
<1>9. items = {} => SetToSeq(items) = <<>>
  BY <1>6, ElementsByPosition
<1>10. stage = "prefs" /\ HasPreferences(s) => items # {}
  BY OfSignal
<1>11. stage = "fact" => (HasFacts(s) <=> items # {})
  BY DEF HasFacts
<1> QED BY <1>1, <1>3, <1>4, <1>6, <1>8, <1>9, <1>10, <1>11 DEF Becomes

(* A handler that is done with a stage moves on to the next.                *)
MovesOn(s, old, g) ==
    /\ <<old.pc, g.pc>> \in Order(s) /\ Planned(s, g.pc) /\ \E S : g.todo \in Seq(S)
    /\ g.pc = "prefs" /\ HasPreferences(s) => g.todo # <<>>
    /\ g.pc = "fact" => (HasFacts(s) <=> g.todo # <<>>)

LEMMA OnwardShape ==
    ASSUME ProfileAssumption, NEW s \in Signals, NEW old, NEW g, HandlerShape(s, old), IsHandler(g),
           MovesOn(s, old, g), old.pc # "count" => g.counts = old.counts
    PROVE  HandlerShape(s, g)
<1>1. g.pc \in Working /\ (old.pc = "count" => g.pc = "update") /\ old.pc # "update"
  BY DEF MovesOn, Order, Working
<1>2. Planned(s, BaseOf(g.pc)) /\ \E S : g.todo \in Seq(S)
  BY <1>1 DEF MovesOn, BaseOf, Working
<1>3. g.pc = "fact" /\ g.todo # <<>> => SignalOf[s].type = "document_view"
  BY OfSignal DEF MovesOn, HasFacts
<1>4. g.pc \notin {"count", "update"} => g.counts = <<>>
  BY <1>1 DEF HandlerShape
<1> QED BY <1>1, <1>2, <1>3, <1>4 DEF HandlerShape, Working, Writing

LEMMA OnwardRows ==
    ASSUME ProfileAssumption, NEW s \in Signals, NEW old, NEW g, HandlerRows(s, old), HandlerShape(s, old),
           MovesOn(s, old, g), old.pc \in {"prefs", "fact"} => old.todo = <<>>,
           IF g.pc = "update" THEN CountsBoth(s, g.counts) ELSE g.counts = old.counts
    PROVE  HandlerRows(s, g)
<1>1. g.pc \in Working /\ <<old.pc, g.pc>> \in Order(s) /\ old.pc \notin Writing
  BY DEF MovesOn, Order, Working, Writing
<1>2. /\ HasPreferences(s) => SignalOf[s].via = "http" \/ SignalOf[s].type \notin {"search", "document_view"}
      /\ HasFacts(s) => SignalOf[s].type = "document_view"
  BY OfSignal DEF HasFacts
<1>3. HasPreferences(s) => /\ g.pc # "prefs" => preferences # {}
                           /\ g.pc = "prefs" => g.todo # <<>>
  BY <1>1, <1>2 DEF MovesOn, Order, HandlerRows, Working
<1>4. HasFacts(s) => /\ g.pc \in {"count", "update"} => facts # {}
                     /\ g.pc \in {"read", "summary"} /\ SignalOf[s].via = "http" => facts # {}
                     /\ g.pc = "fact" => g.todo # <<>>
  BY <1>1, <1>2 DEF MovesOn, Order, HandlerRows
<1>5. g.pc = "count" => g.counts = <<>>
  <2>1. g.pc = "count" => old.pc \notin {"count", "update"}
    BY <1>1 DEF Order
  <2> QED BY <2>1 DEF HandlerShape
<1>6. g.pc = "update" => CountsBoth(s, g.counts)
  OBVIOUS
<1>7. g.pc # "detected" /\ g.pc # "writeFact"
  BY <1>1 DEF Working
<1> QED BY <1>1, <1>3, <1>4, <1>5, <1>6, <1>7 DEF HandlerRows

LEMMA OnwardRecords ==
    ASSUME NEW s, NEW old, NEW g, HandlerRecords(s, old), MovesOn(s, old, g), old.pc # "record",
           g.pc = "summary" => OfAMoment(g.recent)
    PROVE  HandlerRecords(s, g)
<1>1. g.pc \in Working /\ old.pc \in Working
  BY DEF MovesOn, Order, Working
<1>2. profile /\ IsRecorded(s)
  BY <1>1 DEF HandlerRecords, Working
<1> QED BY <1>1, <1>2 DEF HandlerRecords, Working, Unrecorded

-----------------------------------------------------------------------------
(* While rows and events are only added, what is known of a handler, of     *)
(* what was published and of a reader goes on to hold.                      *)
Growing ==
    /\ profile => profile'
    /\ Grown(preferences, preferences') /\ Grown(facts, facts')

Recording(s) ==
    \/ behavior' = behavior
    \/ /\ ~ IsRecorded(s) /\ profile'
       /\ \E e : e.of = s /\ behavior' = Append(behavior, e)

LEMMA MomentsStay ==
    ASSUME NEW S, NEW b \in Seq(S), NEW e
    PROVE  /\ \E T : Append(b, e) \in Seq(T)
           /\ Len(Append(b, e)) = Len(b) + 1 /\ Append(b, e)[Len(b) + 1] = e
           /\ \A i \in 1..Len(b) : Append(b, e)[i] = b[i]
           /\ \A n \in 1..Len(b) : SubSeq(Append(b, e), 1, n) = SubSeq(b, 1, n)
<1> DEFINE T == S \cup {e}
<1>1. b \in Seq(T) /\ e \in T
  OBVIOUS
<1> HIDE DEF T
<1> DEFINE a == Append(b, e)
<1>2. a \in Seq(T) /\ Len(a) = Len(b) + 1 /\ a[Len(b) + 1] = e /\ \A i \in 1..Len(b) : a[i] = b[i]
  BY <1>1
<1> HIDE DEF a
<1>3. ASSUME NEW n \in 1..Len(b) PROVE SubSeq(a, 1, n) = SubSeq(b, 1, n)
  BY <1>1, <1>2
<1> QED BY <1>2, <1>3 DEF a

LEMMA RowsGrowing ==
    ASSUME Keyed(preferences), Keyed(facts), Growing
    PROVE  /\ \A key : HasKey(preferences, key) => HasKey(preferences', key)
           /\ preferences # {} => preferences' # {}
           /\ facts # {} => facts' # {}
           /\ \A s, n, own : Counts(s, n, own, preferences) => Counts(s, n, own, preferences')
           /\ \A s, n, own : Counts(s, n, own, facts) => Counts(s, n, own, facts')
<1>1. ASSUME NEW p, NEW q, Keyed(p), Grown(p, q)
      PROVE  /\ \A key : HasKey(p, key) => HasKey(q, key)
             /\ p # {} => q # {}
             /\ \A s, n, own : Counts(s, n, own, p) => Counts(s, n, own, q)
  <2>1. Cardinality(p) \in Nat /\ Cardinality(q) \in Nat /\ Cardinality(p) <= Cardinality(q)
    BY <1>1, SameRows DEF Grown
  <2>2. ASSUME NEW x \in p PROVE q # {}
    BY <1>1, <2>2 DEF Grown, HasKey
  <2>3. \A s, n, own : Counts(s, n, own, p) => Counts(s, n, own, q)
    BY <2>1 DEF Counts
  <2> QED BY <1>1, <2>2, <2>3 DEF Grown
<1> PICK p, q : p = preferences' /\ q = facts'
  OBVIOUS
<1>2. Grown(preferences, p) /\ Grown(facts, q)
  BY DEF Growing
<1> QED BY <1>1, <1>2

LEMMA HandlersKeepRows ==
    ASSUME NEW r, NEW h, HandlerRows(r, h), Keyed(preferences), Keyed(facts), Growing
    PROVE  HandlerRows(r, h)'
<1>1. \A c : CountsBoth(r, c) => CountsBoth(r, c)'
  BY RowsGrowing DEF CountsBoth
<1> QED BY <1>1, RowsGrowing DEF HandlerRows

LEMMA HandlersKeepRecords ==
    ASSUME NEW r, NEW s, r # s, NEW h, HandlerRecords(r, h), StoredFacts, Growing, Recording(s)
    PROVE  HandlerRecords(r, h)'
<1>1. PICK S : behavior \in Seq(S)
  BY DEF StoredFacts
<1>2. CASE behavior' = behavior
  BY <1>2 DEF HandlerRecords, IsRecorded, OfAMoment, Growing
<1>3. ASSUME NEW e, e.of = s, behavior' = Append(behavior, e) PROVE HandlerRecords(r, h)'
  <2> PICK b : b = behavior'
    OBVIOUS
  <2>1. /\ Len(b) = Len(behavior) + 1 /\ b[Len(behavior) + 1].of = s /\ DOMAIN b = 1..Len(b)
        /\ \A i \in 1..Len(behavior) : b[i] = behavior[i]
        /\ \A n \in 1..Len(behavior) : SubSeq(b, 1, n) = SubSeq(behavior, 1, n)
    BY <1>1, <1>3, MomentsStay, LenProperties
  <2>2. Len(behavior) \in Nat /\ DOMAIN behavior = 1..Len(behavior)
    BY <1>1
  <2>3. IsRecorded(r)' <=> IsRecorded(r)
    BY <2>1, <2>2 DEF IsRecorded
  <2>4. OfAMoment(h.recent) => OfAMoment(h.recent)'
    <3> PICK recent : recent = h.recent
      OBVIOUS
    <3>1. ASSUME NEW n \in 1..Len(behavior), recent = RecentOf(SubSeq(behavior, 1, n))
          PROVE  n \in 1..Len(b) /\ recent = RecentOf(SubSeq(b, 1, n))
      <4>1. n \in 1..Len(b) /\ SubSeq(b, 1, n) = SubSeq(behavior, 1, n)
        BY <2>1, <2>2
      <4> QED BY <3>1, <4>1, Zenon
    <3> QED BY <3>1 DEF OfAMoment
  <2> QED BY <2>3, <2>4 DEF HandlerRecords, Growing
<1> QED BY <1>2, <1>3 DEF Recording

LEMMA WhatIsTrueStays ==
    ASSUME NEW e, IsTrue(e), Keyed(preferences), Keyed(facts), Growing
    PROVE  IsTrue(e)'
  BY RowsGrowing DEF IsTrue, CountsBoth, Growing

LEMMA ReadersKeepFacts ==
    ASSUME ContextFacts, context' = context, Keyed(preferences), Keyed(facts), Growing
    PROVE  ContextFacts'
<1>1. /\ \A n \in Nat : n <= Cardinality(preferences) => n <= Cardinality(preferences')
      /\ \A n \in Nat : n <= Cardinality(facts) => n <= Cardinality(facts')
  BY RowsGrowing DEF Counts
<1> QED BY <1>1 DEF ContextFacts

-----------------------------------------------------------------------------
(* Every step of a handler, by what it becomes and what it leaves.          *)
Becoming(s, g) ==
    /\ Becomes(s, g)
    /\ HandlerShape(s, g) /\ HandlerRecords(s, g)' /\ HandlerRows(s, g)'

Leaving(s) ==
    /\ Growing /\ Recording(s)
    /\ profile' \in BOOLEAN /\ (behavior' # <<>> => profile') /\ SummaryOfAMoment'
    /\ \A e \in published' : e \in published \/ IsTrue(e)'
    /\ context' = context

LEMMA TurnKeepsStored ==
    ASSUME ProfileInv, NEW s \in Signals, Leaving(s)
    PROVE  StoredFacts'
<1>1. PICK S : behavior \in Seq(S)
  BY DEF ProfileInv, StoredFacts
<1>2. Keyed(preferences') /\ Keyed(facts')
  BY DEF Leaving, Growing, Grown
<1>3. (\E T : behavior' \in Seq(T)) /\ \A i, j \in DOMAIN behavior' : behavior'[i].of = behavior'[j].of => i = j
  <2>1. CASE behavior' = behavior
    BY <1>1, <2>1 DEF ProfileInv, StoredFacts
  <2>2. ASSUME NEW e, e.of = s, behavior' = Append(behavior, e), ~ IsRecorded(s)
        PROVE  /\ \E T : behavior' \in Seq(T)
               /\ \A i, j \in DOMAIN behavior' : behavior'[i].of = behavior'[j].of => i = j
    <3> PICK b : b = behavior'
      OBVIOUS
    <3> PICK T : b \in Seq(T)
      BY <1>1, <2>2, MomentsStay
    <3>1. /\ Len(b) = Len(behavior) + 1 /\ b[Len(behavior) + 1].of = s /\ DOMAIN b = 1..Len(b)
          /\ \A i \in 1..Len(behavior) : b[i] = behavior[i]
      BY <1>1, <2>2, MomentsStay, LenProperties
    <3>2. Len(behavior) \in Nat /\ DOMAIN behavior = 1..Len(behavior)
      BY <1>1
    <3>3. \A i \in 1..Len(behavior) : b[i].of = behavior[i].of /\ b[i].of # s
      BY <2>2, <3>1, <3>2 DEF IsRecorded
    <3>4. ASSUME NEW i \in DOMAIN b, NEW j \in DOMAIN b, b[i].of = b[j].of PROVE i = j
      BY <3>1, <3>2, <3>3, <3>4 DEF ProfileInv, StoredFacts
    <3> QED BY <3>1, <3>4
  <2> QED BY <2>1, <2>2 DEF Leaving, Recording
<1> QED BY <1>2, <1>3 DEF StoredFacts, Leaving

LEMMA TurnKeepsInvariant ==
    ASSUME ProfileInv, NEW s \in Signals, NEW g, Becoming(s, g), Leaving(s)
    PROVE  ProfileInv'
<1> USE DEF ProfileInv
<1>1. StoredFacts /\ Keyed(preferences) /\ Keyed(facts) /\ Growing /\ Recording(s) /\ context' = context
  BY DEF StoredFacts, Leaving
<1>2. StoredFacts'
  BY TurnKeepsStored
<1>3. HandlersFacts'
  <2>1. /\ handling' = [r \in Signals |-> handling'[r]]
        /\ handling'[s] = g
        /\ \A r \in Signals \ {s} : handling'[r] = handling[r]
    BY HandlerBecomes DEF Becoming
  <2>2. ASSUME NEW r \in Signals
        PROVE  \E h : h = handling'[r] /\ HandlerShape(r, h) /\ HandlerRecords(r, h)' /\ HandlerRows(r, h)'
    <3>1. CASE r = s
      BY <2>1, <3>1 DEF Becoming
    <3>2. CASE r # s
      <4>1. PICK h : h = handling[r] /\ HandlerShape(r, h) /\ HandlerRecords(r, h) /\ HandlerRows(r, h)
        BY DEF HandlersFacts
      <4>2. HandlerRecords(r, h)'
        BY <1>1, <3>2, <4>1, HandlersKeepRecords
      <4>3. HandlerRows(r, h)'
        BY <1>1, <4>1, HandlersKeepRows
      <4> QED BY <2>1, <3>2, <4>1, <4>2, <4>3
    <3> QED BY <3>1, <3>2
  <2>3. \A r, h : HandlerShape(r, h)' <=> HandlerShape(r, h)
    BY DEF HandlerShape
  <2> QED BY <2>1, <2>2, <2>3 DEF HandlersFacts
<1>4. PublishedFacts'
  <2>1. ASSUME NEW e \in published' PROVE IsTrue(e)'
    BY <1>1, <2>1, WhatIsTrueStays DEF Leaving, PublishedFacts
  <2> QED BY <2>1 DEF PublishedFacts
<1>5. ContextFacts'
  BY <1>1, ReadersKeepFacts
<1> QED BY <1>2, <1>3, <1>4, <1>5

(* A step that changes no row, and one that is rejected by a key.           *)
LEMMA QuietStep ==
    ASSUME ProfileInv, NEW s \in Signals, NEW g, UNCHANGED <<rowVars, context>>,
           Becomes(s, g), HandlerShape(s, g), HandlerRecords(s, g), HandlerRows(s, g),
           \A e \in published' : e \in published \/ IsTrue(e)
    PROVE  Becoming(s, g) /\ Leaving(s)
<1>1. UNCHANGED <<profile, preferences, facts, behavior, summary>> /\ context' = context
  BY DEF rowVars
<1>2. HandlerRecords(s, g)' /\ HandlerRows(s, g)'
  BY <1>1 DEF HandlerRecords, IsRecorded, OfAMoment, HandlerRows, CountsBoth
<1>3. \A e \in published' : e \in published \/ IsTrue(e)'
  BY <1>1 DEF IsTrue, CountsBoth
<1>4. Growing /\ Recording(s)
  BY <1>1, SameRows DEF ProfileInv, StoredFacts, Growing, Recording
<1>5. profile' \in BOOLEAN /\ (behavior' # <<>> => profile') /\ SummaryOfAMoment'
  BY <1>1 DEF ProfileInv, StoredFacts, SummaryOfAMoment
<1> QED BY <1>1, <1>2, <1>3, <1>4, <1>5 DEF Becoming, Leaving

LEMMA HandlerOf ==
    ASSUME ProfileInv, NEW s \in Signals
    PROVE  \E old : /\ old = handling[s] /\ old.pc = Pc(s)
                   /\ HandlerShape(s, old) /\ HandlerRecords(s, old) /\ HandlerRows(s, old)
  BY DEF ProfileInv, HandlersFacts, Pc

LEMMA HandlerEnds ==
    ASSUME NEW s \in Signals, NEW pc \in HandlerEnded, Ends(s, pc),
           pc # "failed" => profile, pc = "done" => IsRecorded(s)
    PROVE  \E g : Becomes(s, g) /\ HandlerShape(s, g) /\ HandlerRecords(s, g) /\ HandlerRows(s, g)
<1> PICK at : at = handling[s].at
  OBVIOUS
<1>0. PICK g : g = [NoHandler EXCEPT !.pc = pc, !.at = at]
  OBVIOUS
<1> PICK none : none = <<>>
  OBVIOUS
<1>1. g = [pc |-> pc, at |-> at, found |-> FALSE, todo |-> none, recent |-> none, counts |-> none]
  BY <1>0 DEF NoHandler
<1>2. g.pc = pc /\ g.at = at /\ g.found = FALSE /\ g.todo = none /\ g.recent = none /\ g.counts = none
  BY <1>1
<1>21. IsHandler(g)
  BY <1>1, <1>2 DEF IsHandler
<1>3. Becomes(s, g)
  BY <1>0, <1>21 DEF Becomes, Ends, Sets
<1>4. pc \notin Unrecorded \cup Working \cup Writing /\ pc # "summary"
  BY DEF HandlerEnded, Unrecorded, Working, Writing
<1>5. HandlerShape(s, g)
  BY <1>2, <1>21, <1>4 DEF HandlerShape, Working, Writing
<1>6. HandlerRecords(s, g)
  BY <1>2, <1>4 DEF HandlerRecords, HandlerEnded
<1>7. HandlerRows(s, g)
  BY <1>2, <1>4 DEF HandlerRows, Working, Writing
<1> QED BY <1>3, <1>5, <1>6, <1>7

LEMMA OnwardStep ==
    ASSUME ProfileAssumption, NEW s \in Signals, NEW old, old.pc = Pc(s), HandlerShape(s, old),
           HandlerRows(s, old), old.pc \in Working \cup {"record"}, old.pc # "update",
           old.pc \in {"prefs", "fact"} => old.todo = <<>>,
           NEW h, IsHandler(h), Onward(s, h),
           IF old.pc = "count" THEN CountsBoth(s, h.counts) ELSE h.counts = old.counts
    PROVE  \E g : /\ Becomes(s, g) /\ MovesOn(s, old, g) /\ g.recent = h.recent
                  /\ HandlerShape(s, g) /\ HandlerRows(s, g)
<1>1. Planned(s, Pc(s))
  <2>1. CASE old.pc = "record"
    BY <2>1 DEF Planned
  <2>2. CASE old.pc \in Working
    BY <2>2 DEF HandlerShape, BaseOf, Working
  <2> QED BY <2>1, <2>2
<1>2. PICK g : /\ Becomes(s, g)
               /\ <<Pc(s), g.pc>> \in Order(s) /\ Planned(s, g.pc)
               /\ g.recent = h.recent /\ g.counts = h.counts
               /\ \E S : g.todo \in Seq(S)
               /\ g.pc = "prefs" /\ HasPreferences(s) => g.todo # <<>>
               /\ g.pc = "fact" => (HasFacts(s) <=> g.todo # <<>>)
  BY <1>1, GoesOnward
<1>3. MovesOn(s, old, g)
  BY <1>2 DEF MovesOn
<1>4. g.pc = "update" <=> old.pc = "count"
  BY <1>2 DEF Order
<1>5. HandlerShape(s, g)
  BY <1>2, <1>3, OnwardShape DEF Becomes
<1>6. g.pc = "update" => CountsBoth(s, g.counts)
  BY <1>2, <1>4
<1>7. g.pc # "update" => g.counts = old.counts
  BY <1>2, <1>4
<1>8. HandlerRows(s, g)
  BY <1>3, <1>6, <1>7, OnwardRows
<1> QED BY <1>2, <1>3, <1>5, <1>8

LEMMA LookUpProfileStep ==
    ASSUME ProfileInv, NEW s \in Signals, LookUpProfile(s)
    PROVE  \E g : Becoming(s, g) /\ Leaving(s)
<1> PICK old : /\ old = handling[s] /\ old.pc = Pc(s)
               /\ HandlerShape(s, old) /\ HandlerRecords(s, old) /\ HandlerRows(s, old)
  BY HandlerOf
<1> PICK now : now = Max({handling[r].at : r \in Signals}) + 1
  OBVIOUS
<1> PICK g : g = IF profile THEN [old EXCEPT !.pc = "record", !.at = now] ELSE [old EXCEPT !.pc = "profile"]
  OBVIOUS
<1>1. handling' = [handling EXCEPT ![s] = g]
  BY DEF LookUpProfile, Sets, Stamped
<1>2. g = [pc |-> IF profile THEN "record" ELSE "profile", at |-> IF profile THEN now ELSE old.at,
           found |-> old.found, todo |-> old.todo, recent |-> old.recent, counts |-> old.counts]
  BY DEF HandlerShape, IsHandler
<1>3. IsHandler(g) /\ g.pc = (IF profile THEN "record" ELSE "profile") /\ g.counts = old.counts
  BY <1>2 DEF IsHandler
<1>4. old.pc = "waiting" /\ old.counts = <<>> /\ ~ IsRecorded(s)
  BY DEF LookUpProfile, HandlerShape, HandlerRecords, Unrecorded
<1>5. HandlerShape(s, g) /\ HandlerRecords(s, g) /\ HandlerRows(s, g)
  BY <1>3, <1>4 DEF HandlerShape, HandlerRecords, HandlerRows, Unrecorded, Working, Writing, HandlerEnded
<1> QED BY <1>1, <1>3, <1>5, QuietStep DEF LookUpProfile, Becomes

LEMMA InsertProfileStep ==
    ASSUME ProfileInv, NEW s \in Signals, InsertProfile(s)
    PROVE  \E g : Becoming(s, g) /\ Leaving(s)
<1> PICK old : /\ old = handling[s] /\ old.pc = Pc(s)
               /\ HandlerShape(s, old) /\ HandlerRecords(s, old) /\ HandlerRows(s, old)
  BY HandlerOf
<1>1. CASE profile
  <2>1. Ends(s, "conflict") /\ UNCHANGED <<rowVars, context>> /\ published' = published
    BY <1>1 DEF InsertProfile, rowVars
  <2>2. \E g : Becomes(s, g) /\ HandlerShape(s, g) /\ HandlerRecords(s, g) /\ HandlerRows(s, g)
    BY <1>1, <2>1, HandlerEnds DEF HandlerEnded
  <2> QED BY <2>1, <2>2, QuietStep
<1>2. CASE ~ profile
  <2> PICK now : now = Max({handling[r].at : r \in Signals}) + 1
    OBVIOUS
  <2> PICK g : g = [old EXCEPT !.pc = "record", !.at = now]
    OBVIOUS
  <2>1. handling' = [handling EXCEPT ![s] = g]
    BY <1>2 DEF InsertProfile, Sets, Stamped
  <2>2. g = [pc |-> "record", at |-> now, found |-> old.found, todo |-> old.todo, recent |-> old.recent,
             counts |-> old.counts]
    BY DEF HandlerShape, IsHandler
  <2>3. IsHandler(g) /\ g.pc = "record" /\ g.counts = old.counts
    BY <2>2 DEF IsHandler
  <2>4. old.pc = "profile" /\ old.counts = <<>> /\ ~ IsRecorded(s)
    BY DEF InsertProfile, HandlerShape, HandlerRecords, Unrecorded
  <2>5. profile' = TRUE /\ UNCHANGED <<preferences, facts, behavior, published, context>>
    BY <1>2 DEF InsertProfile
  <2>6. HandlerShape(s, g)
    BY <2>3, <2>4 DEF HandlerShape, Unrecorded, Working, Writing
  <2>7. HandlerRecords(s, g)'
    BY <2>3, <2>4, <2>5 DEF HandlerRecords, IsRecorded, Unrecorded, Working, Writing
  <2>8. HandlerRows(s, g)'
    BY <2>3, <2>5 DEF HandlerRows, Working, Writing
  <2>9. SummaryOfAMoment'
    BY <1>2 DEF InsertProfile, SummaryOfAMoment
  <2>10. Growing /\ Recording(s)
    BY <2>5, SameRows DEF ProfileInv, StoredFacts, Growing, Recording
  <2> QED BY <2>1, <2>3, <2>5, <2>6, <2>7, <2>8, <2>9, <2>10 DEF Becoming, Becomes, Leaving
<1> QED BY <1>1, <1>2

LEMMA RecordBehaviorEventStep ==
    ASSUME ProfileAssumption, ProfileInv, NEW s \in Signals, RecordBehaviorEvent(s)
    PROVE  \E g : Becoming(s, g) /\ Leaving(s)
<1> PICK old : /\ old = handling[s] /\ old.pc = Pc(s)
               /\ HandlerShape(s, old) /\ HandlerRecords(s, old) /\ HandlerRows(s, old)
  BY HandlerOf
<1>1. old.pc = "record" /\ Onward(s, old) /\ UNCHANGED <<profile, preferences, facts, summary, published, context>>
  BY DEF RecordBehaviorEvent
<1>2. PICK e : e.of = s /\ behavior' = Append(behavior, e)
  <2> PICK e : e = [of |-> s, at |-> old.at]
    OBVIOUS
  <2>1. e.of = s /\ behavior' = Append(behavior, e)
    BY DEF RecordBehaviorEvent
  <2> QED BY <2>1
<1>3. IsHandler(old) /\ profile /\ ~ IsRecorded(s)
  BY <1>1 DEF HandlerShape, HandlerRecords, Unrecorded
<1>4. PICK g : /\ Becomes(s, g) /\ MovesOn(s, old, g)
               /\ HandlerShape(s, g) /\ HandlerRows(s, g)
  BY <1>1, <1>3, OnwardStep
<1>5. HandlerRows(s, g)'
  BY <1>1, <1>4 DEF HandlerRows, CountsBoth
<1>6. PICK S : behavior \in Seq(S)
  BY DEF ProfileInv, StoredFacts
<1> PICK b : b = behavior'
  OBVIOUS
<1>7. PICK T : b \in Seq(T)
  BY <1>2, <1>6, MomentsStay
<1>8. /\ Len(b) = Len(behavior) + 1 /\ b[Len(behavior) + 1].of = s /\ DOMAIN b = 1..Len(b)
      /\ \A n \in 1..Len(behavior) : SubSeq(b, 1, n) = SubSeq(behavior, 1, n)
  BY <1>2, <1>6, <1>7, MomentsStay, LenProperties
<1>9. Len(behavior) \in Nat
  BY <1>6
<1>10. IsRecorded(s)'
  BY <1>8, <1>9 DEF IsRecorded
<1>11. HandlerRecords(s, g)'
  <2>1. g.pc \in {"prefs", "read"}
    BY <1>1, <1>4 DEF MovesOn, Order
  <2> QED BY <1>1, <1>3, <1>10, <2>1 DEF HandlerRecords, Unrecorded
<1>12. SummaryOfAMoment'
  <2>1. SummaryOfAMoment
    BY DEF ProfileInv, StoredFacts
  <2>2. ASSUME NEW n \in 1..Len(behavior),
               summary = AnalyzeRecentEvents(RecentOf(SubSeq(behavior, 1, n)))
        PROVE  n \in 1..Len(b) /\ summary = AnalyzeRecentEvents(RecentOf(SubSeq(b, 1, n)))
    <3>1. n \in 1..Len(b) /\ SubSeq(b, 1, n) = SubSeq(behavior, 1, n)
      BY <1>8, <1>9
    <3> QED BY <2>2, <3>1, Zenon
  <2> QED BY <1>1, <2>1, <2>2 DEF SummaryOfAMoment
<1>13. Growing /\ Recording(s)
  BY <1>1, <1>2, <1>3, SameRows DEF ProfileInv, StoredFacts, Growing, Recording
<1> QED BY <1>1, <1>3, <1>4, <1>5, <1>11, <1>12, <1>13 DEF Becoming, Leaving

LEMMA GetBehaviorEventsStep ==
    ASSUME ProfileAssumption, ProfileInv, NEW s \in Signals, GetBehaviorEvents(s)
    PROVE  \E g : Becoming(s, g) /\ Leaving(s)
<1> PICK old : /\ old = handling[s] /\ old.pc = Pc(s)
               /\ HandlerShape(s, old) /\ HandlerRecords(s, old) /\ HandlerRows(s, old)
  BY HandlerOf
<1> PICK recent : recent = RecentOf(behavior)
  OBVIOUS
<1>0. PICK h : h = [old EXCEPT !.recent = recent]
  OBVIOUS
<1>1. old.pc = "read" /\ Onward(s, h) /\ UNCHANGED <<rowVars, context>> /\ published' = published
  BY <1>0 DEF GetBehaviorEvents
<1>2. h = [pc |-> old.pc, at |-> old.at, found |-> old.found, todo |-> old.todo, recent |-> recent,
           counts |-> old.counts]
  BY <1>0 DEF HandlerShape, IsHandler
<1>3. IsHandler(h) /\ h.counts = old.counts /\ h.recent = recent
  BY <1>2 DEF IsHandler
<1>4. PICK g : /\ Becomes(s, g) /\ MovesOn(s, old, g) /\ g.recent = h.recent
               /\ HandlerShape(s, g) /\ HandlerRows(s, g)
  BY <1>1, <1>3, OnwardStep DEF Working
<1>5. IsRecorded(s)
  BY <1>1 DEF HandlerRecords, Working
<1>6. OfAMoment(recent)
  <2> PICK S : behavior \in Seq(S)
    BY DEF ProfileInv, StoredFacts
  <2>1. Len(behavior) \in 1..Len(behavior)
    BY <1>5 DEF IsRecorded
  <2>2. SubSeq(behavior, 1, Len(behavior)) = behavior
    OBVIOUS
  <2> QED BY <2>1, <2>2 DEF OfAMoment
<1>7. HandlerRecords(s, g)
  BY <1>1, <1>3, <1>4, <1>6, OnwardRecords
<1> QED BY <1>1, <1>4, <1>7, QuietStep

LEMMA UpdateBehaviourSummaryStep ==
    ASSUME ProfileAssumption, ProfileInv, NEW s \in Signals, UpdateBehaviourSummary(s)
    PROVE  \E g : Becoming(s, g) /\ Leaving(s)
<1> PICK old : /\ old = handling[s] /\ old.pc = Pc(s)
               /\ HandlerShape(s, old) /\ HandlerRecords(s, old) /\ HandlerRows(s, old)
  BY HandlerOf
<1>1. /\ old.pc = "summary" /\ Onward(s, old) /\ summary' = AnalyzeRecentEvents(old.recent)
      /\ UNCHANGED <<profile, preferences, facts, behavior, published, context>>
  BY DEF UpdateBehaviourSummary
<1>2. IsHandler(old) /\ OfAMoment(old.recent)
  BY <1>1 DEF HandlerShape, HandlerRecords
<1>3. PICK g : /\ Becomes(s, g) /\ MovesOn(s, old, g)
               /\ HandlerShape(s, g) /\ HandlerRows(s, g)
  BY <1>1, <1>2, OnwardStep DEF Working
<1>4. g.pc # "summary"
  BY <1>1, <1>3 DEF MovesOn, Order
<1>5. HandlerRecords(s, g)
  BY <1>1, <1>3, <1>4, OnwardRecords
<1>6. HandlerRecords(s, g)' /\ HandlerRows(s, g)'
  BY <1>1, <1>3, <1>5 DEF HandlerRecords, IsRecorded, OfAMoment, HandlerRows, CountsBoth
<1>7. SummaryOfAMoment'
  BY <1>1, <1>2 DEF SummaryOfAMoment, OfAMoment
<1>8. Growing /\ Recording(s) /\ profile' \in BOOLEAN /\ (behavior' # <<>> => profile')
  BY <1>1, SameRows DEF ProfileInv, StoredFacts, Growing, Recording
<1> QED BY <1>1, <1>3, <1>6, <1>7, <1>8 DEF Becoming, Leaving

LEMMA HandlerFailsStep ==
    ASSUME ProfileInv, NEW s \in Signals, HandlerFails(s)
    PROVE  \E g : Becoming(s, g) /\ Leaving(s)
<1>1. Ends(s, "failed") /\ UNCHANGED <<rowVars, context>> /\ published' = published
  BY DEF HandlerFails
<1>2. \E g : Becomes(s, g) /\ HandlerShape(s, g) /\ HandlerRecords(s, g) /\ HandlerRows(s, g)
  BY <1>1, HandlerEnds DEF HandlerEnded
<1> QED BY <1>1, <1>2, QuietStep

LEMMA UpsertsDoneStep ==
    ASSUME ProfileAssumption, ProfileInv, NEW s \in Signals, UpsertsDone(s)
    PROVE  \E g : Becoming(s, g) /\ Leaving(s)
<1> PICK old : /\ old = handling[s] /\ old.pc = Pc(s)
               /\ HandlerShape(s, old) /\ HandlerRecords(s, old) /\ HandlerRows(s, old)
  BY HandlerOf
<1>1. /\ old.pc \in {"prefs", "fact"} /\ old.todo = <<>> /\ Onward(s, old)
      /\ UNCHANGED <<rowVars, context>> /\ published' = published
  BY DEF UpsertsDone
<1>2. PICK g : /\ Becomes(s, g) /\ MovesOn(s, old, g) /\ g.recent = old.recent
               /\ HandlerShape(s, g) /\ HandlerRows(s, g)
  BY <1>1, OnwardStep DEF Working, HandlerShape
<1>3. g.pc # "summary"
  BY <1>1, <1>2 DEF MovesOn, Order
<1>4. HandlerRecords(s, g)
  BY <1>1, <1>2, <1>3, OnwardRecords
<1> QED BY <1>1, <1>2, <1>4, QuietStep

LEMMA LookUpRowStep ==
    ASSUME ProfileInv, NEW s \in Signals, LookUpRow(s)
    PROVE  \E g : Becoming(s, g) /\ Leaving(s)
<1> PICK old : /\ old = handling[s] /\ old.pc = Pc(s)
               /\ HandlerShape(s, old) /\ HandlerRecords(s, old) /\ HandlerRows(s, old)
  BY HandlerOf
<1> PICK found : found = (RowOf(Pc(s), Item(s).key) # {})
  OBVIOUS
<1>0. PICK g : g = [old EXCEPT !.pc = IF @ = "prefs" THEN "writePref" ELSE "writeFact", !.found = found]
  OBVIOUS
<1>1. /\ old.pc \in {"prefs", "fact"} /\ old.todo # <<>> /\ handling' = [handling EXCEPT ![s] = g]
      /\ UNCHANGED <<rowVars, context>> /\ published' = published
  BY <1>0 DEF LookUpRow, Upserting, Sets
<1>2. g = [pc |-> IF old.pc = "prefs" THEN "writePref" ELSE "writeFact", at |-> old.at, found |-> found,
           todo |-> old.todo, recent |-> old.recent, counts |-> old.counts]
  BY <1>0 DEF HandlerShape, IsHandler
<1>3. /\ IsHandler(g) /\ g.todo = old.todo /\ g.counts = old.counts
      /\ g.pc = IF old.pc = "prefs" THEN "writePref" ELSE "writeFact"
  BY <1>2 DEF IsHandler
<1>4. BaseOf(g.pc) = old.pc /\ BaseOf(old.pc) = old.pc
  BY <1>1, <1>3 DEF BaseOf
<1>5. HandlerShape(s, g)
  <2>1. Planned(s, BaseOf(g.pc)) /\ (\E S : g.todo \in Seq(S)) /\ g.pc \in Writing
    BY <1>1, <1>3, <1>4 DEF HandlerShape, Working, Writing
  <2>2. g.counts = <<>> /\ (g.pc = "writeFact" => SignalOf[s].type = "document_view")
    BY <1>1, <1>3 DEF HandlerShape
  <2> QED BY <1>1, <1>3, <2>1, <2>2 DEF HandlerShape, Writing
<1>6. HandlerRecords(s, g)
  BY <1>1, <1>3 DEF HandlerRecords, Working, Writing, Unrecorded
<1>7. HandlerRows(s, g)
  BY <1>1, <1>3 DEF HandlerRows, Working
<1> QED BY <1>1, <1>3, <1>5, <1>6, <1>7, QuietStep DEF Becomes

LEMMA PublishPreferenceStep ==
    ASSUME ProfileInv, NEW s \in Signals, PublishPreference(s)
    PROVE  \E g : Becoming(s, g) /\ Leaving(s)
<1> PICK old : /\ old = handling[s] /\ old.pc = Pc(s)
               /\ HandlerShape(s, old) /\ HandlerRecords(s, old) /\ HandlerRows(s, old)
  BY HandlerOf
<1>0. PICK g : g = [old EXCEPT !.pc = "prefs", !.todo = Tail(@)]
  OBVIOUS
<1>1. /\ old.pc = "detected" /\ handling' = [handling EXCEPT ![s] = g]
      /\ published' = published \cup {[type |-> "preference", of |-> s, row |-> Head(old.todo)]}
      /\ UNCHANGED <<rowVars, context>>
  BY <1>0 DEF PublishPreference, Sets, Item
<1>2. g = [pc |-> "prefs", at |-> old.at, found |-> old.found, todo |-> Tail(old.todo),
           recent |-> old.recent, counts |-> old.counts]
  BY <1>0 DEF HandlerShape, IsHandler
<1>3. IsHandler(g) /\ g.pc = "prefs" /\ g.todo = Tail(old.todo) /\ g.counts = old.counts
  BY <1>2 DEF IsHandler
<1>4. HasKey(preferences, Head(old.todo).key) /\ preferences # {}
  BY <1>1 DEF HandlerRows, HasKey
<1>5. HandlerShape(s, g)
  <2> PICK S : old.todo \in Seq(S)
    BY <1>1 DEF HandlerShape, Writing
  <2>1. Planned(s, "prefs") /\ old.todo # <<>> /\ old.counts = <<>>
    BY <1>1 DEF HandlerShape, Writing, BaseOf
  <2>2. Tail(old.todo) \in Seq(S)
    BY <2>1, TailElements
  <2>3. BaseOf(g.pc) = "prefs" /\ g.pc \in Working \ Writing
    BY <1>3 DEF BaseOf, Working, Writing
  <2> QED BY <1>3, <2>1, <2>2, <2>3 DEF HandlerShape
<1>6. HandlerRecords(s, g)
  BY <1>1, <1>3 DEF HandlerRecords, Working, Writing, Unrecorded
<1>7. HandlerRows(s, g)
  BY <1>3, <1>4 DEF HandlerRows, Working
<1>8. ASSUME NEW e \in published' PROVE e \in published \/ IsTrue(e)
  BY <1>1, <1>4 DEF IsTrue
<1> QED BY <1>1, <1>3, <1>5, <1>6, <1>7, <1>8, QuietStep DEF Becomes

LEMMA TwoCounts ==
    ASSUME NEW one, NEW n, NEW m, one = <<n>>
    PROVE  Len(Append(one, m)) = 2 /\ Append(one, m)[1] = n /\ Append(one, m)[2] = m
<1>1. one \in Seq({n, m}) /\ m \in {n, m} /\ Len(one) = 1 /\ one[1] = n
  OBVIOUS
<1>2. Len(Append(one, m)) = 2 /\ Append(one, m)[1] = n /\ Append(one, m)[2] = m
  BY <1>1, AppendProperties
<1> QED BY <1>2

LEMMA CountRowsStep ==
    ASSUME ProfileAssumption, ProfileInv, NEW s \in Signals, CountRows(s)
    PROVE  \E g : Becoming(s, g) /\ Leaving(s)
<1> PICK old : /\ old = handling[s] /\ old.pc = Pc(s)
               /\ HandlerShape(s, old) /\ HandlerRecords(s, old) /\ HandlerRows(s, old)
  BY HandlerOf
<1> PICK counts : counts = Append(old.counts, Cardinality(IF old.counts = <<>> THEN preferences ELSE facts))
  OBVIOUS
<1>0. PICK h : h = [old EXCEPT !.counts = counts]
  OBVIOUS
<1>1. /\ old.pc = "count" /\ UNCHANGED <<rowVars, context>> /\ published' = published
      /\ IF Len(h.counts) = 2 THEN Onward(s, h) ELSE handling' = [handling EXCEPT ![s] = h]
  BY <1>0 DEF CountRows, Sets
<1>2. h = [pc |-> old.pc, at |-> old.at, found |-> old.found, todo |-> old.todo, recent |-> old.recent,
           counts |-> counts]
  BY <1>0 DEF HandlerShape, IsHandler
<1>3. IsHandler(h) /\ h.pc = old.pc /\ h.todo = old.todo /\ h.recent = old.recent /\ h.counts = counts
  BY <1>2 DEF IsHandler
<1>4. /\ Counts(s, Cardinality(preferences), HasPreferences(s), preferences)
      /\ Counts(s, Cardinality(facts), HasFacts(s), facts)
  <2>1. Cardinality(preferences) \in Nat /\ (preferences # {} => Cardinality(preferences) >= 1)
    BY SameRows DEF ProfileInv, StoredFacts
  <2>2. Cardinality(facts) \in Nat /\ (facts # {} => Cardinality(facts) >= 1)
    BY SameRows DEF ProfileInv, StoredFacts
  <2>3. (HasPreferences(s) => preferences # {}) /\ (HasFacts(s) => facts # {})
    BY <1>1 DEF HandlerRows, Working
  <2> QED BY <2>1, <2>2, <2>3 DEF Counts
<1>5. CASE old.counts = <<>>
  <2> PICK n : n = Cardinality(preferences)
    OBVIOUS
  <2>1. counts = <<n>>
    BY <1>5
  <2>2. handling' = [handling EXCEPT ![s] = h]
    BY <1>1, <1>3, <2>1
  <2>3. HandlerShape(s, h) /\ HandlerRecords(s, h)
    BY <1>1, <1>3 DEF HandlerShape, HandlerRecords
  <2>4. HandlerRows(s, h)
    <3>1. \E m : h.counts = <<m>> /\ Counts(s, m, HasPreferences(s), preferences)
      BY <1>3, <1>4, <2>1
    <3> QED BY <1>1, <1>3, <3>1 DEF HandlerRows
  <2> QED BY <1>1, <1>3, <2>2, <2>3, <2>4, QuietStep DEF Becomes
<1>6. CASE old.counts # <<>>
  <2>1. PICK n : old.counts = <<n>> /\ Counts(s, n, HasPreferences(s), preferences)
    BY <1>1, <1>6 DEF HandlerRows
  <2> PICK m : m = Cardinality(facts)
    OBVIOUS
  <2>2. counts = Append(old.counts, m)
    BY <1>6
  <2>3. Len(counts) = 2 /\ counts[1] = n /\ counts[2] = m
    BY <2>1, <2>2, TwoCounts
  <2>4. CountsBoth(s, h.counts)
    BY <1>3, <1>4, <2>1, <2>3 DEF CountsBoth
  <2>5. PICK g : /\ Becomes(s, g) /\ MovesOn(s, old, g) /\ HandlerShape(s, g) /\ HandlerRows(s, g)
    BY <1>1, <1>3, <2>3, <2>4, OnwardStep DEF Working
  <2>6. g.pc # "summary"
    BY <1>1, <2>5 DEF MovesOn, Order
  <2>7. HandlerRecords(s, g)
    BY <1>1, <2>5, <2>6, OnwardRecords
  <2> QED BY <1>1, <2>5, <2>7, QuietStep
<1> QED BY <1>5, <1>6

LEMMA PublishProfileUpdatedStep ==
    ASSUME ProfileInv, NEW s \in Signals, PublishProfileUpdated(s)
    PROVE  \E g : Becoming(s, g) /\ Leaving(s)
<1> PICK old : /\ old = handling[s] /\ old.pc = Pc(s)
               /\ HandlerShape(s, old) /\ HandlerRecords(s, old) /\ HandlerRows(s, old)
  BY HandlerOf
<1> PICK changed : changed = {SignalOf[s].type} \cup Patterns(old.recent)
  OBVIOUS
<1> PICK news : news = [type |-> "updated", of |-> s, counts |-> old.counts, changed |-> changed]
  OBVIOUS
<1>1. /\ old.pc = "update" /\ Ends(s, "done") /\ UNCHANGED <<rowVars, context>>
      /\ published' = published \cup {news}
  BY DEF PublishProfileUpdated
<1>2. profile /\ IsRecorded(s) /\ CountsBoth(s, old.counts)
  BY <1>1 DEF HandlerRecords, HandlerRows, Working
<1>3. \E g : Becomes(s, g) /\ HandlerShape(s, g) /\ HandlerRecords(s, g) /\ HandlerRows(s, g)
  BY <1>1, <1>2, HandlerEnds DEF HandlerEnded
<1>4. news.type = "updated" /\ news.of = s /\ news.counts = old.counts
  OBVIOUS
<1>5. IsTrue(news)
  BY <1>2, <1>4 DEF IsTrue
<1> QED BY <1>1, <1>3, <1>5, QuietStep

(* The handler after it has stored a row: it announces it or goes on.       *)
Written(s, old, stage, row) ==
    IF IsAnnounced(s, row) THEN [old EXCEPT !.pc = "detected"] ELSE [old EXCEPT !.pc = stage, !.todo = Tail(@)]

LEMMA AfterWriting ==
    ASSUME NEW s, NEW old, HandlerShape(s, old), old.pc \in {"writePref", "writeFact"},
           NEW stage, stage = IF old.pc = "writePref" THEN "prefs" ELSE "fact",
           NEW row, row = Head(old.todo)
    PROVE  \E g : /\ g = Written(s, old, stage, row)
                  /\ HandlerShape(s, g)
                  /\ \/ g.pc = "detected" /\ g.todo = old.todo /\ old.pc = "writePref"
                     \/ g.pc = stage
<1>1. /\ IsHandler(old) /\ old.todo # <<>> /\ old.counts = <<>> /\ Planned(s, BaseOf(old.pc))
      /\ \E S : old.todo \in Seq(S)
      /\ old.pc = "writeFact" => SignalOf[s].type = "document_view"
  BY DEF HandlerShape, Writing
<1>2. CASE IsAnnounced(s, row)
  <2> PICK g : g = [old EXCEPT !.pc = "detected"]
    OBVIOUS
  <2>1. g = [pc |-> "detected", at |-> old.at, found |-> old.found, todo |-> old.todo,
             recent |-> old.recent, counts |-> old.counts]
    BY <1>1 DEF IsHandler
  <2>2. IsHandler(g) /\ g.pc = "detected" /\ g.todo = old.todo /\ g.counts = <<>>
    BY <1>1, <2>1 DEF IsHandler
  <2>3. old.pc = "writePref"
    BY <1>1, <1>2 DEF IsAnnounced
  <2>4. HandlerShape(s, g)
    BY <1>1, <2>2, <2>3 DEF HandlerShape, Writing, BaseOf
  <2>5. g = Written(s, old, stage, row)
    BY <1>2 DEF Written
  <2> QED BY <2>2, <2>3, <2>4, <2>5
<1>3. CASE ~ IsAnnounced(s, row)
  <2> PICK g : g = [old EXCEPT !.pc = stage, !.todo = Tail(@)]
    OBVIOUS
  <2>1. g = [pc |-> stage, at |-> old.at, found |-> old.found, todo |-> Tail(old.todo),
             recent |-> old.recent, counts |-> old.counts]
    BY <1>1 DEF IsHandler
  <2>2. IsHandler(g) /\ g.pc = stage /\ g.todo = Tail(old.todo) /\ g.counts = <<>>
    BY <1>1, <2>1 DEF IsHandler
  <2>3. \E S : g.todo \in Seq(S)
    BY <1>1, <2>2, TailElements
  <2>4. stage = BaseOf(old.pc) /\ BaseOf(stage) = stage /\ stage \in Working \ Writing
    BY DEF BaseOf, Working, Writing
  <2>5. g.pc = "fact" => SignalOf[s].type = "document_view"
    BY <1>1, <2>2
  <2>6. HandlerShape(s, g)
    BY <1>1, <2>2, <2>3, <2>4, <2>5 DEF HandlerShape
  <2>7. g = Written(s, old, stage, row)
    BY <1>3 DEF Written
  <2> QED BY <2>2, <2>6, <2>7
<1> QED BY <1>2, <1>3

LEMMA WriteRowStep ==
    ASSUME ProfileInv, NEW s \in Signals, WriteRow(s)
    PROVE  \E g : Becoming(s, g) /\ Leaving(s)
<1> PICK old : /\ old = handling[s] /\ old.pc = Pc(s)
               /\ HandlerShape(s, old) /\ HandlerRecords(s, old) /\ HandlerRows(s, old)
  BY HandlerOf
<1> PICK stage, row : /\ stage = IF old.pc = "writePref" THEN "prefs" ELSE "fact"
                     /\ row = Head(old.todo)
  OBVIOUS
<1>1. /\ old.pc \in {"writePref", "writeFact"} /\ Item(s) = row
      /\ UNCHANGED <<profile, behavior, summary, published, context>>
  BY DEF WriteRow, Item
<1>2. profile /\ IsRecorded(s)
  BY <1>1 DEF HandlerRecords, Writing
<1>3. CASE ~ old.found /\ RowOf(stage, row.key) # {}
  <2>1. Ends(s, "conflict") /\ UNCHANGED <<rowVars, context>> /\ published' = published
    BY <1>1, <1>3 DEF WriteRow, rowVars
  <2>2. \E g : Becomes(s, g) /\ HandlerShape(s, g) /\ HandlerRecords(s, g) /\ HandlerRows(s, g)
    BY <1>2, <2>1, HandlerEnds DEF HandlerEnded
  <2> QED BY <2>1, <2>2, QuietStep
<1>4. CASE ~ (~ old.found /\ RowOf(stage, row.key) # {})
  <2>1. PICK g : /\ g = Written(s, old, stage, row)
                 /\ HandlerShape(s, g)
                 /\ \/ g.pc = "detected" /\ g.todo = old.todo /\ old.pc = "writePref"
                    \/ g.pc = stage
    BY <1>1, AfterWriting
  <2>2. StoreRow(stage, row) /\ Becomes(s, g)
    BY <1>1, <1>4, <2>1 DEF WriteRow, Sets, Becomes, HandlerShape, Written
  <2>3. Keyed(preferences) /\ Keyed(facts)
    BY DEF ProfileInv, StoredFacts
  <2>4. /\ Grown(preferences, preferences') /\ Grown(facts, facts')
        /\ stage = "prefs" => row \in preferences'
        /\ stage = "fact" => row \in facts' /\ preferences' = preferences
    <3>1. CASE old.pc = "writePref"
      <4>1. preferences' = Stored(preferences, row) /\ facts' = facts
        BY <2>2, <3>1 DEF StoreRow, RowOf, Rows, Stored
      <4> QED BY <2>3, <3>1, <4>1, RowsGrow, SameRows
    <3>2. CASE old.pc = "writeFact"
      <4>1. facts' = Stored(facts, row) /\ preferences' = preferences
        BY <2>2, <3>2 DEF StoreRow, RowOf, Rows, Stored
      <4> QED BY <2>3, <3>2, <4>1, RowsGrow, SameRows
    <3> QED BY <1>1, <3>1, <3>2
  <2>5. HandlerRecords(s, g)'
    BY <1>1, <1>2, <2>1 DEF HandlerRecords, IsRecorded, Unrecorded
  <2>6. HandlerRows(s, g)'
    <3>1. CASE g.pc = "detected" /\ g.todo = old.todo /\ old.pc = "writePref"
      <4>1. HasKey(preferences', Head(g.todo).key)
        BY <2>4, <3>1 DEF HasKey
      <4> QED BY <3>1, <4>1 DEF HandlerRows, Working
    <3>2. CASE g.pc = "prefs" /\ stage = "prefs"
      BY <2>4, <3>2 DEF HandlerRows, Working
    <3>3. CASE g.pc = "fact" /\ stage = "fact"
      <4>1. HasPreferences(s) => preferences' # {}
        BY <1>1, <2>4, <3>3 DEF HandlerRows
      <4> QED BY <2>4, <3>3, <4>1 DEF HandlerRows
    <3> QED BY <1>1, <2>1, <3>1, <3>2, <3>3
  <2>7. SummaryOfAMoment' /\ profile' \in BOOLEAN /\ (behavior' # <<>> => profile')
    BY <1>1 DEF ProfileInv, StoredFacts, SummaryOfAMoment
  <2>8. Growing /\ Recording(s)
    BY <1>1, <2>4 DEF Growing, Recording
  <2> QED BY <1>1, <2>1, <2>2, <2>5, <2>6, <2>7, <2>8 DEF Becoming, Leaving
<1> QED BY <1>3, <1>4

-----------------------------------------------------------------------------
(* A reader of the context.                                                 *)
LEMMA NoPositions == DOMAIN <<>> = {}
  OBVIOUS

LEMMA GetProfileStep == ASSUME ProfileInv, GetProfile PROVE ContextFacts'
<1> PICK promised, pc : /\ promised = {e.counts : e \in {e \in published : e.type = "updated"}}
                        /\ pc = IF profile THEN "reading" ELSE "not found"
  OBVIOUS
<1>0. PICK c : c = [context EXCEPT !.pc = pc, !.promised = promised]
  OBVIOUS
<1>1. context.pc = "none" /\ context' = c /\ UNCHANGED <<preferences, facts>>
  BY <1>0 DEF GetProfile, rowVars
<1>2. IsContext(context) /\ context.read = <<>>
  BY <1>1 DEF ProfileInv, ContextFacts
<1>3. c = [pc |-> pc, promised |-> promised, read |-> context.read]
  BY <1>0, <1>2 DEF IsContext
<1>4. IsContext(c) /\ c.pc = pc /\ c.promised = promised /\ c.read = <<>>
  BY <1>2, <1>3 DEF IsContext
<1>5. ASSUME NEW n \in promised
      PROVE  /\ profile
             /\ n[1] \in Nat /\ n[1] <= Cardinality(preferences)
             /\ n[2] \in Nat /\ n[2] <= Cardinality(facts)
  <2>1. PICK e \in published : e.type = "updated" /\ n = e.counts
    OBVIOUS
  <2>2. profile /\ CountsBoth(e.of, n)
    BY <2>1 DEF ProfileInv, PublishedFacts, IsTrue
  <2> QED BY <2>2 DEF CountsBoth, Counts
<1>6. DOMAIN c.read = {}
  BY <1>4, NoPositions
<1>7. promised # {} => pc = "reading"
  BY <1>5
<1>8. pc \in {"reading", "not found"}
  OBVIOUS
<1> QED BY <1>1, <1>4, <1>5, <1>6, <1>7, <1>8 DEF ContextFacts

LEMMA GetRowsStep ==
    ASSUME ProfileInv, NEW stage \in {"prefs", "fact"}, GetRows(stage)
    PROVE  ContextFacts'
<1> PICK rows, old : rows = Rows(stage) /\ old = context.read
  OBVIOUS
<1> PICK read : read = [x \in DOMAIN old \cup {stage} |-> IF x = stage THEN rows ELSE old[x]]
  OBVIOUS
<1> PICK pc : pc = IF old = <<>> THEN "reading" ELSE "answered"
  OBVIOUS
<1>0. PICK c : c = [context EXCEPT !.read = [x \in DOMAIN @ \cup {stage} |->
                                                 IF x = stage THEN Rows(stage) ELSE @[x]],
                                   !.pc = IF context.read = <<>> THEN @ ELSE "answered"]
  OBVIOUS
<1>1. context.pc = "reading" /\ stage \notin DOMAIN old /\ context' = c /\ UNCHANGED <<preferences, facts>>
  BY <1>0 DEF GetRows, rowVars
<1>2. IsContext(context)
  BY DEF ProfileInv, ContextFacts
<1>3. c = [pc |-> pc, promised |-> context.promised, read |-> read]
  BY <1>0, <1>1, <1>2 DEF IsContext
<1>4. IsContext(c) /\ c.pc = pc /\ c.promised = context.promised /\ c.read = read
  BY <1>3 DEF IsContext
<1>5. /\ DOMAIN read = DOMAIN old \cup {stage} /\ read[stage] = rows
      /\ \A x \in DOMAIN old : read[x] = old[x]
  BY <1>1
<1>6. /\ stage = "prefs" => rows = preferences
      /\ stage = "fact" => rows = facts
  BY DEF Rows
<1>7. old = <<>> \/ \E x \in {"prefs", "fact"} : DOMAIN old = {x}
  BY <1>1 DEF ProfileInv, ContextFacts
<1>8. /\ pc = "reading" => DOMAIN read = {stage}
      /\ pc = "answered" => DOMAIN read = {"prefs", "fact"}
  BY <1>1, <1>5, <1>7, NoPositions
<1>9. ASSUME NEW n \in context.promised
      PROVE  /\ n[1] \in Nat /\ n[1] <= Cardinality(preferences)
             /\ n[2] \in Nat /\ n[2] <= Cardinality(facts)
             /\ "prefs" \in DOMAIN read => n[1] <= Cardinality(read["prefs"])
             /\ "fact" \in DOMAIN read => n[2] <= Cardinality(read["fact"])
  <2>1. /\ n[1] \in Nat /\ n[1] <= Cardinality(preferences)
        /\ n[2] \in Nat /\ n[2] <= Cardinality(facts)
        /\ "prefs" \in DOMAIN old => n[1] <= Cardinality(old["prefs"])
        /\ "fact" \in DOMAIN old => n[2] <= Cardinality(old["fact"])
    BY DEF ProfileInv, ContextFacts
  <2> QED BY <1>5, <1>6, <2>1
<1>10. pc \in {"reading", "answered"}
  OBVIOUS
<1> QED BY <1>1, <1>4, <1>8, <1>9, <1>10 DEF ContextFacts

LEMMA ReadersKeepTheRest ==
    ASSUME ProfileInv, UNCHANGED <<rowVars, handling, published>>, ContextFacts'
    PROVE  ProfileInv'
<1>1. UNCHANGED <<profile, preferences, facts, behavior, summary, handling, published>>
  BY DEF rowVars
<1>2. StoredFacts'
  BY <1>1 DEF ProfileInv, StoredFacts, SummaryOfAMoment
<1>3. HandlersFacts'
  BY <1>1 DEF ProfileInv, HandlersFacts, HandlerShape, HandlerRecords, HandlerRows, IsRecorded, OfAMoment,
              CountsBoth
<1>4. PublishedFacts'
  BY <1>1 DEF ProfileInv, PublishedFacts, IsTrue, CountsBoth
<1> QED BY <1>2, <1>3, <1>4 DEF ProfileInv

LEMMA ProfileInitially == ASSUME ProfileInit PROVE ProfileInv
<1>1. IsFiniteSet({})
  BY FS_EmptySet
<1> PICK none : none = <<>>
  OBVIOUS
<1>2. StoredFacts
  <2>1. behavior \in Seq({}) /\ DOMAIN behavior = {}
    BY DEF ProfileInit
  <2> QED BY <1>1, <2>1 DEF ProfileInit, StoredFacts, Keyed, SummaryOfAMoment
<1>3. HandlersFacts
  <2> PICK h : h = [pc |-> "waiting", at |-> 0, found |-> FALSE, todo |-> none, recent |-> none,
                    counts |-> none]
    OBVIOUS
  <2>1. IsHandler(h) /\ h.pc = "waiting" /\ h.counts = none
    BY DEF IsHandler
  <2>2. handling = [s \in Signals |-> h]
    BY DEF ProfileInit, NoHandler
  <2>3. ASSUME NEW s \in Signals PROVE HandlerShape(s, h) /\ HandlerRecords(s, h) /\ HandlerRows(s, h)
    <3>1. ~ IsRecorded(s)
      BY DEF ProfileInit, IsRecorded
    <3> QED BY <2>1, <3>1 DEF HandlerShape, HandlerRecords, HandlerRows, Unrecorded, Working, Writing,
                             HandlerEnded
  <2> QED BY <2>2, <2>3 DEF HandlersFacts
<1>4. PublishedFacts
  BY DEF ProfileInit, PublishedFacts
<1>5. ContextFacts
  BY DEF ProfileInit, NoContext, ContextFacts, IsContext
<1> QED BY <1>2, <1>3, <1>4, <1>5 DEF ProfileInv

-----------------------------------------------------------------------------
(* In every reachable state of ProfileMemory: rows with keys of their own,  *)
(* one event of a signal, a summary of some moment, and what each handler   *)
(* has stored and counted by its stage.                                     *)
THEOREM ProfileInvariant == ProfileSpec => []ProfileInv
<1>1. ProfileInit => ProfileInv
  BY ProfileInitially
<1>2. ProfileInv /\ [ProfileNext]_profileVars => ProfileInv'
  <2> SUFFICES ASSUME ProfileInv, [ProfileNext]_profileVars PROVE ProfileInv'
    OBVIOUS
  <2>1. ASSUME NEW s \in Signals,
               \/ LookUpProfile(s) \/ InsertProfile(s) \/ RecordBehaviorEvent(s)
               \/ GetBehaviorEvents(s) \/ UpdateBehaviourSummary(s)
               \/ LookUpRow(s) \/ WriteRow(s) \/ PublishPreference(s) \/ UpsertsDone(s)
               \/ CountRows(s) \/ PublishProfileUpdated(s) \/ HandlerFails(s)
        PROVE  ProfileInv'
    <3>1. \E g : Becoming(s, g) /\ Leaving(s)
      BY <2>1, ProfileConstants, LookUpProfileStep, InsertProfileStep, RecordBehaviorEventStep,
         GetBehaviorEventsStep, UpdateBehaviourSummaryStep, LookUpRowStep, WriteRowStep,
         PublishPreferenceStep, UpsertsDoneStep, CountRowsStep, PublishProfileUpdatedStep,
         HandlerFailsStep
    <3> QED BY <3>1, TurnKeepsInvariant
  <2>2. CASE GetProfile
    BY <2>2, GetProfileStep, ReadersKeepTheRest DEF GetProfile
  <2>3. ASSUME NEW stage \in {"prefs", "fact"}, GetRows(stage) PROVE ProfileInv'
    BY <2>3, GetRowsStep, ReadersKeepTheRest DEF GetRows
  <2>4. CASE UNCHANGED profileVars
    <3>1. UNCHANGED <<rowVars, handling, published, context>>
      BY <2>4 DEF profileVars
    <3>2. UNCHANGED <<preferences, facts>>
      BY <3>1 DEF rowVars
    <3>3. ContextFacts'
      BY <3>1, <3>2 DEF ProfileInv, ContextFacts
    <3> QED BY <3>1, <3>3, ReadersKeepTheRest
  <2> QED BY <2>1, <2>2, <2>3, <2>4 DEF ProfileNext
<1> QED BY <1>1, <1>2, PTL DEF ProfileSpec

(* However the handlers of a user's signals overlap and fail (the queue's   *)
(* worker, processSignal): none is recorded twice, each that completes is   *)
(* recorded, and one that loses the race for a row finds the profile there. *)
THEOREM SignalsAreRecordedOnce == ProfileSpec => []SignalsRecordedOnce
<1>1. ProfileInv => SignalsRecordedOnce
  <2> SUFFICES ASSUME ProfileInv PROVE SignalsRecordedOnce
    OBVIOUS
  <2>1. ASSUME NEW s \in Signals
        PROVE  /\ Cardinality({i \in DOMAIN behavior : behavior[i].of = s}) <= 1
               /\ Pc(s) = "done" => Cardinality({i \in DOMAIN behavior : behavior[i].of = s}) = 1
    <3> PICK T : T = {i \in DOMAIN behavior : behavior[i].of = s}
      OBVIOUS
    <3>1. \A i, j \in T : i = j
      BY DEF ProfileInv, StoredFacts
    <3>2. Pc(s) = "done" => T # {}
      BY HandlerOf DEF HandlerRecords, IsRecorded
    <3>3. T # {} => Cardinality(T) = 1
      <4> SUFFICES ASSUME NEW i \in T PROVE Cardinality(T) = 1
        OBVIOUS
      <4>1. T = {i}
        BY <3>1
      <4> QED BY <4>1, FS_Singleton
    <3>4. T = {} => Cardinality(T) = 0
      BY FS_EmptySet
    <3> QED BY <3>2, <3>3, <3>4
  <2>2. ASSUME NEW s \in Signals, Pc(s) = "conflict" PROVE profile
    BY <2>2, HandlerOf DEF HandlerRecords
  <2>3. behavior # <<>> => profile
    BY DEF ProfileInv, StoredFacts
  <2> QED BY <2>1, <2>2, <2>3 DEF SignalsRecordedOnce
<1> QED BY <1>1, ProfileInvariant, PTL

(* What is stored of a user and what is said of it fit: the summary is that *)
(* of a moment's events, and who has heard of an update reads no fewer rows *)
(* than it counted, its signal's own among them.                            *)
THEOREM ProfilesAreConsistent == ProfileSpec => []ProfileIsConsistent
<1>1. ProfileInv => ProfileIsConsistent
  <2> SUFFICES ASSUME ProfileInv PROVE ProfileIsConsistent
    OBVIOUS
  <2>1. SummaryOfAMoment
    BY DEF ProfileInv, StoredFacts
  <2>2. context.promised # {} => context.pc # "not found"
    BY DEF ProfileInv, ContextFacts
  <2>3. ASSUME context.pc = "answered", NEW c \in context.promised
        PROVE  /\ c[1] <= Cardinality(context.read["prefs"])
               /\ c[2] <= Cardinality(context.read["fact"])
    BY <2>3 DEF ProfileInv, ContextFacts
  <2>4. ASSUME NEW e \in published
        PROVE  /\ e.type = "preference" => RowOf("prefs", e.row.key) # {}
               /\ e.type = "updated" =>
                     /\ ~ FromRecentSearches(e.of) /\ PreferencesOf(e.of, <<>>) # {} => e.counts[1] >= 1
                     /\ FactsOf(e.of) # {} => e.counts[2] >= 1
    <3>1. IsTrue(e)
      BY DEF ProfileInv, PublishedFacts
    <3>2. e.type = "preference" => RowOf("prefs", e.row.key) # {}
      BY <3>1 DEF IsTrue, HasKey, RowOf, Rows
    <3> QED BY <3>1, <3>2 DEF IsTrue, CountsBoth, Counts, HasPreferences, HasFacts
  <2> QED BY <2>1, <2>2, <2>3, <2>4 DEF ProfileIsConsistent, UpdatesAreCounted
<1> QED BY <1>1, ProfileInvariant, PTL

-----------------------------------------------------------------------------
(* What is inferred of a user, or set by it, has a confidence in its range:  *)
(* a share of the hits is cut off at the limit of its kind.                  *)
HasConfidence(row) == row.confidence \in 0..1000

ShareOf(n, whole, limit) == Least((n * 1000) \div whole, limit)

LEMMA Shares ==
    ASSUME NEW n, NEW whole, NEW limit, n \in Nat, whole \in Nat \ {0}, limit \in 0..1000
    PROVE  ShareOf(n, whole, limit) \in 0..1000
<1> PICK m : m = n * 1000
  OBVIOUS
<1>1. m \in Nat
  OBVIOUS
<1>2. m \div whole \in Nat
  BY <1>1
<1> QED BY <1>2 DEF Least, ShareOf

LEMMA LeaningHasConfidence ==
    ASSUME NEW words, NEW key, NEW options, NEW enough, NEW whole, NEW limit \in 0..1000,
           \A o \in options : /\ Hits(words, o) \in Nat
                              /\ Hits(words, o) >= enough => whole \in Nat \ {0}
    PROVE  \A r \in Leaning(words, key, options, enough, whole, limit) : HasConfidence(r)
<1> SUFFICES ASSUME NEW r \in Leaning(words, key, options, enough, whole, limit) PROVE HasConfidence(r)
  OBVIOUS
<1>1. PICK o \in options : /\ Hits(words, o) >= enough
                           /\ r = Pref(key, o, "inferred", ShareOf(Hits(words, o), whole, limit))
  BY DEF Leaning, ShareOf
<1>2. r.confidence = ShareOf(Hits(words, o), whole, limit)
  BY <1>1 DEF Pref
<1>3. Hits(words, o) \in Nat /\ whole \in Nat \ {0}
  BY <1>1
<1>4. ShareOf(Hits(words, o), whole, limit) \in 0..1000
  BY <1>3, Shares
<1> QED BY <1>2, <1>4 DEF HasConfidence

LEMMA HitsAreCounted ==
    ASSUME ProfileAssumption, NEW words, NEW list \in {"concise", "detailed", "id", "en"}
    PROVE  Hits(words, list) \in Nat
<1>1. IsFiniteSet(words \cap Indicators[list])
  BY FS_Intersection DEF ProfileAssumption
<1> QED BY <1>1, FS_CardinalityType DEF Hits

LEMMA SearchesHaveConfidence ==
    ASSUME ProfileAssumption, NEW queries, Len(queries) \in Nat, queries # <<>> => Len(queries) # 0
    PROVE  \A r \in AnalyzeSearchQueries(queries) : HasConfidence(r)
<1> DEFINE words == UNION Range(queries)
           domains == UNION {DomainsOf[w] : w \in words \cap DOMAIN DomainsOf}
           interest == Pref("domain_interests", domains, "inferred", 600)
           A == Leaning(words, "response_style", {"concise", "detailed"}, 2, Len(queries), 900)
           B == Leaning(words, "language", {"id", "en"}, 3, LanguageHits(words), 950)
           C == When(domains # {}, {interest})
<1>1. AnalyzeSearchQueries(queries) = (IF queries = <<>> THEN {} ELSE A \cup B \cup C)
  BY DEF AnalyzeSearchQueries
<1>2. \A list \in {"concise", "detailed", "id", "en"} : Hits(words, list) \in Nat
  BY HitsAreCounted
<1>3. queries # <<>> => \A r \in A : HasConfidence(r)
  <2> HIDE DEF words
  <2> QED BY SMTT(30), <1>2, LeaningHasConfidence
<1>4. \A r \in B : HasConfidence(r)
  <2>1. \A list \in {"id", "en"} : Hits(words, list) >= 3 => LanguageHits(words) \in Nat \ {0}
    BY <1>2 DEF LanguageHits
  <2> HIDE DEF words
  <2> QED BY SMTT(30), <1>2, <2>1, LeaningHasConfidence
<1>5. \A r \in C : HasConfidence(r)
  <2>1. interest.confidence = 600
    BY DEF Pref
  <2> HIDE DEF interest
  <2> QED BY <2>1 DEF When, HasConfidence
<1> HIDE DEF A, B, C
<1> QED BY <1>1, <1>3, <1>4, <1>5

LEMMA PreferencesHaveConfidence ==
    ASSUME ProfileAssumption, NEW s \in Signals, NEW recent, \E S : recent \in Seq(S)
    PROVE  \A r \in PreferencesOf(s, recent) : HasConfidence(r)
<1>1. SignalOf[s].type = "search" => \A r \in AnalyzeSearchQueries(QueriesOf(s, recent)) : HasConfidence(r)
  <2> PICK q : q = QueriesOf(s, recent)
    OBVIOUS
  <2>1. Len(q) \in Nat /\ (q # <<>> => Len(q) # 0)
    <3> DEFINE searches == SelectSeq(recent, LAMBDA r : SignalOf[r].type = "search")
    <3>1. Len(searches) \in Nat
      OBVIOUS
    <3> HIDE DEF searches
    <3>2. CASE SignalOf[s].via = "http"
      <4>1. q = <<SignalOf[s].words>>
        BY <3>2 DEF QueriesOf
      <4> QED BY <4>1
    <3>3. CASE SignalOf[s].via # "http" /\ Len(searches) < 3
      <4>1. q = <<>>
        BY <3>3 DEF QueriesOf, searches
      <4> QED BY <4>1
    <3>4. CASE SignalOf[s].via # "http" /\ ~(Len(searches) < 3)
      <4>1. q = [i \in 1..Len(searches) |-> SignalOf[searches[i]].words]
        BY <3>4 DEF QueriesOf, searches
      <4>2. PICK n \in Nat : n = Len(searches) /\ n # 0
        BY <3>1, <3>4
      <4>3. Len(q) = n
        BY <4>1, <4>2
      <4> QED BY <4>2, <4>3
    <3> QED BY <3>1, <3>2, <3>3, <3>4
  <2> QED BY <2>1, SearchesHaveConfidence
<1>2. ASSUME NEW e, NEW r \in AnalyzeFeedback(e) PROVE HasConfidence(r)
  <2>1. r = Pref("response_style", "concise", "inferred", 750)
    BY <1>2, Zenon DEF AnalyzeFeedback
  <2>2. r.confidence = 750
    BY <2>1 DEF Pref
  <2> QED BY <2>2 DEF HasConfidence
<1>3. ASSUME NEW settings, NEW r \in AnalyzeExplicitSettings(settings) PROVE HasConfidence(r)
  <2>1. PICK p \in settings : r = Pref(p[1], p[2], "explicit", 1000)
    BY <1>3 DEF AnalyzeExplicitSettings
  <2>2. r.confidence = 1000
    BY <2>1 DEF Pref
  <2> QED BY <2>2 DEF HasConfidence
<1> QED BY <1>1, <1>2, <1>3, Zenon DEF PreferencesOf

LEMMA FactsHaveConfidence == \A s : \A r \in FactsOf(s) : HasConfidence(r)
  BY DEF FactsOf, When, Pref, HasConfidence

(* What a handler has left to upsert has confidences, and the events it has  *)
(* read are a list.                                                          *)
HandlerData(h) ==
    /\ \E S : h.todo \in Seq(S) /\ \A row \in S : HasConfidence(row)
    /\ \E S : h.recent \in Seq(S)
HandlesSignal(s) == \E g : handling' = [handling EXCEPT ![s] = g] /\ HandlerData(g)
IsNews(e) == e.type \in {"updated", "preference"} /\ e.of \in Signals

ProfileData ==
    /\ \A r \in preferences \cup facts : HasConfidence(r)
    /\ \A s \in Signals : HandlerData(handling[s])
    /\ \A e \in published : IsNews(e)
    /\ profileFaults \in 0..MaxProfileFaults

LEMMA HandlerMoves ==
    ASSUME ProfileInv, ProfileData, NEW s \in Signals, HandlesSignal(s)
    PROVE  \A r \in Signals : HandlerData(handling'[r])
<1>1. PICK g : handling' = [handling EXCEPT ![s] = g] /\ HandlerData(g)
  BY DEF HandlesSignal
<1>2. handling = [r \in Signals |-> handling[r]]
  BY DEF ProfileInv, HandlersFacts
<1>3. handling'[s] = g /\ \A r \in Signals \ {s} : handling'[r] = handling[r]
  BY <1>1, <1>2
<1> QED BY <1>1, <1>3 DEF ProfileData

LEMMA EndData ==
    ASSUME NEW s, NEW pc, Ends(s, pc)
    PROVE  HandlesSignal(s)
<1> PICK at, none : at = handling[s].at /\ none = <<>>
  OBVIOUS
<1>0. PICK g : g = [NoHandler EXCEPT !.pc = pc, !.at = at]
  OBVIOUS
<1>1. g = [pc |-> pc, at |-> at, found |-> FALSE, todo |-> none, recent |-> none, counts |-> none]
  BY <1>0 DEF NoHandler
<1>2. g.todo = none /\ g.recent = none
  BY <1>1
<1>3. none \in Seq({})
  OBVIOUS
<1>4. HandlerData(g)
  <2> PICK S : S = {}
    OBVIOUS
  <2>1. g.todo \in Seq(S) /\ g.recent \in Seq(S) /\ \A row \in S : HasConfidence(row)
    BY <1>2, <1>3
  <2> QED BY <2>1 DEF HandlerData
<1>5. handling' = [handling EXCEPT ![s] = g]
  BY <1>0 DEF Ends, Sets
<1> QED BY <1>4, <1>5 DEF HandlesSignal

LEMMA OnwardData ==
    ASSUME ProfileAssumption, NEW s \in Signals, NEW h, IsHandler(h), \E S : h.recent \in Seq(S),
           Onward(s, h)
    PROVE  HandlesSignal(s)
<1> PICK stage, items : /\ stage = NextStage(s)
                        /\ items = IF stage = "prefs" THEN PreferencesOf(s, h.recent)
                                   ELSE IF stage = "fact" THEN FactsOf(s) ELSE {}
  OBVIOUS
<1> PICK g : g = [h EXCEPT !.pc = stage, !.todo = SetToSeq(items), !.found = FALSE]
  OBVIOUS
<1>1. handling' = [handling EXCEPT ![s] = g]
  BY DEF Onward, Sets
<1>2. g = [pc |-> stage, at |-> h.at, found |-> FALSE, todo |-> SetToSeq(items), recent |-> h.recent,
           counts |-> h.counts]
  BY DEF IsHandler
<1>3. g.todo = SetToSeq(items) /\ g.recent = h.recent
  BY <1>2
<1>4. SetToSeq(items) \in Seq(items)
  <2>1. IsFiniteSet(items)
    BY OfSignal, FS_EmptySet
  <2> QED BY <2>1, SetAsSequence
<1>5. \A row \in items : HasConfidence(row)
  <2> PICK recent : recent = h.recent
    OBVIOUS
  <2>1. \A row \in PreferencesOf(s, recent) : HasConfidence(row)
    BY PreferencesHaveConfidence
  <2> QED BY <2>1, FactsHaveConfidence
<1> QED BY <1>1, <1>3, <1>4, <1>5 DEF HandlesSignal, HandlerData

(* A step of a handler that stores no row.                                   *)
LEMMA HandlerSteps ==
    ASSUME ProfileAssumption, ProfileInv, ProfileData, NEW s \in Signals,
           \/ LookUpProfile(s) \/ InsertProfile(s) \/ RecordBehaviorEvent(s)
           \/ GetBehaviorEvents(s) \/ UpdateBehaviourSummary(s)
           \/ LookUpRow(s) \/ UpsertsDone(s) \/ CountRows(s) \/ HandlerFails(s)
    PROVE  HandlesSignal(s)
<1> PICK old : /\ old = handling[s] /\ old.pc = Pc(s)
               /\ HandlerShape(s, old) /\ HandlerRecords(s, old) /\ HandlerRows(s, old)
  BY HandlerOf
<1>1. IsHandler(old) /\ HandlerData(old)
  BY DEF HandlerShape, ProfileData
<1>2. \A h : IsHandler(h) /\ h.recent = old.recent /\ Onward(s, h) => HandlesSignal(s)
  BY <1>1, OnwardData DEF HandlerData
<1>3. \A h : h.todo = old.todo /\ h.recent = old.recent /\ handling' = [handling EXCEPT ![s] = h] => HandlesSignal(s)
  BY <1>1 DEF HandlesSignal, HandlerData
<1>4. \A pc : Ends(s, pc) => HandlesSignal(s)
  BY EndData
<1>5. CASE LookUpProfile(s) \/ (InsertProfile(s) /\ ~ profile)
  <2> PICK now : now = Max({handling[r].at : r \in Signals}) + 1
    OBVIOUS
  <2>1. PICK g : g \in {[old EXCEPT !.pc = "record", !.at = now], [old EXCEPT !.pc = "profile"]}
                 /\ handling' = [handling EXCEPT ![s] = g]
    BY <1>5, Zenon DEF LookUpProfile, InsertProfile, Sets, Stamped
  <2>2. g.todo = old.todo /\ g.recent = old.recent
    BY <1>1, <2>1 DEF IsHandler
  <2> QED BY <1>3, <2>1, <2>2
<1>6. CASE (InsertProfile(s) /\ profile) \/ HandlerFails(s)
  BY <1>4, <1>6 DEF InsertProfile, HandlerFails
<1>7. CASE RecordBehaviorEvent(s) \/ UpdateBehaviourSummary(s) \/ UpsertsDone(s)
  BY <1>1, <1>2, <1>7 DEF RecordBehaviorEvent, UpdateBehaviourSummary, UpsertsDone
<1>8. CASE GetBehaviorEvents(s)
  <2> PICK recent : recent = RecentOf(behavior)
    OBVIOUS
  <2>0. PICK h : h = [old EXCEPT !.recent = recent]
    OBVIOUS
  <2>1. h = [pc |-> old.pc, at |-> old.at, found |-> old.found, todo |-> old.todo, recent |-> recent,
             counts |-> old.counts]
    BY <1>1, <2>0 DEF IsHandler
  <2>2. IsHandler(h) /\ h.recent = recent
    BY <2>1 DEF IsHandler
  <2>3. \E S : recent \in Seq(S)
    <3>1. PICK T : behavior \in Seq(T)
      BY DEF ProfileInv, StoredFacts
    <3>2. PICK n \in Nat : n = Least(Len(behavior), RecentLimit)
      BY <3>1 DEF Least, ProfileAssumption
    <3> DEFINE newest == SortSeq(behavior, LAMBDA a, b : a.at > b.at)
               of(i) == newest[i].of
               S == {of(i) : i \in 1..n}
    <3>3. recent = [i \in 1..n |-> of(i)]
      BY <3>2 DEF RecentOf
    <3> HIDE DEF of
    <3>4. recent \in Seq(S)
      BY <3>3
    <3> QED BY <3>4
  <2>4. Onward(s, h)
    BY <1>8, <2>0 DEF GetBehaviorEvents
  <2> QED BY <2>2, <2>3, <2>4, OnwardData
<1>9. CASE LookUpRow(s)
  <2> PICK found : found = (RowOf(Pc(s), Item(s).key) # {})
    OBVIOUS
  <2>0. PICK g : g = [old EXCEPT !.pc = IF @ = "prefs" THEN "writePref" ELSE "writeFact", !.found = found]
    OBVIOUS
  <2>1. handling' = [handling EXCEPT ![s] = g]
    BY <1>9, <2>0 DEF LookUpRow, Sets
  <2>2. g.todo = old.todo /\ g.recent = old.recent
    BY <1>1, <2>0 DEF IsHandler
  <2> QED BY <1>3, <2>1, <2>2
<1>10. CASE CountRows(s)
  <2> PICK counts : counts = Append(old.counts, Cardinality(IF old.counts = <<>> THEN preferences ELSE facts))
    OBVIOUS
  <2>0. PICK h : h = [old EXCEPT !.counts = counts]
    OBVIOUS
  <2>1. Onward(s, h) \/ handling' = [handling EXCEPT ![s] = h]
    BY <1>10, <2>0 DEF CountRows, Sets
  <2>2. h = [pc |-> old.pc, at |-> old.at, found |-> old.found, todo |-> old.todo, recent |-> old.recent,
             counts |-> counts]
    BY <1>1, <2>0 DEF IsHandler
  <2>3. IsHandler(h) /\ h.todo = old.todo /\ h.recent = old.recent
    BY <2>2 DEF IsHandler
  <2> QED BY <1>2, <1>3, <2>1, <2>3
<1> QED BY <1>5, <1>6, <1>7, <1>8, <1>9, <1>10

LEMMA HandlerTypes ==
    ASSUME ProfileAssumption, ProfileInv, ProfileData, NEW s \in Signals,
           \/ LookUpProfile(s) \/ InsertProfile(s) \/ RecordBehaviorEvent(s)
           \/ GetBehaviorEvents(s) \/ UpdateBehaviourSummary(s)
           \/ LookUpRow(s) \/ UpsertsDone(s) \/ CountRows(s) \/ HandlerFails(s)
    PROVE  ProfileData'
<1>1. \A r \in Signals : HandlerData(handling'[r])
  BY HandlerSteps, HandlerMoves
<1>2. UNCHANGED <<preferences, facts, published>>
  BY DEF LookUpProfile, InsertProfile, RecordBehaviorEvent, GetBehaviorEvents, UpdateBehaviourSummary,
         LookUpRow, UpsertsDone, CountRows, HandlerFails, rowVars
<1>3. profileFaults' \in 0..MaxProfileFaults
  <2>1. CASE HandlerFails(s)
    BY <2>1 DEF HandlerFails, ProfileData, ProfileAssumption
  <2>2. CASE profileFaults' = profileFaults
    BY <2>2 DEF ProfileData
  <2> QED BY <2>1, <2>2 DEF LookUpProfile, InsertProfile, RecordBehaviorEvent, GetBehaviorEvents,
             UpdateBehaviourSummary, LookUpRow, UpsertsDone, CountRows
<1> QED BY <1>1, <1>2, <1>3 DEF ProfileData

(* A row that is stored, and what is published of it.                        *)
LEMMA StoringTypes ==
    ASSUME ProfileAssumption, ProfileInv, ProfileData, NEW s \in Signals,
           WriteRow(s) \/ PublishPreference(s) \/ PublishProfileUpdated(s)
    PROVE  ProfileData'
<1> PICK old : /\ old = handling[s] /\ old.pc = Pc(s)
               /\ HandlerShape(s, old) /\ HandlerRecords(s, old) /\ HandlerRows(s, old)
  BY HandlerOf
<1>1. IsHandler(old) /\ HandlerData(old)
  BY DEF HandlerShape, ProfileData
<1>2. PICK S : old.todo \in Seq(S) /\ \A row \in S : HasConfidence(row)
  BY <1>1 DEF HandlerData
<1>3. old.pc \in Writing => /\ old.todo # <<>> /\ Tail(old.todo) \in Seq(S)
                            /\ HasConfidence(Head(old.todo))
  <2>1. old.pc \in Writing => old.todo # <<>>
    BY DEF HandlerShape
  <2> QED BY <1>2, <2>1, TailElements
<1>4. ASSUME NEW pc, NEW g, g = [old EXCEPT !.pc = pc] \/ (old.pc \in Writing /\ g = [old EXCEPT !.pc = pc, !.todo = Tail(@)]),
             handling' = [handling EXCEPT ![s] = g]
      PROVE  HandlesSignal(s)
  <2>1. g.recent = old.recent /\ g.todo \in {old.todo, Tail(old.todo)} /\ (g.todo = old.todo \/ old.pc \in Writing)
    BY <1>1, <1>4 DEF IsHandler
  <2>2. g.todo \in Seq(S)
    BY <1>2, <1>3, <2>1
  <2>3. HandlerData(g)
    BY <1>1, <1>2, <2>1, <2>2 DEF HandlerData
  <2> QED BY <1>4, <2>3 DEF HandlesSignal
<1>5. CASE WriteRow(s)
  <2> PICK stage, row : /\ stage = IF old.pc = "writePref" THEN "prefs" ELSE "fact"
                       /\ row = Head(old.todo)
    OBVIOUS
  <2>1. /\ old.pc \in Writing /\ Item(s) = row
        /\ published' = published /\ profileFaults' = profileFaults
    BY <1>5 DEF WriteRow, Item, Writing
  <2>2. HasConfidence(row)
    BY <1>3, <2>1
  <2>3. \A r \in preferences' \cup facts' : r \in preferences \cup facts \cup {row}
    BY <1>5, <2>1 DEF WriteRow, StoreRow
  <2>4. HandlesSignal(s)
    <3>1. CASE ~ old.found /\ RowOf(stage, row.key) # {}
      <4>1. Ends(s, "conflict")
        BY <1>5, <2>1, <3>1 DEF WriteRow
      <4> QED BY <4>1, EndData
    <3>2. CASE ~ (~ old.found /\ RowOf(stage, row.key) # {})
      <4>1. PICK g : /\ g \in {[old EXCEPT !.pc = "detected"], [old EXCEPT !.pc = stage, !.todo = Tail(@)]}
                     /\ handling' = [handling EXCEPT ![s] = g]
        BY <1>5, <2>1, <3>2 DEF WriteRow, Sets
      <4> QED BY <1>4, <2>1, <4>1
    <3> QED BY <3>1, <3>2
  <2>5. \A r \in Signals : HandlerData(handling'[r])
    BY <2>4, HandlerMoves
  <2> QED BY <2>1, <2>2, <2>3, <2>5 DEF ProfileData
<1>6. CASE PublishPreference(s)
  <2> PICK news : news = [type |-> "preference", of |-> s, row |-> Item(s)]
    OBVIOUS
  <2>0. PICK g : g = [old EXCEPT !.pc = "prefs", !.todo = Tail(@)]
    OBVIOUS
  <2>1. /\ old.pc \in Writing /\ handling' = [handling EXCEPT ![s] = g]
        /\ published' = published \cup {news}
        /\ UNCHANGED <<preferences, facts, profileFaults>>
    BY <1>6, <2>0 DEF PublishPreference, Sets, Writing, rowVars
  <2>2. IsNews(news)
    BY DEF IsNews
  <2>3. \A r \in Signals : HandlerData(handling'[r])
    BY <1>4, <2>0, <2>1, HandlerMoves
  <2> QED BY <2>1, <2>2, <2>3 DEF ProfileData
<1>7. CASE PublishProfileUpdated(s)
  <2> PICK changed : changed = {SignalOf[s].type} \cup Patterns(old.recent)
    OBVIOUS
  <2> PICK news : news = [type |-> "updated", of |-> s, counts |-> old.counts, changed |-> changed]
    OBVIOUS
  <2>1. /\ Ends(s, "done") /\ published' = published \cup {news}
        /\ UNCHANGED <<preferences, facts, profileFaults>>
    BY <1>7 DEF PublishProfileUpdated, rowVars
  <2>2. IsNews(news)
    BY DEF IsNews
  <2>3. \A r \in Signals : HandlerData(handling'[r])
    BY <2>1, EndData, HandlerMoves
  <2> QED BY <2>1, <2>2, <2>3 DEF ProfileData
<1> QED BY <1>5, <1>6, <1>7

LEMMA ProfileDataInitially == ASSUME ProfileAssumption, ProfileInit PROVE ProfileData
<1> PICK none : none = <<>>
  OBVIOUS
<1>1. \A s \in Signals : handling[s].todo = none /\ handling[s].recent = none
  BY DEF ProfileInit, NoHandler
<1> PICK S : S = {}
  OBVIOUS
<1>2. none \in Seq(S) /\ \A row \in S : HasConfidence(row)
  OBVIOUS
<1>3. \A s \in Signals : HandlerData(handling[s])
  BY <1>1, <1>2 DEF HandlerData
<1> QED BY <1>3 DEF ProfileInit, ProfileData, ProfileAssumption

(* Stored preferences and facts have a confidence between 0 and 1, and what  *)
(* is published is of a signal, for any word lists (profile-repository.ts,   *)
(* preference-tracker.ts).                                                   *)
THEOREM ProfileTypeCorrect == ProfileSpec => []ProfileTypeOK
<1>1. ProfileInit => ProfileData
  BY ProfileConstants, ProfileDataInitially
<1>2. ProfileInv /\ ProfileData /\ [ProfileNext]_profileVars => ProfileData'
  <2> SUFFICES ASSUME ProfileInv, ProfileData, [ProfileNext]_profileVars PROVE ProfileData'
    OBVIOUS
  <2>1. ASSUME NEW s \in Signals,
               \/ LookUpProfile(s) \/ InsertProfile(s) \/ RecordBehaviorEvent(s)
               \/ GetBehaviorEvents(s) \/ UpdateBehaviourSummary(s)
               \/ LookUpRow(s) \/ WriteRow(s) \/ PublishPreference(s) \/ UpsertsDone(s)
               \/ CountRows(s) \/ PublishProfileUpdated(s) \/ HandlerFails(s)
        PROVE  ProfileData'
    BY <2>1, ProfileConstants, HandlerTypes, StoringTypes
  <2>2. CASE GetProfile \/ (\E stage \in {"prefs", "fact"} : GetRows(stage)) \/ UNCHANGED profileVars
    <3>1. UNCHANGED <<rowVars, handling, published, profileFaults>>
      BY <2>2 DEF GetProfile, GetRows, profileVars
    <3> QED BY <3>1 DEF rowVars, ProfileData
  <2> QED BY <2>1, <2>2 DEF ProfileNext
<1>3. ProfileInv /\ ProfileData => ProfileTypeOK
  <2> SUFFICES ASSUME ProfileInv, ProfileData PROVE ProfileTypeOK
    OBVIOUS
  <2>1. \A s \in Signals : Pc(s) \in Unrecorded \cup Working \cup Writing \cup HandlerEnded
    BY DEF ProfileInv, HandlersFacts, HandlerShape, Pc
  <2>2. \A pc \in Unrecorded \cup Working \cup Writing \cup HandlerEnded :
           pc \in {"waiting", "profile", "record", "read", "summary", "prefs", "fact", "writePref",
                  "writeFact", "detected", "count", "update"} \cup HandlerEnded
    BY DEF Unrecorded, Working, Writing
  <2>3. profile \in BOOLEAN
    BY DEF ProfileInv, StoredFacts
  <2> QED BY <2>1, <2>2, <2>3 DEF ProfileData, HasConfidence, IsNews, ProfileTypeOK
<1> QED BY <1>1, <1>2, <1>3, ProfileInvariant, PTL DEF ProfileSpec

-----------------------------------------------------------------------------
(***************************************************************************)
(* Evaluation.  Whether an execution may still settle the run, and which    *)
(* items have a score, is read off the stage it is at.                      *)
(***************************************************************************)
Scored(rows) == {s.item : s \in rows}
ScoresOf(e) == Scored({s \in scores : s.by = e})

IsExecution(x) == x = [pc |-> x.pc, items |-> x.items, batch |-> x.batch, answered |-> x.answered,
                       raced |-> x.raced]
Stages == Executing \cup {"idle", "create", "refused", "skipped", "done", "threw", "gave up", "lost"}

(* The stages of an execution that has not written anything of the run, of  *)
(* one that has stored no score, of one that has them all, and of one that  *)
(* has announced the completion or never will.                              *)
Unstarted == {"idle", "create", "refused", "skipped", "start", "gave up", "lost"}
Scoreless == {"idle", "create", "refused", "skipped", "start", "items", "query", "scores"}
HasScored == {"metrics", "complete", "tell", "report", "done"}
HasTold   == {"report", "done", "catch", "tellFailed", "threw", "gave up", "lost"}

(* The stages of one that will set the status again, or never returned.     *)
Unsettled == {"items", "query", "scores", "metrics", "complete", "catch", "gave up", "lost"}

Admitted(e) == EPc(e) \in Executing \cup {"done", "threw"} \/ ScoresOf(e) # {}

ExecutionTypes ==
    /\ executions = [e \in Executors |-> executions[e]]
    /\ \A e \in Executors : \E x : x = executions[e] /\ IsExecution(x)
    /\ \A e \in Executors : EPc(e) \in Stages
    /\ \A e \in EvalRequests : EPc(e) \notin {"create", "refused"}
    /\ run = [status |-> run.status, metrics |-> run.metrics]
    /\ evalFaults \in Nat

RunFacts ==
    /\ run.status \in {"none", "pending", "running", "completed", "failed"}
    /\ EPc("api") \in {"idle", "create", "refused"} <=> run.status = "none"
    /\ run.status \in {"none", "pending"} => \A e \in Executors : EPc(e) \in Unstarted
    /\ run.status \in {"none", "pending"} => scores = {}
    /\ run.status = "none" => \A e \in Executors : EPc(e) # "start"
    /\ run.status = "running" => \E e \in Executors : EPc(e) \in Unsettled

EventsSettle ==
    /\ evalFaults = 0 /\ run.status = "completed" =>
          \/ \E e \in Executors : EPc(e) = "tell"
          \/ \E ev \in evalHeard : ev.type = "completed"
    /\ evalFaults = 0 /\ run.status = "failed" =>
          \/ \E e \in Executors : EPc(e) = "tellFailed"
          \/ \E ev \in evalHeard : ev.type = "failed"

RacedFacts ==
    \A x, y \in Executors : x # y /\ Admitted(x) /\ Admitted(y) =>
        x \in executions[y].raced \/ y \in executions[x].raced

(* Metrics over the items of an execution, some of those that have a score. *)
MetricsOver(m, items) == m # <<>> /\ m.total_queries = Cardinality(items)
OfScored(m, rows) == \E items \in SUBSET Scored(rows) : MetricsOver(m, items)

ScoreFacts ==
    /\ datasetItems \subseteq EvalItems
    /\ \A e \in Executors : executions[e].items \subseteq EvalItems
    /\ \A s \in scores : s.by \in Executors /\ s.item \in EvalItems
    /\ \A e \in Executors :
          /\ EPc(e) \in Scoreless => ScoresOf(e) = {}
          /\ EPc(e) \in HasScored => ScoresOf(e) = executions[e].items
          /\ EPc(e) \in {"complete", "tell"} => run.metrics # <<>>
    /\ run.status = "completed" => run.metrics # <<>>
    /\ run.metrics # <<>> => OfScored(run.metrics, scores)

HeardFacts ==
    \A ev \in evalHeard : ev.type = "completed" =>
        /\ ev.by \in Executors /\ EPc(ev.by) \in HasTold
        /\ run.metrics # <<>>
        /\ MetricsOver(ev.metrics, ScoresOf(ev.by))

AskedFacts ==
    /\ asked = [pc |-> asked.pc, run |-> asked.run, scores |-> asked.scores]
    /\ asked.pc = "run" /\ asked.run.status = "completed" => OfScored(asked.run.metrics, scores)
    /\ asked.pc = "answered" =>
          /\ \A s \in asked.scores : s.item \in EvalItems
          /\ asked.run.status = "completed" => OfScored(asked.run.metrics, asked.scores)

FeedbackFacts ==
    /\ feedback = [state |-> feedback.state, rows |-> feedback.rows]
    /\ feedback.state = [f \in Feedbacks |-> feedback.state[f]]
    /\ \A f \in Feedbacks : feedback.state[f] = "saved" => f \in feedback.rows
    /\ \A ev \in evalHeard : ev.type = "feedback" => ev.of \in feedback.rows

-----------------------------------------------------------------------------
(* The dataset.  Until a deletion is begun or a call cut off or overtaken,  *)
(* its count is that of the items to be inserted, or of the stored ones, or *)
(* a call has still to count them.                                          *)
DatasetTypes ==
    /\ dataset = [state |-> dataset.state, count |-> dataset.count]
    /\ dataset.state \in {"none", "stored", "deleted"}
    /\ datasetCalls = [c \in DatasetCalls |-> datasetCalls[c]]
    /\ \A c \in DatasetCalls : datasetCalls[c] = [pc |-> datasetCalls[c].pc, items |-> datasetCalls[c].items]

Some(stages) == \E c \in DatasetCalls : datasetCalls[c].pc \in stages

DatasetFacts ==
    /\ datasetItems \subseteq EvalItems
    /\ dataset.state # "stored" => datasetItems = {}
    /\ dataset.state = "none" => \A c \in DatasetCalls : datasetCalls[c].pc = "idle"
    /\ \A c, d \in DatasetCalls : datasetCalls[c].pc = "insert" /\ datasetCalls[d].pc = "insert" => c = d
    /\ \A c \in DatasetCalls : datasetCalls[c].pc = "insert" =>
          datasetCalls[c].items \subseteq EvalItems /\ datasetCalls[c].items # {}
    /\ dataset.state = "stored" /\ ~ Some({"delete", "broken", "overtaken"}) =>
          /\ datasetItems = {} =>
                /\ ~ Some({"recount"})
                /\ ~ Some({"insert"}) => dataset.count = 0
                /\ \A c \in DatasetCalls : datasetCalls[c].pc = "insert" =>
                      dataset.count = Cardinality(datasetCalls[c].items)
          /\ datasetItems # {} =>
                Some({"insert", "recount"}) \/ dataset.count = Cardinality(datasetItems)

EvalInv == ExecutionTypes /\ RunFacts /\ EventsSettle /\ RacedFacts /\ ScoreFacts /\ HeardFacts
           /\ AskedFacts /\ FeedbackFacts /\ DatasetTypes /\ DatasetFacts

-----------------------------------------------------------------------------
(* What the steps of an execution do to the run, its scores and the events, *)
(* by the stages they are between.                                          *)
Marks(status) == run' = [status |-> status, metrics |-> run.metrics]
Measures(items) == \E m : MetricsOver(m, items) /\ run' = [status |-> run.status, metrics |-> m]

Stores(e, items) ==
    \E row : /\ scores' = scores \cup {row[i] : i \in items}
            /\ \A i \in items : row[i].by = e /\ row[i].item = i
Announces(type) == \E ev : ev.type = type /\ evalHeard' = evalHeard \cup {ev}
Completes(e, items) ==
    \E ev : /\ ev.type = "completed" /\ ev.by = e /\ MetricsOver(ev.metrics, items)
           /\ evalHeard' = evalHeard \cup {ev}
Admits(old, new) == new.items = old.items /\ new.raced = {x \in Executors : EPc(x) = "start"}

Same(old, new) == new.items = old.items /\ new.raced = old.raced
Or(new, pc) ==
    \/ new.pc = pc /\ NoEvalFault
    \/ new.pc = "catch" /\ EvalFault

Turn(e, old, new) ==
    \/ /\ old.pc = "idle" /\ e = "api" /\ new.pc \in {"create", "refused"} /\ Same(old, new)
       /\ UNCHANGED <<run, scores, evalHeard, evalFaults>>
    \/ /\ old.pc = "create" /\ e = "api" /\ Same(old, new) /\ UNCHANGED <<scores, evalHeard, evalFaults>>
       /\ \/ new.pc = "start" /\ Marks("pending")
          \/ new.pc = "refused" /\ UNCHANGED run
    \/ /\ old.pc = "idle" /\ e # "api" /\ UNCHANGED <<run, scores, evalHeard, evalFaults>>
       /\ new.pc = IF run.status = "pending" THEN "start" ELSE "skipped"
       /\ Admits(old, new)
    \/ /\ old.pc = "start" /\ Same(old, new) /\ UNCHANGED <<scores, evalHeard>>
       /\ Marks("running")
       /\ \/ new.pc = "items" /\ NoEvalFault
          \/ new.pc = "gave up" /\ EvalFault
    \/ /\ old.pc = "items" /\ new.pc \in {"catch", "query"} /\ new.raced = old.raced
       /\ new.items = datasetItems /\ UNCHANGED <<run, scores, evalHeard, evalFaults>>
    \/ /\ old.pc = "query" /\ new.pc \in {"query", "scores"} /\ Same(old, new)
       /\ UNCHANGED <<run, scores, evalHeard, evalFaults>>
    \/ /\ old.pc = "scores" /\ Same(old, new) /\ UNCHANGED <<run, evalHeard>>
       /\ Stores(e, old.items) /\ Or(new, "metrics")
    \/ /\ old.pc = "metrics" /\ Same(old, new) /\ UNCHANGED <<scores, evalHeard>>
       /\ Measures(old.items) /\ Or(new, "complete")
    \/ /\ old.pc = "complete" /\ Same(old, new) /\ UNCHANGED <<scores, evalHeard>>
       /\ Marks("completed") /\ Or(new, "tell")
    \/ /\ old.pc = "tell" /\ Same(old, new) /\ UNCHANGED <<run, scores>>
       /\ Completes(e, old.items) /\ Or(new, "report")
    \/ /\ old.pc = "report" /\ Same(old, new) /\ UNCHANGED <<run, scores>>
       /\ Announces("report") /\ Or(new, "done")
    \/ /\ old.pc = "catch" /\ Same(old, new) /\ UNCHANGED <<scores, evalHeard>>
       /\ Marks("failed")
       /\ \/ new.pc = "tellFailed" /\ NoEvalFault
          \/ new.pc = "gave up" /\ EvalFault
    \/ /\ old.pc = "tellFailed" /\ new.pc = "threw" /\ Same(old, new)
       /\ Announces("failed") /\ UNCHANGED <<run, scores, evalFaults>>
    \/ /\ old.pc \in Executing /\ Same(old, new) /\ EvalFault /\ UNCHANGED <<run, scores, evalHeard>>
       /\ new.pc = IF old.pc \in {"start", "catch"} THEN "gave up"
                   ELSE IF old.pc = "tellFailed" THEN "threw" ELSE "catch"

Executes(e) ==
    \/ e = "api" /\ (PostRun \/ CreateRun)
    \/ e \in EvalRequests /\ ReceiveRequest(e)
    \/ SetRunStarted(e) \/ GetDatasetItems(e) \/ Search(e) \/ SaveRetrievalScores(e)
    \/ UpdateRunMetrics(e) \/ SetRunCompleted(e) \/ PublishEvaluationCompleted(e)
    \/ PublishRetrievalQualityReported(e) \/ UpdateRunStatusFailed(e)
    \/ PublishEvaluationFailed(e) \/ ExecutionRejects(e)

Turns(e, new) ==
    /\ IsExecution(new) /\ Turn(e, executions[e], new)
    /\ executions' = [executions EXCEPT ![e] = new]
    /\ UNCHANGED <<datasetVars, feedback, asked>>

LEMMA MetricsCountItems ==
    ASSUME NEW e PROVE MetricsOver(MetricsOf(e), executions[e].items)
<1>1. MetricsOf(e).total_queries = Cardinality(executions[e].items)
  BY DEF MetricsOf, AggregatedMetrics
<1>2. DOMAIN MetricsOf(e) # {}
  BY DEF MetricsOf, AggregatedMetrics
<1>3. DOMAIN << >> = {}
  OBVIOUS
<1> QED BY <1>1, <1>2, <1>3 DEF MetricsOver

LEMMA ExecutionsTurn ==
    ASSUME EvalAssumption, ExecutionTypes, NEW e \in Executors, Executes(e)
    PROVE  \E new : Turns(e, new)
<1> PICK old : old = executions[e] /\ IsExecution(old)
  BY DEF ExecutionTypes
<1> USE DEF EPc
<1>m. \A x : /\ [run EXCEPT !.status = x] = [status |-> x, metrics |-> run.metrics]
            /\ [run EXCEPT !.metrics = x] = [status |-> run.status, metrics |-> x]
  <2> PICK r : r = run
    OBVIOUS
  <2>1. r = [status |-> r.status, metrics |-> r.metrics]
    BY DEF ExecutionTypes
  <2>2. \A x : /\ [r EXCEPT !.status = x] = [status |-> x, metrics |-> r.metrics]
              /\ [r EXCEPT !.metrics = x] = [status |-> r.status, metrics |-> x]
    BY <2>1
  <2> QED BY <2>2
<1>k. \A x : run' = [run EXCEPT !.status = x] => Marks(x)
  BY <1>m DEF Marks
<1>v. \A m, items : MetricsOver(m, items) /\ run' = [run EXCEPT !.metrics = m] => Measures(items)
  BY <1>m DEF Measures
<1>g. ASSUME NEW pc, Goes(e, pc)
      PROVE  \E new : /\ new = [old EXCEPT !.pc = pc] /\ IsExecution(new) /\ Same(old, new) /\ new.pc = pc
                      /\ executions' = [executions EXCEPT ![e] = new]
  <2> DEFINE new == [old EXCEPT !.pc = pc]
  <2>1. new = [pc |-> pc, items |-> old.items, batch |-> old.batch, answered |-> old.answered,
               raced |-> old.raced]
    BY DEF IsExecution
  <2>2. IsExecution(new) /\ Same(old, new) /\ new.pc = pc
    BY <2>1 DEF IsExecution, Same
  <2>3. executions' = [executions EXCEPT ![e] = new]
    BY <1>g DEF Goes
  <2> HIDE DEF new
  <2> QED BY <2>2, <2>3 DEF new
<1>o. ASSUME NEW pc, GoesOn(e, pc)
      PROVE  \E new : /\ IsExecution(new) /\ Same(old, new) /\ Or(new, pc)
                      /\ executions' = [executions EXCEPT ![e] = new]
  BY <1>o, <1>g DEF GoesOn, Or
<1>1. CASE e = "api" /\ PostRun
  <2>1. PICK pc : pc \in {"create", "refused"} /\ Goes(e, pc)
    BY <1>1 DEF PostRun
  <2>2. PICK new : /\ IsExecution(new) /\ Same(old, new) /\ new.pc = pc
                   /\ executions' = [executions EXCEPT ![e] = new]
    BY <2>1, <1>g
  <2> QED BY <1>1, <2>1, <2>2 DEF PostRun, Turn, Turns, datasetVars, runVars
<1>2. CASE e = "api" /\ CreateRun
  <2>1. PICK pc : Goes(e, pc) /\ IF pc = "start" THEN Marks("pending")
                                 ELSE pc = "refused" /\ UNCHANGED run
    BY <1>2, <1>k DEF CreateRun
  <2>2. PICK new : /\ IsExecution(new) /\ Same(old, new) /\ new.pc = pc
                   /\ executions' = [executions EXCEPT ![e] = new]
    BY <2>1, <1>g
  <2> QED BY <1>2, <2>1, <2>2 DEF CreateRun, Turn, Turns, datasetVars
<1>3. CASE e \in EvalRequests /\ ReceiveRequest(e)
  <2> PICK pc, raced : /\ pc = IF run.status = "pending" THEN "start" ELSE "skipped"
                       /\ raced = {x \in Executors : EPc(x) = "start"}
    OBVIOUS
  <2>1. PICK new : new = [old EXCEPT !.pc = pc, !.raced = raced]
    OBVIOUS
  <2>2. executions' = [executions EXCEPT ![e] = new]
    BY <1>3, <2>1 DEF ReceiveRequest
  <2>6. new = [pc |-> pc, items |-> old.items, batch |-> old.batch, answered |-> old.answered,
               raced |-> raced]
    BY <2>1 DEF IsExecution
  <2>3. IsExecution(new) /\ new.items = old.items /\ new.pc = pc /\ new.raced = raced
    BY <2>6 DEF IsExecution
  <2>4. e # "api"
    BY <1>3 DEF EvalAssumption
  <2>5. old.pc = "idle" /\ UNCHANGED <<run, scores, evalHeard, evalFaults>>
        /\ UNCHANGED <<datasetVars, feedback, asked>>
    BY <1>3 DEF ReceiveRequest, runVars
  <2> QED BY <2>2, <2>3, <2>4, <2>5 DEF Turn, Turns, Admits
<1>4. CASE SetRunStarted(e)
  <2>1. PICK pc : Goes(e, pc) /\ ((pc = "items" /\ NoEvalFault) \/ (pc = "gave up" /\ EvalFault))
    BY <1>4 DEF SetRunStarted
  <2>2. PICK new : /\ IsExecution(new) /\ Same(old, new) /\ new.pc = pc
                   /\ executions' = [executions EXCEPT ![e] = new]
    BY <2>1, <1>g
  <2>3. Marks("running")
    BY <1>4, <1>k DEF SetRunStarted
  <2> QED BY <1>4, <2>1, <2>2, <2>3 DEF SetRunStarted, Turn, Turns
<1>5. CASE GetDatasetItems(e)
  <2>1. PICK batch : executions' = [executions EXCEPT
                       ![e].pc = IF datasetItems = {} THEN "catch" ELSE "query",
                       ![e].items = datasetItems, ![e].batch = batch]
    BY <1>5 DEF GetDatasetItems
  <2> PICK pc : pc = IF datasetItems = {} THEN "catch" ELSE "query"
    OBVIOUS
  <2>2. PICK new : new = [old EXCEPT !.pc = pc, !.items = datasetItems, !.batch = batch]
    OBVIOUS
  <2>3. executions' = [executions EXCEPT ![e] = new]
    BY <2>1, <2>2
  <2>6. new = [pc |-> pc, items |-> datasetItems, batch |-> batch, answered |-> old.answered,
               raced |-> old.raced]
    BY <2>2 DEF IsExecution
  <2>4. IsExecution(new) /\ new.items = datasetItems /\ new.pc = pc /\ new.raced = old.raced
    BY <2>6 DEF IsExecution
  <2>5. old.pc = "items" /\ UNCHANGED <<run, scores, evalHeard, evalFaults>>
        /\ UNCHANGED <<datasetVars, feedback, asked>>
    BY <1>5 DEF GetDatasetItems, runVars
  <2> QED BY <2>3, <2>4, <2>5 DEF Turn, Turns
<1>6. CASE Search(e)
  <2>1. PICK i, y : /\ y = [old EXCEPT !.answered = @ \cup {i}, !.batch = @ \ {i}]
                   /\ \E batch : executions' = [executions EXCEPT
                         ![e] = [y EXCEPT !.batch = batch,
                                          !.pc = IF y.items \ y.answered = {} THEN "scores" ELSE @]]
    BY <1>6 DEF Search
  <2>2. y = [pc |-> old.pc, items |-> old.items, batch |-> old.batch \ {i},
             answered |-> old.answered \cup {i}, raced |-> old.raced]
    BY <2>1 DEF IsExecution
  <2>3. IsExecution(y) /\ y.pc = old.pc /\ Same(old, y)
    BY <2>2 DEF IsExecution, Same
  <2> PICK pc : pc = IF y.items \ y.answered = {} THEN "scores" ELSE y.pc
    OBVIOUS
  <2>r. PICK batch : executions' = [executions EXCEPT
            ![e] = [y EXCEPT !.batch = batch,
                             !.pc = IF y.items \ y.answered = {} THEN "scores" ELSE @]]
    BY <2>1
  <2>s. PICK new : new = [y EXCEPT !.batch = batch,
                                   !.pc = IF y.items \ y.answered = {} THEN "scores" ELSE @]
    OBVIOUS
  <2>4. /\ pc \in {"scores", y.pc} /\ new = [y EXCEPT !.batch = batch, !.pc = pc]
        /\ executions' = [executions EXCEPT ![e] = new]
    BY <2>r, <2>s
  <2>5. old.pc = "query" /\ UNCHANGED <<run, scores, evalHeard, evalFaults>>
        /\ UNCHANGED <<datasetVars, feedback, asked>>
    BY <1>6 DEF Search, runVars
  <2>6. new = [pc |-> pc, items |-> y.items, batch |-> batch, answered |-> y.answered,
               raced |-> y.raced]
    BY <2>3, <2>4 DEF IsExecution
  <2>7. IsExecution(new) /\ new.pc = pc /\ Same(old, new)
    BY <2>3, <2>6 DEF IsExecution, Same
  <2> QED BY <2>3, <2>4, <2>5, <2>7 DEF Turn, Turns
<1>7. CASE SaveRetrievalScores(e)
  <2>1. PICK new : /\ IsExecution(new) /\ Same(old, new) /\ Or(new, "metrics")
                   /\ executions' = [executions EXCEPT ![e] = new]
    BY <1>7, <1>o DEF SaveRetrievalScores
  <2> DEFINE row == [i \in old.items |->
               [by |-> e, item |-> i,
                precision |-> PrecisionAtK(RetrievedDocuments[i], RelevantAsRead(i), TopK),
                recall |-> RecallAtK(RetrievedDocuments[i], RelevantAsRead(i), TopK)]]
  <2>2. scores' = scores \cup {row[i] : i \in old.items}
    BY <1>7 DEF SaveRetrievalScores
  <2>3. \A i \in old.items : row[i].by = e /\ row[i].item = i
    OBVIOUS
  <2>4. Stores(e, old.items)
    <3> HIDE DEF row
    <3> QED BY <2>2, <2>3 DEF Stores
  <2> QED BY <1>7, <2>1, <2>4 DEF SaveRetrievalScores, Turn, Turns
<1>8. CASE UpdateRunMetrics(e)
  <2>1. PICK new : /\ IsExecution(new) /\ Same(old, new) /\ Or(new, "complete")
                   /\ executions' = [executions EXCEPT ![e] = new]
    BY <1>8, <1>o DEF UpdateRunMetrics
  <2>2. Measures(old.items)
    BY <1>8, <1>v, MetricsCountItems DEF UpdateRunMetrics
  <2> QED BY <1>8, <2>1, <2>2 DEF UpdateRunMetrics, Turn, Turns
<1>9. CASE SetRunCompleted(e)
  <2>1. PICK new : /\ IsExecution(new) /\ Same(old, new) /\ Or(new, "tell")
                   /\ executions' = [executions EXCEPT ![e] = new]
    BY <1>9, <1>o DEF SetRunCompleted
  <2>2. Marks("completed")
    BY <1>9, <1>k DEF SetRunCompleted
  <2> QED BY <1>9, <2>1, <2>2 DEF SetRunCompleted, Turn, Turns
<1>10. CASE PublishEvaluationCompleted(e)
  <2>1. PICK new : /\ IsExecution(new) /\ Same(old, new) /\ Or(new, "report")
                   /\ executions' = [executions EXCEPT ![e] = new]
    BY <1>10, <1>o DEF PublishEvaluationCompleted
  <2>2. Completes(e, old.items)
    <3>1. PICK ev : ev = [type |-> "completed", by |-> e, metrics |-> MetricsOf(e)]
      OBVIOUS
    <3>2. ev.type = "completed" /\ ev.by = e /\ ev.metrics = MetricsOf(e)
      BY <3>1
    <3>3. evalHeard' = evalHeard \cup {ev}
      BY <3>1, <1>10 DEF PublishEvaluationCompleted
    <3> QED BY <3>2, <3>3, MetricsCountItems DEF Completes
  <2> QED BY <1>10, <2>1, <2>2 DEF PublishEvaluationCompleted, Turn, Turns, runVars
<1>11. CASE PublishRetrievalQualityReported(e)
  <2>1. PICK new : /\ IsExecution(new) /\ Same(old, new) /\ Or(new, "done")
                   /\ executions' = [executions EXCEPT ![e] = new]
    BY <1>11, <1>o DEF PublishRetrievalQualityReported
  <2>2. Announces("report")
    <3>1. PICK risk, quality, advice :
              evalHeard' = evalHeard \cup {[type |-> "report", by |-> e, risk |-> risk,
                                            quality |-> quality, advice |-> advice]}
      BY <1>11 DEF PublishRetrievalQualityReported
    <3> QED BY <3>1 DEF Announces
  <2> QED BY <1>11, <2>1, <2>2 DEF PublishRetrievalQualityReported, Turn, Turns, runVars
<1>12. CASE UpdateRunStatusFailed(e)
  <2>1. PICK pc : Goes(e, pc) /\ ((pc = "tellFailed" /\ NoEvalFault) \/ (pc = "gave up" /\ EvalFault))
    BY <1>12 DEF UpdateRunStatusFailed
  <2>2. PICK new : /\ IsExecution(new) /\ Same(old, new) /\ new.pc = pc
                   /\ executions' = [executions EXCEPT ![e] = new]
    BY <2>1, <1>g
  <2>3. Marks("failed")
    BY <1>12, <1>k DEF UpdateRunStatusFailed
  <2> QED BY <1>12, <2>1, <2>2, <2>3 DEF UpdateRunStatusFailed, Turn, Turns
<1>13. CASE PublishEvaluationFailed(e)
  <2>1. PICK new : /\ IsExecution(new) /\ Same(old, new) /\ new.pc = "threw"
                   /\ executions' = [executions EXCEPT ![e] = new]
    BY <1>13, <1>g DEF PublishEvaluationFailed
  <2>2. Announces("failed")
    BY <1>13 DEF PublishEvaluationFailed, Announces
  <2> QED BY <1>13, <2>1, <2>2 DEF PublishEvaluationFailed, Turn, Turns, runVars
<1>14. CASE ExecutionRejects(e)
  <2>1. PICK pc : Goes(e, pc) /\ pc = IF EPc(e) \in {"start", "catch"} THEN "gave up"
                                      ELSE IF EPc(e) = "tellFailed" THEN "threw" ELSE "catch"
    BY <1>14 DEF ExecutionRejects
  <2>2. PICK new : /\ IsExecution(new) /\ Same(old, new) /\ new.pc = pc
                   /\ executions' = [executions EXCEPT ![e] = new]
    BY <2>1, <1>g
  <2> QED BY <1>14, <2>1, <2>2 DEF ExecutionRejects, Turn, Turns, runVars
<1> QED BY <1>1, <1>2, <1>3, <1>4, <1>5, <1>6, <1>7, <1>8, <1>9, <1>10, <1>11, <1>12, <1>13, <1>14
     DEF Executes

-----------------------------------------------------------------------------
(* What each part of the invariant owes to a turn.                          *)
LEMMA TurnTypes ==
    ASSUME EvalAssumption, ExecutionTypes, NEW e \in Executors, NEW new, Turns(e, new)
    PROVE  /\ ExecutionTypes'
           /\ executions'[e] = new
           /\ \A x \in Executors \ {e} : executions'[x] = executions[x]
<1> PICK old : old = executions[e]
  OBVIOUS
<1>t. Turn(e, old, new) /\ IsExecution(new)
  BY DEF Turns
<1>1. executions'[e] = new /\ \A x \in Executors \ {e} : executions'[x] = executions[x]
  BY DEF Turns, ExecutionTypes
<1>2. executions' = [x \in Executors |-> executions'[x]]
  BY DEF Turns, ExecutionTypes
<1>3. \A x \in Executors : \E y : y = executions'[x] /\ IsExecution(y)
  BY <1>1 DEF Turns, ExecutionTypes
<1>4. /\ new.pc \in Stages
      /\ e \in EvalRequests => new.pc \notin {"create", "refused"}
  BY <1>t DEF Turn, Or, Stages, Executing, EvalAssumption
<1>5. evalFaults' \in Nat
  <2>1. UNCHANGED evalFaults \/ NoEvalFault \/ EvalFault
    BY <1>t DEF Turn, Or
  <2> QED BY <2>1 DEF EvalFault, NoEvalFault, ExecutionTypes
<1>6. run' = [status |-> run'.status, metrics |-> run'.metrics]
  <2>1. UNCHANGED run \/ Measures(old.items) \/ \E s : Marks(s)
    BY <1>t DEF Turn
  <2>2. ASSUME NEW s, Marks(s) PROVE run' = [status |-> run'.status, metrics |-> run'.metrics]
    BY <2>2 DEF Marks
  <2>3. ASSUME Measures(old.items) PROVE run' = [status |-> run'.status, metrics |-> run'.metrics]
    BY <2>3 DEF Measures
  <2>4. UNCHANGED run => run' = [status |-> run'.status, metrics |-> run'.metrics]
    BY DEF ExecutionTypes
  <2> QED BY <2>1, <2>2, <2>3, <2>4
<1>7. \A x \in Executors : /\ executions'[x].pc \in Stages
                           /\ x \in EvalRequests => executions'[x].pc \notin {"create", "refused"}
  BY <1>1, <1>4 DEF ExecutionTypes, EPc
<1>8. EvalRequests \subseteq Executors
  BY DEF Executors
<1> HIDE DEF Turns
<1> QED BY <1>1, <1>2, <1>3, <1>5, <1>6, <1>7, <1>8 DEF ExecutionTypes, EPc

(* By its stages, a turn leaves the run alone, marks it or measures it.     *)
LEMMA TurnOfRun ==
    ASSUME ExecutionTypes, NEW e, NEW old, NEW new, Turn(e, old, new)
    PROVE  /\ \/ run'.status = run.status
              \/ old.pc = "create" /\ new.pc = "start" /\ run'.status = "pending"
              \/ old.pc = "start" /\ new.pc \in {"items", "gave up"} /\ run'.status = "running"
              \/ old.pc = "complete" /\ new.pc \in {"tell", "catch"} /\ run'.status = "completed"
              \/ old.pc = "catch" /\ new.pc \in {"tellFailed", "gave up"} /\ run'.status = "failed"
           /\ \/ run'.metrics = run.metrics
              \/ old.pc = "metrics" /\ MetricsOver(run'.metrics, old.items)
<1> DEFINE Status ==
      \/ run'.status = run.status
      \/ old.pc = "create" /\ new.pc = "start" /\ run'.status = "pending"
      \/ old.pc = "start" /\ new.pc \in {"items", "gave up"} /\ run'.status = "running"
      \/ old.pc = "complete" /\ new.pc \in {"tell", "catch"} /\ run'.status = "completed"
      \/ old.pc = "catch" /\ new.pc \in {"tellFailed", "gave up"} /\ run'.status = "failed"
<1>1. ASSUME NEW s, Marks(s) PROVE run'.status = s /\ run'.metrics = run.metrics
  BY <1>1 DEF Marks
<1>2. ASSUME NEW items, Measures(items)
      PROVE  run'.status = run.status /\ MetricsOver(run'.metrics, items)
  BY <1>2 DEF Measures
<1>3. Status
  BY <1>1, <1>2 DEF Turn, Or
<1>4. run'.metrics = run.metrics \/ (old.pc = "metrics" /\ MetricsOver(run'.metrics, old.items))
  BY <1>1, <1>2 DEF Turn, Or
<1> QED BY <1>3, <1>4

LEMMA TurnRun ==
    ASSUME EvalAssumption, ExecutionTypes, RunFacts, ScoreFacts,
           NEW e \in Executors, NEW new, Turns(e, new)
    PROVE  RunFacts'
<1> PICK old : old = executions[e]
  OBVIOUS
<1>t. Turn(e, old, new) /\ old.pc = EPc(e)
  BY DEF Turns, EPc
<1>1. executions'[e] = new /\ \A x \in Executors \ {e} : executions'[x] = executions[x]
  BY TurnTypes
<1>2. \A x \in Executors : executions'[x].pc = IF x = e THEN new.pc ELSE EPc(x)
  BY <1>1 DEF EPc
<1>3. /\ \/ run'.status = run.status
         \/ old.pc = "create" /\ new.pc = "start" /\ run'.status = "pending"
         \/ old.pc = "start" /\ new.pc \in {"items", "gave up"} /\ run'.status = "running"
         \/ old.pc = "complete" /\ new.pc \in {"tell", "catch"} /\ run'.status = "completed"
         \/ old.pc = "catch" /\ new.pc \in {"tellFailed", "gave up"} /\ run'.status = "failed"
  BY <1>t, TurnOfRun
<1>4. /\ old.pc # "scores" => UNCHANGED scores
      /\ old.pc = "create" => e = "api" /\ new.pc \in {"start", "refused"}
      /\ (old.pc = "create" /\ new.pc = "start" => Marks("pending"))
      /\ (old.pc = "start" => Marks("running") \/ new.pc = "gave up")
      /\ (old.pc = "idle" /\ e = "api") => new.pc \in {"create", "refused"}
      /\ (old.pc = "idle" /\ e # "api") => new.pc = (IF run.status = "pending" THEN "start" ELSE "skipped")
      /\ old.pc \in Executing \cup {"idle", "create"}
      /\ old.pc \in Executing => new.pc \in (Executing \ {"start"}) \cup {"done", "threw", "gave up"}
      /\ old.pc \in Unsettled => new.pc \in Unsettled \/ (old.pc = "complete" /\ Marks("completed"))
                                \/ (old.pc = "catch" /\ Marks("failed"))
  BY <1>t DEF Turn, Or, Executing, Unsettled
<1>5. \A s : Marks(s) => run'.status = s
  BY DEF Marks
<1>6. run'.status \in {"none", "pending", "running", "completed", "failed"}
  BY <1>3 DEF RunFacts
<1>7. "api" \in Executors /\ \A x \in Executors : x # "api" => x \in EvalRequests
  BY DEF Executors
<1>8. executions'["api"].pc \in {"idle", "create", "refused"} <=> run'.status = "none"
  <2>1. run.status # "none" => run'.status # "none"
    BY <1>3
  <2>2. CASE e = "api" /\ old.pc \in Executing
    BY <2>1, <2>2, <1>2, <1>4, <1>7, <1>t DEF RunFacts, Executing
  <2>3. CASE e = "api" /\ old.pc \in {"idle", "create"}
    BY <2>3, <1>2, <1>3, <1>4, <1>5, <1>7, <1>t DEF RunFacts
  <2>4. CASE e # "api"
    <3>1. executions'["api"].pc = EPc("api") /\ old.pc # "create"
      BY <2>4, <1>2, <1>4, <1>7
    <3>2. run.status = "none" => old.pc \notin {"start", "complete", "catch"}
      BY <1>t DEF RunFacts, Unstarted
    <3> QED BY <3>1, <3>2, <1>3 DEF RunFacts
  <2> QED BY <2>2, <2>3, <2>4, <1>4
<1>9. run'.status \in {"none", "pending"} =>
        /\ \A x \in Executors : executions'[x].pc \in Unstarted
        /\ scores' = {}
  <2> HAVE run'.status \in {"none", "pending"}
  <2>1. run.status \in {"none", "pending"}
    BY <1>3, <1>4, <1>t DEF RunFacts
  <2>2. old.pc \in Unstarted \cap {"idle", "create", "start"}
    BY <2>1, <1>4, <1>t DEF RunFacts, Unstarted, Executing
  <2>3. new.pc \in Unstarted /\ UNCHANGED scores
    BY <2>2, <1>4, <1>5 DEF Unstarted
  <2> QED BY <2>1, <2>3, <1>2 DEF RunFacts
<1>10. run'.status = "none" => \A x \in Executors : executions'[x].pc # "start"
  <2> HAVE run'.status = "none"
  <2>1. run.status = "none"
    BY <1>3 DEF RunFacts
  <2>2. new.pc # "start"
    BY <2>1, <1>4, <1>5
  <2> QED BY <2>1, <2>2, <1>2 DEF RunFacts
<1>11. run'.status = "running" => \E x \in Executors : executions'[x].pc \in Unsettled
  <2> HAVE run'.status = "running"
  <2>1. CASE run.status = "running"
    <3>1. PICK x \in Executors : EPc(x) \in Unsettled
      BY <2>1 DEF RunFacts
    <3>2. CASE x = e
      BY <3>1, <3>2, <1>2, <1>4, <1>5, <1>t
    <3>3. CASE x # e
      BY <3>1, <3>3, <1>2
    <3> QED BY <3>2, <3>3
  <2>2. CASE run.status # "running"
    <3>1. new.pc \in Unsettled
      BY <2>2, <1>3 DEF Unsettled
    <3> QED BY <3>1, <1>2
  <2> QED BY <2>1, <2>2
<1> QED BY <1>6, <1>8, <1>9, <1>10, <1>11 DEF RunFacts, EPc

LEMMA TurnEvents ==
    ASSUME EvalAssumption, ExecutionTypes, EventsSettle,
           NEW e \in Executors, NEW new, Turns(e, new)
    PROVE  EventsSettle'
<1> PICK old : old = executions[e]
  OBVIOUS
<1>t. Turn(e, old, new) /\ old.pc = EPc(e)
  BY DEF Turns, EPc
<1>1. executions'[e] = new /\ \A x \in Executors \ {e} : executions'[x] = executions[x]
  BY TurnTypes
<1>2. \A x \in Executors : executions'[x].pc = IF x = e THEN new.pc ELSE EPc(x)
  BY <1>1 DEF EPc
<1>3. EvalFault => evalFaults' # 0
  BY DEF EvalFault, ExecutionTypes
<1>4. evalFaults' = 0 => evalFaults = 0
  <2>1. UNCHANGED evalFaults \/ NoEvalFault \/ EvalFault
    BY <1>t DEF Turn, Or
  <2> QED BY <2>1, <1>3 DEF NoEvalFault
<1>5. evalFaults' = 0 => run'.status = run.status \/ (run'.status = "completed" /\ new.pc = "tell")
                         \/ (run'.status = "failed" /\ new.pc = "tellFailed")
                         \/ run'.status \notin {"completed", "failed"}
  <2>1. evalFaults' = 0 => /\ old.pc = "complete" => new.pc = "tell"
                           /\ old.pc = "catch" => new.pc = "tellFailed"
    BY <1>t, <1>3 DEF Turn, Or
  <2>2. \/ run'.status = run.status
        \/ old.pc = "create" /\ new.pc = "start" /\ run'.status = "pending"
        \/ old.pc = "start" /\ new.pc \in {"items", "gave up"} /\ run'.status = "running"
        \/ old.pc = "complete" /\ new.pc \in {"tell", "catch"} /\ run'.status = "completed"
        \/ old.pc = "catch" /\ new.pc \in {"tellFailed", "gave up"} /\ run'.status = "failed"
    BY <1>t, TurnOfRun
  <2> QED BY <2>1, <2>2
<1>6. evalFaults' = 0 =>
        /\ old.pc = "tell" => Completes(e, old.items)
        /\ old.pc = "tellFailed" => Announces("failed")
  BY <1>t, <1>3 DEF Turn, Or
<1>7. evalHeard \subseteq evalHeard'
  BY <1>t DEF Turn, Or, Completes, Announces
<1>8. ASSUME evalFaults' = 0, run'.status = "completed"
      PROVE  (\E x \in Executors : executions'[x].pc = "tell") \/ \E ev \in evalHeard' : ev.type = "completed"
  <2>1. CASE new.pc = "tell"
    BY <2>1, <1>1
  <2>2. CASE old.pc = "tell"
    BY <2>2, <1>6, <1>8 DEF Completes
  <2>3. CASE new.pc # "tell" /\ old.pc # "tell"
    <3>1. run.status = "completed" /\ evalFaults = 0
      BY <2>3, <1>4, <1>5, <1>8
    <3> QED BY <3>1, <2>3, <1>2, <1>7, <1>t DEF EventsSettle
  <2> QED BY <2>1, <2>2, <2>3
<1>9. ASSUME evalFaults' = 0, run'.status = "failed"
      PROVE  (\E x \in Executors : executions'[x].pc = "tellFailed") \/ \E ev \in evalHeard' : ev.type = "failed"
  <2>1. CASE new.pc = "tellFailed"
    BY <2>1, <1>1
  <2>2. CASE old.pc = "tellFailed"
    BY <2>2, <1>6, <1>9 DEF Announces
  <2>3. CASE new.pc # "tellFailed" /\ old.pc # "tellFailed"
    <3>1. run.status = "failed" /\ evalFaults = 0
      BY <2>3, <1>4, <1>5, <1>9
    <3> QED BY <3>1, <2>3, <1>2, <1>7, <1>t DEF EventsSettle
  <2> QED BY <2>1, <2>2, <2>3
<1> QED BY <1>8, <1>9 DEF EventsSettle, EPc

(* The scores, before the rest: only the one that stores them gains any.    *)
LEMMA TurnScores ==
    ASSUME EvalAssumption, ExecutionTypes, ScoreFacts,
           NEW e \in Executors, NEW new, Turns(e, new)
    PROVE  /\ scores \subseteq scores'
           /\ \A s \in scores' \ scores :
                 /\ executions[e].pc = "scores" /\ s.by = e /\ s.item \in executions[e].items
           /\ executions[e].pc = "scores" /\ new.pc = "metrics" =>
                 \A i \in executions[e].items : \E s \in scores' : s.by = e /\ s.item = i
<1> PICK old : old = executions[e]
  OBVIOUS
<1>t. Turn(e, old, new)
  BY DEF Turns, EPc
<1>1. \/ UNCHANGED scores /\ (old.pc = "scores" => new.pc # "metrics")
      \/ old.pc = "scores" /\ Stores(e, old.items)
  BY <1>t DEF Turn, Or
<1>2. CASE UNCHANGED scores /\ (old.pc = "scores" => new.pc # "metrics")
  BY <1>2
<1>3. CASE old.pc = "scores" /\ Stores(e, old.items)
  BY <1>3 DEF Stores
<1> QED BY <1>1, <1>2, <1>3

LEMMA TurnScoresOf ==
    ASSUME EvalAssumption, ExecutionTypes, ScoreFacts,
           NEW e \in Executors, NEW new, Turns(e, new)
    PROVE  \A x \in Executors :
              /\ x # e \/ executions[e].pc # "scores" => ScoresOf(x)' = ScoresOf(x)
              /\ ScoresOf(x)' # {} => ScoresOf(x) # {} \/ (x = e /\ executions[e].pc = "scores")
              /\ executions[e].pc = "scores" /\ new.pc = "metrics" => ScoresOf(e)' = executions[e].items
<1>1. SUFFICES ASSUME NEW x \in Executors
      PROVE  /\ x # e \/ executions[e].pc # "scores" =>
                   {s.item : s \in {s \in scores' : s.by = x}} = {s.item : s \in {s \in scores : s.by = x}}
             /\ {s.item : s \in {s \in scores' : s.by = x}} # {} =>
                   {s.item : s \in {s \in scores : s.by = x}} # {} \/ (x = e /\ executions[e].pc = "scores")
             /\ executions[e].pc = "scores" /\ new.pc = "metrics" =>
                   {s.item : s \in {s \in scores' : s.by = e}} = executions[e].items
  BY DEF ScoresOf, Scored
<1>2. /\ scores \subseteq scores'
      /\ \A s \in scores' \ scores :
            executions[e].pc = "scores" /\ s.by = e /\ s.item \in executions[e].items
      /\ executions[e].pc = "scores" /\ new.pc = "metrics" =>
            \A i \in executions[e].items : \E s \in scores' : s.by = e /\ s.item = i
  BY TurnScores
<1>3. executions[e].pc = "scores" => {s \in scores : s.by = e} = {}
  BY DEF ScoreFacts, Scoreless, EPc, ScoresOf, Scored
<1>4. x # e \/ executions[e].pc # "scores" => {s \in scores' : s.by = x} = {s \in scores : s.by = x}
  BY <1>2
<1>5. {s \in scores' : s.by = x} # {} =>
         {s \in scores : s.by = x} # {} \/ (x = e /\ executions[e].pc = "scores")
  BY <1>4
<1>6. executions[e].pc = "scores" /\ new.pc = "metrics" =>
         {s.item : s \in {s \in scores' : s.by = e}} = executions[e].items
  BY <1>2, <1>3
<1> QED BY <1>4, <1>5, <1>6

LEMMA TurnRaced ==
    ASSUME EvalAssumption, ExecutionTypes, RunFacts, RacedFacts, ScoreFacts,
           NEW e \in Executors, NEW new, Turns(e, new)
    PROVE  RacedFacts'
<1> PICK old : old = executions[e]
  OBVIOUS
<1>t. Turn(e, old, new) /\ old.pc = EPc(e)
  BY DEF Turns, EPc
<1>1. executions'[e] = new /\ \A x \in Executors \ {e} : executions'[x] = executions[x]
  BY TurnTypes
(* The one that turns was admitted before, or is admitted by a run which is *)
(* created, or pending: then the others that are admitted are at the start. *)
<1>2. \A x \in Executors : ScoresOf(x)' # {} => ScoresOf(x) # {} \/ (x = e /\ old.pc = "scores")
  BY TurnScoresOf
<1>3. \A x \in Executors \ {e} : Admitted(x)' => Admitted(x)
  BY <1>1, <1>2 DEF Admitted, EPc
<1>4. \/ old.pc = "idle" /\ new.pc = "start" /\ run.status = "pending" /\ Admits(old, new)
      \/ old.pc = "create" /\ new.pc = "start"
      \/ old.pc \in {"idle", "create"} /\ new.pc \notin Executing \cup {"done", "threw"}
      \/ old.pc \in Executing /\ new.raced = old.raced
  BY <1>t DEF Turn, Or, Same, Executing
<1>5. \A x \in Executors \ {e} : executions'[x].raced = executions[x].raced
  BY <1>1
<1>6. ASSUME NEW x \in Executors \ {e}, Admitted(x)', Admitted(e)'
      PROVE  x \in new.raced \/ e \in executions[x].raced
  <2>1. Admitted(x)
    BY <1>3, <1>6
  <2>2. CASE old.pc = "idle" /\ new.pc = "start" /\ run.status = "pending" /\ Admits(old, new)
    <3>1. EPc(x) \in Unstarted /\ scores = {}
      BY <2>2 DEF RunFacts
    <3>2. EPc(x) = "start"
      BY <2>1, <3>1 DEF Admitted, Unstarted, Executing, ScoresOf, Scored
    <3> QED BY <2>2, <3>2 DEF Admits
  <2>3. CASE old.pc = "create" /\ new.pc = "start"
    <3>1. run.status = "none"
      BY <2>3, <1>t DEF RunFacts, Turn, Executing
    <3>2. EPc(x) \in Unstarted /\ EPc(x) # "start" /\ scores = {}
      BY <3>1 DEF RunFacts
    <3> QED BY <2>1, <3>2 DEF Admitted, Unstarted, Executing, ScoresOf, Scored
  <2>4. CASE old.pc \in {"idle", "create"} /\ new.pc \notin Executing \cup {"done", "threw"}
    <3>1. ScoresOf(e) = {}
      BY <2>4, <1>t DEF ScoreFacts, Scoreless
    <3>2. ~ Admitted(e)'
      BY <2>4, <3>1, <1>1, <1>2 DEF Admitted, EPc
    <3> QED BY <3>2, <1>6
  <2>5. CASE old.pc \in Executing /\ new.raced = old.raced
    BY <2>1, <2>5, <1>t DEF RacedFacts, Admitted
  <2> QED BY <1>4, <2>2, <2>3, <2>4, <2>5
<1>7. ASSUME NEW x \in Executors \ {e}, NEW y \in Executors \ {e}, x # y, Admitted(x)', Admitted(y)'
      PROVE  x \in executions[y].raced \/ y \in executions[x].raced
  BY <1>3, <1>7 DEF RacedFacts
<1>8. ASSUME NEW x \in Executors, NEW y \in Executors, x # y, Admitted(x)', Admitted(y)'
      PROVE  x \in executions'[y].raced \/ y \in executions'[x].raced
  <2>1. CASE x = e
    BY <2>1, <1>6, <1>8, <1>1
  <2>2. CASE y = e
    BY <2>2, <1>6, <1>8, <1>1
  <2>3. CASE x # e /\ y # e
    BY <2>3, <1>7, <1>8, <1>1
  <2> QED BY <2>1, <2>2, <2>3
<1> QED BY <1>8 DEF RacedFacts

LEMMA OfMoreScored ==
    ASSUME NEW m, NEW rows, NEW more, OfScored(m, rows), rows \subseteq more
    PROVE  OfScored(m, more)
  BY DEF OfScored, Scored

LEMMA TurnScored ==
    ASSUME EvalAssumption, ExecutionTypes, RunFacts, ScoreFacts,
           NEW e \in Executors, NEW new, Turns(e, new)
    PROVE  ScoreFacts'
<1> PICK old : old = executions[e]
  OBVIOUS
<1>t. Turn(e, old, new) /\ old.pc = EPc(e)
  BY DEF Turns, EPc
<1>1. executions'[e] = new /\ \A x \in Executors \ {e} : executions'[x] = executions[x]
  BY TurnTypes
<1>2. UNCHANGED datasetItems
  BY DEF Turns, datasetVars
<1>3. new.items = old.items \/ (old.pc = "items" /\ new.items = datasetItems /\ new.pc \in {"catch", "query"})
  BY <1>t DEF Turn, Same, Admits
<1>4. \A x \in Executors : executions'[x].items \subseteq EvalItems
  BY <1>1, <1>3 DEF ScoreFacts
<1>5. /\ scores \subseteq scores'
      /\ \A s \in scores' \ scores : s.by = e /\ s.item \in old.items
  BY TurnScores
<1>6. \A s \in scores' : s.by \in Executors /\ s.item \in EvalItems
  BY <1>5 DEF ScoreFacts
<1>7. \A x \in Executors :
        /\ x # e \/ old.pc # "scores" => ScoresOf(x)' = ScoresOf(x)
        /\ old.pc = "scores" /\ new.pc = "metrics" => ScoresOf(e)' = old.items
  BY TurnScoresOf
<1>8. /\ new.pc \in Scoreless => old.pc \in Scoreless \ {"scores"}
      /\ new.pc \in HasScored => /\ old.pc \in HasScored \/ (old.pc = "scores" /\ new.pc = "metrics")
                                 /\ new.items = old.items
      /\ new.pc \in {"complete", "tell"} => \/ old.pc = "metrics" /\ Measures(old.items)
                                            \/ old.pc = "complete" /\ new.pc = "tell"
  BY <1>t DEF Turn, Or, Scoreless, HasScored, Executing, Same
<1>9. /\ new.pc \in Scoreless => ScoresOf(e)' = {}
      /\ new.pc \in HasScored => ScoresOf(e)' = new.items
  BY <1>7, <1>8, <1>t DEF ScoreFacts, HasScored
<1>10. run'.metrics = run.metrics \/ (old.pc = "metrics" /\ MetricsOver(run'.metrics, old.items))
  BY <1>t, TurnOfRun
<1>11. run.metrics # <<>> => run'.metrics # <<>>
  BY <1>10 DEF MetricsOver
<1>12. new.pc \in {"complete", "tell"} => run'.metrics # <<>>
  <2>1. ASSUME Measures(old.items) PROVE run'.metrics # <<>>
    BY <2>1 DEF Measures, MetricsOver
  <2> QED BY <2>1, <1>8, <1>11, <1>t DEF ScoreFacts
<1>13. run'.status = "completed" => run'.metrics # <<>>
  <2>1. run'.status = "completed" => run.status = "completed" \/ old.pc = "complete"
    BY <1>t, TurnOfRun
  <2> QED BY <2>1, <1>11, <1>t DEF ScoreFacts
<1>14. run'.metrics # <<>> => OfScored(run'.metrics, scores')
  <2>1. CASE run'.metrics = run.metrics
    BY <2>1, <1>5, OfMoreScored DEF ScoreFacts
  <2>2. CASE old.pc = "metrics" /\ MetricsOver(run'.metrics, old.items)
    <3>1. old.items = ScoresOf(e)
      BY <2>2, <1>t DEF ScoreFacts, HasScored
    <3>2. ScoresOf(e) \subseteq Scored(scores)
      BY DEF ScoresOf, Scored
    <3>3. \A m : MetricsOver(m, old.items) => OfScored(m, scores)
      BY <3>1, <3>2 DEF OfScored
    <3> QED BY <2>2, <3>3, <1>5, OfMoreScored
  <2> QED BY <2>1, <2>2, <1>10
<1>15. \A x \in Executors :
         /\ executions'[x].pc \in Scoreless => ScoresOf(x)' = {}
         /\ executions'[x].pc \in HasScored => ScoresOf(x)' = executions'[x].items
         /\ executions'[x].pc \in {"complete", "tell"} => run'.metrics # <<>>
  <2>1. SUFFICES ASSUME NEW x \in Executors, x # e
        PROVE  /\ executions'[x].pc \in Scoreless => ScoresOf(x)' = {}
               /\ executions'[x].pc \in HasScored => ScoresOf(x)' = executions'[x].items
               /\ executions'[x].pc \in {"complete", "tell"} => run'.metrics # <<>>
    BY <1>1, <1>9, <1>12
  <2>2. ScoresOf(x)' = ScoresOf(x) /\ executions'[x] = executions[x]
    BY <2>1, <1>1, <1>7
  <2> QED BY <2>2, <1>11 DEF ScoreFacts, EPc
<1> QED BY <1>2, <1>4, <1>6, <1>13, <1>14, <1>15 DEF ScoreFacts, EPc

LEMMA TurnHeard ==
    ASSUME EvalAssumption, ExecutionTypes, ScoreFacts, HeardFacts, AskedFacts, FeedbackFacts,
           NEW e \in Executors, NEW new, Turns(e, new)
    PROVE  HeardFacts' /\ AskedFacts' /\ FeedbackFacts'
<1> PICK old : old = executions[e]
  OBVIOUS
<1>t. Turn(e, old, new) /\ old.pc = EPc(e)
  BY DEF Turns, EPc
<1>1. executions'[e] = new /\ \A x \in Executors \ {e} : executions'[x] = executions[x]
  BY TurnTypes
<1>2. UNCHANGED <<asked, feedback>> /\ scores \subseteq scores'
  BY TurnScores DEF Turns
<1>3. \A x \in Executors : x # e \/ old.pc # "scores" => ScoresOf(x)' = ScoresOf(x)
  BY TurnScoresOf
<1>4. /\ old.pc \in HasTold => new.pc \in HasTold /\ old.pc # "scores"
      /\ \/ UNCHANGED evalHeard \/ \E type \in {"report", "failed"} : Announces(type)
         \/ old.pc = "tell" /\ Completes(e, old.items) /\ new.pc \in HasTold
  BY <1>t DEF Turn, Or, HasTold, Executing
<1>5. \A x \in Executors : EPc(x) \in HasTold =>
         executions'[x].pc \in HasTold /\ ScoresOf(x)' = ScoresOf(x)
  BY <1>1, <1>3, <1>4, <1>t DEF EPc
<1>6. run.metrics # <<>> => run'.metrics # <<>>
  BY <1>t, TurnOfRun DEF MetricsOver
<1>7. \A ev \in evalHeard' \ evalHeard :
        \/ ev.type \in {"report", "failed"}
        \/ /\ ev.type = "completed" /\ ev.by = e /\ MetricsOver(ev.metrics, old.items)
           /\ old.pc = "tell" /\ new.pc \in HasTold
  <2>1. ASSUME NEW type \in {"report", "failed"}, Announces(type)
        PROVE  \A ev \in evalHeard' \ evalHeard : ev.type \in {"report", "failed"}
    BY <2>1 DEF Announces
  <2>2. ASSUME Completes(e, old.items)
        PROVE  \A ev \in evalHeard' \ evalHeard :
                  ev.type = "completed" /\ ev.by = e /\ MetricsOver(ev.metrics, old.items)
    BY <2>2 DEF Completes
  <2> QED BY <2>1, <2>2, <1>4
<1>8. old.pc = "tell" => run.metrics # <<>> /\ old.items = ScoresOf(e) /\ ScoresOf(e)' = ScoresOf(e)
  BY <1>t, <1>3 DEF ScoreFacts, HasScored
<1>9. ASSUME NEW ev \in evalHeard', ev.type = "completed"
      PROVE  /\ ev.by \in Executors /\ executions'[ev.by].pc \in HasTold
             /\ run'.metrics # <<>> /\ MetricsOver(ev.metrics, ScoresOf(ev.by)')
  <2>1. CASE ev \in evalHeard
    <3>1. /\ ev.by \in Executors /\ EPc(ev.by) \in HasTold
          /\ run.metrics # <<>> /\ MetricsOver(ev.metrics, ScoresOf(ev.by))
      BY <2>1, <1>9 DEF HeardFacts
    <3> QED BY <3>1, <1>5, <1>6
  <2>2. CASE ev \notin evalHeard
    BY <2>2, <1>9, <1>7, <1>8, <1>6, <1>1
  <2> QED BY <2>1, <2>2
<1>10. HeardFacts'
  BY <1>9 DEF HeardFacts, EPc
<1>11. AskedFacts'
  BY <1>2, OfMoreScored DEF AskedFacts
<1>12. FeedbackFacts'
  BY <1>2, <1>7 DEF FeedbackFacts
<1> QED BY <1>10, <1>11, <1>12

-----------------------------------------------------------------------------
(* A crash, and the steps of others.                                        *)
LEMMA CrashKeeps ==
    ASSUME EvalAssumption, ExecutionTypes, RunFacts, EventsSettle, RacedFacts, ScoreFacts, HeardFacts,
           AskedFacts, EvalCrash
    PROVE  ExecutionTypes' /\ RunFacts' /\ EventsSettle' /\ RacedFacts' /\ ScoreFacts' /\ HeardFacts'
           /\ AskedFacts'
<1>1. \A e \in Executors :
         \/ EPc(e) \notin Executing /\ executions'[e] = executions[e]
         \/ /\ EPc(e) \in Executing
            /\ executions'[e] = [Execution("lost") EXCEPT !.raced = executions[e].raced]
  BY DEF EvalCrash
<1>2. \A r : [Execution("lost") EXCEPT !.raced = r] =
                [pc |-> "lost", items |-> {}, batch |-> {}, answered |-> {}, raced |-> r]
  BY DEF Execution
<1>3. \A e \in Executors :
         \/ EPc(e) \notin Executing /\ executions'[e] = executions[e]
         \/ /\ EPc(e) \in Executing
            /\ executions'[e] = [pc |-> "lost", items |-> {}, batch |-> {}, answered |-> {},
                                 raced |-> executions[e].raced]
  BY <1>1, <1>2
<1>4. UNCHANGED <<run, scores, asked, evalHeard, datasetItems>> /\ EvalFault
  BY DEF EvalCrash, runVars, datasetVars
<1>5. \A e \in Executors :
         /\ executions'[e].raced = executions[e].raced
         /\ executions'[e].items = {} \/ executions'[e].items = executions[e].items
         /\ executions'[e] = executions[e] \/ (EPc(e) \in Executing /\ executions'[e].pc = "lost")
  <2> TAKE e \in Executors
  <2>1. CASE executions'[e] = executions[e]
    BY <2>1
  <2>2. CASE /\ EPc(e) \in Executing
             /\ executions'[e] = [pc |-> "lost", items |-> {}, batch |-> {}, answered |-> {},
                                  raced |-> executions[e].raced]
    BY <2>2
  <2> QED BY <2>1, <2>2, <1>3
<1>6. executions' = [e \in Executors |-> executions'[e]]
  BY DEF EvalCrash
<1>7. evalFaults' \in Nat /\ evalFaults' # 0
  BY <1>4 DEF EvalFault, ExecutionTypes
<1>8. \A e \in Executors : \E x : x = executions'[e] /\ IsExecution(x)
  <2>1. \A r : IsExecution([pc |-> "lost", items |-> {}, batch |-> {}, answered |-> {}, raced |-> r])
    BY DEF IsExecution
  <2> QED BY <2>1, <1>3 DEF ExecutionTypes
<1>9. ExecutionTypes'
  <2>1. \A e \in Executors : executions'[e].pc \in Stages
    BY <1>5 DEF ExecutionTypes, EPc, Stages
  <2>2. \A e \in EvalRequests : executions'[e].pc \notin {"create", "refused"}
    BY <1>5 DEF ExecutionTypes, EPc, Executors
  <2>3. run' = [status |-> run'.status, metrics |-> run'.metrics]
    BY <1>4 DEF ExecutionTypes
  <2> QED BY <1>6, <1>7, <1>8, <2>1, <2>2, <2>3 DEF ExecutionTypes, EPc
<1>10. \A e \in Executors : executions'[e].pc = EPc(e) \/ (EPc(e) \in Executing /\ executions'[e].pc = "lost")
  BY <1>5 DEF EPc
<1>11. RunFacts'
  <2>1. "api" \in Executors
    BY DEF Executors
  <2> QED BY <1>4, <1>10, <2>1 DEF RunFacts, EPc, Executing, Unstarted, Unsettled
<1>12. EventsSettle'
  BY <1>7 DEF EventsSettle
<1>13. \A e : ScoresOf(e)' = ScoresOf(e)
  BY <1>4 DEF ScoresOf, Scored
<1>14. RacedFacts'
  <2>1. \A e \in Executors : Admitted(e)' => Admitted(e)
    BY <1>10, <1>13 DEF Admitted, EPc, Executing
  <2> QED BY <2>1, <1>5 DEF RacedFacts
<1>15. ScoreFacts'
  <2>1. \A e \in Executors : executions'[e].items \subseteq EvalItems
    BY <1>5 DEF ScoreFacts
  <2>2. \A e \in Executors :
           /\ executions'[e].pc \in Scoreless => ScoresOf(e)' = {}
           /\ executions'[e].pc \in HasScored => ScoresOf(e)' = executions'[e].items
           /\ executions'[e].pc \in {"complete", "tell"} => run'.metrics # <<>>
    BY <1>4, <1>5, <1>13 DEF ScoreFacts, EPc, Scoreless, HasScored
  <2> QED BY <1>4, <2>1, <2>2 DEF ScoreFacts, EPc
<1>16. HeardFacts'
  BY <1>4, <1>10, <1>13 DEF HeardFacts, EPc, HasTold
<1>17. AskedFacts'
  BY <1>4 DEF AskedFacts
<1> QED BY <1>9, <1>11, <1>12, <1>14, <1>15, <1>16, <1>17

DatasetStep ==
    \E c \in DatasetCalls :
        \/ CreateDataset(c) \/ InsertItems(c) \/ AddDatasetItem(c) \/ Recount(c)
        \/ DeleteItems(c) \/ DeleteDataset(c) \/ DatasetCallFails(c)

(* The steps that leave the executions alone.                               *)
LEMMA OthersKeep ==
    ASSUME EvalAssumption, ExecutionTypes, RunFacts, EventsSettle, RacedFacts, ScoreFacts, HeardFacts,
           UNCHANGED <<run, scores, executions>>, datasetItems' \subseteq EvalItems,
           evalFaults' = evalFaults \/ EvalFault,
           evalHeard \subseteq evalHeard', \A ev \in evalHeard' \ evalHeard : ev.type = "feedback"
    PROVE  ExecutionTypes' /\ RunFacts' /\ EventsSettle' /\ RacedFacts' /\ ScoreFacts' /\ HeardFacts'
<1>1. \A e : ScoresOf(e)' = ScoresOf(e) /\ EPc(e)' = EPc(e) /\ Admitted(e)' = Admitted(e)
  BY DEF ScoresOf, Scored, EPc, Admitted
<1>2. evalFaults' \in Nat /\ (evalFaults' = 0 => evalFaults = 0)
  BY DEF EvalFault, ExecutionTypes
<1>3. ExecutionTypes'
  BY <1>2 DEF ExecutionTypes, EPc
<1>4. RunFacts'
  BY DEF RunFacts, EPc
<1>5. EventsSettle'
  BY <1>2 DEF EventsSettle, EPc
<1>6. RacedFacts'
  BY <1>1 DEF RacedFacts
<1>7. ScoreFacts'
  BY <1>1 DEF ScoreFacts, EPc
<1>8. HeardFacts'
  BY <1>1 DEF HeardFacts
<1> QED BY <1>3, <1>4, <1>5, <1>6, <1>7, <1>8

LEMMA FeedbackKeeps ==
    ASSUME FeedbackFacts, NEW f \in Feedbacks, SaveFeedback(f) \/ ReportFeedback(f) \/ FeedbackFails(f)
    PROVE  /\ FeedbackFacts'
           /\ UNCHANGED <<run, scores, executions, asked, dataset, datasetItems, datasetCalls>>
           /\ evalFaults' = evalFaults \/ EvalFault
           /\ evalHeard \subseteq evalHeard'
           /\ \A ev \in evalHeard' \ evalHeard : ev.type = "feedback"
<1> PICK fb, state, rows : fb = feedback /\ state = fb.state /\ rows = fb.rows
  OBVIOUS
<1>0. /\ fb = [state |-> state, rows |-> rows] /\ state = [g \in Feedbacks |-> state[g]]
      /\ \A g \in Feedbacks : state[g] = "saved" => g \in rows
      /\ \A ev \in evalHeard : ev.type = "feedback" => ev.of \in rows
  BY DEF FeedbackFacts
<1>1. CASE SaveFeedback(f)
  <2>1. feedback' = [state |-> [state EXCEPT ![f] = "saved"], rows |-> rows \cup {f}]
        /\ UNCHANGED evalHeard
    BY <1>1 DEF SaveFeedback
  <2>2. FeedbackFacts'
    BY <1>0, <2>1 DEF FeedbackFacts
  <2> QED BY <1>1, <2>2 DEF SaveFeedback, datasetVars, runVars
<1>2. CASE ReportFeedback(f)
  <2>1. feedback' = [fb EXCEPT !.state[f] = "reported"] /\ state[f] = "saved"
        /\ evalHeard' = evalHeard \cup {[type |-> "feedback", of |-> f]}
    BY <1>2 DEF ReportFeedback
  <2>2. feedback' = [state |-> [state EXCEPT ![f] = "reported"], rows |-> rows]
    BY <1>0, <2>1
  <2>3. FeedbackFacts'
    BY <1>0, <2>1, <2>2 DEF FeedbackFacts
  <2> QED BY <1>2, <2>1, <2>3 DEF ReportFeedback, datasetVars, runVars
<1>3. CASE FeedbackFails(f)
  <2>1. feedback' = [fb EXCEPT !.state[f] = "failed"] /\ UNCHANGED evalHeard
    BY <1>3 DEF FeedbackFails
  <2>2. feedback' = [state |-> [state EXCEPT ![f] = "failed"], rows |-> rows]
    BY <1>0, <2>1
  <2>3. FeedbackFacts'
    BY <1>0, <2>1, <2>2 DEF FeedbackFacts
  <2> QED BY <1>3, <2>3 DEF FeedbackFails, datasetVars, runVars
<1> QED BY <1>1, <1>2, <1>3

LEMMA AskingKeeps ==
    ASSUME ScoreFacts, AskedFacts, GetRun \/ GetRetrievalScores
    PROVE  /\ AskedFacts'
           /\ UNCHANGED <<run, scores, executions, feedback, dataset, datasetItems, datasetCalls,
                          evalHeard, evalFaults>>
<1> PICK a : a = asked
  OBVIOUS
<1>0. a = [pc |-> a.pc, run |-> a.run, scores |-> a.scores]
  BY DEF AskedFacts
<1>1. CASE GetRun
  <2>1. asked' = [a EXCEPT !.pc = "run", !.run = run] /\ UNCHANGED <<run, scores>>
    BY <1>1 DEF GetRun, runVars
  <2>2. asked' = [pc |-> "run", run |-> run, scores |-> a.scores]
    BY <1>0, <2>1
  <2>3. AskedFacts'
    BY <2>1, <2>2 DEF AskedFacts, ScoreFacts
  <2> QED BY <1>1, <2>3 DEF GetRun, runVars, datasetVars
<1>2. CASE GetRetrievalScores
  <2>1. asked' = [a EXCEPT !.pc = "answered", !.scores = scores] /\ UNCHANGED scores /\ a.pc = "run"
    BY <1>2 DEF GetRetrievalScores, runVars
  <2>2. asked' = [pc |-> "answered", run |-> a.run, scores |-> scores]
    BY <1>0, <2>1
  <2>3. AskedFacts'
    BY <2>1, <2>2 DEF AskedFacts, ScoreFacts
  <2> QED BY <1>2, <2>3 DEF GetRetrievalScores, runVars, datasetVars
<1> QED BY <1>1, <1>2

-----------------------------------------------------------------------------
(* The dataset: what its calls do, and the other steps do not.              *)
LEMMA DatasetStepKeeps ==
    ASSUME EvalAssumption, DatasetTypes, DatasetFacts, DatasetStep
    PROVE  /\ DatasetTypes' /\ DatasetFacts'
           /\ UNCHANGED <<run, scores, executions, feedback, asked, evalHeard>>
           /\ evalFaults' = evalFaults \/ EvalFault
<1> PICK c \in DatasetCalls :
        \/ CreateDataset(c) \/ InsertItems(c) \/ AddDatasetItem(c) \/ Recount(c)
        \/ DeleteItems(c) \/ DeleteDataset(c) \/ DatasetCallFails(c)
  BY DEF DatasetStep
<1> PICK old, state, count : old = datasetCalls[c] /\ state = dataset.state /\ count = dataset.count
  OBVIOUS
<1>0. /\ old = [pc |-> old.pc, items |-> old.items]
      /\ dataset = [state |-> state, count |-> count]
      /\ state \in {"none", "stored", "deleted"}
  BY DEF DatasetTypes
<1>n. NoCall = [pc |-> "idle", items |-> {}]
  BY DEF NoCall
<1>f. /\ UNCHANGED <<run, scores, executions, feedback, asked, evalHeard>>
      /\ evalFaults' = evalFaults \/ EvalFault
  BY DEF CreateDataset, InsertItems, AddDatasetItem, Recount, DeleteItems, DeleteDataset,
         DatasetCallFails, runVars
(* One call moves to another stage.                                         *)
<1> DEFINE Moves(pc, items) == datasetCalls' = [datasetCalls EXCEPT ![c] = [pc |-> pc, items |-> items]]
<1>s. ASSUME NEW pc, NEW call, call = [old EXCEPT !.pc = pc]
      PROVE  call = [pc |-> pc, items |-> old.items]
  BY <1>0, <1>s
<1>p. \A pc : datasetCalls' = [datasetCalls EXCEPT ![c].pc = pc] => Moves(pc, old.items)
  <2>1. SUFFICES ASSUME NEW pc, datasetCalls' = [datasetCalls EXCEPT ![c].pc = pc]
        PROVE  Moves(pc, old.items)
    OBVIOUS
  <2>2. PICK call : call = [old EXCEPT !.pc = pc]
    OBVIOUS
  <2>3. datasetCalls' = [datasetCalls EXCEPT ![c] = call]
    BY <2>1, <2>2
  <2> QED BY <2>2, <2>3, <1>s
<1>m. ASSUME NEW pc, NEW items, Moves(pc, items)
      PROVE  /\ datasetCalls'[c].pc = pc /\ datasetCalls'[c].items = items
             /\ \A d \in DatasetCalls \ {c} : datasetCalls'[d] = datasetCalls[d]
             /\ datasetCalls' = [d \in DatasetCalls |-> datasetCalls'[d]]
             /\ \A d \in DatasetCalls :
                   datasetCalls'[d] = [pc |-> datasetCalls'[d].pc, items |-> datasetCalls'[d].items]
  BY <1>m DEF DatasetTypes
<1> HIDE DEF Moves
<1>1. CASE CreateDataset(c)
  <2>1. PICK items \in SUBSET EvalItems :
           /\ dataset' = [state |-> "stored", count |-> Cardinality(items)]
           /\ Moves(IF items = {} THEN "idle" ELSE "insert", items)
    BY <1>1, <1>n DEF CreateDataset, Moves
  <2>2. state = "none" /\ UNCHANGED datasetItems /\ old.pc = "idle"
    BY <1>1 DEF CreateDataset
  <2>3. DatasetTypes'
    BY <2>1, <1>m DEF DatasetTypes
  <2>4. /\ \A d \in DatasetCalls \ {c} : datasetCalls'[d].pc = "idle"
        /\ datasetItems' = {}
    BY <2>1, <2>2, <1>m DEF DatasetFacts
  <2>5. items = {} => Cardinality(items) = 0
    BY FS_EmptySet
  <2>6. datasetCalls'[c].pc = (IF items = {} THEN "idle" ELSE "insert") /\ datasetCalls'[c].items = items
    BY <2>1, <1>m
  <2>7. /\ ~ Some({"recount"})' /\ (items = {} => ~ Some({"insert"})')
        /\ items # {} => Some({"insert"})'
    BY <2>4, <2>6 DEF Some
  <2>8. DatasetFacts'
    BY <2>1, <2>4, <2>5, <2>6, <2>7 DEF DatasetFacts
  <2> QED BY <2>3, <2>8, <1>f
<1>2. CASE InsertItems(c) /\ state = "stored"
  <2>1. /\ old.pc = "insert" /\ datasetItems' = datasetItems \cup old.items /\ UNCHANGED dataset
        /\ Moves(IF datasetItems = {} THEN "idle" ELSE "overtaken", {})
    <3>1. [NoCall EXCEPT !.pc = IF datasetItems = {} THEN "idle" ELSE "overtaken"]
            = [pc |-> IF datasetItems = {} THEN "idle" ELSE "overtaken", items |-> {}]
      BY DEF NoCall
    <3> QED BY <1>2, <3>1 DEF InsertItems, Moves
  <2>2. DatasetTypes'
    BY <2>1, <1>m DEF DatasetTypes
  <2>3. /\ old.items \subseteq EvalItems /\ old.items # {}
        /\ \A d \in DatasetCalls \ {c} : datasetCalls[d].pc # "insert"
    BY <2>1 DEF DatasetFacts
  <2>4. /\ datasetCalls'[c].pc = (IF datasetItems = {} THEN "idle" ELSE "overtaken")
        /\ \A d \in DatasetCalls \ {c} : datasetCalls'[d] = datasetCalls[d]
    BY <2>1, <1>m
  <2>5. datasetItems' \subseteq EvalItems /\ datasetItems' # {} /\ dataset'.state = "stored"
    BY <2>1, <2>3, <1>2 DEF DatasetFacts
  <2>6. /\ \A x, y \in DatasetCalls : datasetCalls'[x].pc = "insert" /\ datasetCalls'[y].pc = "insert" => x = y
        /\ \A x \in DatasetCalls : datasetCalls'[x].pc # "insert"
    BY <2>3, <2>4
  <2>7. ~ Some({"delete", "broken", "overtaken"})' => dataset'.count = Cardinality(datasetItems')
    <3>1. SUFFICES ASSUME ~ Some({"delete", "broken", "overtaken"})'
          PROVE  dataset'.count = Cardinality(datasetItems')
      OBVIOUS
    <3>2. datasetItems = {} /\ datasetItems' = old.items
      BY <3>1, <2>1, <2>4 DEF Some
    <3>3. ~ Some({"delete", "broken", "overtaken"})
      BY <3>1, <2>1, <2>4 DEF Some
    <3>4. count = Cardinality(old.items)
      BY <3>2, <3>3, <2>1, <1>2 DEF DatasetFacts
    <3> QED BY <3>2, <3>4, <2>1
  <2>8. DatasetFacts'
    BY <2>5, <2>6, <2>7 DEF DatasetFacts
  <2> QED BY <2>2, <2>8, <1>f
<1>3. CASE \/ InsertItems(c) /\ state # "stored"
           \/ DatasetCallFails(c)
           \/ DeleteDataset(c) /\ (run.status # "none" \/ datasetItems # {})
  <2>1. /\ Moves("broken", old.items) /\ UNCHANGED <<dataset, datasetItems>>
        /\ old.pc \in {"insert", "recount", "delete"}
    BY <1>3, <1>p DEF InsertItems, DatasetCallFails, DeleteDataset
  <2>2. DatasetTypes'
    BY <2>1, <1>m DEF DatasetTypes
  <2>3. /\ datasetCalls'[c].pc = "broken"
        /\ \A d \in DatasetCalls \ {c} : datasetCalls'[d] = datasetCalls[d]
    BY <2>1, <1>m
  <2>4. Some({"delete", "broken", "overtaken"})' /\ state # "none"
    BY <2>1, <2>3 DEF Some, DatasetFacts
  <2>5. DatasetFacts'
    BY <2>1, <2>3, <2>4 DEF DatasetFacts
  <2> QED BY <2>2, <2>5, <1>f
<1>4. CASE AddDatasetItem(c)
  <2>1. PICK i \in EvalItems : /\ datasetItems' = datasetItems \cup {i} /\ Moves("recount", {i})
                              /\ state = "stored" /\ UNCHANGED dataset
    BY <1>4 DEF AddDatasetItem, Moves
  <2>2. DatasetTypes'
    BY <2>1, <1>m DEF DatasetTypes
  <2>3. /\ datasetCalls'[c].pc = "recount"
        /\ \A d \in DatasetCalls \ {c} : datasetCalls'[d] = datasetCalls[d]
    BY <2>1, <1>m
  <2>4. Some({"insert", "recount"})' /\ datasetItems' # {} /\ datasetItems' \subseteq EvalItems
    BY <2>1, <2>3 DEF Some, DatasetFacts
  <2>5. DatasetFacts'
    BY <2>1, <2>3, <2>4 DEF DatasetFacts
  <2> QED BY <2>2, <2>5, <1>f
<1>5. CASE Recount(c)
  <2>1. /\ Moves("idle", {}) /\ old.pc = "recount" /\ UNCHANGED datasetItems
        /\ dataset' = IF state = "stored" THEN [dataset EXCEPT !.count = Cardinality(datasetItems)] ELSE dataset
    BY <1>5, <1>n DEF Recount, Moves
  <2>2. dataset' = IF state = "stored" THEN [state |-> state, count |-> Cardinality(datasetItems)] ELSE dataset
    <3>1. PICK d : d = [state |-> state, count |-> count]
      OBVIOUS
    <3>2. [d EXCEPT !.count = Cardinality(datasetItems)] = [state |-> state, count |-> Cardinality(datasetItems)]
      BY <3>1
    <3> QED BY <3>1, <3>2, <2>1, <1>0
  <2>3. dataset'.state = state /\ (state = "stored" => dataset'.count = Cardinality(datasetItems))
    BY <2>2, <1>0
  <2>4. DatasetTypes'
    BY <2>1, <2>2, <1>0, <1>m DEF DatasetTypes
  <2>5. /\ datasetCalls'[c].pc = "idle"
        /\ \A d \in DatasetCalls \ {c} : datasetCalls'[d] = datasetCalls[d]
    BY <2>1, <1>m
  <2>6. Some({"delete", "broken", "overtaken"}) <=> Some({"delete", "broken", "overtaken"})'
    BY <2>1, <2>5 DEF Some
  <2>7. Some({"recount"}) /\ state # "none"
    BY <2>1 DEF Some, DatasetFacts
  <2>8. DatasetFacts'
    BY <2>1, <2>3, <2>5, <2>6, <2>7 DEF DatasetFacts
  <2> QED BY <2>4, <2>8, <1>f
<1>6. CASE DeleteItems(c)
  <2>1. /\ Moves("delete", old.items) /\ state = "stored" /\ datasetItems' = {} /\ UNCHANGED dataset
    BY <1>6, <1>p DEF DeleteItems
  <2>2. DatasetTypes'
    BY <2>1, <1>m DEF DatasetTypes
  <2>3. /\ datasetCalls'[c].pc = "delete"
        /\ \A d \in DatasetCalls \ {c} : datasetCalls'[d] = datasetCalls[d]
    BY <2>1, <1>m
  <2>4. Some({"delete", "broken", "overtaken"})'
    BY <2>3 DEF Some
  <2>5. DatasetFacts'
    BY <2>1, <2>3, <2>4 DEF DatasetFacts
  <2> QED BY <2>2, <2>5, <1>f
<1>7. CASE DeleteDataset(c) /\ ~(run.status # "none" \/ datasetItems # {})
  <2>1. /\ Moves("idle", {}) /\ dataset' = [state |-> "deleted", count |-> 0]
        /\ datasetItems = {} /\ UNCHANGED datasetItems
    BY <1>7, <1>n DEF DeleteDataset, Moves
  <2>2. DatasetTypes'
    BY <2>1, <1>m DEF DatasetTypes
  <2>3. /\ datasetCalls'[c].pc = "idle"
        /\ \A d \in DatasetCalls \ {c} : datasetCalls'[d] = datasetCalls[d]
    BY <2>1, <1>m
  <2>5. DatasetFacts'
    BY <2>1, <2>3 DEF DatasetFacts
  <2> QED BY <2>2, <2>5, <1>f
<1> QED BY <1>1, <1>2, <1>3, <1>4, <1>5, <1>6, <1>7

-----------------------------------------------------------------------------
LEMMA EvalInvInit == EvalAssumption /\ EvalInit => EvalInv
<1> SUFFICES ASSUME EvalAssumption, EvalInit PROVE EvalInv
  OBVIOUS
<1>1. ExecutionTypes
  BY DEF EvalInit, ExecutionTypes, Execution, IsExecution, EPc, Stages, Executors
<1>2. RunFacts
  BY DEF EvalInit, RunFacts, EPc, Execution, Unstarted, Executors
<1>3. EventsSettle
  BY DEF EvalInit, EventsSettle
<1>4. \A e : ScoresOf(e) = {}
  BY DEF EvalInit, ScoresOf, Scored
<1>5. \A e \in Executors : executions[e].pc = "idle" /\ executions[e].items = {}
  BY DEF EvalInit, Execution
<1>6. RacedFacts
  BY <1>4, <1>5 DEF RacedFacts, Admitted, EPc, Executing
<1>7. ScoreFacts
  BY <1>4, <1>5 DEF EvalInit, ScoreFacts, EPc, Scoreless, HasScored
<1>8. HeardFacts /\ AskedFacts /\ FeedbackFacts
  BY DEF EvalInit, HeardFacts, AskedFacts, FeedbackFacts
<1>9. DatasetTypes /\ DatasetFacts
  BY DEF EvalInit, DatasetTypes, DatasetFacts, NoCall
<1> QED BY <1>1, <1>2, <1>3, <1>6, <1>7, <1>8, <1>9 DEF EvalInv

LEMMA EvalInvNext == EvalAssumption /\ EvalInv /\ [EvalNext]_evalVars => EvalInv'
<1> SUFFICES ASSUME EvalAssumption, EvalInv, [EvalNext]_evalVars PROVE EvalInv'
  OBVIOUS
<1> USE DEF EvalInv
<1>1. CASE UNCHANGED evalVars
  <2>1. UNCHANGED <<run, scores, executions, feedback, asked, evalHeard, evalFaults, dataset,
                    datasetItems, datasetCalls>>
    BY <1>1 DEF evalVars, datasetVars, runVars
  <2>2. ExecutionTypes' /\ RunFacts' /\ EventsSettle' /\ RacedFacts' /\ ScoreFacts' /\ HeardFacts'
    BY <2>1, OthersKeep DEF ScoreFacts
  <2>3. AskedFacts' /\ FeedbackFacts' /\ DatasetTypes'
    BY <2>1 DEF AskedFacts, FeedbackFacts, DatasetTypes
  <2>4. DatasetFacts'
    BY <2>1 DEF DatasetFacts, Some
  <2> QED BY <2>2, <2>3, <2>4
<1>2. CASE DatasetStep
  <2>1. /\ DatasetTypes' /\ DatasetFacts'
        /\ UNCHANGED <<run, scores, executions, feedback, asked, evalHeard>>
        /\ evalFaults' = evalFaults \/ EvalFault
    BY <1>2, DatasetStepKeeps
  <2>2. ExecutionTypes' /\ RunFacts' /\ EventsSettle' /\ RacedFacts' /\ ScoreFacts' /\ HeardFacts'
    BY <2>1, OthersKeep DEF DatasetFacts
  <2>3. AskedFacts' /\ FeedbackFacts'
    BY <2>1 DEF AskedFacts, FeedbackFacts
  <2> QED BY <2>1, <2>2, <2>3
<1>3. ASSUME NEW e \in Executors, Executes(e) PROVE EvalInv'
  <2>1. PICK new : Turns(e, new)
    BY <1>3, ExecutionsTurn
  <2>2. ExecutionTypes' /\ RunFacts' /\ EventsSettle' /\ RacedFacts' /\ ScoreFacts'
    BY <2>1, TurnTypes, TurnRun, TurnEvents, TurnRaced, TurnScored
  <2>3. HeardFacts' /\ AskedFacts' /\ FeedbackFacts'
    BY <2>1, TurnHeard
  <2>4. UNCHANGED <<dataset, datasetItems, datasetCalls>>
    BY <2>1 DEF Turns, datasetVars
  <2>5. DatasetTypes' /\ DatasetFacts'
    BY <2>4 DEF DatasetTypes, DatasetFacts, Some
  <2> QED BY <2>2, <2>3, <2>5
<1>4. ASSUME NEW f \in Feedbacks, SaveFeedback(f) \/ ReportFeedback(f) \/ FeedbackFails(f) PROVE EvalInv'
  <2>1. /\ FeedbackFacts'
        /\ UNCHANGED <<run, scores, executions, asked, dataset, datasetItems, datasetCalls>>
        /\ evalFaults' = evalFaults \/ EvalFault
        /\ evalHeard \subseteq evalHeard'
        /\ \A ev \in evalHeard' \ evalHeard : ev.type = "feedback"
    BY <1>4, FeedbackKeeps
  <2>2. ExecutionTypes' /\ RunFacts' /\ EventsSettle' /\ RacedFacts' /\ ScoreFacts' /\ HeardFacts'
    BY <2>1, OthersKeep DEF ScoreFacts
  <2>3. AskedFacts'
    BY <2>1 DEF AskedFacts
  <2>4. DatasetTypes' /\ DatasetFacts'
    BY <2>1 DEF DatasetTypes, DatasetFacts, Some
  <2> QED BY <2>1, <2>2, <2>3, <2>4
<1>5. CASE GetRun \/ GetRetrievalScores
  <2>1. /\ AskedFacts'
        /\ UNCHANGED <<run, scores, executions, feedback, dataset, datasetItems, datasetCalls,
                       evalHeard, evalFaults>>
    BY <1>5, AskingKeeps
  <2>2. ExecutionTypes' /\ RunFacts' /\ EventsSettle' /\ RacedFacts' /\ ScoreFacts' /\ HeardFacts'
    BY <2>1, OthersKeep DEF ScoreFacts
  <2>3. FeedbackFacts'
    BY <2>1 DEF FeedbackFacts
  <2>4. DatasetTypes' /\ DatasetFacts'
    BY <2>1 DEF DatasetTypes, DatasetFacts, Some
  <2> QED BY <2>1, <2>2, <2>3, <2>4
<1>6. CASE EvalCrash
  <2>1. ExecutionTypes' /\ RunFacts' /\ EventsSettle' /\ RacedFacts' /\ ScoreFacts' /\ HeardFacts'
        /\ AskedFacts'
    BY <1>6, CrashKeeps
  <2>2. UNCHANGED <<feedback, evalHeard, dataset, datasetItems, datasetCalls>>
    BY <1>6 DEF EvalCrash, datasetVars
  <2>3. FeedbackFacts' /\ DatasetTypes' /\ DatasetFacts'
    BY <2>2 DEF FeedbackFacts, DatasetTypes, DatasetFacts, Some
  <2> QED BY <2>1, <2>3
<1> HIDE DEF EvalInv
<1>7. CASE EvalNext
  <2>1. \/ DatasetStep
        \/ \E e \in Executors : Executes(e)
        \/ \E f \in Feedbacks : SaveFeedback(f) \/ ReportFeedback(f) \/ FeedbackFails(f)
        \/ GetRun \/ GetRetrievalScores \/ EvalCrash
    BY <1>7 DEF EvalNext, DatasetStep, Executes, Executors
  <2> QED BY <2>1, <1>2, <1>3, <1>4, <1>5, <1>6
<1> QED BY <1>1, <1>7

(* In every reachable state of Evaluation: the status, the scores and the   *)
(* metrics of the run fit the stages of its executions (eval-runner.ts),    *)
(* two that both got past the pending check raced, and what is heard, read  *)
(* or counted of scores and items is among what is stored.                  *)
THEOREM EvaluationInvariant == EvalSpec => []EvalInv
<1>1. EvalAssumption
  BY EvalConstants
<1> QED BY <1>1, EvalInvInit, EvalInvNext, PTL DEF EvalSpec

(* Once all executions of a run have ended (execute, and the worker's), and *)
(* none by a crash, it is completed or failed, and without faults consumers *)
(* have heard so.                                                           *)
THEOREM ExecutedRunsSettle == EvalSpec => []RunSettles
<1>1. EvalInv => RunSettles
  <2> SUFFICES ASSUME EvalInv, \A e \in Executors : EPc(e) \notin Executing \cup {"lost", "gave up"},
                      NEW x \in Executors, EPc(x) \in {"done", "threw"}
      PROVE  /\ run.status \in {"completed", "failed"}
             /\ evalFaults = 0 => \E ev \in evalHeard : ev.type = run.status
    BY DEF RunSettles
  <2>1. run.status \notin {"none", "pending"}
    BY DEF EvalInv, RunFacts, Unstarted
  <2>2. run.status # "running"
    BY DEF EvalInv, RunFacts, Unsettled, Executing
  <2>3. run.status \in {"completed", "failed"}
    BY <2>1, <2>2 DEF EvalInv, RunFacts
  <2> QED BY <2>3 DEF EvalInv, EventsSettle, Executing
<1> QED BY <1>1, EvaluationInvariant, PTL

(* Scores are stored once but for raced executions; who hears of or reads a *)
(* completed run finds its scores; and the dataset's count is right.        *)
THEOREM StoredResultsAreWhole == EvalSpec => []ResultsAreWhole
<1>1. EvalInv => ResultsAreWhole
  <2> SUFFICES ASSUME EvalInv PROVE ResultsAreWhole
    OBVIOUS
  <2> USE DEF EvalInv
  <2>1. ScoresStoredOnce
    <3>1. \A s \in scores : s.by \in Executors /\ Admitted(s.by)
      BY DEF ScoreFacts, Admitted, ScoresOf, Scored
    <3> QED BY <3>1 DEF ScoresStoredOnce, RacedFacts
  <2>2. ASSUME asked.pc = "answered", asked.run.status = "completed"
        PROVE  asked.run.metrics.total_queries <= Cardinality(Scored(asked.scores))
    <3>1. PICK items \in SUBSET Scored(asked.scores) : asked.run.metrics.total_queries = Cardinality(items)
      BY <2>2 DEF AskedFacts, OfScored, MetricsOver
    <3>2. Scored(asked.scores) \subseteq EvalItems
      BY <2>2 DEF AskedFacts, Scored
    <3>3. IsFiniteSet(Scored(asked.scores))
      BY <3>2, EvalConstants, FS_Subset DEF EvalAssumption
    <3> QED BY <3>1, <3>3, FS_Subset
  <2>3. ASSUME NEW ev \in evalHeard, ev.type = "completed"
        PROVE  /\ run.metrics # <<>>
               /\ Cardinality(Scored({s \in scores : s.by = ev.by})) = ev.metrics.total_queries
    BY <2>3 DEF HeardFacts, MetricsOver, ScoresOf
  <2>4. \A ev \in evalHeard : ev.type = "feedback" => ev.of \in feedback.rows
    BY DEF FeedbackFacts
  <2>5. CompletedRunIsWhole
    BY <2>2, <2>3, <2>4 DEF CompletedRunIsWhole, Scored
  <2>6. DatasetCount
    <3>1. ASSUME \A c \in DatasetCalls : datasetCalls[c].pc = "idle", dataset.state = "stored"
          PROVE  dataset.count = Cardinality(datasetItems)
      <4>1. ~ Some({"delete", "broken", "overtaken"}) /\ ~ Some({"insert"}) /\ ~ Some({"insert", "recount"})
        BY <3>1 DEF Some
      <4>2. Cardinality({}) = 0
        BY FS_EmptySet
      <4> QED BY <3>1, <4>1, <4>2 DEF DatasetFacts
    <3> QED BY <3>1 DEF DatasetCount, DatasetFacts
  <2> QED BY <2>1, <2>5, <2>6 DEF ResultsAreWhole
<1> QED BY <1>1, EvaluationInvariant, PTL

-----------------------------------------------------------------------------
(* A dataset counts no more items than there are; a score is a share; the    *)
(* searches under way are no more than may run at once, of the items of the  *)
(* run, which are asked for before the first search.                         *)
IsShare(n) == n \in 0..1000
Early == {"idle", "create", "start", "items"}
Searches(x) ==
    /\ x.batch \subseteq x.items /\ x.answered \subseteq x.items
    /\ Cardinality(x.batch) <= QueryConcurrency
    /\ x.pc \in Early => x.batch = {} /\ x.answered = {}
CallStages == {"idle", "insert", "recount", "delete", "broken", "overtaken"}

EvalData ==
    /\ dataset.count \in 0..Cardinality(EvalItems)
    /\ \A c \in DatasetCalls : datasetCalls[c].pc \in CallStages
    /\ \A s \in scores : IsShare(s.precision) /\ IsShare(s.recall)
    /\ \A e \in Executors : Searches(executions[e])
    /\ asked.pc \in {"none", "run", "answered"}
    /\ evalFaults \in 0..MaxEvalFaults

LEMMA ScoresAreShares ==
    ASSUME EvalAssumption, NEW i \in EvalItems
    PROVE  /\ IsShare(PrecisionAtK(RetrievedDocuments[i], RelevantAsRead(i), TopK))
           /\ IsShare(RecallAtK(RetrievedDocuments[i], RelevantAsRead(i), TopK))
<1> PICK retrieved : retrieved = RetrievedDocuments[i]
  OBVIOUS
<1>1. retrieved = RetrievedFor[i].documents
  BY DEF RetrievedDocuments
<1>2. Len(retrieved) \in Nat
  BY <1>1 DEF EvalAssumption
<1>3. PICK limit \in Nat : limit = SmallerOf(Len(retrieved), TopK)
  BY <1>2 DEF EvalAssumption, SmallerOf
<1>4. HitsAtK(retrieved, {}, TopK) = {}
  BY DEF HitsAtK
<1>5. Cardinality(HitsAtK(retrieved, {}, TopK)) = 0
  BY <1>4, FS_EmptySet
<1>6. PrecisionAtK(retrieved, {}, TopK) = (IF limit = 0 THEN 0 ELSE Share(0, limit))
  BY <1>3, <1>5 DEF PrecisionAtK
<1>7. limit # 0 => Share(0, limit) = 0
  BY DEF Share
<1>8. IsShare(PrecisionAtK(retrieved, {}, TopK))
  BY <1>6, <1>7 DEF IsShare
<1>9. IsShare(RecallAtK(retrieved, {}, TopK))
  BY DEF RecallAtK, IsShare
<1> QED BY <1>8, <1>9 DEF RelevantAsRead

LEMMA CountsAreRanges ==
    ASSUME EvalAssumption, NEW items \in SUBSET EvalItems
    PROVE  /\ IsFiniteSet(items) /\ Cardinality(items) \in 0..Cardinality(EvalItems)
           /\ \A b \in SUBSET items : IsFiniteSet(b) /\ Cardinality(b) \in Nat
                                      /\ Cardinality(b) <= Cardinality(items)
<1>1. IsFiniteSet(EvalItems)
  BY DEF EvalAssumption
<1>2. IsFiniteSet(items) /\ Cardinality(items) <= Cardinality(EvalItems)
  BY <1>1, FS_Subset
<1>3. Cardinality(items) \in Nat /\ Cardinality(EvalItems) \in Nat
  BY <1>1, <1>2, FS_CardinalityType
<1>4. ASSUME NEW b \in SUBSET items PROVE IsFiniteSet(b) /\ Cardinality(b) \in Nat /\ Cardinality(b) <= Cardinality(items)
  BY <1>2, FS_Subset, FS_CardinalityType
<1> QED BY <1>2, <1>3, <1>4

LEMMA BatchesAreBounded ==
    ASSUME EvalAssumption, NEW items \in SUBSET EvalItems, NEW b \in NextBatch(items)
    PROVE  b \subseteq items /\ Cardinality(b) <= QueryConcurrency
<1>1. b \subseteq items /\ Cardinality(b) = SmallerOf(QueryConcurrency, Cardinality(items))
  BY DEF NextBatch
<1>2. Cardinality(items) \in Nat /\ QueryConcurrency \in Nat
  BY CountsAreRanges DEF EvalAssumption
<1> QED BY <1>1, <1>2 DEF SmallerOf

LEMMA NoBatch == ASSUME EvalAssumption PROVE Cardinality({}) <= QueryConcurrency
<1>1. Cardinality({}) = 0 /\ QueryConcurrency \in Nat
  BY FS_EmptySet DEF EvalAssumption
<1> QED BY <1>1

-----------------------------------------------------------------------------
(* The calls of the dataset.                                                 *)
LEMMA DatasetStepTypes ==
    ASSUME EvalAssumption, EvalInv, EvalData, NEW c \in DatasetCalls,
           \/ CreateDataset(c) \/ InsertItems(c) \/ AddDatasetItem(c) \/ Recount(c)
           \/ DeleteItems(c) \/ DeleteDataset(c) \/ DatasetCallFails(c)
    PROVE  EvalData'
<1>1. UNCHANGED <<run, scores, executions, asked>>
  BY DEF CreateDataset, InsertItems, AddDatasetItem, Recount, DeleteItems, DeleteDataset, DatasetCallFails,
         runVars
<1>2. evalFaults' \in 0..MaxEvalFaults
  <2>1. CASE DatasetCallFails(c)
    BY <2>1 DEF DatasetCallFails, EvalFault, EvalData, EvalAssumption
  <2>2. CASE evalFaults' = evalFaults
    BY <2>2 DEF EvalData
  <2> QED BY <2>1, <2>2 DEF CreateDataset, InsertItems, AddDatasetItem, Recount, DeleteItems, DeleteDataset
<1>3. dataset'.count \in 0..Cardinality(EvalItems)
  <2>1. dataset = [state |-> dataset.state, count |-> dataset.count] /\ datasetItems \in SUBSET EvalItems
    BY DEF EvalInv, DatasetTypes, DatasetFacts
  <2>2. CASE CreateDataset(c)
    <3>1. PICK items \in SUBSET EvalItems : dataset' = [state |-> "stored", count |-> Cardinality(items)]
      BY <2>2 DEF CreateDataset
    <3>2. dataset'.count = Cardinality(items)
      BY <3>1
    <3> QED BY <3>2, CountsAreRanges
  <2>3. CASE Recount(c)
    <3> PICK n : n = Cardinality(datasetItems)
      OBVIOUS
    <3>1. n \in 0..Cardinality(EvalItems)
      BY <2>1, CountsAreRanges
    <3>2. dataset' = dataset \/ dataset' = [state |-> dataset.state, count |-> n]
      BY <2>1, <2>3 DEF Recount
    <3>3. dataset' = dataset \/ dataset'.count = n
      BY <3>2
    <3> QED BY <3>1, <3>3 DEF EvalData
  <2>4. CASE DeleteDataset(c)
    <3>1. dataset' = dataset \/ dataset'.count = 0
      BY <2>4 DEF DeleteDataset
    <3>2. Cardinality(EvalItems) \in Nat
      BY FS_CardinalityType DEF EvalAssumption
    <3> QED BY <3>1, <3>2 DEF EvalData
  <2>5. CASE dataset' = dataset
    BY <2>5 DEF EvalData
  <2> QED BY <2>2, <2>3, <2>4, <2>5 DEF InsertItems, AddDatasetItem, DeleteItems, DatasetCallFails
<1>4. ASSUME NEW d \in DatasetCalls PROVE datasetCalls'[d].pc \in CallStages
  <2>1. /\ datasetCalls = [x \in DatasetCalls |-> datasetCalls[x]]
        /\ datasetCalls[c] = [pc |-> datasetCalls[c].pc, items |-> datasetCalls[c].items]
    BY DEF EvalInv, DatasetTypes
  <2>2. PICK r : datasetCalls' = [datasetCalls EXCEPT ![c] = r] /\ r.pc \in CallStages
    <3>1. CASE CreateDataset(c)
      <4>1. PICK items : datasetCalls' = [datasetCalls EXCEPT ![c] =
                             IF items = {} THEN NoCall ELSE [pc |-> "insert", items |-> items]]
        BY <3>1 DEF CreateDataset
      <4> PICK r : r = IF items = {} THEN NoCall ELSE [pc |-> "insert", items |-> items]
        OBVIOUS
      <4>2. r.pc \in CallStages
        BY DEF NoCall, CallStages
      <4> QED BY <4>1, <4>2
    <3>2. CASE InsertItems(c)
      <4> PICK pc : pc \in {"idle", "overtaken"} /\ pc = IF datasetItems = {} THEN "idle" ELSE "overtaken"
        OBVIOUS
      <4>1. CASE dataset.state = "stored"
        <5> PICK r : r = [NoCall EXCEPT !.pc = pc]
          OBVIOUS
        <5>1. r.pc \in CallStages
          BY DEF NoCall, CallStages
        <5>2. datasetCalls' = [datasetCalls EXCEPT ![c] = r]
          BY <3>2, <4>1 DEF InsertItems
        <5> QED BY <5>1, <5>2
      <4>2. CASE dataset.state # "stored"
        <5> PICK r : r = [pc |-> "broken", items |-> datasetCalls[c].items]
          OBVIOUS
        <5>1. r.pc \in CallStages
          BY DEF CallStages
        <5>2. datasetCalls' = [datasetCalls EXCEPT ![c] = r]
          BY <2>1, <3>2, <4>2 DEF InsertItems
        <5> QED BY <5>1, <5>2
      <4> QED BY <4>1, <4>2
    <3>3. CASE AddDatasetItem(c)
      <4>1. PICK i : datasetCalls' = [datasetCalls EXCEPT ![c] = [pc |-> "recount", items |-> {i}]]
        BY <3>3 DEF AddDatasetItem
      <4> PICK r : r = [pc |-> "recount", items |-> {i}]
        OBVIOUS
      <4>2. r.pc \in CallStages
        BY DEF CallStages
      <4> QED BY <4>1, <4>2
    <3>4. CASE Recount(c)
      <4> PICK r : r = NoCall
        OBVIOUS
      <4>1. r.pc \in CallStages
        BY DEF NoCall, CallStages
      <4> QED BY <3>4, <4>1 DEF Recount
    <3>5. CASE DeleteDataset(c) \/ DatasetCallFails(c) \/ DeleteItems(c)
      <4>1. PICK pc : pc \in {"broken", "delete"} /\ \/ datasetCalls' = [datasetCalls EXCEPT ![c].pc = pc]
                                                     \/ datasetCalls' = [datasetCalls EXCEPT ![c] = NoCall]
        BY <3>5 DEF DeleteDataset, DatasetCallFails, DeleteItems
      <4> PICK r : r = [pc |-> pc, items |-> datasetCalls[c].items]
        OBVIOUS
      <4> PICK n : n = NoCall
        OBVIOUS
      <4>2. r.pc \in CallStages /\ n.pc \in CallStages
        BY <4>1 DEF CallStages, NoCall
      <4>3. datasetCalls' = [datasetCalls EXCEPT ![c] = r] \/ datasetCalls' = [datasetCalls EXCEPT ![c] = n]
        BY <2>1, <4>1
      <4> QED BY <4>2, <4>3
    <3> QED BY <3>1, <3>2, <3>3, <3>4, <3>5
  <2>3. datasetCalls'[d] = IF d = c THEN r ELSE datasetCalls[d]
    BY <2>1, <2>2
  <2> QED BY <2>2, <2>3 DEF EvalData
<1> QED BY <1>1, <1>2, <1>3, <1>4 DEF EvalData

-----------------------------------------------------------------------------
(* The executions.                                                           *)
LEMMA PcStep ==
    ASSUME EvalInv, EvalData, NEW e \in Executors, NEW pc, Goes(e, pc), pc \in Early => EPc(e) \in Early
    PROVE  \A x \in Executors : Searches(executions'[x])
<1> PICK old : old = executions[e]
  OBVIOUS
<1>1. executions = [x \in Executors |-> executions[x]]
  BY DEF EvalInv, ExecutionTypes
<1>s. IsExecution(old)
  BY DEF EvalInv, ExecutionTypes
<1> PICK new : new = [old EXCEPT !.pc = pc]
  OBVIOUS
<1>2. executions' = [executions EXCEPT ![e] = new]
  BY DEF Goes
<1>n. new = [pc |-> pc, items |-> old.items, batch |-> old.batch, answered |-> old.answered,
             raced |-> old.raced]
  BY <1>s DEF IsExecution
<1>3. new.pc = pc /\ new.items = old.items /\ new.batch = old.batch /\ new.answered = old.answered
  BY <1>n
<1>4. Searches(new)
  BY <1>3 DEF EvalData, Searches, EPc
<1>5. executions'[e] = new /\ \A x \in Executors \ {e} : executions'[x] = executions[x]
  BY <1>1, <1>2
<1> QED BY <1>4, <1>5 DEF EvalData

LEMMA ExecutionStepSearches ==
    ASSUME EvalAssumption, EvalInv, EvalData, NEW e \in Executors,
           \/ e = "api" /\ (PostRun \/ CreateRun)
           \/ SetRunStarted(e) \/ SaveRetrievalScores(e)
           \/ UpdateRunMetrics(e) \/ SetRunCompleted(e) \/ PublishEvaluationCompleted(e)
           \/ PublishRetrievalQualityReported(e) \/ UpdateRunStatusFailed(e)
           \/ PublishEvaluationFailed(e) \/ ExecutionRejects(e)
    PROVE  \A x \in Executors : Searches(executions'[x])
<1>1. PICK pc : Goes(e, pc) /\ (pc \in Early => EPc(e) \in Early)
  <2>1. CASE e = "api" /\ PostRun
    <3>1. PICK pc : Goes(e, pc) /\ EPc(e) \in Early
      BY <2>1 DEF PostRun, Early
    <3> QED BY <3>1
  <2>2. CASE e = "api" /\ CreateRun
    <3>1. PICK pc : Goes(e, pc) /\ EPc(e) \in Early
      BY <2>2 DEF CreateRun, Early
    <3> QED BY <3>1
  <2>3. CASE SetRunStarted(e)
    <3>1. PICK pc : Goes(e, pc) /\ EPc(e) \in Early
      BY <2>3 DEF SetRunStarted, Early
    <3> QED BY <3>1
  <2>4. CASE \/ SaveRetrievalScores(e) \/ UpdateRunMetrics(e) \/ SetRunCompleted(e)
             \/ PublishEvaluationCompleted(e) \/ PublishRetrievalQualityReported(e)
    <3>1. PICK pc : Goes(e, pc) /\ pc \in {"metrics", "complete", "tell", "report", "done", "catch"}
      BY <2>4 DEF SaveRetrievalScores, UpdateRunMetrics, SetRunCompleted, PublishEvaluationCompleted,
                  PublishRetrievalQualityReported, GoesOn
    <3> QED BY <3>1 DEF Early
  <2>5. CASE UpdateRunStatusFailed(e) \/ PublishEvaluationFailed(e) \/ ExecutionRejects(e)
    <3>1. PICK pc : Goes(e, pc) /\ pc \in {"tellFailed", "gave up", "threw", "catch"}
      BY <2>5 DEF UpdateRunStatusFailed, PublishEvaluationFailed, ExecutionRejects
    <3> QED BY <3>1 DEF Early
  <2> QED BY <2>1, <2>2, <2>3, <2>4, <2>5
<1> QED BY <1>1, PcStep

LEMMA ReceiveStepSearches ==
    ASSUME EvalInv, EvalData, NEW e \in Executors, ReceiveRequest(e)
    PROVE  \A x \in Executors : Searches(executions'[x])
<1> PICK old : old = executions[e]
  OBVIOUS
<1> PICK pc, raced : /\ pc = IF run.status = "pending" THEN "start" ELSE "skipped"
                     /\ raced = {x \in Executors : EPc(x) = "start"}
  OBVIOUS
<1>1. executions = [x \in Executors |-> executions[x]] /\ old.pc = "idle"
  BY DEF EvalInv, ExecutionTypes, ReceiveRequest, EPc
<1>s. IsExecution(old)
  BY DEF EvalInv, ExecutionTypes
<1>p. PICK new : new = [old EXCEPT !.pc = pc, !.raced = raced]
  OBVIOUS
<1>2. executions' = [executions EXCEPT ![e] = new]
  BY <1>p DEF ReceiveRequest
<1>n. new = [pc |-> pc, items |-> old.items, batch |-> old.batch, answered |-> old.answered,
             raced |-> raced]
  BY <1>s, <1>p DEF IsExecution
<1>3. new.items = old.items /\ new.batch = old.batch /\ new.answered = old.answered
  BY <1>n
<1>4. Searches(new)
  BY <1>1, <1>3 DEF EvalData, Searches, Early
<1>5. executions'[e] = new /\ \A x \in Executors \ {e} : executions'[x] = executions[x]
  BY <1>1, <1>2
<1> QED BY <1>4, <1>5 DEF EvalData

LEMMA ItemsStepSearches ==
    ASSUME EvalAssumption, EvalInv, EvalData, NEW e \in Executors, GetDatasetItems(e)
    PROVE  \A x \in Executors : Searches(executions'[x])
<1> PICK old : old = executions[e]
  OBVIOUS
<1>1. executions = [x \in Executors |-> executions[x]] /\ old.pc = "items"
  BY DEF EvalInv, ExecutionTypes, GetDatasetItems, EPc
<1>s. IsExecution(old)
  BY DEF EvalInv, ExecutionTypes
<1>2. PICK batch \in NextBatch(datasetItems) :
         executions' = [executions EXCEPT ![e].pc = IF datasetItems = {} THEN "catch" ELSE "query",
                                          ![e].items = datasetItems, ![e].batch = batch]
  BY DEF GetDatasetItems
<1> PICK pc : pc = IF datasetItems = {} THEN "catch" ELSE "query"
  OBVIOUS
<1> PICK items : items = datasetItems
  OBVIOUS
<1>p. PICK new : new = [old EXCEPT !.pc = pc, !.items = items, !.batch = batch]
  OBVIOUS
<1>3. executions' = [executions EXCEPT ![e] = new]
  BY <1>2, <1>p
<1>n. new = [pc |-> pc, items |-> items, batch |-> batch, answered |-> old.answered,
             raced |-> old.raced]
  BY <1>s, <1>p DEF IsExecution
<1>m. new.pc = pc /\ new.items = items /\ new.batch = batch /\ new.answered = old.answered
  BY <1>n
<1>4. /\ new.pc = pc /\ new.items = datasetItems /\ new.batch = batch /\ new.answered = old.answered
      /\ pc \notin Early
  BY <1>m DEF Early
<1>5. old.answered = {}
  BY <1>1 DEF EvalData, Searches, Early
<1>6. batch \subseteq datasetItems /\ Cardinality(batch) <= QueryConcurrency
  BY <1>2, BatchesAreBounded DEF EvalInv, DatasetFacts
<1>7. Searches(new)
  BY <1>4, <1>5, <1>6 DEF Searches
<1>8. executions'[e] = new /\ \A x \in Executors \ {e} : executions'[x] = executions[x]
  BY <1>1, <1>3
<1> QED BY <1>7, <1>8 DEF EvalData

LEMMA SearchStepSearches ==
    ASSUME EvalAssumption, EvalInv, EvalData, NEW e \in Executors, Search(e)
    PROVE  \A x \in Executors : Searches(executions'[x])
<1> PICK old : old = executions[e]
  OBVIOUS
<1>1. /\ executions = [x \in Executors |-> executions[x]] /\ old.pc = "query"
      /\ old.items \in SUBSET EvalItems /\ Searches(old)
  BY DEF EvalInv, EvalData, ScoreFacts, ExecutionTypes, Search, EPc
<1>s. IsExecution(old)
  BY DEF EvalInv, ExecutionTypes
<1>t. old.pc = "query"
  BY <1>1
<1>a. PICK i \in executions[e].batch :
         LET x == [executions[e] EXCEPT !.answered = @ \cup {i}, !.batch = @ \ {i}]
             rest == x.items \ x.answered
         IN  \E batch \in IF x.batch = {} THEN NextBatch(rest) ELSE {x.batch} :
               executions' = [executions EXCEPT
                   ![e] = [x EXCEPT !.batch = batch, !.pc = IF rest = {} THEN "scores" ELSE @]]
  BY DEF Search
<1>b. i \in old.batch
  BY <1>a
<1>x. PICK y : y = [executions[e] EXCEPT !.answered = @ \cup {i}, !.batch = @ \ {i}]
  OBVIOUS
<1>2. y = [old EXCEPT !.answered = @ \cup {i}, !.batch = @ \ {i}]
  BY <1>x
<1>3. y = [pc |-> old.pc, items |-> old.items, batch |-> old.batch \ {i},
           answered |-> old.answered \cup {i}, raced |-> old.raced]
  BY <1>s, <1>2 DEF IsExecution
<1>f. /\ y.pc = old.pc /\ y.items = old.items /\ y.batch = old.batch \ {i}
      /\ y.answered = old.answered \cup {i} /\ y.raced = old.raced
  BY <1>3
<1>i. IsExecution(y)
  BY <1>3, <1>f DEF IsExecution
<1> PICK rest : rest = y.items \ y.answered
  OBVIOUS
<1>4. PICK batch \in IF y.batch = {} THEN NextBatch(rest) ELSE {y.batch} :
         executions' = [executions EXCEPT
             ![e] = [y EXCEPT !.batch = batch, !.pc = IF rest = {} THEN "scores" ELSE @]]
  BY Zenon, <1>a, <1>x
<1> PICK pc : pc = IF rest = {} THEN "scores" ELSE y.pc
  OBVIOUS
<1>p. PICK new : new = [y EXCEPT !.batch = batch, !.pc = pc]
  OBVIOUS
<1>g. [y EXCEPT !.batch = batch, !.pc = IF rest = {} THEN "scores" ELSE @] = new
  BY <1>p
<1>5. executions' = [executions EXCEPT ![e] = new]
  BY <1>4, <1>g
<1>n. new = [pc |-> pc, items |-> y.items, batch |-> batch, answered |-> y.answered, raced |-> y.raced]
  BY <1>i, <1>p DEF IsExecution
<1>m. new.pc = pc /\ new.items = y.items /\ new.batch = batch /\ new.answered = y.answered
  BY <1>n
<1>6. y.batch = old.batch \ {i} /\ rest = old.items \ (old.answered \cup {i})
  BY <1>f
<1>7. batch \subseteq old.items /\ Cardinality(batch) <= QueryConcurrency
  <2>1. CASE y.batch = {}
    <3>1. rest \in SUBSET EvalItems /\ batch \in NextBatch(rest)
      BY <1>1, <1>4, <1>6, <2>1
    <3>2. batch \subseteq rest /\ Cardinality(batch) <= QueryConcurrency
      BY <3>1, BatchesAreBounded
    <3> QED BY <1>6, <3>2
  <2>2. CASE y.batch # {}
    <3>1. batch = old.batch \ {i}
      BY <1>4, <1>6, <2>2
    <3>2. old.batch \in SUBSET EvalItems /\ batch \in SUBSET old.batch
      BY <1>1, <3>1 DEF Searches
    <3>3. Cardinality(batch) \in Nat /\ Cardinality(batch) <= Cardinality(old.batch)
      BY <3>2, CountsAreRanges
    <3>4. Cardinality(old.batch) \in Nat /\ Cardinality(old.batch) <= QueryConcurrency
      BY <1>1, <3>2, CountsAreRanges DEF Searches
    <3> QED BY <1>1, <3>2, <3>3, <3>4 DEF Searches, EvalAssumption
  <2> QED BY <2>1, <2>2
<1>8. /\ new.pc = pc /\ new.items = old.items /\ new.batch = batch /\ new.answered = old.answered \cup {i}
      /\ pc \notin Early
  BY <1>m, <1>f, <1>t DEF Early
<1>9. Searches(new)
  BY <1>1, <1>b, <1>7, <1>8 DEF Searches
<1>10. executions'[e] = new /\ \A x \in Executors \ {e} : executions'[x] = executions[x]
  BY <1>1, <1>5
<1> QED BY <1>9, <1>10 DEF EvalData

LEMMA ExecutionStepTypes ==
    ASSUME EvalAssumption, EvalInv, EvalData, NEW e \in Executors, Executes(e)
    PROVE  EvalData'
<1>1. UNCHANGED <<datasetVars, asked>>
  BY DEF Executes, PostRun, CreateRun, ReceiveRequest, SetRunStarted, GetDatasetItems, Search,
         SaveRetrievalScores, UpdateRunMetrics, SetRunCompleted, PublishEvaluationCompleted,
         PublishRetrievalQualityReported, UpdateRunStatusFailed, PublishEvaluationFailed, ExecutionRejects
<1>2. UNCHANGED <<dataset, datasetCalls, asked>>
  BY <1>1 DEF datasetVars
<1>3. \A x \in Executors : Searches(executions'[x])
  BY ExecutionStepSearches, ReceiveStepSearches, ItemsStepSearches, SearchStepSearches DEF Executes
<1>4. evalFaults' \in 0..MaxEvalFaults
  <2>1. EvalFault \/ evalFaults' = evalFaults
    BY DEF Executes, PostRun, CreateRun, ReceiveRequest, SetRunStarted, GetDatasetItems, Search,
           SaveRetrievalScores, UpdateRunMetrics, SetRunCompleted, PublishEvaluationCompleted, GoesOn,
           PublishRetrievalQualityReported, UpdateRunStatusFailed, PublishEvaluationFailed,
           ExecutionRejects, NoEvalFault
  <2> QED BY <2>1 DEF EvalFault, EvalData, EvalAssumption
<1>5. ASSUME NEW s \in scores' PROVE IsShare(s.precision) /\ IsShare(s.recall)
  <2>1. CASE SaveRetrievalScores(e) /\ s \notin scores
    <3> DEFINE P(i) == PrecisionAtK(RetrievedDocuments[i], RelevantAsRead(i), TopK)
               R(i) == RecallAtK(RetrievedDocuments[i], RelevantAsRead(i), TopK)
    <3>1. PICK i \in executions[e].items : s = [by |-> e, item |-> i, precision |-> P(i), recall |-> R(i)]
      BY <1>5, <2>1 DEF SaveRetrievalScores
    <3>2. IsShare(P(i)) /\ IsShare(R(i))
      BY ScoresAreShares DEF EvalInv, ScoreFacts
    <3> HIDE DEF P, R
    <3>3. s.precision = P(i) /\ s.recall = R(i)
      BY <3>1
    <3> QED BY <3>2, <3>3
  <2>2. scores' = scores \/ SaveRetrievalScores(e)
    BY DEF Executes, PostRun, CreateRun, ReceiveRequest, SetRunStarted, GetDatasetItems, Search,
           UpdateRunMetrics, SetRunCompleted, PublishEvaluationCompleted, runVars,
           PublishRetrievalQualityReported, UpdateRunStatusFailed, PublishEvaluationFailed, ExecutionRejects
  <2> QED BY <1>5, <2>1, <2>2 DEF EvalData
<1> QED BY <1>2, <1>3, <1>4, <1>5 DEF EvalData

(* A crash, the feedback, and who reads the run.                             *)
LEMMA OtherStepTypes ==
    ASSUME EvalAssumption, EvalInv, EvalData,
           \/ \E f \in Feedbacks : SaveFeedback(f) \/ ReportFeedback(f) \/ FeedbackFails(f)
           \/ GetRun \/ GetRetrievalScores \/ EvalCrash \/ UNCHANGED evalVars
    PROVE  EvalData'
<1>1. UNCHANGED <<datasetVars, runVars>>
  BY DEF SaveFeedback, ReportFeedback, FeedbackFails, GetRun, GetRetrievalScores, EvalCrash, evalVars
<1>2. UNCHANGED <<dataset, datasetCalls, scores>>
  BY <1>1 DEF datasetVars, runVars
<1>3. asked'.pc \in {"none", "run", "answered"}
  <2>1. asked = [pc |-> asked.pc, run |-> asked.run, scores |-> asked.scores]
    BY DEF EvalInv, AskedFacts
  <2>2. CASE GetRun
    <3>1. asked' = [pc |-> "run", run |-> run, scores |-> asked.scores]
      BY <2>1, <2>2 DEF GetRun
    <3> QED BY <3>1
  <2>3. CASE GetRetrievalScores
    <3>1. asked' = [pc |-> "answered", run |-> asked.run, scores |-> scores]
      BY <2>1, <2>3 DEF GetRetrievalScores
    <3> QED BY <3>1
  <2>4. CASE asked' = asked
    BY <2>4 DEF EvalData
  <2> QED BY <2>2, <2>3, <2>4 DEF SaveFeedback, ReportFeedback, FeedbackFails, EvalCrash, evalVars
<1>4. evalFaults' \in 0..MaxEvalFaults
  <2>1. EvalFault \/ evalFaults' = evalFaults
    BY DEF SaveFeedback, ReportFeedback, FeedbackFails, GetRun, GetRetrievalScores, EvalCrash, evalVars
  <2> QED BY <2>1 DEF EvalFault, EvalData, EvalAssumption
<1>5. ASSUME NEW x \in Executors PROVE Searches(executions'[x])
  <2>1. CASE executions' = executions
    BY <2>1 DEF EvalData
  <2>2. CASE EvalCrash /\ EPc(x) \in Executing
    <3> PICK raced : raced = executions[x].raced
      OBVIOUS
    <3> PICK g : g = [pc |-> "lost", items |-> {}, batch |-> {}, answered |-> {}, raced |-> raced]
      OBVIOUS
    <3>1. executions'[x] = g
      BY <2>2 DEF EvalCrash, Execution
    <3>2. g.items = {} /\ g.batch = {} /\ g.answered = {}
      OBVIOUS
    <3> QED BY <3>1, <3>2, NoBatch DEF Searches
  <2>3. CASE EvalCrash /\ EPc(x) \notin Executing
    <3>1. executions'[x] = executions[x]
      BY <2>3 DEF EvalCrash
    <3> QED BY <3>1 DEF EvalData
  <2> QED BY <2>1, <2>2, <2>3 DEF SaveFeedback, ReportFeedback, FeedbackFails, GetRun, GetRetrievalScores,
                                  evalVars
<1> QED BY <1>2, <1>3, <1>4, <1>5 DEF EvalData

LEMMA EvalDataInitially == ASSUME EvalAssumption, EvalInit PROVE EvalData
<1>1. Cardinality(EvalItems) \in Nat
  BY FS_CardinalityType DEF EvalAssumption
<1> PICK x : x = Execution("idle")
  OBVIOUS
<1>2. x.items = {} /\ x.batch = {} /\ x.answered = {}
  BY DEF Execution
<1>3. Searches(x)
  BY <1>2, NoBatch DEF Searches
<1>4. \A e \in Executors : executions[e] = x
  BY DEF EvalInit
<1>5. \A c \in DatasetCalls : datasetCalls[c].pc \in CallStages
  BY DEF EvalInit, NoCall, CallStages
<1>6. dataset.count = 0 /\ scores = {} /\ asked.pc = "none" /\ evalFaults = 0
  BY DEF EvalInit
<1> QED BY <1>1, <1>3, <1>4, <1>5, <1>6 DEF EvalData, EvalAssumption

(* For any deliveries, datasets and readers (eval-runner.ts, repository.ts): *)
(* precision and recall are between 0 and 1, no more searches are under way  *)
(* than max_query_concurrency, and those answered are of the run's items.    *)
THEOREM EvaluationTypeCorrect == EvalSpec => []EvalTypeOK
<1>1. EvalInit => EvalData
  BY EvalConstants, EvalDataInitially
<1>2. EvalInv /\ EvalData /\ [EvalNext]_evalVars => EvalData'
  <2> SUFFICES ASSUME EvalInv, EvalData, [EvalNext]_evalVars PROVE EvalData'
    OBVIOUS
  <2>1. ASSUME NEW c \in DatasetCalls,
               \/ CreateDataset(c) \/ InsertItems(c) \/ AddDatasetItem(c) \/ Recount(c)
               \/ DeleteItems(c) \/ DeleteDataset(c) \/ DatasetCallFails(c)
        PROVE  EvalData'
    BY <2>1, EvalConstants, DatasetStepTypes
  <2>2. ASSUME NEW e \in Executors, Executes(e) PROVE EvalData'
    BY <2>2, EvalConstants, ExecutionStepTypes
  <2>3. CASE PostRun \/ CreateRun
    <3>1. "api" \in Executors /\ Executes("api")
      BY <2>3 DEF Executors, Executes
    <3> QED BY <2>2, <3>1
  <2>4. ASSUME NEW e \in EvalRequests, ReceiveRequest(e) PROVE EvalData'
    <3>1. e \in Executors /\ Executes(e)
      BY <2>4 DEF Executors, Executes
    <3> QED BY <2>2, <3>1
  <2>5. ASSUME \/ \E f \in Feedbacks : SaveFeedback(f) \/ ReportFeedback(f) \/ FeedbackFails(f)
               \/ GetRun \/ GetRetrievalScores \/ EvalCrash \/ UNCHANGED evalVars
        PROVE  EvalData'
    BY <2>5, EvalConstants, OtherStepTypes
  <2>6. ASSUME NEW e \in Executors,
               \/ SetRunStarted(e) \/ GetDatasetItems(e) \/ Search(e) \/ SaveRetrievalScores(e)
               \/ UpdateRunMetrics(e) \/ SetRunCompleted(e) \/ PublishEvaluationCompleted(e)
               \/ PublishRetrievalQualityReported(e) \/ UpdateRunStatusFailed(e)
               \/ PublishEvaluationFailed(e) \/ ExecutionRejects(e)
        PROVE  EvalData'
    BY <2>2, <2>6 DEF Executes
  <2> QED BY <2>1, <2>3, <2>4, <2>5, <2>6 DEF EvalNext
<1>3. EvalInv /\ EvalData => EvalTypeOK
  <2> SUFFICES ASSUME EvalInv, EvalData PROVE EvalTypeOK
    OBVIOUS
  <2>1. dataset.state \in {"none", "stored", "deleted"} /\ datasetItems \subseteq EvalItems
    BY DEF EvalInv, DatasetTypes, DatasetFacts
  <2>2. run.status \in {"none", "pending", "running", "completed", "failed"}
    BY DEF EvalInv, RunFacts
  <2>3. \A s \in scores : s.by \in Executors /\ s.item \in EvalItems
    BY DEF EvalInv, ScoreFacts
  <2>4. \A e \in Executors : EPc(e) \in Executing \cup {"idle", "create", "refused", "skipped", "done",
                                                       "threw", "gave up", "lost"}
    BY DEF EvalInv, ExecutionTypes, Stages
  <2>5. \A e \in Executors : /\ executions[e].answered \subseteq executions[e].items
                             /\ Cardinality(executions[e].batch) <= QueryConcurrency
    BY DEF EvalData, Searches
  <2>6. /\ dataset.count \in 0..Cardinality(EvalItems) /\ asked.pc \in {"none", "run", "answered"}
        /\ evalFaults \in 0..MaxEvalFaults
    BY DEF EvalData
  <2>8. \A c \in DatasetCalls : datasetCalls[c].pc \in {"idle", "insert", "recount", "delete", "broken",
                                                       "overtaken"}
    BY DEF EvalData, CallStages
  <2>7. \A s \in scores : s.precision \in 0..1000 /\ s.recall \in 0..1000
    BY DEF EvalData, IsShare
  <2>9. \A s \in scores : s.by \in Executors /\ s.item \in EvalItems
                          /\ s.precision \in 0..1000 /\ s.recall \in 0..1000
    BY <2>3, <2>7
  <2>10. \A e \in Executors :
           /\ EPc(e) \in Executing \cup {"idle", "create", "refused", "skipped", "done", "threw",
                                         "gave up", "lost"}
           /\ executions[e].answered \subseteq executions[e].items
           /\ Cardinality(executions[e].batch) <= QueryConcurrency
    BY Zenon, <2>4, <2>5
  <2> QED BY <2>1, <2>2, <2>6, <2>8, <2>9, <2>10 DEF EvalTypeOK
<1> QED BY <1>1, <1>2, <1>3, EvaluationInvariant, PTL DEF EvalSpec

-----------------------------------------------------------------------------
(***************************************************************************)
(* The composition of MCMemories.  One service moves in each behaviour, and *)
(* every step is a step of each service or leaves it alone.                 *)
(***************************************************************************)
LEMMA MemoriesPartsGoOn ==
    ASSUME [MCNext]_MCVars
    PROVE  [GraphNext]_graphVars /\ [ProfileNext]_profileVars /\ [EvalNext]_evalVars
<1>1. CASE UNCHANGED MCVars
  BY <1>1, Zenon DEF MCVars
<1>2. CASE MCNext
  BY <1>2, Zenon DEF MCNext
<1> QED BY <1>1, <1>2

(* Every service that remembers keeps its types, whichever moves.            *)
THEOREM MemoriesTypeCorrect == MCSpec => []MemoriesTypeOK
<1>1. MCInit => GraphInit /\ ProfileInit /\ EvalInit
  BY DEF MCInit
<1> QED
  BY <1>1, MemoriesPartsGoOn, GraphTypeCorrect, ProfileTypeCorrect, EvaluationTypeCorrect, PTL
  DEF MCSpec, GraphSpec, ProfileSpec, EvalSpec, MemoriesTypeOK
=============================================================================
