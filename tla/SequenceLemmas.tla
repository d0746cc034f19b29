--------------------------- MODULE SequenceLemmas ---------------------------
(***************************************************************************)
(* What pushing, popping and cutting do to the set of a sequence's elements,*)
(* the greatest of a set of integers, and products of them.                 *)
(***************************************************************************)
EXTENDS Integers, Sequences, SequencesExt, SequenceTheorems, FiniteSetTheorems, WellFoundedInduction, TLAPS

(* The elements of a sequence, by position.                                 *)
LEMMA ElementsByPosition ==
    ASSUME NEW S, NEW s \in Seq(S)
    PROVE  \A x : x \in ToSet(s) <=> \E i \in 1..Len(s) : s[i] = x
<1>1. DOMAIN s = 1..Len(s)
  BY LenProperties
<1> QED BY <1>1 DEF ToSet

(* LPUSH adds one element.                                                  *)
LEMMA ConsElements ==
    ASSUME NEW S, NEW s \in Seq(S), NEW e \in S
    PROVE  /\ Cons(e, s) \in Seq(S)
           /\ Cons(e, s) # <<>>
           /\ ToSet(Cons(e, s)) = ToSet(s) \cup {e}
<1> DEFINE c == <<e>> \o s
<1>1. /\ c \in Seq(S) /\ Len(c) = Len(s) + 1 /\ Len(s) \in Nat
      /\ \A i \in 1..(Len(s) + 1) : c[i] = IF i = 1 THEN e ELSE s[i - 1]
  OBVIOUS
<1>2. ASSUME NEW x \in ToSet(c) PROVE x \in ToSet(s) \cup {e}
  <2>1. PICK i \in 1..Len(c) : c[i] = x
    BY ZenonT(40), <1>1, ElementsByPosition
  <2>2. i = 1 \/ i - 1 \in 1..Len(s)
    BY <2>1, <1>1
  <2> QED BY <2>1, <2>2, <1>1, ElementsByPosition
<1>3. ASSUME NEW x \in ToSet(s) PROVE x \in ToSet(c)
  <2>1. PICK i \in 1..Len(s) : s[i] = x
    BY ElementsByPosition
  <2>2. i + 1 \in 1..Len(c) /\ c[i + 1] = x
    BY <2>1, <1>1
  <2> QED BY <2>2, <1>1, ElementsByPosition
<1>4. e \in ToSet(c)
  <2>1. 1 \in 1..Len(c) /\ c[1] = e
    BY <1>1
  <2> QED BY <2>1, <1>1, ElementsByPosition
<1>5. c # <<>>
  BY <1>1
<1> QED BY <1>1, <1>2, <1>3, <1>4, <1>5 DEF Cons

(* A contiguous part of a sequence.                                         *)
LEMMA PartOfSequence ==
    ASSUME NEW S, NEW s \in Seq(S), NEW m \in 1..(Len(s) + 1), NEW n \in 0..Len(s)
    PROVE  /\ SubSeq(s, m, n) \in Seq(S)
           /\ \A x : x \in ToSet(SubSeq(s, m, n)) <=> \E i \in m..n : s[i] = x
<1> DEFINE t == SubSeq(s, m, n)
<1>1. \A i \in m..n : s[i] \in S
  BY LenProperties
<1>2. /\ t \in Seq(S)
      /\ Len(t) = IF m <= n THEN n - m + 1 ELSE 0
      /\ \A i \in 1..(n - m + 1) : t[i] = s[m + i - 1]
  BY <1>1, SubSeqProperties
<1>3. ASSUME NEW x \in ToSet(t) PROVE \E i \in m..n : s[i] = x
  <2>1. PICK i \in 1..Len(t) : t[i] = x
    BY <1>2, ElementsByPosition
  <2>2. m + i - 1 \in m..n /\ s[m + i - 1] = x
    BY <2>1, <1>2
  <2> QED BY <2>2
<1>4. ASSUME NEW x, \E i \in m..n : s[i] = x PROVE x \in ToSet(t)
  <2>1. PICK i \in m..n : s[i] = x
    BY <1>4
  <2>2. i - m + 1 \in 1..Len(t) /\ t[i - m + 1] = x
    BY <2>1, <1>2
  <2> QED BY <2>2, <1>2, ElementsByPosition
<1> QED BY <1>2, <1>3, <1>4

(* Cutting a sequence in two keeps every element in one of the parts.       *)
LEMMA CutElements ==
    ASSUME NEW S, NEW s \in Seq(S), NEW n \in 0..Len(s)
    PROVE  /\ SubSeq(s, 1, n) \in Seq(S)
           /\ SubSeq(s, n + 1, Len(s)) \in Seq(S)
           /\ ToSet(s) = ToSet(SubSeq(s, 1, n)) \cup ToSet(SubSeq(s, n + 1, Len(s)))
<1>1. Len(s) \in Nat
  OBVIOUS
<1>2. /\ SubSeq(s, 1, n) \in Seq(S)
      /\ \A x : x \in ToSet(SubSeq(s, 1, n)) <=> \E i \in 1..n : s[i] = x
  BY <1>1, PartOfSequence
<1>3. /\ SubSeq(s, n + 1, Len(s)) \in Seq(S)
      /\ \A x : x \in ToSet(SubSeq(s, n + 1, Len(s)))
                  <=> \E i \in (n + 1)..Len(s) : s[i] = x
  BY <1>1, PartOfSequence
<1>4. \A x : (\E i \in 1..Len(s) : s[i] = x) <=>
             (\E i \in 1..n : s[i] = x) \/ (\E i \in (n + 1)..Len(s) : s[i] = x)
  BY <1>1
<1> QED BY <1>2, <1>3, <1>4, ElementsByPosition

(* RPOP removes the last element.                                           *)
LEMMA FrontElements ==
    ASSUME NEW S, NEW s \in Seq(S), s # <<>>
    PROVE  /\ Front(s) \in Seq(S) /\ Last(s) \in S
           /\ ToSet(s) = ToSet(Front(s)) \cup {Last(s)}
<1>1. Len(s) \in Nat \ {0} /\ s[Len(s)] \in S
  OBVIOUS
<1>2. /\ SubSeq(s, 1, Len(s) - 1) \in Seq(S)
      /\ \A x : x \in ToSet(SubSeq(s, 1, Len(s) - 1))
                  <=> \E i \in 1..(Len(s) - 1) : s[i] = x
  <2>1. 1 \in 1..(Len(s) + 1) /\ Len(s) - 1 \in 0..Len(s)
    BY <1>1
  <2> QED BY <2>1, PartOfSequence
<1>3. \A x : (\E i \in 1..Len(s) : s[i] = x) <=>
             (\E i \in 1..(Len(s) - 1) : s[i] = x) \/ x = s[Len(s)]
  BY <1>1
<1> QED BY <1>1, <1>2, <1>3, ElementsByPosition DEF Front, Last

(* Head and Tail.                                                           *)
LEMMA TailElements ==
    ASSUME NEW S, NEW s \in Seq(S), s # <<>>
    PROVE  /\ Tail(s) \in Seq(S) /\ Head(s) \in S
           /\ ToSet(s) = ToSet(Tail(s)) \cup {Head(s)}
<1>1. Len(s) \in Nat \ {0} /\ Head(s) = s[1] /\ s[1] \in S
  OBVIOUS
<1>2. /\ SubSeq(s, 2, Len(s)) \in Seq(S)
      /\ \A x : x \in ToSet(SubSeq(s, 2, Len(s))) <=> \E i \in 2..Len(s) : s[i] = x
  <2>1. 2 \in 1..(Len(s) + 1) /\ Len(s) \in 0..Len(s)
    BY <1>1
  <2> QED BY <2>1, PartOfSequence
<1>3. \A x : (\E i \in 1..Len(s) : s[i] = x) <=>
             (\E i \in 2..Len(s) : s[i] = x) \/ x = s[1]
  BY <1>1
<1>4. Tail(s) = SubSeq(s, 2, Len(s))
  BY TailIsSubSeq
<1> QED BY <1>1, <1>2, <1>3, <1>4, ElementsByPosition

(* Appending adds one element.                                              *)
LEMMA AppendElements ==
    ASSUME NEW S, NEW s \in Seq(S), NEW e \in S
    PROVE  /\ Append(s, e) \in Seq(S)
           /\ ToSet(Append(s, e)) = ToSet(s) \cup {e}
<1> DEFINE a == Append(s, e)
<1>1. /\ a \in Seq(S) /\ Len(a) = Len(s) + 1 /\ Len(s) \in Nat
      /\ \A i \in 1..Len(s) : a[i] = s[i]
      /\ a[Len(s) + 1] = e
  BY AppendProperties
<1> HIDE DEF a
<1>2. ASSUME NEW x \in ToSet(a) PROVE x \in ToSet(s) \cup {e}
  <2>1. PICK i \in 1..Len(a) : a[i] = x
    BY <1>1, ElementsByPosition
  <2> QED BY <2>1, <1>1, ElementsByPosition
<1>3. ASSUME NEW x \in ToSet(s) PROVE x \in ToSet(a)
  <2>1. PICK i \in 1..Len(s) : s[i] = x
    BY ElementsByPosition
  <2>2. i \in 1..Len(a) /\ a[i] = x
    BY <2>1, <1>1
  <2> QED BY <2>2, <1>1, ElementsByPosition
<1>4. e \in ToSet(a)
  <2>1. Len(a) \in 1..Len(a) /\ a[Len(a)] = e
    BY <1>1
  <2> QED BY <2>1, <1>1, ElementsByPosition
<1>5. a \in Seq(S) /\ ToSet(a) = ToSet(s) \cup {e}
  BY <1>1, <1>2, <1>3, <1>4
<1> QED BY <1>5 DEF a

(* Removing position k keeps all elements but the one at k.                 *)
LEMMA RemoveAtElements ==
    ASSUME NEW S, NEW s \in Seq(S), NEW k \in 1..Len(s)
    PROVE  /\ RemoveAt(s, k) \in Seq(S)
           /\ ToSet(s) \subseteq ToSet(RemoveAt(s, k)) \cup {s[k]}
           /\ ToSet(RemoveAt(s, k)) \subseteq ToSet(s)
<1> DEFINE a == SubSeq(s, 1, k - 1)
           b == SubSeq(s, k + 1, Len(s))
<1>1. Len(s) \in Nat
  OBVIOUS
<1>2. 1 \in 1..(Len(s) + 1) /\ k - 1 \in 0..Len(s) /\ k + 1 \in 1..(Len(s) + 1)
      /\ Len(s) \in 0..Len(s)
  BY <1>1
<1>3. /\ a \in Seq(S)
      /\ \A x : x \in ToSet(a) <=> \E i \in 1..(k - 1) : s[i] = x
  BY <1>2, PartOfSequence
<1>4. /\ b \in Seq(S)
      /\ \A x : x \in ToSet(b) <=> \E i \in (k + 1)..Len(s) : s[i] = x
  BY <1>2, PartOfSequence
<1> HIDE DEF a, b
<1>5. /\ a \o b \in Seq(S) /\ Len(a \o b) = Len(a) + Len(b)
      /\ Len(a) \in Nat /\ Len(b) \in Nat
      /\ \A i \in 1..(Len(a) + Len(b)) :
            (a \o b)[i] = IF i <= Len(a) THEN a[i] ELSE b[i - Len(a)]
  BY <1>3, <1>4, ConcatProperties
<1>6. ASSUME NEW x \in ToSet(a) PROVE x \in ToSet(a \o b)
  <2>1. PICK i \in 1..Len(a) : a[i] = x
    BY <1>3, ElementsByPosition
  <2>2. i \in 1..Len(a \o b) /\ (a \o b)[i] = x
    BY <2>1, <1>5
  <2> QED BY <2>2, <1>5, ElementsByPosition
<1>7. ASSUME NEW x \in ToSet(b) PROVE x \in ToSet(a \o b)
  <2>1. PICK i \in 1..Len(b) : b[i] = x
    BY <1>4, ElementsByPosition
  <2>2. Len(a) + i \in 1..Len(a \o b) /\ (a \o b)[Len(a) + i] = x
    BY <2>1, <1>5
  <2> QED BY <2>2, <1>5, ElementsByPosition
<1>8. \A x \in ToSet(s) : x = s[k] \/ x \in ToSet(a) \/ x \in ToSet(b)
  <2> SUFFICES ASSUME NEW x \in ToSet(s)
               PROVE  x = s[k] \/ x \in ToSet(a) \/ x \in ToSet(b)
    OBVIOUS
  <2>1. PICK i \in 1..Len(s) : s[i] = x
    BY ElementsByPosition
  <2>2. i \in 1..(k - 1) \/ i = k \/ i \in (k + 1)..Len(s)
    BY <2>1, <1>1
  <2> QED BY <2>1, <2>2, <1>3, <1>4
<1>9. RemoveAt(s, k) = a \o b
  BY DEF RemoveAt, a, b
<1>10. ASSUME NEW x \in ToSet(a \o b) PROVE x \in ToSet(s)
  <2>1. PICK i \in 1..(Len(a) + Len(b)) : (a \o b)[i] = x
    BY <1>5, ElementsByPosition
  <2>2. CASE i <= Len(a)
    <3>1. i \in 1..Len(a) /\ a[i] = x
      BY <1>5, <2>1, <2>2
    <3>2. x \in ToSet(a)
      BY <1>3, <3>1, ElementsByPosition
    <3>3. PICK j \in 1..(k - 1) : s[j] = x
      BY <1>3, <3>2
    <3>4. j \in 1..Len(s)
      BY <1>1
    <3> QED BY <3>3, <3>4, ElementsByPosition
  <2>3. CASE i > Len(a)
    <3>1. i - Len(a) \in 1..Len(b) /\ b[i - Len(a)] = x
      BY <1>5, <2>1, <2>3
    <3>2. x \in ToSet(b)
      BY <1>4, <3>1, ElementsByPosition
    <3>3. PICK j \in (k + 1)..Len(s) : s[j] = x
      BY <1>4, <3>2
    <3>4. j \in 1..Len(s)
      BY <1>1
    <3> QED BY <3>3, <3>4, ElementsByPosition
  <2> QED BY <1>5, <2>2, <2>3
<1> QED BY <1>5, <1>6, <1>7, <1>8, <1>9, <1>10

(* The empty list has no elements.                                          *)
LEMMA EmptyElements == ToSet(<<>>) = {}
  BY DEF ToSet

(* A finite nonempty set of integers has a largest one.                      *)
LEMMA MaxOfIntegers ==
    ASSUME NEW S, S \subseteq Int, IsFiniteSet(S), S # {}
    PROVE  Max(S) \in S /\ \A y \in S : Max(S) >= y
<1> DEFINE Above(x) == {y \in S : y > x}
           T == {Above(x) : x \in S}
           R == StrictSubsetOrdering(S)
           F == FiniteSubsetsOf(S)
<1>2. IsWellFoundedOn(R, F)
  BY FS_StrictSubsetOrderingWellFounded
<1>3. T \subseteq F /\ T # {}
  <2>1. \A x \in S : Above(x) \in SUBSET S
    OBVIOUS
  <2>2. F = SUBSET S
    BY FS_FiniteSubsetsOfFinite
  <2>3. T \subseteq SUBSET S /\ T # {}
    <3> HIDE DEF Above
    <3> QED BY <2>1
  <2> QED BY <2>2, <2>3
<1>4. PICK t \in T : \A u \in T : ~(<<u, t>> \in R)
  <2> HIDE DEF T, R, F
  <2> QED BY <1>2, <1>3, WFMin
<1>5. PICK x \in S : t = Above(x)
  BY <1>4
<1>6. ASSUME NEW y \in S, y > x PROVE FALSE
  <2>1. Above(y) \in T /\ Above(y) \in SUBSET S /\ t \in SUBSET S
    BY <1>5
  <2>2. Above(y) \subseteq t /\ y \in t /\ y \notin Above(y)
    <3>2. y \in Int /\ x \in Int /\ t = {z \in S : z > x} /\ Above(y) = {z \in S : z > y}
      BY <1>5
    <3>3. \A z \in S : z > y => z > x
      BY <1>6, <3>2
    <3>4. y \in t /\ ~(y > y)
      BY <1>6, <3>2
    <3>5. Above(y) \subseteq t
      BY <3>2, <3>3
    <3> QED BY <3>2, <3>4, <3>5
  <2> DEFINE a == Above(y)
  <2> HIDE DEF a
  <2>3. <<a, t>> \in R
    <3>1. a \in SUBSET S /\ a \subseteq t /\ a # t
      BY <2>1, <2>2 DEF a
    <3> QED BY <2>1, <3>1 DEF StrictSubsetOrdering
  <2> QED BY <1>4, <2>1, <2>3 DEF a
<1>7. \A y \in S : x >= y
  BY <1>6
<1> QED BY <1>7 DEF Max

(* So has a nonempty set of indices.                                         *)
LEMMA MaxOfIndices ==
    ASSUME NEW n \in Nat, NEW S, S \subseteq 1..n, S # {}
    PROVE  Max(S) \in S /\ \A y \in S : Max(S) >= y
<1>1. IsFiniteSet(1..n)
  BY FS_Interval
<1>2. IsFiniteSet(S)
  BY <1>1, FS_Subset
<1>3. S \subseteq Int
  OBVIOUS
<1> QED BY <1>2, <1>3, MaxOfIntegers

(* A greater number of times is no less.                                    *)
LEMMA TimesIsMonotone ==
    ASSUME NEW a \in Int, NEW b \in Int, NEW m \in Nat, a <= b
    PROVE  a * m <= b * m
<1>1. b - a \in Nat /\ (b - a) * m >= 0
  OBVIOUS
<1>2. (b - a) * m = b * m - a * m
  OBVIOUS
<1> QED BY <1>1, <1>2

(* A finite set as a sequence has the elements of the set.                  *)
LEMMA SetAsSequence ==
    ASSUME NEW S, IsFiniteSet(S)
    PROVE  SetToSeq(S) \in Seq(S) /\ ToSet(SetToSeq(S)) = S
<1>1. PICK n \in Nat : n = Cardinality(S)
  BY FS_CardinalityType
<1>2. \E f \in [1..n -> S] : IsInjective(f)
  <2>1. PICK f : f \in Bijection(1..n, S)
    BY <1>1, FS_CardinalityType DEF ExistsBijection
  <2> QED BY <2>1 DEF Bijection, Injection, Surjection
<1>3. PICK q : q = SetToSeq(S)
  OBVIOUS
<1>4. q \in [1..n -> S] /\ IsInjective(q)
  BY <1>1, <1>2, <1>3 DEF SetToSeq
<1>5. q \in Injection(1..n, S)
  BY <1>4 DEF Injection
<1>6. Cardinality(1..n) = n
  BY FS_Interval
<1>7. q \in Surjection(1..n, S)
  BY <1>1, <1>5, <1>6, FS_Injection
<1>8. q \in Seq(S) /\ Len(q) = n
  BY <1>4
<1>9. \A x : x \in ToSet(q) <=> \E i \in 1..n : q[i] = x
  BY <1>8, ElementsByPosition
<1>10. ToSet(q) = S
  BY <1>4, <1>7, <1>9 DEF Surjection
<1> QED BY <1>3, <1>8, <1>10
=============================================================================
