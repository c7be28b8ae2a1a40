----------------------------- MODULE DataLemmas -----------------------------
(***************************************************************************)
(* Lemmas about operators of the community modules that several proofs     *)
(* use: Min, and the removal of an element from a sequence.                *)
(***************************************************************************)
EXTENDS Integers, SequencesExt, WellFoundedInduction, FiniteSetTheorems,
        SequenceTheorems, TLAPS

(* A non-empty set of naturals has a least element, and Min is it: what     *)
(* bitset searches and first occurrences rest on (MapManager.cpp:467,       *)
(* World::RemoveQueuedPlayer).                                              *)
LEMMA MinIsLeast ==
    ASSUME NEW S \in SUBSET Nat, S # {}
    PROVE  Min(S) \in S /\ \A j \in S : Min(S) <= j
<1> DEFINE LessThan == OpToRel(<, Nat)
<1>1. ASSUME NEW i \in Nat, NEW j \in Nat, j < i
      PROVE  <<j, i>> \in LessThan
  BY <1>1, Zenon DEF OpToRel
<1>2. \E i \in S : \A j \in S : ~ (<<j, i>> \in LessThan)
  BY NatLessThanWellFounded, WFMin, Zenon
<1> HIDE DEF LessThan
<1>3. PICK i \in S : \A j \in S : ~ (<<j, i>> \in LessThan)
  BY <1>2
<1>4. ASSUME NEW j \in S
      PROVE  i <= j
  <2>1. i \in Nat /\ j \in Nat /\ ~ (<<j, i>> \in LessThan)
    BY <1>3
  <2>2. ~ (j < i)
    BY <1>1, <2>1
  <2> QED BY <2>1, <2>2
<1>5. \E k \in S : \A j \in S : k <= j
  BY <1>4
<1> QED BY <1>5 DEF Min

\* Without its element number k a sequence is one shorter and keeps the others.
LEMMA RemoveAtProperties ==
    ASSUME NEW S, NEW q \in Seq(S), NEW k \in 1..Len(q)
    PROVE  /\ RemoveAt(q, k) \in Seq(S)
           /\ Len(RemoveAt(q, k)) = Len(q) - 1
           /\ \A i \in 1..Len(q) - 1 :
                RemoveAt(q, k)[i] = IF i < k THEN q[i] ELSE q[i + 1]
<1> DEFINE before == SubSeq(q, 1, k - 1)
           after == SubSeq(q, k + 1, Len(q))
<1>1. Len(q) \in Nat /\ k \in Nat /\ 1 <= k /\ k <= Len(q)
  OBVIOUS
<1>2. \A i \in 1..Len(q) : q[i] \in S
  OBVIOUS
<1>3. /\ before \in Seq(S) /\ Len(before) = k - 1
      /\ \A i \in 1..k - 1 : before[i] = q[i]
  <2>1. \A i \in 1..k - 1 : q[i] \in S
    BY <1>1, <1>2
  <2> QED BY <1>1, <2>1, SubSeqProperties
<1>4. /\ after \in Seq(S) /\ Len(after) = Len(q) - k
      /\ \A i \in 1..Len(q) - k : after[i] = q[k + i]
  <2>1. \A i \in k + 1..Len(q) : q[i] \in S
    BY <1>1, <1>2
  <2>2. /\ after \in Seq(S)
        /\ Len(after) = IF k + 1 <= Len(q) THEN Len(q) - (k + 1) + 1 ELSE 0
        /\ \A i \in 1..Len(q) - (k + 1) + 1 : after[i] = q[(k + 1) + i - 1]
    BY <1>1, <2>1, SubSeqProperties
  <2> QED BY <1>1, <2>2
<1> HIDE DEF before, after
<1>5. /\ before \o after \in Seq(S)
      /\ Len(before \o after) = Len(before) + Len(after)
      /\ \A i \in 1..Len(before) + Len(after) : (before \o after)[i] =
           IF i <= Len(before) THEN before[i] ELSE after[i - Len(before)]
  BY <1>3, <1>4, ConcatProperties
<1>6. RemoveAt(q, k) = before \o after
  BY DEF RemoveAt, before, after
<1>7. ASSUME NEW i \in 1..Len(q) - 1
      PROVE  (before \o after)[i] = IF i < k THEN q[i] ELSE q[i + 1]
  <2>1. CASE i < k
    BY <1>1, <1>3, <1>4, <1>5, <2>1
  <2>2. CASE i >= k
    <3>1. (before \o after)[i] = after[i - (k - 1)]
      BY <1>1, <1>3, <1>4, <1>5, <2>2
    <3>2. i - (k - 1) \in 1..Len(q) - k /\ k + (i - (k - 1)) = i + 1
      BY <1>1, <2>2
    <3> QED BY <1>1, <1>4, <2>2, <3>1, <3>2
  <2>3. i < k \/ i >= k
    BY <1>1
  <2> QED BY <2>1, <2>2, <2>3, Zenon
<1>8. Len(before) + Len(after) = Len(q) - 1
  BY <1>1, <1>3, <1>4
<1> QED BY <1>5, <1>6, <1>7, <1>8, Zenon

\* RemoveFirst removes some occurrence of an element that is there.
LEMMA RemoveFirstIsRemoveAt ==
    ASSUME NEW S, NEW q \in Seq(S), NEW s, Contains(q, s)
    PROVE  \E k \in 1..Len(q) : q[k] = s /\ RemoveFirst(q, s) = RemoveAt(q, k)
<1> DEFINE I == {i \in 1..Len(q) : q[i] = s}
<1>1. I # {} /\ I \subseteq Nat
  BY DEF Contains
<1>2. Min(I) \in I
  BY <1>1, MinIsLeast
<1>3. RemoveFirst(q, s) = RemoveAt(q, Min(I))
  BY <1>1 DEF RemoveFirst, SelectInSeq, Contains
<1> QED BY <1>2, <1>3

\* RemoveFirst takes away no other element.
LEMMA RemoveFirstKeeps ==
    ASSUME NEW S, NEW q \in Seq(S), NEW s, NEW t, Contains(q, s), Contains(q, t), t # s
    PROVE  Contains(RemoveFirst(q, s), t)
<1>1. PICK k \in 1..Len(q) : q[k] = s /\ RemoveFirst(q, s) = RemoveAt(q, k)
  BY RemoveFirstIsRemoveAt
<1>2. PICK i \in 1..Len(q) : q[i] = t
  BY DEF Contains
<1>3. /\ Len(RemoveAt(q, k)) = Len(q) - 1
      /\ \A j \in 1..Len(q) - 1 : RemoveAt(q, k)[j] = IF j < k THEN q[j] ELSE q[j + 1]
  BY RemoveAtProperties
<1>4. Len(q) \in Nat /\ i # k
  BY <1>1, <1>2
<1>5. CASE i < k
  <2>1. i \in 1..Len(q) - 1 /\ RemoveAt(q, k)[i] = t
    BY <1>2, <1>3, <1>4, <1>5
  <2> QED BY <1>1, <1>3, <2>1 DEF Contains
<1>6. CASE i > k
  <2>1. i - 1 \in 1..Len(q) - 1 /\ ~(i - 1 < k) /\ (i - 1) + 1 = i
    BY <1>4, <1>6
  <2>2. RemoveAt(q, k)[i - 1] = t
    BY <1>2, <1>3, <2>1
  <2> QED BY <1>1, <1>3, <2>1, <2>2 DEF Contains
<1> QED BY <1>4, <1>5, <1>6

(* Removing an element from a sequence without duplicates: it is gone, and  *)
(* nobody else.                                                             *)
LEMMA RemoveFirstOfInjective ==
    ASSUME NEW S, NEW q \in Seq(S), IsInjective(q), NEW s
    PROVE  /\ RemoveFirst(q, s) \in Seq(S) /\ IsInjective(RemoveFirst(q, s))
           /\ \A t : Contains(RemoveFirst(q, s), t) <=> Contains(q, t) /\ t # s
<1> DEFINE rest == RemoveFirst(q, s)
<1>1. CASE ~ Contains(q, s)
  BY <1>1 DEF RemoveFirst, Contains
<1>2. CASE Contains(q, s)
  <2>1. PICK k \in 1..Len(q) : q[k] = s /\ rest = RemoveAt(q, k)
    BY <1>2, RemoveFirstIsRemoveAt
  <2>2. /\ rest \in Seq(S) /\ Len(rest) = Len(q) - 1
        /\ \A i \in 1..Len(q) - 1 : rest[i] = IF i < k THEN q[i] ELSE q[i + 1]
    BY <2>1, RemoveAtProperties
  <2> DEFINE from(i) == IF i < k THEN i ELSE i + 1
  <2> HIDE DEF rest
  <2>3. Len(q) \in Nat /\ k \in Nat /\ 1 <= k /\ k <= Len(q)
    OBVIOUS
  <2>4. \A i \in 1..Len(rest) :
          from(i) \in 1..Len(q) /\ from(i) # k /\ rest[i] = q[from(i)]
    BY <2>2, <2>3
  <2>5. \A i, j \in 1..Len(rest) : from(i) = from(j) => i = j
    BY <2>2, <2>3
  <2> HIDE DEF from
  <2>6. \A i, j \in 1..Len(q) : q[i] = q[j] => i = j
    BY DEF IsInjective
  <2>7. IsInjective(rest)
    BY <2>2, <2>4, <2>5, <2>6 DEF IsInjective
  <2>8. \A t : Contains(rest, t) => Contains(q, t) /\ t # s
    BY <2>1, <2>4, <2>6 DEF Contains
  <2>9. \A t : Contains(q, t) /\ t # s => Contains(rest, t)
    BY <1>2, RemoveFirstKeeps DEF rest
  <2> QED BY <2>2, <2>7, <2>8, <2>9 DEF rest
<1> QED BY <1>1, <1>2

=============================================================================
