------------------------- MODULE InstanceLocksProofs -------------------------
(***************************************************************************)
(* Proofs about InstanceIds and InstanceLocks, for any players, groups and *)
(* dungeons, any kinds of dungeons and any bounds.                         *)
(***************************************************************************)
EXTENDS InstanceLocks, DataLemmas

-----------------------------------------------------------------------------
(* The pool of instance ids: the operations of MapManager, called in any    *)
(* order, hand out the lowest free id and never run past the bitset.        *)

(* GenerateInstanceId keeps the pool sound: wherever the ids in use lie,    *)
(* the id that is next is the lowest free one.                              *)
THEOREM GenerateKeepsSound ==
    ASSUME NEW q, PoolSound(q)
    PROVE  PoolSound(GenerateInstanceId(q))
<1> DEFINE rest == q.free \ {q.next}
           after == {i \in rest : i > q.next}
<1>1. /\ q = [next |-> q.next, size |-> q.size, free |-> q.free]
      /\ q.next \in Nat /\ q.size \in Nat /\ q.free \in SUBSET Nat
  BY DEF PoolSound, Pools
<1>2. /\ q.next \in q.free /\ 1 <= q.next /\ q.next < q.size
      /\ \A i \in q.free : 1 <= i /\ i < q.size /\ q.next <= i
  BY DEF PoolSound
<1>3. after = rest
  BY <1>1, <1>2
<1>4. CASE after = {}
  <2>1. GenerateInstanceId(q) =
          [next |-> q.size, free |-> rest \cup {q.size}, size |-> q.size + 1]
    BY <1>4 DEF GenerateInstanceId
  <2>2. rest \cup {q.size} = {q.size}
    BY <1>3, <1>4
  <2> QED BY <1>1, <1>2, <2>1, <2>2 DEF PoolSound, Pools
<1>5. CASE after # {}
  <2>1. GenerateInstanceId(q) = [next |-> Min(rest), size |-> q.size, free |-> rest]
    BY <1>1, <1>3, <1>5 DEF GenerateInstanceId
  <2>2. Min(rest) \in rest /\ \A j \in rest : Min(rest) <= j
    <3>1. rest \in SUBSET Nat /\ rest # {}
      BY <1>1, <1>3, <1>5
    <3> HIDE DEF rest
    <3> QED BY <3>1, MinIsLeast, Zenon
  <2> HIDE DEF rest
  <2>3. rest \subseteq q.free
    BY DEF rest
  <2>4. rest \in SUBSET Nat /\ Min(rest) \in Nat
    BY <1>1, <2>2, <2>3
  <2>5. \A i \in rest : 1 <= i /\ i < q.size /\ Min(rest) <= i
    BY <1>2, <2>2, <2>3
  <2>6. [next |-> Min(rest), size |-> q.size, free |-> rest] \in Pools
    BY <1>1, <2>4 DEF Pools
  <2> QED BY <2>1, <2>2, <2>5, <2>6 DEF PoolSound
<1> QED BY <1>4, <1>5

(* An id that GenerateInstanceId hands out was free, and is taken until     *)
(* FreeInstanceId gets it: no other id changes but the one that the bitset  *)
(* is extended by.                                                          *)
THEOREM GeneratedIsTaken ==
    ASSUME NEW q, PoolSound(q)
    PROVE  /\ q.next \in q.free
           /\ q.next \notin GenerateInstanceId(q).free
           /\ \A id \in 0..(q.size - 1) \ {q.next} :
                id \in GenerateInstanceId(q).free <=> id \in q.free
<1> DEFINE rest == q.free \ {q.next}
           after == {i \in rest : i > q.next}
<1>1. /\ q = [next |-> q.next, size |-> q.size, free |-> q.free]
      /\ q.next \in Nat /\ q.size \in Nat /\ q.free \in SUBSET Nat
      /\ q.next \in q.free /\ q.next < q.size
  BY DEF PoolSound, Pools
<1>2. CASE after = {}
  <2>1. GenerateInstanceId(q).free = rest \cup {q.size}
    BY <1>2 DEF GenerateInstanceId
  <2> QED BY <1>1, <2>1
<1>3. CASE after # {}
  <2>1. GenerateInstanceId(q).free = rest
    BY <1>1, <1>3 DEF GenerateInstanceId
  <2> QED BY <1>1, <2>1
<1> QED BY <1>2, <1>3

(* FreeInstanceId keeps the pool sound, for an id that was handed out.      *)
THEOREM FreeKeepsSound ==
    ASSUME NEW q, PoolSound(q), NEW id \in 1..(q.size - 1)
    PROVE  PoolSound(FreeInstanceId(q, id))
<1> DEFINE next == IF id < q.next THEN id ELSE q.next
           free == q.free \cup {id}
           new == [q EXCEPT !.next = next, !.free = free]
<1>1. /\ q \in Pools /\ q.next \in Nat /\ q.size \in Nat /\ q.free \in SUBSET Nat
      /\ id \in Nat /\ 1 <= id /\ id < q.size
      /\ q.next \in q.free
      /\ \A i \in q.free : 1 <= i /\ i < q.size /\ q.next <= i
  BY DEF PoolSound, Pools
<1>2. FreeInstanceId(q, id) = new
  BY Zenon DEF FreeInstanceId
<1>3. next \in Nat /\ next \in free /\ \A i \in free : 1 <= i /\ i < q.size /\ next <= i
  BY <1>1
<1>4. free \in SUBSET Nat
  BY <1>1
<1> HIDE DEF next, free
<1>5. new \in Pools /\ new.next = next /\ new.free = free /\ new.size = q.size
  BY <1>1, <1>3, <1>4 DEF Pools
<1> HIDE DEF new
<1> QED BY <1>2, <1>3, <1>5 DEF PoolSound

(* The pool that InitInstanceIds makes is sound, whatever the highest id in *)
(* the database.                                                           *)
THEOREM InitSound ==
    ASSUME NEW highest \in Nat
    PROVE  PoolSound(InitInstanceIds(highest))
<1> DEFINE free == 1..(highest + 1)
           q == [next |-> 1, size |-> highest + 2, free |-> free]
<1>1. free \in SUBSET Nat /\ 1 \in free
      /\ \A i \in free : 1 <= i /\ i < highest + 2
  OBVIOUS
<1>2. InitInstanceIds(highest) = q
  BY DEF InitInstanceIds
<1> HIDE DEF free
<1>3. q \in Pools /\ q.next = 1 /\ q.size = highest + 2 /\ q.free = free
  BY <1>1 DEF Pools
<1> HIDE DEF q
<1> QED BY <1>1, <1>2, <1>3 DEF PoolSound

(* RegisterInstanceId keeps the pool sound if the id after one that equals  *)
(* _nextInstanceId is still free: what the ascending order in which Load    *)
(* registers the ids is for.                                                *)
THEOREM RegisterKeepsSound ==
    ASSUME NEW q, PoolSound(q), NEW id \in Nat,
           id = q.next => id + 1 \in q.free
    PROVE  PoolSound(RegisterInstanceId(q, id))
<1> DEFINE next == IF q.next = id THEN q.next + 1 ELSE q.next
           free == q.free \ {id}
           new == [q EXCEPT !.free = free, !.next = next]
<1>1. /\ q \in Pools /\ q.next \in Nat /\ q.size \in Nat /\ q.free \in SUBSET Nat
      /\ q.next \in q.free
      /\ \A i \in q.free : 1 <= i /\ i < q.size /\ q.next <= i
  BY DEF PoolSound, Pools
<1>2. RegisterInstanceId(q, id) = new
  BY Zenon DEF RegisterInstanceId
<1>3. next \in Nat /\ next \in free /\ \A i \in free : 1 <= i /\ i < q.size /\ next <= i
  BY <1>1
<1>4. free \in SUBSET Nat
  BY <1>1
<1> HIDE DEF next, free
<1>5. new \in Pools /\ new.next = next /\ new.free = free /\ new.size = q.size
  BY <1>1, <1>3, <1>4 DEF Pools
<1> HIDE DEF new
<1> QED BY <1>2, <1>3, <1>5 DEF PoolSound

(* What RegisterInstanceIds computes, id by id.  The recursive function is   *)
(* there: else there would be a least length up to which there is none.      *)
LEMMA RegisteredOneByOne ==
    ASSUME NEW q, q.size \in Nat, NEW ids
    PROVE  \E upTo :
             /\ RegisterInstanceIds(q, ids) = upTo[q.size]
             /\ upTo[0] = q
             /\ \A n \in 1..q.size :
                  upTo[n] = IF n \in ids THEN RegisterInstanceId(upTo[n - 1], n) ELSE upTo[n - 1]
<1> DEFINE D == 0..q.size
           step(f, n) == IF n = 0 THEN q
                         ELSE IF n \in ids THEN RegisterInstanceId(f[n - 1], n) ELSE f[n - 1]
           Right(f, k) == \A n \in D : n <= k => f[n] = step(f, n)
           missing == {k \in Nat : ~ \E f : Right(f, k)}
<1>1. missing = {}
  <2> SUFFICES ASSUME missing # {} PROVE FALSE
    OBVIOUS
  <2> DEFINE k == Min(missing)
  <2>1. missing \in SUBSET Nat
    OBVIOUS
  <2>2. k \in missing /\ \A j \in missing : k <= j
    <3> HIDE DEF missing
    <3> QED BY <2>1, MinIsLeast
  <2> HIDE DEF k
  <2>3. k \in Nat /\ ~ \E f : Right(f, k)
    BY <2>2
  <2>4. CASE k = 0
    <3>1. Right([n \in D |-> q], 0)
      OBVIOUS
    <3> QED BY <2>3, <2>4, <3>1
  <2>5. CASE k # 0
    <3>1. k - 1 \in Nat /\ k - 1 \notin missing
      <4> HIDE DEF missing
      <4> QED BY <2>1, <2>2, <2>5
    <3>2. PICK f : Right(f, k - 1)
      <4> HIDE DEF Right
      <4> QED BY <3>1
    <3> DEFINE g == [n \in D |-> step(f, n)]
    <3>3. ASSUME NEW n \in D, n <= k
          PROVE  g[n] = step(g, n)
      <4>1. CASE n = 0
        BY <4>1
      <4>2. CASE n # 0
        <5>1. n - 1 \in D /\ n - 1 <= k - 1
          BY <2>3, <3>3, <4>2
        <5>2. g[n - 1] = f[n - 1]
          BY <3>2, <5>1
        <5> QED BY <4>2, <5>2
      <4> QED BY <4>1, <4>2
    <3> QED BY <2>3, <3>3
  <2> QED BY <2>4, <2>5
<1>2. PICK f : Right(f, q.size)
  BY <1>1
<1> DEFINE g == [n \in D |-> f[n]]
           upTo == CHOOSE u : u = [n \in D |-> step(u, n)]
<1>3. g = [n \in D |-> step(g, n)]
  <2>1. ASSUME NEW n \in D
        PROVE  f[n] = step(g, n)
    <3>1. f[n] = step(f, n)
      BY <1>2
    <3>2. n # 0 => g[n - 1] = f[n - 1]
      OBVIOUS
    <3> QED BY <3>1, <3>2
  <2> QED BY <2>1
<1>4. upTo = [n \in D |-> step(upTo, n)]
  <2> HIDE DEF g
  <2> QED BY <1>3
<1>5. RegisterInstanceIds(q, ids) = upTo[q.size]
  BY DEF RegisterInstanceIds
<1> HIDE DEF upTo
<1>6. \A n \in D : upTo[n] = step(upTo, n)
  BY <1>4
<1>7. upTo[0] = q
  BY <1>6
<1>8. \A n \in 1..q.size : n \in D /\ n # 0
  OBVIOUS
<1> QED BY <1>5, <1>6, <1>7, <1>8

(* After a restart the pool is sound, and of the ids it was made for, those *)
(* registered are taken and all the others free (InstanceLockMgr::Load).    *)
THEOREM RegisteredSound ==
    ASSUME NEW highest \in Nat, NEW ids \in SUBSET (1..highest)
    PROVE  LET q == RegisterInstanceIds(InitInstanceIds(highest), ids)
           IN  PoolSound(q) /\ q.size = highest + 2 /\ q.free = 1..(highest + 1) \ ids
<1> DEFINE start == InitInstanceIds(highest)
           Good(p, n) == /\ PoolSound(p) /\ p.size = highest + 2
                         /\ p.free = 1..(highest + 1) \ (ids \cap 1..n)
<1>1. PoolSound(start) /\ start.size = highest + 2 /\ start.free = 1..(highest + 1)
  BY InitSound DEF InitInstanceIds
<1> HIDE DEF start
<1>2. PICK upTo : /\ RegisterInstanceIds(start, ids) = upTo[highest + 2]
                  /\ upTo[0] = start
                  /\ \A n \in 1..(highest + 2) :
                       upTo[n] = IF n \in ids THEN RegisterInstanceId(upTo[n - 1], n)
                                 ELSE upTo[n - 1]
  BY <1>1, RegisteredOneByOne
<1> DEFINE wrong == {n \in Nat : n <= highest + 2 /\ ~ Good(upTo[n], n)}
<1>3. wrong = {}
  <2> SUFFICES ASSUME wrong # {} PROVE FALSE
    OBVIOUS
  <2> DEFINE n == Min(wrong)
  <2>1. wrong \in SUBSET Nat
    OBVIOUS
  <2>2. n \in wrong /\ \A j \in wrong : n <= j
    <3> HIDE DEF wrong
    <3> QED BY <2>1, MinIsLeast
  <2> HIDE DEF n
  <2>3. n \in Nat /\ n <= highest + 2 /\ ~ Good(upTo[n], n)
    BY <2>2
  <2>4. Good(upTo[0], 0)
    BY <1>1, <1>2
  <2>5. n \in 1..(highest + 2) /\ n - 1 \in Nat
    BY <2>3, <2>4
  <2> DEFINE p == upTo[n - 1]
  <2>6. Good(p, n - 1)
    BY <2>2, <2>3, <2>5
  <2> HIDE DEF p
  <2>7. CASE n \notin ids
    <3>1. upTo[n] = p
      BY <1>2, <2>5, <2>7 DEF p
    <3>2. ids \cap 1..n = ids \cap 1..(n - 1)
      BY <2>5, <2>7
    <3> QED BY <2>3, <2>6, <3>1, <3>2
  <2>8. CASE n \in ids
    <3>1. upTo[n] = RegisterInstanceId(p, n)
      BY <1>2, <2>5, <2>8 DEF p
    <3>2. n + 1 \in p.free
      BY <2>5, <2>6, <2>8
    <3>3. PoolSound(RegisterInstanceId(p, n))
      BY <2>3, <2>6, <3>2, RegisterKeepsSound
    <3>4. p \in Pools
      BY <2>6 DEF PoolSound
    <3>5. /\ RegisterInstanceId(p, n).size = p.size
          /\ RegisterInstanceId(p, n).free = p.free \ {n}
      BY <3>4 DEF RegisterInstanceId, Pools
    <3>6. ids \cap 1..n = (ids \cap 1..(n - 1)) \cup {n}
      BY <2>5, <2>8
    <3> QED BY <2>3, <2>6, <3>1, <3>3, <3>5, <3>6
  <2> QED BY <2>7, <2>8
<1>4. Good(upTo[highest + 2], highest + 2)
  BY <1>3
<1>5. ids \cap 1..(highest + 2) = ids
  <2>1. \A i \in ids : i \in 1..highest
    OBVIOUS
  <2>2. \A i \in 1..highest : i \in 1..(highest + 2)
    OBVIOUS
  <2> QED BY <2>1, <2>2
<1> QED BY <1>2, <1>4, <1>5 DEF start

-----------------------------------------------------------------------------
(* The invariant: InstanceLockMgr.  m is a value of mgr.                    *)

Locks == [Players -> [Dungeons -> LockRecord \cup {Nil}]]

MgrRecord ==
    [perm : Locks, temp : Locks, byId : [Ids -> Data \cup {NoData, Expired}],
     instanceId : [Data -> Ids \cup {0}], rows : SUBSET Ids]

\* A lock of d has shared data if it is to an instance id.
LockOK(d, lock, new) ==
    lock # Nil => /\ lock.new = new
                  /\ IF kind[d] = "bound" THEN lock.data \in Data ELSE lock.data = NoData

(* Types; a lock is new as long as it is temporary.                         *)
MgrOK(m) ==
    /\ m \in MgrRecord
    /\ \A p \in Players, d \in Dungeons :
         LockOK(d, m.perm[p][d], FALSE) /\ LockOK(d, m.temp[p][d], TRUE)

Carries(lock, id, x) == lock # Nil /\ lock.id = id /\ lock.data = x

\* Somebody is saved to the raid id, with x as its state.
Holds(m, id, x) ==
    \E p \in Players, d \in Dungeons :
      kind[d] = "bound" /\ (Carries(m.perm[p][d], id, x) \/ Carries(m.temp[p][d], id, x))

(* A raid that somebody is saved to has one state, which is its own and can *)
(* be found; one that can be found or was saved belongs to somebody, and a  *)
(* saved one is in the database.                                            *)
RaidsOK(m) ==
    /\ \A id \in Ids, x \in Data : Holds(m, id, x) =>
         /\ m.byId[id] = x /\ m.instanceId[x] \in {0, id}
         /\ \A other \in Ids : Holds(m, other, x) => other = id
    /\ \A id \in Ids : m.byId[id] \in Data => Holds(m, id, m.byId[id])
    /\ \A x \in Data : m.instanceId[x] # 0 =>
         Holds(m, m.instanceId[x], x) /\ m.instanceId[x] \in m.rows

-----------------------------------------------------------------------------
(* What the operations of InstanceLockMgr keep.                             *)

LEMMA Constants ==
    /\ MaxId \in Nat /\ MaxData \in Nat /\ MaxId <= MaxData /\ IsFiniteSet(Players)
    /\ Nil \notin LockRecord /\ Nil # "perm" /\ Nil # "temp"
    /\ Nil \notin Tables \X Players /\ Nil \notin Players \cup Groups
    /\ Nil \notin Dungeons \X Ids /\ Dangling \notin Tables \X Players
    /\ NoData \notin Data /\ Expired \notin Data /\ Expired # NoData /\ Ids \subseteq Data
    /\ 0 \notin Ids
BY ConstantsAssumption, NilAssumption DEF Tables, Data, Ids, NoData, Expired

LEMMA LockTypes ==
    ASSUME NEW m, MgrOK(m), NEW p \in Players, NEW d \in Dungeons
    PROVE  /\ m.perm[p][d] \in LockRecord \cup {Nil} /\ m.temp[p][d] \in LockRecord \cup {Nil}
           /\ m.perm[p][d] # Nil => m.perm[p][d] \in LockRecord /\ m.perm[p][d].id \in Ids
           /\ m.temp[p][d] # Nil => m.temp[p][d] \in LockRecord /\ m.temp[p][d].id \in Ids
<1>1. m.perm[p][d] \in LockRecord \cup {Nil} /\ m.temp[p][d] \in LockRecord \cup {Nil}
  BY DEF MgrOK, MgrRecord, Locks
<1>2. \A lock \in LockRecord : lock.id \in Ids
  BY DEF LockRecord
<1> QED BY <1>1, <1>2

\* The locks in use, slot by slot.
LEMMA UsedSlots ==
    ASSUME NEW m, NEW p \in Players, NEW d \in Dungeons
    PROVE  /\ <<"perm", p, d>> \in Used(m) <=> m.perm[p][d] # Nil
           /\ <<"temp", p, d>> \in Used(m) <=> m.temp[p][d] # Nil
           /\ LockAt(m, <<"perm", p, d>>) = m.perm[p][d]
           /\ LockAt(m, <<"temp", p, d>>) = m.temp[p][d]
BY DEF Used, LockAt, Slot, Tables

LEMMA UsedCases ==
    ASSUME NEW m, NEW y \in Used(m)
    PROVE  \E p \in Players, d \in Dungeons :
             \/ y = <<"perm", p, d>> /\ LockAt(m, y) = m.perm[p][d] /\ m.perm[p][d] # Nil
             \/ y = <<"temp", p, d>> /\ LockAt(m, y) = m.temp[p][d] /\ m.temp[p][d] # Nil
<1>1. PICK t \in Tables, p \in Players, d \in Dungeons : y = <<t, p, d>>
  BY DEF Used
<1> QED BY <1>1 DEF Used, LockAt, Slot, Tables

\* Shared data are alive as long as a lock has them.
LEMMA LiveIsHeld ==
    ASSUME NEW m, MgrOK(m)
    PROVE  /\ LiveData(m) \subseteq Data
           /\ \A x \in Data : x \in LiveData(m) <=> \E id \in Ids : Holds(m, id, x)
<1>1. ASSUME NEW x \in LiveData(m)
      PROVE  x \in Data /\ \E id \in Ids : Holds(m, id, x)
  <2>1. PICK y \in Used(m) : x = LockAt(m, y).data /\ x # NoData
    BY DEF LiveData
  <2>2. PICK p \in Players, d \in Dungeons :
             \/ y = <<"perm", p, d>> /\ LockAt(m, y) = m.perm[p][d] /\ m.perm[p][d] # Nil
             \/ y = <<"temp", p, d>> /\ LockAt(m, y) = m.temp[p][d] /\ m.temp[p][d] # Nil
    BY UsedCases
  <2>3. LockOK(d, m.perm[p][d], FALSE) /\ LockOK(d, m.temp[p][d], TRUE)
    BY DEF MgrOK
  <2>4. LockAt(m, y).id \in Ids /\ kind[d] = "bound" /\ x \in Data
    BY <2>1, <2>2, <2>3, LockTypes DEF LockOK
  <2>5. Carries(m.perm[p][d], LockAt(m, y).id, x) \/ Carries(m.temp[p][d], LockAt(m, y).id, x)
    BY <2>1, <2>2 DEF Carries
  <2> QED BY <2>4, <2>5 DEF Holds
<1>2. ASSUME NEW x \in Data, NEW id \in Ids, Holds(m, id, x)
      PROVE  x \in LiveData(m)
  <2>1. PICK p \in Players, d \in Dungeons :
             Carries(m.perm[p][d], id, x) \/ Carries(m.temp[p][d], id, x)
    BY <1>2 DEF Holds
  <2>2. \E y \in Used(m) : LockAt(m, y).data = x
    <3>1. CASE Carries(m.perm[p][d], id, x)
      BY <3>1, UsedSlots, Zenon DEF Carries
    <3>2. CASE Carries(m.temp[p][d], id, x)
      BY <3>2, UsedSlots, Zenon DEF Carries
    <3> QED BY <2>1, <3>1, <3>2
  <2> QED BY <2>2, Constants DEF LiveData
<1> QED BY <1>1, <1>2

(* The end of shared data takes nothing away from those who still have a    *)
(* lock: after is m with other locks, to no raid that nobody was saved to.  *)
LEMMA DeleteKeeps ==
    ASSUME NEW m, MgrOK(m), NEW after, MgrOK(after),
           after.byId = m.byId, after.instanceId = m.instanceId, after.rows = m.rows
    PROVE  LET n == OnSharedInstanceLockDataDelete(after, LiveData(m) \ LiveData(after))
           IN  /\ MgrOK(n) /\ n.perm = after.perm /\ n.temp = after.temp
               /\ RaidsOK(m)
                  /\ (\A id \in Ids, x \in Data : Holds(after, id, x) => Holds(m, id, x))
                    => RaidsOK(n)
<1> DEFINE dead == LiveData(m) \ LiveData(after)
           n == OnSharedInstanceLockDataDelete(after, dead)
           gone == {i \in Ids : /\ \E x \in dead : after.instanceId[x] = i
                                /\ after.byId[i] \in dead \cup {Expired}}
           byId == [i \in Ids |-> IF i \in gone THEN NoData
                                  ELSE IF after.byId[i] \in dead THEN Expired ELSE after.byId[i]]
           instanceId == [x \in Data |-> IF x \in dead THEN 0 ELSE after.instanceId[x]]
<1>1. after \in MgrRecord
  BY DEF MgrOK
<1>2. n = [after EXCEPT !.byId = byId, !.instanceId = instanceId, !.rows = after.rows \ gone]
  BY Zenon DEF OnSharedInstanceLockDataDelete
<1>3. /\ after.byId \in [Ids -> Data \cup {NoData, Expired}]
      /\ after.instanceId \in [Data -> Ids \cup {0}] /\ after.rows \subseteq Ids
  BY <1>1 DEF MgrRecord
<1>4. /\ byId \in [Ids -> Data \cup {NoData, Expired}]
      /\ instanceId \in [Data -> Ids \cup {0}]
  BY <1>3
<1> HIDE DEF byId, instanceId, gone, dead, n
<1>5. /\ n \in MgrRecord /\ n.perm = after.perm /\ n.temp = after.temp /\ n.byId = byId
      /\ n.instanceId = instanceId /\ n.rows = after.rows \ gone
  BY <1>1, <1>2, <1>3, <1>4 DEF MgrRecord
<1>6. MgrOK(n)
  BY <1>5 DEF MgrOK
<1>7. ASSUME RaidsOK(m), \A id \in Ids, x \in Data : Holds(after, id, x) => Holds(m, id, x)
      PROVE  RaidsOK(n)
  <2>1. \A id \in Ids, x \in Data : Holds(n, id, x) <=> Holds(after, id, x)
    BY <1>5 DEF Holds
  <2>2. \A x \in Data : x \in dead <=> /\ \E id \in Ids : Holds(m, id, x)
                                       /\ ~ \E id \in Ids : Holds(after, id, x)
    BY LiveIsHeld DEF dead
  <2>3. ASSUME NEW id \in Ids, NEW x \in Data, Holds(n, id, x)
        PROVE  /\ n.byId[id] = x /\ n.instanceId[x] \in {0, id}
               /\ \A other \in Ids : Holds(n, other, x) => other = id
    <3>1. Holds(m, id, x) /\ x \notin dead /\ x # Expired
      BY <1>7, <2>1, <2>2, <2>3, Constants
    <3>2. after.byId[id] = x /\ after.instanceId[x] \in {0, id}
      BY <1>7, <3>1 DEF RaidsOK
    <3>3. id \notin gone
      BY <3>1, <3>2 DEF gone
    <3>4. \A other \in Ids : Holds(n, other, x) => other = id
      BY <1>7, <2>1, <3>1 DEF RaidsOK
    <3> QED BY <1>5, <3>1, <3>2, <3>3, <3>4 DEF byId, instanceId
  <2>4. ASSUME NEW id \in Ids, n.byId[id] \in Data
        PROVE  Holds(n, id, n.byId[id])
    <3> DEFINE x == n.byId[id]
    <3>1. x = after.byId[id] /\ x \notin dead
      BY <1>5, <2>4, Constants DEF byId
    <3>2. Holds(m, id, x)
      BY <1>7, <2>4, <3>1 DEF RaidsOK
    <3>3. PICK other \in Ids : Holds(after, other, x)
      BY <2>2, <2>4, <3>1, <3>2
    <3>4. Holds(m, other, x)
      BY <1>7, <2>4, <3>3
    <3>5. other = id
      BY <1>7, <2>4, <3>2, <3>4 DEF RaidsOK
    <3> QED BY <2>1, <2>4, <3>3, <3>5
  <2>5. ASSUME NEW x \in Data, n.instanceId[x] # 0
        PROVE  Holds(n, n.instanceId[x], x) /\ n.instanceId[x] \in n.rows
    <3> DEFINE id == n.instanceId[x]
    <3>1. id = after.instanceId[x] /\ x \notin dead /\ id \in Ids
      BY <1>3, <1>5, <2>5 DEF instanceId
    <3>2. Holds(m, id, x) /\ id \in after.rows
      BY <1>7, <2>5, <3>1 DEF RaidsOK
    <3>3. PICK other \in Ids : Holds(after, other, x)
      BY <2>2, <3>1, <3>2
    <3>4. Holds(m, other, x)
      BY <1>7, <3>3
    <3>5. other = id /\ after.byId[id] = x /\ x # Expired
      BY <1>7, <3>1, <3>2, <3>4, Constants DEF RaidsOK
    <3>6. id \notin gone
      BY <3>1, <3>5 DEF gone
    <3> QED BY <1>5, <2>1, <3>1, <3>2, <3>3, <3>5, <3>6
  <2> QED BY <2>3, <2>4, <2>5 DEF RaidsOK
<1> QED BY <1>5, <1>6, <1>7 DEF n, dead

(* The players S are saved to id and nothing else changes: the permanent    *)
(* lock is there, in place of one that is not active, and the temporary one *)
(* has become it.  A lock to a raid was one to this id before.              *)
SavedTo(m, n, S, d, id) ==
    /\ \A p \in Players, e \in Dungeons : ~ (p \in S /\ e = d) =>
         n.perm[p][e] = m.perm[p][e] /\ n.temp[p][e] = m.temp[p][e]
    /\ \A p \in S :
         /\ n.perm[p][d] # Nil /\ n.perm[p][d].id = id
         /\ n.temp[p][d] = IF Active(m.perm[p][d]) THEN m.temp[p][d] ELSE Nil
         /\ kind[d] = "bound" =>
              IF Active(m.perm[p][d]) THEN m.perm[p][d].id = id
              ELSE m.temp[p][d] = Nil \/ m.temp[p][d].id = id

LEMMA UpdateSharedKeeps ==
    ASSUME NEW m, MgrOK(m), NEW id \in Ids, UpdateSharedInstanceLock(m, id) # Failed
    PROVE  LET n == UpdateSharedInstanceLock(m, id)
           IN  /\ MgrOK(n) /\ n.perm = m.perm /\ n.temp = m.temp
               /\ RaidsOK(m) => RaidsOK(n)
<1> DEFINE data == m.byId[id]
           n == [m EXCEPT !.instanceId[data] = id, !.rows = m.rows \cup {id}]
<1>1. data \in Data /\ m.instanceId[data] \in {0, id} /\ UpdateSharedInstanceLock(m, id) = n
  BY Zenon DEF UpdateSharedInstanceLock
<1>2. m \in MgrRecord
  BY DEF MgrOK
<1>3. /\ n \in MgrRecord /\ n.perm = m.perm /\ n.temp = m.temp /\ n.byId = m.byId
      /\ n.instanceId = [m.instanceId EXCEPT ![data] = id] /\ n.rows = m.rows \cup {id}
  BY <1>1, <1>2 DEF MgrRecord
<1> HIDE DEF n
<1>4. MgrOK(n)
  BY <1>3 DEF MgrOK
<1>5. ASSUME RaidsOK(m) PROVE RaidsOK(n)
  <2>1. \A i \in Ids, x \in Data : Holds(n, i, x) <=> Holds(m, i, x)
    BY <1>3 DEF Holds
  <2>2. Holds(m, id, data)
    BY <1>1, <1>5 DEF RaidsOK
  <2>3. \A x \in Data : n.instanceId[x] = IF x = data THEN id ELSE m.instanceId[x]
    BY <1>1, <1>2, <1>3 DEF MgrRecord
  <2>4. \A i \in Ids : Holds(m, i, data) => i = id
    BY <1>1, <1>5, <2>2 DEF RaidsOK
  <2> HIDE DEF data
  <2>5. ASSUME NEW i \in Ids, NEW x \in Data, Holds(n, i, x)
        PROVE  /\ n.byId[i] = x /\ n.instanceId[x] \in {0, i}
               /\ \A other \in Ids : Holds(n, other, x) => other = i
    <3>1. Holds(m, i, x) /\ n.byId[i] = x /\ m.instanceId[x] \in {0, i}
      BY <1>3, <1>5, <2>1, <2>5 DEF RaidsOK
    <3>2. \A other \in Ids : Holds(n, other, x) => other = i
      BY <1>5, <2>1, <3>1 DEF RaidsOK
    <3> QED BY <2>3, <2>4, <3>1, <3>2
  <2>6. \A i \in Ids : n.byId[i] \in Data => Holds(n, i, n.byId[i])
    BY <1>3, <1>5, <2>1 DEF RaidsOK
  <2>7. ASSUME NEW x \in Data, n.instanceId[x] # 0
        PROVE  Holds(n, n.instanceId[x], x) /\ n.instanceId[x] \in n.rows
    <3>1. CASE x = data
      BY <1>1, <1>3, <2>1, <2>2, <2>3, <3>1
    <3>2. CASE x # data
      <4>1. m.instanceId[x] \in Ids
        BY <1>2, <2>3, <2>7, <3>2 DEF MgrRecord
      <4> QED BY <1>3, <1>5, <2>1, <2>3, <2>7, <3>2, <4>1 DEF RaidsOK
    <3> QED BY <3>1, <3>2
  <2> QED BY <2>5, <2>6, <2>7 DEF RaidsOK
<1> QED BY <1>1, <1>3, <1>4, <1>5

(* A player is saved to an instance.  As what the code asserts holds, a     *)
(* raid's lock is to this raid, and to the state of it that can be found.   *)
LEMMA UpdateForPlayerKeeps ==
    ASSUME NEW m, MgrOK(m), NEW p \in Players, NEW d \in Dungeons, NEW id \in Ids,
           UpdateInstanceLockForPlayer(m, p, d, id) # Failed
    PROVE  LET n == UpdateInstanceLockForPlayer(m, p, d, id)
           IN  MgrOK(n) /\ SavedTo(m, n, {p}, d, id) /\ (RaidsOK(m) => RaidsOK(n))
<1> DEFINE bound == kind[d] = "bound"
           old == m.perm[p][d]
           temp == m.temp[p][d]
           made == ~Active(old) /\ temp = Nil
           new == [id |-> id, data |-> IF bound THEN m.byId[id] ELSE NoData,
                   new |-> TRUE, expired |-> FALSE, extended |-> FALSE]
           lock == IF Active(old) THEN old ELSE IF ~made THEN temp ELSE new
           asserted == /\ m.byId[id] \in Data
                       /\ lock.id = id /\ lock.data = m.byId[id]
                       /\ made => m.instanceId[lock.data] = id
           saved == [lock EXCEPT !.id = id, !.new = FALSE, !.expired = FALSE,
                                 !.extended = @ /\ ~lock.expired]
           left == IF Active(old) THEN temp ELSE Nil
           after == [m EXCEPT !.perm[p][d] = saved,
                              !.temp[p][d] = IF Active(old) THEN @ ELSE Nil]
           n == OnSharedInstanceLockDataDelete(after, LiveData(m) \ LiveData(after))
<1>1. (bound => asserted) /\ UpdateInstanceLockForPlayer(m, p, d, id) = n
  BY Zenon DEF UpdateInstanceLockForPlayer
<1>2. /\ m \in MgrRecord /\ LockOK(d, old, FALSE) /\ LockOK(d, temp, TRUE)
      /\ old \in LockRecord \cup {Nil} /\ temp \in LockRecord \cup {Nil}
  BY LockTypes DEF MgrOK
<1>3. /\ lock \in LockRecord
      /\ lock.data = IF bound THEN m.byId[id] ELSE NoData
  <2>1. CASE Active(old)
    BY <1>1, <1>2, <2>1 DEF Active, LockOK
  <2>2. CASE ~Active(old) /\ temp # Nil
    BY <1>1, <1>2, <2>2 DEF LockOK
  <2>3. CASE made
    <3>1. m.byId[id] \in Data \/ ~bound
      BY <1>1
    <3>2. new \in LockRecord
      BY <3>1 DEF LockRecord
    <3> QED BY <2>3, <3>2
  <2> QED BY <2>1, <2>2, <2>3
<1>4. bound => m.byId[id] \in Data /\ lock.id = id
  BY <1>1
<1>5. bound => IF Active(old) THEN old.id = id ELSE temp = Nil \/ temp.id = id
  BY <1>4
<1> HIDE DEF lock, asserted, new
<1>6. saved \in LockRecord /\ saved.id = id /\ saved.data = lock.data /\ saved.new = FALSE
  BY <1>3 DEF LockRecord
<1>7. saved # Nil
  BY <1>6, Constants
<1> HIDE DEF saved
<1>8. /\ after \in MgrRecord /\ after.byId = m.byId /\ after.instanceId = m.instanceId
      /\ after.rows = m.rows
      /\ after.perm = [m.perm EXCEPT ![p][d] = saved]
      /\ after.temp = [m.temp EXCEPT ![p][d] = left]
  BY <1>2, <1>6 DEF MgrRecord, Locks
<1> HIDE DEF after, n
<1>9. \A q \in Players, e \in Dungeons :
        /\ after.perm[q][e] = IF q = p /\ e = d THEN saved ELSE m.perm[q][e]
        /\ after.temp[q][e] = IF q = p /\ e = d THEN left ELSE m.temp[q][e]
  BY <1>2, <1>8 DEF MgrRecord, Locks
<1>10. LockOK(d, saved, FALSE) /\ LockOK(d, left, TRUE)
  BY <1>2, <1>3, <1>4, <1>6 DEF LockOK
<1>11. MgrOK(after)
  <2> SUFFICES ASSUME NEW q \in Players, NEW e \in Dungeons
               PROVE  LockOK(e, after.perm[q][e], FALSE) /\ LockOK(e, after.temp[q][e], TRUE)
    BY <1>8 DEF MgrOK
  <2>1. LockOK(e, m.perm[q][e], FALSE) /\ LockOK(e, m.temp[q][e], TRUE)
    BY DEF MgrOK
  <2> HIDE DEF left
  <2> QED BY <1>9, <1>10, <2>1
<1>12. /\ MgrOK(n) /\ n.perm = after.perm /\ n.temp = after.temp
       /\ RaidsOK(m) /\ (\A i \in Ids, x \in Data : Holds(after, i, x) => Holds(m, i, x))
            => RaidsOK(n)
  BY <1>8, <1>11, DeleteKeeps DEF n
<1>13. SavedTo(m, n, {p}, d, id)
  BY <1>5, <1>6, <1>7, <1>9, <1>12 DEF SavedTo
<1>14. ASSUME RaidsOK(m), NEW i \in Ids, NEW x \in Data, Holds(after, i, x)
       PROVE  Holds(m, i, x)
  <2>1. PICK q \in Players, e \in Dungeons : kind[e] = "bound" /\
             (Carries(after.perm[q][e], i, x) \/ Carries(after.temp[q][e], i, x))
    BY <1>14 DEF Holds
  <2>2. CASE Carries(m.perm[q][e], i, x) \/ Carries(m.temp[q][e], i, x)
    BY <2>1, <2>2 DEF Holds
  <2>3. CASE q = p /\ e = d /\ Carries(saved, i, x)
    <3>1. bound /\ i = id /\ x = m.byId[id]
      BY <1>3, <1>6, <2>1, <2>3 DEF Carries
    <3> QED BY <1>4, <1>14, <3>1 DEF RaidsOK
  <2> QED BY <1>9, <2>1, <2>2, <2>3 DEF Carries
<1> QED BY <1>1, <1>12, <1>13, <1>14

\* The order in which FoldSet takes the players of a map, and a step of it.
FirstOf(s) == CHOOSE p \in s : TRUE

UpdateNext(n, s, d, id) ==
    IF n = Failed THEN Failed ELSE UpdateInstanceLockForPlayer(n, FirstOf(s), d, id)

UpdatesUpTo(upTo, m, S, d, id) ==
    /\ UpdateInstanceLockForPlayers(m, S, d, id) = upTo[S]
    /\ \A s \in SUBSET S :
         upTo[s] = IF s = {} THEN m ELSE UpdateNext(upTo[s \ {FirstOf(s)}], s, d, id)

(* The fold over the players of a map, subset by subset.  The function that *)
(* FoldSet computes is there: else there would be a least size of subsets   *)
(* up to which there is none.                                               *)
LEMMA UpdatedOneByOne ==
    ASSUME NEW m, NEW S, IsFiniteSet(S), NEW d, NEW id
    PROVE  \E upTo : UpdatesUpTo(upTo, m, S, d, id)
<1> DEFINE step(f, s) == IF s = {} THEN m ELSE UpdateNext(f[s \ {FirstOf(s)}], s, d, id)
           Right(f, k) == \A s \in SUBSET S : Cardinality(s) <= k => f[s] = step(f, s)
           missing == {k \in Nat : ~ \E f : Right(f, k)}
<1>1. ASSUME NEW s \in SUBSET S
      PROVE  /\ IsFiniteSet(s) /\ Cardinality(s) \in Nat /\ Cardinality(s) <= Cardinality(S)
             /\ s # {} => /\ FirstOf(s) \in s /\ s \ {FirstOf(s)} \in SUBSET S
                          /\ Cardinality(s \ {FirstOf(s)}) = Cardinality(s) - 1
             /\ Cardinality(s) = 0 <=> s = {}
  <2>1. IsFiniteSet(s) /\ Cardinality(s) \in Nat /\ Cardinality(s) <= Cardinality(S)
    BY FS_Subset, FS_CardinalityType
  <2>2. s # {} => FirstOf(s) \in s
    BY DEF FirstOf
  <2>3. s # {} => Cardinality(s \ {FirstOf(s)}) = Cardinality(s) - 1
    BY <2>1, <2>2, FS_RemoveElement
  <2>4. Cardinality(s) = 0 <=> s = {}
    BY <2>1, FS_EmptySet
  <2> QED BY <2>1, <2>2, <2>3, <2>4
<1>2. Cardinality(S) \in Nat
  BY FS_CardinalityType
<1>3. missing = {}
  <2> SUFFICES ASSUME missing # {} PROVE FALSE
    OBVIOUS
  <2> DEFINE k == Min(missing)
  <2>1. missing \in SUBSET Nat
    OBVIOUS
  <2>2. k \in missing /\ \A j \in missing : k <= j
    <3> HIDE DEF missing
    <3> QED BY <2>1, MinIsLeast
  <2> HIDE DEF k
  <2>3. k \in Nat /\ ~ \E f : Right(f, k)
    BY <2>2
  <2>4. \E f : \A s \in SUBSET S : Cardinality(s) < k => f[s] = step(f, s)
    <3>1. CASE k = 0
      <4>1. ASSUME NEW s \in SUBSET S, Cardinality(s) < k PROVE FALSE
        <5>1. Cardinality(s) \in Nat
          BY <1>1
        <5> QED BY <3>1, <4>1, <5>1
      <4> HIDE DEF step
      <4> QED BY <4>1
    <3>2. CASE k # 0
      <4>1. k - 1 \in Nat /\ k - 1 \notin missing
        <5> HIDE DEF missing
        <5> QED BY <2>1, <2>2, <2>3, <3>2
      <4>2. PICK f : Right(f, k - 1)
        <5> HIDE DEF Right
        <5> QED BY <4>1
      <4>3. ASSUME NEW s \in SUBSET S, Cardinality(s) < k
            PROVE  Cardinality(s) <= k - 1
        <5>1. Cardinality(s) \in Nat /\ k \in Nat
          BY <1>1, <2>3
        <5> QED BY <4>3, <5>1
      <4> HIDE DEF step
      <4> QED BY <4>2, <4>3
    <3> QED BY <3>1, <3>2
  <2>5. PICK f : \A s \in SUBSET S : Cardinality(s) < k => f[s] = step(f, s)
    BY <2>4
  <2> DEFINE g == [s \in SUBSET S |-> step(f, s)]
  <2>6. ASSUME NEW s \in SUBSET S, Cardinality(s) <= k
        PROVE  g[s] = step(g, s)
    <3>1. CASE s = {}
      BY <3>1
    <3>2. CASE s # {}
      <4> DEFINE rest == s \ {FirstOf(s)}
      <4>1. rest \in SUBSET S /\ Cardinality(rest) < k
        BY <1>1, <2>3, <2>6, <3>2
      <4>2. g[rest] = f[rest]
        <5> HIDE DEF rest
        <5>1. f[rest] = step(f, rest)
          <6> HIDE DEF step
          <6> QED BY <2>5, <4>1
        <5>2. g[rest] = step(f, rest)
          <6> HIDE DEF step
          <6> QED BY <4>1
        <5> QED BY <5>1, <5>2
      <4>3. step(f, s) = step(g, s)
        BY <4>2
      <4> QED BY <4>3
    <3> QED BY <3>1, <3>2
  <2>7. Right(g, k)
    <3> HIDE DEF g, step
    <3> QED BY <2>6
  <2> QED BY <2>3, <2>7
<1>4. PICK f : Right(f, Cardinality(S))
  <2> HIDE DEF Right
  <2> QED BY <1>2, <1>3
<1> DEFINE g == [s \in SUBSET S |-> f[s]]
           upTo == CHOOSE u : u = [s \in SUBSET S |-> step(u, s)]
<1>5. ASSUME NEW s \in SUBSET S
      PROVE  f[s] = step(g, s)
  <2>1. f[s] = step(f, s)
    <3> HIDE DEF step
    <3> QED BY <1>1, <1>4
  <2>2. s # {} => g[s \ {FirstOf(s)}] = f[s \ {FirstOf(s)}]
    BY <1>1
  <2> QED BY <2>1, <2>2
<1>6. g = [s \in SUBSET S |-> step(g, s)]
  <2> HIDE DEF step
  <2> QED BY <1>5
<1>7. upTo = [s \in SUBSET S |-> step(upTo, s)]
  <2> HIDE DEF g
  <2> QED BY <1>6
<1>8. UpdateInstanceLockForPlayers(m, S, d, id) = upTo[S]
  BY DEF UpdateInstanceLockForPlayers, FoldSet, MapThenFoldSet, UpdateNext, FirstOf
<1> HIDE DEF upTo
<1>9. \A s \in SUBSET S : upTo[s] = step(upTo, s)
  <2> HIDE DEF step
  <2> QED BY <1>7
<1> QED BY <1>8, <1>9 DEF UpdatesUpTo

(* All players of a map are saved to its instance.                          *)
LEMMA UpdateForPlayersKeeps ==
    ASSUME NEW m, m = Failed \/ MgrOK(m), NEW S \in SUBSET Players, NEW d \in Dungeons, NEW id \in Ids,
           UpdateInstanceLockForPlayers(m, S, d, id) # Failed
    PROVE  LET n == UpdateInstanceLockForPlayers(m, S, d, id)
           IN  m # Failed /\ MgrOK(n) /\ SavedTo(m, n, S, d, id) /\ (RaidsOK(m) => RaidsOK(n))
<1> DEFINE Good(n, s) == n # Failed =>
             m # Failed /\ MgrOK(n) /\ SavedTo(m, n, s, d, id) /\ (RaidsOK(m) => RaidsOK(n))
<1>1. IsFiniteSet(S)
  BY Constants, FS_Subset
<1>2. PICK upTo : UpdatesUpTo(upTo, m, S, d, id)
  <2> HIDE DEF Good
  <2> QED BY <1>1, UpdatedOneByOne
<1> DEFINE wrong == {s \in SUBSET S : ~ Good(upTo[s], s)}
           sizes == {Cardinality(s) : s \in wrong}
<1>3. \A s \in SUBSET S : IsFiniteSet(s) /\ Cardinality(s) \in Nat
  BY <1>1, FS_Subset, FS_CardinalityType
<1>4. wrong = {}
  <2> SUFFICES ASSUME wrong # {} PROVE FALSE
    OBVIOUS
  <2>1. sizes \in SUBSET Nat /\ sizes # {}
    <3>1. wrong \subseteq SUBSET S
      OBVIOUS
    <3> HIDE DEF wrong
    <3> QED BY <1>3, <3>1
  <2>2. Min(sizes) \in sizes /\ \A j \in sizes : Min(sizes) <= j
    <3> HIDE DEF sizes
    <3> QED BY <2>1, MinIsLeast
  <2>3. PICK s \in wrong : \A r \in wrong : Cardinality(s) <= Cardinality(r)
    <3> HIDE DEF wrong
    <3> QED BY <2>2
  <2>4. CASE s = {}
    <3>1. upTo[s] = m
      BY <1>2, <2>4 DEF UpdatesUpTo
    <3>2. SavedTo(m, m, {}, d, id)
      BY DEF SavedTo
    <3> QED BY <2>3, <2>4, <3>1, <3>2
  <2>5. CASE s # {}
    <3> DEFINE p == FirstOf(s)
               r == s \ {p}
               n == upTo[r]
    <3>1. p \in s /\ p \in Players /\ r \in SUBSET S
      BY <2>3, <2>5 DEF FirstOf
    <3>2. Cardinality(r) < Cardinality(s)
      <4>1. Cardinality(r) = Cardinality(s) - 1
        BY <1>3, <2>3, <3>1, FS_RemoveElement
      <4> QED BY <1>3, <2>3, <3>1, <4>1
    <3>3. Good(n, r)
      <4>1. r \notin wrong
        <5> HIDE DEF r, wrong
        <5>1. ASSUME r \in wrong PROVE FALSE
          <6>1. Cardinality(s) <= Cardinality(r)
            BY <2>3, <5>1
          <6>2. s \in SUBSET S
            BY <2>3 DEF wrong
          <6> QED BY <1>3, <3>1, <3>2, <6>1, <6>2
        <5> QED BY <5>1
      <4> QED BY <3>1, <4>1
    <3>4. upTo[s] = IF n = Failed THEN Failed ELSE UpdateInstanceLockForPlayer(n, p, d, id)
      BY <1>2, <2>3, <2>5 DEF UpdatesUpTo, UpdateNext
    <3> HIDE DEF p, n
    <3> DEFINE new == UpdateInstanceLockForPlayer(n, p, d, id)
    <3>5. n # Failed /\ new # Failed /\ upTo[s] = new
      BY <2>3, <3>4
    <3>6. m # Failed /\ MgrOK(n) /\ SavedTo(m, n, r, d, id) /\ (RaidsOK(m) => RaidsOK(n))
      BY <3>3, <3>5
    <3>7. MgrOK(new) /\ SavedTo(n, new, {p}, d, id) /\ (RaidsOK(n) => RaidsOK(new))
      BY <3>1, <3>5, <3>6, UpdateForPlayerKeeps
    <3> HIDE DEF new
    <3>8. SavedTo(m, new, s, d, id)
      <4>1. s \subseteq Players /\ p \notin r /\ s = r \cup {p}
        BY <2>3, <3>1
      <4> HIDE DEF r
      <4>2. ASSUME NEW q \in Players, NEW e \in Dungeons, ~ (q \in s /\ e = d)
            PROVE  new.perm[q][e] = m.perm[q][e] /\ new.temp[q][e] = m.temp[q][e]
        BY <3>6, <3>7, <4>1, <4>2 DEF SavedTo
      <4>3. n.perm[p][d] = m.perm[p][d] /\ n.temp[p][d] = m.temp[p][d]
        BY <3>1, <3>6, <4>1 DEF SavedTo
      <4>4. ASSUME NEW q \in s, q # p
            PROVE  new.perm[q][d] = n.perm[q][d] /\ new.temp[q][d] = n.temp[q][d] /\ q \in r
        BY <3>7, <4>1, <4>4 DEF SavedTo
      <4>5. ASSUME NEW q \in s
            PROVE  /\ new.perm[q][d] # Nil /\ new.perm[q][d].id = id
                   /\ new.temp[q][d] = IF Active(m.perm[q][d]) THEN m.temp[q][d] ELSE Nil
                   /\ kind[d] = "bound" =>
                        IF Active(m.perm[q][d]) THEN m.perm[q][d].id = id
                        ELSE m.temp[q][d] = Nil \/ m.temp[q][d].id = id
        <5>1. CASE q = p
          BY <3>7, <4>3, <5>1 DEF SavedTo
        <5>2. CASE q # p
          BY <3>6, <4>4, <5>2 DEF SavedTo
        <5> QED BY <5>1, <5>2
      <4> QED BY <4>2, <4>5 DEF SavedTo
    <3> QED BY <2>3, <3>5, <3>6, <3>7, <3>8
  <2> QED BY <2>4, <2>5
<1>5. Good(upTo[S], S)
  <2> HIDE DEF Good
  <2>1. S \in SUBSET S
    OBVIOUS
  <2> QED BY <1>4, <2>1
<1> QED BY <1>2, <1>5 DEF UpdatesUpTo

\* A state that nobody is saved to can be found for a new raid lock.
LEMMA NewDataIsUnused ==
    ASSUME NEW m, MgrOK(m), NEW id \in Ids, Data \ LiveData(m) # {}
    PROVE  NewData(m, id) \in Data \ LiveData(m)
<1>1. Data \ LiveData(m) \in SUBSET Nat /\ id \in Data
  BY Constants DEF Data
<1>2. Min(Data \ LiveData(m)) \in Data \ LiveData(m)
  BY <1>1, MinIsLeast, Zenon
<1> QED BY <1>1, <1>2 DEF NewData

(* A new lock for an instance that nobody is saved to.                      *)
LEMMA CreateKeeps ==
    ASSUME NEW m, MgrOK(m), NEW p \in Players, NEW d \in Dungeons, NEW id \in Ids,
           kind[d] # "normal", Data \ LiveData(m) # {}, m.temp[p][d] = Nil
    PROVE  LET n == CreateInstanceLockForNewInstance(m, p, d, id)
           IN  /\ MgrOK(n) /\ n.perm = m.perm
               /\ \A q \in Players, e \in Dungeons :
                    ~ (q = p /\ e = d) => n.temp[q][e] = m.temp[q][e]
               /\ n.temp[p][d] # Nil /\ n.temp[p][d].id = id
               /\ RaidsOK(m) /\ (\A x \in Data : ~ Holds(m, id, x)) => RaidsOK(n)
<1> DEFINE bound == kind[d] = "bound"
           data == IF bound THEN NewData(m, id) ELSE NoData
           lock == [id |-> id, data |-> data, new |-> TRUE, expired |-> FALSE, extended |-> FALSE]
           byId == [i \in Ids |-> IF i = id /\ data # NoData THEN data ELSE m.byId[i]]
           n == CreateInstanceLockForNewInstance(m, p, d, id)
<1>1. n = [m EXCEPT !.temp[p][d] = lock, !.byId = byId]
  BY Zenon DEF CreateInstanceLockForNewInstance
<1>2. m \in MgrRecord
  BY DEF MgrOK
<1>3. IF bound THEN data \in Data \ LiveData(m) ELSE data = NoData
  BY NewDataIsUnused
<1> HIDE DEF data
<1>4. lock \in LockRecord /\ lock # Nil /\ lock.id = id /\ lock.data = data /\ lock.new = TRUE
  <2>1. data \in Data \cup {NoData}
    BY <1>3
  <2>2. lock \in LockRecord
    BY <2>1 DEF LockRecord
  <2>3. lock # Nil
    BY <2>2, Constants
  <2> QED BY <2>2, <2>3
<1> HIDE DEF lock
<1>5. byId \in [Ids -> Data \cup {NoData, Expired}]
  BY <1>2, <1>3 DEF MgrRecord
<1>6. \A i \in Ids : byId[i] = IF i = id /\ data # NoData THEN data ELSE m.byId[i]
  OBVIOUS
<1> HIDE DEF byId, n
<1>7. /\ n \in MgrRecord /\ n.perm = m.perm /\ n.temp = [m.temp EXCEPT ![p][d] = lock]
      /\ n.byId = byId /\ n.instanceId = m.instanceId /\ n.rows = m.rows
  BY <1>1, <1>2, <1>4, <1>5 DEF MgrRecord, Locks
<1>8. \A q \in Players, e \in Dungeons :
        n.temp[q][e] = IF q = p /\ e = d THEN lock ELSE m.temp[q][e]
  BY <1>2, <1>7 DEF MgrRecord, Locks
<1>9. LockOK(d, lock, TRUE)
  BY <1>3, <1>4 DEF LockOK
<1>10. MgrOK(n)
  BY <1>7, <1>8, <1>9 DEF MgrOK
<1>11. ASSUME RaidsOK(m), \A x \in Data : ~ Holds(m, id, x)
       PROVE  RaidsOK(n)
  <2>1. ASSUME NEW i \in Ids, NEW x \in Data
        PROVE  Holds(n, i, x) <=> Holds(m, i, x) \/ (bound /\ i = id /\ x = data)
    <3>1. ASSUME Holds(n, i, x)
          PROVE  Holds(m, i, x) \/ (bound /\ i = id /\ x = data)
      <4>1. PICK q \in Players, e \in Dungeons : kind[e] = "bound" /\
                 (Carries(n.perm[q][e], i, x) \/ Carries(n.temp[q][e], i, x))
        BY <3>1 DEF Holds
      <4>2. CASE q = p /\ e = d /\ Carries(lock, i, x)
        BY <1>4, <4>1, <4>2 DEF Carries
      <4>3. CASE Carries(m.perm[q][e], i, x) \/ Carries(m.temp[q][e], i, x)
        BY <4>1, <4>3 DEF Holds
      <4> QED BY <1>7, <1>8, <4>1, <4>2, <4>3
    <3>2. ASSUME Holds(m, i, x)
          PROVE  Holds(n, i, x)
      <4>1. PICK q \in Players, e \in Dungeons : kind[e] = "bound" /\
                 (Carries(m.perm[q][e], i, x) \/ Carries(m.temp[q][e], i, x))
        BY <3>2 DEF Holds
      <4>2. Carries(n.perm[q][e], i, x) \/ Carries(n.temp[q][e], i, x)
        BY <1>7, <1>8, <4>1 DEF Carries
      <4> QED BY <4>1, <4>2 DEF Holds
    <3>3. bound => Holds(n, id, data)
      <4>1. bound => Carries(n.temp[p][d], id, data)
        BY <1>4, <1>8 DEF Carries
      <4> QED BY <4>1 DEF Holds
    <3> QED BY <3>1, <3>2, <3>3
  <2>2. bound => /\ data \in Data /\ \A i \in Ids : ~ Holds(m, i, data)
                 /\ m.instanceId[data] = 0
    <3>1. bound => data \in Data /\ \A i \in Ids : ~ Holds(m, i, data)
      BY <1>3, LiveIsHeld
    <3>2. bound => m.instanceId[data] \in Ids \cup {0}
      BY <1>2, <3>1 DEF MgrRecord
    <3> QED BY <1>11, <3>1, <3>2 DEF RaidsOK
  <2>3. bound => data # NoData
    BY <2>2, Constants
  <2>4. ~bound => data = NoData
    BY <1>3
  <2>5. ASSUME NEW i \in Ids, NEW x \in Data, Holds(n, i, x)
        PROVE  /\ n.byId[i] = x /\ n.instanceId[x] \in {0, i}
               /\ \A other \in Ids : Holds(n, other, x) => other = i
    <3>1. CASE Holds(m, i, x)
      <4>1. i # id /\ (bound => x # data)
        BY <1>11, <2>2, <3>1
      <4>2. /\ m.byId[i] = x /\ m.instanceId[x] \in {0, i}
            /\ \A other \in Ids : Holds(m, other, x) => other = i
        BY <1>11, <3>1 DEF RaidsOK
      <4> QED BY <1>6, <1>7, <2>1, <4>1, <4>2
    <3>2. CASE bound /\ i = id /\ x = data
      BY <1>6, <1>7, <2>1, <2>2, <2>3, <3>2
    <3> QED BY <2>1, <2>5, <3>1, <3>2
  <2>6. ASSUME NEW i \in Ids, n.byId[i] \in Data
        PROVE  Holds(n, i, n.byId[i])
    <3>1. CASE i = id /\ data # NoData
      BY <1>6, <1>7, <2>1, <2>2, <2>4, <3>1
    <3>2. CASE ~ (i = id /\ data # NoData)
      <4>1. n.byId[i] = m.byId[i]
        BY <1>6, <1>7, <3>2
      <4>2. Holds(m, i, m.byId[i])
        BY <1>11, <2>6, <4>1 DEF RaidsOK
      <4> QED BY <2>1, <2>6, <4>1, <4>2
    <3> QED BY <3>1, <3>2
  <2>7. ASSUME NEW x \in Data, n.instanceId[x] # 0
        PROVE  Holds(n, n.instanceId[x], x) /\ n.instanceId[x] \in n.rows
    <3>1. n.instanceId[x] = m.instanceId[x] /\ m.instanceId[x] \in Ids
      BY <1>2, <1>7, <2>7 DEF MgrRecord
    <3>2. Holds(m, m.instanceId[x], x) /\ m.instanceId[x] \in m.rows
      BY <1>11, <2>7, <3>1 DEF RaidsOK
    <3> QED BY <1>7, <2>1, <3>1, <3>2
  <2> QED BY <2>5, <2>6, <2>7 DEF RaidsOK
<1> QED BY <1>4, <1>7, <1>8, <1>10, <1>11 DEF n

Rename(m, table, p, d, id) == [m EXCEPT ![table][p][d].id = id]

Renamed(m, n, table, p, d, id) ==
    /\ MgrOK(n) /\ (RaidsOK(m) => RaidsOK(n))
    /\ \A q \in Players, e \in Dungeons :
         /\ table = "temp" => n.perm[q][e] = m.perm[q][e]
         /\ table = "perm" => n.temp[q][e] = m.temp[q][e]
         /\ ~ (q = p /\ e = d) => n.perm[q][e] = m.perm[q][e] /\ n.temp[q][e] = m.temp[q][e]
    /\ Slot(n, table, p, d) # Nil /\ Slot(n, table, p, d).id = id

(* A lock that fits any instance gets the id of another one.                *)
LEMMA RenameKeeps ==
    ASSUME NEW m, MgrOK(m), NEW table \in Tables, NEW p \in Players, NEW d \in Dungeons,
           NEW id \in Ids, kind[d] = "encounter", Slot(m, table, p, d) # Nil
    PROVE  Renamed(m, Rename(m, table, p, d, id), table, p, d, id)
<1> DEFINE n == [m EXCEPT ![table][p][d].id = id]
           old == Slot(m, table, p, d)
           lock == [old EXCEPT !.id = id]
<1>1. m \in MgrRecord /\ table \in {"perm", "temp"}
  BY DEF MgrOK, Tables
<1>2. old \in LockRecord
  BY <1>1, LockTypes DEF Slot
<1>3. lock \in LockRecord /\ lock.id = id /\ lock.data = old.data /\ lock.new = old.new
  BY <1>2 DEF LockRecord
<1>4. lock # Nil
  BY <1>3, Constants
<1>5. /\ n \in MgrRecord
      /\ n.perm = IF table = "perm" THEN [m.perm EXCEPT ![p][d] = lock] ELSE m.perm
      /\ n.temp = IF table = "temp" THEN [m.temp EXCEPT ![p][d] = lock] ELSE m.temp
      /\ n.byId = m.byId /\ n.instanceId = m.instanceId /\ n.rows = m.rows
  <2>1. CASE table = "perm"
    <3>1. n = [m EXCEPT !.perm[p][d] = lock]
      BY <1>1, <2>1 DEF Slot, MgrRecord, Locks
    <3> HIDE DEF n, lock
    <3> QED BY <1>1, <1>3, <2>1, <3>1 DEF MgrRecord, Locks
  <2>2. CASE table = "temp"
    <3>1. n = [m EXCEPT !.temp[p][d] = lock]
      BY <1>1, <2>2 DEF Slot, MgrRecord, Locks
    <3> HIDE DEF n, lock
    <3> QED BY <1>1, <1>3, <2>2, <3>1 DEF MgrRecord, Locks
  <2> QED BY <1>1, <2>1, <2>2
<1> HIDE DEF n, lock
<1>6. \A q \in Players, e \in Dungeons :
        /\ n.perm[q][e] = IF table = "perm" /\ q = p /\ e = d THEN lock ELSE m.perm[q][e]
        /\ n.temp[q][e] = IF table = "temp" /\ q = p /\ e = d THEN lock ELSE m.temp[q][e]
  BY <1>1, <1>5 DEF MgrRecord, Locks
<1>7. MgrOK(n)
  <2> SUFFICES ASSUME NEW q \in Players, NEW e \in Dungeons
               PROVE  LockOK(e, n.perm[q][e], FALSE) /\ LockOK(e, n.temp[q][e], TRUE)
    BY <1>5 DEF MgrOK
  <2>1. LockOK(e, m.perm[q][e], FALSE) /\ LockOK(e, m.temp[q][e], TRUE)
    BY DEF MgrOK
  <2>2. LockOK(d, old, table = "temp")
    BY <1>1 DEF MgrOK, Slot
  <2>3. LockOK(d, lock, table = "temp")
    BY <1>3, <2>2 DEF LockOK
  <2> HIDE DEF old
  <2> QED BY <1>1, <1>6, <2>1, <2>3
<1>8. \A i \in Ids, x \in Data : Holds(n, i, x) <=> Holds(m, i, x)
  <2>1. \A q \in Players, e \in Dungeons : kind[e] = "bound" =>
          n.perm[q][e] = m.perm[q][e] /\ n.temp[q][e] = m.temp[q][e]
    BY <1>6
  <2> QED BY <2>1 DEF Holds
<1>9. RaidsOK(m) => RaidsOK(n)
  <2> SUFFICES ASSUME RaidsOK(m) PROVE RaidsOK(n)
    OBVIOUS
  <2>1. \A x \in Data : n.instanceId[x] # 0 => n.instanceId[x] \in Ids
    BY <1>5 DEF MgrRecord
  <2> QED BY <1>5, <1>8, <2>1 DEF RaidsOK
<1>10. Slot(n, table, p, d) = lock
  BY <1>1, <1>6 DEF Slot
<1> QED BY <1>1, <1>3, <1>4, <1>6, <1>7, <1>9, <1>10 DEF n, Rename, Renamed

-----------------------------------------------------------------------------
(* The invariant: the rest of the state.                                    *)

Scheduled == \A d \in Dungeons : kind[d] # "normal"

(* The id was handed out by the pool q; it was not given back where every   *)
(* dungeon has a reset schedule.                                            *)
Taken(q, id) == id < q.size /\ (Scheduled => id \notin q.free)

RestOK ==
    /\ kind \in [Dungeons -> Kinds]
    /\ status \in {"running", "aborted", "undefined"}
    /\ passed \in 0..MaxPassed /\ grouped \in BOOLEAN

MapRecord == [lock : (Tables \X Players) \cup {Nil, Dangling}, owner : Groups \cup {Nil},
              unloads : BOOLEAN]

\* The pointer of the map key to the lock that made it, which is still there;
\* a raid's lock is to the map's id.
PointsTo(m, pointer, key) ==
    /\ pointer \in Tables \X Players /\ LockOf(m, pointer, key[1]) # Nil
    /\ kind[key[1]] = "bound" => LockOf(m, pointer, key[1]).id = key[2]

PointerOK(m, pointer, key) ==
    IF kind[key[1]] = "normal" THEN pointer = Nil
    ELSE pointer = Dangling \/ PointsTo(m, pointer, key)

MapOK(m, key, map) ==
    key \in Dungeons \X Ids /\ map \in MapRecord /\ PointerOK(m, map.lock, key)

MapsOK(m, maps) == \A key \in DOMAIN maps : MapOK(m, key, maps[key])

\* A group that somebody is in has a leader, who is in it.
PartyOK ==
    /\ group \in [Players -> Groups \cup {Nil}] /\ leader \in [Groups -> Players \cup {Nil}]
    /\ \A p \in Players : group[p] # Nil =>
         leader[group[p]] # Nil /\ group[leader[group[p]]] = group[p]

RecentsOK ==
    /\ recentId \in [Players \cup Groups -> [Dungeons -> Ids \cup {0}]]
    /\ recentOwner \in [Groups -> [Dungeons -> Players \cup {Nil}]]

PlacesOK ==
    /\ at \in [Players -> (DOMAIN i_maps) \cup {Nil}]
    /\ away \subseteq {p \in Players : at[p] # Nil}
    /\ pendingBind \in [Players -> Ids \cup {0}]

LocksTaken(q, m) ==
    \A p \in Players, d \in Dungeons :
      /\ m.perm[p][d] # Nil => Taken(q, m.perm[p][d].id)
      /\ m.temp[p][d] # Nil => Taken(q, m.temp[p][d].id)

MapsTaken(q, maps) == \A key \in DOMAIN maps : Taken(q, key[2])

RecentsTaken(q, recent) ==
    \A x \in Players \cup Groups, d \in Dungeons : recent[x][d] < q.size

\* OwnRaidOnly with the players at the places of the function a.
OwnRaids(m, a) ==
    \A p \in Players : a[p] # Nil /\ kind[a[p][1]] = "bound" =>
      LET lock == m.perm[p][a[p][1]] IN lock = Nil \/ lock.expired \/ lock.id = a[p][2]

\* What relates the variables: q is a value of pool, m of mgr, maps of i_maps,
\* recent of recentId and a of at.
Core(q, m, maps, recent, a) ==
    /\ PoolSound(q) /\ MgrOK(m) /\ MapsOK(m, maps)
    /\ LocksTaken(q, m) /\ MapsTaken(q, maps) /\ RecentsTaken(q, recent)
    /\ OwnRaids(m, a)
    /\ Scheduled => RaidsOK(m)

IInv == RestOK /\ PartyOK /\ RecentsOK /\ PlacesOK /\ Core(pool, mgr, i_maps, recentId, at)

-----------------------------------------------------------------------------
(* Lemmas about the parts.                                                  *)

\* What GenerateInstanceId leaves taken, and what it takes.
LEMMA GenerateKeepsTaken ==
    ASSUME NEW q, PoolSound(q)
    PROVE  LET new == GenerateInstanceId(q)
           IN  /\ PoolSound(new) /\ q.size <= new.size /\ q.next \in Nat \ {0}
               /\ Taken(new, q.next) /\ q.next < q.size /\ q.next \in q.free
               /\ \A id \in Nat : Taken(q, id) => Taken(new, id)
<1> DEFINE new == GenerateInstanceId(q)
<1>1. PoolSound(new)
  BY GenerateKeepsSound
<1>2. /\ q \in Pools /\ q.next \in q.free /\ q.next \in Nat \ {0} /\ q.next < q.size
      /\ q.size \in Nat
  BY DEF PoolSound, Pools
<1>3. q.size <= new.size
  <2> DEFINE after == {i \in q.free \ {q.next} : i > q.next}
  <2>1. CASE after = {}
    BY <1>2, <2>1 DEF GenerateInstanceId
  <2>2. CASE after # {}
    BY <1>2, <2>2 DEF GenerateInstanceId, Pools
  <2> QED BY <2>1, <2>2
<1>4. new.size \in Nat
  BY <1>1 DEF PoolSound, Pools
<1>5. /\ q.next \notin new.free
      /\ \A id \in 0..(q.size - 1) \ {q.next} : id \in new.free <=> id \in q.free
  BY GeneratedIsTaken
<1> HIDE DEF new
<1>6. Taken(new, q.next)
  BY <1>2, <1>3, <1>4, <1>5 DEF Taken
<1>7. ASSUME NEW id \in Nat, Taken(q, id)
      PROVE  Taken(new, id)
  <2>1. id < q.size
    BY <1>7 DEF Taken
  <2>2. id < new.size
    BY <1>2, <1>3, <1>4, <2>1
  <2>3. id \in 0..(q.size - 1)
    BY <1>2, <2>1
  <2> QED BY <1>2, <1>5, <1>7, <2>2, <2>3 DEF Taken
<1> QED BY <1>1, <1>2, <1>3, <1>6, <1>7 DEF new

\* A change of one field of a map's state leaves the others.
LEMMA MapFields ==
    ASSUME NEW map \in MapRecord
    PROVE  /\ \A v \in BOOLEAN : LET new == [map EXCEPT !.unloads = v]
                                 IN  /\ new \in MapRecord /\ new.lock = map.lock
                                     /\ new.owner = map.owner
           /\ \A v \in Groups \cup {Nil} : LET new == [map EXCEPT !.owner = v]
                                           IN  new \in MapRecord /\ new.lock = map.lock
           /\ \A v \in (Tables \X Players) \cup {Nil, Dangling} :
                LET new == [map EXCEPT !.lock = v] IN new \in MapRecord /\ new.lock = v
BY DEF MapRecord

LEMMA PairFields ==
    ASSUME NEW A, NEW B, NEW x \in A \X B
    PROVE  x[1] \in A /\ x[2] \in B /\ x = <<x[1], x[2]>>
OBVIOUS

\* A pointer is as good in n as in m if the lock it points to is still there.
LEMMA PointerKept ==
    ASSUME NEW m, NEW n, NEW pointer, NEW d \in Dungeons, NEW id,
           PointerOK(m, pointer, <<d, id>>),
           \A p \in Players :
             /\ m.perm[p][d] # Nil => n.perm[p][d] # Nil /\
                  (kind[d] = "bound" => n.perm[p][d].id = m.perm[p][d].id)
             /\ m.temp[p][d] # Nil => n.temp[p][d] # Nil /\
                  (kind[d] = "bound" => n.temp[p][d].id = m.temp[p][d].id)
    PROVE  PointerOK(n, pointer, <<d, id>>)
<1>1. CASE PointsTo(m, pointer, <<d, id>>)
  <2>1. pointer[1] \in Tables /\ pointer[2] \in Players
    BY <1>1 DEF PointsTo
  <2>2. CASE pointer[1] = "perm"
    BY <1>1, <2>1, <2>2 DEF PointsTo, LockOf, Slot, PointerOK
  <2>3. CASE pointer[1] = "temp"
    BY <1>1, <2>1, <2>3 DEF PointsTo, LockOf, Slot, PointerOK
  <2> QED BY <2>1, <2>2, <2>3 DEF Tables
<1>2. CASE ~ PointsTo(m, pointer, <<d, id>>)
  BY <1>2 DEF PointerOK
<1> QED BY <1>1, <1>2

\* The instance owner is a player.
LEMMA OwnerIsPlayer ==
    ASSUME PartyOK, RecentsOK, NEW p \in Players, NEW d \in Dungeons
    PROVE  InstanceOwner(p, d) \in Players /\ Keeper(p) \in Players \cup Groups
<1>1. CASE group[p] = Nil
  BY <1>1 DEF InstanceOwner, Keeper
<1>2. CASE group[p] # Nil
  <2>1. group[p] \in Groups /\ leader[group[p]] \in Players
    BY <1>2 DEF PartyOK
  <2>2. recentOwner[group[p]][d] \in Players \cup {Nil}
    BY <2>1 DEF RecentsOK
  <2> QED BY <1>2, <2>1, <2>2 DEF InstanceOwner, Keeper
<1> QED BY <1>1, <1>2

-----------------------------------------------------------------------------
(* Entering.                                                                *)

(* The locks in n are those in m, but for one of d that is new or, where    *)
(* any instance will do, has another id.                                    *)
OneLockMade(m, n, d, id) ==
    \A p \in Players, e \in Dungeons :
      /\ \/ n.perm[p][e] = m.perm[p][e]
         \/ /\ e = d /\ kind[d] = "encounter" /\ m.perm[p][e] # Nil
            /\ n.perm[p][e] # Nil /\ n.perm[p][e].id = id
      /\ \/ n.temp[p][e] = m.temp[p][e]
         \/ /\ e = d /\ n.temp[p][e] # Nil /\ n.temp[p][e].id = id
            /\ m.temp[p][e] # Nil => kind[d] = "encounter"

(* What CreateMap leaves behind.                                            *)
Created(w, d) ==
    /\ w.key = <<d, w.key[2]>> /\ w.key[2] \in Ids /\ w.owner \in Players
    /\ PoolSound(w.pool) /\ pool.size <= w.pool.size /\ Taken(w.pool, w.key[2])
    /\ \A id \in Nat : Taken(pool, id) => Taken(w.pool, id)
    /\ MgrOK(w.mgr) /\ OneLockMade(mgr, w.mgr, d, w.key[2])
    /\ Scheduled /\ RaidsOK(mgr) => RaidsOK(w.mgr)
    /\ MapsOK(w.mgr, w.maps) /\ DOMAIN w.maps = (DOMAIN i_maps) \cup {w.key}
    /\ w.uses # Dangling /\ kind[d] # "normal" => PointsTo(w.mgr, w.maps[w.key].lock, w.key)

LEMMA CreateMapKeeps ==
    ASSUME IInv, NEW p \in Players, NEW d \in Dungeons,
           CreateMap(p, d).key[2] <= MaxId, Data \ LiveData(mgr) # {}
    PROVE  Created(CreateMap(p, d), d)
<1> DEFINE owner == InstanceOwner(p, d)
           table == FindActiveInstanceLock(mgr, owner, d)
           recent == IF kind[d] = "normal" THEN recentId[Keeper(p)][d] ELSE 0
           generates == table = Nil /\ recent = 0
           first == IF table # Nil THEN Slot(mgr, table, owner, d).id
                    ELSE IF generates THEN pool.next ELSE recent
           pool1 == IF generates THEN GenerateInstanceId(pool) ELSE pool
           makes == table = Nil /\ kind[d] # "normal"
           mgr1 == IF makes THEN CreateInstanceLockForNewInstance(mgr, owner, d, first) ELSE mgr
           slot == IF table = Nil THEN "temp" ELSE table
           pointer == IF kind[d] = "normal" THEN Nil ELSE <<slot, owner>>
           taken == /\ kind[d] = "encounter" /\ <<d, first>> \in DOMAIN i_maps
                    /\ i_maps[<<d, first>>].lock # pointer
           id == IF taken THEN pool1.next ELSE first
           key == <<d, id>>
           found == ~taken /\ key \in DOMAIN i_maps
           uses == IF <<d, first>> \in DOMAIN i_maps THEN i_maps[<<d, first>>].lock ELSE Nil
           pool2 == IF taken THEN GenerateInstanceId(pool1) ELSE pool1
           mgr2 == IF taken THEN [mgr1 EXCEPT ![slot][owner][d].id = id] ELSE mgr1
           new == [lock |-> pointer, owner |-> group[p], unloads |-> TRUE]
           maps == IF found THEN i_maps
                   ELSE [k \in (DOMAIN i_maps) \cup {key} |->
                           IF k = key THEN new ELSE i_maps[k]]
           w == CreateMap(p, d)
<1>1. w = [key |-> key, owner |-> owner, found |-> found, uses |-> uses,
           pool |-> pool2, mgr |-> mgr2, maps |-> maps]
  BY Zenon DEF CreateMap
<1>2. /\ w.key = key /\ w.owner = owner /\ w.uses = uses /\ w.pool = pool2 /\ w.mgr = mgr2
      /\ w.maps = maps
  <2> HIDE DEF w, key, owner, found, generates, taken, uses, pool2, mgr2, maps
  <2> QED BY <1>1
<1>3. id <= MaxId
  <2> HIDE DEF id
  <2>1. w.key[2] = id
    BY <1>2
  <2> QED BY <2>1
<1> HIDE DEF w
<1>4. /\ PartyOK /\ RecentsOK /\ PoolSound(pool) /\ MgrOK(mgr) /\ MapsOK(mgr, i_maps)
      /\ LocksTaken(pool, mgr) /\ RecentsTaken(pool, recentId)
  BY DEF IInv, Core
<1>5. owner \in Players /\ Keeper(p) \in Players \cup Groups
  BY <1>4, OwnerIsPlayer
<1> HIDE DEF owner
<1>6. /\ table # Nil => table \in Tables /\ Slot(mgr, table, owner, d) # Nil
      /\ table = Nil => mgr.temp[owner][d] = Nil
  BY Constants DEF FindActiveInstanceLock, Active, Slot, Tables
<1>7. table # Nil => /\ Slot(mgr, table, owner, d).id \in Ids
                     /\ Taken(pool, Slot(mgr, table, owner, d).id)
  BY <1>4, <1>5, <1>6, LockTypes DEF Slot, Tables, LocksTaken
<1>8. recent # 0 => recent \in Ids /\ Taken(pool, recent)
  BY <1>4, <1>5 DEF RecentsOK, RecentsTaken, Taken, Scheduled
<1>9. kind[d] # "normal" => recent = 0
  OBVIOUS
<1> HIDE DEF table, recent
<1>10. /\ PoolSound(pool1) /\ pool.size <= pool1.size /\ pool1.size \in Nat /\ pool.size \in Nat
       /\ \A i \in Nat : Taken(pool, i) => Taken(pool1, i)
       /\ Taken(pool1, first) /\ first \in Nat \ {0}
       /\ makes => first = pool.next /\ pool.next \in pool.free
  <2>1. PoolSound(pool1) /\ pool.size <= pool1.size
    <3>1. pool.size \in Nat
      BY <1>4 DEF PoolSound, Pools
    <3> QED BY <1>4, <3>1, GenerateKeepsTaken
  <2>2. pool1.size \in Nat /\ pool.size \in Nat
    BY <1>4, <2>1 DEF PoolSound, Pools
  <2>3. \A i \in Nat : Taken(pool, i) => Taken(pool1, i)
    BY <1>4, GenerateKeepsTaken
  <2>4. \A i \in Ids : i \in Nat \ {0}
    BY Constants DEF Ids
  <2>5. Taken(pool1, first) /\ first \in Nat \ {0}
    <3>1. CASE table # Nil
      BY <1>7, <2>4, <3>1
    <3>2. CASE generates
      BY <1>4, <3>2, GenerateKeepsTaken
    <3>3. CASE table = Nil /\ recent # 0
      BY <1>8, <2>4, <3>3
    <3> QED BY <3>1, <3>2, <3>3
  <2>6. makes => first = pool.next /\ pool.next \in pool.free
    BY <1>4, <1>9 DEF PoolSound
  <2> QED BY <2>1, <2>2, <2>3, <2>5, <2>6
<1> HIDE DEF pool1, first
<1>11. first \in Ids /\ id \in Ids
  <2>1. \A i \in Nat \ {0} : i <= MaxId => i \in Ids
    BY Constants DEF Ids
  <2>2. CASE taken
    <3>1. first \in Ids
      BY <1>4, <2>2 DEF MapsOK, MapOK
    <3>2. pool1.next \in Nat \ {0}
      BY <1>10, GenerateKeepsTaken
    <3> QED BY <1>3, <2>1, <2>2, <3>1, <3>2
  <2>3. CASE ~taken
    BY <1>3, <1>10, <2>1, <2>3
  <2> QED BY <2>2, <2>3
<1>12. /\ PoolSound(pool2) /\ pool.size <= pool2.size
       /\ \A i \in Nat : Taken(pool, i) => Taken(pool2, i)
       /\ Taken(pool2, id)
  <2>1. CASE taken
    <3>1. pool1.size <= pool2.size /\ pool2.size \in Nat
      BY <1>10, <2>1, GenerateKeepsTaken DEF PoolSound, Pools
    <3>2. pool.size <= pool2.size
      BY <1>10, <3>1
    <3> QED BY <1>10, <2>1, <3>2, GenerateKeepsTaken
  <2>2. CASE ~taken
    BY <1>10, <2>2
  <2> QED BY <2>1, <2>2
<1> HIDE DEF pool2
<1>13. kind[d] # "normal" => slot \in Tables
  BY <1>6 DEF Tables
<1>14. /\ MgrOK(mgr1) /\ mgr1.perm = mgr.perm
       /\ \A q \in Players, e \in Dungeons :
            ~ (makes /\ q = owner /\ e = d) => mgr1.temp[q][e] = mgr.temp[q][e]
       /\ makes => mgr.temp[owner][d] = Nil
       /\ kind[d] # "normal" => /\ Slot(mgr1, slot, owner, d) # Nil
                                /\ Slot(mgr1, slot, owner, d).id = first
       /\ Scheduled /\ RaidsOK(mgr) => RaidsOK(mgr1)
  <2>1. CASE makes
    <3>1. /\ MgrOK(mgr1) /\ mgr1.perm = mgr.perm
          /\ \A q \in Players, e \in Dungeons :
               ~ (q = owner /\ e = d) => mgr1.temp[q][e] = mgr.temp[q][e]
          /\ mgr1.temp[owner][d] # Nil /\ mgr1.temp[owner][d].id = first
          /\ RaidsOK(mgr) /\ (\A x \in Data : ~ Holds(mgr, first, x)) => RaidsOK(mgr1)
      BY <1>4, <1>5, <1>6, <1>11, <2>1, CreateKeeps
    <3>2. ASSUME Scheduled, NEW x \in Data, Holds(mgr, first, x)
          PROVE  FALSE
      <4>1. PICK q \in Players, e \in Dungeons :
                 Carries(mgr.perm[q][e], first, x) \/ Carries(mgr.temp[q][e], first, x)
        BY <3>2 DEF Holds
      <4>2. Taken(pool, first)
        BY <1>4, <4>1 DEF Carries, LocksTaken
      <4> QED BY <1>10, <2>1, <3>2, <4>2 DEF Taken
    <3> HIDE DEF mgr1
    <3>3. Slot(mgr1, slot, owner, d) = mgr1.temp[owner][d]
      BY <2>1 DEF Slot
    <3> QED BY <1>6, <2>1, <3>1, <3>2, <3>3
  <2>2. CASE ~makes
    <3>1. mgr1 = mgr
      BY <2>2
    <3>2. kind[d] # "normal" => table # Nil /\ slot = table /\ first = Slot(mgr, table, owner, d).id
      BY <2>2 DEF first
    <3> HIDE DEF mgr1
    <3> QED BY <1>4, <1>6, <2>2, <3>1, <3>2
  <2> QED BY <2>1, <2>2
<1> HIDE DEF mgr1
<1>15. /\ MgrOK(mgr2) /\ (Scheduled /\ RaidsOK(mgr) => RaidsOK(mgr2))
       /\ OneLockMade(mgr, mgr2, d, id)
       /\ kind[d] # "normal" => /\ Slot(mgr2, slot, owner, d) # Nil
                                /\ Slot(mgr2, slot, owner, d).id = id
  <2>1. CASE taken
    <3>1. kind[d] = "encounter" /\ slot \in {"perm", "temp"}
      BY <1>13, <2>1 DEF Tables
    <3> HIDE DEF slot, taken, id
    <3>5. mgr2 = Rename(mgr1, slot, owner, d, id)
      BY <2>1 DEF Rename
    <3> HIDE DEF mgr2
    <3>6. slot \in Tables /\ Slot(mgr1, slot, owner, d) # Nil /\ MgrOK(mgr1)
      BY <1>13, <1>14, <3>1
    <3>7. Renamed(mgr1, mgr2, slot, owner, d, id)
      BY <1>5, <1>11, <3>1, <3>5, <3>6, RenameKeeps
    <3>2. /\ MgrOK(mgr2) /\ (RaidsOK(mgr1) => RaidsOK(mgr2))
          /\ \A q \in Players, e \in Dungeons :
               /\ slot = "temp" => mgr2.perm[q][e] = mgr1.perm[q][e]
               /\ slot = "perm" => mgr2.temp[q][e] = mgr1.temp[q][e]
               /\ ~ (q = owner /\ e = d) => /\ mgr2.perm[q][e] = mgr1.perm[q][e]
                                            /\ mgr2.temp[q][e] = mgr1.temp[q][e]
          /\ Slot(mgr2, slot, owner, d) # Nil /\ Slot(mgr2, slot, owner, d).id = id
      BY <3>7 DEF Renamed
    <3>3. OneLockMade(mgr, mgr2, d, id)
      <4> SUFFICES ASSUME NEW q \in Players, NEW e \in Dungeons
                   PROVE  /\ \/ mgr2.perm[q][e] = mgr.perm[q][e]
                             \/ /\ e = d /\ kind[d] = "encounter" /\ mgr.perm[q][e] # Nil
                                /\ mgr2.perm[q][e] # Nil /\ mgr2.perm[q][e].id = id
                          /\ \/ mgr2.temp[q][e] = mgr.temp[q][e]
                             \/ /\ e = d /\ mgr2.temp[q][e] # Nil /\ mgr2.temp[q][e].id = id
                                /\ mgr.temp[q][e] # Nil => kind[d] = "encounter"
        BY DEF OneLockMade
      <4>1. CASE ~ (q = owner /\ e = d)
        BY <1>14, <3>2, <4>1
      <4>2. CASE q = owner /\ e = d /\ slot = "perm"
        <5>1. mgr1.perm[owner][d] # Nil
          BY <1>14, <3>1, <4>2 DEF Slot
        <5>2. mgr2.temp[q][e] = mgr1.temp[q][e] /\ ~makes
          BY <3>2, <4>2 DEF slot
        <5> QED BY <1>14, <3>1, <3>2, <4>2, <5>1, <5>2 DEF Slot
      <4>3. CASE q = owner /\ e = d /\ slot = "temp"
        BY <1>14, <3>1, <3>2, <4>3 DEF Slot
      <4> QED BY <3>1, <4>1, <4>2, <4>3
    <3> QED BY <1>14, <3>2, <3>3
  <2>2. CASE ~taken
    <3>1. mgr2 = mgr1 /\ id = first
      BY <2>2
    <3> HIDE DEF mgr2, id
    <3>2. makes => mgr1.temp[owner][d] # Nil /\ mgr1.temp[owner][d].id = first
      BY <1>14 DEF Slot
    <3>3. OneLockMade(mgr, mgr1, d, first)
      BY <1>5, <1>14, <3>2 DEF OneLockMade
    <3> QED BY <1>14, <3>1, <3>3
  <2> QED BY <2>1, <2>2
<1> HIDE DEF mgr2
<1>16. ASSUME NEW k \in DOMAIN i_maps
       PROVE  MapOK(mgr2, k, i_maps[k])
  <2>1. MapOK(mgr, k, i_maps[k])
    BY <1>4 DEF MapsOK
  <2>2. k[1] \in Dungeons /\ k = <<k[1], k[2]>>
    BY <2>1, PairFields DEF MapOK
  <2>3. ASSUME NEW q \in Players
        PROVE  /\ mgr.perm[q][k[1]] # Nil => mgr2.perm[q][k[1]] # Nil /\
                    (kind[k[1]] = "bound" => mgr2.perm[q][k[1]].id = mgr.perm[q][k[1]].id)
               /\ mgr.temp[q][k[1]] # Nil => mgr2.temp[q][k[1]] # Nil /\
                    (kind[k[1]] = "bound" => mgr2.temp[q][k[1]].id = mgr.temp[q][k[1]].id)
    BY <1>15, <2>2 DEF OneLockMade
  <2>4. PointerOK(mgr, i_maps[k].lock, <<k[1], k[2]>>)
    BY <2>1, <2>2 DEF MapOK
  <2>5. PointerOK(mgr2, i_maps[k].lock, <<k[1], k[2]>>)
    BY <2>2, <2>3, <2>4, PointerKept
  <2> QED BY <2>1, <2>2, <2>5 DEF MapOK
<1>17. kind[d] # "normal" => PointsTo(mgr2, pointer, key)
  BY <1>5, <1>13, <1>15 DEF PointsTo, LockOf
<1>18. MapOK(mgr2, key, new)
  <2>1. pointer \in (Tables \X Players) \cup {Nil, Dangling}
    BY <1>5, <1>13
  <2>2. group[p] \in Groups \cup {Nil}
    BY <1>4 DEF PartyOK
  <2>3. new \in MapRecord /\ new.lock = pointer
    <3> HIDE DEF pointer
    <3> QED BY <2>1, <2>2 DEF MapRecord
  <2>4. PointerOK(mgr2, pointer, key)
    BY <1>17 DEF PointerOK
  <2> HIDE DEF new, pointer, id
  <2> QED BY <1>11, <2>3, <2>4 DEF MapOK
<1>19. /\ MapsOK(mgr2, maps) /\ DOMAIN maps = (DOMAIN i_maps) \cup {key}
       /\ uses # Dangling /\ kind[d] # "normal" => PointsTo(mgr2, maps[key].lock, key)
  <2>1. CASE found
    <3>1. maps = i_maps /\ key \in DOMAIN i_maps /\ id = first
      BY <2>1
    <3>2. uses = i_maps[key].lock
      BY <3>1
    <3> HIDE DEF maps, found, uses, id
    <3>3. MapsOK(mgr2, maps)
      BY <1>16, <3>1 DEF MapsOK
    <3>4. PointerOK(mgr2, i_maps[key].lock, key)
      BY <1>16, <3>1 DEF MapOK
    <3> QED BY <3>1, <3>2, <3>3, <3>4 DEF PointerOK
  <2>2. CASE ~found
    <3>1. maps = [k \in (DOMAIN i_maps) \cup {key} |-> IF k = key THEN new ELSE i_maps[k]]
      BY <2>2
    <3>2. new.lock = pointer
      OBVIOUS
    <3> HIDE DEF maps, found, uses, key, new, pointer
    <3>3. /\ DOMAIN maps = (DOMAIN i_maps) \cup {key}
          /\ \A k \in DOMAIN maps : maps[k] = IF k = key THEN new ELSE i_maps[k]
      BY <3>1
    <3>4. MapsOK(mgr2, maps)
      BY <1>16, <1>18, <3>3 DEF MapsOK
    <3> QED BY <1>17, <3>2, <3>3, <3>4
  <2> QED BY <2>1, <2>2
<1> HIDE DEF maps, uses, id
<1>20. key[2] = id
  OBVIOUS
<1> DEFINE v == CreateMap(p, d)
<1>21. Created(w, d)
  <2> HIDE DEF key, v
  <2> QED BY <1>2, <1>5, <1>11, <1>12, <1>15, <1>19, <1>20 DEF Created, key
<1> QED BY <1>21 DEF w

\* Who is saved to a raid, before the reset time or with an extended lock,
\* stays saved to this instance of it.
SavedStay ==
    \A p \in Players, d \in Dungeons : kind[d] = "bound" /\ Active(mgr.perm[p][d]) =>
      mgr'.perm[p][d] # Nil /\ mgr'.perm[p][d].id = mgr.perm[p][d].id

\* The kinds of the dungeons stay, and with them what Core says.
LEMMA CoreStep ==
    ASSUME NEW q, NEW m, NEW maps, NEW recent, NEW a, Core(q, m, maps, recent, a),
           kind' = kind, pool' = q, mgr' = m, i_maps' = maps, recentId' = recent, at' = a
    PROVE  Core(pool, mgr, i_maps, recentId, at)'
<1>1. (Scheduled <=> Scheduled') /\ (Scheduled' => Scheduled)
  BY DEF Scheduled
<1>2. PoolSound(pool)'
  BY DEF Core
<1>3. MgrOK(mgr)'
  BY DEF Core, MgrOK, LockOK
<1>4. MapsOK(mgr, i_maps)'
  BY DEF Core, MapsOK, MapOK, PointerOK, PointsTo
<1>5. LocksTaken(pool, mgr)' /\ MapsTaken(pool, i_maps)' /\ RecentsTaken(pool, recentId)'
  BY <1>1 DEF Core, LocksTaken, MapsTaken, RecentsTaken, Taken
<1>6. OwnRaids(mgr, at)'
  BY DEF Core, OwnRaids
<1>7. (Scheduled => RaidsOK(mgr))'
  BY <1>1 DEF Core, RaidsOK, Holds, Carries
<1> QED BY <1>2, <1>3, <1>4, <1>5, <1>6, <1>7 DEF Core

\* The server stops, or a player's recent instances and pending bind change.
LEMMA HaltKeeps ==
    ASSUME IInv, RecentsOK', pendingBind' \in [Players -> Ids \cup {0}],
           Core(pool, mgr, i_maps, recentId', at), NEW how \in {"running", "aborted", "undefined"},
           Halt(how)
    PROVE  IInv' /\ SavedStay
<1>1. Core(pool, mgr, i_maps, recentId, at)'
  BY CoreStep DEF Halt, places
<1>2. RestOK' /\ PartyOK'
  BY DEF IInv, RestOK, PartyOK, Halt, bounds, party
<1>3. PlacesOK'
  BY DEF IInv, PlacesOK, Halt, places
<1>4. SavedStay
  BY DEF Halt, SavedStay, Active
<1> QED BY <1>1, <1>2, <1>3, <1>4 DEF IInv

LEMMA StopKeeps ==
    ASSUME IInv, NEW how \in {"running", "aborted", "undefined"}, Stop(how)
    PROVE  IInv' /\ SavedStay
<1>1. RecentsOK' /\ pendingBind' \in [Players -> Ids \cup {0}]
  BY DEF IInv, RecentsOK, PlacesOK, Stop, recents
<1>2. Core(pool, mgr, i_maps, recentId', at) /\ Halt(how)
  BY DEF IInv, Stop, recents
<1> QED BY <1>1, <1>2, HaltKeeps

(* Enter: what CreateMap made is as the invariant has it, and a player who   *)
(* is let in to a raid is saved to no other (CanJoinInstanceLock).           *)
LEMMA EnterKeeps ==
    ASSUME IInv, NEW p \in Players, NEW d \in Dungeons, Enter(p, d)
    PROVE  IInv' /\ SavedStay
<1> DEFINE w == CreateMap(p, d)
           id == w.key[2]
           pointer == w.maps[w.key].lock
           recent == IF w.found \/ kind[d] # "normal" THEN recentId
                     ELSE [recentId EXCEPT ![Keeper(p)][d] = id]
           joins == pointer = Nil \/ CanJoinInstanceLock(w.mgr, p, d, pointer)
           a == IF joins THEN [at EXCEPT ![p] = w.key] ELSE at
           maps == IF joins THEN [w.maps EXCEPT ![w.key].unloads = FALSE] ELSE w.maps
<1>1. id <= MaxId /\ Data \ LiveData(mgr) # {} /\ at[p] = Nil
  BY DEF Enter
<1>2. Created(w, d)
  BY <1>1, CreateMapKeeps
<1>3. CASE w.uses = Dangling
  <2>1. Stop("undefined")
    BY <1>3 DEF Enter
  <2> QED BY <2>1, StopKeeps
<1>4. CASE w.uses # Dangling
  <2>1. /\ pool' = w.pool /\ mgr' = w.mgr /\ recentId' = recent
        /\ recentOwner' = IF w.found \/ group[p] = Nil THEN recentOwner
                          ELSE [recentOwner EXCEPT ![group[p]][d] = w.owner]
        /\ at' = a /\ i_maps' = maps
        /\ pendingBind' \in {pendingBind, [pendingBind EXCEPT ![p] = id]}
        /\ UNCHANGED <<kind, passed, grouped, group, leader, away, status>>
    <3> HIDE DEF w
    <3> QED BY <1>4 DEF Enter, bounds, party, w
  <2> HIDE DEF w
  <2>2. id \in Ids /\ w.key = <<d, id>> /\ w.owner \in Players /\ id \in Nat
    BY <1>2, Constants DEF Created, Ids
  <2>3. RecentsOK /\ PartyOK /\ PlacesOK /\ RestOK /\ Core(pool, mgr, i_maps, recentId, at)
    BY DEF IInv
  <2>4. Keeper(p) \in Players \cup Groups
    BY <2>3, OwnerIsPlayer
  <2>5. RecentsOK'
    <3>1. recent \in [Players \cup Groups -> [Dungeons -> Ids \cup {0}]]
      BY <2>2, <2>3, <2>4 DEF RecentsOK
    <3>2. group[p] # Nil => group[p] \in Groups
      BY <2>3 DEF PartyOK
    <3>3. recentOwner' \in [Groups -> [Dungeons -> Players \cup {Nil}]]
      BY <2>1, <2>2, <2>3, <3>2 DEF RecentsOK
    <3> QED BY <2>1, <3>1, <3>3 DEF RecentsOK
  <2>6. RestOK' /\ PartyOK'
    BY <2>1, <2>3 DEF RestOK, PartyOK
  <2>7. DOMAIN maps = (DOMAIN i_maps) \cup {w.key}
    BY <1>2 DEF Created
  <2>8. PlacesOK'
    <3>1. a \in [Players -> (DOMAIN maps) \cup {Nil}]
      BY <2>3, <2>7 DEF PlacesOK
    <3>2. away \subseteq {q \in Players : a[q] # Nil}
      <4>1. at \in [Players -> (DOMAIN i_maps) \cup {Nil}] /\ \A q \in away : q \in Players /\ at[q] # Nil
        BY <2>3 DEF PlacesOK
      <4>2. p \notin away
        BY <1>1, <4>1
      <4> QED BY <4>1, <4>2
    <3>3. pendingBind' \in [Players -> Ids \cup {0}]
      BY <2>1, <2>2, <2>3 DEF PlacesOK
    <3> HIDE DEF a, maps
    <3> QED BY <2>1, <3>1, <3>2, <3>3 DEF PlacesOK
  <2>9. Core(w.pool, w.mgr, maps, recent, a)
    <3>1. PoolSound(w.pool) /\ MgrOK(w.mgr) /\ (Scheduled => RaidsOK(w.mgr))
      BY <1>2, <2>3 DEF Created, Core
    <3>2. MapsOK(w.mgr, maps)
      <4>1. MapsOK(w.mgr, w.maps) /\ w.key \in DOMAIN w.maps
        BY <1>2 DEF Created
      <4>2. CASE ~joins
        BY <4>1, <4>2
      <4>3. CASE joins
        <5>1. \A k \in DOMAIN maps : k \in DOMAIN w.maps /\
                 maps[k] = IF k = w.key THEN [w.maps[k] EXCEPT !.unloads = FALSE] ELSE w.maps[k]
          BY <4>3
        <5>2. w.maps[w.key] \in MapRecord
          BY <4>1 DEF MapsOK, MapOK
        <5> DEFINE map == [w.maps[w.key] EXCEPT !.unloads = FALSE]
        <5>3. map \in MapRecord /\ map.lock = w.maps[w.key].lock
          BY <5>2, MapFields
        <5>4. MapOK(w.mgr, w.key, map)
          <6> HIDE DEF map
          <6> QED BY <4>1, <5>3 DEF MapsOK, MapOK
        <5> HIDE DEF maps, joins
        <5> QED BY <4>1, <5>1, <5>4 DEF MapsOK
      <4> QED BY <4>2, <4>3
    <3>3. LocksTaken(w.pool, w.mgr)
      <4> SUFFICES ASSUME NEW q \in Players, NEW e \in Dungeons
                   PROVE  /\ w.mgr.perm[q][e] # Nil => Taken(w.pool, w.mgr.perm[q][e].id)
                          /\ w.mgr.temp[q][e] # Nil => Taken(w.pool, w.mgr.temp[q][e].id)
        BY DEF LocksTaken
      <4>1. /\ mgr.perm[q][e] # Nil => Taken(pool, mgr.perm[q][e].id) /\ mgr.perm[q][e].id \in Nat
            /\ mgr.temp[q][e] # Nil => Taken(pool, mgr.temp[q][e].id) /\ mgr.temp[q][e].id \in Nat
        <5>1. \A i \in Ids : i \in Nat
          BY Constants DEF Ids
        <5> QED BY <2>3, <5>1, LockTypes DEF Core, LocksTaken
      <4>2. Taken(w.pool, id) /\ \A i \in Nat : Taken(pool, i) => Taken(w.pool, i)
        BY <1>2 DEF Created
      <4>3. OneLockMade(mgr, w.mgr, d, id)
        BY <1>2 DEF Created
      <4> HIDE DEF id
      <4> QED BY <4>1, <4>2, <4>3 DEF OneLockMade
    <3>4. MapsTaken(w.pool, maps)
      <4>1. \A k \in DOMAIN i_maps : Taken(pool, k[2]) /\ k[2] \in Nat
        <5>1. \A i \in Ids : i \in Nat
          BY Constants DEF Ids
        <5>2. \A k \in DOMAIN i_maps : k \in Dungeons \X Ids
          BY <2>3 DEF Core, MapsOK, MapOK
        <5> QED BY <2>3, <5>1, <5>2 DEF Core, MapsTaken
      <4> HIDE DEF maps
      <4> QED BY <1>2, <2>7, <4>1 DEF Created, MapsTaken
    <3>5. RecentsTaken(w.pool, recent)
      <4>1. /\ pool.size \in Nat /\ w.pool.size \in Nat /\ pool.size <= w.pool.size
            /\ id < w.pool.size
        BY <1>2, <2>3 DEF Created, Core, PoolSound, Pools, Taken
      <4> SUFFICES ASSUME NEW x \in Players \cup Groups, NEW e \in Dungeons
                   PROVE  recent[x][e] < w.pool.size
        BY DEF RecentsTaken
      <4>2. recentId[x][e] < pool.size /\ recentId[x][e] \in Nat
        BY <2>3, Constants DEF Core, RecentsTaken, RecentsOK, Ids
      <4>3. recent[x][e] \in {recentId[x][e], id}
        BY <2>3, <2>4 DEF RecentsOK
      <4> HIDE DEF id, recent
      <4> QED BY <2>2, <4>1, <4>2, <4>3
    <3>6. OwnRaids(w.mgr, a)
      <4> SUFFICES ASSUME NEW q \in Players, a[q] # Nil, kind[a[q][1]] = "bound",
                          w.mgr.perm[q][a[q][1]] # Nil, ~ w.mgr.perm[q][a[q][1]].expired
                   PROVE  w.mgr.perm[q][a[q][1]].id = a[q][2]
        BY DEF OwnRaids
      <4>1. CASE q = p /\ joins
        <5>1. a[q] = <<d, id>> /\ kind[d] = "bound"
          BY <2>2, <2>3, <4>1 DEF PlacesOK
        <5>2. PointsTo(w.mgr, pointer, <<d, id>>)
          BY <1>2, <1>4, <2>2, <5>1 DEF Created
        <5>3. pointer # Nil /\ LockOf(w.mgr, pointer, d).id = id
          BY <5>1, <5>2, Constants DEF PointsTo
        <5>4. CanJoinInstanceLock(w.mgr, p, d, pointer)
          BY <4>1, <5>3
        <5>5. w.mgr.perm[p][d] # Nil /\ ~ w.mgr.perm[p][d].expired
          BY <4>1, <5>1
        <5>6. FindActiveInstanceLock(w.mgr, p, d) = "perm"
          BY <5>5 DEF FindActiveInstanceLock, Active
        <5>7. w.mgr.perm[p][d].new = FALSE
          BY <3>1, <5>5 DEF MgrOK, LockOK
        <5>8. w.mgr.perm[p][d].id = id
          <6> HIDE DEF w, pointer, id
          <6> QED BY <5>1, <5>3, <5>4, <5>6, <5>7, Constants DEF CanJoinInstanceLock, Slot
        <5> QED BY <4>1, <5>1, <5>8
      <4>2. CASE ~ (q = p /\ joins)
        <5>1. a[q] = at[q] /\ at[q] # Nil
          BY <2>3, <4>2 DEF PlacesOK
        <5>2. at[q][1] \in Dungeons
          <6>1. at[q] \in DOMAIN i_maps
            BY <2>3, <5>1 DEF PlacesOK
          <6> QED BY <2>3, <6>1 DEF Core, MapsOK, MapOK
        <5>3. w.mgr.perm[q][at[q][1]] = mgr.perm[q][at[q][1]]
          BY <1>2, <5>1, <5>2 DEF Created, OneLockMade
        <5> QED BY <2>3, <5>1, <5>3 DEF Core, OwnRaids
      <4> QED BY <4>1, <4>2
    <3> QED BY <3>1, <3>2, <3>3, <3>4, <3>5, <3>6 DEF Core
  <2>10. Core(pool, mgr, i_maps, recentId, at)'
    <3> HIDE DEF recent, maps, a
    <3> QED BY <2>1, <2>9, CoreStep
  <2>11. SavedStay
    <3>1. OneLockMade(mgr, w.mgr, d, id)
      BY <1>2 DEF Created
    <3> QED BY <2>1, <3>1 DEF SavedStay, OneLockMade, Active
  <2> QED BY <2>5, <2>6, <2>8, <2>10, <2>11 DEF IInv
<1> QED BY <1>3, <1>4

-----------------------------------------------------------------------------
(* Saving.                                                                  *)

\* Where a map's pointer leads after the players S were saved to an instance
\* of d: to a lock that is there, a raid's to the map's id.
LEMMA RepointKeeps ==
    ASSUME NEW n, NEW S \in SUBSET Players, NEW d \in Dungeons, NEW id, SavedTo(mgr, n, S, d, id),
           NEW pointer, NEW e \in Dungeons, NEW i, PointerOK(mgr, pointer, <<e, i>>)
    PROVE  PointerOK(n, IF e = d THEN Repoint(pointer, S, d) ELSE pointer, <<e, i>>)
<1> DEFINE after == IF e = d THEN Repoint(pointer, S, d) ELSE pointer
<1>1. CASE kind[e] = "normal"
  <2>1. pointer = Nil
    BY <1>1 DEF PointerOK
  <2>2. after = Nil
    BY <2>1, Constants DEF Repoint
  <2> QED BY <1>1, <2>2 DEF PointerOK
<1>2. CASE kind[e] # "normal" /\ ~ PointsTo(mgr, pointer, <<e, i>>)
  <2>1. pointer = Dangling
    BY <1>2 DEF PointerOK
  <2>2. after = Dangling
    BY <2>1, Constants DEF Repoint
  <2> QED BY <1>2, <2>2 DEF PointerOK
<1>3. CASE kind[e] # "normal" /\ PointsTo(mgr, pointer, <<e, i>>)
  <2> DEFINE p == pointer[2]
  <2>1. pointer[1] \in {"perm", "temp"} /\ p \in Players /\ pointer = <<pointer[1], p>>
    BY <1>3 DEF PointsTo, Tables
  <2>2. /\ LockOf(mgr, pointer, e) # Nil
        /\ kind[e] = "bound" => LockOf(mgr, pointer, e).id = i
    BY <1>3 DEF PointsTo
  <2>3. CASE ~ (p \in S /\ e = d)
    <3>1. after = pointer
      BY <2>1, <2>3 DEF Repoint
    <3>2. n.perm[p][e] = mgr.perm[p][e] /\ n.temp[p][e] = mgr.temp[p][e]
      BY <2>1, <2>3 DEF SavedTo
    <3>3. LockOf(n, pointer, e) = LockOf(mgr, pointer, e)
      BY <2>1, <3>2 DEF LockOf, Slot
    <3> QED BY <1>3, <2>2, <3>1, <3>3 DEF PointerOK, PointsTo
  <2>4. CASE p \in S /\ e = d
    <3>1. /\ n.perm[p][d] # Nil /\ n.perm[p][d].id = id
          /\ n.temp[p][d] = IF Active(mgr.perm[p][d]) THEN mgr.temp[p][d] ELSE Nil
          /\ kind[d] = "bound" => IF Active(mgr.perm[p][d]) THEN mgr.perm[p][d].id = id
                                  ELSE mgr.temp[p][d] = Nil \/ mgr.temp[p][d].id = id
      BY <2>4 DEF SavedTo
    <3>2. CASE Active(mgr.perm[p][d])
      <4>1. after = pointer
        BY <3>2 DEF Repoint
      <4>2. LockOf(n, pointer, e) # Nil /\ (kind[e] = "bound" => LockOf(n, pointer, e).id = i)
        BY <2>1, <2>2, <2>4, <3>1, <3>2 DEF LockOf, Slot
      <4> QED BY <1>3, <4>1, <4>2 DEF PointerOK, PointsTo
    <3>3. CASE ~Active(mgr.perm[p][d]) /\ pointer[1] = "temp"
      <4>1. pointer \in Tables \X S
        BY <2>1, <2>4, <3>3 DEF Tables
      <4>2. after = <<"perm", p>> /\ after \in Tables \X Players
        BY <2>1, <2>4, <3>3, <4>1 DEF Repoint, Tables
      <4>3. LockOf(n, <<"perm", p>>, e) = n.perm[p][d]
        BY <2>4 DEF LockOf, Slot
      <4>4. kind[d] = "bound" => id = i
        BY <2>1, <2>2, <2>4, <3>1, <3>3 DEF LockOf, Slot
      <4> QED BY <1>3, <2>4, <3>1, <4>2, <4>3, <4>4 DEF PointerOK, PointsTo
    <3>4. CASE ~Active(mgr.perm[p][d]) /\ pointer[1] = "perm"
      <4>1. pointer \in Tables \X S
        BY <2>1, <2>4, <3>4 DEF Tables
      <4>2. after = Dangling
        BY <2>1, <2>4, <3>4, <4>1 DEF Repoint
      <4> QED BY <1>3, <4>2 DEF PointerOK
    <3> QED BY <2>1, <3>2, <3>3, <3>4
  <2> QED BY <2>3, <2>4
<1> QED BY <1>1, <1>2, <1>3

\* Repoint leaves a pointer or Dangling.
LEMMA RepointType ==
    ASSUME NEW S \in SUBSET Players, NEW d, NEW pointer \in (Tables \X Players) \cup {Nil, Dangling}
    PROVE  /\ Repoint(pointer, S, d) \in (Tables \X Players) \cup {Nil, Dangling}
           /\ S = {} => Repoint(pointer, S, d) = pointer
<1>1. CASE pointer \in Tables \X S
  BY <1>1 DEF Repoint, Tables
<1>2. CASE pointer \notin Tables \X S
  BY <1>2 DEF Repoint
<1> QED BY <1>1, <1>2

(* The players S, who are in the map of d with this id, are saved to it.    *)
LEMMA SaveKeeps ==
    ASSUME Core(pool, mgr, i_maps, recentId, at), PlacesOK,
           NEW n, MgrOK(n), NEW S \in SUBSET Players, NEW d \in Dungeons, NEW id \in Ids,
           SavedTo(mgr, n, S, d, id), RaidsOK(mgr) => RaidsOK(n), Taken(pool, id),
           \A p \in S : at[p] = <<d, id>>,
           NEW maps, DOMAIN maps = DOMAIN i_maps,
           \A k \in DOMAIN i_maps : maps[k] \in MapRecord /\ maps[k].lock =
             IF k[1] = d THEN Repoint(i_maps[k].lock, S, d) ELSE i_maps[k].lock,
           NEW a, \A p \in Players : a[p] \in {at[p], Nil},
           NEW recent, RecentsTaken(pool, recent)
    PROVE  Core(pool, n, maps, recent, a)
<1>1. /\ PoolSound(pool) /\ MapsOK(mgr, i_maps) /\ LocksTaken(pool, mgr)
      /\ MapsTaken(pool, i_maps) /\ OwnRaids(mgr, at) /\ (Scheduled => RaidsOK(mgr))
  BY DEF Core
<1>2. MapsOK(n, maps)
  <2> SUFFICES ASSUME NEW k \in DOMAIN i_maps PROVE MapOK(n, k, maps[k])
    BY DEF MapsOK
  <2>1. /\ k \in Dungeons \X Ids /\ k[1] \in Dungeons /\ k = <<k[1], k[2]>>
        /\ PointerOK(mgr, i_maps[k].lock, k)
    BY <1>1, PairFields DEF MapsOK, MapOK
  <2>2. PointerOK(mgr, i_maps[k].lock, <<k[1], k[2]>>)
    BY <2>1
  <2>3. PointerOK(n, IF k[1] = d THEN Repoint(i_maps[k].lock, S, d) ELSE i_maps[k].lock, <<k[1], k[2]>>)
    BY <2>1, <2>2, RepointKeeps
  <2>4. PointerOK(n, maps[k].lock, k)
    BY <2>1, <2>3
  <2> QED BY <2>1, <2>4 DEF MapOK
<1>3. LocksTaken(pool, n)
  <2> SUFFICES ASSUME NEW q \in Players, NEW e \in Dungeons
               PROVE  /\ n.perm[q][e] # Nil => Taken(pool, n.perm[q][e].id)
                      /\ n.temp[q][e] # Nil => Taken(pool, n.temp[q][e].id)
    BY DEF LocksTaken
  <2>1. /\ mgr.perm[q][e] # Nil => Taken(pool, mgr.perm[q][e].id)
        /\ mgr.temp[q][e] # Nil => Taken(pool, mgr.temp[q][e].id)
    BY <1>1 DEF LocksTaken
  <2>2. CASE q \in S /\ e = d
    BY <2>1, <2>2 DEF SavedTo
  <2>3. CASE ~ (q \in S /\ e = d)
    BY <2>1, <2>3 DEF SavedTo
  <2> QED BY <2>2, <2>3
<1>4. MapsTaken(pool, maps)
  BY <1>1 DEF MapsTaken
<1>5. OwnRaids(n, a)
  <2> SUFFICES ASSUME NEW q \in Players, a[q] # Nil, kind[a[q][1]] = "bound",
                      n.perm[q][a[q][1]] # Nil, ~ n.perm[q][a[q][1]].expired
               PROVE  n.perm[q][a[q][1]].id = a[q][2]
    BY DEF OwnRaids
  <2>1. a[q] = at[q]
    OBVIOUS
  <2>2. at[q] \in DOMAIN i_maps /\ at[q][1] \in Dungeons
    <3>1. at[q] \in DOMAIN i_maps
      BY <2>1 DEF PlacesOK
    <3> QED BY <1>1, <3>1 DEF MapsOK, MapOK
  <2>3. CASE q \in S /\ at[q][1] = d
    <3>1. n.perm[q][d].id = id
      BY <2>3 DEF SavedTo
    <3> QED BY <2>1, <2>3, <3>1
  <2>4. CASE ~ (q \in S /\ at[q][1] = d)
    <3>1. n.perm[q][at[q][1]] = mgr.perm[q][at[q][1]]
      BY <2>2, <2>4 DEF SavedTo
    <3> QED BY <1>1, <2>1, <3>1 DEF OwnRaids
  <2> QED BY <2>3, <2>4
<1> QED BY <1>1, <1>2, <1>3, <1>4, <1>5 DEF Core

LEMMA SavedStays ==
    ASSUME NEW n, NEW S, NEW d, NEW id, SavedTo(mgr, n, S, d, id), mgr' = n
    PROVE  SavedStay
BY DEF SavedTo, SavedStay, Active

\* The first half of saving: the shared state of a raid.
LEMMA SharedFirst ==
    ASSUME NEW m, MgrOK(m), NEW d \in Dungeons, NEW id \in Ids,
           NEW n, n = IF kind[d] = "bound" THEN UpdateSharedInstanceLock(m, id) ELSE m, n # Failed
    PROVE  MgrOK(n) /\ n.perm = m.perm /\ n.temp = m.temp /\ (RaidsOK(m) => RaidsOK(n))
<1>1. CASE kind[d] = "bound"
  BY <1>1, UpdateSharedKeeps
<1>2. CASE kind[d] # "bound"
  BY <1>2
<1> QED BY <1>1, <1>2

LEMMA SavedToSame ==
    ASSUME NEW m, NEW n, NEW l, NEW S \in SUBSET Players, NEW d \in Dungeons, NEW id,
           n.perm = m.perm, n.temp = m.temp
    PROVE  SavedTo(m, n, {}, d, id) /\ (SavedTo(n, l, S, d, id) => SavedTo(m, l, S, d, id))
BY DEF SavedTo

\* A living map's key.
LEMMA MapFacts ==
    ASSUME IInv, NEW key \in DOMAIN i_maps
    PROVE  /\ key[1] \in Dungeons /\ key[2] \in Ids /\ key = <<key[1], key[2]>>
           /\ Taken(pool, key[2]) /\ i_maps[key] \in MapRecord
           /\ i_maps[key].lock \in (Tables \X Players) \cup {Nil, Dangling}
           /\ PointerOK(mgr, i_maps[key].lock, key)
<1>1. MapOK(mgr, key, i_maps[key]) /\ Taken(pool, key[2])
  BY DEF IInv, Core, MapsOK, MapsTaken
<1>2. i_maps[key].lock \in (Tables \X Players) \cup {Nil, Dangling}
  BY <1>1 DEF MapOK, MapRecord
<1> QED BY <1>1, <1>2, PairFields DEF MapOK

\* The maps after RepointMaps.
LEMMA RepointMapsKeeps ==
    ASSUME IInv, NEW S \in SUBSET Players, NEW d \in Dungeons, RepointMaps(S, d)
    PROVE  /\ DOMAIN i_maps' = DOMAIN i_maps
           /\ \A k \in DOMAIN i_maps : i_maps'[k] \in MapRecord /\ i_maps'[k].lock =
                IF k[1] = d THEN Repoint(i_maps[k].lock, S, d) ELSE i_maps[k].lock
<1>1. DOMAIN i_maps' = DOMAIN i_maps
  BY DEF RepointMaps
<1>2. ASSUME NEW k \in DOMAIN i_maps
      PROVE  i_maps'[k] \in MapRecord /\ i_maps'[k].lock =
               IF k[1] = d THEN Repoint(i_maps[k].lock, S, d) ELSE i_maps[k].lock
  <2> DEFINE map == i_maps[k]
             pointer == Repoint(map.lock, S, d)
  <2>1. map \in MapRecord /\ pointer \in (Tables \X Players) \cup {Nil, Dangling}
    BY MapFacts, RepointType
  <2>2. [map EXCEPT !.lock = pointer] \in MapRecord /\ [map EXCEPT !.lock = pointer].lock = pointer
    <3> HIDE DEF map, pointer
    <3> QED BY <2>1, MapFields
  <2>3. i_maps'[k] = IF k[1] = d THEN [map EXCEPT !.lock = pointer] ELSE map
    BY DEF RepointMaps
  <2> HIDE DEF pointer
  <2> QED BY <2>1, <2>2, <2>3 DEF pointer
<1> QED BY <1>1, <1>2

(* UpdateInstanceLock: the shared state, then the players in the map.        *)
LEMMA UpdateKeeps ==
    ASSUME IInv, NEW key \in DOMAIN i_maps, UpdateInstanceLock(key)
    PROVE  IInv' /\ SavedStay
<1> DEFINE d == key[1]
           id == key[2]
           S == Inside(key)
           shared == IF kind[d] = "bound" THEN UpdateSharedInstanceLock(mgr, id) ELSE mgr
           result == UpdateInstanceLockForPlayers(shared, S, d, id)
<1>1. d \in Dungeons /\ id \in Ids /\ key = <<d, id>> /\ Taken(pool, id)
  BY MapFacts
<1>2. S \in SUBSET Players /\ \A p \in S : at[p] = key
  BY DEF Inside
<1>3. \/ Stop("undefined") \/ Stop("aborted")
      \/ /\ result # Failed /\ mgr' = result /\ RepointMaps(S, d)
         /\ UNCHANGED <<kind, bounds, pool, party, recents, places, pendingBind, status>>
  BY DEF UpdateInstanceLock
<1>4. CASE Stop("undefined") \/ Stop("aborted")
  BY <1>4, StopKeeps
<1>5. CASE /\ result # Failed /\ mgr' = result /\ RepointMaps(S, d)
           /\ UNCHANGED <<kind, bounds, pool, party, recents, places, pendingBind, status>>
  <2>1. Core(pool, mgr, i_maps, recentId, at) /\ PlacesOK /\ RestOK /\ PartyOK /\ RecentsOK /\ MgrOK(mgr)
    BY DEF IInv, Core
  <2>2. shared = Failed \/ MgrOK(shared)
    BY <1>1, <2>1, SharedFirst
  <2>11. shared # Failed
    <3> HIDE DEF shared, S, d, id
    <3> QED BY <1>1, <1>2, <1>5, <2>2, UpdateForPlayersKeeps
  <2>3. MgrOK(shared) /\ shared.perm = mgr.perm /\ shared.temp = mgr.temp
        /\ (RaidsOK(mgr) => RaidsOK(shared))
    BY <1>1, <2>1, <2>11, SharedFirst
  <2> HIDE DEF shared
  <2>4. MgrOK(result) /\ SavedTo(shared, result, S, d, id) /\ (RaidsOK(shared) => RaidsOK(result))
    BY <1>1, <1>2, <1>5, <2>3, UpdateForPlayersKeeps
  <2>5. SavedTo(mgr, result, S, d, id)
    BY <1>1, <1>2, <2>3, <2>4, SavedToSame
  <2>6. /\ DOMAIN i_maps' = DOMAIN i_maps
        /\ \A k \in DOMAIN i_maps : i_maps'[k] \in MapRecord /\ i_maps'[k].lock =
             IF k[1] = d THEN Repoint(i_maps[k].lock, S, d) ELSE i_maps[k].lock
    BY <1>1, <1>2, <1>5, RepointMapsKeeps
  <2> HIDE DEF result, S, d, id
  <2>7. Core(pool, result, i_maps', recentId, at)
    <3>1. RecentsTaken(pool, recentId) /\ \A p \in Players : at[p] \in {at[p], Nil}
      BY <2>1 DEF Core
    <3> QED BY <1>1, <1>2, <2>1, <2>3, <2>4, <2>5, <2>6, <3>1, SaveKeeps
  <2>8. Core(pool, mgr, i_maps, recentId, at)'
    BY <1>5, <2>7, CoreStep DEF recents, places
  <2>9. RestOK' /\ PartyOK' /\ RecentsOK'
    BY <1>5, <2>1 DEF RestOK, PartyOK, RecentsOK, bounds, party, recents
  <2>10. PlacesOK'
    BY <1>5, <2>1, <2>6 DEF PlacesOK, places
  <2> QED BY <1>5, <2>5, <2>8, <2>9, <2>10, SavedStays DEF IInv
<1> QED BY <1>3, <1>4, <1>5

(* ConfirmPendingBind: the player is in the map.                            *)
LEMMA ConfirmKeeps ==
    ASSUME IInv, NEW p \in Players, ConfirmPendingBind(p)
    PROVE  IInv' /\ SavedStay
<1> DEFINE key == at[p]
           d == key[1]
           id == key[2]
           result == UpdateInstanceLockForPlayer(mgr, p, d, id)
<1>1. key \in DOMAIN i_maps
  BY DEF ConfirmPendingBind, IInv, PlacesOK
<1>2. d \in Dungeons /\ id \in Ids /\ key = <<d, id>> /\ Taken(pool, id)
  BY <1>1, MapFacts
<1>3. \/ Stop("undefined") \/ Stop("aborted")
      \/ /\ result # Failed /\ mgr' = result /\ RepointMaps({p}, d)
         /\ pendingBind' = [pendingBind EXCEPT ![p] = 0]
         /\ UNCHANGED <<kind, bounds, pool, party, recents, places, status>>
  BY DEF ConfirmPendingBind
<1>4. CASE Stop("undefined") \/ Stop("aborted")
  BY <1>4, StopKeeps
<1>5. CASE /\ result # Failed /\ mgr' = result /\ RepointMaps({p}, d)
           /\ pendingBind' = [pendingBind EXCEPT ![p] = 0]
           /\ UNCHANGED <<kind, bounds, pool, party, recents, places, status>>
  <2>1. Core(pool, mgr, i_maps, recentId, at) /\ PlacesOK /\ RestOK /\ PartyOK /\ RecentsOK /\ MgrOK(mgr)
    BY DEF IInv, Core
  <2>2. MgrOK(result) /\ SavedTo(mgr, result, {p}, d, id) /\ (RaidsOK(mgr) => RaidsOK(result))
    BY <1>2, <1>5, <2>1, UpdateForPlayerKeeps
  <2>3. {p} \in SUBSET Players
    OBVIOUS
  <2>4. /\ DOMAIN i_maps' = DOMAIN i_maps
        /\ \A k \in DOMAIN i_maps : i_maps'[k] \in MapRecord /\ i_maps'[k].lock =
             IF k[1] = d THEN Repoint(i_maps[k].lock, {p}, d) ELSE i_maps[k].lock
    BY <1>2, <1>5, <2>3, RepointMapsKeeps
  <2> HIDE DEF result, d, id
  <2>5. Core(pool, result, i_maps', recentId, at)
    <3>1. RecentsTaken(pool, recentId) /\ \A q \in Players : at[q] \in {at[q], Nil}
      BY <2>1 DEF Core
    <3>2. \A q \in {p} : at[q] = <<d, id>>
      BY <1>2
    <3> QED BY <1>2, <2>1, <2>2, <2>3, <2>4, <3>1, <3>2, SaveKeeps
  <2>6. Core(pool, mgr, i_maps, recentId, at)'
    BY <1>5, <2>5, CoreStep DEF recents, places
  <2>7. RestOK' /\ PartyOK' /\ RecentsOK'
    BY <1>5, <2>1 DEF RestOK, PartyOK, RecentsOK, bounds, party, recents
  <2>8. PlacesOK'
    BY <1>5, <2>1, <2>4 DEF PlacesOK, places
  <2> QED BY <1>5, <2>2, <2>6, <2>7, <2>8, SavedStays DEF IInv
<1> QED BY <1>3, <1>4, <1>5

(* RemovePlayerFromMap: the last one saves, for those still in the list.    *)
LEMMA RemoveKeeps ==
    ASSUME IInv, NEW p \in Players, NEW stays \in BOOLEAN, at[p] # Nil, ~stays => p \notin away,
           RemovePlayerFromMap(p, stays),
           RecentsOK', RecentsTaken(pool, recentId'), pendingBind' \in [Players -> Ids \cup {0}]
    PROVE  IInv' /\ SavedStay
<1> DEFINE key == at[p]
           d == key[1]
           id == key[2]
           last == Inside(key) = {p}
           saves == last /\ i_maps[key].lock # Nil
           shared == IF kind[d] = "bound" THEN UpdateSharedInstanceLock(mgr, id) ELSE mgr
           result == IF ~saves THEN mgr
                     ELSE IF shared = Failed \/ ~stays THEN shared
                     ELSE UpdateInstanceLockForPlayer(shared, p, d, id)
           map(k) == [i_maps[k] EXCEPT !.unloads = @ \/ (last /\ k = key)]
           maps == [k \in DOMAIN i_maps |->
                      IF saves /\ stays /\ k[1] = d
                      THEN [map(k) EXCEPT !.lock = Repoint(@, {p}, k[1])] ELSE map(k)]
           S == IF saves /\ stays THEN {p} ELSE {}
           a == IF stays THEN at ELSE [at EXCEPT ![p] = Nil]
<1>1. key \in DOMAIN i_maps
  BY DEF IInv, PlacesOK
<1>2. d \in Dungeons /\ id \in Ids /\ key = <<d, id>> /\ Taken(pool, id)
  BY <1>1, MapFacts
<1>3. Core(pool, mgr, i_maps, recentId, at) /\ PlacesOK /\ RestOK /\ PartyOK /\ MgrOK(mgr)
  BY DEF IInv, Core
<1>4. Core(pool, mgr, i_maps, recentId', at)
  BY <1>3 DEF Core
<1>5. \/ Halt("undefined") \/ Halt("aborted")
      \/ /\ result # Failed \/ ~saves
         /\ mgr' = result /\ i_maps' = maps /\ at' = a
         /\ away' = IF stays THEN away \cup {p} ELSE away
         /\ UNCHANGED <<kind, bounds, pool, party, status>>
  BY Zenon DEF RemovePlayerFromMap
<1>6. CASE Halt("undefined") \/ Halt("aborted")
  BY <1>4, <1>6, HaltKeeps
<1>7. CASE /\ result # Failed \/ ~saves
           /\ mgr' = result /\ i_maps' = maps /\ at' = a
           /\ away' = IF stays THEN away \cup {p} ELSE away
           /\ UNCHANGED <<kind, bounds, pool, party, status>>
  <2>1. MgrOK(result) /\ SavedTo(mgr, result, S, d, id) /\ (RaidsOK(mgr) => RaidsOK(result))
    <3>1. CASE ~saves
      <4>1. result = mgr /\ S = {}
        BY <3>1
      <4>2. SavedTo(mgr, mgr, {}, d, id)
        BY <1>2, SavedToSame
      <4> QED BY <1>3, <4>1, <4>2
    <3>2. CASE saves
      <4>1. shared # Failed
        BY <1>7, <3>2
      <4>2. MgrOK(shared) /\ shared.perm = mgr.perm /\ shared.temp = mgr.temp
            /\ (RaidsOK(mgr) => RaidsOK(shared))
        BY <1>2, <1>3, <4>1, SharedFirst
      <4> HIDE DEF shared, saves
      <4>3. CASE ~stays
        <5>1. result = shared /\ S = {}
          BY <3>2, <4>1, <4>3
        <5>2. SavedTo(mgr, shared, {}, d, id)
          BY <1>2, <4>2, SavedToSame
        <5> QED BY <4>2, <5>1, <5>2
      <4>4. CASE stays
        <5>1. result = UpdateInstanceLockForPlayer(shared, p, d, id) /\ S = {p}
          BY <3>2, <4>1, <4>4
        <5>2. MgrOK(result) /\ SavedTo(shared, result, {p}, d, id) /\ (RaidsOK(shared) => RaidsOK(result))
          BY <1>2, <1>7, <3>2, <4>2, <5>1, UpdateForPlayerKeeps
        <5>3. SavedTo(mgr, result, {p}, d, id)
          BY <1>2, <4>2, <5>2, SavedToSame
        <5> QED BY <4>2, <5>1, <5>2, <5>3
      <4> QED BY <4>3, <4>4
    <3> QED BY <3>1, <3>2
  <2>2. ASSUME NEW k \in DOMAIN i_maps
        PROVE  maps[k] \in MapRecord /\ maps[k].lock =
                 IF k[1] = d THEN Repoint(i_maps[k].lock, S, d) ELSE i_maps[k].lock
    <3>1. i_maps[k] \in MapRecord /\ i_maps[k].lock \in (Tables \X Players) \cup {Nil, Dangling}
      BY MapFacts
    <3> DEFINE unloads == i_maps[k].unloads \/ (last /\ k = key)
    <3>2. map(k) = [i_maps[k] EXCEPT !.unloads = unloads] /\ unloads \in BOOLEAN
      BY <3>1 DEF MapRecord
    <3>3. map(k) \in MapRecord /\ map(k).lock = i_maps[k].lock
      <4> HIDE DEF unloads, map
      <4> QED BY <3>1, <3>2, MapFields
    <3> DEFINE pointer == Repoint(map(k).lock, {p}, k[1])
    <3>4. pointer \in (Tables \X Players) \cup {Nil, Dangling}
      <4> HIDE DEF map
      <4>1. {p} \in SUBSET Players
        OBVIOUS
      <4> QED BY <3>1, <3>3, <4>1, RepointType
    <3>5. maps[k] = IF saves /\ stays /\ k[1] = d THEN [map(k) EXCEPT !.lock = pointer] ELSE map(k)
      OBVIOUS
    <3> HIDE DEF map, maps, saves
    <3>6. [map(k) EXCEPT !.lock = pointer] \in MapRecord /\ [map(k) EXCEPT !.lock = pointer].lock = pointer
      <4> HIDE DEF pointer
      <4> QED BY <3>3, <3>4, MapFields
    <3>7. {} \in SUBSET Players /\ Repoint(i_maps[k].lock, {}, d) = i_maps[k].lock
      BY <3>1, RepointType
    <3>8. CASE saves /\ stays /\ k[1] = d
      BY <3>3, <3>5, <3>6, <3>8
    <3>9. CASE ~ (saves /\ stays /\ k[1] = d)
      BY <3>3, <3>5, <3>7, <3>9
    <3> QED BY <3>8, <3>9
  <2>3. S \in SUBSET Players /\ \A q \in S : at[q] = <<d, id>>
    BY <1>2
  <2>4. \A q \in Players : a[q] \in {at[q], Nil}
    BY <1>3 DEF PlacesOK
  <2>5. DOMAIN maps = DOMAIN i_maps
    OBVIOUS
  <2>6. PlacesOK'
    <3>1. a \in [Players -> (DOMAIN maps) \cup {Nil}]
      BY <1>3, <2>5 DEF PlacesOK
    <3>2. away' \subseteq {q \in Players : a[q] # Nil}
      BY <1>3, <1>7 DEF PlacesOK
    <3> HIDE DEF a, maps, result
    <3> QED BY <1>7, <3>1, <3>2 DEF PlacesOK
  <2> HIDE DEF result, S, maps, a, d, id, key
  <2>7. Core(pool, result, maps, recentId', a)
    BY <1>2, <1>3, <2>1, <2>2, <2>3, <2>4, <2>5, SaveKeeps
  <2>8. Core(pool, mgr, i_maps, recentId, at)'
    BY <1>7, <2>7, CoreStep
  <2>9. RestOK' /\ PartyOK'
    BY <1>3, <1>7 DEF RestOK, PartyOK, bounds, party
  <2> QED BY <1>7, <2>1, <2>6, <2>8, <2>9, SavedStays DEF IInv
<1> QED BY <1>5, <1>6, <1>7

-----------------------------------------------------------------------------
(* The other actions.                                                       *)

LEMMA TeleportOutKeeps ==
    ASSUME IInv, NEW p \in Players, TeleportOut(p)
    PROVE  IInv' /\ SavedStay
<1>1. at[p] # Nil /\ RemovePlayerFromMap(p, TRUE) /\ UNCHANGED <<recentId, recentOwner, pendingBind>>
  BY DEF TeleportOut, InWorld, recents
<1>2. RecentsOK' /\ RecentsTaken(pool, recentId') /\ pendingBind' \in [Players -> Ids \cup {0}]
  BY <1>1 DEF IInv, Core, RecentsOK, PlacesOK
<1> QED BY <1>1, <1>2, RemoveKeeps

LEMMA LogoutKeeps ==
    ASSUME IInv, NEW p \in Players, LogoutPlayer(p)
    PROVE  IInv' /\ SavedStay
<1>1. /\ p \notin away
      /\ recentId' = [recentId EXCEPT ![p] = [d \in Dungeons |-> 0]] /\ recentOwner' = recentOwner
      /\ pendingBind' = [pendingBind EXCEPT ![p] = 0]
  BY DEF LogoutPlayer
<1>2. RecentsOK' /\ pendingBind' \in [Players -> Ids \cup {0}]
  BY <1>1 DEF IInv, RecentsOK, PlacesOK
<1>3. RecentsTaken(pool, recentId')
  <2>1. RecentsTaken(pool, recentId) /\ RecentsOK /\ PoolSound(pool)
    BY DEF IInv, Core
  <2>2. 0 < pool.size
    BY <2>1 DEF PoolSound, Pools
  <2> QED BY <1>1, <2>1, <2>2 DEF RecentsTaken, RecentsOK
<1>4. CASE at[p] = Nil
  <2>1. UNCHANGED <<kind, bounds, pool, mgr, i_maps, party, places, status>>
    BY <1>4 DEF LogoutPlayer
  <2>2. Halt(status) /\ status \in {"running", "aborted", "undefined"}
    BY <2>1 DEF Halt, IInv, RestOK
  <2>3. Core(pool, mgr, i_maps, recentId', at)
    BY <1>3 DEF IInv, Core
  <2> QED BY <1>2, <2>2, <2>3, HaltKeeps
<1>5. CASE at[p] # Nil
  <2>1. RemovePlayerFromMap(p, FALSE)
    BY <1>5 DEF LogoutPlayer
  <2> QED BY <1>1, <1>2, <1>3, <1>5, <2>1, RemoveKeeps
<1> QED BY <1>4, <1>5

LEMMA DropKeeps ==
    ASSUME IInv, NEW p \in Players, DropPendingBind(p)
    PROVE  IInv' /\ SavedStay
<1>1. /\ pendingBind' = [pendingBind EXCEPT ![p] = 0] /\ UNCHANGED <<recentId, recentOwner>>
      /\ \/ at[p] # Nil /\ RemovePlayerFromMap(p, TRUE)
         \/ UNCHANGED <<kind, bounds, pool, mgr, i_maps, party, places, status>>
  BY DEF DropPendingBind, InWorld, recents
<1>2. RecentsOK' /\ pendingBind' \in [Players -> Ids \cup {0}] /\ RecentsTaken(pool, recentId')
  BY <1>1 DEF IInv, Core, RecentsOK, PlacesOK
<1>3. CASE at[p] # Nil /\ RemovePlayerFromMap(p, TRUE)
  BY <1>2, <1>3, RemoveKeeps
<1>4. CASE UNCHANGED <<kind, bounds, pool, mgr, i_maps, party, places, status>>
  <2>1. Halt(status) /\ status \in {"running", "aborted", "undefined"}
    BY <1>4 DEF Halt, IInv, RestOK
  <2>2. Core(pool, mgr, i_maps, recentId', at)
    BY <1>1 DEF IInv, Core
  <2> QED BY <1>2, <2>1, <2>2, HaltKeeps
<1> QED BY <1>1, <1>3, <1>4

\* Nobody gets to a place by leaving one.
LEMMA LeavingKeeps ==
    ASSUME NEW m, NEW a, \A p \in Players : a[p] \in {at[p], Nil}, OwnRaids(m, at)
    PROVE  OwnRaids(m, a)
BY DEF OwnRaids

LEMMA ArriveOutsideKeeps ==
    ASSUME IInv, NEW p \in Players, ArriveOutside(p)
    PROVE  IInv'
<1> DEFINE a == [at EXCEPT ![p] = Nil]
<1>1. /\ at' = a /\ away' = away \ {p}
      /\ UNCHANGED <<kind, bounds, pool, mgr, i_maps, party, recents, pendingBind, status>>
  BY DEF ArriveOutside
<1>2. Core(pool, mgr, i_maps, recentId, at) /\ PlacesOK /\ RestOK /\ PartyOK /\ RecentsOK
  BY DEF IInv
<1>3. \A q \in Players : a[q] \in {at[q], Nil}
  BY <1>2 DEF PlacesOK
<1>4. PlacesOK'
  BY <1>1, <1>2 DEF PlacesOK
<1> HIDE DEF a
<1>5. Core(pool, mgr, i_maps, recentId, a)
  BY <1>2, <1>3, LeavingKeeps DEF Core
<1>6. Core(pool, mgr, i_maps, recentId, at)'
  BY <1>1, <1>5, CoreStep DEF recents
<1>7. RestOK' /\ PartyOK' /\ RecentsOK'
  BY <1>1, <1>2 DEF RestOK, PartyOK, RecentsOK, bounds, party, recents
<1> QED BY <1>4, <1>6, <1>7 DEF IInv

\* Changes of the maps that leave their locks.
LEMMA MapsKeep ==
    ASSUME NEW m, NEW q, MapsOK(m, i_maps), MapsTaken(q, i_maps),
           NEW maps, DOMAIN maps \subseteq DOMAIN i_maps,
           \A k \in DOMAIN maps : maps[k] \in MapRecord /\ maps[k].lock = i_maps[k].lock
    PROVE  MapsOK(m, maps) /\ MapsTaken(q, maps)
BY DEF MapsOK, MapsTaken, MapOK

(* DestroyMap: the map's id is given back if the dungeon has no locks.      *)
LEMMA DestroyKeeps ==
    ASSUME IInv, NEW key \in DOMAIN i_maps, DestroyMap(key)
    PROVE  IInv'
<1> DEFINE maps == [k \in DOMAIN i_maps \ {key} |-> i_maps[k]]
           q == IF kind[key[1]] = "normal" THEN FreeInstanceId(pool, key[2]) ELSE pool
<1>1. \/ Stop("undefined")
      \/ /\ i_maps' = maps /\ pool' = q /\ Inside(key) = {}
         /\ UNCHANGED <<kind, bounds, mgr, party, recents, places, pendingBind, status>>
  BY DEF DestroyMap
<1>2. CASE Stop("undefined")
  BY <1>2, StopKeeps
<1>3. CASE /\ i_maps' = maps /\ pool' = q /\ Inside(key) = {}
           /\ UNCHANGED <<kind, bounds, mgr, party, recents, places, pendingBind, status>>
  <2>1. Core(pool, mgr, i_maps, recentId, at) /\ PlacesOK /\ RestOK /\ PartyOK /\ RecentsOK
    BY DEF IInv
  <2>2. key[1] \in Dungeons /\ key[2] \in Ids /\ Taken(pool, key[2])
    BY MapFacts
  <2>3. PoolSound(q) /\ q.size = pool.size /\ (kind[key[1]] # "normal" => q = pool)
    <3>1. PoolSound(pool) /\ pool \in Pools /\ pool.size \in Nat
      BY <2>1 DEF Core, PoolSound, Pools
    <3>2. key[2] \in 1..(pool.size - 1)
      BY <2>2, <3>1 DEF Ids, Taken
    <3>3. FreeInstanceId(pool, key[2]).size = pool.size
      BY <3>1 DEF FreeInstanceId, Pools
    <3> QED BY <3>1, <3>2, <3>3, FreeKeepsSound
  <2>4. \A id \in Nat : Taken(pool, id) => Taken(q, id)
    BY <2>2, <2>3 DEF Taken, Scheduled
  <2> HIDE DEF q
  <2>5. \A i \in Ids : i \in Nat
    BY Constants DEF Ids
  <2>6. LocksTaken(q, mgr)
    <3> SUFFICES ASSUME NEW p \in Players, NEW d \in Dungeons
                 PROVE  /\ mgr.perm[p][d] # Nil => Taken(q, mgr.perm[p][d].id)
                        /\ mgr.temp[p][d] # Nil => Taken(q, mgr.temp[p][d].id)
      BY DEF LocksTaken
    <3>1. LocksTaken(pool, mgr) /\ MgrOK(mgr)
      BY <2>1 DEF Core
    <3> QED BY <2>4, <2>5, <3>1, LockTypes DEF LocksTaken
  <2>7. MapsTaken(q, i_maps)
    <3>1. \A k \in DOMAIN i_maps : k[2] \in Nat /\ Taken(pool, k[2])
      BY <2>5, MapFacts
    <3> QED BY <2>4, <3>1 DEF MapsTaken
  <2>8. MapsOK(mgr, maps) /\ MapsTaken(q, maps)
    <3>1. MapsOK(mgr, i_maps) /\ \A k \in DOMAIN i_maps : i_maps[k] \in MapRecord
      BY <2>1, MapFacts DEF Core
    <3> QED BY <2>7, <3>1, MapsKeep
  <2>9. Core(q, mgr, maps, recentId, at)
    BY <2>1, <2>3, <2>6, <2>8 DEF Core, RecentsTaken
  <2>10. PlacesOK'
    <3>1. at \in [Players -> (DOMAIN maps) \cup {Nil}]
      <4>1. \A p \in Players : at[p] # key
        BY <1>3 DEF Inside
      <4> QED BY <2>1, <4>1 DEF PlacesOK
    <3> HIDE DEF maps
    <3> QED BY <1>3, <2>1, <3>1 DEF PlacesOK, places
  <2> HIDE DEF maps
  <2>11. Core(pool, mgr, i_maps, recentId, at)'
    BY <1>3, <2>9, CoreStep DEF recents, places
  <2>12. RestOK' /\ PartyOK' /\ RecentsOK'
    BY <1>3, <2>1 DEF RestOK, PartyOK, RecentsOK, bounds, party, recents
  <2> QED BY <2>10, <2>11, <2>12 DEF IInv
<1> QED BY <1>1, <1>2, <1>3

\* One lock with other flags: still to the same instance, not less expired.
SameLock(old, new) ==
    \/ old = Nil /\ new = Nil
    \/ /\ old # Nil /\ new # Nil /\ new.id = old.id /\ new.data = old.data /\ new.new = old.new
       /\ old.expired => new.expired

LEMMA FlagsKeep ==
    ASSUME Core(pool, mgr, i_maps, recentId, at),
           NEW n, n \in MgrRecord, n.byId = mgr.byId, n.instanceId = mgr.instanceId, n.rows = mgr.rows,
           \A p \in Players, d \in Dungeons :
             SameLock(mgr.perm[p][d], n.perm[p][d]) /\ SameLock(mgr.temp[p][d], n.temp[p][d]),
           NEW maps, DOMAIN maps = DOMAIN i_maps,
           \A k \in DOMAIN maps : maps[k] \in MapRecord /\ maps[k].lock = i_maps[k].lock,
           PlacesOK
    PROVE  Core(pool, n, maps, recentId, at)
<1>1. MgrOK(n)
  BY DEF Core, MgrOK, LockOK, SameLock
<1>2. MapsOK(mgr, maps) /\ MapsTaken(pool, maps)
  BY MapsKeep DEF Core
<1>3. MapsOK(n, maps)
  <2> SUFFICES ASSUME NEW k \in DOMAIN maps PROVE MapOK(n, k, maps[k])
    BY DEF MapsOK
  <2>1. /\ k[1] \in Dungeons /\ k = <<k[1], k[2]>> /\ k \in Dungeons \X Ids
        /\ maps[k] \in MapRecord /\ PointerOK(mgr, maps[k].lock, k)
    BY <1>2, PairFields DEF MapsOK, MapOK
  <2>2. ASSUME NEW p \in Players
        PROVE  /\ mgr.perm[p][k[1]] # Nil => n.perm[p][k[1]] # Nil /\
                    (kind[k[1]] = "bound" => n.perm[p][k[1]].id = mgr.perm[p][k[1]].id)
               /\ mgr.temp[p][k[1]] # Nil => n.temp[p][k[1]] # Nil /\
                    (kind[k[1]] = "bound" => n.temp[p][k[1]].id = mgr.temp[p][k[1]].id)
    BY <2>1 DEF SameLock
  <2>3. PointerOK(mgr, maps[k].lock, <<k[1], k[2]>>)
    BY <2>1
  <2>4. PointerOK(n, maps[k].lock, <<k[1], k[2]>>)
    BY <2>1, <2>2, <2>3, PointerKept
  <2> QED BY <2>1, <2>4 DEF MapOK
<1>4. LocksTaken(pool, n)
  BY DEF Core, LocksTaken, SameLock
<1>5. OwnRaids(n, at)
  <2>1. \A p \in Players : at[p] # Nil => at[p][1] \in Dungeons
    <3>1. \A k \in DOMAIN i_maps : k[1] \in Dungeons
      BY PairFields DEF Core, MapsOK, MapOK
    <3> QED BY <3>1 DEF PlacesOK
  <2> QED BY <2>1 DEF Core, OwnRaids, SameLock
<1>6. RaidsOK(mgr) => RaidsOK(n)
  <2>1. ASSUME NEW id \in Ids, NEW x \in Data PROVE Holds(n, id, x) <=> Holds(mgr, id, x)
    BY DEF Holds, Carries, SameLock
  <2>2. \A x \in Data : n.instanceId[x] # 0 => n.instanceId[x] \in Ids
    BY DEF MgrRecord
  <2> QED BY <2>1, <2>2 DEF RaidsOK
<1> QED BY <1>1, <1>2, <1>3, <1>4, <1>5, <1>6 DEF Core

(* The reset time passes.                                                   *)
LEMMA ResetTimeKeeps ==
    ASSUME IInv, NEW d \in Dungeons, ResetTime(d)
    PROVE  IInv' /\ SavedStay
<1> DEFINE Expire(table) ==
             [p \in Players |-> [table[p] EXCEPT ![d] =
                IF @ = Nil THEN Nil ELSE [@ EXCEPT !.expired = TRUE]]]
           used == {key \in DOMAIN i_maps : key[1] = d /\ Inside(key) # {}}
           n == [mgr EXCEPT !.perm = Expire(@), !.temp = Expire(@)]
           maps == [key \in DOMAIN i_maps |->
                      [i_maps[key] EXCEPT !.unloads = @ \/ (key[1] = d /\ key \notin used)]]
<1>1. \/ Stop("undefined")
      \/ /\ passed' = passed + 1 /\ grouped' = grouped /\ mgr' = n /\ i_maps' = maps
         /\ pendingBind' = [p \in Players |-> IF at[p] \in used THEN at[p][2] ELSE pendingBind[p]]
         /\ MayPass
         /\ UNCHANGED <<kind, pool, party, recents, places, status>>
  BY Zenon DEF ResetTime
<1>2. CASE Stop("undefined")
  BY <1>2, StopKeeps
<1>3. CASE /\ passed' = passed + 1 /\ grouped' = grouped /\ mgr' = n /\ i_maps' = maps
           /\ pendingBind' = [p \in Players |-> IF at[p] \in used THEN at[p][2] ELSE pendingBind[p]]
           /\ MayPass
           /\ UNCHANGED <<kind, pool, party, recents, places, status>>
  <2>1. Core(pool, mgr, i_maps, recentId, at) /\ PlacesOK /\ RestOK /\ PartyOK /\ RecentsOK /\ MgrOK(mgr)
        /\ mgr \in MgrRecord
    BY DEF IInv, Core, MgrOK
  <2>2. ASSUME NEW table \in Locks
        PROVE  /\ Expire(table) \in Locks
               /\ \A p \in Players, e \in Dungeons : SameLock(table[p][e], Expire(table)[p][e])
    <3>1. ASSUME NEW p \in Players, NEW e \in Dungeons
          PROVE  /\ Expire(table)[p][e] \in LockRecord \cup {Nil}
                 /\ SameLock(table[p][e], Expire(table)[p][e])
      <4> DEFINE lock == table[p][e]
                 new == [lock EXCEPT !.expired = TRUE]
      <4>1. lock \in LockRecord \cup {Nil} /\ Expire(table)[p][e] =
              IF e = d /\ lock # Nil THEN new ELSE lock
        <5>1. table[p] \in [Dungeons -> LockRecord \cup {Nil}] /\ lock \in LockRecord \cup {Nil}
          BY DEF Locks
        <5> DEFINE row == table[p]
                   expired == IF row[d] = Nil THEN Nil ELSE [row[d] EXCEPT !.expired = TRUE]
        <5>2. Expire(table)[p] = [row EXCEPT ![d] = expired]
          OBVIOUS
        <5>3. CASE e = d
          <6>1. Expire(table)[p][e] = expired
            <7> HIDE DEF expired, Expire, row
            <7> QED BY <5>1, <5>2, <5>3 DEF row
          <6> QED BY <5>1, <5>3, <6>1
        <5>4. CASE e # d
          <6>1. Expire(table)[p][e] = row[e]
            <7> HIDE DEF expired, Expire, row
            <7> QED BY <5>1, <5>2, <5>4 DEF row
          <6> QED BY <5>1, <5>4, <6>1
        <5> QED BY <5>3, <5>4
      <4>2. lock # Nil => /\ new \in LockRecord /\ new.id = lock.id /\ new.data = lock.data
                          /\ new.new = lock.new /\ new.expired = TRUE
        BY <4>1 DEF LockRecord
      <4> HIDE DEF lock, new, Expire
      <4> QED BY <4>1, <4>2, Constants DEF SameLock, lock
    <3>2. Expire(table) \in [Players -> [Dungeons -> LockRecord \cup {Nil}]]
      <4>1. \A p \in Players : Expire(table)[p] \in [Dungeons -> LockRecord \cup {Nil}]
        BY <3>1 DEF Locks
      <4> QED BY <4>1
    <3> QED BY <3>1, <3>2 DEF Locks
  <2>3. mgr.perm \in Locks /\ mgr.temp \in Locks
    BY <2>1 DEF MgrRecord
  <2>4. n = [mgr EXCEPT !.perm = Expire(mgr.perm), !.temp = Expire(mgr.temp)]
    BY <2>1 DEF MgrRecord
  <2>5. Expire(mgr.perm) \in Locks /\ Expire(mgr.temp) \in Locks
    BY <2>2, <2>3
  <2>6. /\ n \in MgrRecord /\ n.byId = mgr.byId /\ n.instanceId = mgr.instanceId /\ n.rows = mgr.rows
        /\ n.perm = Expire(mgr.perm) /\ n.temp = Expire(mgr.temp)
    <3> HIDE DEF n, Expire
    <3> QED BY <2>1, <2>4, <2>5 DEF MgrRecord
  <2>7. \A p \in Players, e \in Dungeons :
          SameLock(mgr.perm[p][e], n.perm[p][e]) /\ SameLock(mgr.temp[p][e], n.temp[p][e])
    <3> HIDE DEF n, Expire
    <3> QED BY <2>2, <2>3, <2>6
  <2>8. \A k \in DOMAIN i_maps : maps[k] \in MapRecord /\ maps[k].lock = i_maps[k].lock
    <3> SUFFICES ASSUME NEW k \in DOMAIN i_maps
                 PROVE  maps[k] \in MapRecord /\ maps[k].lock = i_maps[k].lock
      OBVIOUS
    <3> DEFINE unloads == i_maps[k].unloads \/ (k[1] = d /\ k \notin used)
    <3>1. i_maps[k] \in MapRecord
      BY MapFacts
    <3>2. unloads \in BOOLEAN /\ maps[k] = [i_maps[k] EXCEPT !.unloads = unloads]
      BY <3>1 DEF MapRecord
    <3> HIDE DEF unloads, maps
    <3> QED BY <3>1, <3>2, MapFields
  <2>9. DOMAIN maps = DOMAIN i_maps
    OBVIOUS
  <2>10. PlacesOK'
    <3>1. \A key \in used : key[2] \in Ids
      BY MapFacts
    <3> HIDE DEF used, maps
    <3> QED BY <1>3, <2>1, <2>9, <3>1 DEF PlacesOK, places
  <2> HIDE DEF n, maps, used
  <2>11. Core(pool, n, maps, recentId, at)
    BY <2>1, <2>6, <2>7, <2>8, <2>9, FlagsKeep
  <2>12. Core(pool, mgr, i_maps, recentId, at)'
    BY <1>3, <2>11, CoreStep DEF recents, places
  <2>13. RestOK'
    <3>1. passed + 1 \in 0..MaxPassed
      BY <1>3, <2>1, ConstantsAssumption DEF MayPass, RestOK
    <3> QED BY <1>3, <2>1, <3>1 DEF RestOK
  <2>14. PartyOK' /\ RecentsOK'
    BY <1>3, <2>1 DEF PartyOK, RecentsOK, party, recents
  <2>15. SavedStay
    BY <1>3, <2>7 DEF SavedStay, SameLock, Active
  <2> QED BY <2>10, <2>12, <2>13, <2>14, <2>15 DEF IInv
<1> QED BY <1>1, <1>2, <1>3

(* The calendar's extend button.                                            *)
LEMMA ExtendKeeps ==
    ASSUME IInv, NEW p \in Players, NEW d \in Dungeons, NEW extended \in BOOLEAN,
           ExtendLock(p, d, extended)
    PROVE  IInv' /\ SavedStay
<1> DEFINE old == mgr.perm[p][d]
           lock == [old EXCEPT !.extended = extended]
           n == [mgr EXCEPT !.perm[p][d].extended = extended]
<1>1. /\ old # Nil /\ MayPass /\ mgr' = n /\ passed' = passed + 1 /\ grouped' = grouped
      /\ UNCHANGED <<kind, pool, i_maps, party, recents, places, pendingBind, status>>
  BY DEF ExtendLock
<1>2. Core(pool, mgr, i_maps, recentId, at) /\ PlacesOK /\ RestOK /\ PartyOK /\ RecentsOK /\ MgrOK(mgr)
      /\ mgr \in MgrRecord
  BY DEF IInv, Core, MgrOK
<1>3. old \in LockRecord
  BY <1>1, <1>2, LockTypes
<1>4. /\ lock \in LockRecord /\ lock.id = old.id /\ lock.data = old.data /\ lock.new = old.new
      /\ lock.expired = old.expired
  BY <1>3 DEF LockRecord
<1>5. n = [mgr EXCEPT !.perm[p][d] = lock]
  BY <1>2 DEF MgrRecord, Locks
<1> HIDE DEF n, lock
<1>6. /\ n \in MgrRecord /\ n.byId = mgr.byId /\ n.instanceId = mgr.instanceId /\ n.rows = mgr.rows
      /\ n.perm = [mgr.perm EXCEPT ![p][d] = lock] /\ n.temp = mgr.temp
  BY <1>2, <1>4, <1>5 DEF MgrRecord, Locks
<1>7. \A q \in Players, e \in Dungeons :
        n.perm[q][e] = IF q = p /\ e = d THEN lock ELSE mgr.perm[q][e]
  BY <1>2, <1>6 DEF MgrRecord, Locks
<1>8. \A q \in Players, e \in Dungeons :
        SameLock(mgr.perm[q][e], n.perm[q][e]) /\ SameLock(mgr.temp[q][e], n.temp[q][e])
  BY <1>1, <1>4, <1>6, <1>7, Constants DEF SameLock
<1>9. \A k \in DOMAIN i_maps : i_maps[k] \in MapRecord
  BY MapFacts
<1>10. Core(pool, n, i_maps, recentId, at)
  BY <1>2, <1>6, <1>8, <1>9, FlagsKeep
<1>11. Core(pool, mgr, i_maps, recentId, at)'
  BY <1>1, <1>10, CoreStep DEF recents, places
<1>12. RestOK'
  <2>1. passed + 1 \in 0..MaxPassed
    BY <1>1, <1>2, ConstantsAssumption DEF MayPass, RestOK
  <2> QED BY <1>1, <1>2, <2>1 DEF RestOK
<1>13. PartyOK' /\ RecentsOK' /\ PlacesOK'
  BY <1>1, <1>2 DEF PartyOK, RecentsOK, PlacesOK, party, recents, places
<1>14. SavedStay
  BY <1>1, <1>8 DEF SavedStay, SameLock, Active
<1> QED BY <1>11, <1>12, <1>13, <1>14 DEF IInv

-----------------------------------------------------------------------------
(* Groups.                                                                  *)

(* Group::Create.                                                           *)
LEMMA CreateGroupKeeps ==
    ASSUME IInv, NEW g \in Groups, NEW p \in Players, NEW r \in Players, CreateGroup(g, p, r)
    PROVE  IInv'
<1> DEFINE maps == [key \in DOMAIN i_maps |->
                      IF key = at[p] /\ i_maps[key].owner = Nil
                      THEN [i_maps[key] EXCEPT !.owner = g] ELSE i_maps[key]]
<1>1. /\ p # r /\ group[p] = Nil /\ group[r] = Nil /\ leader[g] = Nil
      /\ group' = [group EXCEPT ![p] = g, ![r] = g] /\ leader' = [leader EXCEPT ![g] = p]
      /\ i_maps' = maps /\ grouped' = TRUE
      /\ UNCHANGED <<kind, passed, pool, mgr, recents, places, pendingBind, status>>
  BY DEF CreateGroup
<1>2. Core(pool, mgr, i_maps, recentId, at) /\ PlacesOK /\ RestOK /\ PartyOK /\ RecentsOK
  BY DEF IInv
<1>3. PartyOK'
  <2>1. g # Nil
    BY Constants
  <2>2. group' \in [Players -> Groups \cup {Nil}] /\ leader' \in [Groups -> Players \cup {Nil}]
    BY <1>1, <1>2 DEF PartyOK
  <2>3. ASSUME NEW q \in Players, group'[q] # Nil
        PROVE  leader'[group'[q]] # Nil /\ group'[leader'[group'[q]]] = group'[q]
    <3>1. CASE q \in {p, r}
      <4>1. group'[q] = g /\ leader'[g] = p /\ group'[p] = g /\ p # Nil
        BY <1>1, <1>2, <3>1, Constants DEF PartyOK
      <4> QED BY <4>1
    <3>2. CASE q \notin {p, r}
      <4> DEFINE h == group[q]
      <4>1. group'[q] = h /\ h \in Groups
        BY <1>1, <1>2, <2>3, <3>2 DEF PartyOK
      <4>2. leader[h] # Nil /\ leader[h] \in Players /\ group[leader[h]] = h /\ h # Nil
        BY <1>2, <2>3, <4>1 DEF PartyOK
      <4>3. h # g /\ leader[h] \notin {p, r}
        BY <1>1, <4>2
      <4>4. leader'[h] = leader[h] /\ group'[leader[h]] = h
        BY <1>1, <1>2, <4>1, <4>2, <4>3 DEF PartyOK
      <4> QED BY <4>1, <4>2, <4>4
    <3> QED BY <3>1, <3>2
  <2> QED BY <2>2, <2>3 DEF PartyOK
<1>4. \A k \in DOMAIN maps : maps[k] \in MapRecord /\ maps[k].lock = i_maps[k].lock
  BY MapFacts, MapFields
<1>5. DOMAIN maps = DOMAIN i_maps
  OBVIOUS
<1> HIDE DEF maps
<1>6. MapsOK(mgr, maps) /\ MapsTaken(pool, maps)
  BY <1>2, <1>4, <1>5, MapsKeep DEF Core
<1>7. Core(pool, mgr, maps, recentId, at)
  BY <1>2, <1>6 DEF Core
<1>8. Core(pool, mgr, i_maps, recentId, at)'
  BY <1>1, <1>7, CoreStep DEF recents, places
<1>9. RestOK' /\ RecentsOK'
  BY <1>1, <1>2 DEF RestOK, RecentsOK, recents
<1>10. PlacesOK'
  BY <1>1, <1>2, <1>5 DEF PlacesOK, places
<1> QED BY <1>3, <1>8, <1>9, <1>10 DEF IInv

(* Group::RemoveMember: with or without the end of the group.               *)
LEMMA RemoveMemberKeeps ==
    ASSUME IInv, NEW p \in Players, RemoveMember(p)
    PROVE  IInv'
<1> DEFINE g == group[p]
           maps == [key \in DOMAIN i_maps |->
                      [i_maps[key] EXCEPT !.owner = IF @ = g THEN Nil ELSE @]]
           stays == /\ group' = [group EXCEPT ![p] = Nil]
                    /\ \E q \in Members(g) \ {p} :
                         leader' = IF leader[g] = p THEN [leader EXCEPT ![g] = q] ELSE leader
                    /\ UNCHANGED <<i_maps, recents>>
           ends == /\ group' = [q \in Players |-> IF group[q] = g THEN Nil ELSE group[q]]
                   /\ leader' = [leader EXCEPT ![g] = Nil]
                   /\ recentId' = [recentId EXCEPT ![g] = [d \in Dungeons |-> 0]]
                   /\ recentOwner' = [recentOwner EXCEPT ![g] = [d \in Dungeons |-> Nil]]
                   /\ i_maps' = maps
<1>1. /\ g # Nil /\ (stays \/ ends)
      /\ UNCHANGED <<kind, bounds, pool, mgr, places, pendingBind, status>>
  BY DEF RemoveMember
<1>2. Core(pool, mgr, i_maps, recentId, at) /\ PlacesOK /\ RestOK /\ PartyOK /\ RecentsOK
  BY DEF IInv
<1>3. /\ g \in Groups /\ leader[g] \in Players /\ group[leader[g]] = g
      /\ group \in [Players -> Groups \cup {Nil}] /\ leader \in [Groups -> Players \cup {Nil}]
  BY <1>1, <1>2 DEF PartyOK
<1>4. PartyOK'
  <2>1. CASE stays
    <3>1. PICK q \in Members(g) \ {p} :
               leader' = IF leader[g] = p THEN [leader EXCEPT ![g] = q] ELSE leader
      BY <2>1
    <3>2. q \in Players /\ q # p /\ group[q] = g
      BY <3>1 DEF Members
    <3>3. group' \in [Players -> Groups \cup {Nil}] /\ leader' \in [Groups -> Players \cup {Nil}]
      BY <1>3, <2>1, <3>1, <3>2
    <3>4. ASSUME NEW r \in Players, group'[r] # Nil
          PROVE  leader'[group'[r]] # Nil /\ group'[leader'[group'[r]]] = group'[r]
      <4> DEFINE h == group[r]
      <4>1. r # p /\ group'[r] = h /\ h \in Groups /\ h # Nil
        BY <1>3, <2>1, <3>4
      <4>2. leader[h] \in Players /\ leader[h] # Nil /\ group[leader[h]] = h
        BY <1>2, <4>1 DEF PartyOK
      <4>3. leader'[h] = IF leader[g] = p /\ h = g THEN q ELSE leader[h]
        BY <1>3, <3>1, <4>1
      <4>4. leader'[h] # p /\ leader'[h] \in Players /\ leader'[h] # Nil /\ group[leader'[h]] = h
        BY <1>1, <1>3, <3>2, <4>2, <4>3, Constants
      <4>5. group'[leader'[h]] = h
        BY <1>3, <2>1, <4>4
      <4> QED BY <4>1, <4>4, <4>5
    <3> QED BY <3>3, <3>4 DEF PartyOK
  <2>2. CASE ends
    <3>1. group' \in [Players -> Groups \cup {Nil}] /\ leader' \in [Groups -> Players \cup {Nil}]
      BY <1>3, <2>2
    <3>2. ASSUME NEW r \in Players, group'[r] # Nil
          PROVE  leader'[group'[r]] # Nil /\ group'[leader'[group'[r]]] = group'[r]
      <4> DEFINE h == group[r]
      <4>1. h # g /\ group'[r] = h /\ h \in Groups
        BY <1>3, <2>2, <3>2
      <4>2. leader[h] \in Players /\ leader[h] # Nil /\ group[leader[h]] = h
        BY <1>2, <3>2, <4>1 DEF PartyOK
      <4>3. leader'[h] = leader[h] /\ group'[leader[h]] = h
        BY <1>3, <2>2, <4>1, <4>2
      <4> QED BY <4>1, <4>2, <4>3
    <3> QED BY <3>1, <3>2 DEF PartyOK
  <2> QED BY <1>1, <2>1, <2>2
<1>5. CASE stays
  <2>1. UNCHANGED <<kind, bounds, pool, mgr, i_maps, recents, places, pendingBind, status>>
    BY <1>1, <1>5
  <2>2. Core(pool, mgr, i_maps, recentId, at)'
    BY <1>2, <2>1, CoreStep DEF recents, places
  <2>3. RestOK' /\ RecentsOK' /\ PlacesOK'
    BY <1>2, <2>1 DEF RestOK, RecentsOK, PlacesOK, bounds, recents, places
  <2> QED BY <1>4, <2>2, <2>3 DEF IInv
<1>6. CASE ends
  <2>1. \A k \in DOMAIN maps : maps[k] \in MapRecord /\ maps[k].lock = i_maps[k].lock
    <3> SUFFICES ASSUME NEW k \in DOMAIN i_maps
                 PROVE  maps[k] \in MapRecord /\ maps[k].lock = i_maps[k].lock
      OBVIOUS
    <3> DEFINE owner == IF i_maps[k].owner = g THEN Nil ELSE i_maps[k].owner
    <3>1. i_maps[k] \in MapRecord
      BY MapFacts
    <3>2. owner \in Groups \cup {Nil} /\ maps[k] = [i_maps[k] EXCEPT !.owner = owner]
      BY <3>1 DEF MapRecord
    <3> HIDE DEF owner, maps
    <3> QED BY <3>1, <3>2, MapFields
  <2>2. DOMAIN maps = DOMAIN i_maps /\ i_maps' = maps
    BY <1>6
  <2> HIDE DEF maps
  <2>3. MapsOK(mgr, maps) /\ MapsTaken(pool, maps)
    BY <1>2, <2>1, <2>2, MapsKeep DEF Core
  <2>4. /\ recentId' = [recentId EXCEPT ![g] = [d \in Dungeons |-> 0]]
        /\ recentOwner' = [recentOwner EXCEPT ![g] = [d \in Dungeons |-> Nil]]
    BY <1>6
  <2> HIDE DEF g
  <2>5. RecentsOK'
    BY <1>2, <1>3, <2>4 DEF RecentsOK
  <2>6. RecentsTaken(pool, recentId')
    <3>1. RecentsTaken(pool, recentId) /\ 0 < pool.size
      BY <1>2 DEF Core, PoolSound, Pools
    <3> QED BY <1>2, <2>4, <3>1 DEF RecentsTaken, RecentsOK
  <2>7. Core(pool, mgr, maps, recentId', at)
    BY <1>2, <2>3, <2>6 DEF Core
  <2>8. Core(pool, mgr, i_maps, recentId, at)'
    BY <1>1, <2>2, <2>7, CoreStep DEF places
  <2>9. RestOK' /\ PlacesOK'
    BY <1>1, <1>2, <2>2 DEF RestOK, PlacesOK, bounds, places
  <2> QED BY <1>4, <2>5, <2>8, <2>9 DEF IInv
<1> QED BY <1>1, <1>5, <1>6

(* "Reset all instances": recent instances are forgotten, maps unload.      *)
LEMMA ResetInstancesKeeps ==
    ASSUME IInv, NEW p \in Players, ResetInstances(p)
    PROVE  IInv'
<1> DEFINE g == group[p]
           keys == IF g = Nil
                   THEN {key \in DOMAIN i_maps : recentId[p][key[1]] = key[2]}
                   ELSE {key \in DOMAIN i_maps : i_maps[key].owner = g}
           forgets(key) == IF CannotReset(key) THEN g # Nil ELSE Inside(key) = {}
           forgotten == {key[1] : key \in {k \in keys : forgets(k)}}
           maps == [key \in DOMAIN i_maps |->
                      [i_maps[key] EXCEPT !.unloads = @ \/
                         (key \in keys /\ ~CannotReset(key) /\ Inside(key) = {})]]
<1>1. \/ Stop("undefined")
      \/ /\ recentId' = [recentId EXCEPT ![Keeper(p)] =
                           [d \in Dungeons |-> IF d \in forgotten THEN 0 ELSE @[d]]]
         /\ recentOwner' = IF g = Nil THEN recentOwner
                           ELSE [recentOwner EXCEPT ![g] =
                                   [d \in Dungeons |-> IF d \in forgotten THEN Nil ELSE @[d]]]
         /\ i_maps' = maps
         /\ UNCHANGED <<kind, bounds, pool, mgr, party, places, pendingBind, status>>
  BY Zenon DEF ResetInstances
<1>2. CASE Stop("undefined")
  BY <1>2, StopKeeps
<1>3. CASE /\ recentId' = [recentId EXCEPT ![Keeper(p)] =
                           [d \in Dungeons |-> IF d \in forgotten THEN 0 ELSE @[d]]]
           /\ recentOwner' = IF g = Nil THEN recentOwner
                             ELSE [recentOwner EXCEPT ![g] =
                                     [d \in Dungeons |-> IF d \in forgotten THEN Nil ELSE @[d]]]
           /\ i_maps' = maps
           /\ UNCHANGED <<kind, bounds, pool, mgr, party, places, pendingBind, status>>
  <2>1. Core(pool, mgr, i_maps, recentId, at) /\ PlacesOK /\ RestOK /\ PartyOK /\ RecentsOK
    BY DEF IInv
  <2>2. Keeper(p) \in Players \cup Groups /\ g \in Groups \cup {Nil}
    BY <2>1, OwnerIsPlayer DEF Keeper, PartyOK
  <2>3. \A k \in DOMAIN maps : maps[k] \in MapRecord /\ maps[k].lock = i_maps[k].lock
    <3> SUFFICES ASSUME NEW k \in DOMAIN i_maps
                 PROVE  maps[k] \in MapRecord /\ maps[k].lock = i_maps[k].lock
      OBVIOUS
    <3> DEFINE unloads == i_maps[k].unloads \/
                 (k \in keys /\ ~CannotReset(k) /\ Inside(k) = {})
    <3>1. i_maps[k] \in MapRecord
      BY MapFacts
    <3>2. maps[k] = [i_maps[k] EXCEPT !.unloads = unloads]
      BY <3>1 DEF MapRecord
    <3>3. unloads \in BOOLEAN
      <4> HIDE DEF keys
      <4> QED BY <3>1 DEF MapRecord
    <3> HIDE DEF unloads, maps
    <3> QED BY <3>1, <3>2, <3>3, MapFields
  <2>4. DOMAIN maps = DOMAIN i_maps
    OBVIOUS
  <2> HIDE DEF maps, forgotten, g
  <2>5. MapsOK(mgr, maps) /\ MapsTaken(pool, maps)
    BY <2>1, <2>3, <2>4, MapsKeep DEF Core
  <2>6. RecentsOK'
    BY <1>3, <2>1, <2>2 DEF RecentsOK
  <2>7. RecentsTaken(pool, recentId')
    <3>1. RecentsTaken(pool, recentId) /\ 0 < pool.size
      BY <2>1 DEF Core, PoolSound, Pools
    <3> QED BY <1>3, <2>1, <2>2, <3>1 DEF RecentsTaken, RecentsOK
  <2>8. Core(pool, mgr, maps, recentId', at)
    BY <2>1, <2>5, <2>7 DEF Core
  <2>9. Core(pool, mgr, i_maps, recentId, at)'
    BY <1>3, <2>8, CoreStep DEF places
  <2>10. RestOK' /\ PartyOK'
    BY <1>3, <2>1 DEF RestOK, PartyOK, bounds, party
  <2>11. PlacesOK'
    BY <1>3, <2>1, <2>4 DEF PlacesOK, places
  <2> QED BY <2>6, <2>9, <2>10, <2>11 DEF IInv
<1> QED BY <1>1, <1>2, <1>3

-----------------------------------------------------------------------------
(* Restart.                                                                 *)

\* The highest id in the tables, as the bound it is.
LEMMA HighestId ==
    ASSUME NEW T \in SUBSET Ids, T # {}
    PROVE  Max(T) \in Nat /\ T \subseteq 1..Max(T)
<1> DEFINE above == {k \in Nat : \A x \in T : x <= k}
           k == Min(above)
<1>1. \A x \in T : x \in Nat /\ 1 <= x /\ x <= MaxId
  BY DEF Ids
<1>2. MaxId \in above /\ above \in SUBSET Nat
  BY <1>1, Constants
<1>3. k \in above /\ \A j \in above : k <= j
  <2> HIDE DEF above
  <2> QED BY <1>2, MinIsLeast
<1> HIDE DEF k
<1>4. k \in Nat /\ \A x \in T : x <= k
  BY <1>3
<1>5. k \in T
  <2> SUFFICES ASSUME k \notin T PROVE FALSE
    OBVIOUS
  <2>1. PICK x \in T : TRUE
    OBVIOUS
  <2>2. k - 1 \in Nat
    BY <1>1, <1>4, <2>1
  <2>3. \A y \in T : y <= k - 1
    BY <1>1, <1>4
  <2>4. k - 1 \in above
    BY <2>2, <2>3
  <2> QED BY <1>3, <1>4, <2>2, <2>4
<1>6. Max(T) \in T /\ \A y \in T : Max(T) >= y
  BY <1>1, <1>4, <1>5 DEF Max
<1> QED BY <1>1, <1>6

(* Load: the permanent locks come back with their raids' states, but for    *)
(* those whose raid is not in the database; the ids of all of them are      *)
(* registered.                                                              *)
LEMMA RestartKeeps ==
    ASSUME IInv, Restart
    PROVE  /\ IInv'
           /\ Scheduled => \A p \in Players, d \in Dungeons :
                kind[d] = "bound" /\ Active(mgr.perm[p][d]) /\ mgr.instanceId[mgr.perm[p][d].data] # 0
                => mgr'.perm[p][d] # Nil /\ mgr'.perm[p][d].id = mgr.perm[p][d].id
<1> DEFINE stored == {x \in Players \X Dungeons : mgr.perm[x[1]][x[2]] # Nil}
           IdAt(x) == mgr.perm[x[1]][x[2]].id
           lost == {x \in stored : kind[x[2]] = "bound" /\ IdAt(x) \notin mgr.rows}
           registered == {IdAt(x) : x \in stored}
           shared == {IdAt(x) : x \in {y \in stored \ lost : kind[y[2]] = "bound"}}
           highest == IF registered \cup mgr.rows = {} THEN 0 ELSE Max(registered \cup mgr.rows)
           q == RegisterInstanceIds(InitInstanceIds(highest), registered)
           perm == [p \in Players |-> [d \in Dungeons |->
                      IF <<p, d>> \notin stored \ lost THEN Nil
                      ELSE [mgr.perm[p][d] EXCEPT
                              !.data = IF kind[d] = "bound" THEN mgr.perm[p][d].id ELSE NoData]]]
           byId == [i \in Ids |-> IF i \in shared THEN i ELSE NoData]
           instanceId == [x \in Data |-> IF x \in shared THEN x ELSE 0]
           n == [perm |-> perm, temp |-> NoLocks, byId |-> byId, instanceId |-> instanceId,
                 rows |-> mgr.rows]
           nowhere == [p \in Players |-> Nil]
<1>1. /\ pool' = q /\ mgr' = n /\ i_maps' = <<>> /\ recentId' = NoRecents /\ recentOwner' = NoOwners
      /\ at' = nowhere /\ away' = {} /\ pendingBind' = [p \in Players |-> 0]
      /\ status' = "running" /\ UNCHANGED <<kind, bounds, party>>
  BY Zenon DEF Restart
<1>2. Core(pool, mgr, i_maps, recentId, at) /\ RestOK /\ PartyOK /\ MgrOK(mgr) /\ mgr \in MgrRecord
  BY DEF IInv, Core, MgrOK
<1>3. \A p \in Players, d \in Dungeons : <<p, d>> \in stored <=> mgr.perm[p][d] # Nil
  OBVIOUS
<1>4. \A p \in Players, d \in Dungeons :
        <<p, d>> \in lost <=> /\ mgr.perm[p][d] # Nil /\ kind[d] = "bound"
                              /\ mgr.perm[p][d].id \notin mgr.rows
  OBVIOUS
<1>5. \A x \in stored : \E p \in Players, d \in Dungeons : x = <<p, d>>
  OBVIOUS
<1>6. registered \in SUBSET Ids /\ mgr.rows \in SUBSET Ids
  <2>1. \A x \in stored : IdAt(x) \in Ids
    BY <1>2, LockTypes
  <2> HIDE DEF stored, IdAt
  <2> QED BY <1>2, <2>1 DEF MgrRecord
<1>7. \A p \in Players, d \in Dungeons :
        mgr.perm[p][d] # Nil => mgr.perm[p][d].id \in registered
  <2>1. ASSUME NEW p \in Players, NEW d \in Dungeons, mgr.perm[p][d] # Nil
        PROVE  <<p, d>> \in stored /\ IdAt(<<p, d>>) = mgr.perm[p][d].id
    BY <2>1
  <2> HIDE DEF stored, IdAt
  <2> QED BY <2>1
<1>8. \A i : i \in shared <=> \E p \in Players, d \in Dungeons :
        /\ mgr.perm[p][d] # Nil /\ kind[d] = "bound" /\ mgr.perm[p][d].id = i
        /\ <<p, d>> \notin lost
  <2>1. \A x \in stored : kind[x[2]] = "bound" <=> kind[x[2]] = "bound"
    OBVIOUS
  <2>2. ASSUME NEW i, i \in shared
        PROVE  \E p \in Players, d \in Dungeons :
                 /\ mgr.perm[p][d] # Nil /\ kind[d] = "bound" /\ mgr.perm[p][d].id = i
                 /\ <<p, d>> \notin lost
    <3>1. PICK x \in stored \ lost : kind[x[2]] = "bound" /\ IdAt(x) = i
      <4> HIDE DEF stored, lost, IdAt
      <4> QED BY <2>2
    <3>2. PICK p \in Players, d \in Dungeons : x = <<p, d>>
      BY <1>5, <3>1
    <3> HIDE DEF lost
    <3> QED BY <3>1, <3>2
  <2>3. ASSUME NEW p \in Players, NEW d \in Dungeons,
               mgr.perm[p][d] # Nil, kind[d] = "bound", <<p, d>> \notin lost
        PROVE  mgr.perm[p][d].id \in shared
    <3>1. <<p, d>> \in stored \ lost /\ <<p, d>>[2] = d /\ IdAt(<<p, d>>) = mgr.perm[p][d].id
      BY <2>3
    <3> HIDE DEF stored, lost, IdAt
    <3> QED BY <2>3, <3>1
  <2> HIDE DEF shared, lost
  <2> QED BY <2>2, <2>3
<1> HIDE DEF stored, lost, registered, shared
<1>9. highest \in Nat /\ registered \in SUBSET (1..highest)
  BY <1>6, HighestId
<1> HIDE DEF highest
<1>10. PoolSound(q) /\ q.size = highest + 2 /\ q.free \cap registered = {}
  BY <1>9, RegisteredSound
<1> HIDE DEF q
<1>11. ASSUME NEW p \in Players, NEW d \in Dungeons
       PROVE  LET old == mgr.perm[p][d]
                  lock == perm[p][d]
              IN  IF old = Nil \/ <<p, d>> \in lost THEN lock = Nil
                  ELSE /\ lock \in LockRecord /\ lock # Nil /\ lock.id = old.id /\ lock.new = FALSE
                       /\ lock.data = IF kind[d] = "bound" THEN old.id ELSE NoData
  <2> DEFINE old == mgr.perm[p][d]
             data == IF kind[d] = "bound" THEN old.id ELSE NoData
             lock == [old EXCEPT !.data = data]
  <2>1. perm[p][d] = IF <<p, d>> \notin stored \ lost THEN Nil ELSE lock
    OBVIOUS
  <2>2. ASSUME old # Nil
        PROVE  /\ lock \in LockRecord /\ lock.id = old.id /\ lock.new = FALSE /\ lock.data = data
    <3>1. old \in LockRecord /\ old.id \in Ids /\ old.new = FALSE
      BY <1>2, <2>2, LockTypes DEF MgrOK, LockOK
    <3>2. data \in Data \cup {NoData}
      BY <3>1, Constants
    <3> HIDE DEF data, old
    <3> QED BY <3>1, <3>2 DEF LockRecord
  <2>3. old # Nil => lock # Nil
    BY <2>2, Constants
  <2> HIDE DEF perm, lock
  <2> QED BY <1>3, <2>1, <2>2, <2>3
<1>12. perm \in Locks /\ NoLocks \in Locks
  <2>1. \A p \in Players, d \in Dungeons : perm[p][d] \in LockRecord \cup {Nil}
    BY <1>11
  <2> QED BY <2>1 DEF Locks, NoLocks
<1>13. shared \subseteq Ids
  <2> SUFFICES ASSUME NEW i \in shared PROVE i \in Ids
    OBVIOUS
  <2>1. PICK p \in Players, d \in Dungeons : mgr.perm[p][d] # Nil /\ mgr.perm[p][d].id = i
    BY <1>8
  <2> QED BY <1>2, <2>1, LockTypes
<1>14. byId \in [Ids -> Data \cup {NoData, Expired}] /\ instanceId \in [Data -> Ids \cup {0}]
  BY <1>13, Constants
<1>15. \A i \in Ids : byId[i] = IF i \in shared THEN i ELSE NoData
  OBVIOUS
<1>16. \A x \in Data : instanceId[x] = IF x \in shared THEN x ELSE 0
  OBVIOUS
<1> HIDE DEF perm, byId, instanceId
<1>17. /\ n \in MgrRecord /\ n.perm = perm /\ n.temp = NoLocks /\ n.byId = byId
       /\ n.instanceId = instanceId /\ n.rows = mgr.rows
  BY <1>6, <1>12, <1>14 DEF MgrRecord
<1> HIDE DEF n
<1>18. \A p \in Players, d \in Dungeons : n.temp[p][d] = Nil
  BY <1>17 DEF NoLocks
<1>19. MgrOK(n)
  <2> SUFFICES ASSUME NEW p \in Players, NEW d \in Dungeons
               PROVE  LockOK(d, n.perm[p][d], FALSE) /\ LockOK(d, n.temp[p][d], TRUE)
    BY <1>17 DEF MgrOK
  <2>1. mgr.perm[p][d] # Nil => mgr.perm[p][d].id \in Data
    BY <1>2, LockTypes, Constants
  <2> QED BY <1>11, <1>17, <1>18, <2>1 DEF LockOK
<1>20. LocksTaken(q, n)
  <2>1. \A i \in registered : Taken(q, i)
    BY <1>9, <1>10 DEF Taken
  <2>2. \A p \in Players, d \in Dungeons : n.perm[p][d] # Nil => n.perm[p][d].id \in registered
    BY <1>7, <1>11, <1>17
  <2> QED BY <1>18, <2>1, <2>2 DEF LocksTaken
<1>21. ASSUME NEW i \in Ids, NEW x \in Data
       PROVE  Holds(n, i, x) <=> i \in shared /\ x = i
  <2>1. ASSUME Holds(n, i, x) PROVE i \in shared /\ x = i
    <3>1. PICK p \in Players, d \in Dungeons : kind[d] = "bound" /\
               (Carries(n.perm[p][d], i, x) \/ Carries(n.temp[p][d], i, x))
      BY <2>1 DEF Holds
    <3>2. Carries(perm[p][d], i, x)
      BY <1>17, <1>18, <3>1 DEF Carries
    <3>3. /\ mgr.perm[p][d] # Nil /\ <<p, d>> \notin lost /\ mgr.perm[p][d].id = i /\ x = i
      BY <1>11, <3>1, <3>2 DEF Carries
    <3> QED BY <1>8, <3>1, <3>3
  <2>2. ASSUME i \in shared, x = i PROVE Holds(n, i, x)
    <3>1. PICK p \in Players, d \in Dungeons :
            /\ mgr.perm[p][d] # Nil /\ kind[d] = "bound" /\ mgr.perm[p][d].id = i
            /\ <<p, d>> \notin lost
      BY <1>8, <2>2
    <3>2. Carries(n.perm[p][d], i, x)
      BY <1>11, <1>17, <2>2, <3>1 DEF Carries
    <3> QED BY <3>1, <3>2 DEF Holds
  <2> QED BY <2>1, <2>2
<1>22. ASSUME NEW i \in shared PROVE i \in mgr.rows
  <2>1. PICK p \in Players, d \in Dungeons :
          /\ mgr.perm[p][d] # Nil /\ kind[d] = "bound" /\ mgr.perm[p][d].id = i
          /\ <<p, d>> \notin lost
    BY <1>8
  <2> QED BY <1>4, <2>1
<1>23. RaidsOK(n)
  <2>1. ASSUME NEW i \in Ids, NEW x \in Data, Holds(n, i, x)
        PROVE  /\ n.byId[i] = x /\ n.instanceId[x] \in {0, i}
               /\ \A other \in Ids : Holds(n, other, x) => other = i
    BY <1>15, <1>16, <1>17, <1>21, <2>1
  <2>2. \A i \in Ids : n.byId[i] \in Data => Holds(n, i, n.byId[i])
    BY <1>15, <1>17, <1>21, Constants
  <2>3. \A x \in Data : n.instanceId[x] # 0 =>
          Holds(n, n.instanceId[x], x) /\ n.instanceId[x] \in n.rows
    BY <1>13, <1>16, <1>17, <1>21, <1>22
  <2> QED BY <2>1, <2>2, <2>3 DEF RaidsOK
<1>24. MapsOK(n, <<>>) /\ MapsTaken(q, <<>>) /\ OwnRaids(n, nowhere)
  BY DEF MapsOK, MapsTaken, OwnRaids
<1>25. RecentsTaken(q, NoRecents)
  BY <1>9, <1>10 DEF RecentsTaken, NoRecents
<1>26. Core(q, n, <<>>, NoRecents, nowhere)
  BY <1>10, <1>19, <1>20, <1>23, <1>24, <1>25 DEF Core
<1>27. Core(pool, mgr, i_maps, recentId, at)'
  <2> HIDE DEF nowhere
  <2> QED BY <1>1, <1>26, CoreStep
<1>28. RestOK' /\ PartyOK'
  BY <1>1, <1>2 DEF RestOK, PartyOK, bounds, party
<1>29. RecentsOK'
  BY <1>1 DEF RecentsOK, NoRecents, NoOwners
<1>30. PlacesOK'
  BY <1>1 DEF PlacesOK
<1>31. ASSUME Scheduled, NEW p \in Players, NEW d \in Dungeons,
              kind[d] = "bound", Active(mgr.perm[p][d]), mgr.instanceId[mgr.perm[p][d].data] # 0
       PROVE  mgr'.perm[p][d] # Nil /\ mgr'.perm[p][d].id = mgr.perm[p][d].id
  <2> DEFINE lock == mgr.perm[p][d]
  <2>1. lock # Nil /\ lock.id \in Ids /\ lock.data \in Data
    BY <1>2, <1>31, LockTypes DEF Active, MgrOK, LockOK
  <2>2. Holds(mgr, lock.id, lock.data)
    BY <1>31, <2>1 DEF Holds, Carries
  <2>3. lock.id \in mgr.rows
    <3>1. RaidsOK(mgr)
      BY <1>2, <1>31 DEF Core
    <3>2. mgr.instanceId[lock.data] = lock.id
      BY <1>31, <2>1, <2>2, <3>1 DEF RaidsOK
    <3> QED BY <1>31, <2>1, <3>1, <3>2 DEF RaidsOK
  <2>4. <<p, d>> \notin lost
    BY <1>4, <2>3
  <2> QED BY <1>1, <1>11, <1>17, <2>1, <2>4
<1> QED BY <1>27, <1>28, <1>29, <1>30, <1>31 DEF IInv

-----------------------------------------------------------------------------
(* The theorems.                                                            *)

LEMMA InitHolds ==
    ASSUME Init
    PROVE  IInv
<1>1. PoolSound(pool) /\ pool.size = 2
  <2>1. pool = InitInstanceIds(0) /\ 0 \in Nat
    BY DEF Init
  <2>2. PoolSound(InitInstanceIds(0))
    BY <2>1, InitSound
  <2> QED BY <2>1, <2>2 DEF InitInstanceIds
<1>2. /\ mgr.perm = NoLocks /\ mgr.temp = NoLocks /\ mgr.byId = [i \in Ids |-> NoData]
      /\ mgr.instanceId = [x \in Data |-> 0] /\ mgr.rows = {}
  BY DEF Init
<1>3. \A p \in Players, d \in Dungeons : mgr.perm[p][d] = Nil /\ mgr.temp[p][d] = Nil
  BY <1>2 DEF NoLocks
<1>4. mgr \in MgrRecord
  <2>1. NoLocks \in Locks
    BY DEF NoLocks, Locks
  <2>2. mgr = [perm |-> NoLocks, temp |-> NoLocks, byId |-> [i \in Ids |-> NoData],
               instanceId |-> [x \in Data |-> 0], rows |-> {}]
    BY DEF Init
  <2>3. [i \in Ids |-> NoData] \in [Ids -> Data \cup {NoData, Expired}]
        /\ [x \in Data |-> 0] \in [Data -> Ids \cup {0}]
    OBVIOUS
  <2> QED BY <2>1, <2>2, <2>3 DEF MgrRecord
<1>5. MgrOK(mgr) /\ LocksTaken(pool, mgr)
  BY <1>3, <1>4 DEF MgrOK, LockOK, LocksTaken
<1>6. RaidsOK(mgr)
  <2>1. \A i \in Ids, x \in Data : ~ Holds(mgr, i, x)
    BY <1>3 DEF Holds, Carries
  <2> QED BY <1>2, <2>1, Constants DEF RaidsOK
<1>7. MapsOK(mgr, i_maps) /\ MapsTaken(pool, i_maps) /\ OwnRaids(mgr, at)
  BY DEF Init, MapsOK, MapsTaken, OwnRaids
<1>8. RecentsTaken(pool, recentId)
  BY <1>1 DEF Init, NoRecents, RecentsTaken
<1>9. Core(pool, mgr, i_maps, recentId, at)
  BY <1>1, <1>5, <1>6, <1>7, <1>8 DEF Core
<1>10. RestOK
  <2>1. kind \in [Dungeons -> Kinds] /\ status = "running" /\ passed = 0 /\ grouped = FALSE
    BY DEF Init
  <2>2. 0 \in 0..MaxPassed
    BY ConstantsAssumption
  <2> QED BY <2>1, <2>2 DEF RestOK
<1>11. PartyOK /\ RecentsOK /\ PlacesOK
  BY DEF Init, PartyOK, RecentsOK, PlacesOK, NoRecents, NoOwners
<1> QED BY <1>9, <1>10, <1>11 DEF IInv

\* A step, action by action.
LEMMA StepKeeps ==
    ASSUME IInv, Next
    PROVE  IInv' /\ (SavedStay \/ Restart)
<1>1. CASE \E p \in Players, d \in Dungeons :
             Enter(p, d) \/ ExtendLock(p, d, TRUE) \/ ExtendLock(p, d, FALSE)
  BY <1>1, EnterKeeps, ExtendKeeps
<1>2. CASE \E key \in DOMAIN i_maps : UpdateInstanceLock(key)
  BY <1>2, UpdateKeeps
<1>3. CASE \E key \in DOMAIN i_maps : DestroyMap(key)
  <2>1. SavedStay
    <3>1. mgr' = mgr
      BY <1>3 DEF DestroyMap, Stop, Halt
    <3> QED BY <3>1 DEF SavedStay, Active
  <2> QED BY <1>3, <2>1, DestroyKeeps
<1>4. CASE \E p \in Players : ConfirmPendingBind(p) \/ DropPendingBind(p)
                              \/ TeleportOut(p) \/ LogoutPlayer(p)
  BY <1>4, ConfirmKeeps, DropKeeps, TeleportOutKeeps, LogoutKeeps
<1>5. CASE \E p \in Players : ArriveOutside(p) \/ RemoveMember(p) \/ ResetInstances(p)
  <2>1. SavedStay
    <3>1. mgr' = mgr
      BY <1>5 DEF ArriveOutside, RemoveMember, ResetInstances, Stop, Halt
    <3> QED BY <3>1 DEF SavedStay, Active
  <2> QED BY <1>5, <2>1, ArriveOutsideKeeps, RemoveMemberKeeps, ResetInstancesKeeps
<1>6. CASE \E g \in Groups, p, q \in Players : CreateGroup(g, p, q)
  <2>1. SavedStay
    <3>1. mgr' = mgr
      BY <1>6 DEF CreateGroup
    <3> QED BY <3>1 DEF SavedStay, Active
  <2> QED BY <1>6, <2>1, CreateGroupKeeps
<1>7. CASE \E d \in Dungeons : ResetTime(d)
  BY <1>7, ResetTimeKeeps
<1>8. CASE Restart
  BY <1>8, RestartKeeps
<1> QED BY <1>1, <1>2, <1>3, <1>4, <1>5, <1>6, <1>7, <1>8 DEF Next

LEMMA StutterKeeps ==
    ASSUME IInv, UNCHANGED vars
    PROVE  IInv' /\ SavedStay
<1>1. Halt(status) /\ status \in {"running", "aborted", "undefined"}
      /\ UNCHANGED <<recentId, recentOwner, pendingBind>>
  BY DEF vars, Halt, IInv, RestOK, bounds, party, places, recents
<1>2. RecentsOK' /\ pendingBind' \in [Players -> Ids \cup {0}] /\ Core(pool, mgr, i_maps, recentId', at)
  BY <1>1 DEF IInv, RecentsOK, PlacesOK
<1> QED BY <1>1, <1>2, HaltKeeps

(* The inductive invariant holds: every type, where a map's pointer to its  *)
(* lock may point, which ids were handed out, and what the tables of        *)
(* InstanceLockMgr know of a raid id that somebody is saved to.             *)
THEOREM Inductive == Spec => []IInv
<1>1. Init => IInv
  BY InitHolds
<1>2. IInv /\ [Next]_vars => IInv'
  BY StepKeeps, StutterKeeps
<1> QED BY <1>1, <1>2, PTL DEF Spec

(* Every variable keeps its type, and a map's lock is one that is there.    *)
THEOREM TypeCorrect == Spec => []TypeOK
<1>1. ASSUME IInv PROVE TypeOK
  <2>1. /\ Core(pool, mgr, i_maps, recentId, at) /\ RestOK /\ PartyOK /\ PlacesOK
        /\ mgr \in MgrRecord
    BY <1>1 DEF IInv, Core, MgrOK
  <2>2. ASSUME NEW key \in DOMAIN i_maps
        PROVE  /\ key \in Dungeons \X Ids
               /\ i_maps[key].owner \in Groups \cup {Nil}
               /\ LET lock == i_maps[key].lock
                  IN  IF kind[key[1]] = "normal" THEN lock = Nil
                      ELSE lock = Dangling \/
                           (lock \in Tables \X Players /\ LockOf(mgr, lock, key[1]) # Nil)
    <3>1. key \in Dungeons \X Ids /\ i_maps[key] \in MapRecord /\ PointerOK(mgr, i_maps[key].lock, key)
      BY <2>1 DEF Core, MapsOK, MapOK
    <3>2. i_maps[key].owner \in Groups \cup {Nil}
      BY <3>1 DEF MapRecord
    <3> QED BY <3>1, <3>2 DEF PointerOK, PointsTo
  <2>3. PoolSound(pool) /\ kind \in [Dungeons -> Kinds]
    BY <2>1 DEF Core, RestOK
  <2>4. /\ {mgr.perm, mgr.temp} \subseteq [Players -> [Dungeons -> LockRecord \cup {Nil}]]
        /\ mgr.byId \in [Ids -> Data \cup {NoData, Expired}]
        /\ mgr.instanceId \in [Data -> Ids \cup {0}] /\ mgr.rows \subseteq Ids
    BY <2>1 DEF MgrRecord, Locks
  <2> QED BY <2>1, <2>2, <2>3, <2>4, Zenon DEF TypeOK, RestOK, PartyOK, PlacesOK
<1> QED BY <1>1, Inductive, PTL

(* Where every dungeon has a reset schedule, an id that a lock or a living   *)
(* map has is not handed out again.                                         *)
THEOREM IdsTakenHolds == Spec => []IdsTaken
<1>1. ASSUME IInv PROVE IdsTaken
  <2> SUFFICES ASSUME Scheduled,
                      NEW id \in IdsOfLocks \cup {key[2] : key \in DOMAIN i_maps}
               PROVE  id < pool.size /\ id \notin pool.free
    BY DEF IdsTaken, Scheduled
  <2>1. LocksTaken(pool, mgr) /\ MapsTaken(pool, i_maps)
    BY <1>1 DEF IInv, Core
  <2>2. CASE id \in IdsOfLocks
    <3>1. PICK x \in Used(mgr) : id = LockAt(mgr, x).id
      BY <2>2 DEF IdsOfLocks
    <3>2. Taken(pool, id)
      BY <2>1, <3>1, UsedCases DEF LocksTaken
    <3> QED BY <3>2 DEF Taken
  <2>3. CASE id \in {key[2] : key \in DOMAIN i_maps}
    BY <2>1, <2>3 DEF MapsTaken, Taken
  <2> QED BY <2>2, <2>3
<1> QED BY <1>1, Inductive, PTL

(* A player who is saved to an instance of a raid, before the reset time,   *)
(* is never inside another one, whatever kinds of dungeons there are.       *)
THEOREM OwnRaidOnlyHolds == Spec => []OwnRaidOnly
<1>1. ASSUME IInv PROVE OwnRaidOnly
  BY <1>1 DEF IInv, Core, OwnRaids, OwnRaidOnly
<1> QED BY <1>1, Inductive, PTL

-----------------------------------------------------------------------------
(* What is true only where no dungeon without a reset schedule shares the   *)
(* pool of ids with a raid: the former gives its ids back while players and *)
(* groups still remember them.                                              *)

NotMixed ==
    (\E d \in Dungeons : kind[d] = "normal") => \A d \in Dungeons : kind[d] # "bound"

LEMMA KindStays ==
    ASSUME Next
    PROVE  kind' = kind
<1>1. CASE \E p \in Players, d \in Dungeons :
             Enter(p, d) \/ ExtendLock(p, d, TRUE) \/ ExtendLock(p, d, FALSE)
  <2>1. ASSUME NEW p \in Players, NEW d \in Dungeons, Enter(p, d)
        PROVE  kind' = kind
    <3>1. \/ Stop("undefined")
          \/ UNCHANGED <<kind, bounds, party, away, status>>
      BY <2>1, Zenon DEF Enter
    <3> QED BY <3>1 DEF Stop, Halt
  <2>2. ASSUME NEW p \in Players, NEW d \in Dungeons,
               ExtendLock(p, d, TRUE) \/ ExtendLock(p, d, FALSE)
        PROVE  kind' = kind
    BY <2>2 DEF ExtendLock
  <2> QED BY <1>1, <2>1, <2>2
<1>2. CASE \E key \in DOMAIN i_maps : UpdateInstanceLock(key) \/ DestroyMap(key)
  BY <1>2 DEF UpdateInstanceLock, DestroyMap, Stop, Halt
<1>3. CASE \E p \in Players : ConfirmPendingBind(p)
  BY <1>3 DEF ConfirmPendingBind, Stop, Halt
<1>4. CASE \E p \in Players : DropPendingBind(p) \/ TeleportOut(p) \/ LogoutPlayer(p)
  <2>1. ASSUME NEW p \in Players, NEW stays \in BOOLEAN, RemovePlayerFromMap(p, stays)
        PROVE  kind' = kind
    BY <2>1 DEF RemovePlayerFromMap, Halt
  <2> QED BY <1>4, <2>1 DEF DropPendingBind, TeleportOut, LogoutPlayer
<1>5. CASE \E p \in Players : ArriveOutside(p) \/ RemoveMember(p) \/ ResetInstances(p)
  BY <1>5 DEF ArriveOutside, RemoveMember, ResetInstances, Stop, Halt
<1>6. CASE \E g \in Groups, p, q \in Players : CreateGroup(g, p, q)
  BY <1>6 DEF CreateGroup
<1>7. CASE \E d \in Dungeons : ResetTime(d)
  BY <1>7 DEF ResetTime, Stop, Halt
<1>8. CASE Restart
  BY <1>8 DEF Restart
<1> QED BY <1>1, <1>2, <1>3, <1>4, <1>5, <1>6, <1>7, <1>8 DEF Next

(* No operation changes whether a dungeon has a reset schedule or is locked *)
(* to an instance id: both are read from the client's data at startup.      *)
THEOREM NotMixedStays == Spec /\ NotMixed => []NotMixed
<1>1. NotMixed /\ [Next]_vars => NotMixed'
  <2> SUFFICES ASSUME NotMixed, [Next]_vars PROVE NotMixed'
    OBVIOUS
  <2>1. kind' = kind
    BY KindStays DEF vars
  <2> QED BY <2>1 DEF NotMixed
<1> QED BY <1>1, PTL DEF Spec

\* With a raid and NotMixed, raids have one state each.
LEMMA RaidsAreOK ==
    ASSUME IInv, NotMixed, NEW d \in Dungeons, kind[d] = "bound"
    PROVE  Scheduled /\ RaidsOK(mgr)
<1>1. Scheduled
  BY DEF NotMixed, Scheduled
<1> QED BY <1>1 DEF IInv, Core

\* A lock to a raid, by what it carries.
LEMMA BoundLockHolds ==
    ASSUME IInv, NotMixed, NEW lock \in BoundLocks
    PROVE  /\ RaidsOK(mgr) /\ lock.id \in Ids /\ lock.data \in Data
           /\ Holds(mgr, lock.id, lock.data)
<1>1. PICK y \in Used(mgr) : kind[y[3]] = "bound" /\ lock = LockAt(mgr, y)
  BY DEF BoundLocks
<1>2. PICK p \in Players, d \in Dungeons :
             \/ y = <<"perm", p, d>> /\ LockAt(mgr, y) = mgr.perm[p][d] /\ mgr.perm[p][d] # Nil
             \/ y = <<"temp", p, d>> /\ LockAt(mgr, y) = mgr.temp[p][d] /\ mgr.temp[p][d] # Nil
  BY UsedCases
<1>3. kind[d] = "bound" /\ lock # Nil /\ (lock = mgr.perm[p][d] \/ lock = mgr.temp[p][d])
  BY <1>1, <1>2
<1>4. MgrOK(mgr) /\ RaidsOK(mgr)
  BY <1>3, RaidsAreOK DEF IInv, Core
<1>5. lock.id \in Ids /\ lock.data \in Data
  <2>1. /\ mgr.perm[p][d] # Nil => mgr.perm[p][d].data \in Data
        /\ mgr.temp[p][d] # Nil => mgr.temp[p][d].data \in Data
    BY <1>3, <1>4 DEF MgrOK, LockOK
  <2>2. /\ mgr.perm[p][d] # Nil => mgr.perm[p][d].id \in Ids
        /\ mgr.temp[p][d] # Nil => mgr.temp[p][d].id \in Ids
    BY <1>4, LockTypes
  <2> QED BY <1>3, <2>1, <2>2
<1> QED BY <1>3, <1>4, <1>5 DEF Holds, Carries

(* Players saved to one raid id share one state of the raid, the one that   *)
(* the id leads to, and players saved to different ids do not.              *)
THEOREM OneRaidPerIdHolds == Spec /\ NotMixed => []OneRaidPerId
<1>1. ASSUME IInv, NotMixed PROVE OneRaidPerId
  <2> SUFFICES ASSUME NEW lock \in BoundLocks
               PROVE  /\ mgr.byId[lock.id] = lock.data
                      /\ mgr.instanceId[lock.data] \in {0, lock.id}
                      /\ \A other \in BoundLocks : lock.id = other.id <=> lock.data = other.data
    BY DEF OneRaidPerId
  <2>1. /\ RaidsOK(mgr) /\ lock.id \in Ids /\ lock.data \in Data
        /\ Holds(mgr, lock.id, lock.data)
    BY <1>1, BoundLockHolds
  <2>2. \A other \in BoundLocks : /\ other.id \in Ids /\ other.data \in Data
                                  /\ Holds(mgr, other.id, other.data)
    BY <1>1, BoundLockHolds
  <2> QED BY <2>1, <2>2 DEF RaidsOK
<1> QED BY <1>1, Inductive, NotMixedStays, PTL

(* While a player is saved to a raid whose state was ever saved, that state *)
(* is in the database.                                                      *)
THEOREM RaidStateStoredHolds == Spec /\ NotMixed => []RaidStateStored
<1>1. ASSUME IInv, NotMixed PROVE RaidStateStored
  <2> SUFFICES ASSUME NEW lock \in BoundLocks, mgr.instanceId[lock.data] # 0
               PROVE  lock.id \in mgr.rows
    BY DEF RaidStateStored
  <2>1. /\ RaidsOK(mgr) /\ lock.id \in Ids /\ lock.data \in Data
        /\ Holds(mgr, lock.id, lock.data)
    BY <1>1, BoundLockHolds
  <2> QED BY <2>1 DEF RaidsOK
<1> QED BY <1>1, Inductive, NotMixedStays, PTL

(* A player saved to a raid stays saved to that instance of it until the    *)
(* reset time, and past it with an extended lock, also over a restart.      *)
THEOREM SavedRaidKeptHolds == Spec /\ NotMixed => SavedRaidKept
<1> DEFINE Kept == \A p \in Players, d \in Dungeons :
             LET lock == mgr.perm[p][d]
             IN  /\ kind[d] = "bound" /\ lock # Nil /\ (~lock.expired \/ lock.extended)
                 /\ mgr.instanceId[lock.data] # 0
                 => mgr'.perm[p][d] # Nil /\ mgr'.perm[p][d].id = lock.id
<1>1. IInv /\ NotMixed /\ [Next]_vars => [Kept]_vars
  <2> SUFFICES ASSUME IInv, NotMixed, Next PROVE Kept
    OBVIOUS
  <2>1. CASE SavedStay
    BY <2>1 DEF SavedStay, Active
  <2>2. CASE Restart
    <3> SUFFICES ASSUME NEW p \in Players, NEW d \in Dungeons, kind[d] = "bound",
                        Active(mgr.perm[p][d]), mgr.instanceId[mgr.perm[p][d].data] # 0
                 PROVE  mgr'.perm[p][d] # Nil /\ mgr'.perm[p][d].id = mgr.perm[p][d].id
      BY DEF Active
    <3>1. Scheduled
      BY RaidsAreOK
    <3> QED BY <2>2, <3>1, RestartKeeps
  <2> QED BY <2>1, <2>2, StepKeeps
<1> QED BY <1>1, Inductive, NotMixedStays, PTL DEF Spec, SavedRaidKept

=============================================================================
