---------------------------- MODULE InstanceIds ----------------------------
(***************************************************************************)
(* The pool of instance ids of MapManager: a bitset of free ids and the    *)
(* id that will be handed out next.  A pool is a record: next is           *)
(* _nextInstanceId, size the length of the bitset _freeInstanceIds and     *)
(* free the positions whose bit is set.  The overflow at 2^32 - 1, which   *)
(* stops the server, is left out.                                          *)
(***************************************************************************)
EXTENDS Naturals, FiniteSetsExt

Pools == [next: Nat, size: Nat, free: SUBSET Nat]

InitInstanceIds(maxExistingInstanceId) ==
    [next |-> 1, size |-> maxExistingInstanceId + 2,
     free |-> 1..(maxExistingInstanceId + 1)]

\* Mutant: the id is not marked as used.
RegisterInstanceIdUnmarked(pool, id) ==
    [pool EXCEPT !.next = IF @ = id THEN @ + 1 ELSE @]

RegisterInstanceId(pool, id) ==
    [pool EXCEPT !.free = @ \ {id}, !.next = IF @ = id THEN @ + 1 ELSE @]

(* The ids registered one after the other in ascending order, which is what *)
(* the ORDER BY of InstanceLockMgr::Load is for.                            *)
RegisterInstanceIds(pool, ids) ==
    LET upTo[n \in 0..pool.size] ==
          IF n = 0 THEN pool
          ELSE IF n \in ids THEN RegisterInstanceId(upTo[n - 1], n) ELSE upTo[n - 1]
    IN  upTo[pool.size]

\* Mutant: the ids after the one handed out are taken to be free.
GenerateInstanceIdNoSearch(pool) ==
    [next |-> pool.next + 1, free |-> (pool.free \ {pool.next}) \cup {pool.size},
     size |-> pool.size + 1]

\* The pool after pool.next was handed out.
GenerateInstanceId(pool) ==
    LET rest == pool.free \ {pool.next}
        after == {i \in rest : i > pool.next}
    IN  IF after = {}
        THEN [next |-> pool.size, free |-> rest \cup {pool.size}, size |-> pool.size + 1]
        ELSE [pool EXCEPT !.next = Min(after), !.free = rest]

FreeInstanceId(pool, id) ==
    [pool EXCEPT !.next = IF id < @ THEN id ELSE @, !.free = @ \cup {id}]

(* GenerateInstanceId relies on this: the next id is the lowest free one,   *)
(* within the bitset, and never 0.                                          *)
PoolSound(pool) ==
    /\ pool \in Pools
    /\ pool.next \in pool.free
    /\ \A i \in pool.free : 1 <= i /\ i < pool.size /\ pool.next <= i
=============================================================================
