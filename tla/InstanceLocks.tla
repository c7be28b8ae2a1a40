--------------------------- MODULE InstanceLocks ---------------------------
(***************************************************************************)
(* Which copy of a dungeon a player enters: the dungeon branch of          *)
(* MapManager::CreateMap, the instance locks of InstanceLockMgr, the pool  *)
(* of instance ids and the life of an InstanceMap.                         *)
(*                                                                         *)
(* A lock is owned by the slot of the table it is in (a unique_ptr), so a  *)
(* pointer to it is named by that slot: <<"perm", p>> or <<"temp", p>>.  A *)
(* map keeps such a pointer in i_instanceLock.  When the lock it points to *)
(* is replaced the pointer is Dangling; what happens when it is used is    *)
(* not defined, and the model stops there (status "undefined").  It stops  *)
(* with status "aborted" where an ASSERT of the code fails.                *)
(*                                                                         *)
(* One difficulty per dungeon; every dungeon has an instance script; no    *)
(* flexible raid locks; no game masters; no teleport from one dungeon into *)
(* another; who logs out in a dungeon is outside when back.  What the code *)
(* writes to the database is taken to be there at once.                    *)
(***************************************************************************)
EXTENDS InstanceIds, FiniteSets, FiniteSetsExt

CONSTANTS
    Players, Groups, Dungeons,
    Kinds,     \* the kinds a dungeon may be of, a subset of AllKinds
    MaxId,     \* bound: the highest instance id handed out
    MaxData,   \* bound: shared lock data alive at a time; Load names them by id
    MaxPassed, \* bound: how often, taken together, a reset time passes or the
               \* calendar's extend button is used, ...
    MaxGrouped,\* ... and how often by the time there is, or was, a group
    Nil,       \* a null pointer, no group, no place
    Dangling,  \* a pointer to a deleted lock
    Failed     \* the outcome of an operation that fails an ASSERT

(* "normal": no reset schedule, hence no lock.  "bound": a lock is to an    *)
(* instance id, whose state all its players share.  "encounter": each       *)
(* player's lock lists defeated bosses and fits any instance.               *)
AllKinds == {"normal", "bound", "encounter"}
Ids == 1..MaxId
Data == 1..MaxData  \* SharedInstanceLockData objects
NoData == 0
Expired == MaxData + 1  \* a weak_ptr whose object is gone

ASSUME ConstantsAssumption ==
    /\ Kinds \subseteq AllKinds
    /\ MaxId \in Nat /\ MaxData \in Nat /\ MaxPassed \in Nat /\ MaxGrouped \in 0..MaxPassed
    /\ MaxId <= MaxData
    /\ IsFiniteSet(Players) /\ Players \cap Groups = {}

VARIABLES
    kind,         \* what kind each dungeon is of
    pool,         \* the instance ids of MapManager
    mgr,          \* InstanceLockMgr and the tables it writes, a record:
                  \*   perm, temp   player -> dungeon -> lock
                  \*   byId         id -> shared data (_instanceLockDataById)
                  \*   instanceId   shared data -> its InstanceId, 0 if unsaved
                  \*   rows         ids with a row in the table "instance"
    i_maps,       \* <<dungeon, id>> of each living InstanceMap -> its state
    group, leader,
    recentId,     \* m_recentInstances of players and groups; of a dungeon with
                  \* locks the id is left out, as it serves the reset button alone
    recentOwner,  \* whose lock a group used
    at,           \* the map whose player list (m_mapRefManager) a player is in
    away,         \* players whose far teleport out of it is not acknowledged yet
    pendingBind,  \* the instance id a player is asked to be locked to, or 0
    status,
    passed,       \* reset times and clicks so far, ...
    grouped       \* ... and whether there was ever a group, for the bounds

party == <<group, leader>>
recents == <<recentId, recentOwner>>
places == <<at, away>>
bounds == <<passed, grouped>>
vars == <<kind, pool, mgr, i_maps, party, recents, places, pendingBind, status, bounds>>

LockRecord == [id: Ids, data: Data \cup {NoData}, new: BOOLEAN,
               expired: BOOLEAN, extended: BOOLEAN]
Tables == {"perm", "temp"}

ASSUME NilAssumption ==
    /\ Nil \notin LockRecord \cup Tables \cup (Tables \X Players)
    /\ Nil \notin Players \cup Groups \cup (Dungeons \X Ids)
    /\ Dangling \notin Tables \X Players

NoLocks == [p \in Players |-> [d \in Dungeons |-> Nil]]
NoRecents == [x \in Players \cup Groups |-> [d \in Dungeons |-> 0]]
NoOwners == [g \in Groups |-> [d \in Dungeons |-> Nil]]

Init ==
    /\ kind \in [Dungeons -> Kinds]
    /\ pool = InitInstanceIds(0)
    /\ mgr = [perm |-> NoLocks, temp |-> NoLocks, byId |-> [i \in Ids |-> NoData],
              instanceId |-> [x \in Data |-> 0], rows |-> {}]
    /\ i_maps = <<>>
    /\ group = [p \in Players |-> Nil] /\ leader = [g \in Groups |-> Nil]
    /\ recentId = NoRecents /\ recentOwner = NoOwners
    /\ at = [p \in Players |-> Nil] /\ away = {} /\ pendingBind = [p \in Players |-> 0]
    /\ status = "running" /\ passed = 0 /\ grouped = FALSE

Members(g) == {p \in Players : group[p] = g}
Inside(key) == {p \in Players : at[p] = key}

MayPass == passed < IF grouped THEN MaxGrouped ELSE MaxPassed

Halt(how) == status' = how /\ UNCHANGED <<kind, bounds, pool, mgr, i_maps, party, places>>
Stop(how) == Halt(how) /\ UNCHANGED <<recents, pendingBind>>

-----------------------------------------------------------------------------
(* InstanceLockMgr: operators on m, a value of mgr.                        *)

\* Mutant: an extension is not looked at.
ActiveUnlessExpired(lock) == lock # Nil /\ ~lock.expired

Active(lock) == lock # Nil /\ (~lock.expired \/ lock.extended)

\* Where the player's active lock is, Nil if there is none.
FindActiveInstanceLock(m, p, d) ==
    IF Active(m.perm[p][d]) THEN "perm" ELSE IF m.temp[p][d] # Nil THEN "temp" ELSE Nil

Slot(m, table, p, d) == IF table = "perm" THEN m.perm[p][d] ELSE m.temp[p][d]

LockAt(m, x) == Slot(m, x[1], x[2], x[3])

\* The slots with a lock in them.
Used(m) == {x \in Tables \X Players \X Dungeons : LockAt(m, x) # Nil}

LiveData(m) == {LockAt(m, x).data : x \in Used(m)} \ {NoData}

\* A SharedInstanceLockData that is not in use: the one named id, if it can be.
NewData(m, id) == IF id \in LiveData(m) THEN Min(Data \ LiveData(m)) ELSE id

\* Mutant: the entry is never looked up again.
CreateInstanceLockUnshared(m, p, d, id) ==
    LET data == IF kind[d] = "bound" THEN NewData(m, id) ELSE NoData
    IN  [m EXCEPT !.temp[p][d] = [id |-> id, data |-> data, new |-> TRUE,
                                  expired |-> FALSE, extended |-> FALSE]]

CreateInstanceLockForNewInstance(m, p, d, id) ==
    LET data == IF kind[d] = "bound" THEN NewData(m, id) ELSE NoData
    IN  [m EXCEPT !.temp[p][d] = [id |-> id, data |-> data, new |-> TRUE,
                                  expired |-> FALSE, extended |-> FALSE],
                  !.byId = [i \in Ids |-> IF i = id /\ data # NoData THEN data ELSE @[i]]]

(* ~SharedInstanceLockData and OnSharedInstanceLockDataDelete for the data  *)
(* that m refers to no more: a saved entry goes, with its row; of an        *)
(* unsaved one the expired weak_ptr stays behind.                           *)
OnSharedInstanceLockDataDelete(m, dead) ==
    LET gone == {i \in Ids : /\ \E x \in dead : m.instanceId[x] = i
                            /\ m.byId[i] \in dead \cup {Expired}}
    IN  [m EXCEPT !.byId = [i \in Ids |-> IF i \in gone THEN NoData
                                          ELSE IF @[i] \in dead THEN Expired ELSE @[i]],
                  !.instanceId = [x \in Data |-> IF x \in dead THEN 0 ELSE @[x]],
                  !.rows = @ \ gone]

\* Mutant: the shared state is not written to the database.
UpdateSharedInstanceLockUnsaved(m, id) ==
    LET data == m.byId[id]
    IN  IF data \in Data /\ m.instanceId[data] \in {0, id}
        THEN [m EXCEPT !.instanceId[data] = id]
        ELSE Failed

UpdateSharedInstanceLock(m, id) ==
    LET data == m.byId[id]
    IN  IF data \in Data /\ m.instanceId[data] \in {0, id}
        THEN [m EXCEPT !.instanceId[data] = id, !.rows = @ \cup {id}]
        ELSE Failed

(* UpdateInstanceLockForPlayer: the player's active permanent lock, else    *)
(* the temporary one, else a new one, becomes a permanent lock to id.  An   *)
(* expired permanent lock is replaced and deleted.                          *)
UpdateInstanceLockForPlayer(m, p, d, id) ==
    LET bound == kind[d] = "bound"
        old == m.perm[p][d]
        made == ~Active(old) /\ m.temp[p][d] = Nil
        lock == IF Active(old) THEN old
                ELSE IF ~made THEN m.temp[p][d]
                ELSE [id |-> id, data |-> IF bound THEN m.byId[id] ELSE NoData,
                      new |-> TRUE, expired |-> FALSE, extended |-> FALSE]
        asserted == /\ m.byId[id] \in Data
                    /\ lock.id = id /\ lock.data = m.byId[id]
                    /\ made => m.instanceId[lock.data] = id
        saved == [lock EXCEPT !.id = id, !.new = FALSE, !.expired = FALSE,
                              !.extended = @ /\ ~lock.expired]
        after == [m EXCEPT !.perm[p][d] = saved,
                           !.temp[p][d] = IF Active(old) THEN @ ELSE Nil]
    IN  IF bound => asserted
        THEN OnSharedInstanceLockDataDelete(after, LiveData(m) \ LiveData(after))
        ELSE Failed

UpdateInstanceLockForPlayers(m, S, d, id) ==
    LET Update(p, n) == IF n = Failed THEN Failed ELSE UpdateInstanceLockForPlayer(n, p, d, id)
    IN  FoldSet(Update, m, S)

\* i_instanceLock of a map of d after UpdateInstanceLockForPlayer for players S.
Repoint(pointer, S, d) ==
    IF pointer \in Tables \X S /\ ~Active(mgr.perm[pointer[2]][d])
    THEN IF pointer[1] = "temp" THEN <<"perm", pointer[2]>> ELSE Dangling
    ELSE pointer

RepointMaps(S, d) ==
    i_maps' = [key \in DOMAIN i_maps |->
                 IF key[1] = d THEN [i_maps[key] EXCEPT !.lock = Repoint(@, S, d)]
                 ELSE i_maps[key]]

\* The lock of a map that has one.
LockOf(m, pointer, d) == Slot(m, pointer[1], pointer[2], d)

\* Mutant: a player locked to another instance is let in.
CanJoinInstanceLockAnyId(m, p, d, pointer) == TRUE

CanJoinInstanceLock(m, p, d, pointer) ==
    LET own == FindActiveInstanceLock(m, p, d)
        lock == Slot(m, own, p, d)
    IN  own = Nil \/ kind[d] # "bound" \/ lock.new \/ lock.id = LockOf(m, pointer, d).id

-----------------------------------------------------------------------------
(* Entering.                                                               *)

InstanceOwner(p, d) ==
    LET g == group[p]
    IN  IF g = Nil THEN p
        ELSE IF recentOwner[g][d] # Nil THEN recentOwner[g][d] ELSE leader[g]

Keeper(p) == IF group[p] = Nil THEN p ELSE group[p]  \* of the recent instances

\* The dungeon branch of MapManager::CreateMap: the world it leaves behind and
\* the key of the map that p is to enter.
CreateMap(p, d) ==
    LET owner == InstanceOwner(p, d)
        table == FindActiveInstanceLock(mgr, owner, d)
        recent == IF kind[d] = "normal" THEN recentId[Keeper(p)][d] ELSE 0
        generates == table = Nil /\ recent = 0
        first == IF table # Nil THEN Slot(mgr, table, owner, d).id
                 ELSE IF generates THEN pool.next ELSE recent
        pool1 == IF generates THEN GenerateInstanceId(pool) ELSE pool
        mgr1 == IF table = Nil /\ kind[d] # "normal"
                THEN CreateInstanceLockForNewInstance(mgr, owner, d, first) ELSE mgr
        slot == IF table = Nil THEN "temp" ELSE table
        pointer == IF kind[d] = "normal" THEN Nil ELSE <<slot, owner>>
        taken == /\ kind[d] = "encounter" /\ <<d, first>> \in DOMAIN i_maps
                 /\ i_maps[<<d, first>>].lock # pointer
        id == IF taken THEN pool1.next ELSE first
        key == <<d, id>>
        found == ~taken /\ key \in DOMAIN i_maps
    IN  [key |-> key, owner |-> owner, found |-> found,
         uses |-> IF <<d, first>> \in DOMAIN i_maps THEN i_maps[<<d, first>>].lock ELSE Nil,
         pool |-> IF taken THEN GenerateInstanceId(pool1) ELSE pool1,
         mgr |-> IF taken THEN [mgr1 EXCEPT ![slot][owner][d].id = id] ELSE mgr1,
         maps |-> IF found THEN i_maps
                  ELSE [k \in (DOMAIN i_maps) \cup {key} |->
                          IF k = key THEN [lock |-> pointer, owner |-> group[p], unloads |-> TRUE]
                          ELSE i_maps[k]]]

\* Whether p is asked to be locked to the instance.  InstanceMap::AddPlayerToMap
\* asks unless p's own lock shows the same bosses as the map's; the first update
\* of a map made after its lock's expiry asks whoever is inside.
AsksToBind(m, p, d, pointer, found) ==
    LET mapLock == LockOf(m, pointer, d)
        own == FindActiveInstanceLock(m, p, d)
        lock == Slot(m, own, p, d)
    IN  IF pointer = Nil THEN {FALSE}
        ELSE IF ~found /\ mapLock.expired THEN {TRUE}
        ELSE IF kind[d] # "bound" \/ mapLock.new THEN {FALSE}
        ELSE IF own = Nil \/ (lock.expired /\ lock.extended) THEN {TRUE}
        ELSE IF pointer = <<own, p>> THEN {FALSE} ELSE BOOLEAN

\* A far teleport ends: CreateMap, InstanceMap::CannotEnter, AddPlayerToMap.
Enter(p, d) ==
    /\ status = "running" /\ at[p] = Nil
    /\ LET w == CreateMap(p, d)
           id == w.key[2]
           pointer == w.maps[w.key].lock
       IN  /\ id <= MaxId /\ Data \ LiveData(mgr) # {}
           /\ IF w.uses = Dangling THEN Stop("undefined")
              ELSE /\ pool' = w.pool /\ mgr' = w.mgr
                   /\ recentId' = IF w.found \/ kind[d] # "normal" THEN recentId
                                  ELSE [recentId EXCEPT ![Keeper(p)][d] = id]
                   /\ recentOwner' = IF w.found \/ group[p] = Nil THEN recentOwner
                                     ELSE [recentOwner EXCEPT ![group[p]][d] = w.owner]
                   /\ IF pointer = Nil \/ CanJoinInstanceLock(w.mgr, p, d, pointer)
                      THEN /\ at' = [at EXCEPT ![p] = w.key]
                           /\ i_maps' = [w.maps EXCEPT ![w.key].unloads = FALSE]
                           /\ \E asks \in AsksToBind(w.mgr, p, d, pointer, w.found) :
                                pendingBind' = IF asks THEN [pendingBind EXCEPT ![p] = id]
                                               ELSE pendingBind
                      ELSE i_maps' = w.maps /\ UNCHANGED <<at, pendingBind>>
                   /\ UNCHANGED <<kind, bounds, party, away, status>>

-----------------------------------------------------------------------------
(* Life of an InstanceMap.                                                 *)

\* InstanceMap::UpdateInstanceLock: a boss dies, or other progress is saved.
UpdateInstanceLock(key) ==
    LET d == key[1]
        id == key[2]
        shared == IF kind[d] = "bound" THEN UpdateSharedInstanceLock(mgr, id) ELSE mgr
        result == UpdateInstanceLockForPlayers(shared, Inside(key), d, id)
    IN  /\ status = "running" /\ Inside(key) # {} /\ i_maps[key].lock # Nil
        /\ IF i_maps[key].lock = Dangling THEN Stop("undefined")
           ELSE IF result = Failed THEN Stop("aborted")
           ELSE /\ mgr' = result /\ RepointMaps(Inside(key), d)
                /\ UNCHANGED <<kind, bounds, pool, party, recents, places, pendingBind, status>>

\* The player accepts, or the minute runs out: ConfirmPendingBind.
ConfirmPendingBind(p) ==
    /\ status = "running" /\ pendingBind[p] # 0
    /\ at[p] # Nil /\ p \notin away /\ at[p][2] = pendingBind[p]
    /\ LET d == at[p][1]
           result == UpdateInstanceLockForPlayer(mgr, p, d, at[p][2])
       IN  IF i_maps[at[p]].lock \in {Nil, Dangling} THEN Stop("undefined")
           ELSE IF result = Failed THEN Stop("aborted")
           ELSE /\ mgr' = result /\ RepointMaps({p}, d)
                /\ pendingBind' = [pendingBind EXCEPT ![p] = 0]
                /\ UNCHANGED <<kind, bounds, pool, party, recents, places, status>>

(* InstanceMap::RemovePlayerFromMap for p: the last in the player list     *)
(* starts the unload timer and has the state of the instance saved, for    *)
(* those still in the list.  p itself is, unless it logs out.              *)
RemovePlayerFromMap(p, stays) ==
    LET key == at[p]
        last == Inside(key) = {p}
        saves == last /\ i_maps[key].lock # Nil
        shared == IF kind[key[1]] = "bound" THEN UpdateSharedInstanceLock(mgr, key[2]) ELSE mgr
        result == IF ~saves THEN mgr
                  ELSE IF shared = Failed \/ ~stays THEN shared
                  ELSE UpdateInstanceLockForPlayer(shared, p, key[1], key[2])
    IN  IF saves /\ i_maps[key].lock = Dangling THEN Halt("undefined")
        ELSE IF result = Failed THEN Halt("aborted")
        ELSE /\ mgr' = result
             /\ i_maps' = [k \in DOMAIN i_maps |->
                  LET map == [i_maps[k] EXCEPT !.unloads = @ \/ (last /\ k = key)]
                  IN  IF saves /\ stays /\ k[1] = key[1]
                      THEN [map EXCEPT !.lock = Repoint(@, {p}, k[1])] ELSE map]
             /\ at' = IF stays THEN at ELSE [at EXCEPT ![p] = Nil]
             /\ away' = IF stays THEN away \cup {p} ELSE away
             /\ UNCHANGED <<kind, bounds, pool, party, status>>

InWorld(p) == at[p] # Nil /\ p \notin away

\* Player::TeleportTo another map; the player stays in the old map's list.
TeleportOut(p) ==
    /\ status = "running" /\ InWorld(p)
    /\ RemovePlayerFromMap(p, TRUE)
    /\ UNCHANGED <<recents, pendingBind>>

\* HandleMoveWorldportAck in a map that is no dungeon: ResetMap, SetMap.
ArriveOutside(p) ==
    /\ status = "running" /\ p \in away
    /\ at' = [at EXCEPT ![p] = Nil] /\ away' = away \ {p}
    /\ UNCHANGED <<kind, bounds, pool, mgr, i_maps, party, recents, pendingBind, status>>

\* LogoutPlayer; one with a pending bind is teleported out before.
LogoutPlayer(p) ==
    /\ status = "running" /\ p \notin away
    /\ IF at[p] = Nil THEN UNCHANGED <<kind, bounds, pool, mgr, i_maps, party, places, status>>
       ELSE pendingBind[p] = 0 /\ RemovePlayerFromMap(p, FALSE)
    /\ recentId' = [recentId EXCEPT ![p] = [d \in Dungeons |-> 0]]
    /\ pendingBind' = [pendingBind EXCEPT ![p] = 0]
    /\ UNCHANGED recentOwner

\* HandleInstanceLockResponse: p declines and is sent to a graveyard, which
\* may be inside; or Player::Update finds p somewhere else after the minute.
DropPendingBind(p) ==
    /\ status = "running" /\ pendingBind[p] # 0
    /\ pendingBind' = [pendingBind EXCEPT ![p] = 0]
    /\ \/ InWorld(p) /\ RemovePlayerFromMap(p, TRUE) /\ UNCHANGED recents
       \/ /\ p \notin away
          /\ UNCHANGED <<kind, bounds, pool, mgr, i_maps, party, recents, places, status>>

\* MapManager::DestroyMap of an empty map, once its unload timer has passed.
DestroyMap(key) ==
    /\ status = "running" /\ i_maps[key].unloads /\ Inside(key) = {}
    /\ IF i_maps[key].lock = Dangling THEN Stop("undefined")
       ELSE /\ i_maps' = [k \in DOMAIN i_maps \ {key} |-> i_maps[k]]
            /\ pool' = IF kind[key[1]] = "normal" THEN FreeInstanceId(pool, key[2]) ELSE pool
            /\ UNCHANGED <<kind, bounds, mgr, party, recents, places, pendingBind, status>>

\* The reset time of d passes, and the maps of d are updated: Reset(Expire).
ResetTime(d) ==
    LET Expire(table) ==
          [p \in Players |-> [table[p] EXCEPT ![d] =
             IF @ = Nil THEN Nil ELSE [@ EXCEPT !.expired = TRUE]]]
        used == {key \in DOMAIN i_maps : key[1] = d /\ Inside(key) # {}}
    IN  /\ status = "running" /\ kind[d] # "normal" /\ MayPass
        /\ \E x \in Used(mgr) : x[3] = d /\ ~LockAt(mgr, x).expired
        /\ IF \E key \in used : i_maps[key].lock = Dangling THEN Stop("undefined")
           ELSE /\ passed' = passed + 1 /\ UNCHANGED grouped
                /\ mgr' = [mgr EXCEPT !.perm = Expire(@), !.temp = Expire(@)]
                /\ pendingBind' = [p \in Players |->
                     IF at[p] \in used THEN at[p][2] ELSE pendingBind[p]]
                /\ i_maps' = [key \in DOMAIN i_maps |->
                     [i_maps[key] EXCEPT !.unloads = @ \/ (key[1] = d /\ key \notin used)]]
                /\ UNCHANGED <<kind, pool, party, recents, places, status>>

\* The calendar's "extend" button, where it changes something:
\* UpdateInstanceLockExtensionForPlayer.
ExtendLock(p, d, extended) ==
    /\ status = "running" /\ mgr.perm[p][d] # Nil /\ MayPass
    /\ mgr.perm[p][d].extended # extended
    /\ mgr' = [mgr EXCEPT !.perm[p][d].extended = extended]
    /\ passed' = passed + 1 /\ UNCHANGED grouped
    /\ UNCHANGED <<kind, pool, i_maps, party, recents, places, pendingBind, status>>

-----------------------------------------------------------------------------
(* Groups.                                                                 *)

\* Group::Create, with the leader and the player who accepted the invitation.
CreateGroup(g, p, q) ==
    /\ status = "running" /\ p # q /\ group[p] = Nil /\ group[q] = Nil /\ leader[g] = Nil
    /\ passed <= MaxGrouped /\ grouped' = TRUE
    /\ group' = [group EXCEPT ![p] = g, ![q] = g]
    /\ leader' = [leader EXCEPT ![g] = p]
    /\ i_maps' = [key \in DOMAIN i_maps |->
                    IF key = at[p] /\ i_maps[key].owner = Nil
                    THEN [i_maps[key] EXCEPT !.owner = g] ELSE i_maps[key]]
    /\ UNCHANGED <<kind, passed, pool, mgr, recents, places, pendingBind, status>>

\* Group::RemoveMember; a group of two is disbanded.
RemoveMember(p) ==
    /\ status = "running" /\ group[p] # Nil
    /\ LET g == group[p]
       IN  IF Cardinality(Members(g)) > 2
           THEN /\ group' = [group EXCEPT ![p] = Nil]
                /\ \E q \in Members(g) \ {p} :
                     leader' = IF leader[g] = p THEN [leader EXCEPT ![g] = q] ELSE leader
                /\ UNCHANGED <<i_maps, recents>>
           ELSE /\ group' = [q \in Players |-> IF group[q] = g THEN Nil ELSE group[q]]
                /\ leader' = [leader EXCEPT ![g] = Nil]
                /\ recentId' = [recentId EXCEPT ![g] = [d \in Dungeons |-> 0]]
                /\ recentOwner' = [recentOwner EXCEPT ![g] = [d \in Dungeons |-> Nil]]
                /\ i_maps' = [key \in DOMAIN i_maps |->
                     [i_maps[key] EXCEPT !.owner = IF @ = g THEN Nil ELSE @]]
    /\ UNCHANGED <<kind, bounds, pool, mgr, places, pendingBind, status>>

\* The map's lock was saved, so that InstanceMap::Reset refuses.
CannotReset(key) ==
    LET lock == i_maps[key].lock
    IN  lock # Nil /\ ~LockOf(mgr, lock, key[1]).new

\* "Reset all instances", by the leader of a group or by a player without one.
ResetInstances(p) ==
    /\ status = "running" /\ at[p] = Nil
    /\ LET g == group[p]
           keys == IF g = Nil
                   THEN {key \in DOMAIN i_maps : recentId[p][key[1]] = key[2]}
                   ELSE {key \in DOMAIN i_maps : i_maps[key].owner = g}
           forgets(key) == IF CannotReset(key) THEN g # Nil ELSE Inside(key) = {}
           forgotten == {key[1] : key \in {k \in keys : forgets(k)}}
       IN  /\ g # Nil => leader[g] = p
           /\ keys # {}
           /\ IF \E key \in keys : i_maps[key].lock = Dangling THEN Stop("undefined")
              ELSE /\ recentId' = [recentId EXCEPT ![Keeper(p)] =
                        [d \in Dungeons |-> IF d \in forgotten THEN 0 ELSE @[d]]]
                   /\ recentOwner' = IF g = Nil THEN recentOwner
                        ELSE [recentOwner EXCEPT ![g] =
                               [d \in Dungeons |-> IF d \in forgotten THEN Nil ELSE @[d]]]
                   /\ i_maps' = [key \in DOMAIN i_maps |->
                        [i_maps[key] EXCEPT !.unloads = @ \/
                           (key \in keys /\ ~CannotReset(key) /\ Inside(key) = {})]]
                   /\ UNCHANGED <<kind, bounds, pool, mgr, party, places, pendingBind, status>>

-----------------------------------------------------------------------------
\* The server stops, in whatever way, and starts again: the permanent locks and
\* the rows of "instance" are read back, everything else is lost.
Restart ==
    LET stored == {x \in Players \X Dungeons : mgr.perm[x[1]][x[2]] # Nil}
        IdAt(x) == mgr.perm[x[1]][x[2]].id
        lost == {x \in stored : kind[x[2]] = "bound" /\ IdAt(x) \notin mgr.rows}
        registered == {IdAt(x) : x \in stored}
        shared == {IdAt(x) : x \in {y \in stored \ lost : kind[y[2]] = "bound"}}
        highest == IF registered \cup mgr.rows = {} THEN 0 ELSE Max(registered \cup mgr.rows)
    IN  /\ status \in {"running", "aborted"} /\ i_maps # <<>>
        /\ pool' = RegisterInstanceIds(InitInstanceIds(highest), registered)
        /\ mgr' = [perm |-> [p \in Players |-> [d \in Dungeons |->
                      IF <<p, d>> \notin stored \ lost THEN Nil
                      ELSE [mgr.perm[p][d] EXCEPT
                              !.data = IF kind[d] = "bound" THEN mgr.perm[p][d].id ELSE NoData]]],
                   temp |-> NoLocks,
                   byId |-> [i \in Ids |-> IF i \in shared THEN i ELSE NoData],
                   instanceId |-> [x \in Data |-> IF x \in shared THEN x ELSE 0],
                   rows |-> mgr.rows]
        /\ i_maps' = <<>> /\ recentId' = NoRecents /\ recentOwner' = NoOwners
        /\ at' = [p \in Players |-> Nil] /\ away' = {} /\ pendingBind' = [p \in Players |-> 0]
        /\ status' = "running"
        /\ UNCHANGED <<kind, bounds, party>>

Next ==
    \/ \E p \in Players, d \in Dungeons :
         Enter(p, d) \/ ExtendLock(p, d, TRUE) \/ ExtendLock(p, d, FALSE)
    \/ \E key \in DOMAIN i_maps : UpdateInstanceLock(key) \/ DestroyMap(key)
    \/ \E p \in Players :
         \/ ConfirmPendingBind(p) \/ DropPendingBind(p)
         \/ TeleportOut(p) \/ ArriveOutside(p) \/ LogoutPlayer(p) \/ RemoveMember(p) \/ ResetInstances(p)
    \/ \E g \in Groups, p, q \in Players : CreateGroup(g, p, q)
    \/ \E d \in Dungeons : ResetTime(d)
    \/ Restart

Spec == Init /\ [][Next]_vars

-----------------------------------------------------------------------------
(* Properties.                                                             *)

(* Every variable has its type; a map's lock is one that is there, or      *)
(* Dangling.                                                               *)
TypeOK ==
    /\ kind \in [Dungeons -> Kinds]
    /\ PoolSound(pool)
    /\ {mgr.perm, mgr.temp} \subseteq [Players -> [Dungeons -> LockRecord \cup {Nil}]]
    /\ mgr.byId \in [Ids -> Data \cup {NoData, Expired}]
    /\ mgr.instanceId \in [Data -> Ids \cup {0}] /\ mgr.rows \subseteq Ids
    /\ \A key \in DOMAIN i_maps :
         /\ key \in Dungeons \X Ids
         /\ i_maps[key].owner \in Groups \cup {Nil}
         /\ LET lock == i_maps[key].lock
            IN  IF kind[key[1]] = "normal" THEN lock = Nil
                ELSE lock = Dangling \/
                     (lock \in Tables \X Players /\ LockOf(mgr, lock, key[1]) # Nil)
    /\ group \in [Players -> Groups \cup {Nil}]
    /\ leader \in [Groups -> Players \cup {Nil}]
    /\ at \in [Players -> (DOMAIN i_maps) \cup {Nil}]
    /\ away \subseteq {p \in Players : at[p] # Nil}
    /\ pendingBind \in [Players -> Ids \cup {0}]
    /\ status \in {"running", "aborted", "undefined"}
    /\ passed \in 0..MaxPassed /\ grouped \in BOOLEAN

IdsOfLocks == {LockAt(mgr, x).id : x \in Used(mgr)}

(* Where every dungeon has a reset schedule, an id that a lock or a living  *)
(* map has is not handed out again, by GenerateInstanceId, by              *)
(* FreeInstanceId or after a restart by RegisterInstanceId.                 *)
IdsTaken ==
    (\A d \in Dungeons : kind[d] # "normal") =>
        \A id \in IdsOfLocks \cup {key[2] : key \in DOMAIN i_maps} :
            id < pool.size /\ id \notin pool.free

BoundLocks == {LockAt(mgr, x) : x \in {y \in Used(mgr) : kind[y[3]] = "bound"}}

(* Players saved to one raid id share one state of the raid, the one that   *)
(* _instanceLockDataById leads to; players saved to different ids do not    *)
(* (CreateInstanceLockForNewInstance, UpdateInstanceLockForPlayer, Load).   *)
OneRaidPerId ==
    \A lock \in BoundLocks :
        /\ mgr.byId[lock.id] = lock.data
        /\ mgr.instanceId[lock.data] \in {0, lock.id}
        /\ \A other \in BoundLocks : lock.id = other.id <=> lock.data = other.data

(* While a player is saved to a raid whose state was ever saved, that state *)
(* is in the database, whoever else has lost or replaced the lock           *)
(* (UpdateSharedInstanceLock, OnSharedInstanceLockDataDelete).              *)
RaidStateStored ==
    \A lock \in BoundLocks : mgr.instanceId[lock.data] # 0 => lock.id \in mgr.rows

(* A player saved to a raid stays saved to that instance of it until the    *)
(* reset time, and past it with an extended lock, whatever the others, the  *)
(* map and the server do.  Only a lock that was confirmed before the raid's *)
(* state was saved is lost by a restart.                                    *)
SavedRaidKept ==
    [][\A p \in Players, d \in Dungeons :
         LET lock == mgr.perm[p][d]
         IN  /\ kind[d] = "bound" /\ lock # Nil /\ (~lock.expired \/ lock.extended)
             /\ mgr.instanceId[lock.data] # 0
             => mgr'.perm[p][d] # Nil /\ mgr'.perm[p][d].id = lock.id]_vars

(* A player who is saved to an instance of a raid, before the reset time,   *)
(* is never inside another one, nor becomes so while inside it             *)
(* (CanJoinInstanceLock, UpdateInstanceLockForPlayer).                      *)
OwnRaidOnly ==
    \A p \in Players :
        at[p] # Nil /\ kind[at[p][1]] = "bound" =>
            LET lock == mgr.perm[p][at[p][1]]
            IN  lock = Nil \/ lock.expired \/ lock.id = at[p][2]

(* The assertions of UpdateInstanceLockForPlayer hold, among them           *)
(* InstanceLockMgr.cpp:321: ASSERT(...GetSharedData()->InstanceId ==        *)
(* updateEvent.InstanceId).                                                 *)
AssertionsHold == status # "aborted"

(* InstanceLockMgr.h:157, "Instance id based locks have two states / One    *)
(* shared by everyone, which is the real state used by instance": whoever   *)
(* is saved to a raid id has the same shared state.                         *)
SharedByEveryone ==
    \A lock, other \in BoundLocks : lock.id = other.id => lock.data = other.data

=============================================================================
