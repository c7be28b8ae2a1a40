# Verification of the world server: TLA+ models, TLC runs and TLAPS proofs

This directory is a verification development for the game server in this
repository (a TrinityCore descendant for client 3.4.3). The modules are
translated from the C++ under `src/src`; `PROJECT.json` names, for every
definition that models code, the lines it stands for. Line numbers below are
those of the same commit.

## 1. Inventory

One process, `worldserver`, does the work that can go wrong in interesting
ways. Its threads:

- the **world thread** (`Main.cpp`, `WorldUpdateLoop`), which runs
  `World::Update` over and over: timers, `UpdateSessions`, the managers
  (battlegrounds, dungeon finder, groups, auctions), `MapManager::Update`,
  query callbacks;
- the **map workers** (`MapUpdater`), which run `Map::Update` of different maps
  in parallel during one part of the tick;
- the **network threads** (`NetworkThread`, `WorldSocket`), which read packets,
  finish handshakes and notice lost connections;
- the **database threads** (`DatabaseWorkerPool`), which run queries and
  transactions and fulfil the futures that the other threads poll;
- console, remote access and SOAP threads, which queue commands for the world
  thread, and the freeze detector.

They share almost everything by convention: "only the world thread gets here",
"this map's worker is the only one to touch it". Few of these conventions are
asserted, and the repository has no test of its own. That is where a model pays.

| Component | State it keeps | Operations | Talks to |
|---|---|---|---|
| World session map and login queue (`World.cpp`) | `m_sessions`, `m_QueuedPlayer`, `m_disconnects`, `m_playerLimit`, `addSessQueue` | `AddSession`, `AddSession_`, `RemoveSession`, `AddQueuedPlayer`, `RemoveQueuedPlayer`, `UpdateSessions`, `KickAll`, `KickAllLess`, `SetPlayerAmountLimit` | network threads through `addSessQueue`; sessions by pointer |
| WorldSession (`WorldSession.cpp`) | sockets, timeouts, `forceExit`, player, `m_inQueue`, packet queue, query processors | `Update`, `KickPlayer`, `InitializeSession` and its callback, `LogoutPlayer`, `AbortLogin` | called by world thread, map workers and network threads |
| WorldSocket (`WorldSocket.cpp`, `Socket.h`) | handshake state, crypt keys, `_worldSession`, write queue | read/write handlers, authentication, `HandleConnectToFailed`, `CloseSocket`, `OnClose` | hands sessions to the world, packets to the session |
| Map updater (`MapUpdater.cpp`) | `pending_requests`, `_cancelationToken`, worker threads | `activate`, `deactivate`, `schedule_update`, `wait`, `update_finished`, `WorkerThread` | the queue below; `Map::Update` |
| ProducerConsumerQueue | `_queue`, `_shutdown`, a condition variable | `Push`, `WaitAndPop`, `Cancel` | map updater, logging |
| MapManager (`MapManager.cpp`) | `i_maps`, free instance ids | `CreateMap`, `Update`, `DestroyMap`, `UnloadAll`, `GenerateInstanceId`, `RegisterInstanceId`, `FreeInstanceId` | players, groups, instance locks, map updater |
| Instance locks (`InstanceLockMgr.cpp`) | temporary and permanent locks by player, map and difficulty; shared instance data by id | `CanJoinInstanceLock`, `CreateInstanceLockForNewInstance`, `UpdateInstanceLockForPlayer`, `UpdateSharedInstanceLock`, `UpdateInstanceLockExtensionForPlayer`, `ResetInstanceLocksForPlayer`, expiry | map workers and world thread, under `_locksMutex` for reads |
| Database pool and transactions | connections, an executor per pool, queue size, deadlock lock | `Execute`, `CommitTransaction`, `AsyncCommitTransaction`, `DirectCommitTransaction`, `ExecuteTransaction`, `_HandleMySQLErrno`, `Close` | MySQL (external) |
| Query callbacks | chains of continuations, the list of pending callbacks | `AddCallback`, `ProcessReadyCallbacks`, `InvokeIfReady`, `WithChainingCallback` | futures of the database pool |
| LockedQueue, MPSCQueue | a deque and a lock; an intrusive lock-free list | `add`, `next`, `readd`; `Enqueue`, `Dequeue` | sessions, sockets, logging |
| Event processor, task scheduler | events by time, abort state | `AddEvent`, `KillAllEvents`, `Update` | every unit, battleground queue |
| Groups, loot rolls | members, leader, invitations, roll votes | invite, accept, leave, disband, `Roll`, `CountRollVote`, timers | world thread and map workers |
| Dungeon finder (`LFGMgr.cpp`) | role checks, proposals, boots, queues, per-player state | `JoinLfg`, `LeaveLfg`, `UpdateRoleCheck`, `AddProposal`, `UpdateProposal`, `Update` | groups, players |
| Battleground queue | queued groups, selection pools, invited counters | `AddGroup`, `RemovePlayer`, `InviteGroupToBG`, invite and remove events | battlegrounds |
| Trade | two `TradeData`s pointing at each other | offer, accept, unaccept, clear | two sessions of one map |
| Mail, auction house | mails and items in transit, auctions, quotes | send, take, return; bid, buy out, expire | character database |
| Battle pay | balance, current purchase per session | start, confirm, deliver | login database |

The remaining components (entities, spells, AI, scripts, channels, guilds,
pools, events, movement, collision, navigation, the battle.net server, tools,
vendored code) are listed in `PROJECT.json` with the reason why each is planned
or left out.

What makes each of the components above correct:

- *sessions*: no pointer outlives its session; a session is in one table, once;
  nobody waits while a place is free; places are not handed out twice; a
  session that is let in is eventually usable, one that is lost eventually
  goes; shutdown leaves nobody in the world.
- *maps*: a tick is a barrier; every map is updated once by one thread; no
  wake-up is lost; shutdown joins. Instance ids name one living map at a time.
- *instance locks*: players saved to one raid id share one state of the raid,
  which is stored as long as one of them is saved to it; a saved player stays
  saved to that instance, across restarts, and is never inside another one; an
  id that a lock or a living map has is not handed out again.
- *database*: a transaction is applied whole or not at all, in the order the
  owner of the data committed it, and what was accepted before shutdown is
  written.
- *callbacks and queues*: every answer is delivered once, in order, and never
  to a session that is gone; elements are neither lost nor repeated.
- *two-sided protocols* (trade, proposals, invitations, rolls): nobody is bound
  by what they did not agree to; counters return to zero; timeouts and late
  answers do not both take effect.

The hazards, each at its line, are in `PROJECT.json` under `hazards`; those
with a property are covered by a run below, the others say why they are not.

## 2. Plan

Order: what every player depends on first. A star marks what exists.

1. `SessionQueue`*, with the abstract `Admission`*: sessions and login queue.
2. `MapUpdater`*, with the abstract `MapTick`*: the tick as a barrier; proved
   for any number of maps and workers in `MapUpdaterProofs`*.
3. `InstanceIds`* and `InstanceLocks`*: which copy of a dungeon a player enters,
   and who is saved to it; both proved in `InstanceLocksProofs`*.
4. `SessionQueueProofs`*: `TypeOK`, `Ownership`, `QueueSound`;
   `SessionQueueLimitProofs`*: `NoIdlePlace`, `WithinLimit`, the refinement of
   `Admission`.
5. `SqlTransactions`*, with the abstract `AtomicStore`*: transactions under
   lost connections, deadlock retries and aborts, and what their owners are told;
   proved in `SqlTransactionsProofs`*.
6. `WorldConnection`*: the sockets of one session, its packet queue and its end,
   between network threads, the world thread and the map's worker; proved in
   `WorldConnectionProofs`*.
7. `BattlegroundQueue`*: invitations into battlegrounds and the places they take;
   proved in `BattlegroundQueueProofs`*.
8. `MPSCQueue`: both variants, refinement of a FIFO whose consumer may miss the
   tail, proved.
9. `Trade`, `DungeonFinder`, `BattlePay`: each a protocol of two or more players
   with timeouts.
10. `EventProcessor`, loot rolls, mail and auctions.
11. The composition of `WorldConnection` with `SessionQueue`: today the second
    takes from the first only that a session arrives and that a socket is lost.

Every safety property that a run checks is proved. Proofs worth having next are
those of the modules still to come: that `MPSCQueue` implements a FIFO, and that
the composition of `WorldConnection` with `SessionQueue` keeps the invariants of
both.

## 3. Modules

| Module | Models | Lines |
|---|---|---|
| `SessionQueue` | `World`'s session tables and login queue, the part of `WorldSession::Update` that decides a session's life, the network and database threads as far as they touch these | `World.cpp` 336-548, 3364-3397; `WorldSession.cpp` 333-541, 702-715, 1133-1225 |
| `Admission` | what the login queue promises (abstract) | |
| `MCSessionQueue` | symmetries for the runs of `SessionQueue` | |
| `SessionQueueProofs` | TLAPS proofs about the tables and the queue | |
| `SessionQueueLimitProofs` | TLAPS proofs about places and the limit | |
| `MapUpdater` | `MapUpdater`, `ProducerConsumerQueue`, and `MapManager::Update` and `UnloadAll` around them | `MapUpdater.cpp`, `ProducerConsumerQueue.h`, `MapManager.cpp` 288-321, 391-409 |
| `MapTick` | what a tick promises (abstract) | |
| `MCMapUpdater` | the instance of `MapUpdater` for TLC | |
| `MapUpdaterProofs` | TLAPS proofs about `MapUpdater` | |
| `InstanceIds` | the pool of instance ids, as operators on a record | `MapManager.cpp` 425-484 |
| `DataLemmas` | lemmas about `Min`, `RemoveAt` and `RemoveFirst` that several proofs use | |
| `InstanceLocks` | entering and leaving dungeons, instance locks, the life of an `InstanceMap`, what groups remember of their instances, restarts | `InstanceLockMgr.cpp` 102-476; `MapManager.cpp` 174-221, 373-389; `Map.cpp` 2889-3132; `Group.cpp` 99-225, 590-735, 2180-2204; and their callers |
| `MCInstanceLocks` | the instances of `InstanceLocks` for TLC | |
| `InstanceLocksProofs` | TLAPS proofs about the pool of ids and about `InstanceLocks` | |
| `SqlTransactions` | a pool's queue, workers and synchronous connections, the server's side of each connection, the transaction callbacks of a session | `DatabaseWorkerPool.cpp` 165-189, 299-382; `Transaction.cpp` 57-107; `MySQLConnection.cpp` 394-450, 546-631; `AsyncCallbackProcessor.h` 40-53 |
| `AtomicStore` | what the callers of the pool expect of transactions (abstract) | |
| `MCSqlTransactions` | the instances of `SqlTransactions` for TLC | |
| `SqlTransactionsProofs` | TLAPS proofs about `SqlTransactions` | |
| `WorldConnection` | one session, its two sockets, its packet queue, and the part of `UpdateSessions` that creates, links, updates and deletes it | `WorldSocket.cpp` 251-257, 352-505, 875-1013; `WorldSession.cpp` 64-105, 333-541, 546-715; `World.cpp` 366-454, 3358-3395; `Socket.h` 152-229; `CharacterHandler.cpp` 990-1069; `MovementHandler.cpp` 49-157 |
| `MCWorldConnection` | the instance of `WorldConnection` for TLC | |
| `WorldConnectionProofs` | TLAPS proofs about `WorldConnection` | |
| `BattlegroundQueue` | the queue of one battleground type and bracket, its invitations and their timers, the life of the battlegrounds and of the players in and around them | `BattlegroundQueue.cpp` 113-882, 1050-1084; `Battleground.cpp` 153-543, 683-1361; `BattlegroundMgr.cpp` 113-161; `BattleGroundHandler.cpp` 66-441; and their callers |
| `MCBattlegroundQueue` | the instance of `BattlegroundQueue` for TLC | |
| `BattlegroundQueueProofs` | TLAPS proofs about `BattlegroundQueue` | |

### SessionQueue

State. `m_sessions`, `m_QueuedPlayer`, `m_disconnects`, `m_playerLimit` and
`addSessQueue` are the members of `World`. `ses` is the memory `WorldSession`
objects live in: `new` takes a free element, `delete` gives it back, so a stale
pointer is an entry of a table that names a free or a reused element. A session
is reduced to its account, the state of its sockets (`open`, `lost`, `forced`
when `KickPlayer` closed them and set `forceExit`), the countdown
`expireTime`, the player (`none`, `loading`, `world`), `m_inQueue` and the
progress of `InitializeSession`. `route` is a history variable.

Actions. `Connect` is a finished handshake, acknowledged in turn;
`EnterEncryptedModeAckAgain` an acknowledgement more, of a session handed over
before or, over a socket without one, of a null pointer: the code checks neither
(`WorldSocket.cpp` 466-469, 1006-1013). `Disconnect` is a closed socket;
`QueriesAnswered` the two query holders; `AbortLogin` the fifth failed connection
to the instance socket (when it kicks, `OnClose` waits for the lock its own
thread holds, `WorldSocket.cpp:991`, so `forceExit` is not set). All of them happen
on other threads, at any moment of the world thread's work. One tick is `BeginTick`, an `AddSession` for every session
on `addSessQueue`, `AddSessionsDone`, an `UpdateSession` for every registered
account in any order (the code's `unordered_map`), `EndTick`. `AddSession_` is one
action: `RejectSession` when the account's other session is loading,
`AcceptSession` otherwise, with the removal of the old session, the count that
is or is not decreased, and the walk of `HasRecentlyDisconnected` that erases
old entries. What an acknowledgement out of turn hands over is
`AddSessionOutOfTurn`: null fails the `ASSERT` (`aborted`); a session that is
registered already is deleted as the old one of its account and used further, and
one deleted meanwhile is used at once (`undefined`). There the model stops.
`UpdateSession` is `WorldSession::Update`, then, when it answers
false, the sweep with its two calls of `RemoveQueuedPlayer`. `KickAll` with the
last `UpdateSessions` is the shutdown of `Main.cpp`. `RemoveQueuedPlayer` is the
operator of that name on the pair of queue and sessions.

Abstractions. A tick's packet processing is a choice among what it may do to the
player and to the sockets. The countdown is counted in updates (`ExpireTicks`).
Bans, permissions other than `RBAC_PERM_SKIP_QUEUE`, instance sockets and
statistics are left out. Time passes in steps of one or none.

### MapUpdater

State. `pc`, `todo` and `current` are the control of the world thread inside
`MapManager::Update`; the other variables are the members they are named after;
`wpc` and `request` the control and the local variable of each worker; `updates`
and `skipped` record what the tick did with each map.

Actions. Each is the code between two points at which another thread can
interfere. `_lock` is held from the count to the push, which is `pc = "push"`;
`UpdateFinished` waits for it. Both condition variables have wait sets; a
notified thread re-evaluates its condition, and any thread may wake up
unnotified. `Map::Update` is one step between `CheckToken` and `UpdateFinished`.
`MapUpdate.Threads` is at least one (the default of `worldserver.conf.dist`);
without workers the maps are updated inline and nothing is concurrent.

### InstanceLocks

State. `pool` is the record of `InstanceIds`. `mgr` is `InstanceLockMgr` with
the tables it writes: the permanent and temporary locks of each player,
`_instanceLockDataById`, the `InstanceId` of each `SharedInstanceLockData` (0
until it is first saved) and the rows of table `instance`. `i_maps` holds the
living instance maps; a map keeps a pointer to a lock, named by the slot that
owns it, `Dangling` once that lock was replaced. `recentId` and `recentOwner`
are `m_recentInstances` of players and groups. `at` is the map whose player list
a player is in; `away` the players teleported out of it whose client has not
acknowledged yet: they are still in the list, and count, when the next one
leaves. `pendingBind` is the question "do you want to be locked to this
instance". `status` is `aborted` when an `ASSERT` failed and `undefined` when a
dangling pointer was used: nothing is claimed of what follows.

Actions. `Enter` is the end of a far teleport: `MapManager::CreateMap`,
`InstanceMap::CannotEnter` and `AddPlayerToMap`, with the lock, the id and the map
that are made on the way and stay when the player is turned away.
`UpdateInstanceLock` is a boss kill or other progress, with the update of the
shared data and of every player in the map. `TeleportOut` and `LogoutPlayer` go
through `RemovePlayerFromMap`, which saves the instance when the last one leaves.
`ConfirmPendingBind` and `DropPendingBind` answer the question. `ResetTime` is the
scheduled reset together with the updates of the maps that see it. `DestroyMap` is
the unload timer. `ResetInstances` is the reset button; `CreateGroup`,
`RemoveMember` and `ExtendLock` are what they are named after. `Restart` is
the end of the server, orderly or not, and `InstanceLockMgr::Load`, which
registers the stored ids one by one in ascending order (`RegisterInstanceIds`).

Abstractions. A dungeon has one difficulty and an instance script, and one of
three kinds: `normal` (no reset schedule and so no lock), `bound` (locked to an
instance id) and `encounter` (locked to bosses). Flexible raid locks, game
masters, a teleport from one dungeon straight into another, and a log-in inside a
dungeon are left out, and so is the id overflow that stops the server. A write
to the database is there at once. Which bosses a lock lists is abstracted to
a choice in `AsksToBind` where two locks can differ. The recent id is kept only
where it decides something besides the reset button: for dungeons without locks.
`SharedInstanceLockData` objects are named by small numbers, chosen so that equal
worlds look equal: a new one has the number of the instance id it is made for, if
that is not in use, and those that `Load` makes always do. The order in which
`UpdateInstanceLock` goes through the players of a map is left open.

### SqlTransactions

State. `queue` is the executor of the pool; `sent` what was handed to it. A
connection has a thread: a worker, or whoever calls `DirectCommitTransaction`;
`task`, `pc`, `next`, `errorCode` and `tries` are the local variables of
`ExecuteTransaction` and its callers. `retrier` is the holder of
`_deadlockLock`, `expired` its minute. `up` says that `m_Mysql` is not null;
`open` and `pending` are the server's side of the connection, `table` the
committed rows. `answered` are the futures, `callbacks`, `pass` and `kept` the
lists of `ProcessReadyCallbacks`, `told` what the callbacks were called with.

Actions. One statement is one step; the error codes are `deadlock` and any
other. `LoseConnection` is an error 2006 or 2013 and its handling: the server has
rolled back, or had already executed what was in flight; the connection is
reopened in autocommit mode and the loop goes on, or stays dead. `StartRefused`
and `CommitRefused` are a `START TRANSACTION` or `COMMIT` that the server answers
with an error over a working connection: the code looks at neither
(`MySQLConnection.cpp` 394-407), so that after the first the statements run in
autocommit mode, and after the second `ExecuteTransaction` returns 0 for a
transaction the server has rolled back. `refused` keeps which ones they were, as
`hit` keeps those run over a broken connection or not begun. `Abort` is the
end of the process in `_HandleMySQLErrno` or, by the null pointer that a failed
reopen leaves, in `Ping`. `Close` lets the workers finish what they are at and
drops the rest of the queue.

Abstractions. Of a statement only its place in its transaction matters. A
deadlock needs another connection with uncommitted rows. Isolation is the
server's and taken as given, and so is that it rolls back a transaction whose
`COMMIT` it refuses and that a `ROLLBACK` over a working connection succeeds
(`NothingLeftOpen` depends on the latter). Only one session waits for answers. With more than
one worker transactions may be executed in another order than they were queued
(`CharacterDatabase.WorkerThreads` is 1 by default); the model has two.

### WorldConnection

State. Each socket has `stage` (handshake), `closed` (`_closed`), `pointer`
(`_worldSession`), `net` (its network thread; `locked` while it holds
`_worldSessionLock`) and the packet in hand. `toAdd` is what `addSessQueue` has of
the account, the session or null (`nobody`), `toLink` how often its instance socket
is in `_linkSocketQueue`. The session has `life`, `held` (`m_Socket`), `forceExit`,
`expireTime`, the player (`loading` before and `querying` after the instance
socket arrived, `in` the world, `out` during a transfer), `recentlyLogout` and
`leaving` (`_logoutTime`). `pc` is where the world thread is, or the worker that
updates the map in turn with it: `map` is `WorldSession::Update` called with the
`MapSessionFilter`. It is `aborted` or `undefined` as in `SessionQueue`, and `twice`
when an instance socket linked twice starts the queries of one login twice: the
model stops at each of them. `repeats` counts acknowledgements out of turn.

Actions. Network threads read, queue, disconnect and run `OnClose` at any
moment; packets are read from the authentication on, before the session is handed
over. `EnterEncryptedModeAckAgain` is an acknowledgement before or after its turn,
over either socket. `CloseSocket` by another thread waits for the lock in `OnClose`. A tick
of the world thread links an instance socket, adds or replaces the session,
updates it packet by packet, looks at its sockets and deletes it; `Replace` and
`AddSession_(TRUE)` are the two cases in which another session of the account
decides. A packet's kind decides which filter lets it pass, and its handler's
effect is a choice among what handlers of that kind may do. `Throttle` is
`EvaluateOpcode` of AntiDOS refusing a packet, which kicks the player first.
`LinkInstanceSocket` kicks a session that waits for no player (any more).
`HandleMoveWorldportAck` leaves the player `out` when he is sent home by another
transfer, and logs him out when there is no valid place to go to.

Abstractions. `SessionQueue` has the login queue; here the session is admitted
at once. Packets of status AUTHED come over the realm socket, and there is one
instance socket at a time: that a second one arrives beside one that is still open
(`AddInstanceConnection` overwrites the first) is not modelled. `ProcessQueryCallbacks` also runs
in the map's worker (`WorldSession.cpp:502`), where no login is under way.
Retries of `SMSG_CONNECT_TO` are left out.

### BattlegroundQueue

State. `queue` and `invitation` are the solo players' `GroupQueueInfo`s; `timers`
the `BGQueueRemoveEvent`s, those of one update together; `slot` the player's
`m_bgBattlegroundQueueID` entry, `bgInstanceID` his `m_bgData`, `place` where he
is. A battleground has its status, `m_Players`, `m_OfflineQueue` and the two
invited counters. Times of invitations are compared only for equality, so `Now`
is any number no running timer has.

Actions. Between two updates clients join, accept, decline, arrive, leave, log
out and log in. An update is the code's `BattlegroundMgr::Update`, in the order of
its four parts (`step`): every battleground, or in most updates none, by id; the
oldest timers, one `RemoveEvent` for each invitation they stand for
(`UpdateEvents` to `EventsDone`); then, if an update of the queue was scheduled,
`UpdateQueues`, which copies `m_BGFreeSlotQueue` to `toFill`, a `FillBattleground`
for each of its entries, and `NewMatch` or `NoMatch`. A selection pool is the
first so many players of a team who wait without an invitation
(`SelectionPool`); the two pools are invited in one step. Which of a battleground's
timers has run out is a choice. `ProcessJoin` opens the doors, or ends the
battleground at once (`EndNow`) when it has no map or `SetupBattleground` fails;
that is tried in the first update only, in the model in any one before the doors
open. `NoMatch` is also `CreateNewBattleground` returning null.

Abstractions. Solo joins, one unrated queue in one bracket, invitation type 0. A
battleground's id is free as soon as it is deleted; in the code when its map is.

## 4. Runs

| Run | Asks | Bounds and why they are enough |
|---|---|---|
| `session_queue` | `TypeOK`, `Ownership`, `QueueSound`, `NoIdlePlace`, `WithinLimit`, `StoppedIsEmpty`, refinement of `Admission` | three accounts, one of them staff, four sessions, limit 1, two handshakes in flight: somebody inside, somebody waiting, a third who arrives or replaces either, one more session of the same account still on its way; one acknowledgement out of turn, after which the world thread aborts or is undefined when it comes to it |
| `session_queue_limits` | `AdmitsWithinLimit` | limits 1 and 2 changed at any time, tolerance on, three equal accounts: two may be inside when the limit falls to one and the third waits |
| `session_queue_live` | `EventuallyInitialised`, `EventuallyDeleted` | two accounts, three sessions: one inside, one waiting, one replacing either |
| `session_tolerance_expires` | finding, below | the clock takes three values, the tolerance is one second |
| `map_updater` | `TypeOK`, `PendingCount`, `Barrier`, `OneWorkerPerMap`, `NoNullCall`, refinement of `MapTick`, `TickEnds`, `ShutdownEnds`; deadlock | four maps, three workers: more maps than workers, more than one worker asleep, a queue of several requests |
| `instance_locks` | `TypeOK`, `IdsTaken`, `OneRaidPerId`, `RaidStateStored`, `OwnRaidOnly`, `SavedRaidKept` | two players, alone or in a group, and a dungeon of each kind in turn; two ids, so that a second instance exists beside the first; four resets and uses of the extend button for players who were never in a group (a lock extended before and after it expired, renewed, and extended again), one by the time there was a group; restarts without bound. With two players there is an owner and a guest, a saved and an unsaved one, one who leaves first |
| `instance_locks_assert` | finding, below | as `instance_locks`, for `bound` dungeons |
| `raid_state_split` | finding, below | two players and two dungeons, among them one `normal` and one `bound` that share the pool of ids; three ids |
| `sql_transactions` | `TypeOK`, `NothingLeftOpen`, `AnswerIsTrue`, refinement of `AtomicStore`, `EventuallyTold`, `CloseEnds`; deadlock | two workers and one synchronous connection, a transaction of each kind, the watched one with two statements; one lost connection, one retry of the synchronous caller instead of five: two tasks compete for the deadlock lock while a third connection has uncommitted rows |
| `sql_torn` | finding, below | the same with one worker and two transactions |
| `connection` | `TypeOK`, `NoUseAfterFree`, `QueueInOrder`, `SessionEnds`, `LoginReached`; deadlock | three packets of any kind, two that may have to wait, three handled in one update (`MaxProcessed` = 2), one update of grace, one acknowledgement out of turn: two early packets put back in front of a login, packets that wait for the other thread, a packet that arrives while others are put aside, an update ended early by AntiDOS. The three packets of one update are also the limit, so that an update leaves packets behind for the limit's sake only after AntiDOS; one packet fewer (`MoreStrict`) and the login behind two early ones is never reached |
| `battleground_queue` | `TypeOK`, `InvitedCountExact`, `EntriesMatch`, `OnlyTheLastTimer`; deadlock | two players against one, one to two on a side, two battlegrounds, two timers at a time: a place given back while a second player waits for it, one battleground ending while the next fills, a timer that outlives its invitation. A scheduled update of the queue waits until an id is left for a battleground and a timer for its invitations |

The bounds named in the modules are: `MaxTime` (the clock), `MaxPending`
(sessions on `addSessQueue`), `MaxRepeats` (acknowledgements out of turn) and the
size of `Sessions` for `SessionQueue`;
`MaxId` (instance ids), `MaxData` (shared data objects alive; four cover a
permanent and a temporary lock of each player, nobody enters when all are in use,
and it is not below `MaxId`, as `Load` names them by id), `MaxPassed` (resets and
extensions taken together) and `MaxGrouped` (how many of them there may be by
the time there is a group: each one more multiplies the states several
times) for `InstanceLocks`; `Refusable` (transactions that the server may refuse
to begin or to commit, each once) and `MaxFaults` (refusals and connections that
break, together) for `SqlTransactions`, whose `LoopBreaker` is the code's 5, made
smaller;
`MaxWaiting` (early packets in the queue), `MaxPackets` (packets received) and
`MaxRepeats` for `WorldConnection`, whose `ExpireTime` and `MaxProcessed` are the code's
minute and its hundred packets, made smaller; `MaxBattlegrounds` and `MaxTimers`
for `BattlegroundQueue`. The session
runs do not check for deadlock: the server stops. Nor do the instance runs: the
model stops where the code's behaviour is undefined. `map_updater`,
`sql_transactions` and `connection` do, with an explicit step for the stopped
server or pool and, in `connection`, for a model stopped by an acknowledgement out of
turn; `battleground_queue` has no such step and needs none.

Some properties are narrower than one would wish, and say so: `Ownership` (that a
session is handed over once) and `NoUseAfterFree` speak of clients that acknowledge
the encrypted mode in turn, and of other clients the liveness properties and
`QueueSound` claim something only up to the moment the world thread takes up what
was handed over out of turn (section 5); `IdsTaken` is about
servers on which every dungeon has a reset schedule (what happens otherwise is the
third finding's subject), the run with `OneRaidPerId` has one dungeon (with a
`normal` one beside a raid it is false: `raid_state_split`), and `SavedRaidKept`
excludes a lock confirmed before
the raid's state was ever saved, which a restart does lose
(`InstanceLockMgr.cpp:145` logs it as missing data). `AnswerIsTrue` and
`AtomicStore` set apart the transactions whose connection broke (`hit`, `torn`),
of which the finding `sql_torn` shows that nothing can be promised; they claim
that such a transaction harms no other. `LoginReached` assumes that no more
packets wait for a player than one update handles (`LoginAssumption`):
a hundred and one of them would be put back before the login for ever.

Every property of a passing run has a mutant of the code that breaks it
(`mutants` in `PROJECT.json`, operators marked "Mutant" in the modules).

### Fairness

`SessionQueue`: the world loop and its `UpdateSessions` keep running (weak
fairness: nothing on the world thread waits for a client), the database answers
every query (weak; a lost connection is reopened and the query repeated), and
the drain of `addSessQueue` comes to an end (strong fairness of
`AddSessionsDone`: the loop takes sessions off faster than clients can complete
handshakes, which cost several network round trips each). Nothing is assumed of
clients, sockets or the console. `MapUpdater`: the world thread and each worker
keep running. A worker that waits for `_lock` is disabled only while the world
thread is between count and push, so weak fairness is enough. Wake-ups without
notification are possible and never assumed. `SqlTransactions`: each
connection's thread runs on (weak: a blocking call returns, with an error if need
be), the minute of a retry passes, and the session is updated. Neither errors nor
losses nor `Close` are assumed or excluded. `WorldConnection`: the world thread
runs on, one packet or one socket at a time; a network thread that took the lock
queues its packet, one that closed its socket runs `OnClose`. Nothing is assumed
of clients: `SessionEnds` speaks of sessions whose realm socket is closed.

## 5. Findings

- `session_tolerance_expires`. `World.cpp:467` computes
  `difftime(i->second, GameTime::GetGameTime())`, the recorded time minus now: never
  positive, so never `>=` the tolerance. No entry of `m_disconnects` is ever
  erased and a player who left at any time since the server started passes the
  queue. `worldserver.conf.dist:419` promises a tolerance in seconds.
- `instance_locks_assert`. At the reset time `InstanceMap::Reset` asks everybody
  inside to be locked, also in a raid whose state was never saved. A group
  member without a lock who says yes, or says nothing for a minute, fails the
  assertion at `InstanceLockMgr.cpp:321`, and the server aborts.
- `raid_state_split`. `DestroyMap` (`MapManager.cpp:383`) frees the id of a normal
  dungeon, but players and groups still remember it, and `CreateMap` uses a
  remembered id without taking it out of the pool. The next `GenerateInstanceId`
  hands it to a stranger, who walks into the living map if it is of the same
  dungeon. Raids take their ids from the same pool. If the stranger opens a raid,
  nothing happens until the normal copy unloads again: then the id of the raid is
  freed with players saved to it. The next player who opens the raid gets it,
  `CreateInstanceLockForNewInstance` puts a second shared state over the first in
  `_instanceLockDataById`, and the player is inside the strangers' raid with
  another state than theirs, which `InstanceLockMgr.h:157` says is "shared by
  everyone". This came out of the proof: the condition `NotMixed` of section 6
  is what the induction could not do without.
- `sql_torn`. `DatabaseWorkerPool.h:166` promises that a transaction "will
  automatically rollback if not commited. (Autocommit=0)". When the connection
  breaks in the middle, only the statement at hand is repeated
  (`MySQLConnection.cpp:205`), on a new connection in autocommit mode, and the
  loop goes on without `START TRANSACTION`. If a later statement fails, the
  `ROLLBACK` has nothing to undo: the transaction is reported as failed and
  part of it stays. If none fails it is reported as done, and what came before
  the break is missing.

Smaller things met while modelling, which no run states:

- The other half of the reconnect tolerance: a player who
  returns before the sweep has removed the old session is replaced in
  `AddSession_`, which records no disconnect; with somebody waiting, the place
  goes to them and the returning player to the end of the queue.
- A player who has left by a far teleport stays in the map's player list until the
  client answers. When two leave at about the same time neither is the last
  one (`Map.cpp:2953`), and the unload timer is not started by their leaving.
- Leaving a locked dungeon as the last one saves it and makes the temporary lock
  permanent without a boss kill; it replaces an expired permanent lock.
- `i_instanceLock` of a living map dangles after its owner's expired lock was
  replaced by another map's progress; the model stops (`undefined`) when it is
  used.
- A connection whose reopening fails with an error that is not one of a lost
  connection stays dead: `m_Mysql` is null, and `GetLastError` of a null pointer
  may be 0, so that transactions are reported as done; `KeepAlive` then pings it.
- `Close` drops the transactions still queued, the saves of the players
  logged out by the shutdown among them (`DatabaseWorkerPool.cpp:171`).
- Two futures that become ready during one pass may be called back in the
  opposite order (`AsyncCallbackProcessor.h:40`).
- `CMSG_ENTER_ENCRYPTED_MODE_ACK` is taken at any time and any number of times
  (`WorldSocket.cpp` 466-469, 1006-1013). Before the session is made, or after its
  socket let go of it, null is handed over and the `ASSERT` of `World.cpp:368` fails;
  the second time `AddSession_` finds the session as the old one of its account,
  deletes it, registers it again and goes on using it (`World.cpp` 387-420). The
  comment at `World.cpp:370` admits a race on the pointer in the sockets.
- A `COMMIT` that the server refuses over a working connection is reported as
  done, and a refused `START TRANSACTION` leaves the statements in autocommit mode
  (`MySQLConnection.cpp` 394-407, 433-434). `AnswerIsTrue` and `AtomicStore` set
  both apart.
- `AbortLogin` on a network thread kicks the player while it holds
  `_worldSessionLock`, which `OnClose` of the same socket takes again
  (`WorldSocket.cpp` 251-257, 991).
- A realm connection closed between authentication and the client's last message
  of the handshake leaks its session (`WorldSocket.cpp:879`).
- Early packets are put back at the front of the queue, where the comment at
  `WorldSession.cpp:367` says the bottom.
- `LogoutPlayer` takes an invited player out of the battleground queue without
  scheduling the queue's update, although the comment at
  `BattlegroundQueue.cpp:763-766` says that one follows.
- Declining at a moment when the battleground does not exist dereferences null in
  a debug message (`BattleGroundHandler.cpp:438-440`), if that log level is on.
- `ScheduleQueueUpdate` "must be atomic" (`BattlegroundMgr.cpp:572`) and is called
  from map workers without a lock. The model's clients take turns.

## 6. Proofs

`MapUpdaterProofs` proves, for every set of maps and every finite non-empty set
of workers (`ConstantsAssumption`), the invariants `TypeOK`, `PendingCount`,
`Barrier`, `OneWorkerPerMap`, `NoNullCall` and the refinement of `MapTick`. None
of them is inductive alone. The inductive invariant `IInv` adds

- `ControlInv`: where the world thread can be when the token and the shutdown
  flag are set, and that nothing is queued or held by then (this is why a worker
  that sees the token never drops a counted request);
- `WorkerInv`: at which labels a worker holds a request;
- `PlacesInv`: a map of the sweep is in one place: to visit, being pushed,
  queued once, or with one worker, and updated only in the last;
- `CoverInv`: no map of the sweep is forgotten (the abstract `EndMaps` needs it).

There is one lemma per action for `IInv` and one per action for the step of
`MapTick` it maps to.

`SessionQueueProofs` proves `TypeOK`, `Ownership` and `QueueSound` for any finite
set of accounts, any session objects, limits and tolerance, and for any behaviour
of database and console (`ConstantsAssumption`). Clients may do anything too, but
once one of them has acknowledged out of turn (`repeats`), `Ownership` no longer
says that a session is handed over once, and when `AddSession_` comes to it the
model stops, as the program is undefined from there on. Its invariant `Tables`
states the last two element by element and adds that a session on
`addSessQueue` was never initialised: it is what allows `AddSession_` to put it
into the login queue. `RemoveQueuedPlayer` is handled once, on pairs of a queue
and the session objects (`Shrinks`: nobody joins, nobody changes account, whoever
stays is not touched), and cited wherever the code calls it: twice when a session
is swept, once for the session that `AddSession_` replaces.

`SessionQueueLimitProofs` proves `NoIdlePlace` and `WithinLimit` under
`FixedLimit`: the console never changes the limit. Without it neither holds: a
lowered limit evicts nobody, and a raised one lets nobody in before the next
departure. The invariant `LInv` adds `RouteInv`, that a session which has not been
initialised has taken no place. The heart is `HandOver`: one
call of `RemoveQueuedPlayer` lets one player in at most, and only if the one
who leaves was inside and the places were exactly taken. `NothingToHandOver` says
that the second call of a sweep finds no place, so one departure never admits
two; `PlaceChangesHands` counts the players inside when one leaves and one is
let in. In `AcceptSession` the same account leaves and joins in one step, and the
two branches of the count (`decrease_session` or not) are separate cases.

`QueueIsAdmission` is the refinement of `Admission`, under `FixedLimit` too. Every
action is one step of the abstract queue or a stutter (`PromiseStep`). The work is
in `RemoveQueuedPlayerIsWithout`: the call that looks a session up, takes it out of
the middle or the front and may let in the first is the abstract `Without`, and
the second call of a sweep is a stutter. `ClearedFull` shows that the decision of
`AddSession_` on the counts `Counted` and `decrease_session` is the abstract "a
place is free".

`AdmissionsWithinLimit` needs no `FixedLimit`: whatever the console does to the
limit, an ordinary player let in finds it kept. As `WithinLimit` may be false at
that moment the proof cannot start from it; it goes by single calls. Network and
console let nobody in (`NobodyLetIn`), one call of `RemoveQueuedPlayer` lets in one
at most and only if a place is left without the one who goes (`LetsInAtMostOne`),
and `OrdinaryCount` bounds the players who count by what the code counts.

`StoppedEmpty`, in `SessionQueueProofs`: no player is left in the world when the
server has stopped. It speaks of players, who would be lost unsaved; a session that
was handed over during the last sweep may be left. The invariant `Players` follows the shutdown through its last tick: only
sessions in the tables have players, after `KickAll` each of them is kicked, and
those the last sweep has passed are out of the world. `ForcedIsFinished` says
why one sweep is enough: a kicked session does not survive its `Update`.

`InstanceLocksProofs` proves first that the pool of instance ids keeps `PoolSound`
under each of its operations, for every pool and id: the next id is free, the
lowest free one and within the bitset, which is what the `ASSERT` of
`GenerateInstanceId` needs and what lets it search upwards only. That the lowest
element of a set of naturals exists (`MinIsLeast` of `DataLemmas`) rests on the
well-foundedness of `<`. `FreeInstanceId` may be called for any id within the
bitset; `RegisterInstanceId` needs the id after the one registered to be free
when that one is next, which is what the `ORDER BY` of `Load` is for.
`RegisteredSound` says so of a whole restart, and that afterwards the free ids are
those up to one beyond the highest stored one without the stored ones.

On this it proves `TypeOK`, `IdsTaken` and `OwnRaidOnly` for any finite set of
players, any groups, dungeons and kinds of dungeons, and any bounds
(`ConstantsAssumption`, and `NilAssumption`, that the null and dangling pointers
are no values of anything else). `OneRaidPerId`, `RaidStateStored` and
`SavedRaidKept` are proved under `NotMixed`: no dungeon without a reset schedule
next to one that is locked to an instance id. A server has both; the finding
`raid_state_split` is what happens then, so the condition is what is wrong with the
code and not with the proof. Within it there may be any number of raids, and
dungeons locked to bosses beside them. The invariant `IInv` adds to the types

- `PointsTo`: a map's pointer that does not dangle leads to a lock that is there
  and that is, for a raid, to the map's own id. `Repoint` must keep this whenever
  a lock moves or goes;
- `LocksTaken`, `MapsTaken`, `RecentsTaken`: ids that somebody remembers were
  handed out, and those of locks and maps were not given back where every
  dungeon has a reset schedule. A map may live on after the last lock to it, so
  neither half implies the other;
- `RaidsOK`: `OneRaidPerId` and `RaidStateStored` together, and their converses.
  `_instanceLockDataById` leads to a state only as long as somebody is saved to it,
  and a saved state has a holder and a row. Without the converses a state
  with no holder could come back when its id is handed out again;
- `PartyOK`: a group that somebody is in has a leader in it, as the owner of the
  lock that `CreateMap` uses may be the leader;
- that a lock is `new` exactly while it is temporary (`LockOK`), which is what
  `CanJoinInstanceLock` decides by, for `OwnRaidOnly`.

`RaidsOK` is in the invariant only where all dungeons have a reset schedule
(`Scheduled`), which is where an id of a lock stays taken. `CreateKeeps`,
`UpdateForPlayerKeeps` and `RenameKeeps` say what the operations of
`InstanceLockMgr` keep and are cited by the actions; `SavedStay` carries
`SavedRaidKept` through the same lemmas, so that each action is looked at once.

Two steps of the code are loops of unknown length. What a fold or a recursive
definition computes is an induction over data, and the induction theorems of the
library cannot be used. Both loops are proved by a least counterexample instead.
`RegisterInstanceIds` is a recursive function over the numbers up to the size of the
bitset, `UpdateInstanceLockForPlayers` a fold over a set of players. That such a
function exists (`RegisteredOneByOne`, `UpdatedOneByOne`): else there were a least
number, or a least size of a set of players, up to which there is none, and one more
step extends the one that is there below it. That it keeps what each of its steps
keeps (`RegisteredSound`, `UpdateForPlayersKeeps`): the same argument for the
values.

`SqlTransactionsProofs` proves `TypeOK`, `NothingLeftOpen` and the refinement of
`AtomicStore` for any connections, transactions, numbers of statements and of
lost connections (`ConstantsAssumption`). Its invariant adds

- `Placed`: a transaction is in one place: not handed over, queued once, with one
  connection, or answered. This is what makes an answer final;
- `Served`: what the server holds for a connection. While its transaction is
  open, these are exactly the rows of the statements so far, so that `COMMIT` makes
  all rows permanent or none; outside of a transaction it holds nothing, and
  statements are run there only if the connection broke during this transaction
  or its `START TRANSACTION` was refused. An error code of 0, which would be taken
  for success, comes from a broken connection alone;
- `Kept`: a transaction whose `COMMIT` was refused, and that nothing else befell, is
  answered with success. It follows from the steps of the store alone
  (`KeptStep`).

Every way out of `ExecuteTransaction` goes through `ReturnKeeps`; every step of the
pool is a stutter of the store, a transaction that ends with all of its rows and
the answer "yes" or with none and the answer "no" (`SettleStep`), one with none and
the answer "yes" because its `COMMIT` was refused (`ForgetStep`), or a step of one
whose connection broke or that was not begun (`TearStep`). `AnswerIsTrue` (theorem
`AnswersAreTrue`) has the same exceptions. From the invariant and not from the size of
the instance follows that deadlock retries, of a worker or of
`DirectCommitTransaction`, neither repeat nor lose rows.

`AnswersAreTrue` proves `AnswerIsTrue`, what a callback is told against what is in
the table. The table is read back by `SelectSeq`, of whose value for every sequence
nothing can be proved here without induction. `Answers` therefore says where the
rows are: those of a transaction answered "yes" stand together (`Together`), of one
answered "no" none is there (`Absent`). That each commit appends all its rows in
one step is what keeps it so, and it is the refinement of `AtomicStore` that says
which steps append: every step is taken as a `StoreStep`, and the pool's own
actions are not looked at again.

`WorldConnectionProofs` proves `TypeOK`, `NoUseAfterFree` and `QueueInOrder` for any
bounds on packets and any expiry (`ConstantsAssumption`; `LoginAssumption` is not
used). Its invariant adds

- `Pointers`: who may follow a socket's pointer to the session. A network thread
  with a pointer has either an open socket that the session holds, and then the
  session is alive, or a closed one on which it does nothing but clear it. Without
  the part about the link in progress, a socket closed between the world's check
  and `LinkInstanceSocket` would be a counterexample to induction. This part and the
  next two claim nothing once a client has acknowledged out of turn, as
  `NoUseAfterFree` does; `TypeOK` and `QueueInOrder` need none of them;
- `HandedOver`: the session is made once, by the realm socket, and until the end
  of the handshake the world does not have it. This keeps `AddSession_` from seeing
  the same session twice;
- `InTurn`: an instance socket is linked once, and until then the session waits for
  it, so that no login is begun twice;
- `Order`: the packets of the queue, of those put aside (`requeuePackets`) and
  those handled are ordered, in this order (`Ordered`, `After`), and packets are put aside only as
  long as there is no player for a later one of the same update to reach. The
  last is what a handler that runs between two packets could break. The count
  `Receiving` keeps the numbers of the packets within their type.

Closing sockets and deleting the session are handled once (`CloseSocketKeeps`,
`DeleteKeeps`), taking a packet from the queue once (`TakenKeeps`) and cited for
every handler.

`BattlegroundQueueProofs` proves `TypeOK`, `InvitedCountExact`, `EntriesMatch` and
`OnlyTheLastTimer` for any finite set of players of any two teams, any minimum and
maximum per team and any numbers of battlegrounds and timers
(`ConstantsAssumption`). Type correctness is not a formality here: an invited
counter has the type `0..MaxPlayersPerTeam`, and the code's is an unsigned number
decreased without a test. The invariant adds

- `TeamsOK`: a queue holds players of its team, as the counter given back is
  that of the player's team and the one taken is that of the queue;
- `Whereabouts`: an invitation is into a battleground that is there, and who is
  counted inside is inside or has logged out there. Else an invitation could
  outlive its battleground and be given back to the next one of the same id;
- `BattlegroundsOK`: only a battleground that still takes players offers free
  slots;
- `TimersOK`: the timers have different times, and behind the timer of a player's
  invitation there is no other for the same player.

`Held` is the set of players with a place in each battleground, and the count is
proved by how a step changes it: not at all (`CountKept`), by one who gives his
place back (`CountGivenBack`) or by a selection pool that takes places
(`CountTaken`). That a pool fits is `FreeSlotsAreFree` with `PoolProperties`, which
needs of the first so many of a sequence only that there are so many
(`FirstOnes`). `NowIsNew` is a pigeonhole: while a timer is left there is a time
that no timer has. `OnlyTheLastTimer` is an action property; it follows from
`TimersOK` in the one step that removes a player for a timer.

## 7. Only model-checked

Liveness (`TickEnds`, `ShutdownEnds`, `EventuallyInitialised`,
`EventuallyDeleted`, `EventuallyTold`, `CloseEnds`, `SessionEnds`,
`LoginReached`) and deadlock freedom rest on fairness and `ENABLED` and are
checked by TLC alone. Every invariant and every action property of a passing run is
a theorem, and so is every refinement.

What stays with TLC in a weaker sense: `OneRaidPerId`, `RaidStateStored` and
`SavedRaidKept` are proved under `NotMixed`, and `NoIdlePlace`, `WithinLimit` and
`ImplementsAdmission` under `FixedLimit`. `OneRaidPerId`, `NoIdlePlace` and
`WithinLimit` are false without their condition. `RaidStateStored` and
`SavedRaidKept` rest on a raid id having one state, so that the proof does not go
through without it; with a normal dungeon beside the raid nothing is claimed of
them, neither by a theorem nor by a run.

## 8. Not modelled

The components with status `not_modelled` in `PROJECT.json`: those marked
"planned" follow the plan above; the rest is content (scripts, AI, spells),
geometry, generated or vendored code, or sequential bookkeeping of a single
thread. This is most of the repository by lines: the modules cover the
protocols and the shared state of the server's core, not its content.

Of the modelled components these parts are left out: retries of
`SMSG_CONNECT_TO` and the write side of sockets; chained query callbacks and query
holders beyond their arrival; premade groups, arenas, several battleground queues
at once, teleports into a battleground that fail; flexible raid locks, several
difficulties, log-in inside a dungeon; bans and permissions.
