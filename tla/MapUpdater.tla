----------------------------- MODULE MapUpdater -----------------------------
(***************************************************************************)
(* MapManager::Update on the world thread, the worker threads of           *)
(* MapUpdater, and the ProducerConsumerQueue between them.                 *)
(*                                                                         *)
(* Two mutexes are involved.  _queueLock is only ever held for one step of *)
(* the model.  MapUpdater::_lock is held by the world thread from the      *)
(* counting of a request to its push, that is while pc = "push"; all its   *)
(* other uses are single steps.  Both condition variables are modelled as  *)
(* wait sets whose members may also wake up without being notified.        *)
(***************************************************************************)
EXTENDS Naturals, Sequences, FiniteSets

CONSTANTS
    Maps,      \* maps that may be loaded
    Workers,   \* the threads of MapUpdate.Threads, at least one
    NoRequest  \* a null MapUpdateRequest*

ASSUME ConstantsAssumption ==
    /\ NoRequest \notin Maps
    /\ Workers # {} /\ IsFiniteSet(Workers)

VARIABLES
    \* the world thread
    pc, todo, current, i_maps,
    \* MapUpdater
    pending_requests, _cancelationToken,
    \* ProducerConsumerQueue
    _queue, _shutdown,
    \* the workers: program counter and local variable request
    wpc, request,
    \* history of the tick: updates of each map, maps left out of it
    updates, skipped

world == <<pc, todo, current, i_maps>>
updater == <<pending_requests, _cancelationToken>>
queue == <<_queue, _shutdown>>
workers == <<wpc, request>>
tick == <<updates, skipped>>
vars == <<world, updater, queue, workers, tick>>

Init ==
    /\ pc = "idle" /\ todo = {} /\ current = NoRequest /\ i_maps = {}
    /\ pending_requests = 0 /\ _cancelationToken = FALSE
    /\ _queue = <<>> /\ _shutdown = FALSE
    /\ wpc = [w \in Workers |-> "pop"] /\ request = [w \in Workers |-> NoRequest]
    /\ updates = [m \in Maps |-> 0] /\ skipped = {}

-----------------------------------------------------------------------------
(* The world thread.                                                       *)

\* Sessions are served; one of them enters a map that is not loaded.
CreateMap(m) ==
    /\ pc = "idle" /\ m \notin i_maps
    /\ i_maps' = i_maps \cup {m}
    /\ UNCHANGED <<pc, todo, current, updater, queue, workers, tick>>

\* MapManager::Update: the walk over i_maps begins.
BeginUpdate ==
    /\ pc = "idle" /\ pc' = "sweep" /\ todo' = i_maps
    /\ updates' = [m \in Maps |-> 0] /\ skipped' = {}
    /\ UNCHANGED <<current, i_maps, updater, queue, workers>>

\* Mutant: a map that was already scheduled may be destroyed.
DestroyMapScheduled(m) ==
    /\ pc = "sweep" /\ m \in i_maps
    /\ todo' = todo \ {m} /\ i_maps' = i_maps \ {m}
    /\ UNCHANGED <<pc, current, updater, queue, workers, tick>>

\* CanUnload, and DestroyMap succeeds.
DestroyMap(m) ==
    /\ pc = "sweep" /\ m \in todo
    /\ todo' = todo \ {m} /\ i_maps' = i_maps \ {m}
    /\ UNCHANGED <<pc, current, updater, queue, workers, tick>>

\* CanUnload, but players are still there: the map is passed over.
KeepMap(m) ==
    /\ pc = "sweep" /\ m \in todo
    /\ todo' = todo \ {m} /\ skipped' = skipped \cup {m}
    /\ UNCHANGED <<pc, current, i_maps, updater, queue, workers, updates>>

\* Mutant: the request is not counted.
CountRequestNot(m) ==
    /\ pc = "sweep" /\ m \in todo
    /\ pc' = "push" /\ todo' = todo \ {m} /\ current' = m
    /\ UNCHANGED <<i_maps, updater, queue, workers, tick>>

\* schedule_update up to the push: _lock is taken, the request counted.
CountRequest(m) ==
    /\ pc = "sweep" /\ m \in todo
    /\ pc' = "push" /\ todo' = todo \ {m} /\ current' = m
    /\ pending_requests' = pending_requests + 1
    /\ UNCHANGED <<i_maps, _cancelationToken, queue, workers, tick>>

\* notify_one of the queue's condition variable.
NotifyOne ==
    IF \E w \in Workers : wpc[w] = "asleep"
    THEN \E w \in Workers : wpc[w] = "asleep" /\ wpc' = [wpc EXCEPT ![w] = "pop"]
    ELSE wpc' = wpc

\* ProducerConsumerQueue::Push, after which schedule_update releases _lock.
Push ==
    /\ pc = "push" /\ pc' = "sweep" /\ current' = NoRequest
    /\ _queue' = Append(_queue, current)
    /\ NotifyOne
    /\ UNCHANGED <<todo, i_maps, updater, _shutdown, request, tick>>

\* Mutant: the call of wait is missing.
EndSweepNoWait ==
    /\ pc = "sweep" /\ todo = {} /\ pc' = "delayed"
    /\ UNCHANGED <<todo, current, i_maps, updater, queue, workers, tick>>

EndSweep ==
    /\ pc = "sweep" /\ todo = {} /\ pc' = "wait"
    /\ UNCHANGED <<todo, current, i_maps, updater, queue, workers, tick>>

\* Mutant: the last request is not waited for.
WaitOffByOne ==
    /\ pc = "wait"
    /\ pc' = IF pending_requests > 1 THEN "blocked"
             ELSE IF _cancelationToken THEN "cancel" ELSE "delayed"
    /\ UNCHANGED <<todo, current, i_maps, updater, queue, workers, tick>>

\* One turn of the loop in MapUpdater::wait, called by Update and deactivate.
Wait ==
    /\ pc = "wait"
    /\ pc' = IF pending_requests > 0 THEN "blocked"
             ELSE IF _cancelationToken THEN "cancel" ELSE "delayed"
    /\ UNCHANGED <<todo, current, i_maps, updater, queue, workers, tick>>

SpuriousWorldWakeup ==
    /\ pc = "blocked" /\ pc' = "wait"
    /\ UNCHANGED <<todo, current, i_maps, updater, queue, workers, tick>>

\* The loop over DelayedUpdate; MapManager::Update returns.
DelayedUpdate ==
    /\ pc = "delayed" /\ pc' = "idle"
    /\ UNCHANGED <<todo, current, i_maps, updater, queue, workers, tick>>

\* Shutdown: MapManager::UnloadAll deletes the maps ...
UnloadAll ==
    /\ pc = "idle" /\ pc' = "unloaded" /\ i_maps' = {}
    /\ UNCHANGED <<todo, current, updater, queue, workers, tick>>

\* ... and deactivates the updater: token, wait, Cancel, join.
Deactivate ==
    /\ pc = "unloaded" /\ pc' = "wait" /\ _cancelationToken' = TRUE
    /\ UNCHANGED <<todo, current, i_maps, pending_requests, queue, workers, tick>>

\* Mutant: Cancel notifies nobody.
CancelSilently ==
    /\ pc = "cancel" /\ pc' = "join"
    /\ _queue' = <<>> /\ _shutdown' = TRUE
    /\ UNCHANGED <<todo, current, i_maps, updater, workers, tick>>

Cancel ==
    /\ pc = "cancel" /\ pc' = "join"
    /\ _queue' = <<>> /\ _shutdown' = TRUE
    /\ wpc' = [w \in Workers |-> IF wpc[w] = "asleep" THEN "pop" ELSE wpc[w]]
    /\ UNCHANGED <<todo, current, i_maps, updater, request, tick>>

Join ==
    /\ pc = "join" /\ \A w \in Workers : wpc[w] = "exited"
    /\ pc' = "done"
    /\ UNCHANGED <<todo, current, i_maps, updater, queue, workers, tick>>

-----------------------------------------------------------------------------
(* A worker thread.                                                        *)

Goto(w, label) == wpc' = [wpc EXCEPT ![w] = label]

\* WaitAndPop: sleep, give up without a request, or take one.
Sleep(w) ==
    /\ wpc[w] = "pop" /\ _queue = <<>> /\ ~_shutdown
    /\ Goto(w, "asleep")
    /\ UNCHANGED <<world, updater, queue, request, tick>>

\* Mutant: the wait is not in a loop.
GiveUpOnWakeup(w) ==
    /\ wpc[w] = "pop" /\ _queue = <<>>
    /\ Goto(w, "got") /\ request' = [request EXCEPT ![w] = NoRequest]
    /\ UNCHANGED <<world, updater, queue, tick>>

GiveUp(w) ==
    /\ wpc[w] = "pop" /\ _shutdown
    /\ Goto(w, "got") /\ request' = [request EXCEPT ![w] = NoRequest]
    /\ UNCHANGED <<world, updater, queue, tick>>

Pop(w) ==
    /\ wpc[w] = "pop" /\ _queue # <<>> /\ ~_shutdown
    /\ Goto(w, "got") /\ request' = [request EXCEPT ![w] = Head(_queue)]
    /\ _queue' = Tail(_queue)
    /\ UNCHANGED <<world, updater, _shutdown, tick>>

SpuriousWakeup(w) ==
    /\ wpc[w] = "asleep"
    /\ Goto(w, "pop")
    /\ UNCHANGED <<world, updater, queue, request, tick>>

\* The test of _cancelationToken; request->call() on a null pointer crashes.
CheckToken(w) ==
    /\ wpc[w] = "got"
    /\ Goto(w, IF _cancelationToken THEN "exited"
               ELSE IF request[w] = NoRequest THEN "crashed" ELSE "updating")
    /\ UNCHANGED <<world, updater, queue, request, tick>>

\* Map::Update returns.
UpdateMap(w) ==
    /\ wpc[w] = "updating"
    /\ Goto(w, "finishing")
    /\ updates' = [updates EXCEPT ![request[w]] = @ + 1]
    /\ UNCHANGED <<world, updater, queue, request, skipped>>

\* Mutant: the finished request stays counted.
UpdateFinishedUncounted(w) ==
    /\ wpc[w] = "finishing" /\ pc # "push"
    /\ Goto(w, "pop") /\ request' = [request EXCEPT ![w] = NoRequest]
    /\ pc' = IF pc = "blocked" THEN "wait" ELSE pc
    /\ UNCHANGED <<todo, current, i_maps, updater, queue, tick>>

\* Mutant: the waiting world thread is not notified.
UpdateFinishedSilently(w) ==
    /\ wpc[w] = "finishing" /\ pc # "push"
    /\ Goto(w, "pop") /\ request' = [request EXCEPT ![w] = NoRequest]
    /\ pending_requests' = pending_requests - 1
    /\ UNCHANGED <<pc, todo, current, i_maps, _cancelationToken, queue, tick>>

\* update_finished, under _lock; the request is deleted.
UpdateFinished(w) ==
    /\ wpc[w] = "finishing" /\ pc # "push"
    /\ Goto(w, "pop") /\ request' = [request EXCEPT ![w] = NoRequest]
    /\ pending_requests' = pending_requests - 1
    /\ pc' = IF pc = "blocked" THEN "wait" ELSE pc
    /\ UNCHANGED <<todo, current, i_maps, _cancelationToken, queue, tick>>

-----------------------------------------------------------------------------
Sweep == \E m \in Maps : DestroyMap(m) \/ KeepMap(m) \/ CountRequest(m)

WorldStep ==
    Sweep \/ Push \/ EndSweep \/ Wait \/ DelayedUpdate \/ Deactivate \/ Cancel \/ Join

WorkerStep(w) ==
    Sleep(w) \/ GiveUp(w) \/ Pop(w) \/ CheckToken(w) \/ UpdateMap(w) \/ UpdateFinished(w)

\* Beginnings the world chooses freely, and wake-ups nobody asked for.
Environment ==
    \/ \E m \in Maps : CreateMap(m)
    \/ BeginUpdate \/ UnloadAll \/ SpuriousWorldWakeup
    \/ \E w \in Workers : SpuriousWakeup(w)

Stopped == pc = "done" /\ UNCHANGED vars

Next == WorldStep \/ Environment \/ Stopped \/ \E w \in Workers : WorkerStep(w)

Spec == Init /\ [][Next]_vars

(* Threads are scheduled fairly; nothing is assumed of spurious wake-ups.   *)
Fairness == WF_vars(WorldStep) /\ \A w \in Workers : WF_vars(WorkerStep(w))

FairSpec == Spec /\ Fairness

-----------------------------------------------------------------------------
WorldLabels == {"idle", "sweep", "push", "wait", "blocked", "delayed",
                "unloaded", "cancel", "join", "done"}
WorkerLabels == {"pop", "asleep", "got", "updating", "finishing", "exited", "crashed"}

TypeOK ==
    /\ pc \in WorldLabels /\ todo \subseteq Maps
    /\ current \in Maps \cup {NoRequest} /\ i_maps \subseteq Maps
    /\ pending_requests \in Nat /\ _cancelationToken \in BOOLEAN
    /\ _queue \in Seq(Maps) /\ _shutdown \in BOOLEAN
    /\ wpc \in [Workers -> WorkerLabels]
    /\ request \in [Workers -> Maps \cup {NoRequest}]
    /\ updates \in [Maps -> Nat] /\ skipped \subseteq Maps

\* Workers that hold a request they have not reported finished.
Busy == {w \in Workers : request[w] # NoRequest}

(* The counter the world waits on is the number of requests that are queued,*)
(* held by a worker, or counted and about to be pushed: it reaches zero     *)
(* exactly when the last update has been reported.                          *)
PendingCount ==
    pending_requests =
      Len(_queue) + Cardinality(Busy) + (IF pc = "push" THEN 1 ELSE 0)

(* While the world thread serves sessions, applies delayed updates or tears *)
(* the maps down, no worker is inside Map::Update and none can get there.   *)
Barrier ==
    pc \in {"idle", "delayed", "unloaded", "cancel", "join", "done"}
      => _queue = <<>> /\ Busy = {}

(* No two workers are inside the same map and no worker is inside a map     *)
(* that MapManager has destroyed.                                           *)
OneWorkerPerMap ==
    \A w \in Busy :
      request[w] \in i_maps /\ \A v \in Busy : request[v] = request[w] => v = w

(* WaitAndPop comes back empty-handed only when the worker is to exit.      *)
NoNullCall == \A w \in Workers : wpc[w] # "crashed"

(* The threads implement the barrier the world thread relies on.            *)
Phase ==
    CASE pc \in {"sweep", "push"} -> "maps"
      [] pc \in {"wait", "blocked"} -> IF _cancelationToken THEN "stopped" ELSE "maps"
      [] pc = "delayed" -> "delayed"
      [] pc = "idle" -> "sessions"
      [] OTHER -> "stopped"

Tick == INSTANCE MapTick WITH phase <- Phase, loaded <- i_maps
ImplementsTick == Tick!Spec

(* A tick ends: no wake-up is lost between the queue, the counter and the   *)
(* two condition variables.                                                 *)
TickEnds == pc = "sweep" ~> pc = "idle"

(* Shutdown ends, with every worker joined.                                 *)
ShutdownEnds == pc = "unloaded" ~> pc = "done"
=============================================================================
