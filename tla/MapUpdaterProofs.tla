-------------------------- MODULE MapUpdaterProofs --------------------------
(***************************************************************************)
(* Proofs about MapUpdater for any set of maps and any number of workers.  *)
(***************************************************************************)
EXTENDS MapUpdater, FiniteSetTheorems, SequenceTheorems, TLAPS

(* Where the control of the world thread stands when the updater is being  *)
(* deactivated, and what the workers may hold then.                        *)
ControlInv ==
    /\ _cancelationToken => pc \in {"wait", "blocked", "cancel", "join", "done"}
    /\ pc \in {"cancel", "join", "done"} => _cancelationToken
    /\ _shutdown => pc \in {"join", "done"}
    /\ _cancelationToken => _queue = <<>> /\ Busy = {}
    /\ pc \notin {"sweep", "push"} => todo = {}
    /\ current # NoRequest <=> pc = "push"

\* A worker holds a request from WaitAndPop to update_finished.
WorkerInv ==
    \A w \in Workers :
      /\ wpc[w] \in {"updating", "finishing"} => request[w] # NoRequest
      /\ wpc[w] \in {"pop", "asleep", "exited"} => request[w] = NoRequest
      /\ wpc[w] = "got" /\ request[w] = NoRequest => _cancelationToken
      /\ wpc[w] # "crashed"

(* A map the sweep has not settled is in exactly one place: still to be    *)
(* visited, being pushed, queued, or with a worker; and only in the last   *)
(* of these, after Map::Update, has it been updated.                       *)
Pending(m) == m \in i_maps \ skipped /\ updates[m] = 0

PlacesInv ==
    /\ \A m \in todo : Pending(m)
    /\ pc = "push" => Pending(current) /\ current \notin todo
    /\ \A i \in 1..Len(_queue) :
         /\ Pending(_queue[i]) /\ _queue[i] \notin todo /\ _queue[i] # current
         /\ \A j \in 1..Len(_queue) : _queue[i] = _queue[j] => i = j
    /\ \A w \in Busy :
         /\ request[w] \in i_maps \ skipped
         /\ request[w] \notin todo /\ request[w] # current
         /\ wpc[w] = "finishing" => updates[request[w]] = 1
         /\ wpc[w] # "finishing" => updates[request[w]] = 0
         /\ \A i \in 1..Len(_queue) : _queue[i] # request[w]
         /\ \A v \in Busy : request[v] = request[w] => v = w

\* No map of the sweep is forgotten.
CoverInv ==
    Phase \in {"maps", "delayed"} =>
      \A m \in i_maps \ skipped :
        \/ m \in todo \/ m = current \/ updates[m] = 1
        \/ \E i \in 1..Len(_queue) : _queue[i] = m
        \/ \E w \in Busy : request[w] = m

IInv ==
    TypeOK /\ PendingCount /\ Barrier /\ ControlInv /\ WorkerInv /\ PlacesInv /\ CoverInv

-----------------------------------------------------------------------------
USE DEF WorldLabels, WorkerLabels, world, updater, queue, workers, tick

\* Busy is finite: the workers are.
LEMMA BusyFinite == IsFiniteSet(Busy) /\ Cardinality(Busy) \in Nat
  <1>1. Busy \subseteq Workers  BY DEF Busy
  <1>2. IsFiniteSet(Busy)  BY <1>1, FS_Subset, ConstantsAssumption
  <1> QED  BY <1>2, FS_CardinalityType

\* The invariant holds initially.
LEMMA InitInv == Init => IInv
  <1> SUFFICES ASSUME Init PROVE IInv  OBVIOUS
  <1> USE DEF Init
  <1>1. Busy = {}  BY DEF Busy
  <1>2. TypeOK
    <2>1. _queue \in Seq(Maps)  OBVIOUS
    <2>2. wpc \in [Workers -> WorkerLabels] /\ request \in [Workers -> Maps \cup {NoRequest}]
      OBVIOUS
    <2>3. updates \in [Maps -> Nat]  OBVIOUS
    <2> QED  BY <2>1, <2>2, <2>3 DEF TypeOK
  <1>3. PendingCount  BY <1>1, FS_EmptySet DEF PendingCount
  <1>4. Barrier /\ ControlInv /\ WorkerInv  BY <1>1 DEF Barrier, ControlInv, WorkerInv
  <1>5. PlacesInv /\ CoverInv  BY <1>1 DEF PlacesInv, CoverInv, Phase
  <1> QED  BY <1>2, <1>3, <1>4, <1>5 DEF IInv

LEMMA CreateMapStep == ASSUME IInv, NEW m \in Maps, CreateMap(m) PROVE IInv'
  <1> USE ConstantsAssumption DEF IInv, CreateMap
  <1>1. TypeOK'  BY DEF TypeOK
  <1>2. Busy' = Busy  BY DEF Busy, TypeOK
  <1>3. PendingCount'  BY <1>2 DEF PendingCount, TypeOK
  <1>4. Barrier'  BY <1>2 DEF Barrier, TypeOK, ControlInv
  <1>5. ControlInv'  BY <1>2 DEF ControlInv, Barrier, TypeOK
  <1>6. WorkerInv'  BY <1>2 DEF WorkerInv, TypeOK, ControlInv, Barrier
  <1>7. PlacesInv'  BY <1>2 DEF PlacesInv, Pending, TypeOK, ControlInv
  <1>8. CoverInv'  BY <1>2 DEF CoverInv, Phase, TypeOK, ControlInv, PlacesInv, Pending
  <1> QED  BY <1>1, <1>3, <1>4, <1>5, <1>6, <1>7, <1>8

LEMMA BeginUpdateStep == ASSUME IInv, BeginUpdate PROVE IInv'
  <1> USE ConstantsAssumption DEF IInv, BeginUpdate
  <1>1. TypeOK'  BY DEF TypeOK
  <1>2. Busy' = Busy  BY DEF Busy, TypeOK
  <1>3. PendingCount'  BY <1>2 DEF PendingCount, TypeOK
  <1>4. Barrier'  BY <1>2 DEF Barrier, TypeOK, ControlInv
  <1>5. ControlInv'  BY <1>2 DEF ControlInv, Barrier, TypeOK
  <1>6. WorkerInv'  BY <1>2 DEF WorkerInv, TypeOK, ControlInv, Barrier
  <1>7. PlacesInv'  BY <1>2 DEF PlacesInv, Pending, TypeOK, ControlInv, Barrier
  <1>8. CoverInv'  BY <1>2 DEF CoverInv, Phase, TypeOK, ControlInv, PlacesInv, Pending
  <1> QED  BY <1>1, <1>3, <1>4, <1>5, <1>6, <1>7, <1>8

LEMMA DestroyMapStep == ASSUME IInv, NEW m \in Maps, DestroyMap(m) PROVE IInv'
  <1> USE ConstantsAssumption DEF IInv, DestroyMap
  <1>1. TypeOK'  BY DEF TypeOK
  <1>2. Busy' = Busy  BY DEF Busy, TypeOK
  <1>3. PendingCount'  BY <1>2 DEF PendingCount, TypeOK
  <1>4. Barrier'  BY <1>2 DEF Barrier, TypeOK, ControlInv
  <1>5. ControlInv'  BY <1>2 DEF ControlInv, Barrier, TypeOK
  <1>6. WorkerInv'  BY <1>2 DEF WorkerInv, TypeOK, ControlInv, Barrier
  <1>7. PlacesInv'  BY <1>2 DEF PlacesInv, Pending, TypeOK, ControlInv
  <1>8. CoverInv'  BY <1>2 DEF CoverInv, Phase, TypeOK, ControlInv, PlacesInv, Pending
  <1> QED  BY <1>1, <1>3, <1>4, <1>5, <1>6, <1>7, <1>8

LEMMA KeepMapStep == ASSUME IInv, NEW m \in Maps, KeepMap(m) PROVE IInv'
  <1> USE ConstantsAssumption DEF IInv, KeepMap
  <1>1. TypeOK'  BY DEF TypeOK
  <1>2. Busy' = Busy  BY DEF Busy, TypeOK
  <1>3. PendingCount'  BY <1>2 DEF PendingCount, TypeOK
  <1>4. Barrier'  BY <1>2 DEF Barrier, TypeOK, ControlInv
  <1>5. ControlInv'  BY <1>2 DEF ControlInv, Barrier, TypeOK
  <1>6. WorkerInv'  BY <1>2 DEF WorkerInv, TypeOK, ControlInv, Barrier
  <1>7. PlacesInv'  BY <1>2 DEF PlacesInv, Pending, TypeOK, ControlInv
  <1>8. CoverInv'  BY <1>2 DEF CoverInv, Phase, TypeOK, ControlInv, PlacesInv, Pending
  <1> QED  BY <1>1, <1>3, <1>4, <1>5, <1>6, <1>7, <1>8

LEMMA CountRequestStep == ASSUME IInv, NEW m \in Maps, CountRequest(m) PROVE IInv'
  <1> USE ConstantsAssumption DEF IInv, CountRequest
  <1>1. TypeOK'  BY DEF TypeOK
  <1>2. Busy' = Busy  BY DEF Busy, TypeOK
  <1>3. PendingCount'  BY <1>2, BusyFinite DEF PendingCount, TypeOK
  <1>4. Barrier'  BY <1>2 DEF Barrier, TypeOK, ControlInv
  <1>5. ControlInv'  BY <1>2 DEF ControlInv, Barrier, TypeOK
  <1>6. WorkerInv'  BY <1>2 DEF WorkerInv, TypeOK, ControlInv, Barrier
  <1>7. PlacesInv'  BY <1>2 DEF PlacesInv, Pending, TypeOK, ControlInv
  <1>8. CoverInv'  BY <1>2 DEF CoverInv, Phase, TypeOK, ControlInv, PlacesInv, Pending
  <1> QED  BY <1>1, <1>3, <1>4, <1>5, <1>6, <1>7, <1>8

LEMMA PushStep == ASSUME IInv, Push PROVE IInv'
  <1> USE ConstantsAssumption DEF IInv, Push, NotifyOne
  <1>1. TypeOK'
    <2>1. current \in Maps  BY DEF TypeOK, ControlInv
    <2>2. _queue' \in Seq(Maps)  BY <2>1 DEF TypeOK
    <2>3. wpc' \in [Workers -> WorkerLabels]  BY DEF TypeOK
    <2> QED  BY <2>2, <2>3 DEF TypeOK
  <1>2. Busy' = Busy  BY DEF Busy, TypeOK
  <1>3. PendingCount'
    <2>1. Len(_queue') = Len(_queue) + 1  BY DEF TypeOK, ControlInv
    <2> QED  BY <2>1, <1>2, BusyFinite DEF PendingCount, TypeOK
  <1>4. Barrier'  BY <1>2 DEF Barrier, TypeOK, ControlInv
  <1>5. ControlInv'  BY <1>2 DEF ControlInv, Barrier, TypeOK
  <1>6. WorkerInv'  BY <1>2 DEF WorkerInv, TypeOK, ControlInv, Barrier
  <1>7. PlacesInv'
    <2>1. current \in Maps  BY DEF TypeOK, ControlInv
    <2>2. /\ Len(_queue') = Len(_queue) + 1 /\ Len(_queue) \in Nat
          /\ \A i \in 1..Len(_queue) : _queue'[i] = _queue[i]
          /\ _queue'[Len(_queue) + 1] = current
      BY <2>1 DEF TypeOK
    <2>3. \A i \in 1..Len(_queue') : i = Len(_queue) + 1 \/ i \in 1..Len(_queue)
      BY <2>2
    <2>4. \A m : Pending(m)' <=> Pending(m)  BY DEF Pending
    <2>5. current' = NoRequest /\ NoRequest \notin Maps /\ todo' = todo /\ request' = request
      BY ConstantsAssumption
    <2>6. \A i \in 1..Len(_queue') : Pending(_queue'[i]) /\ _queue'[i] \notin todo
      BY <2>2, <2>3 DEF PlacesInv
    <2>7. \A m : Pending(m) => m \in Maps  BY DEF Pending, TypeOK
    <2>8. \A i, j \in 1..Len(_queue') : _queue'[i] = _queue'[j] => i = j
      BY <2>2, <2>3 DEF PlacesInv
    <2>9. \A w \in Busy : /\ request[w] \in Maps \/ request[w] \notin Maps
                         /\ \A i \in 1..Len(_queue') : _queue'[i] # request[w]
      BY <2>2, <2>3 DEF PlacesInv
    <2>10. \A w \in Workers : wpc'[w] = "finishing" <=> wpc[w] = "finishing"
      BY DEF TypeOK
    <2>11. \A w \in Busy :
            /\ request[w] \in i_maps \ skipped /\ request[w] \notin todo
            /\ wpc'[w] = "finishing" => updates[request[w]] = 1
            /\ wpc'[w] # "finishing" => updates[request[w]] = 0
            /\ request[w] # NoRequest
            /\ \A v \in Busy : request[v] = request[w] => v = w
      BY <2>10 DEF PlacesInv, Busy
    <2>12. \A m \in todo : Pending(m)  BY DEF PlacesInv
    <2> QED
      BY <1>2, <2>4, <2>5, <2>6, <2>7, <2>8, <2>9, <2>11, <2>12 DEF PlacesInv
  <1>8. CoverInv'  BY <1>2 DEF CoverInv, Phase, TypeOK, ControlInv, PlacesInv, Pending
  <1> QED  BY <1>1, <1>3, <1>4, <1>5, <1>6, <1>7, <1>8

LEMMA EndSweepStep == ASSUME IInv, EndSweep PROVE IInv'
  <1> USE ConstantsAssumption DEF IInv, EndSweep
  <1>1. TypeOK'  BY DEF TypeOK
  <1>2. Busy' = Busy  BY DEF Busy, TypeOK
  <1>3. PendingCount'  BY <1>2 DEF PendingCount, TypeOK
  <1>4. Barrier'  BY <1>2 DEF Barrier, TypeOK, ControlInv
  <1>5. ControlInv'  BY <1>2 DEF ControlInv, Barrier, TypeOK
  <1>6. WorkerInv'  BY <1>2 DEF WorkerInv, TypeOK, ControlInv, Barrier
  <1>7. PlacesInv'  BY <1>2 DEF PlacesInv, Pending, TypeOK, ControlInv
  <1>8. CoverInv'  BY <1>2 DEF CoverInv, Phase, TypeOK, ControlInv, PlacesInv, Pending
  <1> QED  BY <1>1, <1>3, <1>4, <1>5, <1>6, <1>7, <1>8

LEMMA WaitStep == ASSUME IInv, Wait PROVE IInv'
  <1> USE ConstantsAssumption DEF IInv, Wait
  <1>1. TypeOK'  BY DEF TypeOK
  <1>2. Busy' = Busy  BY DEF Busy, TypeOK
  <1>3. PendingCount'  BY <1>2 DEF PendingCount, TypeOK
  <1>4. Barrier'
    <2>1. CASE pending_requests > 0  BY <2>1, <1>2 DEF Barrier
    <2>2. CASE ~(pending_requests > 0)
      <3>1. Len(_queue) \in Nat /\ Cardinality(Busy) \in Nat
        BY BusyFinite, LenProperties DEF TypeOK
      <3>2. Len(_queue) = 0 /\ Cardinality(Busy) = 0
        BY <2>2, <3>1 DEF PendingCount, TypeOK
      <3>3. _queue = <<>>  BY <3>2, EmptySeq DEF TypeOK
      <3>4. Busy = {}  BY <3>2, FS_EmptySet, BusyFinite
      <3> QED  BY <3>3, <3>4, <1>2 DEF Barrier
    <2> QED  BY <2>1, <2>2
  <1>5. ControlInv'  BY <1>2 DEF ControlInv, Barrier, TypeOK
  <1>6. WorkerInv'  BY <1>2 DEF WorkerInv, TypeOK, ControlInv, Barrier
  <1>7. PlacesInv'  BY <1>2 DEF PlacesInv, Pending, TypeOK, ControlInv
  <1>8. CoverInv'  BY <1>2 DEF CoverInv, Phase, TypeOK, ControlInv, PlacesInv, Pending
  <1> QED  BY <1>1, <1>3, <1>4, <1>5, <1>6, <1>7, <1>8

LEMMA SpuriousWorldWakeupStep == ASSUME IInv, SpuriousWorldWakeup PROVE IInv'
  <1> USE ConstantsAssumption DEF IInv, SpuriousWorldWakeup
  <1>1. TypeOK'  BY DEF TypeOK
  <1>2. Busy' = Busy  BY DEF Busy, TypeOK
  <1>3. PendingCount'  BY <1>2 DEF PendingCount, TypeOK
  <1>4. Barrier'  BY <1>2 DEF Barrier, TypeOK, ControlInv
  <1>5. ControlInv'  BY <1>2 DEF ControlInv, Barrier, TypeOK
  <1>6. WorkerInv'  BY <1>2 DEF WorkerInv, TypeOK, ControlInv, Barrier
  <1>7. PlacesInv'  BY <1>2 DEF PlacesInv, Pending, TypeOK, ControlInv
  <1>8. CoverInv'  BY <1>2 DEF CoverInv, Phase, TypeOK, ControlInv, PlacesInv, Pending
  <1> QED  BY <1>1, <1>3, <1>4, <1>5, <1>6, <1>7, <1>8

LEMMA DelayedUpdateStep == ASSUME IInv, DelayedUpdate PROVE IInv'
  <1> USE ConstantsAssumption DEF IInv, DelayedUpdate
  <1>1. TypeOK'  BY DEF TypeOK
  <1>2. Busy' = Busy  BY DEF Busy, TypeOK
  <1>3. PendingCount'  BY <1>2 DEF PendingCount, TypeOK
  <1>4. Barrier'  BY <1>2 DEF Barrier, TypeOK, ControlInv
  <1>5. ControlInv'  BY <1>2 DEF ControlInv, Barrier, TypeOK
  <1>6. WorkerInv'  BY <1>2 DEF WorkerInv, TypeOK, ControlInv, Barrier
  <1>7. PlacesInv'  BY <1>2 DEF PlacesInv, Pending, TypeOK, ControlInv
  <1>8. CoverInv'  BY <1>2 DEF CoverInv, Phase, TypeOK, ControlInv, PlacesInv, Pending
  <1> QED  BY <1>1, <1>3, <1>4, <1>5, <1>6, <1>7, <1>8

LEMMA UnloadAllStep == ASSUME IInv, UnloadAll PROVE IInv'
  <1> USE ConstantsAssumption DEF IInv, UnloadAll
  <1>1. TypeOK'  BY DEF TypeOK
  <1>2. Busy' = Busy  BY DEF Busy, TypeOK
  <1>3. PendingCount'  BY <1>2 DEF PendingCount, TypeOK
  <1>4. Barrier'  BY <1>2 DEF Barrier, TypeOK, ControlInv
  <1>5. ControlInv'  BY <1>2 DEF ControlInv, Barrier, TypeOK
  <1>6. WorkerInv'  BY <1>2 DEF WorkerInv, TypeOK, ControlInv, Barrier
  <1>7. PlacesInv'  BY <1>2 DEF PlacesInv, Pending, TypeOK, ControlInv, Barrier
  <1>8. CoverInv'  BY <1>2 DEF CoverInv, Phase, TypeOK, ControlInv, PlacesInv, Pending
  <1> QED  BY <1>1, <1>3, <1>4, <1>5, <1>6, <1>7, <1>8

LEMMA DeactivateStep == ASSUME IInv, Deactivate PROVE IInv'
  <1> USE ConstantsAssumption DEF IInv, Deactivate
  <1>1. TypeOK'  BY DEF TypeOK
  <1>2. Busy' = Busy  BY DEF Busy, TypeOK
  <1>3. PendingCount'  BY <1>2 DEF PendingCount, TypeOK
  <1>4. Barrier'  BY <1>2 DEF Barrier, TypeOK, ControlInv
  <1>5. ControlInv'  BY <1>2 DEF ControlInv, Barrier, TypeOK
  <1>6. WorkerInv'  BY <1>2 DEF WorkerInv, TypeOK, ControlInv, Barrier
  <1>7. PlacesInv'  BY <1>2 DEF PlacesInv, Pending, TypeOK, ControlInv
  <1>8. CoverInv'  BY <1>2 DEF CoverInv, Phase, TypeOK, ControlInv, PlacesInv, Pending
  <1> QED  BY <1>1, <1>3, <1>4, <1>5, <1>6, <1>7, <1>8

LEMMA CancelStep == ASSUME IInv, Cancel PROVE IInv'
  <1> USE ConstantsAssumption DEF IInv, Cancel
  <1>1. TypeOK'  BY DEF TypeOK
  <1>2. Busy' = Busy  BY DEF Busy, TypeOK
  <1>3. PendingCount'  BY <1>2 DEF PendingCount, TypeOK, ControlInv
  <1>4. Barrier'  BY <1>2 DEF Barrier, TypeOK, ControlInv
  <1>5. ControlInv'  BY <1>2 DEF ControlInv, Barrier, TypeOK
  <1>6. WorkerInv'  BY <1>2 DEF WorkerInv, TypeOK, ControlInv, Barrier
  <1>7. PlacesInv'  BY <1>2 DEF PlacesInv, Pending, TypeOK, ControlInv
  <1>8. CoverInv'  BY <1>2 DEF CoverInv, Phase, TypeOK, ControlInv, PlacesInv, Pending
  <1> QED  BY <1>1, <1>3, <1>4, <1>5, <1>6, <1>7, <1>8

LEMMA JoinStep == ASSUME IInv, Join PROVE IInv'
  <1> USE ConstantsAssumption DEF IInv, Join
  <1>1. TypeOK'  BY DEF TypeOK
  <1>2. Busy' = Busy  BY DEF Busy, TypeOK
  <1>3. PendingCount'  BY <1>2 DEF PendingCount, TypeOK
  <1>4. Barrier'  BY <1>2 DEF Barrier, TypeOK, ControlInv
  <1>5. ControlInv'  BY <1>2 DEF ControlInv, Barrier, TypeOK
  <1>6. WorkerInv'  BY <1>2 DEF WorkerInv, TypeOK, ControlInv, Barrier
  <1>7. PlacesInv'  BY <1>2 DEF PlacesInv, Pending, TypeOK, ControlInv
  <1>8. CoverInv'  BY <1>2 DEF CoverInv, Phase, TypeOK, ControlInv, PlacesInv, Pending
  <1> QED  BY <1>1, <1>3, <1>4, <1>5, <1>6, <1>7, <1>8

LEMMA SleepStep == ASSUME IInv, NEW w \in Workers, Sleep(w) PROVE IInv'
  <1> USE ConstantsAssumption DEF IInv, Sleep, Goto
  <1>1. TypeOK'  BY DEF TypeOK
  <1>2. Busy' = Busy  BY DEF Busy, TypeOK
  <1>3. PendingCount'  BY <1>2 DEF PendingCount, TypeOK
  <1>4. Barrier'  BY <1>2 DEF Barrier, TypeOK, ControlInv
  <1>5. ControlInv'  BY <1>2 DEF ControlInv, Barrier, TypeOK
  <1>6. WorkerInv'  BY <1>2 DEF WorkerInv, TypeOK, ControlInv, Barrier
  <1>7. PlacesInv'  BY <1>2 DEF PlacesInv, Pending, TypeOK, ControlInv
  <1>8. CoverInv'  BY <1>2 DEF CoverInv, Phase, TypeOK, ControlInv, PlacesInv, Pending
  <1> QED  BY <1>1, <1>3, <1>4, <1>5, <1>6, <1>7, <1>8

LEMMA GiveUpStep == ASSUME IInv, NEW w \in Workers, GiveUp(w) PROVE IInv'
  <1> USE ConstantsAssumption DEF IInv, GiveUp, Goto
  <1>1. TypeOK'  BY DEF TypeOK
  <1>2. Busy' = Busy  BY DEF Busy, TypeOK, WorkerInv
  <1>3. PendingCount'  BY <1>2 DEF PendingCount, TypeOK
  <1>4. Barrier'  BY <1>2 DEF Barrier, TypeOK, ControlInv
  <1>5. ControlInv'  BY <1>2 DEF ControlInv, Barrier, TypeOK
  <1>6. WorkerInv'  BY <1>2 DEF WorkerInv, TypeOK, ControlInv, Barrier
  <1>7. PlacesInv'  BY <1>2 DEF PlacesInv, Pending, TypeOK, ControlInv
  <1>8. CoverInv'  BY <1>2 DEF CoverInv, Phase, TypeOK, ControlInv, PlacesInv, Pending
  <1> QED  BY <1>1, <1>3, <1>4, <1>5, <1>6, <1>7, <1>8

LEMMA PopStep == ASSUME IInv, NEW w \in Workers, Pop(w) PROVE IInv'
  <1> USE ConstantsAssumption DEF IInv, Pop, Goto
  <1>1. TypeOK'  BY DEF TypeOK
  <1>2. /\ Busy' = Busy \cup {w} /\ w \notin Busy
       /\ Cardinality(Busy') = Cardinality(Busy) + 1
    <2>1. Head(_queue) \in Maps  BY DEF TypeOK
    <2>2. w \notin Busy  BY DEF Busy, WorkerInv
    <2>3. Busy' = Busy \cup {w}  BY <2>1 DEF Busy, TypeOK
    <2> QED  BY <2>2, <2>3, BusyFinite, FS_AddElement
  <1>3. PendingCount'
    <2>1. Len(_queue') = Len(_queue) - 1 /\ Len(_queue) \in Nat  BY DEF TypeOK
    <2> QED  BY <1>2, <2>1, BusyFinite DEF PendingCount, TypeOK
  <1>4. Barrier'  BY <1>2 DEF Barrier, TypeOK, ControlInv
  <1>5. ControlInv'  BY <1>2 DEF ControlInv, Barrier, TypeOK
  <1>6. WorkerInv'  BY <1>2 DEF WorkerInv, TypeOK, ControlInv, Barrier
  <1>7. PlacesInv'
    <2>1. /\ Len(_queue') = Len(_queue) - 1 /\ Len(_queue) \in Nat /\ Len(_queue) > 0
          /\ \A i \in 1..Len(_queue') : _queue'[i] = _queue[i + 1]
          /\ Head(_queue) = _queue[1]
      BY DEF TypeOK
    <2>2. \A i \in 1..Len(_queue') : i + 1 \in 1..Len(_queue) /\ i + 1 # 1
      BY <2>1
    <2>3. 1 \in 1..Len(_queue)  BY <2>1
    <2>4. \A m : Pending(m)' <=> Pending(m)  BY DEF Pending
    <2>5. \A i \in 1..Len(_queue') :
            /\ Pending(_queue'[i]) /\ _queue'[i] \notin todo /\ _queue'[i] # current
            /\ _queue'[i] # _queue[1]
            /\ \A v \in Busy : _queue'[i] # request[v]
      BY <2>1, <2>2, <2>3 DEF PlacesInv
    <2>6. \A i, j \in 1..Len(_queue') : _queue'[i] = _queue'[j] => i = j
      <3> SUFFICES ASSUME NEW i \in 1..Len(_queue'), NEW j \in 1..Len(_queue'),
                          _queue'[i] = _queue'[j]
                   PROVE  i = j
        OBVIOUS
      <3>1. i + 1 = j + 1  BY <2>1, <2>2 DEF PlacesInv
      <3> QED  BY <3>1, <2>1
    <2>7. /\ request'[w] = _queue[1] /\ wpc'[w] = "got"
          /\ \A v \in Busy : request'[v] = request[v] /\ wpc'[v] = wpc[v]
      BY <1>2, <2>1 DEF TypeOK, Busy
    <2>8. /\ Pending(_queue[1]) /\ _queue[1] \notin todo /\ _queue[1] # current
          /\ \A v \in Busy : request[v] # _queue[1]
      BY <2>3 DEF PlacesInv
    <2>9. \A v \in Busy' :
            /\ request'[v] \in i_maps \ skipped
            /\ request'[v] \notin todo /\ request'[v] # current
            /\ wpc'[v] = "finishing" => updates[request'[v]] = 1
            /\ wpc'[v] # "finishing" => updates[request'[v]] = 0
            /\ \A i \in 1..Len(_queue') : _queue'[i] # request'[v]
      BY <1>2, <2>5, <2>7, <2>8 DEF PlacesInv, Pending
    <2>10. \A v, u \in Busy' : request'[u] = request'[v] => u = v
      BY <1>2, <2>7, <2>8 DEF PlacesInv
    <2>11. /\ \A m \in todo : Pending(m)
           /\ pc = "push" => Pending(current) /\ current \notin todo
      BY DEF PlacesInv
    <2> QED  BY <2>4, <2>5, <2>6, <2>9, <2>10, <2>11 DEF PlacesInv
  <1>8. CoverInv'
    <2>1. /\ Len(_queue') = Len(_queue) - 1 /\ Len(_queue) \in Nat /\ Len(_queue) > 0
          /\ \A i \in 1..Len(_queue') : _queue'[i] = _queue[i + 1]
          /\ Head(_queue) = _queue[1]
      BY DEF TypeOK
    <2>2. \A i \in 1..Len(_queue) : i = 1 \/ (i - 1 \in 1..Len(_queue') /\ (i - 1) + 1 = i)
      BY <2>1
    <2>3. request'[w] = _queue[1] /\ \A v \in Busy : request'[v] = request[v]
      BY <1>2, <2>1 DEF TypeOK, Busy
    <2>4. \A m : (\E i \in 1..Len(_queue) : _queue[i] = m) =>
                (\E i \in 1..Len(_queue') : _queue'[i] = m) \/ request'[w] = m
      BY <2>1, <2>2, <2>3
    <2>5. \A m : (\E v \in Busy : request[v] = m) => (\E v \in Busy' : request'[v] = m)
      BY <1>2, <2>3
    <2>6. Phase' = Phase  BY DEF Phase
    <2> QED  BY <1>2, <2>4, <2>5, <2>6 DEF CoverInv
  <1> QED  BY <1>1, <1>3, <1>4, <1>5, <1>6, <1>7, <1>8

LEMMA SpuriousWakeupStep == ASSUME IInv, NEW w \in Workers, SpuriousWakeup(w) PROVE IInv'
  <1> USE ConstantsAssumption DEF IInv, SpuriousWakeup, Goto
  <1>1. TypeOK'  BY DEF TypeOK
  <1>2. Busy' = Busy  BY DEF Busy, TypeOK
  <1>3. PendingCount'  BY <1>2 DEF PendingCount, TypeOK
  <1>4. Barrier'  BY <1>2 DEF Barrier, TypeOK, ControlInv
  <1>5. ControlInv'  BY <1>2 DEF ControlInv, Barrier, TypeOK
  <1>6. WorkerInv'  BY <1>2 DEF WorkerInv, TypeOK, ControlInv, Barrier
  <1>7. PlacesInv'  BY <1>2 DEF PlacesInv, Pending, TypeOK, ControlInv
  <1>8. CoverInv'  BY <1>2 DEF CoverInv, Phase, TypeOK, ControlInv, PlacesInv, Pending
  <1> QED  BY <1>1, <1>3, <1>4, <1>5, <1>6, <1>7, <1>8

LEMMA CheckTokenStep == ASSUME IInv, NEW w \in Workers, CheckToken(w) PROVE IInv'
  <1> USE ConstantsAssumption DEF IInv, CheckToken, Goto
  <1>1. TypeOK'  BY DEF TypeOK
  <1>2. Busy' = Busy  BY DEF Busy, TypeOK
  <1>3. PendingCount'  BY <1>2 DEF PendingCount, TypeOK
  <1>4. Barrier'  BY <1>2 DEF Barrier, TypeOK, ControlInv
  <1>5. ControlInv'  BY <1>2 DEF ControlInv, Barrier, TypeOK
  <1>6. WorkerInv'  BY <1>2 DEF WorkerInv, TypeOK, ControlInv, Busy
  <1>7. PlacesInv'  BY <1>2 DEF PlacesInv, Pending, TypeOK, ControlInv
  <1>8. CoverInv'  BY <1>2 DEF CoverInv, Phase, TypeOK, ControlInv, PlacesInv, Pending
  <1> QED  BY <1>1, <1>3, <1>4, <1>5, <1>6, <1>7, <1>8

LEMMA UpdateMapStep == ASSUME IInv, NEW w \in Workers, UpdateMap(w) PROVE IInv'
  <1> USE ConstantsAssumption DEF IInv, UpdateMap, Goto
  <1>1. TypeOK'
    <2>1. request[w] \in Maps  BY DEF TypeOK, WorkerInv
    <2>2. updates' \in [Maps -> Nat]  BY <2>1 DEF TypeOK
    <2> QED  BY <2>2 DEF TypeOK
  <1>2. Busy' = Busy  BY DEF Busy, TypeOK
  <1>3. PendingCount'  BY <1>2 DEF PendingCount, TypeOK
  <1>4. Barrier'  BY <1>2 DEF Barrier, TypeOK, ControlInv
  <1>5. ControlInv'  BY <1>2 DEF ControlInv, Barrier, TypeOK
  <1>6. WorkerInv'  BY <1>2 DEF WorkerInv, TypeOK, ControlInv, Barrier
  <1>7. PlacesInv'
    <2>1. w \in Busy /\ request[w] \in Maps /\ updates[request[w]] = 0
      BY DEF Busy, TypeOK, WorkerInv, PlacesInv
    <2>2. /\ updates'[request[w]] = 1
          /\ \A m \in Maps : m # request[w] => updates'[m] = updates[m]
      BY <2>1 DEF TypeOK
    <2>3. \A m : Pending(m) /\ m # request[w] => Pending(m)'
      BY <2>2 DEF Pending, TypeOK
    <2>4. /\ \A m \in todo : Pending(m)'
          /\ pc = "push" => Pending(current)' /\ current \notin todo
          /\ \A i \in 1..Len(_queue) : Pending(_queue[i])'
      BY <2>1, <2>3 DEF PlacesInv
    <2>5. \A v \in Busy :
            /\ wpc'[v] = "finishing" => updates'[request[v]] = 1
            /\ wpc'[v] # "finishing" => updates'[request[v]] = 0
      BY <2>1, <2>2 DEF PlacesInv, TypeOK, Busy
    <2> QED  BY <1>2, <2>4, <2>5 DEF PlacesInv, Pending
  <1>8. CoverInv'
    <2>1. \A m \in Maps : updates[m] = 1 => updates'[m] = 1
      BY DEF TypeOK, PlacesInv, Busy, WorkerInv
    <2>2. Phase' = Phase /\ i_maps \subseteq Maps  BY DEF Phase, TypeOK
    <2> QED  BY <1>2, <2>1, <2>2 DEF CoverInv
  <1> QED  BY <1>1, <1>3, <1>4, <1>5, <1>6, <1>7, <1>8

LEMMA UpdateFinishedStep == ASSUME IInv, NEW w \in Workers, UpdateFinished(w) PROVE IInv'
  <1> USE ConstantsAssumption DEF IInv, UpdateFinished, Goto
  <1>1. TypeOK'
    <2>1. w \in Busy  BY DEF Busy, WorkerInv
    <2>2. Cardinality(Busy) # 0  BY <2>1, BusyFinite, FS_EmptySet
    <2>3. pending_requests' \in Nat
      BY <2>2, BusyFinite, LenProperties DEF TypeOK, PendingCount
    <2> QED  BY <2>3 DEF TypeOK
  <1>2. /\ Busy' = Busy \ {w} /\ w \in Busy
       /\ Cardinality(Busy') = Cardinality(Busy) - 1 /\ Cardinality(Busy) > 0
    <2>1. w \in Busy  BY DEF Busy, WorkerInv
    <2>2. Busy' = Busy \ {w}  BY DEF Busy, TypeOK
    <2>3. Cardinality(Busy') = Cardinality(Busy) - 1
      BY <2>1, <2>2, BusyFinite, FS_RemoveElement
    <2>4. Cardinality(Busy) # 0  BY <2>1, BusyFinite, FS_EmptySet
    <2> QED  BY <2>1, <2>2, <2>3, <2>4, BusyFinite
  <1>3. PendingCount'
    <2>1. Len(_queue) \in Nat  BY DEF TypeOK
    <2>2. pc' = "push" <=> pc = "push"  OBVIOUS
    <2> QED  BY <1>2, <2>1, <2>2, BusyFinite DEF PendingCount, TypeOK
  <1>4. Barrier'  BY <1>2 DEF Barrier, TypeOK, ControlInv
  <1>5. ControlInv'  BY <1>2 DEF ControlInv, Barrier, TypeOK
  <1>6. WorkerInv'  BY <1>2 DEF WorkerInv, TypeOK, ControlInv, Barrier
  <1>7. PlacesInv'
    <2>1. \A v \in Busy' : v \in Busy /\ request'[v] = request[v] /\ wpc'[v] = wpc[v]
      BY <1>2 DEF TypeOK, Busy
    <2>2. \A m : Pending(m)' <=> Pending(m)  BY DEF Pending
    <2>3. pc' # "push"  OBVIOUS
    <2> QED  BY <2>1, <2>2, <2>3 DEF PlacesInv
  <1>8. CoverInv'
    <2>1. updates[request[w]] = 1  BY <1>2 DEF PlacesInv
    <2>2. \A v \in Busy : v = w \/ (v \in Busy' /\ request'[v] = request[v])
      BY <1>2 DEF TypeOK, Busy
    <2>3. Phase' = Phase  BY DEF Phase
    <2>4. \A m : (\E v \in Busy : request[v] = m) =>
                updates[m] = 1 \/ (\E v \in Busy' : request'[v] = m)
      BY <2>1, <2>2
    <2> QED  BY <2>3, <2>4 DEF CoverInv
  <1> QED  BY <1>1, <1>3, <1>4, <1>5, <1>6, <1>7, <1>8

\* Every step preserves the invariant.
LEMMA NextInv == IInv /\ [Next]_vars => IInv'
  <1> SUFFICES ASSUME IInv, [Next]_vars PROVE IInv'  OBVIOUS
  <1>1. CASE WorldStep
    BY <1>1, DestroyMapStep, KeepMapStep, CountRequestStep, PushStep, EndSweepStep,
       WaitStep, DelayedUpdateStep, DeactivateStep, CancelStep, JoinStep
       DEF WorldStep, Sweep
  <1>2. CASE Environment
    BY <1>2, CreateMapStep, BeginUpdateStep, UnloadAllStep, SpuriousWorldWakeupStep,
       SpuriousWakeupStep DEF Environment
  <1>3. ASSUME NEW w \in Workers, WorkerStep(w) PROVE IInv'
    BY <1>3, SleepStep, GiveUpStep, PopStep, CheckTokenStep, UpdateMapStep,
       UpdateFinishedStep DEF WorkerStep
  <1>4. CASE UNCHANGED vars
    BY <1>4 DEF vars, IInv, TypeOK, PendingCount, Barrier, ControlInv, WorkerInv,
                PlacesInv, CoverInv, Busy, Pending, Phase
  <1> QED  BY <1>1, <1>2, <1>3, <1>4 DEF Next, Stopped

(* The inductive invariant holds in every reachable state: of it, readers   *)
(* will want the conjuncts below, and PlacesInv.                            *)
THEOREM Invariance == Spec => []IInv
  BY InitInv, NextInv, PTL DEF Spec

(* Type correctness for any number of maps and workers.                     *)
THEOREM TypeCorrect == Spec => []TypeOK
  <1>1. IInv => TypeOK  BY DEF IInv
  <1> QED  BY <1>1, Invariance, PTL

(* pending_requests is always the number of unfinished requests.            *)
THEOREM PendingCounted == Spec => []PendingCount
  <1>1. IInv => PendingCount  BY DEF IInv
  <1> QED  BY <1>1, Invariance, PTL

(* MapUpdater::wait is a barrier: outside a tick's map phase no request is  *)
(* queued and no worker holds one.                                          *)
THEOREM BarrierHolds == Spec => []Barrier
  <1>1. IInv => Barrier  BY DEF IInv
  <1> QED  BY <1>1, Invariance, PTL

(* Two workers never update one map, and none updates a destroyed map.      *)
THEOREM WorkersDisjoint == Spec => []OneWorkerPerMap
  <1>1. IInv => OneWorkerPerMap  BY DEF IInv, PlacesInv, OneWorkerPerMap
  <1> QED  BY <1>1, Invariance, PTL

(* A worker woken by Cancel exits before it would use its null request.     *)
THEOREM NoNullCalled == Spec => []NoNullCall
  <1>1. IInv => NoNullCall  BY DEF IInv, WorkerInv, NoNullCall
  <1> QED  BY <1>1, Invariance, PTL

\* The initial states are initial states of the abstract tick.
LEMMA TickInit == Init => Tick!Init
  BY DEF Init, Tick!Init, Phase

\* Every step is a step of the abstract tick or leaves it unchanged.
LEMMA TickNext == IInv /\ [Next]_vars => [Tick!Next]_(Tick!vars)
  <1> SUFFICES ASSUME IInv, [Next]_vars PROVE [Tick!Next]_(Tick!vars)  OBVIOUS
  <1> USE ConstantsAssumption DEF IInv, Tick!vars
  <1>1. ASSUME NEW m \in Maps, CreateMap(m) PROVE Tick!Create(m)
    BY <1>1 DEF CreateMap, Tick!Create, Phase
  <1>2. CASE BeginUpdate
    <2>1. Tick!BeginMaps  BY <1>2 DEF BeginUpdate, Tick!BeginMaps, Phase
    <2> QED  BY <2>1 DEF Tick!Next
  <1>3. ASSUME NEW m \in Maps, DestroyMap(m) PROVE Tick!Unload(m)
    BY <1>3 DEF DestroyMap, Tick!Unload, Tick!Untouched, Phase, PlacesInv, Pending
  <1>4. ASSUME NEW m \in Maps, KeepMap(m) PROVE Tick!Skip(m)
    BY <1>4 DEF KeepMap, Tick!Skip, Tick!Untouched, Phase, PlacesInv, Pending
  <1>5. ASSUME NEW m \in Maps, CountRequest(m) PROVE UNCHANGED Tick!vars
    BY <1>5 DEF CountRequest, Phase
  <1>6. CASE Push \/ EndSweep \/ SpuriousWorldWakeup \/ Deactivate \/ Cancel \/ Join
    BY <1>6 DEF Push, EndSweep, SpuriousWorldWakeup, Deactivate, Cancel, Join, Phase, ControlInv
  <1>7. CASE Wait
    <2>1. CASE pending_requests > 0 \/ _cancelationToken
      BY <1>7, <2>1 DEF Wait, Phase
    <2>2. CASE ~(pending_requests > 0) /\ ~_cancelationToken
      <3>1. pc' = "delayed" /\ Barrier'  BY <1>7, <2>2, WaitStep DEF Wait
      <3>2. _queue = <<>> /\ Busy = {}  BY <3>1, <1>7 DEF Barrier, Wait, Busy
      <3>3. \A m \in i_maps \ skipped : updates[m] = 1
        BY <1>7, <2>2, <3>2 DEF Wait, CoverInv, ControlInv, Phase, TypeOK
      <3>4. Tick!EndMaps  BY <1>7, <2>2, <3>1, <3>3 DEF Wait, Tick!EndMaps, Tick!Untouched, Phase
      <3> QED  BY <3>4 DEF Tick!Next
    <2> QED  BY <2>1, <2>2
  <1>8. CASE DelayedUpdate
    <2>1. Tick!EndTick  BY <1>8 DEF DelayedUpdate, Tick!EndTick, Phase
    <2> QED  BY <2>1 DEF Tick!Next
  <1>9. CASE UnloadAll
    <2>1. Tick!Stop  BY <1>9 DEF UnloadAll, Tick!Stop, Phase
    <2> QED  BY <2>1 DEF Tick!Next
  <1>10. ASSUME NEW w \in Workers, UpdateMap(w)
         PROVE  Tick!Update(request[w]) /\ request[w] \in Maps
    <2>1. w \in Busy /\ request[w] \in Maps
      BY <1>10 DEF UpdateMap, Busy, WorkerInv, TypeOK
    <2>2. Phase = "maps"
      BY <2>1 DEF Barrier, ControlInv, Phase, TypeOK
    <2>3. Tick!Untouched(request[w])
      BY <1>10, <2>1 DEF UpdateMap, PlacesInv, Tick!Untouched
    <2>4. updates[request[w]] + 1 = 1  BY <2>3 DEF Tick!Untouched
    <2>5. updates' = [updates EXCEPT ![request[w]] = 1]  BY <1>10, <2>4 DEF UpdateMap
    <2>6. Phase' = Phase /\ UNCHANGED <<i_maps, skipped>>  BY <1>10 DEF UpdateMap, Phase
    <2> QED  BY <2>1, <2>2, <2>3, <2>5, <2>6 DEF Tick!Update
  <1>11. ASSUME NEW w \in Workers,
                Sleep(w) \/ GiveUp(w) \/ Pop(w) \/ CheckToken(w) \/ SpuriousWakeup(w)
         PROVE  UNCHANGED Tick!vars
    BY <1>11 DEF Sleep, GiveUp, Pop, CheckToken, SpuriousWakeup, Phase
  <1>12. ASSUME NEW w \in Workers, UpdateFinished(w) PROVE UNCHANGED Tick!vars
    BY <1>12 DEF UpdateFinished, Phase
  <1>13. CASE UNCHANGED vars  BY <1>13 DEF vars, Phase
  <1> QED
    BY <1>1, <1>2, <1>3, <1>4, <1>5, <1>6, <1>7, <1>8, <1>9, <1>10, <1>11, <1>12, <1>13
       DEF Next, WorldStep, Sweep, Environment, Stopped, WorkerStep, Tick!Next

(* The threads, the queue and the condition variables implement the tick.   *)
THEOREM TickImplemented == Spec => ImplementsTick
  <1>1. Spec => Tick!Init /\ [][Tick!Next]_(Tick!vars)
    BY TickInit, TickNext, Invariance, PTL DEF Spec
  <1> QED  BY <1>1 DEF ImplementsTick, Tick!Spec
=============================================================================
