---------------------- MODULE SessionQueueLimitProofs ----------------------
(***************************************************************************)
(* Proofs about the limit of SessionQueue.  As long as the limit is what   *)
(* it was at startup (FixedLimit), no place is left free while somebody    *)
(* waits, no more ordinary players are inside than the limit, and          *)
(* SessionQueue implements Admission; whatever it is changed to, a player  *)
(* is let in only into a free place.                                       *)
(***************************************************************************)
EXTENDS SessionQueueProofs

FixedLimit == Limits = {PlayerLimit}

\* With n sessions registered, a queue is there only when no place is free.
NoIdle(queue, n) ==
    queue # <<>> => m_playerLimit > 0 /\ n - Len(queue) >= m_playerLimit

\* A route is recorded when a session is initialised, not before.
RouteInv == \A t \in Sessions : ses[t].init = "none" => ses[t].route = "none"

LInv == IInv /\ RouteInv /\ NoIdlePlace /\ WithinLimit

-----------------------------------------------------------------------------
USE DEF lobby, thread

LEMMA LengthZero ==
    ASSUME NEW q \in Seq(Sessions)
    PROVE  Len(q) \in Nat /\ (q = <<>> <=> Len(q) = 0)
  OBVIOUS

LEMMA RegisteredCount == IsFiniteSet(Registered) /\ Cardinality(Registered) \in Nat
<1>1. Registered \subseteq Accounts
  BY DEF Registered
<1> QED BY <1>1, FS_Subset, FS_CardinalityType, ConstantsAssumption

LEMMA NoIdlePlaceIs == NoIdlePlace <=> NoIdle(m_QueuedPlayer, Cardinality(Registered))
  BY DEF NoIdlePlace, NoIdle, Active

\* What leaving the queue does to its length, and to what a session records.
LEMMA DequeueEffect ==
    ASSUME NEW w \in Pairs, NEW s \in Sessions
    PROVE  /\ Len(Dequeue(w, s).queue) =
                IF Contains(w.queue, s) THEN Len(w.queue) - 1 ELSE Len(w.queue)
           /\ \A t \in Sessions :
                /\ Dequeue(w, s).ses[t].init = w.ses[t].init
                /\ Dequeue(w, s).ses[t].route = w.ses[t].route
<1>1. w.queue \in Seq(Sessions) /\ w.ses \in [Sessions -> SessionRecord]
  BY DEF Pairs
<1>2. CASE ~Contains(w.queue, s)
  BY <1>2 DEF Dequeue
<1>3. CASE Contains(w.queue, s)
  <2> DEFINE ses1 == [w.ses EXCEPT ![s].inQueue = FALSE]
  <2>1. Dequeue(w, s) = [queue |-> RemoveFirst(w.queue, s), ses |-> ses1]
    BY <1>3 DEF Dequeue
  <2>2. PICK k \in 1..Len(w.queue) : RemoveFirst(w.queue, s) = RemoveAt(w.queue, k)
    BY <1>1, <1>3, RemoveFirstIsRemoveAt
  <2>3. Len(RemoveFirst(w.queue, s)) = Len(w.queue) - 1
    BY <1>1, <2>2, RemoveAtProperties
  <2>4. \A t \in Sessions : ses1[t].init = w.ses[t].init /\ ses1[t].route = w.ses[t].route
    BY <1>1 DEF SessionRecord
  <2> HIDE DEF ses1
  <2> QED BY <1>3, <2>1, <2>3, <2>4
<1> QED BY <1>2, <1>3

\* Nobody is let in by v, compared with w.
Unadmitted(w, v) ==
    \A t \in Sessions : v.ses[t].init = w.ses[t].init /\ v.ses[t].route = w.ses[t].route

\* The session h was waiting in w and is let in by v; nobody else is.
Admitted(w, v, h) ==
    /\ Contains(w.queue, h) /\ v.ses[h].init = "pending"
    /\ \A t \in Sessions \ {h} :
         v.ses[t].init = w.ses[t].init /\ v.ses[t].route = w.ses[t].route

(* RemoveQueuedPlayer hands over the place of s if s is inside, to one      *)
(* player at most and only if s frees the last place within the limit; when *)
(* s has gone no place is free while somebody waits.                       *)
LEMMA HandOver ==
    ASSUME NEW w \in Pairs, Distinct(w.queue), NEW n \in Nat, NEW s \in Sessions,
           m_playerLimit \in Nat, NoIdle(w.queue, n)
    PROVE  LET v == RemoveQueuedPlayer(w, n, s)
           IN  /\ NoIdle(v.queue, n - 1)
               /\ \/ Unadmitted(w, v)
                  \/ /\ ~Contains(w.queue, s) /\ n - Len(w.queue) = m_playerLimit
                     /\ \E h \in Sessions : Admitted(w, v, h)
<1> DEFINE d == Dequeue(w, s)
           active == n - Len(w.queue)
           count == IF ~Contains(w.queue, s) /\ active > 0 THEN active - 1 ELSE active
           v == RemoveQueuedPlayer(w, n, s)
<1>1. v = AdmitFirst(d, count)
  BY Zenon DEF RemoveQueuedPlayer
<1>2. w.queue \in Seq(Sessions) /\ Len(w.queue) \in Nat
  BY DEF Pairs
<1>3. /\ d \in Pairs /\ Distinct(d.queue) /\ d.queue \in Seq(Sessions)
      /\ Len(d.queue) = IF Contains(w.queue, s) THEN Len(w.queue) - 1 ELSE Len(w.queue)
      /\ Unadmitted(w, d)
      /\ \A t \in Sessions : Contains(d.queue, t) => Contains(w.queue, t)
  BY DequeueShrinks, DequeueEffect DEF Shrinks, Pairs, Unadmitted
<1> HIDE DEF d, v
<1>4. Len(d.queue) \in Nat /\ (d.queue = <<>> <=> Len(d.queue) = 0)
      /\ (w.queue = <<>> <=> Len(w.queue) = 0)
  BY <1>2, <1>3, LengthZero
<1>5. CASE d.queue = <<>>
  <2>1. v = d
    BY <1>1, <1>5, Zenon DEF AdmitFirst
  <2> QED BY <1>3, <1>5, <2>1 DEF NoIdle, v
<1>6. CASE d.queue # <<>>
  <2>1. /\ w.queue # <<>> /\ m_playerLimit > 0 /\ active >= m_playerLimit
    BY <1>2, <1>3, <1>4, <1>6 DEF NoIdle
  <2>2. CASE count >= m_playerLimit
    <3>1. v = d
      <4>1. ~(m_playerLimit = 0 \/ count < m_playerLimit)
        BY <1>2, <2>1, <2>2
      <4> HIDE DEF count
      <4> QED BY <1>1, <4>1, Zenon DEF AdmitFirst
    <3>2. (n - 1) - Len(d.queue) >= m_playerLimit
      BY <1>2, <1>3, <1>4, <2>1, <2>2
    <3> QED BY <1>3, <2>1, <3>1, <3>2 DEF NoIdle, v
  <2>3. CASE count < m_playerLimit
    <3>1. ~Contains(w.queue, s) /\ active = m_playerLimit
      BY <1>2, <2>1, <2>3
    <3> DEFINE h == Head(d.queue)
               ses1 == [d.ses EXCEPT ![h] = InitializeSession(@, "ordinary")]
    <3>2. v = [queue |-> Tail(d.queue), ses |-> ses1]
      <4> HIDE DEF count, ses1
      <4> QED BY <1>1, <1>6, <2>3, Zenon DEF AdmitFirst, ses1
    <3>3. h \in Sessions /\ Contains(d.queue, h) /\ Len(Tail(d.queue)) = Len(d.queue) - 1
      BY <1>3, <1>6, TailProperties
    <3>4. /\ ses1[h].init = "pending"
          /\ \A t \in Sessions \ {h} : ses1[t] = d.ses[t]
      <4>1. d.ses \in [Sessions -> SessionRecord]
        BY <1>3 DEF Pairs
      <4> QED BY <3>3, <4>1 DEF InitializeSession, SessionRecord
    <3> HIDE DEF h, ses1
    <3>5. Admitted(w, v, h)
      BY <1>3, <3>2, <3>3, <3>4 DEF Admitted, Unadmitted
    <3>6. (n - 1) - Len(v.queue) >= m_playerLimit
      <4>1. Len(d.queue) = Len(w.queue)
        BY <1>3, <3>1
      <4>2. Len(v.queue) = Len(w.queue) - 1
        BY <3>2, <3>3, <4>1
      <4> QED BY <1>2, <3>1, <4>2
    <3> QED BY <2>1, <3>1, <3>3, <3>5, <3>6 DEF NoIdle, v
  <2> QED BY <1>2, <2>2, <2>3
<1> QED BY <1>5, <1>6

\* A second RemoveQueuedPlayer for a session that is still counted as inside
\* finds no place to hand over.
LEMMA NothingToHandOver ==
    ASSUME NEW w \in Pairs, NEW n \in Nat, NEW s \in Sessions, m_playerLimit \in Nat,
           ~Contains(w.queue, s), NoIdle(w.queue, n - 1)
    PROVE  RemoveQueuedPlayer(w, n, s) = w
<1> DEFINE active == n - Len(w.queue)
           count == IF ~Contains(w.queue, s) /\ active > 0 THEN active - 1 ELSE active
<1>1. Dequeue(w, s) = w
  BY DEF Dequeue
<1>2. RemoveQueuedPlayer(w, n, s) = AdmitFirst(Dequeue(w, s), count)
  BY Zenon DEF RemoveQueuedPlayer
<1>3. CASE w.queue = <<>>
  BY <1>1, <1>2, <1>3, Zenon DEF AdmitFirst
<1>4. CASE w.queue # <<>>
  <2>1. Len(w.queue) \in Nat
    BY DEF Pairs
  <2>2. ~(m_playerLimit = 0 \/ count < m_playerLimit)
    BY <1>4, <2>1 DEF NoIdle
  <2> HIDE DEF count
  <2> QED BY <1>1, <1>2, <2>2, Zenon DEF AdmitFirst
<1> QED BY <1>3, <1>4

\* The accounts past the queue, and the accounts in it.
Inside == {a \in Registered : ~Contains(m_QueuedPlayer, m_sessions[a])}
LineOf(q) == [i \in 1..Len(q) |-> ses[q[i]].acct]

\* The queue holds one session of each of the accounts that are not inside.
LEMMA WaitingAccounts ==
    ASSUME IInv, NEW i \in 1..Len(m_QueuedPlayer)
    PROVE  LET b == LineOf(m_QueuedPlayer)[i]
           IN  /\ m_QueuedPlayer[i] \in Sessions /\ b \in Registered /\ b \in Accounts
               /\ m_sessions[b] = m_QueuedPlayer[i]
               /\ Contains(m_QueuedPlayer, m_QueuedPlayer[i])
<1>1. m_QueuedPlayer[i] \in Sessions /\ Contains(m_QueuedPlayer, m_QueuedPlayer[i])
  BY DEF Contains, IInv, TypeOK
<1>2. Waiting(m_QueuedPlayer[i])
  BY <1>1 DEF IInv, Tables
<1>3. ses[m_QueuedPlayer[i]].acct \in Accounts
  BY <1>1, <1>2 DEF Waiting, Live, IInv, TypeOK, SessionRecord
<1> QED BY <1>1, <1>2, <1>3, ConstantsAssumption DEF Waiting, Registered, LineOf

LEMMA InsideSize ==
    ASSUME IInv
    PROVE  /\ Inside \subseteq Registered /\ IsFiniteSet(Inside)
           /\ Cardinality(Inside) = Cardinality(Registered) - Len(m_QueuedPlayer)
<1> DEFINE q == m_QueuedPlayer
           f == LineOf(q)
           Q == {f[i] : i \in 1..Len(q)}
<1>1. q \in Seq(Sessions) /\ Len(q) \in Nat
  BY DEF IInv, TypeOK
<1>2. \A i \in 1..Len(q) : /\ f[i] \in Registered /\ m_sessions[f[i]] = q[i]
                          /\ Contains(q, q[i])
  BY WaitingAccounts
<1>3. f \in Bijection(1..Len(q), Q)
  <2>1. \A i, j \in 1..Len(q) : f[i] = f[j] => i = j
    <3> HIDE DEF f
    <3> QED BY <1>2 DEF IInv, Tables, Distinct
  <2>2. DOMAIN f = 1..Len(q) /\ f = [i \in 1..Len(q) |-> f[i]]
    BY DEF LineOf
  <2> HIDE DEF f
  <2> QED BY <2>1, <2>2 DEF Bijection, Injection, Surjection, IsInjective
<1>4. Cardinality(Q) = Len(q)
  <2>1. ExistsBijection(1..Len(q), Q)
    BY <1>3 DEF ExistsBijection
  <2>2. IsFiniteSet(1..Len(q)) /\ Cardinality(1..Len(q)) = Len(q)
    BY <1>1, FS_Interval
  <2> QED BY <2>1, <2>2, FS_Bijection
<1>5. Q \subseteq Registered /\ Inside = Registered \ Q
  <2>1. \A b \in Registered : Contains(q, m_sessions[b]) => b \in Q
    <3> SUFFICES ASSUME NEW b \in Registered, NEW i \in 1..Len(q), q[i] = m_sessions[b]
                 PROVE  b = f[i]
      BY DEF Contains
    <3> HIDE DEF f
    <3> QED BY <1>2 DEF IInv, Tables
  <2> HIDE DEF f
  <2> QED BY <1>2, <2>1 DEF Inside
<1> HIDE DEF Q, f
<1>6. /\ IsFiniteSet(Registered \ Q)
      /\ Cardinality(Registered \ Q) = Cardinality(Registered) - Cardinality(Q)
  <2>1. Registered \cap Q = Q
    BY <1>5
  <2> QED BY <2>1, RegisteredCount, FS_Difference
<1> QED BY <1>4, <1>5, <1>6

(* Accounts whose sessions do not wait are at most as many as the sessions  *)
(* past the queue.                                                         *)
LEMMA InsideCount ==
    ASSUME IInv, NEW X \in SUBSET Registered,
           \A a \in X : ~Contains(m_QueuedPlayer, m_sessions[a])
    PROVE  /\ IsFiniteSet(X)
           /\ Cardinality(X) <= Cardinality(Registered) - Len(m_QueuedPlayer)
<1>1. X \subseteq Inside
  BY DEF Inside
<1> QED BY <1>1, InsideSize, FS_Subset

-----------------------------------------------------------------------------
LEMMA LInitInv == ASSUME FixedLimit, Init PROVE LInv
<1>1. IInv
  BY InitInv
<1>2. RouteInv
  BY DEF Init, RouteInv, Free, Fresh
<1>3. NoIdlePlace
  BY DEF Init, NoIdlePlace
<1>4. WithinLimit
  <2>1. Ordinary = {}
    BY DEF Init, Ordinary, Registered
  <2> QED BY <2>1, FS_EmptySet, ConstantsAssumption DEF WithinLimit, Init
<1> QED BY <1>1, <1>2, <1>3, <1>4 DEF LInv

(* A step that leaves the session map and the limit alone, empties the      *)
(* login queue at most, and lets nobody in.                                *)
LEMMA LSessionsStep ==
    ASSUME LInv, IInv', UNCHANGED <<m_sessions, m_playerLimit>>,
           m_QueuedPlayer' \in {m_QueuedPlayer, <<>>},
           \A a \in Registered : ses'[m_sessions[a]].route = ses[m_sessions[a]].route,
           RouteInv'
    PROVE  LInv'
<1>1. Registered' = Registered
  BY DEF Registered
<1>2. NoIdlePlace'
  BY <1>1 DEF NoIdlePlace, Active, LInv
<1>3. Ordinary' = Ordinary
  BY <1>1 DEF Ordinary
<1>4. WithinLimit'
  BY <1>3 DEF WithinLimit, LInv
<1> QED BY <1>2, <1>4 DEF LInv

LEMMA LSessionsStepRoutes ==
    ASSUME LInv, IInv', UNCHANGED <<m_sessions, m_playerLimit>>,
           m_QueuedPlayer' \in {m_QueuedPlayer, <<>>},
           \A t \in Sessions :
             ses'[t].route = ses[t].route /\ (ses'[t].init = "none" => ses[t].init = "none")
    PROVE  LInv'
<1>1. RouteInv'
  BY DEF RouteInv, LInv
<1>2. \A a \in Registered : m_sessions[a] \in Sessions
  BY DEF Registered, LInv, IInv, TypeOK
<1> QED BY <1>1, <1>2, LSessionsStep

\* A session object that is not registered is made or freed.
LEMMA LUnregisteredStep ==
    ASSUME LInv, IInv', UNCHANGED <<m_sessions, m_playerLimit, m_QueuedPlayer>>,
           NEW s \in Sessions, \A a \in Registered : m_sessions[a] # s,
           NEW a \in Accounts \cup {NoAccount}, ses' = [ses EXCEPT ![s] = Fresh(a)]
    PROVE  LInv'
<1>1. /\ ses'[s] = Fresh(a)
      /\ \A t \in Sessions : t # s => ses'[t] = ses[t]
  BY DEF LInv, IInv, TypeOK
<1>2. RouteInv'
  BY <1>1 DEF RouteInv, LInv, Fresh
<1>3. \A b \in Registered : m_sessions[b] \in Sessions
  BY DEF Registered, LInv, IInv, TypeOK
<1> QED BY <1>1, <1>2, <1>3, LSessionsStep

LEMMA LNetworkStep == ASSUME LInv, IInv', Network PROVE LInv'
<1>1. ASSUME NEW s \in Sessions, NEW a \in Accounts, Connect(a, s)
      PROVE  LInv'
  <2>1. \A b \in Registered : m_sessions[b] # s
    BY <1>1, ConstantsAssumption DEF Connect, Live, LInv, IInv, Tables, Registered
  <2> QED BY <1>1, <2>1, LUnregisteredStep DEF Connect
<1>2. ASSUME NEW s \in Sessions, Disconnect(s)
      PROVE  LInv'
  <2>1. \A t \in Sessions : ses'[t].route = ses[t].route /\ ses'[t].init = ses[t].init
    BY <1>2 DEF Disconnect, LInv, IInv, TypeOK, SessionRecord
  <2> QED BY <1>2, <2>1, LSessionsStepRoutes DEF Disconnect
<1>3. ASSUME NEW s \in Sessions, QueriesAnswered(s)
      PROVE  LInv'
  <2>1. \A t \in Sessions :
          ses'[t].route = ses[t].route /\ (ses'[t].init = "none" => ses[t].init = "none")
    BY <1>3 DEF QueriesAnswered, LInv, IInv, TypeOK, SessionRecord
  <2> QED BY <1>3, <2>1, LSessionsStepRoutes DEF QueriesAnswered
<1>4. ASSUME NEW s \in Sessions, AbortLogin(s)
      PROVE  LInv'
  <2> DEFINE r == IF ses[s].player = "loading" THEN [ses[s] EXCEPT !.player = "none"]
                  ELSE [ses[s] EXCEPT !.conn = "lost"]
  <2>1. ses[s] \in SessionRecord
    BY DEF LInv, IInv, TypeOK
  <2>2. r.route = ses[s].route /\ r.init = ses[s].init
    BY <2>1, KickedIsSession DEF SessionRecord
  <2>3. ses' = [ses EXCEPT ![s] = r]
    BY <1>4 DEF AbortLogin
  <2> HIDE DEF r
  <2>4. \A t \in Sessions : ses'[t].route = ses[t].route /\ ses'[t].init = ses[t].init
    BY <2>2, <2>3 DEF LInv, IInv, TypeOK
  <2> QED BY <1>4, <2>4, LSessionsStepRoutes DEF AbortLogin
<1>5. ASSUME NEW s, EnterEncryptedModeAckAgain(s)
      PROVE  LInv'
  BY <1>5, LSessionsStepRoutes DEF EnterEncryptedModeAckAgain
<1> QED BY <1>1, <1>2, <1>3, <1>4, <1>5 DEF Network

LEMMA LConsoleStep == ASSUME FixedLimit, LInv, IInv', Console PROVE LInv'
<1>1. \A t \in Sessions : ses[t] \in SessionRecord
  BY DEF LInv, IInv, TypeOK
<1>2. CASE KickAllLess
  <2>1. \A t \in Sessions : ses'[t].route = ses[t].route /\ ses'[t].init = ses[t].init
    BY <1>1, <1>2, KickedIsSession DEF KickAllLess
  <2> QED BY <1>2, <2>1, LSessionsStepRoutes DEF KickAllLess
<1>3. CASE KickAll
  <2>1. \A t \in Sessions : ses'[t].route = ses[t].route /\ ses'[t].init = ses[t].init
    BY <1>1, <1>3, KickedIsSession DEF KickAll
  <2> QED BY <1>3, <2>1, LSessionsStepRoutes DEF KickAll
<1>4. ASSUME NEW limit \in Limits
      PROVE  ~SetPlayerAmountLimit(limit)
  BY DEF SetPlayerAmountLimit, FixedLimit, LInv, IInv, TypeOK
<1> QED BY <1>2, <1>3, <1>4 DEF Console

LEMMA LThreadStep ==
    ASSUME LInv, IInv', UNCHANGED <<m_sessions, m_QueuedPlayer, ses, m_playerLimit>>
    PROVE  LInv'
  BY LSessionsStepRoutes

LEMMA LRejectSessionStep ==
    ASSUME LInv, IInv', AddSession, RejectSession(Head(addSessQueue)) PROVE LInv'
<1> DEFINE s == Head(addSessQueue)
<1>1. s \in Sessions /\ \A a \in Registered : m_sessions[a] # s
  BY HeadHandedOver DEF AddSession, LInv
<1>2. ses' = [ses EXCEPT ![s] = Fresh(NoAccount)]
      /\ UNCHANGED <<m_sessions, m_playerLimit, m_QueuedPlayer>>
  BY DEF RejectSession, AddSession, Free
<1> HIDE DEF s
<1> QED BY <1>1, <1>2, LUnregisteredStep

-----------------------------------------------------------------------------
\* Nobody counts as ordinary while waiting.
LEMMA OrdinaryInside ==
    ASSUME LInv
    PROVE  /\ Ordinary \subseteq Registered /\ IsFiniteSet(Ordinary)
           /\ \A a \in Ordinary : ~Contains(m_QueuedPlayer, m_sessions[a])
<1>1. Ordinary \subseteq Registered
  BY DEF Ordinary
<1>2. ASSUME NEW a \in Ordinary
      PROVE  ~Contains(m_QueuedPlayer, m_sessions[a])
  <2>1. m_sessions[a] \in Sessions /\ ses[m_sessions[a]].route = "ordinary"
    BY DEF Ordinary, Registered, LInv, IInv, TypeOK
  <2> QED BY <2>1 DEF LInv, IInv, Tables, Waiting, RouteInv
<1> QED BY <1>1, <1>2, RegisteredCount, FS_Subset

(* Where the last place within the limit is handed over, from account a to  *)
(* account h, no more ordinary players are inside than before.             *)
LEMMA PlaceChangesHands ==
    ASSUME LInv, NEW a \in Registered, ~Contains(m_QueuedPlayer, m_sessions[a]),
           Cardinality(Registered) - Len(m_QueuedPlayer) = m_playerLimit,
           NEW h, NEW Y \in SUBSET ((Ordinary \ {a}) \cup {h})
    PROVE  Cardinality(Y) <= m_playerLimit
<1> DEFINE X == Ordinary \cup {a}
           Z == Ordinary \ {a}
<1>1. IsFiniteSet(X) /\ Cardinality(X) <= m_playerLimit
  BY OrdinaryInside, InsideCount DEF LInv
<1>2. X \ {a} = Z /\ a \in X
  OBVIOUS
<1>3. IsFiniteSet(Z) /\ Cardinality(Z) = Cardinality(X) - 1
  BY <1>1, <1>2, FS_RemoveElement
<1>4. IsFiniteSet(Z \cup {h}) /\ Cardinality(Z \cup {h}) <= Cardinality(Z) + 1
  <2> HIDE DEF Z
  <2>1. Cardinality(Z) \in Nat
    BY <1>3, FS_CardinalityType
  <2>2. /\ IsFiniteSet(Z \cup {h})
        /\ Cardinality(Z \cup {h}) = IF h \in Z THEN Cardinality(Z) ELSE Cardinality(Z) + 1
    BY <1>3, FS_AddElement
  <2> QED BY <2>1, <2>2
<1>5. Cardinality(Y) <= Cardinality(Z \cup {h})
  BY <1>4, FS_Subset
<1>6. Cardinality(X) \in Nat /\ Cardinality(Z) \in Nat /\ Cardinality(Z \cup {h}) \in Nat
  BY <1>1, <1>3, <1>4, FS_CardinalityType
<1>7. Cardinality(Y) \in Nat /\ m_playerLimit \in Nat
  BY <1>4, FS_Subset, FS_CardinalityType, ConstantsAssumption DEF LInv, IInv, TypeOK
<1> QED BY <1>1, <1>3, <1>4, <1>5, <1>6, <1>7

LEMMA LRemoveFinishedStep ==
    ASSUME LInv, IInv', NEW a \in Registered, NEW r \in SessionRecord,
           r.route = ses[m_sessions[a]].route,
           RemoveFinished(a, m_sessions[a], r),
           m_playerLimit' = m_playerLimit
    PROVE  LInv'
<1> DEFINE s == m_sessions[a]
           n == Cardinality(Registered)
           w == [queue |-> m_QueuedPlayer, ses |-> [ses EXCEPT ![s] = r]]
           once == RemoveQueuedPlayer(w, n, s)
           twice == RemoveQueuedPlayer(once, n, s)
<1>1. /\ m_QueuedPlayer' = twice.queue
      /\ ses' = [twice.ses EXCEPT ![s] = Free]
      /\ m_sessions' = [m_sessions EXCEPT ![a] = NoSession]
  BY Zenon DEF RemoveFinished
<1>2. s \in Sessions /\ ses[s].acct = a /\ a \in Accounts
  BY DEF Registered, LInv, IInv, TypeOK, Tables
<1>3. n \in Nat /\ m_playerLimit \in Nat
  BY RegisteredCount, ConstantsAssumption DEF LInv, IInv, TypeOK
<1>4. /\ w \in Pairs /\ Distinct(w.queue) /\ w.queue = m_QueuedPlayer
      /\ \A t \in Sessions : t # s => w.ses[t] = ses[t]
  BY <1>2 DEF Pairs, LInv, IInv, TypeOK, Tables
<1>5. NoIdle(w.queue, n)
  BY <1>4, NoIdlePlaceIs DEF LInv
<1> HIDE DEF s, n, w
<1>6. /\ once \in Pairs /\ Distinct(once.queue) /\ ~Contains(once.queue, s)
      /\ NoIdle(once.queue, n - 1)
      /\ \/ Unadmitted(w, once)
         \/ /\ ~Contains(w.queue, s) /\ n - Len(w.queue) = m_playerLimit
            /\ \E h \in Sessions : Admitted(w, once, h)
  BY <1>2, <1>3, <1>4, <1>5, HandOver, RemoveQueuedPlayerShrinks DEF Shrinks
<1> HIDE DEF once
<1>7. twice = once
  BY <1>2, <1>3, <1>6, NothingToHandOver
<1> HIDE DEF twice
<1>8. /\ ses'[s].init = "none" /\ ses'[s].route = "none"
      /\ \A t \in Sessions : t # s => ses'[t] = once.ses[t]
  <2>1. once.ses \in [Sessions -> SessionRecord]
    BY <1>6 DEF Pairs
  <2> QED BY <1>1, <1>2, <1>7, <2>1 DEF Free, Fresh
<1>9. /\ m_sessions'[a] = NoSession /\ Registered' = Registered \ {a}
      /\ \A b \in Accounts : b # a => m_sessions'[b] = m_sessions[b]
  BY <1>1 DEF LInv, IInv, TypeOK, Registered
<1>10. NoIdlePlace'
  <2>1. Cardinality(Registered') = n - 1
    BY <1>9, RegisteredCount, FS_RemoveElement DEF n
  <2> QED BY <1>1, <1>6, <1>7, <2>1 DEF NoIdlePlace, NoIdle, Active
<1>11. ASSUME NEW b \in Ordinary'
       PROVE  /\ b \in Registered /\ b # a /\ m_sessions[b] \in Sessions
              /\ m_sessions[b] # s /\ ses[m_sessions[b]].acct = b
              /\ once.ses[m_sessions[b]].route = "ordinary"
  <2>1. b \in Registered /\ b # a /\ b \in Accounts
    BY <1>9 DEF Ordinary, Registered
  <2>2. m_sessions[b] \in Sessions /\ ses[m_sessions[b]].acct = b
    BY <2>1 DEF Registered, LInv, IInv, TypeOK, Tables
  <2>3. m_sessions[b] # s
    BY <1>2, <2>1, <2>2
  <2> QED BY <1>8, <1>9, <2>1, <2>2, <2>3 DEF Ordinary
<1>12. RouteInv' /\ WithinLimit'
  <2>1. CASE Unadmitted(w, once)
    <3>1. RouteInv'
      BY <1>4, <1>8, <2>1 DEF RouteInv, Unadmitted, LInv
    <3>2. Ordinary' \subseteq Ordinary
      BY <1>4, <1>11, <2>1 DEF Ordinary, Unadmitted
    <3>3. /\ Cardinality(Ordinary') <= Cardinality(Ordinary)
          /\ Cardinality(Ordinary') \in Nat /\ Cardinality(Ordinary) \in Nat
      BY <3>2, OrdinaryInside, FS_Subset, FS_CardinalityType
    <3> QED BY <1>3, <3>1, <3>3 DEF WithinLimit, LInv
  <2>2. ASSUME NEW h \in Sessions, Admitted(w, once, h),
               ~Contains(w.queue, s), n - Len(w.queue) = m_playerLimit
        PROVE  RouteInv' /\ WithinLimit'
    <3>1. RouteInv'
      BY <1>4, <1>8, <2>2 DEF RouteInv, Admitted, LInv
    <3>2. Ordinary' \subseteq (Ordinary \ {a}) \cup {ses[h].acct}
      BY <1>4, <1>11, <2>2 DEF Ordinary, Admitted
    <3>3. Cardinality(Ordinary') <= m_playerLimit
      BY <1>4, <2>2, <3>2, PlaceChangesHands DEF s, n
    <3> QED BY <3>1, <3>3 DEF WithinLimit
  <2> QED BY <1>6, <2>1, <2>2
<1> QED BY <1>10, <1>12 DEF LInv

LEMMA LUpdateSessionStep ==
    ASSUME LInv, IInv', NEW a \in Accounts, UpdateSession(a) PROVE LInv'
<1> DEFINE s == m_sessions[a]
<1>1. a \in Registered /\ s \in Sessions /\ ses[s] \in SessionRecord
  BY DEF UpdateSession, Registered, LInv, IInv, TypeOK, Tables
<1>2. PICK q \in ProcessPackets(ses[s]) :
        LET r == CleanupSockets(ProcessQueryCallbacks(q))
        IN  \/ RemoveFinished(a, s, r)
            \/ /\ ses' = [ses EXCEPT ![s] = r]
               /\ UNCHANGED <<m_sessions, m_QueuedPlayer, m_disconnects>>
  BY Zenon DEF UpdateSession
<1>3. m_playerLimit' = m_playerLimit
  BY DEF UpdateSession
<1> DEFINE r == CleanupSockets(ProcessQueryCallbacks(q))
<1>4. r \in SessionRecord /\ r.route = ses[s].route /\ (r.init = "none" => ses[s].init = "none")
  BY <1>1, UpdatedSession
<1> HIDE DEF r
<1>5. CASE RemoveFinished(a, s, r)
  BY <1>1, <1>3, <1>4, <1>5, LRemoveFinishedStep
<1>6. CASE /\ ses' = [ses EXCEPT ![s] = r]
           /\ UNCHANGED <<m_sessions, m_QueuedPlayer, m_disconnects>>
  <2> HIDE DEF s
  <2>1. \A t \in Sessions :
          ses'[t].route = ses[t].route /\ (ses'[t].init = "none" => ses[t].init = "none")
    BY <1>1, <1>4, <1>6 DEF LInv, IInv, TypeOK
  <2> QED BY <1>3, <1>6, <2>1, LSessionsStepRoutes
<1> QED BY <1>2, <1>5, <1>6 DEF r

-----------------------------------------------------------------------------
(* AcceptSession for an account that has n sessions registered beside it    *)
(* when it counts: whether the world is full decides whether it is let in.  *)

Counted(old) ==
    IF old # NoSession /\ ~Queued(old)
    THEN Cardinality(Registered) - 1 ELSE Cardinality(Registered)

LEMMA AcceptSessionDecides ==
    ASSUME NEW s, AcceptSession(s), Cardinality(Registered) \in Nat
    PROVE  LET old == m_sessions[ses[s].acct]
               full == m_playerLimit > 0 /\ Counted(old) >= m_playerLimit
           IN  /\ m_sessions' = [m_sessions EXCEPT ![ses[s].acct] = s]
               /\ \/ /\ full
                     /\ m_QueuedPlayer' = Append(Cleared(old).queue, s)
                     /\ ses' = [ClearedSes(old) EXCEPT ![s].inQueue = TRUE]
                  \/ \E route \in {"ordinary", "staff", "tolerance"} :
                       /\ full => route # "ordinary"
                       /\ m_QueuedPlayer' = Cleared(old).queue
                       /\ ses' = [ClearedSes(old) EXCEPT ![s] = InitializeSession(@, route)]
<1> DEFINE a == ses[s].acct
           old == m_sessions[a]
           replacing == old # NoSession
           n == Cardinality(Registered)
           total == IF replacing THEN n ELSE n + 1
           count == IF replacing /\ Queued(old) THEN total ELSE total - 1
           full == m_playerLimit > 0 /\ count >= m_playerLimit
           asks == full /\ a \notin Staff
           waits == asks /\ ~HasRecentlyDisconnected(a)
           route == IF ~full THEN "ordinary"
                    ELSE IF a \in Staff THEN "staff" ELSE "tolerance"
<1>1. m_sessions' = [m_sessions EXCEPT ![a] = s]
  BY Zenon DEF AcceptSession
<1>2. IF waits
      THEN /\ m_QueuedPlayer' = Append(Cleared(old).queue, s)
           /\ ses' = [ClearedSes(old) EXCEPT ![s].inQueue = TRUE]
      ELSE /\ m_QueuedPlayer' = Cleared(old).queue
           /\ ses' = [ClearedSes(old) EXCEPT ![s] = InitializeSession(@, route)]
  BY Zenon DEF AcceptSession, Cleared, ClearedSes, Lobby
<1>3. route \in {"ordinary", "staff", "tolerance"} /\ (full => route # "ordinary")
      /\ (waits => full)
  OBVIOUS
<1>4. count = Counted(old)
  <2> HIDE DEF old
  <2>1. CASE replacing /\ Queued(old)
    BY <2>1 DEF Counted
  <2>2. CASE replacing /\ ~Queued(old)
    BY <2>2 DEF Counted
  <2>3. CASE ~replacing
    BY <2>3 DEF Counted
  <2> QED BY <2>1, <2>2, <2>3
<1> HIDE DEF waits, asks, route, count
<1> QED BY <1>1, <1>2, <1>3, <1>4, Zenon

(* Whoever is let in as an ordinary player finds the login queue empty and  *)
(* a place within the limit.                                               *)
LEMMA NotFull ==
    ASSUME LInv, NEW old \in Sessions \cup {NoSession},
           m_playerLimit = 0 \/ Counted(old) < m_playerLimit
    PROVE  /\ m_QueuedPlayer = <<>>
           /\ m_playerLimit > 0 =>
                Cardinality(Registered) + (IF old = NoSession THEN 1 ELSE 0) <= m_playerLimit
<1> DEFINE n == Cardinality(Registered)
<1>1. n \in Nat /\ m_playerLimit \in Nat /\ Len(m_QueuedPlayer) \in Nat
      /\ (m_QueuedPlayer = <<>> <=> Len(m_QueuedPlayer) = 0)
  BY RegisteredCount, LengthZero, ConstantsAssumption DEF LInv, IInv, TypeOK
<1>2. NoIdle(m_QueuedPlayer, n)
  BY NoIdlePlaceIs DEF LInv
<1> HIDE DEF n
<1>3. m_QueuedPlayer = <<>>
  <2> SUFFICES ASSUME m_QueuedPlayer # <<>> PROVE FALSE
    OBVIOUS
  <2>1. m_playerLimit > 0 /\ n - Len(m_QueuedPlayer) >= m_playerLimit /\ Len(m_QueuedPlayer) >= 1
    BY <1>1, <1>2 DEF NoIdle
  <2>2. Counted(old) >= n - 1
    BY <1>1 DEF Counted, n
  <2>3. Counted(old) \in Int
    BY <1>1 DEF Counted, n
  <2> QED BY <1>1, <2>1, <2>2, <2>3
<1>4. ~Queued(old)
  BY <1>3, EmptyDistinct DEF Queued
<1>5. Counted(old) = IF old # NoSession THEN n - 1 ELSE n
  BY <1>4 DEF Counted, n
<1> QED BY <1>1, <1>3, <1>5 DEF n

LEMMA LAcceptSessionStep ==
    ASSUME LInv, IInv', AddSession, AcceptSession(Head(addSessQueue)) PROVE LInv'
<1> DEFINE s == Head(addSessQueue)
           a == ses[s].acct
           old == m_sessions[a]
           n == Cardinality(Registered)
           v == Cleared(old)
           ses1 == ClearedSes(old)
           full == m_playerLimit > 0 /\ Counted(old) >= m_playerLimit
<1>1. /\ s \in Sessions /\ HandedOver(s) /\ a \in Accounts /\ ~Contains(m_QueuedPlayer, s)
      /\ \A b \in Registered : m_sessions[b] \in Sessions /\ m_sessions[b] # s
  BY HeadHandedOver DEF AddSession, LInv
<1>2. n \in Nat /\ m_playerLimit \in Nat /\ m_playerLimit' = m_playerLimit
      /\ m_QueuedPlayer \in Seq(Sessions)
  BY RegisteredCount, ConstantsAssumption DEF LInv, IInv, TypeOK, AddSession
<1>3. /\ m_sessions' = [m_sessions EXCEPT ![a] = s]
      /\ \/ /\ full
            /\ m_QueuedPlayer' = Append(v.queue, s)
            /\ ses' = [ses1 EXCEPT ![s].inQueue = TRUE]
         \/ \E route \in {"ordinary", "staff", "tolerance"} :
              /\ full => route # "ordinary"
              /\ m_QueuedPlayer' = v.queue
              /\ ses' = [ses1 EXCEPT ![s] = InitializeSession(@, route)]
  BY <1>2, AcceptSessionDecides
<1> HIDE DEF s
<1>4. old \in Sessions \cup {NoSession} /\ old # s /\ s # NoSession
  BY <1>1, ConstantsAssumption DEF LInv, IInv, TypeOK, Registered
<1>5. /\ Shrinks(Lobby, v) /\ ~Contains(v.queue, old)
      /\ ses1 \in [Sessions -> SessionRecord]
      /\ old # NoSession => ses1[old] = Free
      /\ \A t \in Sessions : t # old => ses1[t] = v.ses[t]
  <2>1. old # NoSession => ses1[old] = Free
    <3>1. CASE old # NoSession
      <4>1. v.ses \in [Sessions -> SessionRecord] /\ old \in Sessions
        BY <1>4, <3>1, ClearedShrinks DEF Shrinks, Pairs, LInv
      <4> HIDE DEF old, v
      <4> QED BY <3>1, <4>1 DEF ClearedSes, v
    <3> QED BY <3>1
  <2> QED BY <1>4, <2>1, ClearedShrinks DEF LInv
<1>6. /\ Registered' = Registered \cup {a} /\ m_sessions'[a] = s
      /\ \A b \in Accounts : b # a => m_sessions'[b] = m_sessions[b]
      /\ a \in Registered <=> old # NoSession
  BY <1>1, <1>3, <1>4 DEF LInv, IInv, TypeOK, Registered
<1> HIDE DEF a, old
<1>7. Cardinality(Registered') = IF old = NoSession THEN n + 1 ELSE n
  BY <1>6, RegisteredCount, FS_AddElement
<1>8. /\ NoIdle(v.queue, IF old = NoSession THEN n ELSE n - 1)
      /\ \/ Unadmitted(Lobby, v)
         \/ /\ old # NoSession /\ ~Contains(m_QueuedPlayer, old)
            /\ n - Len(m_QueuedPlayer) = m_playerLimit
            /\ \E h \in Sessions : Admitted(Lobby, v, h)
  <2>1. NoIdle(m_QueuedPlayer, n) /\ Lobby.queue = m_QueuedPlayer
    BY NoIdlePlaceIs DEF LInv, Lobby
  <2>2. CASE old = NoSession
    <3>1. v = Lobby
      BY <2>2 DEF Cleared
    <3> QED BY <2>1, <2>2, <3>1 DEF Unadmitted
  <2>3. CASE old # NoSession
    <3>1. v = RemoveQueuedPlayer(Lobby, n, old) /\ old \in Sessions
      BY <1>4, <2>3 DEF Cleared
    <3>2. Lobby \in Pairs /\ Distinct(Lobby.queue)
      BY LobbyIsPair DEF LInv
    <3> HIDE DEF v, n
    <3> QED BY <1>2, <2>1, <2>3, <3>1, <3>2, HandOver
  <2> QED BY <2>2, <2>3
<1>9. v.queue \in Seq(Sessions) /\ (~full => m_QueuedPlayer = <<>> /\ v.queue = <<>>)
  <2>1. v.queue \in Seq(Sessions)
    BY <1>5 DEF Shrinks, Pairs
  <2>2. ASSUME ~full
        PROVE  m_QueuedPlayer = <<>> /\ v.queue = <<>>
    <3>1. Counted(old) \in Int
      BY <1>2 DEF Counted
    <3>2. m_QueuedPlayer = <<>>
      BY <1>2, <1>4, <2>2, <3>1, NotFull
    <3>3. \A t \in Sessions : ~Contains(v.queue, t)
      BY <1>5, <3>2, EmptyDistinct DEF Shrinks, Lobby
    <3>4. Len(v.queue) = 0
      <4> SUFFICES ASSUME Len(v.queue) # 0 PROVE FALSE
        OBVIOUS
      <4> HIDE DEF v
      <4>1. Len(v.queue) \in Nat /\ 1 \in 1..Len(v.queue) /\ v.queue[1] \in Sessions
        BY <2>1
      <4> QED BY <3>3, <4>1 DEF Contains
    <3> HIDE DEF v
    <3> QED BY <2>1, <3>2, <3>4, LengthZero
  <2> QED BY <2>1, <2>2
<1>10. /\ \A t \in Sessions : t # s => ses'[t] = ses1[t]
       /\ ses'[s].init = "none" => ses'[s].route = "none"
       /\ full => ses'[s].route # "ordinary"
       /\ m_QueuedPlayer' = v.queue \/ (full /\ m_QueuedPlayer' = Append(v.queue, s))
  <2>1. ses1[s] = ses[s] /\ ses[s].init = "none" /\ ses[s].route = "none" /\ ses[s] \in SessionRecord
    <3>1. v.ses[s] = ses[s]
      BY <1>1, <1>5 DEF Shrinks, Lobby
    <3> QED BY <1>1, <1>4, <1>5, <3>1 DEF HandedOver, LInv, RouteInv, IInv, TypeOK
  <2> HIDE DEF v, ses1, full
  <2>2. CASE /\ full /\ m_QueuedPlayer' = Append(v.queue, s)
             /\ ses' = [ses1 EXCEPT ![s].inQueue = TRUE]
    <3>1. ses'[s] = [ses[s] EXCEPT !.inQueue = TRUE]
          /\ \A t \in Sessions : t # s => ses'[t] = ses1[t]
      BY <1>1, <1>5, <2>1, <2>2
    <3>2. ses'[s].init = "none" /\ ses'[s].route = "none"
      BY <2>1, <3>1 DEF SessionRecord
    <3> QED BY <2>2, <3>1, <3>2
  <2>3. ASSUME NEW route \in {"ordinary", "staff", "tolerance"}, full => route # "ordinary",
               m_QueuedPlayer' = v.queue,
               ses' = [ses1 EXCEPT ![s] = InitializeSession(@, route)]
        PROVE  /\ \A t \in Sessions : t # s => ses'[t] = ses1[t]
               /\ ses'[s].init = "none" => ses'[s].route = "none"
               /\ full => ses'[s].route # "ordinary"
               /\ m_QueuedPlayer' = v.queue
    <3>1. ses'[s] = InitializeSession(ses[s], route)
          /\ \A t \in Sessions : t # s => ses'[t] = ses1[t]
      BY <1>1, <1>5, <2>1, <2>3
    <3>2. ses'[s].init = "pending" /\ ses'[s].route = route
      BY <2>1, <3>1 DEF SessionRecord, InitializeSession
    <3> QED BY <2>3, <3>1, <3>2
  <2> QED BY <1>3, <2>2, <2>3
<1>11. NoIdlePlace'
  <2>1. NoIdle(v.queue, Cardinality(Registered'))
    <3>1. Len(v.queue) \in Nat
      BY <1>9, LengthZero
    <3> QED BY <1>2, <1>7, <1>8, <3>1 DEF NoIdle
  <2>2. CASE m_QueuedPlayer' = v.queue
    BY <1>2, <2>1, <2>2 DEF NoIdlePlace, NoIdle, Active
  <2>3. CASE full /\ m_QueuedPlayer' = Append(v.queue, s)
    <3>1. Len(m_QueuedPlayer') = Len(v.queue) + 1 /\ Len(v.queue) \in Nat
          /\ (v.queue = <<>> <=> Len(v.queue) = 0)
      BY <1>1, <1>9, <2>3, AppendProperties, LengthZero
    <3>2. Cardinality(Registered') - (Len(v.queue) + 1) >= m_playerLimit
      <4>1. CASE v.queue # <<>>
        BY <1>2, <1>7, <1>8, <3>1, <4>1 DEF NoIdle
      <4>2. CASE v.queue = <<>>
        <5>1. CASE old = NoSession
          <6>1. Counted(old) = n
            BY <5>1 DEF Counted
          <6> QED BY <1>2, <1>7, <2>3, <3>1, <4>2, <5>1, <6>1
        <5>2. CASE old # NoSession /\ ~Queued(old)
          <6>1. Counted(old) = n - 1
            BY <5>2 DEF Counted
          <6> QED BY <1>2, <1>7, <2>3, <3>1, <4>2, <5>2, <6>1
        <5>3. CASE old # NoSession /\ Queued(old)
          <6>1. m_QueuedPlayer # <<>>
            BY <5>3, EmptyDistinct DEF Queued
          <6>2. Len(m_QueuedPlayer) \in Nat /\ Len(m_QueuedPlayer) # 0
            BY <1>2, <6>1, LengthZero
          <6>3. n - Len(m_QueuedPlayer) >= m_playerLimit
            BY <6>1 DEF LInv, NoIdlePlace, Active
          <6> QED BY <1>2, <1>7, <3>1, <4>2, <5>3, <6>2, <6>3
        <5> QED BY <5>1, <5>2, <5>3
      <4> QED BY <4>1, <4>2
    <3> QED BY <1>2, <2>3, <3>1, <3>2 DEF NoIdlePlace, Active
  <2> QED BY <1>10, <2>2, <2>3
<1>12. RouteInv'
  <2> SUFFICES ASSUME NEW t \in Sessions, t # s, t # old, ses'[t].init = "none"
               PROVE  ses'[t].route = "none"
    <3>1. ASSUME old \in Sessions
          PROVE  ses'[old].route = "none"
      <4>1. ses'[old] = Free
        BY <1>4, <1>5, <1>10, <3>1, ConstantsAssumption
      <4> QED BY <4>1 DEF Free, Fresh
    <3> QED BY <1>10, <3>1 DEF RouteInv
  <2>1. ses'[t] = v.ses[t]
    BY <1>5, <1>10
  <2>2. v.ses[t].init = Lobby.ses[t].init /\ v.ses[t].route = Lobby.ses[t].route
    BY <1>8, <2>1 DEF Unadmitted, Admitted
  <2> QED BY <2>1, <2>2 DEF Lobby, LInv, RouteInv
<1>13. WithinLimit'
  <2>1. CASE ~full
    <3>1. m_playerLimit > 0 => Cardinality(Registered') <= m_playerLimit
      <4>1. Counted(old) \in Int
        BY <1>2 DEF Counted
      <4>2. m_playerLimit > 0 => n + (IF old = NoSession THEN 1 ELSE 0) <= m_playerLimit
        BY <1>2, <1>4, <2>1, <4>1, NotFull
      <4> QED BY <1>2, <1>7, <4>2
    <3>2. IsFiniteSet(Registered') /\ Ordinary' \subseteq Registered'
      BY <1>6, RegisteredCount, FS_AddElement DEF Ordinary
    <3>3. /\ Cardinality(Ordinary') <= Cardinality(Registered')
          /\ Cardinality(Ordinary') \in Nat /\ Cardinality(Registered') \in Nat
      BY <3>2, FS_Subset, FS_CardinalityType
    <3> QED BY <1>2, <3>1, <3>3 DEF WithinLimit
  <2>2. CASE full
    <3>1. ASSUME NEW b \in Ordinary'
          PROVE  /\ b \in Registered /\ b # a /\ m_sessions[b] \in Sessions
                 /\ ses[m_sessions[b]].acct = b
                 /\ v.ses[m_sessions[b]].route = "ordinary"
      <4>1. b # a
        BY <1>6, <1>10, <2>2 DEF Ordinary
      <4>2. b \in Registered /\ b \in Accounts
        BY <1>6, <4>1 DEF Ordinary, Registered
      <4>3. m_sessions[b] \in Sessions /\ ses[m_sessions[b]].acct = b /\ m_sessions[b] # s
        BY <1>1, <4>2 DEF LInv, IInv, Tables
      <4>4. m_sessions[b] # old
        BY <4>1, <4>2, <4>3, <1>6, ConstantsAssumption DEF LInv, IInv, Tables, old
      <4> QED BY <1>5, <1>6, <1>10, <4>1, <4>2, <4>3, <4>4 DEF Ordinary
    <3>2. CASE Unadmitted(Lobby, v)
      <4>1. Ordinary' \subseteq Ordinary
        BY <3>1, <3>2 DEF Ordinary, Unadmitted, Lobby
      <4>2. /\ Cardinality(Ordinary') <= Cardinality(Ordinary)
            /\ Cardinality(Ordinary') \in Nat /\ Cardinality(Ordinary) \in Nat
        BY <4>1, OrdinaryInside, FS_Subset, FS_CardinalityType
      <4> QED BY <1>2, <4>2 DEF WithinLimit, LInv
    <3>3. ASSUME NEW h \in Sessions, Admitted(Lobby, v, h), old # NoSession,
                 ~Contains(m_QueuedPlayer, old), n - Len(m_QueuedPlayer) = m_playerLimit
          PROVE  WithinLimit'
      <4>1. Ordinary' \subseteq (Ordinary \ {a}) \cup {ses[h].acct}
        BY <3>1, <3>3 DEF Ordinary, Admitted, Lobby
      <4>2. Cardinality(Ordinary') <= m_playerLimit
        <5>1. a \in Registered /\ ~Contains(m_QueuedPlayer, m_sessions[a])
          BY <1>6, <3>3 DEF old
        <5>2. Cardinality(Registered) - Len(m_QueuedPlayer) = m_playerLimit
          BY <3>3
        <5>3. PICK b, g : b = a /\ g = ses[h].acct
          OBVIOUS
        <5>4. b \in Registered /\ ~Contains(m_QueuedPlayer, m_sessions[b])
          BY <5>1, <5>3
        <5>5. \A Y \in SUBSET ((Ordinary \ {b}) \cup {g}) : Cardinality(Y) <= m_playerLimit
          BY <5>2, <5>4, PlaceChangesHands
        <5> QED BY <4>1, <5>3, <5>5
      <4> QED BY <1>2, <4>2 DEF WithinLimit
    <3> QED BY <1>8, <3>2, <3>3
  <2> QED BY <2>1, <2>2
<1> QED BY <1>11, <1>12, <1>13 DEF LInv

-----------------------------------------------------------------------------
LEMMA LStepInv == ASSUME FixedLimit, LInv, [Next]_vars PROVE LInv'
<1>1. IInv'
  BY StepInv DEF LInv
<1>2. CASE Network
  BY <1>1, <1>2, LNetworkStep
<1>3. CASE Console
  BY <1>1, <1>3, LConsoleStep
<1>4. CASE \/ BeginTick \/ AddSessionOutOfTurn \/ AddSessionsDone \/ EndTick
          \/ UNCHANGED vars
  <2>1. UNCHANGED <<m_sessions, m_QueuedPlayer, ses, m_playerLimit>>
    BY <1>4 DEF BeginTick, AddSessionOutOfTurn, AddSessionsDone, EndTick, vars
  <2> QED BY <1>1, <2>1, LThreadStep
<1>5. CASE AddSession
  <2>1. RejectSession(Head(addSessQueue)) \/ AcceptSession(Head(addSessQueue))
    BY <1>5 DEF AddSession
  <2> QED BY <1>1, <1>5, <2>1, LRejectSessionStep, LAcceptSessionStep
<1>6. ASSUME NEW a \in Accounts, UpdateSession(a)
      PROVE  LInv'
  BY <1>1, <1>6, LUpdateSessionStep
<1> QED BY <1>2, <1>3, <1>4, <1>5, <1>6 DEF Next, UpdateSessions

LEMMA LInvHolds == ASSUME FixedLimit PROVE Spec => []LInv
<1>1. Init => LInv
  BY LInitInv
<1>2. LInv /\ [Next]_vars => LInv'
  BY LStepInv
<1> QED BY <1>1, <1>2, PTL DEF Spec

(* While PlayerLimit stays what it was, nobody waits in the login queue     *)
(* while a place is free, in whatever way places are given up: a session    *)
(* swept, replaced by the same account's next one, or leaving the queue.    *)
THEOREM NoPlaceIdle == ASSUME FixedLimit PROVE Spec => []NoIdlePlace
<1>1. LInv => NoIdlePlace
  BY DEF LInv
<1> QED BY <1>1, LInvHolds, PTL

(* While PlayerLimit stays what it was, the players who came in neither as  *)
(* staff nor by the reconnect tolerance are never more than it: no place is *)
(* handed over twice, though RemoveQueuedPlayer is called twice.           *)
THEOREM LimitHolds == ASSUME FixedLimit PROVE Spec => []WithinLimit
<1>1. LInv => WithinLimit
  BY DEF LInv
<1> QED BY <1>1, LInvHolds, PTL

-----------------------------------------------------------------------------
(* Whatever the limit is changed to: FixedLimit is not assumed from here.   *)

\* Nobody is let in, though sessions may come, go and forget their route.
NobodyLetIn ==
    \A t \in Sessions :
      \/ ses'[t].route = "none"
      \/ ses'[t].route = ses[t].route /\ (ses'[t].init = "none" => ses[t].init = "none")

AdmitsStep ==
    \A s \in Sessions :
      ses[s].route # "ordinary" /\ ses'[s].route = "ordinary"
        => m_playerLimit = 0 \/ Cardinality(Ordinary') <= m_playerLimit

LEMMA NobodyLetInStep == ASSUME RouteInv, NobodyLetIn PROVE RouteInv' /\ AdmitsStep
  BY DEF RouteInv, NobodyLetIn, AdmitsStep

LEMMA QuietNetwork == ASSUME IInv, Network PROVE NobodyLetIn
<1>1. \A t \in Sessions : ses[t] \in SessionRecord
  BY DEF IInv, TypeOK
<1>2. ASSUME NEW s \in Sessions, NEW a \in Accounts, Connect(a, s)
      PROVE  NobodyLetIn
  BY <1>2 DEF Connect, NobodyLetIn, Fresh, IInv, TypeOK
<1>3. ASSUME NEW s \in Sessions, Disconnect(s)
      PROVE  NobodyLetIn
  BY <1>1, <1>3 DEF Disconnect, NobodyLetIn, IInv, TypeOK, SessionRecord
<1>4. ASSUME NEW s \in Sessions, QueriesAnswered(s)
      PROVE  NobodyLetIn
  BY <1>1, <1>4 DEF QueriesAnswered, NobodyLetIn, IInv, TypeOK, SessionRecord
<1>5. ASSUME NEW s \in Sessions, AbortLogin(s)
      PROVE  NobodyLetIn
  <2> DEFINE r == IF ses[s].player = "loading" THEN [ses[s] EXCEPT !.player = "none"]
                  ELSE [ses[s] EXCEPT !.conn = "lost"]
  <2>1. r.route = ses[s].route /\ r.init = ses[s].init
    BY <1>1, KickedIsSession DEF SessionRecord
  <2>2. ses' = [ses EXCEPT ![s] = r]
    BY <1>5 DEF AbortLogin
  <2> HIDE DEF r
  <2> QED BY <2>1, <2>2 DEF NobodyLetIn, IInv, TypeOK
<1>6. ASSUME NEW s, EnterEncryptedModeAckAgain(s)
      PROVE  NobodyLetIn
  BY <1>6 DEF EnterEncryptedModeAckAgain, NobodyLetIn
<1> QED BY <1>2, <1>3, <1>4, <1>5, <1>6 DEF Network

LEMMA QuietConsole == ASSUME IInv, Console PROVE NobodyLetIn
<1>1. \A t \in Sessions : ses[t] \in SessionRecord
  BY DEF IInv, TypeOK
<1>2. CASE KickAllLess
  BY <1>1, <1>2, KickedIsSession DEF KickAllLess, NobodyLetIn
<1>3. CASE KickAll
  BY <1>1, <1>3, KickedIsSession DEF KickAll, NobodyLetIn
<1>4. ASSUME NEW limit \in Limits, SetPlayerAmountLimit(limit)
      PROVE  NobodyLetIn
  BY <1>4 DEF SetPlayerAmountLimit, NobodyLetIn
<1> QED BY <1>2, <1>3, <1>4 DEF Console

(* What RemoveQueuedPlayer does, whatever the limit is: it lets in nobody,  *)
(* or the next one, if with s gone that leaves no more inside than the      *)
(* limit.                                                                   *)
LEMMA LetsInAtMostOne ==
    ASSUME NEW w \in Pairs, Distinct(w.queue), NEW n \in Nat, NEW s \in Sessions,
           m_playerLimit \in Nat
    PROVE  LET v == RemoveQueuedPlayer(w, n, s)
           IN  \/ Unadmitted(w, v) /\ v.queue = Dequeue(w, s).queue
               \/ /\ \E h \in Sessions : Admitted(w, v, h)
                  /\ m_playerLimit = 0 \/ (n - 1) - Len(v.queue) <= m_playerLimit
<1> DEFINE d == Dequeue(w, s)
           active == n - Len(w.queue)
           count == IF ~Contains(w.queue, s) /\ active > 0 THEN active - 1 ELSE active
           v == RemoveQueuedPlayer(w, n, s)
           h == Head(d.queue)
           ses1 == [d.ses EXCEPT ![h] = InitializeSession(@, "ordinary")]
           admits == (m_playerLimit = 0 \/ count < m_playerLimit) /\ d.queue # <<>>
<1>1. v = AdmitFirst(d, count)
  BY Zenon DEF RemoveQueuedPlayer
<1>2. w.queue \in Seq(Sessions) /\ Len(w.queue) \in Nat
  BY DEF Pairs
<1>3. /\ d \in Pairs /\ Distinct(d.queue) /\ d.queue \in Seq(Sessions)
      /\ Len(d.queue) = IF Contains(w.queue, s) THEN Len(w.queue) - 1 ELSE Len(w.queue)
      /\ Unadmitted(w, d)
      /\ \A t \in Sessions : Contains(d.queue, t) => Contains(w.queue, t)
  BY DequeueShrinks, DequeueEffect DEF Shrinks, Pairs, Unadmitted
<1> HIDE DEF d, v, h, ses1
<1>4. CASE ~admits
  <2>1. v = d
    BY <1>1, <1>4, Zenon DEF AdmitFirst
  <2> QED BY <1>3, <2>1 DEF d, v
<1>5. CASE admits
  <2>1. v = [queue |-> Tail(d.queue), ses |-> ses1]
    <3> HIDE DEF count
    <3> QED BY <1>1, <1>5, Zenon DEF AdmitFirst, ses1, h
  <2>2. h \in Sessions /\ Contains(d.queue, h) /\ Len(Tail(d.queue)) = Len(d.queue) - 1
    BY <1>3, <1>5, TailProperties DEF h
  <2>3. d.ses \in [Sessions -> SessionRecord]
    BY <1>3 DEF Pairs
  <2>4. /\ ses1[h].init = "pending"
        /\ \A t \in Sessions \ {h} : ses1[t] = d.ses[t]
    BY <2>2, <2>3 DEF InitializeSession, SessionRecord, ses1
  <2>5. Admitted(w, v, h)
    BY <1>3, <2>1, <2>2, <2>4 DEF Admitted, Unadmitted
  <2>6. m_playerLimit = 0 \/ (n - 1) - Len(v.queue) <= m_playerLimit
    <3>1. Len(v.queue) = Len(d.queue) - 1
      BY <2>1, <2>2
    <3> QED BY <1>2, <1>3, <1>5, <3>1
  <2> QED BY <2>2, <2>5, <2>6 DEF v
<1> QED BY <1>4, <1>5

(* Ordinary players are no more than the sessions past the queue, and fewer *)
(* when somebody else is past it.                                           *)
OrdinaryBound ==
    LET past == Cardinality(Registered) - Len(m_QueuedPlayer)
    IN  /\ Cardinality(Ordinary) \in Nat /\ Cardinality(Ordinary) <= past
        /\ \A a \in Registered \ Ordinary :
             ~Contains(m_QueuedPlayer, m_sessions[a]) => Cardinality(Ordinary) + 1 <= past

LEMMA OrdinaryCount == IInv /\ RouteInv => OrdinaryBound
<1> SUFFICES ASSUME IInv, RouteInv PROVE OrdinaryBound
  OBVIOUS
<1>1. Ordinary \subseteq Registered
  BY DEF Ordinary
<1>2. ASSUME NEW a \in Ordinary
      PROVE  ~Contains(m_QueuedPlayer, m_sessions[a])
  <2>1. m_sessions[a] \in Sessions /\ ses[m_sessions[a]].route = "ordinary"
    BY DEF Ordinary, Registered, IInv, TypeOK
  <2> QED BY <2>1 DEF IInv, Tables, Waiting, RouteInv
<1>3. IsFiniteSet(Ordinary) /\ Cardinality(Ordinary) \in Nat
  BY <1>1, RegisteredCount, FS_Subset, FS_CardinalityType
<1>4. Cardinality(Ordinary) <= Cardinality(Registered) - Len(m_QueuedPlayer)
  BY <1>1, <1>2, InsideCount
<1>5. ASSUME NEW a \in Registered \ Ordinary, ~Contains(m_QueuedPlayer, m_sessions[a])
      PROVE  Cardinality(Ordinary) + 1 <= Cardinality(Registered) - Len(m_QueuedPlayer)
  <2> DEFINE X == Ordinary \cup {a}
  <2>1. Cardinality(X) = Cardinality(Ordinary) + 1
    BY <1>3, <1>5, FS_AddElement
  <2>2. X \subseteq Registered /\ \A b \in X : ~Contains(m_QueuedPlayer, m_sessions[b])
    BY <1>1, <1>2, <1>5
  <2> HIDE DEF X
  <2>3. Cardinality(X) <= Cardinality(Registered) - Len(m_QueuedPlayer)
    BY <2>2, InsideCount
  <2> QED BY <2>1, <2>3
<1> QED BY <1>3, <1>4, <1>5 DEF OrdinaryBound

LEMMA OrdinaryCountNext == IInv' /\ RouteInv' => OrdinaryBound'
  BY OrdinaryCount, PTL

LEMMA AdmitsRemoveFinished ==
    ASSUME IInv, RouteInv, IInv', NEW a \in Registered, NEW r \in SessionRecord,
           r.route = ses[m_sessions[a]].route,
           RemoveFinished(a, m_sessions[a], r)
    PROVE  RouteInv' /\ AdmitsStep
<1> DEFINE s == m_sessions[a]
           n == Cardinality(Registered)
           w == [queue |-> m_QueuedPlayer, ses |-> [ses EXCEPT ![s] = r]]
           once == RemoveQueuedPlayer(w, n, s)
           twice == RemoveQueuedPlayer(once, n, s)
<1>1. /\ m_QueuedPlayer' = twice.queue
      /\ ses' = [twice.ses EXCEPT ![s] = Free]
      /\ m_sessions' = [m_sessions EXCEPT ![a] = NoSession]
  BY Zenon DEF RemoveFinished
<1>2. s \in Sessions
  BY DEF Registered, IInv, TypeOK, Tables
<1>3. n \in Nat /\ m_playerLimit \in Nat
  BY RegisteredCount, ConstantsAssumption DEF IInv, TypeOK
<1>4. /\ w \in Pairs /\ Distinct(w.queue)
      /\ \A t \in Sessions : t # s => w.ses[t] = ses[t]
  BY <1>2 DEF Pairs, IInv, TypeOK, Tables
<1>5. Registered' = Registered \ {a} /\ Cardinality(Registered') = n - 1
  <2>1. Registered' = Registered \ {a}
    BY <1>1 DEF IInv, TypeOK, Registered
  <2> QED BY <2>1, RegisteredCount, FS_RemoveElement
<1> HIDE DEF s, n, w
<1>6. once \in Pairs /\ Distinct(once.queue) /\ ~Contains(once.queue, s)
  BY <1>2, <1>4, RemoveQueuedPlayerShrinks DEF Shrinks
<1>7. \/ Unadmitted(w, once)
      \/ /\ \E h \in Sessions : Admitted(w, once, h)
         /\ m_playerLimit = 0 \/ (n - 1) - Len(once.queue) <= m_playerLimit
  BY <1>2, <1>3, <1>4, LetsInAtMostOne
<1> HIDE DEF once
<1>8. twice \in Pairs
  BY <1>2, <1>6, RemoveQueuedPlayerShrinks DEF Shrinks
<1>9. \/ Unadmitted(once, twice) /\ twice.queue = once.queue
      \/ /\ \E h \in Sessions : Admitted(once, twice, h)
         /\ m_playerLimit = 0 \/ (n - 1) - Len(twice.queue) <= m_playerLimit
  <2>1. Dequeue(once, s) = once
    BY <1>6 DEF Dequeue
  <2> QED BY <1>2, <1>3, <1>6, <2>1, LetsInAtMostOne
<1> HIDE DEF twice
<1>10. /\ ses'[s].route = "none"
       /\ \A t \in Sessions : t # s => ses'[t] = twice.ses[t]
  <2>1. twice.ses \in [Sessions -> SessionRecord]
    BY <1>8 DEF Pairs
  <2> QED BY <1>1, <1>2, <2>1 DEF Free, Fresh
<1>11. RouteInv'
  <2> SUFFICES ASSUME NEW t \in Sessions, t # s, ses'[t].init = "none"
               PROVE  ses'[t].route = "none"
    BY <1>10 DEF RouteInv
  <2>1. ses'[t] = twice.ses[t] /\ w.ses[t] = ses[t]
    BY <1>4, <1>10
  <2>2. twice.ses[t].init = once.ses[t].init /\ twice.ses[t].route = once.ses[t].route
    BY <1>9, <2>1 DEF Unadmitted, Admitted
  <2>3. once.ses[t].init = w.ses[t].init /\ once.ses[t].route = w.ses[t].route
    BY <1>7, <2>1, <2>2 DEF Unadmitted, Admitted
  <2> QED BY <2>1, <2>2, <2>3 DEF RouteInv
<1>12. AdmitsStep
  <2> SUFFICES ASSUME NEW t \in Sessions, ses[t].route # "ordinary",
                      ses'[t].route = "ordinary"
               PROVE  m_playerLimit = 0 \/ Cardinality(Ordinary') <= m_playerLimit
    BY DEF AdmitsStep
  <2>1. t # s /\ ses'[t] = twice.ses[t] /\ w.ses[t] = ses[t]
    BY <1>4, <1>10
  <2>2. m_playerLimit = 0 \/ (n - 1) - Len(twice.queue) <= m_playerLimit
    <3>1. CASE Unadmitted(once, twice) /\ twice.queue = once.queue
      <4>1. once.ses[t].route = "ordinary"
        BY <2>1, <3>1 DEF Unadmitted
      <4>2. ~Unadmitted(w, once)
        BY <2>1, <4>1 DEF Unadmitted
      <4> QED BY <1>7, <3>1, <4>2
    <3> QED BY <1>9, <3>1
  <2>3. Cardinality(Ordinary') <= (n - 1) - Len(twice.queue) /\ Cardinality(Ordinary') \in Nat
    BY <1>1, <1>5, <1>11, OrdinaryCountNext DEF OrdinaryBound
  <2>4. Len(twice.queue) \in Nat
    BY <1>8 DEF Pairs
  <2>5. \A k, x, c \in Nat :
          (k - 1) - x <= m_playerLimit /\ c <= (k - 1) - x => c <= m_playerLimit
    BY <1>3
  <2> QED BY <1>3, <2>2, <2>3, <2>4, <2>5
<1> QED BY <1>11, <1>12

LEMMA AdmitsAcceptSession ==
    ASSUME IInv, RouteInv, IInv', AddSession, AcceptSession(Head(addSessQueue))
    PROVE  RouteInv' /\ AdmitsStep
<1> DEFINE s == Head(addSessQueue)
           a == ses[s].acct
           old == m_sessions[a]
           n == Cardinality(Registered)
           v == Cleared(old)
           ses1 == ClearedSes(old)
           full == m_playerLimit > 0 /\ Counted(old) >= m_playerLimit
<1>1. /\ s \in Sessions /\ HandedOver(s) /\ a \in Accounts /\ ~Contains(m_QueuedPlayer, s)
      /\ \A b \in Registered : m_sessions[b] \in Sessions /\ m_sessions[b] # s
  BY HeadHandedOver DEF AddSession
<1>2. n \in Nat /\ m_playerLimit \in Nat
  BY RegisteredCount, ConstantsAssumption DEF IInv, TypeOK
<1>3. /\ m_sessions' = [m_sessions EXCEPT ![a] = s]
      /\ \/ /\ full
            /\ m_QueuedPlayer' = Append(v.queue, s)
            /\ ses' = [ses1 EXCEPT ![s].inQueue = TRUE]
         \/ \E route \in {"ordinary", "staff", "tolerance"} :
              /\ full => route # "ordinary"
              /\ m_QueuedPlayer' = v.queue
              /\ ses' = [ses1 EXCEPT ![s] = InitializeSession(@, route)]
  BY <1>2, AcceptSessionDecides
<1> HIDE DEF s
<1>4. old \in Sessions \cup {NoSession} /\ old # s /\ s # NoSession
  BY <1>1, ConstantsAssumption DEF IInv, TypeOK, Registered
<1>5. /\ Shrinks(Lobby, v)
      /\ ses1 \in [Sessions -> SessionRecord]
      /\ \A t \in Sessions : t # old => ses1[t] = v.ses[t]
  BY <1>4, ClearedShrinks
<1>6. /\ Registered' = Registered \cup {a} /\ m_sessions'[a] = s /\ a \in Registered'
      /\ a \in Registered <=> old # NoSession
  BY <1>1, <1>3, <1>4 DEF IInv, TypeOK, Registered
<1>7. old # NoSession => ses1[old] = Free
  <2> SUFFICES ASSUME old # NoSession PROVE ses1[old] = Free
    OBVIOUS
  <2>1. v.ses \in [Sessions -> SessionRecord] /\ old \in Sessions
    BY <1>4, <1>5 DEF Shrinks, Pairs
  <2> HIDE DEF old, v
  <2> QED BY <2>1 DEF ClearedSes, v
<1>8. \/ Unadmitted(Lobby, v)
      \/ /\ old # NoSession /\ \E h \in Sessions : Admitted(Lobby, v, h)
         /\ m_playerLimit = 0 \/ (n - 1) - Len(v.queue) <= m_playerLimit
  <2>1. CASE old = NoSession
    BY <2>1 DEF Cleared, Unadmitted
  <2>2. CASE old # NoSession
    <3>1. v = RemoveQueuedPlayer(Lobby, n, old) /\ old \in Sessions
      BY <1>4, <2>2 DEF Cleared
    <3>2. Lobby \in Pairs /\ Distinct(Lobby.queue)
      BY LobbyIsPair
    <3> HIDE DEF v, n
    <3> QED BY <1>2, <2>2, <3>1, <3>2, LetsInAtMostOne
  <2> QED BY <2>1, <2>2
<1> HIDE DEF a, old, n
<1>9. Cardinality(Registered') = IF old = NoSession THEN n + 1 ELSE n
  BY <1>6, RegisteredCount, FS_AddElement DEF n
<1>10. /\ \A t \in Sessions : t # s => ses'[t] = ses1[t]
       /\ ses'[s].init = "none" => ses'[s].route = "none"
       /\ full => ses'[s].route # "ordinary"
       /\ \/ m_QueuedPlayer' = v.queue
          \/ full /\ m_QueuedPlayer' = Append(v.queue, s)
  <2>1. ses1[s] = ses[s] /\ ses[s].init = "none" /\ ses[s].route = "none" /\ ses[s] \in SessionRecord
    <3>1. v.ses[s] = ses[s]
      BY <1>1, <1>5 DEF Shrinks, Lobby
    <3> QED BY <1>1, <1>4, <1>5, <3>1 DEF HandedOver, RouteInv, IInv, TypeOK
  <2> HIDE DEF v, ses1, full
  <2>2. CASE /\ full /\ m_QueuedPlayer' = Append(v.queue, s)
             /\ ses' = [ses1 EXCEPT ![s].inQueue = TRUE]
    <3>1. ses'[s] = [ses[s] EXCEPT !.inQueue = TRUE]
          /\ \A t \in Sessions : t # s => ses'[t] = ses1[t]
      BY <1>1, <1>5, <2>1, <2>2
    <3>2. ses'[s].init = "none" /\ ses'[s].route = "none"
      BY <2>1, <3>1 DEF SessionRecord
    <3> QED BY <2>2, <3>1, <3>2
  <2>3. ASSUME NEW route \in {"ordinary", "staff", "tolerance"}, full => route # "ordinary",
               m_QueuedPlayer' = v.queue,
               ses' = [ses1 EXCEPT ![s] = InitializeSession(@, route)]
        PROVE  /\ \A t \in Sessions : t # s => ses'[t] = ses1[t]
               /\ ses'[s].init = "none" => ses'[s].route = "none"
               /\ full => ses'[s].route # "ordinary"
               /\ m_QueuedPlayer' = v.queue
    <3>1. ses'[s] = InitializeSession(ses[s], route)
          /\ \A t \in Sessions : t # s => ses'[t] = ses1[t]
      BY <1>1, <1>5, <2>1, <2>3
    <3>2. ses'[s].init = "pending" /\ ses'[s].route = route
      BY <2>1, <3>1 DEF SessionRecord, InitializeSession
    <3> QED BY <2>3, <3>1, <3>2
  <2> QED BY <1>3, <2>2, <2>3
<1>11. RouteInv'
  <2> SUFFICES ASSUME NEW t \in Sessions, t # s, t # old, ses'[t].init = "none"
               PROVE  ses'[t].route = "none"
    <3>1. ASSUME old \in Sessions
          PROVE  ses'[old].route = "none"
      <4>1. ses'[old] = Free
        BY <1>4, <1>7, <1>10, <3>1, ConstantsAssumption
      <4> QED BY <4>1 DEF Free, Fresh
    <3> QED BY <1>10, <3>1 DEF RouteInv
  <2>1. ses'[t] = v.ses[t]
    BY <1>5, <1>10
  <2>2. v.ses[t].init = Lobby.ses[t].init /\ v.ses[t].route = Lobby.ses[t].route
    BY <1>8, <2>1 DEF Unadmitted, Admitted
  <2> QED BY <2>1, <2>2 DEF Lobby, RouteInv
<1>12. v.queue \in Seq(Sessions) /\ Len(v.queue) \in Nat
  BY <1>5 DEF Shrinks, Pairs
<1>13. AdmitsStep
  <2> SUFFICES ASSUME NEW t \in Sessions, ses[t].route # "ordinary",
                      ses'[t].route = "ordinary", m_playerLimit # 0
               PROVE  Cardinality(Ordinary') <= m_playerLimit
    BY DEF AdmitsStep
  <2>1. /\ Cardinality(Ordinary') \in Nat
        /\ Cardinality(Ordinary') <= Cardinality(Registered') - Len(m_QueuedPlayer')
        /\ a \notin Ordinary' /\ ~Contains(m_QueuedPlayer', s)
             => Cardinality(Ordinary') + 1 <= Cardinality(Registered') - Len(m_QueuedPlayer')
    BY <1>6, <1>11, OrdinaryCountNext DEF OrdinaryBound
  <2>2. Len(m_QueuedPlayer') \in Nat
    BY DEF IInv, TypeOK
  <2>3. CASE ~full
    <3>1. Cardinality(Registered') <= m_playerLimit
      <4>1. Counted(old) = IF old # NoSession /\ ~Queued(old) THEN n - 1 ELSE n
        BY DEF Counted, n
      <4>2. Counted(old) < m_playerLimit
        BY <1>2, <2>3, <4>1
      <4> QED BY <1>2, <1>9, <4>1, <4>2
    <3>2. \A r, x, c \in Nat : r <= m_playerLimit /\ c <= r - x => c <= m_playerLimit
      BY <1>2
    <3>3. Cardinality(Registered') \in Nat
      BY <1>2, <1>9
    <3> QED BY <2>1, <2>2, <3>1, <3>2, <3>3
  <2>4. CASE full
    <3>1. t # s /\ ses'[t] = ses1[t]
      BY <1>10, <2>4
    <3>2. t # old
      BY <1>4, <1>7, <3>1, ConstantsAssumption DEF Free, Fresh
    <3>3. v.ses[t] = ses1[t]
      BY <1>5, <3>2
    <3>4. ~Unadmitted(Lobby, v)
      BY <3>1, <3>3 DEF Unadmitted, Lobby
    <3>5. old # NoSession /\ (n - 1) - Len(v.queue) <= m_playerLimit
      BY <1>8, <3>4
    <3>6. Cardinality(Registered') = n
      BY <1>9, <3>5
    <3>7. Cardinality(Ordinary') <= (n - 1) - Len(v.queue)
      <4>1. CASE m_QueuedPlayer' = Append(v.queue, s)
        <5>1. Len(m_QueuedPlayer') = Len(v.queue) + 1
          BY <1>1, <1>12, <4>1, AppendProperties
        <5>2. \A c, x \in Nat : c <= n - (x + 1) => c <= (n - 1) - x
          BY <1>2
        <5> QED BY <1>12, <2>1, <3>6, <5>1, <5>2
      <4>2. CASE m_QueuedPlayer' = v.queue
        <5>1. a \notin Ordinary'
          BY <1>6, <1>10, <2>4 DEF Ordinary
        <5>2. ~Contains(v.queue, s)
          BY <1>1, <1>5 DEF Shrinks, Lobby
        <5>3. \A c, x \in Nat : c + 1 <= n - x => c <= (n - 1) - x
          BY <1>2
        <5> QED BY <1>12, <2>1, <3>6, <4>2, <5>1, <5>2, <5>3
      <4> QED BY <1>10, <4>1, <4>2
    <3>8. \A k, x, c \in Nat :
            (k - 1) - x <= m_playerLimit /\ c <= (k - 1) - x => c <= m_playerLimit
      BY <1>2
    <3> QED BY <1>2, <1>12, <2>1, <3>5, <3>7, <3>8
  <2> QED BY <2>3, <2>4
<1> QED BY <1>11, <1>13

LEMMA AdmitsNext == ASSUME IInv, RouteInv, [Next]_vars PROVE RouteInv' /\ AdmitsStep
<1>1. IInv'
  BY StepInv
<1>2. CASE Network
  BY <1>2, QuietNetwork, NobodyLetInStep
<1>3. CASE Console
  BY <1>3, QuietConsole, NobodyLetInStep
<1>4. CASE \/ BeginTick \/ AddSessionOutOfTurn \/ AddSessionsDone \/ EndTick
          \/ UNCHANGED vars
  <2>1. NobodyLetIn
    BY <1>4 DEF BeginTick, AddSessionOutOfTurn, AddSessionsDone, EndTick, vars, NobodyLetIn
  <2> QED BY <2>1, NobodyLetInStep
<1>5. CASE AddSession
  <2>1. CASE RejectSession(Head(addSessQueue))
    <3>1. NobodyLetIn
      BY <2>1 DEF RejectSession, NobodyLetIn, Free, Fresh, IInv, TypeOK
    <3> QED BY <3>1, NobodyLetInStep
  <2>2. CASE AcceptSession(Head(addSessQueue))
    BY <1>1, <1>5, <2>2, AdmitsAcceptSession
  <2> QED BY <1>5, <2>1, <2>2 DEF AddSession
<1>6. ASSUME NEW a \in Accounts, UpdateSession(a)
      PROVE  RouteInv' /\ AdmitsStep
  <2> DEFINE s == m_sessions[a]
  <2>1. a \in Registered /\ s \in Sessions /\ ses[s] \in SessionRecord
    BY <1>6 DEF UpdateSession, Registered, IInv, TypeOK, Tables
  <2>2. PICK q \in ProcessPackets(ses[s]) :
          LET r == CleanupSockets(ProcessQueryCallbacks(q))
          IN  \/ RemoveFinished(a, s, r)
              \/ /\ ses' = [ses EXCEPT ![s] = r]
                 /\ UNCHANGED <<m_sessions, m_QueuedPlayer, m_disconnects>>
    BY <1>6, Zenon DEF UpdateSession
  <2> DEFINE r == CleanupSockets(ProcessQueryCallbacks(q))
  <2>3. r \in SessionRecord /\ r.route = ses[s].route /\ (r.init = "none" => ses[s].init = "none")
    BY <2>1, UpdatedSession
  <2> HIDE DEF r
  <2>4. CASE RemoveFinished(a, s, r)
    BY <1>1, <2>1, <2>3, <2>4, AdmitsRemoveFinished
  <2>5. CASE ses' = [ses EXCEPT ![s] = r]
    <3> HIDE DEF s
    <3>1. NobodyLetIn
      BY <2>1, <2>3, <2>5 DEF NobodyLetIn, IInv, TypeOK
    <3> QED BY <3>1, NobodyLetInStep
  <2> QED BY <2>2, <2>4, <2>5 DEF r
<1> QED BY <1>2, <1>3, <1>4, <1>5, <1>6 DEF Next, UpdateSessions

(* Whatever the limit is changed to while the server runs, an ordinary      *)
(* player is let in only when that leaves no more of them than the limit of *)
(* that moment: by AddSession_, by the place a replaced session gives up,   *)
(* and by either of the two calls of RemoveQueuedPlayer in the sweep.       *)
THEOREM AdmissionsWithinLimit == Spec => AdmitsWithinLimit
<1>1. Init => IInv /\ RouteInv
  BY InitInv DEF Init, RouteInv, Free, Fresh
<1>2. IInv /\ RouteInv /\ [Next]_vars => (IInv /\ RouteInv)' /\ AdmitsStep
  BY StepInv, AdmitsNext
<1>3. IInv /\ RouteInv /\ [Next]_vars => [AdmitsStep]_vars
  BY <1>2
<1>4. Spec => [][AdmitsStep]_vars
  BY <1>1, <1>2, <1>3, PTL DEF Spec
<1> QED BY <1>4 DEF AdmitsWithinLimit, AdmitsStep

-----------------------------------------------------------------------------
(* The refinement of Admission.  Its two variables are Inside and Line.     *)

Line == LineOf(m_QueuedPlayer)
Ids == Accounts \cup {NoAccount}

LEMMA LineIs ==
    ASSUME IInv, NEW q \in Seq(Sessions)
    PROVE  /\ LineOf(q) \in Seq(Ids) /\ Len(LineOf(q)) = Len(q)
           /\ \A i \in 1..Len(q) : q[i] \in Sessions /\ LineOf(q)[i] = ses[q[i]].acct
<1>1. \A i \in 1..Len(q) : q[i] \in Sessions /\ ses[q[i]].acct \in Ids
  BY DEF IInv, TypeOK, SessionRecord, Ids
<1>2. Len(q) \in Nat
  OBVIOUS
<1> QED BY <1>1, <1>2 DEF LineOf

LEMMA LineEquals ==
    ASSUME IInv, NEW q \in Seq(Sessions), NEW L \in Seq(Ids), Len(L) = Len(q),
           \A i \in 1..Len(q) : L[i] = ses[q[i]].acct
    PROVE  LineOf(q) = L
  BY LineIs, SeqEqual

LEMMA LineTail ==
    ASSUME IInv, NEW q \in Seq(Sessions), q # <<>>
    PROVE  LineOf(q) # <<>> /\ LineOf(Tail(q)) = Tail(LineOf(q))
           /\ Head(LineOf(q)) = ses[Head(q)].acct
<1>1. Len(q) \in Nat /\ Len(q) > 0 /\ Head(q) = q[1] /\ Tail(q) \in Seq(Sessions)
      /\ Len(Tail(q)) = Len(q) - 1 /\ \A i \in 1..Len(q) - 1 : Tail(q)[i] = q[i + 1]
  OBVIOUS
<1>2. PICK L : L = LineOf(q)
  OBVIOUS
<1>3. L \in Seq(Ids) /\ Len(L) = Len(q) /\ \A i \in 1..Len(q) : L[i] = ses[q[i]].acct
  BY <1>2, LineIs
<1>4. L # <<>> /\ Tail(L) \in Seq(Ids) /\ Len(Tail(L)) = Len(q) - 1 /\ Head(L) = L[1]
      /\ \A i \in 1..Len(q) - 1 : Tail(L)[i] = L[i + 1]
  BY <1>1, <1>3
<1>5. \A i \in 1..Len(q) - 1 : Tail(L)[i] = ses[Tail(q)[i]].acct
  BY <1>1, <1>3, <1>4
<1>6. LineOf(Tail(q)) = Tail(L)
  BY <1>1, <1>4, <1>5, LineEquals
<1> QED BY <1>1, <1>2, <1>3, <1>4, <1>6

LEMMA LineRemoveAt ==
    ASSUME IInv, NEW q \in Seq(Sessions), NEW k \in 1..Len(q)
    PROVE  LineOf(RemoveAt(q, k)) = RemoveAt(LineOf(q), k)
<1>1. PICK L : L = LineOf(q)
  OBVIOUS
<1>2. L \in Seq(Ids) /\ Len(L) = Len(q) /\ \A i \in 1..Len(q) : L[i] = ses[q[i]].acct
  BY <1>1, LineIs
<1>3. /\ RemoveAt(q, k) \in Seq(Sessions) /\ Len(RemoveAt(q, k)) = Len(q) - 1
      /\ \A i \in 1..Len(q) - 1 : RemoveAt(q, k)[i] = IF i < k THEN q[i] ELSE q[i + 1]
  BY RemoveAtProperties
<1>4. /\ RemoveAt(L, k) \in Seq(Ids) /\ Len(RemoveAt(L, k)) = Len(q) - 1
      /\ \A i \in 1..Len(q) - 1 : RemoveAt(L, k)[i] = IF i < k THEN L[i] ELSE L[i + 1]
  BY <1>2, RemoveAtProperties
<1>5. \A i \in 1..Len(q) - 1 : i \in 1..Len(q) /\ i + 1 \in 1..Len(q)
  OBVIOUS
<1>6. \A i \in 1..Len(q) - 1 : RemoveAt(L, k)[i] = ses[RemoveAt(q, k)[i]].acct
  BY <1>2, <1>3, <1>4, <1>5
<1> QED BY <1>1, <1>3, <1>4, <1>6, LineEquals

\* An account leaves the line where its session leaves the queue.
LEMMA LineRemoveFirst ==
    ASSUME IInv, NEW a \in Registered, Contains(m_QueuedPlayer, m_sessions[a])
    PROVE  LineOf(RemoveFirst(m_QueuedPlayer, m_sessions[a])) = RemoveFirst(Line, a)
<1> DEFINE q == m_QueuedPlayer
<1>1. q \in Seq(Sessions)
  BY DEF IInv, TypeOK
<1>2. PICK k \in 1..Len(q) :
        q[k] = m_sessions[a] /\ RemoveFirst(q, m_sessions[a]) = RemoveAt(q, k)
  BY <1>1, RemoveFirstIsRemoveAt
<1>3. PICK L : L = Line
  OBVIOUS
<1>4. L \in Seq(Ids) /\ Len(L) = Len(q)
  BY <1>1, <1>3, LineIs DEF Line
<1>5. \A i \in 1..Len(q) : L[i] \in Registered /\ m_sessions[L[i]] = q[i]
  BY <1>3, WaitingAccounts DEF Line
<1>6. L[k] = a
  BY <1>2, <1>5 DEF IInv, Tables
<1>7. Contains(L, a)
  BY <1>4, <1>6 DEF Contains
<1>8. PICK j \in 1..Len(L) : L[j] = a /\ RemoveFirst(L, a) = RemoveAt(L, j)
  BY <1>4, <1>7, RemoveFirstIsRemoveAt
<1>9. j = k
  BY <1>2, <1>4, <1>5, <1>8 DEF IInv, Tables, Distinct
<1> QED BY <1>1, <1>2, <1>3, <1>8, <1>9, LineRemoveAt DEF Line

-----------------------------------------------------------------------------
(* The definitions of Admission, in terms of Inside and Line.               *)

LEMMA PromiseRemoveFirst ==
    ASSUME NEW q, NEW a PROVE Promise!RemoveFirst(q, a) = RemoveFirst(q, a)
<1> DEFINE I == {i \in 1..Len(q) : q[i] = a}
<1>1. Promise!Min(I) = Min(I)
  BY DEF Min, Promise!Min
<1>2. \A i : Promise!RemoveAt(q, i) = RemoveAt(q, i)
  BY DEF RemoveAt, Promise!RemoveAt
<1>3. Promise!SelectInSeq(q, LAMBDA v : v = a) = SelectInSeq(q, LAMBDA v : v = a)
  BY <1>1 DEF SelectInSeq, Promise!SelectInSeq
<1> QED BY <1>2, <1>3 DEF RemoveFirst, Promise!RemoveFirst

LEMMA PromiseRoom ==
    ASSUME NEW X
    PROVE  Promise!Room(X) <=> PlayerLimit = 0 \/ Cardinality(X) < PlayerLimit
<1>1. Promise!Cardinality(X) = Cardinality(X)
  BY DEF Promise!Cardinality, Cardinality
<1> QED BY <1>1 DEF Promise!Room

LEMMA PromiseVariables ==
    /\ {a \in Registered : ~Queued(m_sessions[a])} = Inside
    /\ [i \in 1..Len(m_QueuedPlayer) |-> ses[m_QueuedPlayer[i]].acct] = Line
  BY DEF Inside, Line, LineOf, Queued

LEMMA PromiseWithout ==
    ASSUME NEW a
    PROVE  Promise!Without(a) =
             IF a \in Inside THEN Promise!HandOver(Inside \ {a}, Line)
             ELSE [inside |-> Inside, line |-> RemoveFirst(Line, a)]
  BY PromiseVariables, PromiseRemoveFirst DEF Promise!Without

LEMMA PromisePresent ==
    ASSUME IInv, NEW a \in Accounts PROVE Promise!Present(a) <=> a \in Registered
<1>1. Promise!Present(a) <=> a \in Inside \/ \E i \in 1..Len(Line) : Line[i] = a
  BY PromiseVariables DEF Promise!Present, Promise!Contains
<1>2. Len(Line) = Len(m_QueuedPlayer)
  BY LineIs DEF Line, IInv, TypeOK
<1>3. \A i \in 1..Len(Line) : Line[i] \in Registered /\ m_sessions[Line[i]] = m_QueuedPlayer[i]
  BY <1>2, WaitingAccounts DEF Line
<1>4. ASSUME NEW i \in 1..Len(Line), a \in Registered, m_QueuedPlayer[i] = m_sessions[a]
      PROVE  Line[i] = a
  BY <1>3, <1>4 DEF IInv, Tables
<1> QED BY <1>1, <1>2, <1>3, <1>4 DEF Inside, Contains

LEMMA PromiseStutter ==
    UNCHANGED <<Inside, Line>> => UNCHANGED Promise!vars
  BY DEF Promise!vars, Inside, Line, LineOf, Queued

-----------------------------------------------------------------------------
(* What is left when the session of account a has been taken out of the     *)
(* lobby and the queue of those who wait has become q.                      *)
Rest(a, q) ==
    [inside |-> {b \in Registered \ {a} : ~Contains(q, m_sessions[b])}, line |-> LineOf(q)]

(* RemoveQueuedPlayer does what Admission says of an account that goes: it  *)
(* leaves the line, or hands its place to the first in the line.            *)
LEMMA RemoveQueuedPlayerIsWithout ==
    ASSUME LInv, m_playerLimit = PlayerLimit, NEW a \in Registered, NEW w \in Pairs,
           w.queue = m_QueuedPlayer
    PROVE  Promise!Without(a) =
             Rest(a, RemoveQueuedPlayer(w, Cardinality(Registered), m_sessions[a]).queue)
<1> DEFINE s == m_sessions[a]
           n == Cardinality(Registered)
           q == m_QueuedPlayer
           d == Dequeue(w, s)
           active == n - Len(q)
           count == IF ~Contains(q, s) /\ active > 0 THEN active - 1 ELSE active
           v == RemoveQueuedPlayer(w, n, s)
<1>1. v = AdmitFirst(d, count)
  BY Zenon DEF RemoveQueuedPlayer
<1>2. /\ s \in Sessions /\ q \in Seq(Sessions) /\ Len(q) \in Nat /\ n \in Nat
      /\ m_playerLimit \in Nat /\ Distinct(q)
  BY RegisteredCount, ConstantsAssumption DEF LInv, IInv, TypeOK, Tables, Registered
<1>3. /\ IsFiniteSet(Inside) /\ Cardinality(Inside) = active
  BY InsideSize DEF LInv
<1> HIDE DEF v, n
<1>4. CASE a \in Inside
  <2>1. ~Contains(q, s) /\ d = w
    BY <1>4 DEF Inside, Dequeue
  <2>2. IsFiniteSet(Inside \ {a}) /\ Cardinality(Inside \ {a}) = active - 1
    BY <1>3, <1>4, FS_RemoveElement
  <2>3. Cardinality(Inside \ {a}) \in Nat
    BY <2>2, FS_CardinalityType
  <2>4. count = Cardinality(Inside \ {a})
    BY <1>2, <2>1, <2>2, <2>3
  <2>5. Promise!Without(a) = Promise!HandOver(Inside \ {a}, Line)
    BY <1>4, PromiseWithout
  <2>6. Promise!Room(Inside \ {a}) <=> m_playerLimit = 0 \/ count < m_playerLimit
    BY <2>4, PromiseRoom
  <2>7. Inside \ {a} = {b \in Registered \ {a} : ~Contains(q, m_sessions[b])}
    BY DEF Inside
  <2> HIDE DEF count, d
  <2>8. CASE Promise!Room(Inside \ {a}) /\ q # <<>>
    <3>1. v.queue = Tail(q)
      BY <1>1, <2>1, <2>6, <2>8 DEF AdmitFirst
    <3>2. Line # <<>> /\ Tail(Line) = LineOf(Tail(q)) /\ Head(Line) = ses[Head(q)].acct
      BY <1>2, <2>8, LineTail DEF LInv, Line
    <3>3. Promise!Without(a) = [inside |-> (Inside \ {a}) \cup {Head(Line)}, line |-> Tail(Line)]
      BY <2>5, <2>8, <3>2 DEF Promise!HandOver
    <3>4. \A t : Contains(Tail(q), t) <=> Contains(q, t) /\ t # Head(q)
      BY <1>2, <2>8, TailProperties
    <3>5. Head(Line) \in Registered /\ m_sessions[Head(Line)] = Head(q) /\ Head(Line) # a
      <4>1. 1 \in 1..Len(q) /\ Head(q) = q[1] /\ LineOf(q)[1] = ses[q[1]].acct
        BY <1>2, <2>8 DEF LineOf
      <4>2. LineOf(q)[1] \in Registered /\ m_sessions[LineOf(q)[1]] = q[1] /\ Contains(q, q[1])
        BY <4>1, WaitingAccounts DEF LInv
      <4> QED BY <2>1, <3>2, <4>1, <4>2
    <3>6. \A b \in Registered : m_sessions[b] = Head(q) => b = Head(Line)
      BY <3>5 DEF LInv, IInv, Tables
    <3>7. (Inside \ {a}) \cup {Head(Line)}
            = {b \in Registered \ {a} : ~Contains(Tail(q), m_sessions[b])}
      BY <2>7, <3>4, <3>5, <3>6
    <3> QED BY <3>1, <3>2, <3>3, <3>7 DEF Rest, v, n
  <2>9. CASE ~(Promise!Room(Inside \ {a}) /\ q # <<>>)
    <3>1. v.queue = q
      BY <1>1, <2>1, <2>6, <2>9 DEF AdmitFirst
    <3>2. Line = <<>> <=> q = <<>>
      <4>1. Len(Line) = Len(q) /\ Line \in Seq(Ids)
        BY <1>2, LineIs DEF LInv, Line
      <4> QED BY <1>2, <4>1
    <3>3. Promise!Without(a) = [inside |-> Inside \ {a}, line |-> Line]
      BY <2>5, <2>9, <3>2 DEF Promise!HandOver
    <3> QED BY <2>7, <3>1, <3>3 DEF Rest, Line, v, n
  <2> QED BY <2>8, <2>9
<1>5. CASE a \notin Inside
  <2>1. Contains(q, s)
    BY <1>5 DEF Inside
  <2>2. q # <<>>
    BY <2>1, EmptyDistinct
  <2>3. ~(m_playerLimit = 0 \/ count < m_playerLimit)
    <3>1. m_playerLimit > 0 /\ active >= m_playerLimit
      BY <2>2 DEF LInv, NoIdlePlace, Active, n
    <3> QED BY <1>2, <2>1, <3>1
  <2>4. v = d
    <3> HIDE DEF count, d
    <3> QED BY <1>1, <2>3, Zenon DEF AdmitFirst
  <2>5. v.queue = RemoveFirst(q, s)
    BY <2>1, <2>4 DEF Dequeue
  <2>6. Promise!Without(a) = [inside |-> Inside, line |-> RemoveFirst(Line, a)]
    BY <1>5, PromiseWithout
  <2>7. RemoveFirst(Line, a) = LineOf(v.queue)
    BY <2>1, <2>5, LineRemoveFirst DEF LInv
  <2>8. ~Contains(v.queue, s) /\ \A t \in Sessions : Contains(v.queue, t) => Contains(q, t)
    BY <1>2, <2>4, DequeueShrinks DEF Shrinks
  <2>9. \A t : Contains(q, t) /\ t # s => Contains(v.queue, t)
    BY <1>2, <2>1, <2>5, RemoveFirstKeeps
  <2>10. \A b \in Registered : m_sessions[b] \in Sessions /\ (m_sessions[b] = s => b = a)
    BY DEF LInv, IInv, TypeOK, Tables, Registered
  <2>11. Inside = {b \in Registered \ {a} : ~Contains(v.queue, m_sessions[b])}
    <3> HIDE DEF s, q, v
    <3>1. Inside = {b \in Registered : ~Contains(q, m_sessions[b])}
      BY DEF Inside, q
    <3>2. \A b \in Registered \ {a} :
            Contains(q, m_sessions[b]) <=> Contains(v.queue, m_sessions[b])
      BY <2>8, <2>9, <2>10
    <3> QED BY <1>5, <3>1, <3>2
  <2> QED BY <2>6, <2>7, <2>11 DEF Rest, v, n
<1> QED BY <1>4, <1>5

-----------------------------------------------------------------------------
PromiseStep == [Promise!Next]_(Promise!vars)

\* The steps that leave both tables alone are none of Admission's.
LEMMA Unseen ==
    ASSUME LInv, UNCHANGED <<m_sessions, m_QueuedPlayer>>,
           \A i \in 1..Len(m_QueuedPlayer) :
             ses'[m_QueuedPlayer[i]].acct = ses[m_QueuedPlayer[i]].acct
    PROVE  PromiseStep
<1>1. Inside' = Inside
  BY DEF Inside, Registered
<1>2. Line' = Line
  BY DEF Line, LineOf
<1> QED BY <1>1, <1>2, PromiseStutter DEF PromiseStep

\* Whether a session is live or waits is the same before and after.
LEMMA UnseenSessions ==
    ASSUME LInv, UNCHANGED <<m_sessions, m_QueuedPlayer>>,
           \A t \in Sessions : Contains(m_QueuedPlayer, t) => ses'[t].acct = ses[t].acct
    PROVE  PromiseStep
<1>1. \A i \in 1..Len(m_QueuedPlayer) :
        m_QueuedPlayer[i] \in Sessions /\ Contains(m_QueuedPlayer, m_QueuedPlayer[i])
  BY WaitingAccounts DEF LInv
<1> QED BY <1>1, Unseen

LEMMA PromiseNetwork == ASSUME LInv, Network PROVE PromiseStep
<1>1. ASSUME NEW s \in Sessions, NEW a \in Accounts, Connect(a, s)
      PROVE  PromiseStep
  <2>1. ~Contains(m_QueuedPlayer, s)
    BY <1>1 DEF Connect, LInv, IInv, Tables, Waiting
  <2>2. \A t \in Sessions : t # s => ses'[t] = ses[t]
    BY <1>1 DEF Connect, LInv, IInv, TypeOK
  <2> QED BY <1>1, <2>1, <2>2, UnseenSessions DEF Connect
<1>2. ASSUME NEW s \in Sessions, Disconnect(s)
      PROVE  PromiseStep
  <2>1. \A t \in Sessions : ses'[t].acct = ses[t].acct
    BY <1>2 DEF Disconnect, LInv, IInv, TypeOK, SessionRecord
  <2> QED BY <1>2, <2>1, UnseenSessions DEF Disconnect
<1>3. ASSUME NEW s \in Sessions, QueriesAnswered(s)
      PROVE  PromiseStep
  <2>1. \A t \in Sessions : ses'[t].acct = ses[t].acct
    BY <1>3 DEF QueriesAnswered, LInv, IInv, TypeOK, SessionRecord
  <2> QED BY <1>3, <2>1, UnseenSessions DEF QueriesAnswered
<1>4. ASSUME NEW s \in Sessions, AbortLogin(s)
      PROVE  PromiseStep
  <2> DEFINE r == IF ses[s].player = "loading" THEN [ses[s] EXCEPT !.player = "none"]
                  ELSE [ses[s] EXCEPT !.conn = "lost"]
  <2>1. ses[s] \in SessionRecord
    BY DEF LInv, IInv, TypeOK
  <2>2. r.acct = ses[s].acct
    BY <2>1, KickedIsSession DEF SessionRecord
  <2>3. ses' = [ses EXCEPT ![s] = r]
    BY <1>4 DEF AbortLogin
  <2> HIDE DEF r
  <2>4. \A t \in Sessions : ses'[t].acct = ses[t].acct
    BY <2>2, <2>3 DEF LInv, IInv, TypeOK
  <2> QED BY <1>4, <2>4, UnseenSessions DEF AbortLogin
<1>5. ASSUME NEW s, EnterEncryptedModeAckAgain(s)
      PROVE  PromiseStep
  BY <1>5, UnseenSessions DEF EnterEncryptedModeAckAgain
<1> QED BY <1>1, <1>2, <1>3, <1>4, <1>5 DEF Network

\* KickAll is Close: everybody who waited is past the queue now.
LEMMA PromiseConsole == ASSUME FixedLimit, LInv, Console PROVE PromiseStep
<1>1. \A t \in Sessions : ses[t] \in SessionRecord
  BY DEF LInv, IInv, TypeOK
<1>2. CASE KickAllLess
  <2>1. \A t \in Sessions : ses'[t].acct = ses[t].acct
    BY <1>1, <1>2, KickedIsSession DEF KickAllLess
  <2> QED BY <1>2, <2>1, UnseenSessions DEF KickAllLess
<1>3. CASE KickAll
  <2>1. m_QueuedPlayer' = <<>> /\ m_sessions' = m_sessions
    BY <1>3 DEF KickAll
  <2>2. Line' = <<>>
    BY <2>1 DEF Line, LineOf
  <2>3. Inside' = Registered
    BY <2>1, EmptyDistinct DEF Inside, Registered
  <2>4. PICK L : L = Line
    OBVIOUS
  <2>5. DOMAIN L = 1..Len(m_QueuedPlayer)
    BY <2>4 DEF Line, LineOf
  <2>6. \A i \in DOMAIN L : L[i] \in Registered /\ m_sessions[L[i]] = m_QueuedPlayer[i]
    BY <2>4, <2>5, WaitingAccounts DEF LInv, Line
  <2>7. ASSUME NEW b \in Registered, b \notin Inside
        PROVE  \E i \in DOMAIN L : L[i] = b
    <3>1. PICK i \in 1..Len(m_QueuedPlayer) : m_QueuedPlayer[i] = m_sessions[b]
      BY <2>7 DEF Inside, Contains
    <3> QED BY <2>5, <2>6, <3>1 DEF LInv, IInv, Tables
  <2>8. Inside' = Inside \cup {L[i] : i \in DOMAIN L}
    <3>1. Inside \subseteq Registered
      BY DEF Inside
    <3> QED BY <2>3, <2>6, <2>7, <3>1
  <2>9. Promise!Close <=> Inside' = Inside \cup Promise!ToSet(Line) /\ Line' = <<>>
    BY DEF Promise!Close, Inside, Line, LineOf, Queued
  <2>10. Promise!Close
    BY <2>2, <2>4, <2>8, <2>9 DEF Promise!ToSet
  <2> QED BY <2>10 DEF PromiseStep, Promise!Next
<1>4. ASSUME NEW limit \in Limits
      PROVE  ~SetPlayerAmountLimit(limit)
  BY DEF SetPlayerAmountLimit, FixedLimit, LInv, IInv, TypeOK
<1> QED BY <1>2, <1>3, <1>4 DEF Console

\* The tables after the session of a was taken out, and nothing was added.
LEMMA PromiseRemoveFinished ==
    ASSUME LInv, m_playerLimit = PlayerLimit, NEW a \in Registered, NEW r \in SessionRecord,
           r.acct = a, RemoveFinished(a, m_sessions[a], r)
    PROVE  PromiseStep
<1> DEFINE s == m_sessions[a]
           n == Cardinality(Registered)
           w == [queue |-> m_QueuedPlayer, ses |-> [ses EXCEPT ![s] = r]]
           once == RemoveQueuedPlayer(w, n, s)
           twice == RemoveQueuedPlayer(once, n, s)
<1>1. /\ m_QueuedPlayer' = twice.queue
      /\ ses' = [twice.ses EXCEPT ![s] = Free]
      /\ m_sessions' = [m_sessions EXCEPT ![a] = NoSession]
  BY Zenon DEF RemoveFinished
<1>2. s \in Sessions /\ ses[s].acct = a /\ a \in Accounts
  BY DEF Registered, LInv, IInv, TypeOK, Tables
<1>3. n \in Nat /\ m_playerLimit \in Nat
  BY RegisteredCount, ConstantsAssumption DEF LInv, IInv, TypeOK
<1>4. /\ w \in Pairs /\ Distinct(w.queue) /\ w.queue = m_QueuedPlayer
      /\ \A t \in Sessions : w.ses[t].acct = ses[t].acct
  BY <1>2 DEF Pairs, LInv, IInv, TypeOK, Tables
<1>5. NoIdle(w.queue, n)
  BY <1>4, NoIdlePlaceIs DEF LInv
<1>6. Promise!Without(a) = Rest(a, once.queue)
  BY <1>4, RemoveQueuedPlayerIsWithout
<1> HIDE DEF s, n, w
<1>7. /\ once \in Pairs /\ Distinct(once.queue) /\ ~Contains(once.queue, s)
      /\ NoIdle(once.queue, n - 1)
      /\ \A t \in Sessions : once.ses[t].acct = ses[t].acct
  BY <1>2, <1>3, <1>4, <1>5, HandOver, RemoveQueuedPlayerShrinks DEF Shrinks
<1> HIDE DEF once
<1>8. twice = once
  BY <1>2, <1>3, <1>7, NothingToHandOver
<1> HIDE DEF twice
<1>9. \A t \in Sessions : t # s => ses'[t].acct = ses[t].acct
  <2>1. once.ses \in [Sessions -> SessionRecord]
    BY <1>7 DEF Pairs
  <2> QED BY <1>1, <1>2, <1>7, <1>8, <2>1
<1>10. /\ Registered' = Registered \ {a}
       /\ \A b \in Accounts : b # a => m_sessions'[b] = m_sessions[b]
  BY <1>1 DEF LInv, IInv, TypeOK, Registered
<1>11. Inside' = Rest(a, once.queue).inside
  BY <1>1, <1>8, <1>10 DEF Inside, Rest, Registered
<1>12. Line' = Rest(a, once.queue).line
  <2>1. \A i \in 1..Len(once.queue) : once.queue[i] \in Sessions /\ once.queue[i] # s
    BY <1>7 DEF Contains, Pairs
  <2> QED BY <1>1, <1>8, <1>9, <2>1 DEF Line, LineOf, Rest
<1>13. Promise!Leave(a)
  <2>1. Promise!Present(a)
    BY <1>2, PromisePresent DEF LInv
  <2>2. Inside' = Promise!Without(a).inside /\ Line' = Promise!Without(a).line
    BY <1>6, <1>11, <1>12
  <2>3. Promise!Become(Promise!Without(a))
    BY <2>2 DEF Promise!Become, Inside, Line, LineOf, Queued
  <2> QED BY <2>1, <2>3 DEF Promise!Leave
<1> QED BY <1>2, <1>13 DEF PromiseStep, Promise!Next

LEMMA PromiseUpdateSession ==
    ASSUME LInv, m_playerLimit = PlayerLimit, NEW a \in Accounts, UpdateSession(a)
    PROVE  PromiseStep
<1> DEFINE s == m_sessions[a]
<1>1. a \in Registered /\ s \in Sessions /\ ses[s] \in SessionRecord /\ ses[s].acct = a
  BY DEF UpdateSession, Registered, LInv, IInv, TypeOK, Tables
<1>2. PICK q \in ProcessPackets(ses[s]) :
        LET r == CleanupSockets(ProcessQueryCallbacks(q))
        IN  \/ RemoveFinished(a, s, r)
            \/ /\ ses' = [ses EXCEPT ![s] = r]
               /\ UNCHANGED <<m_sessions, m_QueuedPlayer, m_disconnects>>
  BY Zenon DEF UpdateSession
<1> DEFINE r == CleanupSockets(ProcessQueryCallbacks(q))
<1>3. r \in SessionRecord /\ r.acct = a
  BY <1>1, UpdatedSession
<1> HIDE DEF r
<1>4. CASE RemoveFinished(a, s, r)
  BY <1>1, <1>3, <1>4, PromiseRemoveFinished
<1>5. CASE /\ ses' = [ses EXCEPT ![s] = r]
           /\ UNCHANGED <<m_sessions, m_QueuedPlayer, m_disconnects>>
  <2> HIDE DEF s
  <2>1. \A t \in Sessions : ses'[t].acct = ses[t].acct
    BY <1>1, <1>3, <1>5 DEF LInv, IInv, TypeOK
  <2> QED BY <1>5, <2>1, UnseenSessions
<1> QED BY <1>2, <1>4, <1>5 DEF r

-----------------------------------------------------------------------------
(* The lobby in which AcceptSession puts the new session, beside so many    *)
(* registered ones: no place is free in it while somebody waits, and        *)
(* whether the world is full is whether a place is free in it.              *)
LEMMA ClearedFull ==
    ASSUME LInv, NEW old \in Sessions \cup {NoSession}
    PROVE  LET beside == IF old = NoSession THEN Cardinality(Registered)
                         ELSE Cardinality(Registered) - 1
               q == Cleared(old).queue
               full == m_playerLimit > 0 /\ Counted(old) >= m_playerLimit
           IN  /\ q \in Seq(Sessions) /\ Len(q) \in Nat
               /\ full => beside - Len(q) >= m_playerLimit
               /\ ~full => q = <<>> /\ (m_playerLimit > 0 => beside < m_playerLimit)
<1> DEFINE n == Cardinality(Registered)
           beside == IF old = NoSession THEN n ELSE n - 1
           v == Cleared(old)
           full == m_playerLimit > 0 /\ Counted(old) >= m_playerLimit
<1>1. n \in Nat /\ m_playerLimit \in Nat /\ m_QueuedPlayer \in Seq(Sessions)
  BY RegisteredCount, ConstantsAssumption DEF LInv, IInv, TypeOK
<1>2. Counted(old) = IF old # NoSession /\ ~Queued(old) THEN n - 1 ELSE n
  BY DEF Counted
<1>3. Shrinks(Lobby, v)
  BY ClearedShrinks DEF LInv
<1>4. v.queue \in Seq(Sessions) /\ Len(v.queue) \in Nat /\ (v.queue = <<>> <=> Len(v.queue) = 0)
  BY <1>3, LengthZero DEF Shrinks, Pairs
<1>5. NoIdle(v.queue, beside)
  <2>1. NoIdle(m_QueuedPlayer, n) /\ Lobby.queue = m_QueuedPlayer
    BY NoIdlePlaceIs DEF LInv, Lobby
  <2>2. CASE old = NoSession
    BY <2>1, <2>2 DEF Cleared
  <2>3. CASE old # NoSession
    <3>1. v = RemoveQueuedPlayer(Lobby, n, old) /\ old \in Sessions
      BY <2>3 DEF Cleared
    <3>2. Lobby \in Pairs /\ Distinct(Lobby.queue)
      BY LobbyIsPair DEF LInv
    <3> HIDE DEF v, n
    <3> QED BY <1>1, <2>1, <2>3, <3>1, <3>2, HandOver
  <2> QED BY <2>2, <2>3
<1> HIDE DEF n, v
<1>6. ASSUME full
      PROVE  beside - Len(v.queue) >= m_playerLimit
  <2>1. CASE v.queue # <<>>
    BY <1>5, <2>1 DEF NoIdle
  <2>2. CASE v.queue = <<>>
    <3>1. CASE old # NoSession /\ Queued(old)
      <4>1. m_QueuedPlayer # <<>>
        BY <3>1, EmptyDistinct DEF Queued
      <4>2. Len(m_QueuedPlayer) \in Nat /\ Len(m_QueuedPlayer) # 0
        BY <1>1, <4>1, LengthZero
      <4>3. n - Len(m_QueuedPlayer) >= m_playerLimit
        BY <4>1 DEF LInv, NoIdlePlace, Active, n
      <4> QED BY <1>1, <1>4, <2>2, <3>1, <4>2, <4>3
    <3>2. CASE ~(old # NoSession /\ Queued(old))
      BY <1>1, <1>2, <1>4, <1>6, <2>2, <3>2
    <3> QED BY <3>1, <3>2
  <2> QED BY <2>1, <2>2
<1>7. ASSUME ~full
      PROVE  v.queue = <<>> /\ (m_playerLimit > 0 => beside < m_playerLimit)
  <2>1. m_playerLimit = 0 \/ Counted(old) < m_playerLimit
    BY <1>1, <1>2, <1>7
  <2>2. /\ m_QueuedPlayer = <<>>
        /\ m_playerLimit > 0 => n + (IF old = NoSession THEN 1 ELSE 0) <= m_playerLimit
    BY <2>1, NotFull DEF n
  <2>3. \A t \in Sessions : ~Contains(v.queue, t)
    BY <1>3, <2>2, EmptyDistinct DEF Shrinks, Lobby
  <2>4. v.queue = <<>>
    <3> SUFFICES ASSUME v.queue # <<>> PROVE FALSE
      OBVIOUS
    <3>1. 1 \in 1..Len(v.queue) /\ v.queue[1] \in Sessions
      BY <1>4
    <3> QED BY <2>3, <3>1 DEF Contains
  <2> QED BY <1>1, <2>2, <2>4
<1> QED BY <1>4, <1>6, <1>7 DEF n, v

\* Admission's world without the account of the session AcceptSession adds.
LEMMA ClearedIsRest ==
    ASSUME LInv, m_playerLimit = PlayerLimit, NEW a \in Accounts
    PROVE  LET W == Rest(a, Cleared(m_sessions[a]).queue)
           IN  IF a \in Registered THEN Promise!Without(a) = W
               ELSE W = [inside |-> Inside, line |-> Line]
<1>1. CASE a \in Registered
  <2>1. Cleared(m_sessions[a])
          = RemoveQueuedPlayer(Lobby, Cardinality(Registered), m_sessions[a])
    BY <1>1 DEF Cleared, Registered
  <2>2. Lobby \in Pairs /\ Lobby.queue = m_QueuedPlayer
    BY LobbyIsPair DEF LInv, Lobby
  <2> QED BY <1>1, <2>1, <2>2, RemoveQueuedPlayerIsWithout
<1>2. CASE a \notin Registered
  <2>1. Cleared(m_sessions[a]).queue = m_QueuedPlayer
    BY <1>2 DEF Cleared, Registered, Lobby
  <2>2. Registered \ {a} = Registered
    BY <1>2
  <2> QED BY <1>2, <2>1, <2>2 DEF Rest, Inside, Line
<1> QED BY <1>1, <1>2

InsideCounted ==
    IsFiniteSet(Inside) /\ Cardinality(Inside) = Cardinality(Registered) - Len(m_QueuedPlayer)

LEMMA InsideSizeNext ==
    IInv' => /\ IsFiniteSet(Inside')
             /\ Cardinality(Inside') = Cardinality(Registered') - Len(m_QueuedPlayer')
<1>1. IInv => InsideCounted
  BY InsideSize DEF InsideCounted
<1>2. IInv' => InsideCounted'
  BY <1>1, PTL
<1> QED BY <1>2 DEF InsideCounted

LEMMA PromiseAcceptSession ==
    ASSUME LInv, LInv', m_playerLimit = PlayerLimit, AddSession,
           AcceptSession(Head(addSessQueue))
    PROVE  PromiseStep
<1> DEFINE s == Head(addSessQueue)
           a == ses[s].acct
           old == m_sessions[a]
           n == Cardinality(Registered)
           v == Cleared(old)
           ses1 == ClearedSes(old)
           full == m_playerLimit > 0 /\ Counted(old) >= m_playerLimit
           W == Rest(a, v.queue)
<1>1. /\ s \in Sessions /\ HandedOver(s) /\ a \in Accounts /\ ~Contains(m_QueuedPlayer, s)
      /\ \A b \in Registered : m_sessions[b] \in Sessions /\ m_sessions[b] # s
  BY HeadHandedOver DEF AddSession, LInv
<1>2. n \in Nat /\ m_playerLimit \in Nat
  BY RegisteredCount, ConstantsAssumption DEF LInv, IInv, TypeOK
<1>3. /\ m_sessions' = [m_sessions EXCEPT ![a] = s]
      /\ \/ /\ full
            /\ m_QueuedPlayer' = Append(v.queue, s)
            /\ ses' = [ses1 EXCEPT ![s].inQueue = TRUE]
         \/ \E route \in {"ordinary", "staff", "tolerance"} :
              /\ m_QueuedPlayer' = v.queue
              /\ ses' = [ses1 EXCEPT ![s] = InitializeSession(@, route)]
  BY <1>2, AcceptSessionDecides
<1>4. IF a \in Registered THEN Promise!Without(a) = W
      ELSE W = [inside |-> Inside, line |-> Line]
  BY <1>1, ClearedIsRest
<1>5. Promise!Present(a) <=> a \in Registered
  BY <1>1, PromisePresent DEF LInv
<1> HIDE DEF s
<1>6. old \in Sessions \cup {NoSession} /\ old # s /\ s # NoSession
  BY <1>1, ConstantsAssumption DEF LInv, IInv, TypeOK, Registered
<1>7. /\ v.queue \in Seq(Sessions) /\ Len(v.queue) \in Nat
      /\ full => (IF old = NoSession THEN n ELSE n - 1) - Len(v.queue) >= m_playerLimit
      /\ ~full => v.queue = <<>>
                  /\ (m_playerLimit > 0 => (IF old = NoSession THEN n ELSE n - 1) < m_playerLimit)
  BY <1>6, ClearedFull
<1>8. /\ Shrinks(Lobby, v) /\ ~Contains(v.queue, old) /\ ~Contains(v.queue, s)
      /\ ses1 \in [Sessions -> SessionRecord]
      /\ \A t \in Sessions : t # old => ses1[t] = v.ses[t]
  <2>1. Shrinks(Lobby, v) /\ ~Contains(v.queue, old) /\ ses1 \in [Sessions -> SessionRecord]
        /\ \A t \in Sessions : t # old => ses1[t] = v.ses[t]
    BY <1>6, ClearedShrinks DEF LInv
  <2> QED BY <1>1, <2>1 DEF Shrinks, Lobby
<1>9. /\ Registered' = Registered \cup {a} /\ m_sessions'[a] = s
      /\ \A b \in Accounts : b # a => m_sessions'[b] = m_sessions[b]
      /\ a \in Registered <=> old # NoSession
  BY <1>1, <1>3, <1>6 DEF LInv, IInv, TypeOK, Registered
<1>10. \A t \in Sessions : t # old => ses1[t].acct = ses[t].acct
  BY <1>8 DEF Shrinks, Lobby
<1>11. a = ses[s].acct
  OBVIOUS
<1> HIDE DEF v, ses1, a, old, n
<1>12. /\ \A t \in Sessions : t # old => ses'[t].acct = ses[t].acct
       /\ m_QueuedPlayer' = v.queue \/ (full /\ m_QueuedPlayer' = Append(v.queue, s))
  <2>1. CASE full /\ m_QueuedPlayer' = Append(v.queue, s)
             /\ ses' = [ses1 EXCEPT ![s].inQueue = TRUE]
    <3>1. \A t \in Sessions : ses'[t].acct = ses1[t].acct
      BY <1>1, <1>8, <2>1 DEF SessionRecord
    <3> QED BY <1>10, <2>1, <3>1
  <2>2. ASSUME NEW route \in {"ordinary", "staff", "tolerance"}, m_QueuedPlayer' = v.queue,
               ses' = [ses1 EXCEPT ![s] = InitializeSession(@, route)]
        PROVE  /\ \A t \in Sessions : t # old => ses'[t].acct = ses[t].acct
               /\ m_QueuedPlayer' = v.queue
    <3>1. InitializeSession(ses1[s], route).acct = ses1[s].acct
      BY <1>1, <1>8 DEF SessionRecord, InitializeSession
    <3>2. \A t \in Sessions : ses'[t].acct = ses1[t].acct
      BY <1>1, <1>8, <2>2, <3>1
    <3> QED BY <1>10, <2>2, <3>2
  <2> QED BY <1>3, <2>1, <2>2
<1>13. \A i \in 1..Len(v.queue) : v.queue[i] \in Sessions /\ v.queue[i] # old /\ v.queue[i] # s
  BY <1>7, <1>8 DEF Contains
<1>14. \/ /\ Inside' = W.inside \cup {a} /\ Line' = W.line
          /\ m_QueuedPlayer' = v.queue
       \/ /\ full /\ Inside' = W.inside /\ Line' = Append(W.line, a)
          /\ m_QueuedPlayer' = Append(v.queue, s)
  <2>1. CASE m_QueuedPlayer' = v.queue
    <3>1. Inside' = W.inside \cup {a}
      BY <1>1, <1>8, <1>9, <2>1 DEF Inside, Rest, Registered
    <3>2. Line' = W.line
      BY <1>12, <1>13, <2>1 DEF Line, LineOf, Rest
    <3> QED BY <2>1, <3>1, <3>2
  <2>2. CASE full /\ m_QueuedPlayer' = Append(v.queue, s)
    <3>1. /\ \A t : Contains(Append(v.queue, s), t) <=> Contains(v.queue, t) \/ t = s
      BY <1>1, <1>7, <1>8, AppendDistinct DEF Shrinks
    <3>2. Inside' = W.inside
      BY <1>1, <1>9, <2>2, <3>1 DEF Inside, Rest, Registered
    <3>3. /\ Len(Append(v.queue, s)) = Len(v.queue) + 1
          /\ Append(v.queue, s)[Len(v.queue) + 1] = s
          /\ \A i \in 1..Len(v.queue) : Append(v.queue, s)[i] = v.queue[i]
      BY <1>1, <1>7, AppendProperties
    <3>4. PICK L : L = LineOf(v.queue)
      OBVIOUS
    <3>5. L \in Seq(Ids) /\ Len(L) = Len(v.queue)
          /\ \A i \in 1..Len(v.queue) : L[i] = ses[v.queue[i]].acct
      BY <1>7, <3>4, LineIs DEF LInv
    <3>6. a \in Ids /\ ses'[s].acct = a
      BY <1>1, <1>6, <1>11, <1>12 DEF Ids
    <3>7. Line' = Append(L, a)
      <4> DEFINE M == [i \in 1..Len(v.queue) + 1 |-> ses'[Append(v.queue, s)[i]].acct]
      <4>1. Line' = M
        BY <2>2, <3>3 DEF Line, LineOf
      <4>2. \A i \in 1..Len(v.queue) + 1 : M[i] = IF i <= Len(v.queue) THEN L[i] ELSE a
        BY <1>7, <1>12, <1>13, <3>3, <3>5, <3>6
      <4>3. Append(L, a) \in Seq(Ids) /\ Len(Append(L, a)) = Len(v.queue) + 1
            /\ \A i \in 1..Len(v.queue) + 1 :
                 Append(L, a)[i] = IF i <= Len(v.queue) THEN L[i] ELSE a
        BY <1>7, <3>5, <3>6, AppendProperties
      <4>4. M \in Seq(Ids) /\ Len(M) = Len(v.queue) + 1
        <5>1. \A i \in 1..Len(v.queue) : L[i] \in Ids
          BY <3>5
        <5>2. DOMAIN M = 1..Len(v.queue) + 1 /\ M = [i \in DOMAIN M |-> M[i]]
          OBVIOUS
        <5> HIDE DEF M
        <5>3. ASSUME NEW i \in 1..Len(v.queue) + 1
              PROVE  M[i] \in Ids
          <6>1. CASE i <= Len(v.queue)
            BY <1>7, <4>2, <5>1, <6>1
          <6>2. CASE ~(i <= Len(v.queue))
            BY <3>6, <4>2, <6>2
          <6> QED BY <6>1, <6>2
        <5>4. M \in [1..Len(v.queue) + 1 -> Ids]
          BY <5>2, <5>3
        <5> QED BY <1>7, <5>4
      <4> HIDE DEF M
      <4>5. M = Append(L, a)
        BY <4>2, <4>3, <4>4, SeqEqual
      <4> QED BY <4>1, <4>5
    <3> QED BY <2>2, <3>2, <3>4, <3>7 DEF Rest
  <2> QED BY <1>12, <2>1, <2>2
<1>15. Cardinality(W.inside) = (IF old = NoSession THEN n ELSE n - 1) - Len(v.queue)
  <2>1. /\ Cardinality(Registered') = IF old = NoSession THEN n + 1 ELSE n
    BY <1>9, RegisteredCount, FS_AddElement DEF n
  <2>2. IsFiniteSet(Inside') /\ Cardinality(Inside') = Cardinality(Registered') - Len(m_QueuedPlayer')
    BY InsideSizeNext DEF LInv
  <2>3. a \notin W.inside
    BY DEF Rest
  <2>4. CASE m_QueuedPlayer' = v.queue /\ Inside' = W.inside \cup {a}
    <3>1. (W.inside \cup {a}) \ {a} = W.inside /\ a \in W.inside \cup {a}
      BY <2>3
    <3> HIDE DEF W
    <3>2. Cardinality(W.inside) = Cardinality(Inside') - 1
      BY <2>2, <2>4, <3>1, FS_RemoveElement
    <3> QED BY <1>2, <1>7, <2>1, <2>2, <2>4, <3>2
  <2>5. CASE m_QueuedPlayer' = Append(v.queue, s) /\ Inside' = W.inside
    <3>1. Len(m_QueuedPlayer') = Len(v.queue) + 1
      BY <1>1, <1>7, <2>5, AppendProperties
    <3>2. Cardinality(W.inside) = Cardinality(Registered') - (Len(v.queue) + 1)
      <4> HIDE DEF W
      <4> QED BY <2>2, <2>5, <3>1
    <3>3. \A x \in Nat : (n + 1) - (x + 1) = n - x /\ n - (x + 1) = (n - 1) - x
      BY <1>2
    <3> HIDE DEF W
    <3> QED BY <1>7, <2>1, <3>2, <3>3
  <2> QED BY <1>14, <2>4, <2>5
<1>16. Promise!Room(W.inside) <=> ~full
  <2>1. PICK c : c = Cardinality(W.inside)
    OBVIOUS
  <2>2. Promise!Room(W.inside) <=> m_playerLimit = 0 \/ c < m_playerLimit
    BY <2>1, PromiseRoom
  <2>3. c \in Int
    BY <1>2, <1>7, <1>15, <2>1
  <2> HIDE DEF W
  <2>4. CASE full
    <3>1. m_playerLimit > 0 /\ c >= m_playerLimit
      <4>1. c >= m_playerLimit
        BY <1>7, <1>15, <2>1, <2>4
      <4> QED BY <2>4, <4>1
    <3> QED BY <1>2, <2>2, <2>3, <2>4, <3>1
  <2>5. CASE ~full
    <3>1. v.queue = <<>> /\ Len(v.queue) = 0
      BY <1>7, <2>5
    <3>2. m_playerLimit > 0 => c < m_playerLimit
      BY <1>2, <1>7, <1>15, <2>1, <2>5, <3>1
    <3> HIDE DEF full
    <3> QED BY <1>2, <2>2, <2>5, <3>2
  <2> QED BY <2>4, <2>5
<1>17. ~full => W.line = <<>>
  BY <1>7 DEF Rest, LineOf
<1>18. PICK g \in Accounts : g = a
  BY <1>1
<1> HIDE DEF W, full
<1>19. CASE a \in Registered
  <2>1. Promise!Without(g) = W
    BY <1>4, <1>18, <1>19
  <2>2. Promise!Arrive(Promise!Without(g), g)
    BY <1>14, <1>16, <1>17, <1>18, <2>1 DEF Promise!Arrive, Inside, Line, LineOf, Queued
  <2>3. Promise!Return(g)
    BY <1>5, <1>18, <1>19, <2>2 DEF Promise!Return
  <2> QED BY <2>3 DEF PromiseStep, Promise!Next
<1>20. CASE a \notin Registered
  <2>1. W.inside = Inside /\ W.line = Line
    BY <1>4, <1>20
  <2>2. /\ \/ Inside' = Inside \cup {g} /\ Line' = Line
           \/ full /\ Inside' = Inside /\ Line' = Append(Line, g)
        /\ Promise!Room(Inside) <=> ~full
        /\ ~full => Line = <<>>
    BY <1>14, <1>16, <1>17, <1>18, <2>1
  <2>3. Promise!Enter(g)
    <3>1. ~Promise!Present(g)
      BY <1>5, <1>18, <1>20
    <3> QED BY <2>2, <3>1 DEF Promise!Enter, Promise!Arrive, Inside, Line, LineOf, Queued
  <2> QED BY <2>3 DEF PromiseStep, Promise!Next
<1> QED BY <1>19, <1>20

LEMMA PromiseNext == ASSUME FixedLimit, LInv, LInv', [Next]_vars PROVE PromiseStep
<1>1. m_playerLimit = PlayerLimit
  BY DEF FixedLimit, LInv, IInv, TypeOK
<1>2. CASE Network
  BY <1>2, PromiseNetwork
<1>3. CASE Console
  BY <1>3, PromiseConsole
<1>4. CASE \/ BeginTick \/ AddSessionOutOfTurn \/ AddSessionsDone \/ EndTick
          \/ UNCHANGED vars
  <2>1. UNCHANGED <<m_sessions, m_QueuedPlayer, ses>>
    BY <1>4 DEF BeginTick, AddSessionOutOfTurn, AddSessionsDone, EndTick, vars
  <2> QED BY <2>1, UnseenSessions
<1>5. CASE AddSession
  <2>1. CASE RejectSession(Head(addSessQueue))
    <3>1. ~Contains(m_QueuedPlayer, Head(addSessQueue))
      BY <1>5, HeadHandedOver DEF AddSession, LInv
    <3>2. \A t \in Sessions : Contains(m_QueuedPlayer, t) => ses'[t].acct = ses[t].acct
      BY <2>1, <3>1 DEF RejectSession, LInv, IInv, TypeOK
    <3> QED BY <2>1, <3>2, UnseenSessions DEF RejectSession
  <2>2. CASE AcceptSession(Head(addSessQueue))
    BY <1>1, <1>5, <2>2, PromiseAcceptSession
  <2> QED BY <1>5, <2>1, <2>2 DEF AddSession
<1>6. ASSUME NEW a \in Accounts, UpdateSession(a)
      PROVE  PromiseStep
  BY <1>1, <1>6, PromiseUpdateSession
<1> QED BY <1>2, <1>3, <1>4, <1>5, <1>6 DEF Next, UpdateSessions

(* While PlayerLimit stays what it was, the login queue is Admission: a     *)
(* place goes to the head of the line at once, nobody passes a waiting      *)
(* player except staff and tolerated players, and an account that logs in   *)
(* again gives up its place or its turn first.                              *)
THEOREM QueueIsAdmission == ASSUME FixedLimit PROVE Spec => ImplementsAdmission
<1>1. Init => Promise!Init
  <2> SUFFICES ASSUME Init PROVE Promise!Init
    OBVIOUS
  <2>1. Inside = {} /\ Line = <<>>
    BY DEF Init, Inside, Registered, Line, LineOf
  <2> QED BY <2>1, PromiseVariables DEF Promise!Init
<1>2. LInv /\ LInv' /\ [Next]_vars => [Promise!Next]_(Promise!vars)
  BY PromiseNext DEF PromiseStep
<1> QED BY <1>1, <1>2, LInvHolds, PTL DEF Spec, ImplementsAdmission, Promise!Spec
=============================================================================
