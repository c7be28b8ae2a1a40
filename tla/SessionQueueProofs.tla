------------------------- MODULE SessionQueueProofs -------------------------
(***************************************************************************)
(* Proofs about SessionQueue, for any accounts, session objects, limits    *)
(* and tolerance.                                                          *)
(***************************************************************************)
EXTENDS SessionQueue, FiniteSetTheorems, SequenceTheorems, DataLemmas, TLAPS

Distinct(q) == \A i, j \in 1..Len(q) : q[i] = q[j] => i = j

HandedOver(t) ==
    Live(t) /\ m_sessions[ses[t].acct] # t /\ ses[t].init = "none"

Waiting(t) ==
    /\ Live(t) /\ m_sessions[ses[t].acct] = t
    /\ ses[t].init = "none" /\ ses[t].inQueue

(* What addSessQueue holds as long as no client was out of turn: sessions,   *)
(* each once, that AddSession_ never saw.                                  *)
InTurn ==
    /\ ~Broken
    /\ Distinct(addSessQueue) /\ ~Contains(addSessQueue, NoSession)
    /\ \A t \in Sessions : Contains(addSessQueue, t) => HandedOver(t)

(* Ownership and QueueSound, element by element, and one thing more, that   *)
(* makes them inductive: a session that is not registered was not           *)
(* initialised yet, and so may be put into the login queue.                 *)
Tables ==
    /\ \A a \in Registered : ses[m_sessions[a]].acct = a
    /\ \A t \in Sessions :
         /\ Live(t) => m_sessions[ses[t].acct] = t \/ Contains(addSessQueue, t)
         /\ Live(t) => m_sessions[ses[t].acct] = t \/ ses[t].init = "none"
    /\ pc = "update" => todo \subseteq Registered
    /\ Distinct(m_QueuedPlayer)
    /\ \A t \in Sessions : Contains(m_QueuedPlayer, t) => Waiting(t)
    /\ repeats = 0 => InTurn

IInv == TypeOK /\ Tables

-----------------------------------------------------------------------------
(* RemoveQueuedPlayer, on a pair of a queue and the session objects.       *)

Pairs == [queue: Seq(Sessions), ses: [Sessions -> SessionRecord]]

(* v is what RemoveQueuedPlayer may make of w: nobody joins the queue or    *)
(* changes account, and only who leaves the queue is touched.               *)
Shrinks(w, v) ==
    /\ v \in Pairs /\ Distinct(v.queue)
    /\ \A t \in Sessions :
         /\ v.ses[t].acct = w.ses[t].acct
         /\ Contains(v.queue, t) => Contains(w.queue, t) /\ v.ses[t] = w.ses[t]
         /\ ~Contains(w.queue, t) => v.ses[t] = w.ses[t]

LEMMA DequeueShrinks ==
    ASSUME NEW w \in Pairs, Distinct(w.queue), NEW s \in Sessions
    PROVE  Shrinks(w, Dequeue(w, s)) /\ ~Contains(Dequeue(w, s).queue, s)
<1> DEFINE v == Dequeue(w, s)
<1>1. w.queue \in Seq(Sessions) /\ w.ses \in [Sessions -> SessionRecord]
  BY DEF Pairs
<1>2. CASE ~Contains(w.queue, s)
  BY <1>2 DEF Dequeue, Shrinks
<1>3. CASE Contains(w.queue, s)
  <2> DEFINE ses1 == [w.ses EXCEPT ![s].inQueue = FALSE]
             rest == RemoveFirst(w.queue, s)
  <2>1. v = [queue |-> rest, ses |-> ses1]
    BY <1>3 DEF Dequeue
  <2>2. PICK k \in 1..Len(w.queue) :
          w.queue[k] = s /\ rest = RemoveAt(w.queue, k)
    BY <1>1, <1>3, RemoveFirstIsRemoveAt
  <2>3. /\ rest \in Seq(Sessions) /\ Len(rest) = Len(w.queue) - 1
        /\ \A i \in 1..Len(w.queue) - 1 :
             rest[i] = IF i < k THEN w.queue[i] ELSE w.queue[i + 1]
    BY <1>1, <2>2, RemoveAtProperties
  <2>4. /\ ses1 \in [Sessions -> SessionRecord]
        /\ \A t \in Sessions : ses1[t].acct = w.ses[t].acct
        /\ \A t \in Sessions : t # s => ses1[t] = w.ses[t]
    BY <1>1 DEF SessionRecord
  <2> HIDE DEF rest, ses1
  <2>5. Len(w.queue) \in Nat /\ k \in Nat /\ 1 <= k /\ k <= Len(w.queue)
    BY <1>1
  <2> DEFINE from(i) == IF i < k THEN i ELSE i + 1
  <2>6. \A i \in 1..Len(rest) :
          from(i) \in 1..Len(w.queue) /\ from(i) # k /\ rest[i] = w.queue[from(i)]
    BY <2>3, <2>5
  <2>7. \A i, j \in 1..Len(rest) : from(i) = from(j) => i = j
    BY <2>3, <2>5
  <2> HIDE DEF from
  <2>8. Distinct(rest)
    BY <2>6, <2>7 DEF Distinct
  <2>9. \A t : Contains(rest, t) => Contains(w.queue, t) /\ t # s
    BY <2>2, <2>6 DEF Contains, Distinct
  <2>10. v \in Pairs
    BY <2>1, <2>3, <2>4 DEF Pairs
  <2> QED BY <1>3, <2>1, <2>4, <2>8, <2>9, <2>10 DEF Shrinks
<1> QED BY <1>2, <1>3

\* The queue without its head, and who is in it.
LEMMA TailContains ==
    ASSUME NEW S, NEW q \in Seq(S), q # <<>>
    PROVE  /\ Tail(q) \in Seq(S) /\ Len(Tail(q)) = Len(q) - 1
           /\ Head(q) \in S /\ Contains(q, Head(q))
           /\ \A t : Contains(Tail(q), t) => Contains(q, t)
           /\ \A t : Contains(q, t) /\ t # Head(q) => Contains(Tail(q), t)
           /\ Distinct(q) => Distinct(Tail(q)) /\ ~Contains(Tail(q), Head(q))
<1>1. /\ Head(q) = q[1] /\ Head(q) \in S /\ Tail(q) \in Seq(S)
      /\ Len(q) \in Nat /\ Len(q) >= 1 /\ Len(Tail(q)) = Len(q) - 1
      /\ \A i \in 1..Len(Tail(q)) : Tail(q)[i] = q[i + 1]
  OBVIOUS
<1>2. ASSUME Distinct(q) PROVE Distinct(Tail(q))
  <2> SUFFICES ASSUME NEW i \in 1..Len(Tail(q)), NEW j \in 1..Len(Tail(q)),
                      Tail(q)[i] = Tail(q)[j]
               PROVE  i = j
    BY DEF Distinct
  <2>1. i + 1 \in 1..Len(q) /\ j + 1 \in 1..Len(q) /\ q[i + 1] = q[j + 1]
    BY <1>1
  <2> QED BY <1>2, <2>1 DEF Distinct
<1>3. ASSUME NEW t, Contains(Tail(q), t)
      PROVE  Contains(q, t) /\ (Distinct(q) => t # Head(q))
  <2>1. PICK i \in 1..Len(Tail(q)) : Tail(q)[i] = t
    BY <1>3 DEF Contains
  <2>2. i + 1 \in 1..Len(q) /\ q[i + 1] = t /\ i + 1 # 1 /\ 1 \in 1..Len(q)
    BY <1>1, <2>1
  <2> QED BY <1>1, <2>2 DEF Contains, Distinct
<1>4. ASSUME NEW t, Contains(q, t), t # Head(q)
      PROVE  Contains(Tail(q), t)
  <2>1. PICK i \in 1..Len(q) : q[i] = t
    BY <1>4 DEF Contains
  <2>2. i # 1
    BY <1>1, <1>4, <2>1
  <2>3. i - 1 \in 1..Len(Tail(q)) /\ Tail(q)[i - 1] = q[(i - 1) + 1] /\ (i - 1) + 1 = i
    BY <1>1, <2>2
  <2> QED BY <2>1, <2>3 DEF Contains
<1>5. Contains(q, Head(q))
  BY <1>1 DEF Contains
<1> QED BY <1>1, <1>2, <1>3, <1>4, <1>5

LEMMA TailProperties ==
    ASSUME NEW q \in Seq(Sessions), Distinct(q), q # <<>>
    PROVE  /\ Tail(q) \in Seq(Sessions) /\ Distinct(Tail(q)) /\ Len(Tail(q)) = Len(q) - 1
           /\ Head(q) \in Sessions /\ Contains(q, Head(q))
           /\ \A t : Contains(Tail(q), t) <=> Contains(q, t) /\ t # Head(q)
  BY TailContains

LEMMA AdmitFirstShrinks ==
    ASSUME NEW w \in Pairs, Distinct(w.queue), NEW count
    PROVE  Shrinks(w, AdmitFirst(w, count))
<1> DEFINE admits == (m_playerLimit = 0 \/ count < m_playerLimit) /\ w.queue # <<>>
           first == Head(w.queue)
           ses1 == [w.ses EXCEPT ![first] = InitializeSession(@, "ordinary")]
<1>1. w.queue \in Seq(Sessions) /\ w.ses \in [Sessions -> SessionRecord]
  BY DEF Pairs
<1>2. CASE ~admits
  BY <1>2, Zenon DEF AdmitFirst, Shrinks
<1>3. CASE admits
  <2>1. AdmitFirst(w, count) = [queue |-> Tail(w.queue), ses |-> ses1]
    BY <1>3, Zenon DEF AdmitFirst
  <2>2. first \in Sessions
    BY <1>1, <1>3, TailProperties
  <2>3. /\ ses1 \in [Sessions -> SessionRecord]
        /\ \A t \in Sessions : ses1[t].acct = w.ses[t].acct
        /\ \A t \in Sessions : t # first => ses1[t] = w.ses[t]
    BY <1>1, <2>2 DEF SessionRecord, InitializeSession
  <2> HIDE DEF ses1
  <2>4. /\ Tail(w.queue) \in Seq(Sessions) /\ Distinct(Tail(w.queue))
        /\ Contains(w.queue, first)
        /\ \A t : Contains(Tail(w.queue), t) => Contains(w.queue, t) /\ t # first
    BY <1>1, <1>3, TailProperties
  <2> HIDE DEF first, admits
  <2>5. AdmitFirst(w, count) \in Pairs
    BY <2>1, <2>3, <2>4 DEF Pairs
  <2> QED BY <2>1, <2>3, <2>4, <2>5 DEF Shrinks
<1> QED BY <1>2, <1>3

LEMMA RemoveQueuedPlayerShrinks ==
    ASSUME NEW w \in Pairs, Distinct(w.queue), NEW n, NEW s \in Sessions
    PROVE  /\ Shrinks(w, RemoveQueuedPlayer(w, n, s))
           /\ ~Contains(RemoveQueuedPlayer(w, n, s).queue, s)
<1> DEFINE v == Dequeue(w, s)
<1>1. Shrinks(w, v) /\ ~Contains(v.queue, s) /\ v \in Pairs /\ Distinct(v.queue)
  BY DequeueShrinks DEF Shrinks
<1>2. PICK count : RemoveQueuedPlayer(w, n, s) = AdmitFirst(v, count)
  BY Zenon DEF RemoveQueuedPlayer
<1> HIDE DEF v
<1>3. Shrinks(v, AdmitFirst(v, count))
  BY <1>1, AdmitFirstShrinks
<1> QED BY <1>1, <1>2, <1>3 DEF Shrinks

-----------------------------------------------------------------------------
(* The steps.                                                              *)

USE DEF lobby, thread

LEMMA TablesSuffice == IInv => Ownership /\ QueueSound
<1> SUFFICES ASSUME IInv PROVE Ownership /\ QueueSound
  OBVIOUS
<1>1. ASSUME repeats = 0, NEW i \in 1..Len(addSessQueue)
      PROVE  /\ IsNew(addSessQueue[i])
             /\ \A j \in 1..Len(addSessQueue) : addSessQueue[j] = addSessQueue[i] => i = j
  <2>1. addSessQueue[i] \in Sessions \cup {NoSession} /\ Contains(addSessQueue, addSessQueue[i])
    BY DEF IInv, TypeOK, Contains
  <2>2. addSessQueue[i] # NoSession
    BY <1>1, <2>1 DEF IInv, Tables, InTurn
  <2> QED BY <1>1, <2>1, <2>2 DEF IInv, Tables, InTurn, Distinct, HandedOver, IsNew
<1>2. ASSUME NEW i \in 1..Len(m_QueuedPlayer)
      PROVE  /\ Waiting(m_QueuedPlayer[i])
             /\ \A j \in 1..Len(m_QueuedPlayer) : m_QueuedPlayer[j] = m_QueuedPlayer[i] => i = j
  <2>1. m_QueuedPlayer[i] \in Sessions /\ Contains(m_QueuedPlayer, m_QueuedPlayer[i])
    BY DEF IInv, TypeOK, Contains
  <2> QED BY <2>1 DEF IInv, Tables, Distinct
<1>3. Ownership
  BY <1>1 DEF Ownership, IInv, Tables, InTurn
<1>4. QueueSound
  BY <1>2 DEF QueueSound, Waiting
<1> QED BY <1>3, <1>4

LEMMA FreshIsSession ==
    ASSUME NEW a \in Accounts \cup {NoAccount} PROVE Fresh(a) \in SessionRecord
  BY ConstantsAssumption DEF Fresh, SessionRecord

LEMMA EmptyDistinct == Distinct(<<>>) /\ \A t : ~Contains(<<>>, t)
  BY DEF Distinct, Contains

LEMMA AppendContains ==
    ASSUME NEW S, NEW q \in Seq(S), NEW s \in S
    PROVE  /\ Append(q, s) \in Seq(S)
           /\ Distinct(q) /\ ~Contains(q, s) => Distinct(Append(q, s))
           /\ \A t : Contains(Append(q, s), t) <=> Contains(q, t) \/ t = s
<1>1. /\ Append(q, s) \in Seq(S) /\ Len(Append(q, s)) = Len(q) + 1
      /\ Append(q, s)[Len(q) + 1] = s /\ Len(q) \in Nat
      /\ \A i \in 1..Len(q) : Append(q, s)[i] = q[i]
  BY AppendProperties
<1>2. \A i \in 1..Len(q) + 1 : i \in 1..Len(q) \/ i = Len(q) + 1
  BY <1>1
<1>3. ASSUME Distinct(q), ~Contains(q, s) PROVE Distinct(Append(q, s))
  BY <1>1, <1>2, <1>3 DEF Distinct, Contains
<1>4. ASSUME NEW t
      PROVE  Contains(Append(q, s), t) <=> Contains(q, t) \/ t = s
  <2>1. Contains(Append(q, s), t) => Contains(q, t) \/ t = s
    BY <1>1, <1>2 DEF Contains
  <2>2. Len(q) + 1 \in 1..Len(q) + 1 /\ \A i \in 1..Len(q) : i \in 1..Len(q) + 1
    BY <1>1
  <2>3. Contains(q, t) \/ t = s => Contains(Append(q, s), t)
    BY <1>1, <2>2 DEF Contains
  <2> QED BY <2>1, <2>3
<1> QED BY <1>1, <1>3, <1>4

LEMMA AppendDistinct ==
    ASSUME NEW q \in Seq(Sessions), NEW s \in Sessions, Distinct(q), ~Contains(q, s)
    PROVE  /\ Append(q, s) \in Seq(Sessions) /\ Distinct(Append(q, s))
           /\ \A t : Contains(Append(q, s), t) <=> Contains(q, t) \/ t = s
  BY AppendContains

LEMMA InitInv == Init => IInv
<1> SUFFICES ASSUME Init PROVE IInv
  OBVIOUS
<1>1. Free \in SessionRecord /\ Free.acct = NoAccount
  BY FreshIsSession DEF Free, Fresh
<1>2. TypeOK
  <2>1. m_sessions \in [Accounts -> Sessions \cup {NoSession}] /\ m_disconnects \in [Accounts -> Int]
    BY DEF Init, Never
  <2>2. m_QueuedPlayer \in Seq(Sessions) /\ addSessQueue \in Seq(Sessions \cup {NoSession})
    BY EmptySeq DEF Init
  <2>3. ses \in [Sessions -> SessionRecord]
    BY <1>1 DEF Init
  <2> QED BY <2>1, <2>2, <2>3, ConstantsAssumption DEF Init, TypeOK
<1>3. Tables
  <2>1. Registered = {}
    BY DEF Registered, Init
  <2>2. \A t \in Sessions : ~Live(t)
    BY <1>1 DEF Live, Init
  <2> QED BY <2>1, <2>2, EmptyDistinct DEF Tables, InTurn, Broken, Init
<1> QED BY <1>2, <1>3 DEF IInv

(* A step that leaves the session map and addSessQueue alone, empties the   *)
(* login queue at most, and changes sessions as any thread may.             *)
LEMMA SessionsStep ==
    ASSUME IInv, ses' \in [Sessions -> SessionRecord],
           UNCHANGED <<m_sessions, addSessQueue, repeats>>, Broken' => Broken,
           m_QueuedPlayer' \in {m_QueuedPlayer, <<>>},
           \A t \in Sessions :
             /\ ses'[t].acct = ses[t].acct
             /\ ses[t].init = "none" =>
                  ses'[t].init = "none" /\ ses'[t].inQueue = ses[t].inQueue,
           pc' = "update" => todo' \subseteq Registered
    PROVE  Tables'
<1>1. \A t \in Sessions : Live(t)' <=> Live(t)
  BY DEF Live
<1>2. Registered' = Registered
  BY DEF Registered
<1>3. \A a \in Registered : m_sessions[a] \in Sessions
  BY DEF Registered, IInv, TypeOK
<1>4. \A a \in Registered' : ses'[m_sessions'[a]].acct = a
  BY <1>2, <1>3 DEF IInv, Tables
<1>5. repeats' = 0 => InTurn'
  BY <1>1 DEF InTurn, HandedOver, IInv, Tables
<1>6. \A t \in Sessions :
        /\ Live(t)' => m_sessions'[ses'[t].acct] = t \/ Contains(addSessQueue', t)
        /\ Live(t)' => m_sessions'[ses'[t].acct] = t \/ ses'[t].init = "none"
  BY <1>1 DEF IInv, Tables
<1>7. Distinct(m_QueuedPlayer')
  BY EmptyDistinct DEF IInv, Tables
<1>8. \A t \in Sessions : Contains(m_QueuedPlayer', t) => Waiting(t)'
  BY <1>1, EmptyDistinct DEF IInv, Tables, Waiting
<1> QED BY <1>2, <1>4, <1>5, <1>6, <1>7, <1>8 DEF IInv, Tables

LEMMA ConnectStep ==
    ASSUME IInv, NEW a \in Accounts, NEW s \in Sessions, Connect(a, s)
    PROVE  IInv'
<1>1. /\ ses' \in [Sessions -> SessionRecord] /\ ses'[s] = Fresh(a)
      /\ \A t \in Sessions : t # s => ses'[t] = ses[t]
  BY FreshIsSession DEF Connect, IInv, TypeOK
<1>2. /\ ~Live(s) /\ ~Contains(m_QueuedPlayer, s)
      /\ repeats = 0 => ~Contains(addSessQueue, s)
  BY DEF Connect, IInv, Tables, InTurn, HandedOver, Waiting
<1>3. /\ addSessQueue' \in Seq(Sessions \cup {NoSession})
      /\ repeats = 0 => Distinct(addSessQueue')
      /\ \A t : Contains(addSessQueue', t) <=> Contains(addSessQueue, t) \/ t = s
  <2>1. /\ addSessQueue \in Seq(Sessions \cup {NoSession}) /\ s \in Sessions \cup {NoSession}
        /\ addSessQueue' = Append(addSessQueue, s)
    BY DEF Connect, IInv, TypeOK
  <2>2. repeats = 0 => Distinct(addSessQueue)
    BY DEF IInv, Tables, InTurn
  <2> QED BY <1>2, <2>1, <2>2, AppendContains
<1>4. TypeOK'
  BY <1>1, <1>3 DEF IInv, TypeOK, Connect
<1>5. \A b \in Registered : m_sessions[b] # s /\ m_sessions[b] \in Sessions
  BY <1>2, ConstantsAssumption DEF IInv, Tables, Registered, TypeOK, Live
<1>6. m_sessions[a] # s
  <2>1. s # NoSession
    BY ConstantsAssumption
  <2> QED BY <1>5, <2>1 DEF Registered
<1>7. ses'[s].acct = a /\ ses'[s].init = "none" /\ Live(s)'
  BY <1>1, ConstantsAssumption DEF Fresh, Live
<1>8. Tables'
  <2>1. Registered' = Registered
    BY DEF Registered, Connect
  <2>2. \A b \in Registered' : ses'[m_sessions'[b]].acct = b
    BY <1>1, <1>5, <2>1 DEF Connect, IInv, Tables
  <2>3. repeats' = 0 => InTurn'
    <3> SUFFICES ASSUME repeats = 0 PROVE InTurn'
      BY DEF Connect
    <3>1. ~Broken' /\ Distinct(addSessQueue') /\ ~Contains(addSessQueue', NoSession)
      BY <1>3, ConstantsAssumption DEF Connect, Broken, IInv, Tables, InTurn
    <3>2. \A t \in Sessions : Contains(addSessQueue', t) => HandedOver(t)'
      BY <1>1, <1>3, <1>6, <1>7 DEF HandedOver, Connect, IInv, Tables, InTurn, Live
    <3> QED BY <3>1, <3>2 DEF InTurn
  <2>4. \A t \in Sessions :
          /\ Live(t)' => m_sessions'[ses'[t].acct] = t \/ Contains(addSessQueue', t)
          /\ Live(t)' => m_sessions'[ses'[t].acct] = t \/ ses'[t].init = "none"
    BY <1>1, <1>3, <1>7 DEF Connect, IInv, Tables, Live
  <2>5. \A t \in Sessions : Contains(m_QueuedPlayer', t) => Waiting(t)'
    BY <1>1, <1>2 DEF Waiting, Connect, IInv, Tables, Live
  <2>6. Distinct(m_QueuedPlayer') /\ (pc' = "update" => todo' \subseteq Registered')
    BY <2>1 DEF Connect, IInv, Tables
  <2> QED BY <1>3, <2>2, <2>3, <2>4, <2>5, <2>6 DEF Tables
<1> QED BY <1>4, <1>8 DEF IInv

LEMMA AckAgainStep ==
    ASSUME IInv, NEW s, EnterEncryptedModeAckAgain(s)
    PROVE  IInv'
<1>1. /\ s \in Sessions \cup {NoSession} /\ addSessQueue' = Append(addSessQueue, s)
      /\ repeats \in Nat /\ repeats' = repeats + 1
      /\ UNCHANGED <<m_sessions, m_QueuedPlayer, m_disconnects, ses, m_playerLimit, gameTime, thread>>
  BY DEF EnterEncryptedModeAckAgain, IInv, TypeOK
<1>2. /\ addSessQueue' \in Seq(Sessions \cup {NoSession})
      /\ \A t : Contains(addSessQueue, t) => Contains(addSessQueue', t)
  BY <1>1, AppendContains DEF IInv, TypeOK
<1>3. TypeOK'
  BY <1>1, <1>2 DEF IInv, TypeOK
<1>4. repeats' # 0
  BY <1>1
<1>5. Tables'
  BY <1>1, <1>2, <1>4 DEF IInv, Tables, Registered, Live, Waiting, Distinct
<1> QED BY <1>3, <1>5 DEF IInv

LEMMA DisconnectStep ==
    ASSUME IInv, NEW s \in Sessions, Disconnect(s)
    PROVE  IInv'
<1>1. ses' \in [Sessions -> SessionRecord]
  BY DEF Disconnect, IInv, TypeOK, SessionRecord
<1>2. TypeOK'
  BY <1>1 DEF Disconnect, IInv, TypeOK
<1>3. \A t \in Sessions : ses'[t].acct = ses[t].acct /\ ses'[t].init = ses[t].init
                          /\ ses'[t].inQueue = ses[t].inQueue
  BY DEF Disconnect, IInv, TypeOK, SessionRecord
<1>4. Tables'
  BY <1>1, <1>3, SessionsStep DEF Disconnect, Broken, IInv, Tables
<1> QED BY <1>2, <1>4 DEF IInv

LEMMA QueriesAnsweredStep ==
    ASSUME IInv, NEW s \in Sessions, QueriesAnswered(s)
    PROVE  IInv'
<1>1. ses' \in [Sessions -> SessionRecord]
  BY DEF QueriesAnswered, IInv, TypeOK, SessionRecord
<1>2. TypeOK'
  BY <1>1 DEF QueriesAnswered, IInv, TypeOK
<1>3. \A t \in Sessions :
        /\ ses'[t].acct = ses[t].acct
        /\ ses[t].init = "none" => ses'[t].init = "none" /\ ses'[t].inQueue = ses[t].inQueue
  BY DEF QueriesAnswered, IInv, TypeOK, SessionRecord
<1>4. Tables'
  BY <1>1, <1>3, SessionsStep DEF QueriesAnswered, Broken, IInv, Tables
<1> QED BY <1>2, <1>4 DEF IInv

LEMMA KickedIsSession ==
    ASSUME NEW r \in SessionRecord
    PROVE  /\ KickPlayer(r) \in SessionRecord /\ KickPlayer(r).acct = r.acct
           /\ KickPlayer(r).init = r.init /\ KickPlayer(r).inQueue = r.inQueue
           /\ KickPlayer(r).route = r.route
  BY DEF KickPlayer, SessionRecord

LEMMA AbortLoginStep ==
    ASSUME IInv, NEW s \in Sessions, AbortLogin(s)
    PROVE  IInv'
<1> DEFINE r == IF ses[s].player = "loading" THEN [ses[s] EXCEPT !.player = "none"]
                ELSE [ses[s] EXCEPT !.conn = "lost"]
<1>1. ses[s] \in SessionRecord
  BY DEF IInv, TypeOK
<1>2. r \in SessionRecord /\ r.acct = ses[s].acct /\ r.init = ses[s].init
      /\ r.inQueue = ses[s].inQueue
  <2>1. [ses[s] EXCEPT !.player = "none"] \in SessionRecord
    BY <1>1 DEF SessionRecord
  <2> QED BY <1>1, <2>1 DEF SessionRecord
<1>3. ses' = [ses EXCEPT ![s] = r]
  BY DEF AbortLogin
<1> HIDE DEF r
<1>4. /\ ses' \in [Sessions -> SessionRecord]
      /\ \A t \in Sessions : ses'[t].acct = ses[t].acct /\ ses'[t].init = ses[t].init
                             /\ ses'[t].inQueue = ses[t].inQueue
  BY <1>2, <1>3 DEF IInv, TypeOK
<1>5. TypeOK'
  BY <1>4 DEF AbortLogin, IInv, TypeOK
<1>6. Tables'
  BY <1>4, SessionsStep DEF AbortLogin, Broken, IInv, Tables
<1> QED BY <1>5, <1>6 DEF IInv

LEMMA KickAllLessStep == ASSUME IInv, KickAllLess PROVE IInv'
<1>1. \A t \in Sessions : ses[t] \in SessionRecord
  BY DEF IInv, TypeOK
<1>2. /\ ses' \in [Sessions -> SessionRecord]
      /\ \A t \in Sessions : ses'[t].acct = ses[t].acct /\ ses'[t].init = ses[t].init
                             /\ ses'[t].inQueue = ses[t].inQueue
  BY <1>1, KickedIsSession DEF KickAllLess
<1>3. TypeOK'
  BY <1>2 DEF KickAllLess, IInv, TypeOK
<1>4. Tables'
  BY <1>2, SessionsStep DEF KickAllLess, Broken, IInv, Tables
<1> QED BY <1>3, <1>4 DEF IInv

LEMMA KickAllStep == ASSUME IInv, KickAll PROVE IInv'
<1>1. \A t \in Sessions : ses[t] \in SessionRecord
  BY DEF IInv, TypeOK
<1>2. /\ ses' \in [Sessions -> SessionRecord]
      /\ \A t \in Sessions : ses'[t].acct = ses[t].acct /\ ses'[t].init = ses[t].init
                             /\ ses'[t].inQueue = ses[t].inQueue
  BY <1>1, KickedIsSession DEF KickAll
<1>3. TypeOK'
  BY <1>2 DEF KickAll, IInv, TypeOK
<1>4. Tables'
  BY <1>2, SessionsStep DEF KickAll, Broken
<1> QED BY <1>3, <1>4 DEF IInv

LEMMA ThreadStep ==
    ASSUME IInv, UNCHANGED <<lobby, repeats>>, TypeOK', Broken' => Broken,
           pc' = "update" => todo' \subseteq Registered
    PROVE  IInv'
<1>1. Tables'
  <2>1. ses' \in [Sessions -> SessionRecord]
    BY DEF IInv, TypeOK
  <2> QED BY <2>1, SessionsStep
<1> QED BY <1>1 DEF IInv

LEMMA BeginTickStep == ASSUME IInv, BeginTick PROVE IInv'
<1>1. TypeOK'
  BY DEF BeginTick, IInv, TypeOK
<1> QED BY <1>1, ThreadStep DEF BeginTick, Broken

LEMMA SetPlayerAmountLimitStep ==
    ASSUME IInv, NEW limit \in Limits, SetPlayerAmountLimit(limit) PROVE IInv'
<1>1. TypeOK'
  BY DEF SetPlayerAmountLimit, IInv, TypeOK
<1> QED BY <1>1, ThreadStep DEF SetPlayerAmountLimit, Broken

LEMMA AddSessionsDoneStep == ASSUME IInv, AddSessionsDone PROVE IInv'
<1>1. TypeOK'
  BY DEF AddSessionsDone, IInv, TypeOK, Registered
<1> QED BY <1>1, ThreadStep DEF AddSessionsDone, Broken

LEMMA EndTickStep == ASSUME IInv, EndTick PROVE IInv'
<1>1. TypeOK'
  BY DEF EndTick, IInv, TypeOK
<1> QED BY <1>1, ThreadStep DEF EndTick, Broken

-----------------------------------------------------------------------------
(* AddSession.  The session s that is taken off addSessQueue is registered  *)
(* for no account and not in the login queue.                               *)

LEMMA HeadHandedOver ==
    ASSUME IInv, addSessQueue # <<>>, IsNew(Head(addSessQueue))
    PROVE  LET s == Head(addSessQueue)
           IN  /\ s \in Sessions /\ HandedOver(s) /\ ses[s].acct \in Accounts
               /\ ~Contains(m_QueuedPlayer, s)
               /\ \A a \in Registered : m_sessions[a] \in Sessions /\ m_sessions[a] # s
<1> DEFINE s == Head(addSessQueue)
<1>1. s \in Sessions \cup {NoSession}
  BY TailContains DEF IInv, TypeOK
<1> HIDE DEF s
<1>2. s \in Sessions /\ HandedOver(s)
  BY <1>1 DEF IsNew, HandedOver, IInv, Tables, s
<1>3. ses[s].acct \in Accounts
  BY <1>2 DEF HandedOver, Live, IInv, TypeOK, SessionRecord
<1>4. ~Contains(m_QueuedPlayer, s)
  BY <1>2 DEF HandedOver, Waiting, IInv, Tables
<1>5. \A a \in Registered : m_sessions[a] \in Sessions /\ m_sessions[a] # s
  BY <1>2 DEF Registered, HandedOver, IInv, TypeOK, Tables
<1> QED BY <1>2, <1>3, <1>4, <1>5 DEF s

\* What taking the head off leaves of addSessQueue.
LEMMA TakenOff ==
    ASSUME IInv, addSessQueue # <<>>
    PROVE  LET s == Head(addSessQueue)
           IN  /\ Tail(addSessQueue) \in Seq(Sessions \cup {NoSession})
               /\ \A t : Contains(addSessQueue, t) /\ t # s => Contains(Tail(addSessQueue), t)
               /\ repeats = 0 =>
                    /\ Distinct(Tail(addSessQueue))
                    /\ \A t : Contains(Tail(addSessQueue), t) => Contains(addSessQueue, t) /\ t # s
  BY TailContains DEF IInv, TypeOK, Tables, InTurn

\* AddSession_ gets something else only when a client was out of turn.
LEMMA AddSessionOutOfTurnStep == ASSUME IInv, AddSessionOutOfTurn PROVE IInv'
<1> DEFINE s == Head(addSessQueue)
<1>1. /\ addSessQueue # <<>> /\ ~IsNew(s) /\ addSessQueue' = Tail(addSessQueue)
      /\ pc' \in {"aborted", "undefined"}
      /\ UNCHANGED <<m_sessions, m_QueuedPlayer, m_disconnects, ses, m_playerLimit, gameTime,
                     todo, stopping, repeats>>
  BY DEF AddSessionOutOfTurn
<1>2. Contains(addSessQueue, s) /\ s \in Sessions \cup {NoSession}
  BY <1>1, TailContains DEF IInv, TypeOK
<1>3. repeats # 0
  BY <1>1, <1>2 DEF IInv, Tables, InTurn, IsNew, HandedOver
<1>4. /\ addSessQueue' \in Seq(Sessions \cup {NoSession})
      /\ \A t : Contains(addSessQueue, t) /\ t # s => Contains(addSessQueue', t)
  BY <1>1, TakenOff
<1>5. TypeOK'
  BY <1>1, <1>4 DEF IInv, TypeOK
<1>6. Tables'
  <2>1. \A t \in Sessions :
          Live(t) => m_sessions[ses[t].acct] = t \/ Contains(addSessQueue', t)
    <3> SUFFICES ASSUME NEW t \in Sessions, Live(t), m_sessions[ses[t].acct] # t
                 PROVE  Contains(addSessQueue', t)
      OBVIOUS
    <3>1. Contains(addSessQueue, t) /\ t # NoSession
      BY ConstantsAssumption DEF IInv, Tables
    <3>2. t # s
      BY <1>1, <3>1 DEF IsNew
    <3> QED BY <1>4, <3>1, <3>2
  <2> QED BY <1>1, <1>3, <2>1 DEF IInv, Tables, Registered, Live, Waiting, Distinct
<1> QED BY <1>5, <1>6 DEF IInv

LEMMA RejectSessionStep ==
    ASSUME IInv, AddSession, RejectSession(Head(addSessQueue))
    PROVE  IInv'
<1> DEFINE s == Head(addSessQueue)
<1>1. /\ addSessQueue # <<>> /\ IsNew(s) /\ addSessQueue' = Tail(addSessQueue) /\ pc' = "add"
      /\ ses' = [ses EXCEPT ![s] = Free]
      /\ UNCHANGED <<m_sessions, m_QueuedPlayer, m_disconnects, m_playerLimit, gameTime, thread, repeats>>
  BY DEF AddSession, RejectSession
<1>2. /\ s \in Sessions /\ HandedOver(s) /\ ~Contains(m_QueuedPlayer, s)
      /\ \A a \in Registered : m_sessions[a] \in Sessions /\ m_sessions[a] # s
      /\ addSessQueue' \in Seq(Sessions \cup {NoSession})
      /\ \A t : Contains(addSessQueue, t) /\ t # s => Contains(addSessQueue', t)
      /\ repeats = 0 =>
           /\ Distinct(addSessQueue')
           /\ \A t : Contains(addSessQueue', t) => Contains(addSessQueue, t) /\ t # s
  BY <1>1, HeadHandedOver, TakenOff
<1> HIDE DEF s
<1>3. /\ ses' \in [Sessions -> SessionRecord] /\ ses'[s].acct = NoAccount
      /\ \A t \in Sessions : t # s => ses'[t] = ses[t]
  <2>1. Free \in SessionRecord /\ Free.acct = NoAccount
    BY FreshIsSession DEF Free, Fresh
  <2> QED BY <1>1, <1>2, <2>1 DEF IInv, TypeOK
<1>4. TypeOK'
  BY <1>1, <1>2, <1>3 DEF IInv, TypeOK
<1>5. Tables'
  <2>1. Registered' = Registered
    BY <1>1 DEF Registered
  <2>2. \A a \in Registered' : ses'[m_sessions'[a]].acct = a
    BY <1>1, <1>2, <1>3, <2>1 DEF IInv, Tables
  <2>3. repeats' = 0 => InTurn'
    <3> SUFFICES ASSUME repeats = 0 PROVE InTurn'
      BY <1>1
    <3>1. ~Broken' /\ Distinct(addSessQueue') /\ ~Contains(addSessQueue', NoSession)
      BY <1>1, <1>2 DEF Broken, IInv, Tables, InTurn
    <3>2. \A t \in Sessions : Contains(addSessQueue', t) => HandedOver(t)'
      BY <1>1, <1>2, <1>3 DEF HandedOver, IInv, Tables, InTurn, Live
    <3> QED BY <3>1, <3>2 DEF InTurn
  <2>4. \A t \in Sessions :
          /\ Live(t)' => m_sessions'[ses'[t].acct] = t \/ Contains(addSessQueue', t)
          /\ Live(t)' => m_sessions'[ses'[t].acct] = t \/ ses'[t].init = "none"
    BY <1>1, <1>2, <1>3 DEF IInv, Tables, Live
  <2>5. \A t \in Sessions : Contains(m_QueuedPlayer', t) => Waiting(t)'
    BY <1>1, <1>2, <1>3 DEF Waiting, IInv, Tables, Live
  <2> QED BY <1>1, <1>2, <2>2, <2>3, <2>4, <2>5 DEF Tables, IInv
<1> QED BY <1>4, <1>5 DEF IInv

Lobby == [queue |-> m_QueuedPlayer, ses |-> ses]

LEMMA LobbyIsPair == IInv => Lobby \in Pairs /\ Distinct(Lobby.queue)
  BY DEF Lobby, Pairs, IInv, TypeOK, Tables

\* What AcceptSession leaves of the lobby before the new session is added to it.
Cleared(old) ==
    IF old # NoSession THEN RemoveQueuedPlayer(Lobby, Cardinality(Registered), old) ELSE Lobby

ClearedSes(old) ==
    IF old # NoSession THEN [Cleared(old).ses EXCEPT ![old] = Free] ELSE Cleared(old).ses

LEMMA ClearedShrinks ==
    ASSUME IInv, NEW old \in Sessions \cup {NoSession}
    PROVE  /\ Shrinks(Lobby, Cleared(old)) /\ ~Contains(Cleared(old).queue, old)
           /\ ClearedSes(old) \in [Sessions -> SessionRecord]
           /\ old # NoSession => ClearedSes(old)[old].acct = NoAccount
           /\ \A t \in Sessions : t # old => ClearedSes(old)[t] = Cleared(old).ses[t]
<1>1. CASE old = NoSession
  <2>1. Shrinks(Lobby, Lobby)
    BY LobbyIsPair DEF Shrinks
  <2>2. ~Contains(Lobby.queue, NoSession)
    BY ConstantsAssumption DEF Contains, Lobby, IInv, TypeOK
  <2>3. Lobby.ses \in [Sessions -> SessionRecord]
    BY LobbyIsPair DEF Pairs
  <2> QED BY <1>1, <2>1, <2>2, <2>3 DEF Cleared, ClearedSes
<1>2. CASE old # NoSession
  <2>1. old \in Sessions
    BY <1>2
  <2>2. Shrinks(Lobby, Cleared(old)) /\ ~Contains(Cleared(old).queue, old)
    BY <1>2, <2>1, LobbyIsPair, RemoveQueuedPlayerShrinks DEF Cleared
  <2>3. Cleared(old).ses \in [Sessions -> SessionRecord]
    BY <2>2 DEF Shrinks, Pairs
  <2>4. Free \in SessionRecord /\ Free.acct = NoAccount
    BY FreshIsSession DEF Free, Fresh
  <2> QED BY <1>2, <2>1, <2>2, <2>3, <2>4 DEF ClearedSes
<1> QED BY <1>1, <1>2

\* AcceptSession, without the conditions under which the new session waits.
LEMMA AcceptSessionCases ==
    ASSUME NEW s, AcceptSession(s)
    PROVE  LET old == m_sessions[ses[s].acct]
           IN  /\ m_sessions' = [m_sessions EXCEPT ![ses[s].acct] = s]
               /\ m_disconnects' \in {m_disconnects, Purge(m_disconnects)}
               /\ \/ /\ m_QueuedPlayer' = Append(Cleared(old).queue, s)
                     /\ ses' = [ClearedSes(old) EXCEPT ![s].inQueue = TRUE]
                  \/ \E route \in {"ordinary", "staff", "tolerance"} :
                       /\ m_QueuedPlayer' = Cleared(old).queue
                       /\ ses' = [ClearedSes(old) EXCEPT ![s] = InitializeSession(@, route)]
<1> DEFINE a == ses[s].acct
           old == m_sessions[a]
           replacing == old # NoSession
           n == Cardinality(Registered)
           total == IF replacing THEN n ELSE n + 1
           count == IF replacing /\ Queued(old) THEN total ELSE total - 1
           full == m_playerLimit > 0 /\ count >= m_playerLimit
           asks == full /\ a \notin Staff
           waits == asks /\ ~HasRecentlyDisconnected(a)
           route == IF ~full THEN "ordinary"
                    ELSE IF a \in Staff THEN "staff" ELSE "tolerance"
<1>1. m_sessions' = [m_sessions EXCEPT ![a] = s]
  BY Zenon DEF AcceptSession
<1>2. m_disconnects' = IF asks /\ Tolerance > 0 THEN Purge(m_disconnects) ELSE m_disconnects
  BY Zenon DEF AcceptSession
<1>3. IF waits
      THEN /\ m_QueuedPlayer' = Append(Cleared(old).queue, s)
           /\ ses' = [ClearedSes(old) EXCEPT ![s].inQueue = TRUE]
      ELSE /\ m_QueuedPlayer' = Cleared(old).queue
           /\ ses' = [ClearedSes(old) EXCEPT ![s] = InitializeSession(@, route)]
  BY Zenon DEF AcceptSession, Cleared, ClearedSes, Lobby
<1>4. route \in {"ordinary", "staff", "tolerance"}
  OBVIOUS
<1> HIDE DEF waits, asks, route
<1> QED BY <1>1, <1>2, <1>3, <1>4, Zenon

LEMMA PurgeIsRecord ==
    ASSUME m_disconnects \in [Accounts -> Int] PROVE Purge(m_disconnects) \in [Accounts -> Int]
  BY DEF Purge, Never

LEMMA AcceptSessionStep ==
    ASSUME IInv, AddSession, AcceptSession(Head(addSessQueue))
    PROVE  IInv'
<1> DEFINE s == Head(addSessQueue)
           a == ses[s].acct
           old == m_sessions[a]
           v == Cleared(old)
           ses1 == ClearedSes(old)
<1>1. /\ addSessQueue # <<>> /\ IsNew(s) /\ addSessQueue' = Tail(addSessQueue) /\ pc' = "add"
      /\ UNCHANGED <<m_playerLimit, gameTime, thread, repeats>>
  BY DEF AddSession
<1>2. /\ s \in Sessions /\ HandedOver(s) /\ a \in Accounts /\ ~Contains(m_QueuedPlayer, s)
      /\ \A b \in Registered : m_sessions[b] \in Sessions /\ m_sessions[b] # s
      /\ addSessQueue' \in Seq(Sessions \cup {NoSession})
      /\ \A t : Contains(addSessQueue, t) /\ t # s => Contains(addSessQueue', t)
      /\ repeats = 0 =>
           /\ Distinct(addSessQueue')
           /\ \A t : Contains(addSessQueue', t) => Contains(addSessQueue, t) /\ t # s
  BY <1>1, HeadHandedOver, TakenOff
<1>3. /\ m_sessions' = [m_sessions EXCEPT ![a] = s]
      /\ m_disconnects' \in {m_disconnects, Purge(m_disconnects)}
      /\ \/ /\ m_QueuedPlayer' = Append(v.queue, s)
            /\ ses' = [ses1 EXCEPT ![s].inQueue = TRUE]
         \/ \E route \in {"ordinary", "staff", "tolerance"} :
              /\ m_QueuedPlayer' = v.queue
              /\ ses' = [ses1 EXCEPT ![s] = InitializeSession(@, route)]
  BY AcceptSessionCases
<1> HIDE DEF s
<1>4. old \in Sessions \cup {NoSession} /\ old # s /\ s # NoSession
  BY <1>2, ConstantsAssumption DEF IInv, TypeOK, Registered
<1> HIDE DEF old
<1>5. /\ Shrinks(Lobby, v) /\ ~Contains(v.queue, old)
      /\ ses1 \in [Sessions -> SessionRecord]
      /\ old # NoSession => ses1[old].acct = NoAccount
      /\ \A t \in Sessions : t # old => ses1[t] = v.ses[t]
  BY <1>4, ClearedShrinks
<1> HIDE DEF a, v, ses1
<1>6. /\ v.queue \in Seq(Sessions) /\ Distinct(v.queue)
      /\ \A t \in Sessions :
           /\ v.ses[t].acct = ses[t].acct
           /\ Contains(v.queue, t) => Contains(m_QueuedPlayer, t) /\ v.ses[t] = ses[t]
           /\ ~Contains(m_QueuedPlayer, t) => v.ses[t] = ses[t]
  BY <1>5 DEF Shrinks, Pairs, Lobby
<1>7. ses1[s] = ses[s] /\ ses[s].acct = a /\ ses[s].init = "none" /\ ~Contains(v.queue, s)
  BY <1>2, <1>4, <1>5, <1>6 DEF HandedOver, a
<1> DEFINE Outcome ==
           /\ ses' \in [Sessions -> SessionRecord] /\ ses'[s].acct = a
           /\ \A t \in Sessions : t # s => ses'[t] = ses1[t]
           /\ m_QueuedPlayer' \in Seq(Sessions) /\ Distinct(m_QueuedPlayer')
           /\ Contains(m_QueuedPlayer', s) => ses'[s].init = "none" /\ ses'[s].inQueue
           /\ \A t : t # s => (Contains(m_QueuedPlayer', t) <=> Contains(v.queue, t))
<1>8. Outcome
  <2>1. ses1[s] \in SessionRecord
    BY <1>2, <1>5
  <2>2. CASE m_QueuedPlayer' = Append(v.queue, s) /\ ses' = [ses1 EXCEPT ![s].inQueue = TRUE]
    <3>1. [ses1[s] EXCEPT !.inQueue = TRUE] \in SessionRecord
      BY <2>1 DEF SessionRecord
    <3>2. /\ ses' \in [Sessions -> SessionRecord] /\ ses'[s] = [ses1[s] EXCEPT !.inQueue = TRUE]
          /\ \A t \in Sessions : t # s => ses'[t] = ses1[t]
      BY <1>2, <1>5, <2>2, <3>1
    <3>3. ses'[s].acct = a /\ ses'[s].init = "none" /\ ses'[s].inQueue
      BY <1>7, <2>1, <3>2 DEF SessionRecord
    <3> QED BY <1>2, <1>6, <1>7, <2>2, <3>2, <3>3, AppendDistinct
  <2>3. ASSUME NEW route \in {"ordinary", "staff", "tolerance"}, m_QueuedPlayer' = v.queue,
               ses' = [ses1 EXCEPT ![s] = InitializeSession(@, route)]
        PROVE  Outcome
    <3>1. /\ InitializeSession(ses1[s], route) \in SessionRecord
          /\ InitializeSession(ses1[s], route).acct = ses1[s].acct
      BY <2>1 DEF SessionRecord, InitializeSession
    <3> QED BY <1>2, <1>5, <1>6, <1>7, <2>3, <3>1
  <2> QED BY <1>3, <2>2, <2>3
<1>9. TypeOK'
  <2>1. m_sessions' \in [Accounts -> Sessions \cup {NoSession}]
    BY <1>2, <1>3 DEF IInv, TypeOK
  <2>2. m_disconnects' \in [Accounts -> Int]
    BY <1>3, PurgeIsRecord DEF IInv, TypeOK
  <2> QED BY <1>1, <1>2, <1>8, <2>1, <2>2 DEF IInv, TypeOK
<1>10. Tables'
  <2>1. /\ m_sessions'[a] = s
        /\ \A b \in Accounts : b # a => m_sessions'[b] = m_sessions[b]
    BY <1>2, <1>3 DEF IInv, TypeOK
  <2>2. ASSUME NEW b \in Registered'
        PROVE  ses'[m_sessions'[b]].acct = b
    <3>1. CASE b = a
      BY <1>8, <2>1, <3>1
    <3>2. CASE b # a
      <4>1. b \in Registered /\ m_sessions'[b] = m_sessions[b]
        BY <2>1, <3>2 DEF Registered
      <4>2. /\ m_sessions[b] \in Sessions /\ m_sessions[b] # s
            /\ ses[m_sessions[b]].acct = b
        BY <1>2, <4>1 DEF IInv, Tables
      <4>3. m_sessions[b] # old
        BY <1>2, <3>2, <4>2, ConstantsAssumption DEF old, Registered, IInv, Tables
      <4> QED BY <1>5, <1>6, <1>8, <4>1, <4>2, <4>3
    <3> QED BY <3>1, <3>2
  <2>3. ASSUME repeats = 0, NEW t \in Sessions, Contains(addSessQueue', t)
        PROVE  HandedOver(t)'
    <3>1. t # s /\ HandedOver(t)
      BY <1>2, <2>3 DEF IInv, Tables, InTurn
    <3>2. ~Contains(m_QueuedPlayer, t)
      BY <3>1 DEF IInv, Tables, HandedOver, Waiting
    <3>3. t # old
      BY <1>2, <1>4, <3>1, ConstantsAssumption DEF old, HandedOver, Registered, IInv, Tables
    <3>4. ses'[t] = ses[t] /\ ses[t].acct \in Accounts
      BY <1>5, <1>6, <1>8, <3>1, <3>2, <3>3 DEF HandedOver, Live, IInv, TypeOK, SessionRecord
    <3> QED BY <2>1, <3>1, <3>4 DEF HandedOver, Live
  <2>4. \A t \in Sessions :
          Live(t)' => m_sessions'[ses'[t].acct] = t \/ Contains(addSessQueue', t)
    <3> SUFFICES ASSUME NEW t \in Sessions, Live(t)', t # s
                 PROVE  m_sessions'[ses'[t].acct] = t \/ Contains(addSessQueue', t)
      BY <1>8, <2>1
    <3>1. t # old
      BY <1>4, <1>5, <1>8, ConstantsAssumption DEF Live
    <3>2. ses'[t].acct = ses[t].acct /\ Live(t) /\ ses[t].acct \in Accounts
      <4>1. ses'[t] = v.ses[t] /\ v.ses[t].acct = ses[t].acct
        BY <1>5, <1>6, <1>8, <3>1
      <4>2. ses[t].acct \in Accounts \cup {NoAccount}
        BY DEF IInv, TypeOK, SessionRecord
      <4> QED BY <4>1, <4>2 DEF Live
    <3>3. m_sessions[ses[t].acct] = t \/ Contains(addSessQueue, t)
      BY <3>2 DEF IInv, Tables
    <3> QED BY <1>2, <2>1, <3>1, <3>2, <3>3 DEF old
  <2>5. ASSUME NEW t \in Sessions, Contains(m_QueuedPlayer', t)
        PROVE  Waiting(t)'
    <3>1. CASE t = s
      BY <1>2, <1>8, <2>1, <2>5, <3>1, ConstantsAssumption DEF Waiting, Live
    <3>2. CASE t # s
      <4>1. Contains(v.queue, t) /\ t # old
        BY <1>5, <1>8, <2>5, <3>2
      <4>2. ses'[t] = ses[t] /\ Waiting(t)
        BY <1>5, <1>6, <1>8, <3>2, <4>1 DEF IInv, Tables
      <4>3. ses[t].acct \in Accounts /\ ses[t].acct # a
        BY <4>1, <4>2 DEF Waiting, Live, IInv, TypeOK, SessionRecord, old
      <4> QED BY <2>1, <4>2, <4>3 DEF Waiting, Live
    <3> QED BY <3>1, <3>2
  <2>6. \A t \in Sessions :
          Live(t)' => m_sessions'[ses'[t].acct] = t \/ ses'[t].init = "none"
    <3> SUFFICES ASSUME NEW t \in Sessions, Live(t)', t # s, m_sessions'[ses'[t].acct] # t
                 PROVE  ses'[t].init = "none"
      BY <1>8, <2>1
    <3>1. t # old
      BY <1>4, <1>5, <1>8, ConstantsAssumption DEF Live
    <3>2. ses'[t] = v.ses[t] /\ v.ses[t].acct = ses[t].acct
      BY <1>5, <1>6, <1>8, <3>1
    <3>3. Live(t) /\ ses[t].acct \in Accounts
      BY <3>2 DEF Live, IInv, TypeOK, SessionRecord
    <3>4. m_sessions[ses[t].acct] # t
      BY <2>1, <3>1, <3>2, <3>3 DEF old
    <3>5. ~Contains(m_QueuedPlayer, t) /\ ses[t].init = "none"
      BY <3>3, <3>4 DEF IInv, Tables, Waiting
    <3> QED BY <1>6, <3>2, <3>5
  <2>7. repeats' = 0 => InTurn'
    <3> SUFFICES ASSUME repeats = 0 PROVE InTurn'
      BY <1>1
    <3>1. ~Broken' /\ Distinct(addSessQueue') /\ ~Contains(addSessQueue', NoSession)
      BY <1>1, <1>2 DEF Broken, IInv, Tables, InTurn
    <3> QED BY <2>3, <3>1 DEF InTurn
  <2> QED BY <1>1, <1>2, <1>8, <2>2, <2>4, <2>5, <2>6, <2>7 DEF Tables
<1> QED BY <1>9, <1>10 DEF IInv

-----------------------------------------------------------------------------
(* UpdateSession.                                                          *)

\* What WorldSession::Update makes of a session, whatever packets it finds.
LEMMA UpdatedSession ==
    ASSUME NEW r \in SessionRecord, NEW q \in ProcessPackets(r)
    PROVE  LET u == CleanupSockets(ProcessQueryCallbacks(q))
           IN  /\ u \in SessionRecord /\ u.acct = r.acct
               /\ u.route = r.route /\ (u.init = "none" => r.init = "none")
               /\ r.init = "none" => u.init = "none" /\ u.inQueue = r.inQueue
<1>1. PICK k \in {r, KickPlayer(r)}, p \in PlayerMoves(r) : q = [k EXCEPT !.player = p]
  BY DEF ProcessPackets
<1>2. k \in SessionRecord /\ k.acct = r.acct /\ k.init = r.init /\ k.inQueue = r.inQueue
      /\ k.route = r.route
  BY KickedIsSession
<1>3. p \in {"none", "loading", "world"}
  BY DEF PlayerMoves, SessionRecord
<1>4. q \in SessionRecord /\ q.acct = r.acct /\ q.init = r.init /\ q.inQueue = r.inQueue
      /\ q.route = r.route
  BY <1>1, <1>2, <1>3 DEF SessionRecord
<1> DEFINE c == ProcessQueryCallbacks(q)
<1>5. c \in SessionRecord /\ c.acct = r.acct /\ c.route = r.route
      /\ (c.init = "none" => r.init = "none")
      /\ (r.init = "none" => c.init = "none" /\ c.inQueue = r.inQueue)
  <2>1. CASE q.init = "answered"
    <3>1. c = [q EXCEPT !.init = "ready", !.inQueue = FALSE]
      BY <2>1 DEF ProcessQueryCallbacks
    <3>2. c \in SessionRecord /\ c.acct = q.acct /\ c.route = q.route /\ c.init = "ready"
      BY <1>4, <3>1 DEF SessionRecord
    <3> QED BY <1>4, <2>1, <3>2
  <2>2. CASE q.init # "answered"
    <3>1. c = q
      BY <2>2 DEF ProcessQueryCallbacks
    <3> QED BY <1>4, <3>1
  <2> QED BY <2>1, <2>2
<1> HIDE DEF c
<1>6. CleanupSockets(c) \in SessionRecord /\ CleanupSockets(c).acct = c.acct
      /\ CleanupSockets(c).init = c.init /\ CleanupSockets(c).inQueue = c.inQueue
      /\ CleanupSockets(c).route = c.route
  <2>1. CASE c.conn # "open" /\ c.expire > 0
    <3>1. c.expire - 1 \in 0..ExpireTicks
      BY <1>5, <2>1, ConstantsAssumption DEF SessionRecord
    <3> QED BY <1>5, <2>1, <3>1 DEF CleanupSockets, SessionRecord
  <2>2. CASE ~(c.conn # "open" /\ c.expire > 0)
    BY <1>5, <2>2, Zenon DEF CleanupSockets
  <2> QED BY <2>1, <2>2
<1> QED BY <1>5, <1>6 DEF c

LEMMA RemoveFinishedStep ==
    ASSUME IInv, NEW a \in Accounts, NEW r \in SessionRecord, a \in todo, pc = "update",
           r.acct = a,
           RemoveFinished(a, m_sessions[a], r), todo' = todo \ {a},
           UNCHANGED <<addSessQueue, m_playerLimit, gameTime, pc, stopping, repeats>>
    PROVE  IInv'
<1> DEFINE s == m_sessions[a]
           n == Cardinality(Registered)
           w == [queue |-> m_QueuedPlayer, ses |-> [ses EXCEPT ![s] = r]]
           once == RemoveQueuedPlayer(w, n, s)
           twice == RemoveQueuedPlayer(once, n, s)
<1>1. /\ m_QueuedPlayer' = twice.queue
      /\ ses' = [twice.ses EXCEPT ![s] = Free]
      /\ m_sessions' = [m_sessions EXCEPT ![a] = NoSession]
      /\ m_disconnects' \in {m_disconnects, [m_disconnects EXCEPT ![a] = gameTime]}
  BY Zenon DEF RemoveFinished
<1>2. a \in Registered /\ s \in Sessions /\ s # NoSession /\ ses[s].acct = a
  BY ConstantsAssumption DEF Registered, IInv, TypeOK, Tables
<1>3. w \in Pairs /\ Distinct(w.queue)
  BY <1>2 DEF Pairs, IInv, TypeOK, Tables
<1>4. w.queue = m_QueuedPlayer /\ \A t \in Sessions : w.ses[t] = IF t = s THEN r ELSE ses[t]
  BY <1>2 DEF IInv, TypeOK
<1> HIDE DEF s, n, w
<1>5. Shrinks(w, once)
  BY <1>2, <1>3, RemoveQueuedPlayerShrinks
<1> HIDE DEF once
<1>6. Shrinks(once, twice) /\ ~Contains(twice.queue, s)
  <2>1. once \in Pairs /\ Distinct(once.queue)
    BY <1>5 DEF Shrinks
  <2> QED BY <1>2, <2>1, RemoveQueuedPlayerShrinks
<1> HIDE DEF twice
<1>7. Shrinks(w, twice)
  BY <1>5, <1>6 DEF Shrinks
<1>8. /\ twice.queue \in Seq(Sessions) /\ Distinct(twice.queue)
      /\ twice.ses \in [Sessions -> SessionRecord]
      /\ \A t \in Sessions : t # s =>
           /\ twice.ses[t].acct = ses[t].acct
           /\ Contains(twice.queue, t) => Contains(m_QueuedPlayer, t) /\ twice.ses[t] = ses[t]
           /\ ~Contains(m_QueuedPlayer, t) => twice.ses[t] = ses[t]
  BY <1>4, <1>7 DEF Shrinks, Pairs
<1>9. /\ ses' \in [Sessions -> SessionRecord] /\ ses'[s].acct = NoAccount
      /\ \A t \in Sessions : t # s => ses'[t] = twice.ses[t]
  <2>1. Free \in SessionRecord /\ Free.acct = NoAccount
    BY FreshIsSession DEF Free, Fresh
  <2> QED BY <1>1, <1>2, <1>8, <2>1
<1>10. /\ m_sessions' \in [Accounts -> Sessions \cup {NoSession}]
       /\ m_sessions'[a] = NoSession
       /\ \A b \in Accounts : b # a => m_sessions'[b] = m_sessions[b]
  BY <1>1 DEF IInv, TypeOK
<1>11. TypeOK'
  <2>1. m_disconnects' \in [Accounts -> Int]
    BY <1>1 DEF IInv, TypeOK
  <2> QED BY <1>1, <1>8, <1>9, <1>10, <2>1 DEF IInv, TypeOK
<1>12. Tables'
  <2>1. Registered' = Registered \ {a}
    BY <1>10 DEF Registered
  <2>2. ASSUME NEW b \in Registered'
        PROVE  ses'[m_sessions'[b]].acct = b
    <3>1. b \in Registered /\ b # a /\ b \in Accounts
      BY <2>1 DEF Registered
    <3>2. m_sessions[b] \in Sessions /\ ses[m_sessions[b]].acct = b
      BY <3>1 DEF Registered, IInv, TypeOK, Tables
    <3>3. m_sessions[b] # s
      BY <1>2, <3>1, <3>2
    <3> QED BY <1>8, <1>9, <1>10, <3>1, <3>2, <3>3
  <2>3. ASSUME repeats = 0, NEW t \in Sessions, Contains(addSessQueue', t)
        PROVE  HandedOver(t)'
    <3>1. HandedOver(t) /\ ses[t].acct \in Accounts
      BY <2>3 DEF HandedOver, Live, IInv, TypeOK, Tables, InTurn, SessionRecord
    <3>2. t # s
      BY <1>2, <3>1 DEF HandedOver, s
    <3>3. ~Contains(m_QueuedPlayer, t)
      BY <3>1 DEF IInv, Tables, HandedOver, Waiting
    <3>4. ses'[t] = ses[t]
      BY <1>8, <1>9, <3>2, <3>3
    <3>5. t # NoSession
      BY ConstantsAssumption
    <3> QED BY <1>10, <3>1, <3>4, <3>5 DEF HandedOver, Live
  <2>4. ASSUME NEW t \in Sessions, Live(t)'
        PROVE  m_sessions'[ses'[t].acct] = t \/ Contains(addSessQueue', t)
    <3>1. t # s
      BY <1>9, <2>4 DEF Live
    <3>2. ses'[t].acct = ses[t].acct /\ Live(t)
      BY <1>8, <1>9, <2>4, <3>1 DEF Live
    <3>3. ses[t].acct \in Accounts
      BY <3>2 DEF Live, IInv, TypeOK, SessionRecord
    <3>4. m_sessions[ses[t].acct] = t \/ Contains(addSessQueue, t)
      BY <3>2 DEF IInv, Tables
    <3> QED BY <1>10, <3>1, <3>2, <3>3, <3>4 DEF s
  <2>5. ASSUME NEW t \in Sessions, Contains(m_QueuedPlayer', t)
        PROVE  Waiting(t)'
    <3>1. t # s /\ Contains(m_QueuedPlayer, t)
      BY <1>1, <1>6, <1>8, <2>5
    <3>2. ses'[t] = ses[t]
      BY <1>1, <1>8, <1>9, <2>5, <3>1
    <3>3. Waiting(t) /\ ses[t].acct \in Accounts
      BY <3>1 DEF Waiting, Live, IInv, TypeOK, Tables, SessionRecord
    <3> QED BY <1>10, <3>1, <3>2, <3>3 DEF Waiting, Live, s
  <2>6. pc' = "update" => todo' \subseteq Registered'
    BY <2>1 DEF IInv, Tables
  <2>7. \A t \in Sessions :
          Live(t)' => m_sessions'[ses'[t].acct] = t \/ ses'[t].init = "none"
    <3> SUFFICES ASSUME NEW t \in Sessions, Live(t)', m_sessions'[ses'[t].acct] # t
                 PROVE  ses'[t].init = "none"
      OBVIOUS
    <3>1. t # s
      BY <1>9 DEF Live
    <3>2. ses'[t].acct = ses[t].acct /\ Live(t)
      BY <1>8, <1>9, <3>1 DEF Live
    <3>3. ses[t].acct \in Accounts
      BY <3>2 DEF Live, IInv, TypeOK, SessionRecord
    <3>4. m_sessions[ses[t].acct] # t
      BY <1>10, <3>1, <3>2, <3>3 DEF s
    <3>5. ~Contains(m_QueuedPlayer, t) /\ ses[t].init = "none"
      BY <3>2, <3>4 DEF IInv, Tables, Waiting
    <3> QED BY <1>8, <1>9, <3>1, <3>5
  <2>8. repeats' = 0 => InTurn'
    BY <2>3 DEF IInv, Tables, InTurn, Broken
  <2> QED BY <1>1, <1>8, <2>2, <2>4, <2>5, <2>6, <2>7, <2>8 DEF Tables, IInv
<1> QED BY <1>11, <1>12 DEF IInv

LEMMA UpdateSessionStep ==
    ASSUME IInv, NEW a \in Accounts, UpdateSession(a)
    PROVE  IInv'
<1> DEFINE s == m_sessions[a]
<1>1. s \in Sessions /\ ses[s] \in SessionRecord /\ ses[s].acct = a
  BY ConstantsAssumption DEF UpdateSession, Registered, IInv, TypeOK, Tables
<1>2. /\ pc = "update" /\ a \in todo /\ todo' = todo \ {a}
      /\ UNCHANGED <<addSessQueue, m_playerLimit, gameTime, pc, stopping, repeats>>
  BY DEF UpdateSession
<1>3. PICK q \in ProcessPackets(ses[s]) :
        LET r == CleanupSockets(ProcessQueryCallbacks(q))
        IN  \/ RemoveFinished(a, s, r)
            \/ /\ ses' = [ses EXCEPT ![s] = r]
               /\ UNCHANGED <<m_sessions, m_QueuedPlayer, m_disconnects>>
  BY Zenon DEF UpdateSession
<1> DEFINE r == CleanupSockets(ProcessQueryCallbacks(q))
<1>4. r \in SessionRecord /\ r.acct = a
      /\ (ses[s].init = "none" => r.init = "none" /\ r.inQueue = ses[s].inQueue)
  BY <1>1, UpdatedSession
<1> HIDE DEF r
<1>5. CASE RemoveFinished(a, s, r)
  BY <1>2, <1>4, <1>5, RemoveFinishedStep
<1>6. CASE /\ ses' = [ses EXCEPT ![s] = r]
           /\ UNCHANGED <<m_sessions, m_QueuedPlayer, m_disconnects>>
  <2> HIDE DEF s
  <2>1. /\ ses' \in [Sessions -> SessionRecord] /\ ses'[s] = r
        /\ \A t \in Sessions : t # s => ses'[t] = ses[t]
    BY <1>1, <1>4, <1>6 DEF IInv, TypeOK
  <2>2. TypeOK'
    BY <1>2, <1>6, <2>1 DEF IInv, TypeOK
  <2>3. \A t \in Sessions :
          /\ ses'[t].acct = ses[t].acct
          /\ ses[t].init = "none" =>
               ses'[t].init = "none" /\ ses'[t].inQueue = ses[t].inQueue
    BY <1>1, <1>4, <2>1
  <2>4. Tables'
    BY <1>2, <1>6, <2>1, <2>3, SessionsStep DEF IInv, Tables, Broken
  <2> QED BY <2>2, <2>4 DEF IInv
<1> QED BY <1>3, <1>5, <1>6 DEF r

-----------------------------------------------------------------------------
LEMMA StepInv == IInv /\ [Next]_vars => IInv'
<1> SUFFICES ASSUME IInv, [Next]_vars PROVE IInv'
  OBVIOUS
<1>1. CASE Network
  BY <1>1, ConnectStep, AckAgainStep, DisconnectStep, QueriesAnsweredStep, AbortLoginStep DEF Network
<1>2. CASE Console
  BY <1>2, KickAllLessStep, KickAllStep, SetPlayerAmountLimitStep DEF Console
<1>3. CASE BeginTick
  BY <1>3, BeginTickStep
<1>4. CASE UpdateSessions
  <2>1. CASE AddSession
    <3>1. RejectSession(Head(addSessQueue)) \/ AcceptSession(Head(addSessQueue))
      BY <2>1 DEF AddSession
    <3> QED BY <2>1, <3>1, RejectSessionStep, AcceptSessionStep
  <2> QED BY <1>4, <2>1, AddSessionOutOfTurnStep, AddSessionsDoneStep, EndTickStep, UpdateSessionStep DEF UpdateSessions
<1>5. CASE UNCHANGED vars
  <2>1. TypeOK' /\ UNCHANGED <<lobby, pc, todo, repeats>>
    BY <1>5 DEF vars, IInv, TypeOK
  <2>2. pc' = "update" => todo' \subseteq Registered
    BY <2>1 DEF IInv, Tables
  <2> QED BY <2>1, <2>2, ThreadStep DEF Broken
<1> QED BY <1>1, <1>2, <1>3, <1>4, <1>5 DEF Next

LEMMA InvHolds == Spec => []IInv
<1> QED BY InitInv, StepInv, PTL DEF Spec

(* Every variable of World and of its sessions has its type.               *)
THEOREM TypeCorrect == Spec => []TypeOK
<1>1. IInv => TypeOK
  BY DEF IInv
<1> QED BY <1>1, InvHolds, PTL

(* No pointer of m_sessions dangles and no session is leaked, in whatever   *)
(* order network threads, database threads and the world thread work; and   *)
(* until a client sends its acknowledgement out of turn, a session waits in *)
(* addSessQueue once and before it is registered, so AddSession_ never      *)
(* deletes the session it keeps.                                            *)
THEOREM OwnershipHolds == Spec => []Ownership
<1>1. IInv => Ownership
  BY TablesSuffice
<1> QED BY <1>1, InvHolds, PTL

(* The login queue holds registered, waiting, uninitialised sessions, each  *)
(* once: RemoveQueuedPlayer never touches a deleted session, up to the step *)
(* in which AddSession_ takes up an acknowledgement sent out of turn.       *)
THEOREM QueueIsSound == Spec => []QueueSound
<1>1. IInv => QueueSound
  BY TablesSuffice
<1> QED BY <1>1, InvHolds, PTL

-----------------------------------------------------------------------------
(* The shutdown.                                                           *)

(* A session that the shutdown kicked and that the last UpdateSessions has  *)
(* still to visit, or that has no player.                                   *)
LoggedOff(t) == ses[t].player = "none" \/ ses[t].conn = "forced"

(* Players belong to sessions the world has taken over, and from KickAll    *)
(* onwards they are kicked, until the last sweep has come to them.          *)
Players ==
    /\ \A t \in Sessions :
         ses[t].player # "none" => Live(t) /\ m_sessions[ses[t].acct] = t
    /\ stopping => pc # "idle"
    /\ stopping /\ pc = "add" => \A t \in Sessions : LoggedOff(t)
    /\ stopping /\ pc = "update" =>
         \A t \in Sessions : IF ses[t].acct \in todo THEN LoggedOff(t)
                                                     ELSE ses[t].player # "world"
    /\ StoppedIsEmpty

(* Neither the players nor the sockets of w's sessions are touched.         *)
Untouched(w, v) ==
    \A t \in Sessions : v.ses[t].player = w.ses[t].player /\ v.ses[t].conn = w.ses[t].conn

LEMMA RemoveQueuedPlayerTouchesNot ==
    ASSUME NEW w \in Pairs, Distinct(w.queue), NEW n, NEW s \in Sessions
    PROVE  Untouched(w, RemoveQueuedPlayer(w, n, s))
<1> DEFINE v == Dequeue(w, s)
<1>1. v \in Pairs /\ Distinct(v.queue) /\ w.ses \in [Sessions -> SessionRecord]
  BY DequeueShrinks DEF Shrinks, Pairs
<1>2. Untouched(w, v)
  <2>1. CASE ~Contains(w.queue, s)
    BY <2>1 DEF Dequeue, Untouched
  <2>2. CASE Contains(w.queue, s)
    <3>1. v.ses = [w.ses EXCEPT ![s].inQueue = FALSE]
      BY <2>2 DEF Dequeue
    <3> QED BY <1>1, <3>1 DEF Untouched, SessionRecord
  <2> QED BY <2>1, <2>2
<1>3. PICK count : RemoveQueuedPlayer(w, n, s) = AdmitFirst(v, count)
  BY Zenon DEF RemoveQueuedPlayer
<1> HIDE DEF v
<1>4. Untouched(v, AdmitFirst(v, count))
  <2>1. CASE ~((m_playerLimit = 0 \/ count < m_playerLimit) /\ v.queue # <<>>)
    <3>1. AdmitFirst(v, count) = v
      BY <2>1, Zenon DEF AdmitFirst
    <3> QED BY <3>1 DEF Untouched
  <2>2. CASE (m_playerLimit = 0 \/ count < m_playerLimit) /\ v.queue # <<>>
    <3>1. AdmitFirst(v, count).ses
              = [v.ses EXCEPT ![Head(v.queue)] = InitializeSession(@, "ordinary")]
      BY <2>2 DEF AdmitFirst
    <3>2. v.ses \in [Sessions -> SessionRecord] /\ Head(v.queue) \in Sessions
      BY <1>1, <2>2, TailProperties DEF Pairs
    <3> QED BY <3>1, <3>2 DEF Untouched, InitializeSession, SessionRecord
  <2> QED BY <2>1, <2>2
<1> QED BY <1>2, <1>3, <1>4 DEF Untouched

\* Steps other than the sweep's: nobody logs in, and who is kicked stays so.
LEMMA PlayersStep ==
    ASSUME Players, UNCHANGED <<todo, stopping>>, pc' \in {pc, "aborted", "undefined"},
           \A t \in Sessions : ses'[t].player # "none" =>
               /\ ses'[t].player = ses[t].player /\ ses'[t].acct = ses[t].acct
               /\ ses[t].conn = "forced" => ses'[t].conn = "forced"
               /\ m_sessions[ses[t].acct] = t => m_sessions'[ses[t].acct] = t
    PROVE  Players'
BY DEF Players, Live, LoggedOff, StoppedIsEmpty

LEMMA PlayersNetworkStep == ASSUME IInv, Players, Network PROVE Players'
<1> USE DEF IInv, TypeOK
<1>1. ASSUME NEW s \in Sessions, NEW a \in Accounts, Connect(a, s) PROVE Players'
  <2>1. /\ ses'[s].player = "none" /\ \A t \in Sessions : t # s => ses'[t] = ses[t]
    BY <1>1 DEF Connect, Fresh
  <2>2. UNCHANGED <<thread, m_sessions>>
    BY <1>1 DEF Connect
  <2> QED BY <2>1, <2>2, PlayersStep
<1>2. ASSUME NEW s \in Sessions, Disconnect(s) PROVE Players'
  <2>1. \A t \in Sessions : /\ ses'[t].player = ses[t].player /\ ses'[t].acct = ses[t].acct
                            /\ ses[t].conn = "forced" => ses'[t].conn = "forced"
    BY <1>2 DEF Disconnect, SessionRecord
  <2> QED BY <1>2, <2>1, PlayersStep DEF Disconnect
<1>3. ASSUME NEW s \in Sessions, QueriesAnswered(s) PROVE Players'
  <2>1. \A t \in Sessions : /\ ses'[t].player = ses[t].player /\ ses'[t].acct = ses[t].acct
                            /\ ses'[t].conn = ses[t].conn
    BY <1>3 DEF QueriesAnswered, SessionRecord
  <2> QED BY <1>3, <2>1, PlayersStep DEF QueriesAnswered
<1>4. ASSUME NEW s \in Sessions, AbortLogin(s) PROVE Players'
  <2> DEFINE r == IF ses[s].player = "loading" THEN [ses[s] EXCEPT !.player = "none"]
                  ELSE [ses[s] EXCEPT !.conn = "lost"]
  <2>1. ses' = [ses EXCEPT ![s] = r] /\ ses[s] \in SessionRecord
    BY <1>4 DEF AbortLogin
  <2>2. r.player # "none" => /\ r.player = ses[s].player /\ r.acct = ses[s].acct
                             /\ r.conn = "lost"
    BY <2>1 DEF SessionRecord
  <2> HIDE DEF r
  <2>3. ses[s].conn = "open"
    BY <1>4 DEF AbortLogin
  <2>4. \A t \in Sessions : ses'[t].player # "none" =>
               /\ ses'[t].player = ses[t].player /\ ses'[t].acct = ses[t].acct
               /\ ses[t].conn = "forced" => ses'[t].conn = "forced"
    BY <2>1, <2>2, <2>3
  <2> QED BY <1>4, <2>4, PlayersStep DEF AbortLogin
<1>5. ASSUME NEW s, EnterEncryptedModeAckAgain(s) PROVE Players'
  BY <1>5, PlayersStep DEF EnterEncryptedModeAckAgain
<1> QED BY <1>1, <1>2, <1>3, <1>4, <1>5 DEF Network

LEMMA PlayersConsoleStep == ASSUME IInv, Players, Console PROVE Players'
<1>1. \A t \in Sessions : /\ ses[t] \in SessionRecord
                          /\ KickPlayer(ses[t]).player = ses[t].player
                          /\ KickPlayer(ses[t]).acct = ses[t].acct
                          /\ KickPlayer(ses[t]).conn = "forced"
  BY DEF IInv, TypeOK, KickPlayer, SessionRecord
<1>2. CASE KickAllLess
  <2>1. \A t \in Sessions : /\ ses'[t].player = ses[t].player /\ ses'[t].acct = ses[t].acct
                            /\ ses[t].conn = "forced" => ses'[t].conn = "forced"
    BY <1>1, <1>2 DEF KickAllLess
  <2> QED BY <1>2, <2>1, PlayersStep DEF KickAllLess
<1>3. CASE KickAll
  <2>1. /\ \A t \in Sessions : ses'[t].player = ses[t].player /\ ses'[t].acct = ses[t].acct
        /\ \A a \in Registered : m_sessions[a] \in Sessions => ses'[m_sessions[a]].conn = "forced"
        /\ m_sessions' = m_sessions /\ pc' = "add"
    BY <1>1, <1>3 DEF KickAll
  <2>2. ASSUME NEW t \in Sessions, ses'[t].player # "none" PROVE ses'[t].conn = "forced"
    <3>1. Live(t) /\ m_sessions[ses[t].acct] = t
      BY <2>1, <2>2 DEF Players
    <3>2. m_sessions[ses[t].acct] = t /\ ses[t].acct \in Accounts
      BY <3>1 DEF IInv, TypeOK, SessionRecord, Live
    <3>3. ses[t].acct \in Registered
      BY <3>2, ConstantsAssumption DEF Registered
    <3> QED BY <2>1, <3>2, <3>3
  <2> QED BY <2>1, <2>2 DEF Players, Live, LoggedOff, StoppedIsEmpty
<1>4. ASSUME NEW limit \in Limits, SetPlayerAmountLimit(limit) PROVE Players'
  BY <1>4, PlayersStep DEF SetPlayerAmountLimit
<1> QED BY <1>2, <1>3, <1>4 DEF Console

LEMMA PlayersAddSessionStep == ASSUME IInv, Players, AddSession PROVE Players'
<1> DEFINE s == Head(addSessQueue)
           old == m_sessions[ses[s].acct]
<1>1. /\ addSessQueue # <<>> /\ UNCHANGED thread
      /\ RejectSession(s) \/ AcceptSession(s)
  BY DEF AddSession
<1>2. /\ s \in Sessions /\ ses[s].acct \in Accounts /\ HandedOver(s)
  BY <1>1, HeadHandedOver DEF AddSession
<1>3. ses[s].player = "none"
  BY <1>2 DEF Players, HandedOver
<1>4. CASE RejectSession(s)
  <2>1. ses'[s].player = "none" /\ \A t \in Sessions : t # s => ses'[t] = ses[t]
    BY <1>2, <1>4 DEF RejectSession, Free, Fresh, IInv, TypeOK
  <2>2. m_sessions' = m_sessions
    BY <1>4 DEF RejectSession
  <2> QED BY <1>1, <2>1, <2>2, PlayersStep
<1>5. CASE AcceptSession(s)
  <2>1. \/ ses' = [ClearedSes(old) EXCEPT ![s].inQueue = TRUE]
        \/ \E route \in {"ordinary", "staff", "tolerance"} :
             ses' = [ClearedSes(old) EXCEPT ![s] = InitializeSession(@, route)]
    BY <1>5, AcceptSessionCases
  <2>2. old \in Sessions \cup {NoSession}
    BY <1>2 DEF IInv, TypeOK
  <2>9. m_sessions' = [m_sessions EXCEPT ![ses[s].acct] = s]
    BY <1>5, AcceptSessionCases
  <2>10. \A t \in Sessions : t # old /\ m_sessions[ses[t].acct] = t =>
           m_sessions'[ses[t].acct] = t
    BY <1>2, <2>9 DEF IInv, TypeOK
  <2> HIDE DEF s, old
  <2>3. /\ Shrinks(Lobby, Cleared(old)) /\ ClearedSes(old) \in [Sessions -> SessionRecord]
        /\ \A t \in Sessions : t # old => ClearedSes(old)[t] = Cleared(old).ses[t]
    BY <2>2, ClearedShrinks
  <2>4. Untouched(Lobby, Cleared(old))
    BY <2>2, LobbyIsPair, RemoveQueuedPlayerTouchesNot DEF Cleared, Untouched
  <2>5. old # NoSession => ClearedSes(old)[old].player = "none"
    <3>1. Cleared(old).ses \in [Sessions -> SessionRecord]
      BY <2>3 DEF Shrinks, Pairs
    <3> QED BY <2>2, <3>1 DEF ClearedSes, Free, Fresh
  <2>6. \A t \in Sessions : /\ ses'[t].player = ClearedSes(old)[t].player
                            /\ ses'[t].acct = ClearedSes(old)[t].acct
                            /\ ses'[t].conn = ClearedSes(old)[t].conn
    <3> DEFINE ses1 == ClearedSes(old)
    <3>1. ses1 \in [Sessions -> SessionRecord] /\ ses1[s] \in SessionRecord /\ s \in Sessions
      BY <1>2, <2>3
    <3> HIDE DEF ses1
    <3>2. CASE ses' = [ses1 EXCEPT ![s].inQueue = TRUE]
      <4>1. /\ ses'[s] = [ses1[s] EXCEPT !.inQueue = TRUE]
            /\ \A t \in Sessions : t # s => ses'[t] = ses1[t]
        BY <3>1, <3>2
      <4>2. /\ ses'[s].player = ses1[s].player /\ ses'[s].acct = ses1[s].acct
            /\ ses'[s].conn = ses1[s].conn
        BY <3>1, <4>1 DEF SessionRecord
      <4> QED BY <4>1, <4>2 DEF ses1
    <3>3. ASSUME NEW route, ses' = [ses1 EXCEPT ![s] = InitializeSession(@, route)]
          PROVE  \A t \in Sessions : /\ ses'[t].player = ses1[t].player
                                     /\ ses'[t].acct = ses1[t].acct
                                     /\ ses'[t].conn = ses1[t].conn
      BY <3>1, <3>3 DEF InitializeSession, SessionRecord
    <3> QED BY <2>1, <3>2, <3>3 DEF ses1
  <2>7. \A t \in Sessions : t # old =>
          /\ ses'[t].player = ses[t].player /\ ses'[t].acct = ses[t].acct
          /\ ses'[t].conn = ses[t].conn
    BY <2>3, <2>4, <2>6 DEF Shrinks, Untouched, Lobby
  <2>8. \A t \in Sessions : ses'[t].player # "none" => t # old
    BY <2>5, <2>6, ConstantsAssumption
  <2> QED BY <1>1, <2>7, <2>8, <2>10, PlayersStep
<1> QED BY <1>1, <1>4, <1>5

\* The sweep: who is kicked is finished, whatever its packets make it do.
LEMMA ForcedIsFinished ==
    ASSUME NEW r \in SessionRecord, NEW q \in ProcessPackets(r)
    PROVE  LET u == CleanupSockets(ProcessQueryCallbacks(q))
           IN  /\ r.conn = "forced" => Finished(u)
               /\ r.player = "none" => u.player # "world"
<1>1. PICK k \in {r, KickPlayer(r)}, p \in PlayerMoves(r) : q = [k EXCEPT !.player = p]
  BY DEF ProcessPackets
<1>2. k \in SessionRecord /\ (r.conn = "forced" => k.conn = "forced")
  BY KickedIsSession DEF KickPlayer, SessionRecord
<1>3. p \in {"none", "loading", "world"} /\ (r.player = "none" => p # "world")
  BY DEF PlayerMoves, SessionRecord
<1>4. q \in SessionRecord /\ q.conn = k.conn /\ q.player = p
  BY <1>1, <1>2, <1>3 DEF SessionRecord
<1> DEFINE c == ProcessQueryCallbacks(q)
<1>5. c \in SessionRecord /\ c.conn = q.conn /\ c.player = q.player
  <2>1. CASE q.init = "answered"
    <3>1. c = [q EXCEPT !.init = "ready", !.inQueue = FALSE]
      BY <2>1 DEF ProcessQueryCallbacks
    <3> QED BY <1>4, <3>1 DEF SessionRecord
  <2>2. CASE q.init # "answered"
    BY <1>4, <2>2 DEF ProcessQueryCallbacks
  <2> QED BY <2>1, <2>2
<1> HIDE DEF c
<1>6. CleanupSockets(c).conn = c.conn /\ CleanupSockets(c).player = c.player
  <2>1. CASE c.conn # "open" /\ c.expire > 0
    BY <1>5, <2>1 DEF CleanupSockets, SessionRecord
  <2>2. CASE ~(c.conn # "open" /\ c.expire > 0)
    BY <1>5, <2>2, Zenon DEF CleanupSockets
  <2> QED BY <2>1, <2>2
<1>7. r.conn = "forced" => Finished(CleanupSockets(c))
  BY <1>2, <1>4, <1>5, <1>6 DEF Finished
<1> QED BY <1>3, <1>4, <1>5, <1>6, <1>7 DEF c

LEMMA PlayersUpdateSessionStep ==
    ASSUME IInv, Players, NEW a \in Accounts, UpdateSession(a) PROVE Players'
<1> DEFINE s == m_sessions[a]
<1>1. s \in Sessions /\ ses[s] \in SessionRecord /\ ses[s].acct = a /\ a \in Registered
  BY ConstantsAssumption DEF UpdateSession, Registered, IInv, TypeOK, Tables
<1>2. /\ pc = "update" /\ a \in todo /\ todo' = todo \ {a}
      /\ UNCHANGED <<addSessQueue, pc, stopping>>
  BY DEF UpdateSession
<1>3. PICK q \in ProcessPackets(ses[s]) :
        LET r == CleanupSockets(ProcessQueryCallbacks(q))
        IN  IF Finished(r) THEN RemoveFinished(a, s, r)
            ELSE ses' = [ses EXCEPT ![s] = r] /\ m_sessions' = m_sessions
  BY Zenon DEF UpdateSession
<1> DEFINE r == CleanupSockets(ProcessQueryCallbacks(q))
<1>4. /\ r \in SessionRecord /\ r.acct = a
      /\ ses[s].conn = "forced" => Finished(r)
      /\ ses[s].player = "none" => r.player # "world"
  BY <1>1, UpdatedSession, ForcedIsFinished
<1> HIDE DEF r
\* All other sessions keep their players; s has none in the world, or is not
\* forced to leave it.
<1>5. /\ ses'[s].player = "none" \/ (ses'[s] = r /\ ~Finished(r))
      /\ \A t \in Sessions : t # s =>
             /\ ses'[t].player = ses[t].player /\ ses'[t].acct = ses[t].acct
             /\ ses'[t].conn = ses[t].conn
  <2>1. CASE Finished(r)
    <3> DEFINE n == Cardinality(Registered)
               w == [queue |-> m_QueuedPlayer, ses |-> [ses EXCEPT ![s] = r]]
               once == RemoveQueuedPlayer(w, n, s)
               twice == RemoveQueuedPlayer(once, n, s)
    <3>1. RemoveFinished(a, s, r)
      BY <1>3, <2>1 DEF r
    <3>2. ses' = [twice.ses EXCEPT ![s] = Free]
      BY <3>1, Zenon DEF RemoveFinished
    <3>3. w \in Pairs /\ Distinct(w.queue)
      BY <1>1, <1>4 DEF Pairs, IInv, TypeOK, Tables
    <3>4. \A t \in Sessions : t # s => w.ses[t] = ses[t]
      BY <1>1 DEF IInv, TypeOK
    <3> HIDE DEF s, n, w
    <3>5. Shrinks(w, once) /\ Untouched(w, once)
      BY <1>1, <3>3, RemoveQueuedPlayerShrinks, RemoveQueuedPlayerTouchesNot
    <3> HIDE DEF once
    <3>6. once \in Pairs /\ Distinct(once.queue)
      BY <3>5 DEF Shrinks
    <3>7. Shrinks(once, twice) /\ Untouched(once, twice)
      BY <1>1, <3>6, RemoveQueuedPlayerShrinks, RemoveQueuedPlayerTouchesNot
    <3> HIDE DEF twice
    <3>8. twice.ses \in [Sessions -> SessionRecord]
      BY <3>7 DEF Shrinks, Pairs
    <3>9. ses'[s].player = "none" /\ \A t \in Sessions : t # s => ses'[t] = twice.ses[t]
      BY <1>1, <3>2, <3>8 DEF Free, Fresh
    <3> QED BY <3>4, <3>5, <3>7, <3>9 DEF Shrinks, Untouched
  <2>2. CASE ~Finished(r)
    <3>1. ses' = [ses EXCEPT ![s] = r]
      BY <1>3, <2>2 DEF r
    <3> QED BY <1>1, <2>2, <3>1 DEF IInv, TypeOK
  <2> QED BY <2>1, <2>2
<1>6. /\ \A b \in Accounts : b # a => m_sessions'[b] = m_sessions[b]
      /\ ses'[s].player # "none" => m_sessions'[a] = s
  <2>1. CASE Finished(r)
    <3>1. RemoveFinished(a, s, r)
      BY <1>3, <2>1 DEF r
    <3>2. m_sessions' = [m_sessions EXCEPT ![a] = NoSession]
      BY <3>1 DEF RemoveFinished
    <3> QED BY <1>5, <2>1, <3>2 DEF IInv, TypeOK
  <2>2. CASE ~Finished(r)
    <3>1. m_sessions' = m_sessions
      BY <1>3, <2>2 DEF r
    <3> QED BY <3>1
  <2> QED BY <2>1, <2>2
<1>7. ses'[s] = r => ses'[s].acct = a
  BY <1>4
<1> HIDE DEF s
<1>8. \A t \in Sessions :
        ses'[t].player # "none" => Live(t)' /\ m_sessions'[ses'[t].acct] = t
  <2> SUFFICES ASSUME NEW t \in Sessions, ses'[t].player # "none"
               PROVE  Live(t)' /\ m_sessions'[ses'[t].acct] = t
    OBVIOUS
  <2>1. CASE t = s
    BY <1>2, <1>5, <1>6, <1>7, <2>1, ConstantsAssumption DEF Live
  <2>2. CASE t # s
    <3>1. Live(t) /\ m_sessions[ses[t].acct] = t /\ ses'[t].acct = ses[t].acct
      BY <1>5, <2>2 DEF Players
    <3>2. ses[t].acct \in Accounts /\ ses[t].acct # a
      BY <2>2, <3>1 DEF Live, IInv, TypeOK, SessionRecord, s
    <3> QED BY <1>6, <3>1, <3>2 DEF Live
  <2> QED BY <2>1, <2>2
<1>9. ASSUME stopping, NEW t \in Sessions
      PROVE  IF ses'[t].acct \in todo' THEN LoggedOff(t)' ELSE ses'[t].player # "world"
  <2>1. CASE t = s
    <3>1. LoggedOff(s)
      BY <1>1, <1>2, <1>9 DEF Players
    <3>2. ses'[s].player = "none" \/ (ses'[s].player # "world" /\ ses'[s].acct = a)
      BY <1>4, <1>5, <1>7, <3>1 DEF LoggedOff
    <3> QED BY <1>2, <2>1, <3>2 DEF LoggedOff
  <2>2. CASE t # s
    <3>1. IF ses[t].acct \in todo THEN LoggedOff(t) ELSE ses[t].player # "world"
      BY <1>2, <1>9 DEF Players
    <3>2. CASE ses[t].acct = a
      <4>1. ses[t].player = "none"
        <5>1. ses[t].player # "none" => m_sessions[ses[t].acct] = t
          BY DEF Players
        <5> QED BY <2>2, <3>2, <5>1 DEF s
      <4> QED BY <1>5, <2>2, <4>1 DEF LoggedOff
    <3>3. CASE ses[t].acct # a
      BY <1>2, <1>5, <2>2, <3>1, <3>3 DEF LoggedOff
    <3> QED BY <3>2, <3>3
  <2> QED BY <2>1, <2>2
<1> QED BY <1>2, <1>8, <1>9 DEF Players, StoppedIsEmpty

LEMMA PlayersThreadStep ==
    ASSUME IInv, Players, BeginTick \/ AddSessionsDone \/ EndTick PROVE Players'
<1>1. CASE BeginTick
  BY <1>1 DEF BeginTick, Players, Live, LoggedOff, StoppedIsEmpty
<1>2. CASE AddSessionsDone
  <2>1. \A t \in Sessions : ses[t].acct \notin Registered => ses[t].player # "world"
    <3> SUFFICES ASSUME NEW t \in Sessions, ses[t].player # "none"
                 PROVE  ses[t].acct \in Registered
      OBVIOUS
    <3>1. Live(t) /\ m_sessions[ses[t].acct] = t
      BY DEF Players
    <3>2. ses[t].acct \in Accounts
      BY <3>1 DEF IInv, TypeOK, SessionRecord, Live
    <3> QED BY <3>1, <3>2, ConstantsAssumption DEF Registered
  <2> QED BY <1>2, <2>1 DEF AddSessionsDone, Players, Live, LoggedOff, StoppedIsEmpty
<1>3. CASE EndTick
  BY <1>3 DEF EndTick, Players, Live, LoggedOff, StoppedIsEmpty
<1> QED BY <1>1, <1>2, <1>3

(* When the server has stopped no player is left in the world, however many *)
(* sessions the network threads still hand over meanwhile: everyone was     *)
(* logged out and saved.                                                    *)
THEOREM StoppedEmpty == Spec => []StoppedIsEmpty
<1>1. Init => Players
  BY EmptyDistinct DEF Init, Players, Free, Fresh, StoppedIsEmpty
<1>2. IInv /\ Players /\ [Next]_vars => Players'
  <2> SUFFICES ASSUME IInv, Players, [Next]_vars PROVE Players'
    OBVIOUS
  <2>1. CASE UNCHANGED vars
    BY <2>1, PlayersStep DEF vars
  <2>2. CASE AddSessionOutOfTurn
    BY <2>2, PlayersStep DEF AddSessionOutOfTurn
  <2> QED BY <2>1, <2>2, PlayersNetworkStep, PlayersConsoleStep, PlayersAddSessionStep,
             PlayersUpdateSessionStep, PlayersThreadStep DEF Next, UpdateSessions
<1>3. Players => StoppedIsEmpty
  BY DEF Players
<1> QED BY <1>1, <1>2, <1>3, InvHolds, PTL DEF Spec
=============================================================================
