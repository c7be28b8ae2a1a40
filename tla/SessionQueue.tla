---------------------------- MODULE SessionQueue ----------------------------
(***************************************************************************)
(* The world's table of sessions and its login queue (World.cpp).          *)
(*                                                                         *)
(* Network threads hand authenticated sessions to the world thread through *)
(* addSessQueue and may lose a connection at any moment; database threads  *)
(* answer the queries that initialise a session; everything else happens   *)
(* on the world thread, one tick of World::UpdateSessions after the other. *)
(* A C++ WorldSession is an element of the pool Sessions: "delete" returns *)
(* it to the pool, so a pointer that outlives its session would later name *)
(* somebody else's.                                                        *)
(***************************************************************************)
EXTENDS Integers, Sequences, FiniteSets, SequencesExt

CONSTANTS
    Accounts,      \* account ids
    Sessions,      \* the memory WorldSession objects live in
    Staff,         \* the accounts that hold RBAC_PERM_SKIP_QUEUE
    NoAccount,     \* the account of a free object
    NoSession,     \* the absence of an entry in m_sessions
    Limits,        \* the values PlayerLimit may be given while the server runs
    PlayerLimit,   \* its value at startup; 0 means no limit
    Tolerance,     \* DisconnectToleranceInterval, in seconds
    MaxTime,       \* bound: the clock stops here
    MaxPending,    \* bound: sessions handed over and not yet taken
    MaxRepeats,    \* bound: acknowledgements clients send out of turn
    ExpireTicks    \* updates a link-dead player stays in the world

ASSUME ConstantsAssumption ==
    /\ Staff \subseteq Accounts
    /\ NoAccount \notin Accounts
    /\ NoSession \notin Sessions
    /\ Limits \subseteq Nat /\ PlayerLimit \in Limits
    /\ Tolerance \in Nat /\ MaxTime \in Nat
    /\ MaxPending \in Nat /\ MaxRepeats \in Nat /\ ExpireTicks \in Nat \ {0}
    /\ IsFiniteSet(Accounts)

Never == -1

VARIABLES
    m_sessions,      \* account -> its WorldSession, or NoSession
    m_QueuedPlayer,  \* the login queue, first to be admitted at the head
    m_disconnects,   \* account -> when its admitted session went away
    m_playerLimit,
    addSessQueue,    \* sessions handed over by the network threads
    ses,             \* the WorldSession objects
    gameTime,
    pc,              \* where the world thread is
    todo,            \* accounts UpdateSessions has still to visit in this tick
    stopping,        \* the server is shutting down
    repeats          \* history: acknowledgements sent out of turn so far

lobby == <<m_sessions, m_QueuedPlayer, m_disconnects, addSessQueue, ses>>
thread == <<pc, todo, stopping>>
vars == <<lobby, m_playerLimit, gameTime, thread, repeats>>

(***************************************************************************)
(* A session.  conn is the state of its sockets: "lost" once one of them   *)
(* has closed, "forced" when KickPlayer closed them and set forceExit.     *)
(* init is the progress of InitializeSession and its callback.  route      *)
(* records how the session got past the queue; the code does not keep it.  *)
(***************************************************************************)
SessionRecord ==
    [acct: Accounts \cup {NoAccount}, conn: {"open", "lost", "forced"},
     expire: 0..ExpireTicks, player: {"none", "loading", "world"},
     inQueue: BOOLEAN, init: {"none", "pending", "answered", "ready"},
     route: {"none", "ordinary", "staff", "tolerance"}]

Fresh(a) ==
    [acct |-> a, conn |-> "open", expire |-> ExpireTicks, player |-> "none",
     inQueue |-> FALSE, init |-> "none", route |-> "none"]
Free == Fresh(NoAccount)

Live(s) == ses[s].acct # NoAccount
Registered == {a \in Accounts : m_sessions[a] # NoSession}
Queued(s) == Contains(m_QueuedPlayer, s)
Active == Cardinality(Registered) - Len(m_QueuedPlayer)

\* Mutant: the sockets are closed but forceExit is not set.
KickPlayerGently(r) == IF r.conn = "open" THEN [r EXCEPT !.conn = "lost"] ELSE r

KickPlayer(r) == [r EXCEPT !.conn = "forced"]
InitializeSession(r, route) == [r EXCEPT !.init = "pending", !.route = route]

(* The first part of World::Update's HasRecentlyDisconnected test: the code *)
(* takes the difference of the recorded time and now, in this order.        *)
Recent(t) == t # Never /\ t - gameTime < Tolerance
HasRecentlyDisconnected(a) == Tolerance > 0 /\ Recent(m_disconnects[a])

(* The walk that looks an account up erases the entries it finds too old.   *)
(* An entry it leaves for a later walk is one that no lookup would honour.  *)
Purge(d) == [a \in Accounts |-> IF Recent(d[a]) THEN d[a] ELSE Never]

(***************************************************************************)
(* RemoveQueuedPlayer on a world w = [queue, ses] in which n sessions are  *)
(* registered: s leaves the queue if it is there, and the head of what is  *)
(* left is let in when a place is free.                                    *)
(***************************************************************************)
\* Mutant: the flag is cleared, the queue keeps the session.
DequeueFlagOnly(w, s) == [w EXCEPT !.ses[s].inQueue = FALSE]

Dequeue(w, s) ==
    IF Contains(w.queue, s)
    THEN [queue |-> RemoveFirst(w.queue, s),
          ses |-> [w.ses EXCEPT ![s].inQueue = FALSE]]
    ELSE w

\* Mutant: one place too many.
AdmitFirstOneMore(w, count) ==
    IF (m_playerLimit = 0 \/ count <= m_playerLimit) /\ w.queue # <<>>
    THEN [queue |-> Tail(w.queue),
          ses |-> [w.ses EXCEPT ![Head(w.queue)] = InitializeSession(@, "ordinary")]]
    ELSE w

\* Mutant: the last to come is the first to be let in.
AdmitLast(w, count) ==
    IF (m_playerLimit = 0 \/ count < m_playerLimit) /\ w.queue # <<>>
    THEN [queue |-> Front(w.queue),
          ses |-> [w.ses EXCEPT ![Last(w.queue)] = InitializeSession(@, "ordinary")]]
    ELSE w

AdmitFirst(w, count) ==
    IF (m_playerLimit = 0 \/ count < m_playerLimit) /\ w.queue # <<>>
    THEN [queue |-> Tail(w.queue),
          ses |-> [w.ses EXCEPT ![Head(w.queue)] = InitializeSession(@, "ordinary")]]
    ELSE w

\* Mutant: the place of the session that goes is still counted as taken.
RemoveQueuedPlayerStillCounted(w, n, s) ==
    AdmitFirst(Dequeue(w, s), n - Len(w.queue))

RemoveQueuedPlayer(w, n, s) ==
    LET active == n - Len(w.queue)
        leaves == ~Contains(w.queue, s) /\ active > 0
    IN  AdmitFirst(Dequeue(w, s), IF leaves THEN active - 1 ELSE active)

Init ==
    /\ m_sessions = [a \in Accounts |-> NoSession]
    /\ m_QueuedPlayer = <<>>
    /\ m_disconnects = [a \in Accounts |-> Never]
    /\ m_playerLimit = PlayerLimit
    /\ addSessQueue = <<>>
    /\ ses = [s \in Sessions |-> Free]
    /\ gameTime = 0
    /\ pc = "idle" /\ todo = {} /\ stopping = FALSE /\ repeats = 0

-----------------------------------------------------------------------------
(* Network and database threads.                                           *)

\* A socket finished authentication: new WorldSession, World::AddSession.
Connect(a, s) ==
    /\ ~Live(s) /\ Len(addSessQueue) < MaxPending
    /\ ses' = [ses EXCEPT ![s] = Fresh(a)]
    /\ addSessQueue' = Append(addSessQueue, s)
    /\ UNCHANGED <<m_sessions, m_QueuedPlayer, m_disconnects, m_playerLimit,
                   gameTime, thread, repeats>>

(* CMSG_ENTER_ENCRYPTED_MODE_ACK is taken at any time and any number of     *)
(* times: World::AddSession queues the socket's session again, or a null    *)
(* pointer when the socket has not authenticated yet.                       *)
EnterEncryptedModeAckAgain(s) ==
    /\ s \in {NoSession} \cup {t \in Sessions : Live(t) /\ ses[t].conn = "open"}
    /\ Len(addSessQueue) < MaxPending /\ repeats < MaxRepeats
    /\ addSessQueue' = Append(addSessQueue, s)
    /\ repeats' = repeats + 1
    /\ UNCHANGED <<m_sessions, m_QueuedPlayer, m_disconnects, ses, m_playerLimit,
                   gameTime, thread>>

\* One of the session's sockets closes.
Disconnect(s) ==
    /\ Live(s) /\ ses[s].conn = "open"
    /\ ses' = [ses EXCEPT ![s].conn = "lost"]
    /\ UNCHANGED <<m_sessions, m_QueuedPlayer, m_disconnects, addSessQueue,
                   m_playerLimit, gameTime, thread, repeats>>

\* Both query holders of InitializeSession have their results.
QueriesAnswered(s) ==
    /\ Live(s) /\ ses[s].init = "pending"
    /\ ses' = [ses EXCEPT ![s].init = "answered"]
    /\ UNCHANGED <<m_sessions, m_QueuedPlayer, m_disconnects, addSessQueue,
                   m_playerLimit, gameTime, thread, repeats>>

(* WorldSocket::HandleConnectToFailed gives up: AbortLogin, on a network     *)
(* thread.  It is called while the player loads, but the world thread may   *)
(* have finished or dropped the loading between the caller's look at the    *)
(* flag and AbortLogin's own.  KickPlayer then closes the socket, whose     *)
(* OnClose waits for the lock this thread holds: it never gets to forceExit.*)
AbortLogin(s) ==
    /\ Live(s) /\ ses[s].conn = "open" /\ ses[s].init # "none"
    /\ ses' = [ses EXCEPT ![s] = IF @.player = "loading"
                                 THEN [@ EXCEPT !.player = "none"]
                                 ELSE [@ EXCEPT !.conn = "lost"]]
    /\ UNCHANGED <<m_sessions, m_QueuedPlayer, m_disconnects, addSessQueue,
                   m_playerLimit, gameTime, thread, repeats>>

-----------------------------------------------------------------------------
(* World thread, outside UpdateSessions.                                   *)

BeginTick ==
    /\ pc = "idle" /\ pc' = "add"
    /\ gameTime' \in {gameTime, gameTime + 1} /\ gameTime' <= MaxTime
    /\ UNCHANGED <<lobby, m_playerLimit, todo, stopping, repeats>>

\* .server plimit, or a reload of the configuration.
SetPlayerAmountLimit(limit) ==
    /\ pc = "idle" /\ limit # m_playerLimit
    /\ m_playerLimit' = limit
    /\ UNCHANGED <<lobby, gameTime, thread, repeats>>

\* The realm is restricted to staff.
KickAllLess ==
    /\ pc = "idle"
    /\ \E a \in Registered \ Staff : ses[m_sessions[a]].conn # "forced"
    /\ ses' = [s \in Sessions |->
                 IF \E a \in Registered \ Staff : m_sessions[a] = s
                 THEN KickPlayer(ses[s]) ELSE ses[s]]
    /\ UNCHANGED <<m_sessions, m_QueuedPlayer, m_disconnects, addSessQueue,
                   m_playerLimit, gameTime, thread, repeats>>

\* The world loop has ended: KickAll, then one more UpdateSessions.
KickAll ==
    /\ pc = "idle"
    /\ m_QueuedPlayer' = <<>>
    /\ ses' = [s \in Sessions |->
                 IF \E a \in Registered : m_sessions[a] = s
                 THEN KickPlayer(ses[s]) ELSE ses[s]]
    /\ stopping' = TRUE /\ pc' = "add"
    /\ UNCHANGED <<m_sessions, m_disconnects, addSessQueue, m_playerLimit,
                   gameTime, todo, repeats>>

-----------------------------------------------------------------------------
(* World::UpdateSessions.                                                  *)

\* Mutant: the rejected session is not deleted.
RejectSessionLeak(s) ==
    LET old == m_sessions[ses[s].acct]
    IN  /\ old # NoSession /\ ses[old].player = "loading"
        /\ UNCHANGED <<ses, m_sessions, m_QueuedPlayer, m_disconnects>>

\* AddSession_ when the account's other session is on its loading screen.
RejectSession(s) ==
    LET old == m_sessions[ses[s].acct]
    IN  /\ old # NoSession /\ ses[old].player = "loading"
        /\ ses' = [ses EXCEPT ![s] = Free]
        /\ UNCHANGED <<m_sessions, m_QueuedPlayer, m_disconnects>>

\* AddSession_ otherwise: the other session, if any, is kicked, taken out of
\* the queue and deleted; the new one is let in or queued.
AcceptSession(s) ==
    LET a == ses[s].acct
        old == m_sessions[a]
        replacing == old # NoSession
        n == Cardinality(Registered)
        w == [queue |-> m_QueuedPlayer, ses |-> ses]
        w1 == IF replacing THEN RemoveQueuedPlayer(w, n, old) ELSE w
        ses1 == IF replacing THEN [w1.ses EXCEPT ![old] = Free] ELSE w1.ses
        total == IF replacing THEN n ELSE n + 1
        count == IF replacing /\ Queued(old) THEN total ELSE total - 1
        full == m_playerLimit > 0 /\ count >= m_playerLimit
        asks == full /\ a \notin Staff
        waits == asks /\ ~HasRecentlyDisconnected(a)
        route == IF ~full THEN "ordinary"
                 ELSE IF a \in Staff THEN "staff" ELSE "tolerance"
    IN  /\ replacing => ses[old].player # "loading"
        /\ m_sessions' = [m_sessions EXCEPT ![a] = s]
        /\ m_disconnects' = IF asks /\ Tolerance > 0 THEN Purge(m_disconnects)
                            ELSE m_disconnects
        /\ IF waits
           THEN /\ m_QueuedPlayer' = Append(w1.queue, s)
                /\ ses' = [ses1 EXCEPT ![s].inQueue = TRUE]
           ELSE /\ m_QueuedPlayer' = w1.queue
                /\ ses' = [ses1 EXCEPT ![s] = InitializeSession(@, route)]

IsNew(s) == s # NoSession /\ Live(s) /\ m_sessions[ses[s].acct] # s

AddSession ==
    /\ pc = "add" /\ addSessQueue # <<>> /\ IsNew(Head(addSessQueue))
    /\ addSessQueue' = Tail(addSessQueue)
    /\ LET s == Head(addSessQueue) IN RejectSession(s) \/ AcceptSession(s)
    /\ UNCHANGED <<m_playerLimit, gameTime, thread, repeats>>

(* AddSession_ asserts that s is not null.  One that m_sessions already     *)
(* holds it takes for the account's other session, deletes, and goes on     *)
(* using; one that was deleted meanwhile it uses at once.  What the server  *)
(* does from there on is undefined, and the model stops.                    *)
AddSessionOutOfTurn ==
    /\ pc = "add" /\ addSessQueue # <<>> /\ ~IsNew(Head(addSessQueue))
    /\ addSessQueue' = Tail(addSessQueue)
    /\ pc' = IF Head(addSessQueue) = NoSession THEN "aborted" ELSE "undefined"
    /\ UNCHANGED <<m_sessions, m_QueuedPlayer, m_disconnects, ses, m_playerLimit,
                   gameTime, todo, stopping, repeats>>

AddSessionsDone ==
    /\ pc = "add" /\ addSessQueue = <<>>
    /\ pc' = "update" /\ todo' = Registered
    /\ UNCHANGED <<lobby, m_playerLimit, gameTime, stopping, repeats>>

\* What one WorldSession::Update may do to the player and the sockets: log in
\* when not waiting, finish or fail loading, log out, be kicked by a handler.
PlayerMoves(r) ==
    {r.player} \cup
    CASE r.player = "none" -> IF r.inQueue THEN {} ELSE {"loading"}
      [] r.player = "loading" -> {"world", "none"}
      [] r.player = "world" -> {"none"}

ProcessPackets(r) ==
    {[q EXCEPT !.player = p] : q \in {r, KickPlayer(r)}, p \in PlayerMoves(r)}

\* Mutant: the answers of a session that came through the queue are dropped.
ProcessQueryCallbacksUnqueued(r) ==
    IF r.init = "answered" /\ ~r.inQueue THEN [r EXCEPT !.init = "ready"] ELSE r

\* InitializeSessionCallback, once its answers are in.
ProcessQueryCallbacks(r) ==
    IF r.init = "answered" THEN [r EXCEPT !.init = "ready", !.inQueue = FALSE] ELSE r

\* Mutant: the countdown always runs, and below zero.
CleanupSocketsUnguarded(r) == [r EXCEPT !.expire = @ - 1]

\* The countdown of a link-dead session.
CleanupSockets(r) ==
    IF r.conn # "open" /\ r.expire > 0 THEN [r EXCEPT !.expire = @ - 1] ELSE r

\* Mutant: a player in the world outlives the countdown.
FinishedUnlessInWorld(r) == r.conn # "open" /\ (r.conn = "forced" \/ r.player # "world")

\* Update's answer "remove this session".
Finished(r) ==
    r.conn # "open" /\ (r.expire = 0 \/ r.conn = "forced" \/ r.player # "world")

\* The sweep takes a finished session out of the queue (twice, as the code
\* does), remembers when an admitted one left, and deletes it.
RemoveFinished(a, s, r) ==
    LET n == Cardinality(Registered)
        w == [queue |-> m_QueuedPlayer, ses |-> [ses EXCEPT ![s] = r]]
        once == RemoveQueuedPlayer(w, n, s)
        twice == RemoveQueuedPlayer(once, n, s)
    IN  /\ m_QueuedPlayer' = twice.queue
        /\ ses' = [twice.ses EXCEPT ![s] = Free]
        /\ m_sessions' = [m_sessions EXCEPT ![a] = NoSession]
        /\ m_disconnects' = IF ~Queued(s) /\ Tolerance > 0
                            THEN [m_disconnects EXCEPT ![a] = gameTime]
                            ELSE m_disconnects

UpdateSession(a) ==
    /\ pc = "update" /\ a \in todo
    /\ todo' = todo \ {a}
    /\ LET s == m_sessions[a]
       IN  \E q \in ProcessPackets(ses[s]) :
             LET r == CleanupSockets(ProcessQueryCallbacks(q))
             IN  IF Finished(r)
                 THEN RemoveFinished(a, s, r)
                 ELSE /\ ses' = [ses EXCEPT ![s] = r]
                      /\ UNCHANGED <<m_sessions, m_QueuedPlayer, m_disconnects>>
    /\ UNCHANGED <<addSessQueue, m_playerLimit, gameTime, pc, stopping, repeats>>

EndTick ==
    /\ pc = "update" /\ todo = {}
    /\ pc' = IF stopping THEN "stopped" ELSE "idle"
    /\ UNCHANGED <<lobby, m_playerLimit, gameTime, todo, stopping, repeats>>

-----------------------------------------------------------------------------
Broken == pc \in {"aborted", "undefined"}
Halted == pc = "stopped" \/ Broken

Network ==
    /\ ~Halted
    /\ \/ \E s \in Sessions :
            \/ \E a \in Accounts : Connect(a, s)
            \/ Disconnect(s)
            \/ QueriesAnswered(s)
            \/ AbortLogin(s)
       \/ \E s \in Sessions \cup {NoSession} : EnterEncryptedModeAckAgain(s)

Console == KickAllLess \/ KickAll \/ \E limit \in Limits : SetPlayerAmountLimit(limit)

UpdateSessions ==
    \/ AddSession \/ AddSessionOutOfTurn \/ AddSessionsDone \/ EndTick
    \/ \E a \in Accounts : UpdateSession(a)

Next == Network \/ Console \/ BeginTick \/ UpdateSessions

Spec == Init /\ [][Next]_vars

(***************************************************************************)
(* The world loop keeps turning and the database keeps answering.  Clients *)
(* do not finish handshakes faster than the drain loop takes sessions off  *)
(* addSessQueue forever: each handshake costs network round trips, taking  *)
(* a session off a few map operations.                                     *)
(***************************************************************************)
Fairness ==
    /\ WF_vars(BeginTick)
    /\ WF_vars(UpdateSessions)
    /\ SF_vars(AddSessionsDone)
    /\ \A s \in Sessions : WF_vars(QueriesAnswered(s) /\ ~Halted)

FairSpec == Spec /\ Fairness

-----------------------------------------------------------------------------
TypeOK ==
    /\ m_sessions \in [Accounts -> Sessions \cup {NoSession}]
    /\ m_QueuedPlayer \in Seq(Sessions)
    /\ m_disconnects \in [Accounts -> Int]
    /\ m_playerLimit \in Limits
    /\ addSessQueue \in Seq(Sessions \cup {NoSession})
    /\ ses \in [Sessions -> SessionRecord]
    /\ gameTime \in Nat
    /\ pc \in {"idle", "add", "update", "stopped", "aborted", "undefined"}
    /\ todo \subseteq Accounts
    /\ stopping \in BOOLEAN /\ repeats \in Nat

(* No pointer in the world's tables dangles and no session is leaked: every *)
(* registered session is a live one of its account, and every live session  *)
(* is registered or waits in addSessQueue.  And as long as no client sends  *)
(* its acknowledgement out of turn, whatever else clients and threads do, a *)
(* session waits there once, before it is registered, so that AddSession_   *)
(* never gets a null, registered or deleted one and deletes what it keeps.  *)
(* (World::AddSession_ and UpdateSessions delete sessions by hand.)         *)
Ownership ==
    /\ \A a \in Registered : ses[m_sessions[a]].acct = a
    /\ \A s \in Sessions :
         Live(s) => m_sessions[ses[s].acct] = s \/ Contains(addSessQueue, s)
    /\ pc = "update" => todo \subseteq Registered
    /\ repeats = 0 =>
         /\ ~Broken
         /\ \A i \in 1..Len(addSessQueue) :
              LET s == addSessQueue[i]
              IN  /\ IsNew(s)
                  /\ \A j \in 1..Len(addSessQueue) : addSessQueue[j] = s => i = j

(* The login queue holds registered sessions, each once, that were never    *)
(* initialised and are marked as waiting: so nothing deletes a session that *)
(* RemoveQueuedPlayer will still touch, nobody is initialised twice, and    *)
(* the count of active sessions, an unsigned difference, cannot wrap.  An   *)
(* acknowledgement out of turn changes none of this until AddSession_ takes *)
(* it up; from then on the program is undefined.                            *)
QueueSound ==
    \A i \in 1..Len(m_QueuedPlayer) :
      LET s == m_QueuedPlayer[i]
      IN  /\ Live(s) /\ m_sessions[ses[s].acct] = s
          /\ ses[s].init = "none" /\ ses[s].inQueue
          /\ \A j \in 1..Len(m_QueuedPlayer) : m_QueuedPlayer[j] = s => i = j

(* While the limit stays what it was, nobody waits while a place is free:   *)
(* RemoveQueuedPlayer hands over every place that is given up, in whatever  *)
(* way it is given up, and never more of them than that.                    *)
NoIdlePlace ==
    m_QueuedPlayer # <<>> => m_playerLimit > 0 /\ Active >= m_playerLimit

\* The accounts that are past the queue neither as staff nor by the tolerance.
Ordinary == {a \in Registered : ses[m_sessions[a]].route = "ordinary"}

(* Those accounts are never more than the limit.                            *)
WithinLimit == m_playerLimit > 0 => Cardinality(Ordinary) <= m_playerLimit

(* Whatever the limit is changed to, an ordinary player is let in only when *)
(* that leaves no more of them than the limit of that moment, even when the *)
(* sweep calls RemoveQueuedPlayer a second time.                            *)
AdmitsWithinLimit ==
    [][\A s \in Sessions :
         ses[s].route # "ordinary" /\ ses'[s].route = "ordinary"
           => m_playerLimit = 0 \/ Cardinality(Ordinary') <= m_playerLimit]_vars

(* After the shutdown's KickAll and its one last UpdateSessions no player   *)
(* is left in the world: everyone was logged out and saved.                 *)
StoppedIsEmpty ==
    pc = "stopped" => \A s \in Sessions : ses[s].player # "world"

(* A session that is let in gets its InitializeSessionCallback, or is gone; *)
(* a session that lost its connection is eventually deleted.                *)
EventuallyInitialised ==
    \A s \in Sessions :
      ses[s].init = "pending" ~> ses[s].init \in {"none", "ready"} \/ Halted
EventuallyDeleted ==
    \A s \in Sessions :
      ses[s].conn # "open" ~> ses[s].conn = "open" \/ Halted

(* worldserver.conf.dist says of DisconnectToleranceInterval: "Tolerance    *)
(* (in seconds) for disconnected players before reentering the queue."  So  *)
(* whoever passes the queue by it left no longer than that ago.             *)
ToleranceExpires ==
    [][\A s \in Sessions :
         ses[s].route # "tolerance" /\ ses'[s].route = "tolerance"
           => gameTime - m_disconnects[ses[s].acct] < Tolerance]_vars

(* What the lobby promises: the accounts past the queue and the line of     *)
(* those waiting behave as the abstract admission of module Admission.      *)
Promise == INSTANCE Admission WITH
        inside <- {a \in Registered : ~Queued(m_sessions[a])},
        line <- [i \in 1..Len(m_QueuedPlayer) |-> ses[m_QueuedPlayer[i]].acct],
        Limit <- PlayerLimit

ImplementsAdmission == Promise!Spec
=============================================================================
