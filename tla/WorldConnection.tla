-------------------------- MODULE WorldConnection --------------------------
(***************************************************************************)
(* One WorldSession between the threads that share it: the network thread  *)
(* of its realm socket, that of its instance socket, the world thread      *)
(* (UpdateSessions) and, in turn with it, the worker updating the          *)
(* player's map.                                                           *)
(*                                                                         *)
(* The two sockets hold a plain pointer to the session, guarded by their   *)
(* _worldSessionLock; the session holds the sockets and is deleted by the  *)
(* world thread.  Of a packet its kind is kept: "login" and "enum" are     *)
(* STATUS_AUTHED, "safe" and "unsafe" STATUS_LOGGEDIN by the thread that   *)
(* may process them, "ack" STATUS_TRANSFER.  A client may acknowledge the  *)
(* encrypted mode out of turn, which the code does not check.  Retries of  *)
(* SMSG_CONNECT_TO are not modelled, nor a session waiting in the login    *)
(* queue, nor a second instance socket beside one that is still open.      *)
(***************************************************************************)
EXTENDS Naturals, Sequences, FiniteSets, SequencesExt

CONSTANTS
    ExpireTime,    \* updates a player outlives a lost socket; a minute in the code
    MaxProcessed,  \* MAX_PROCESSED_PACKETS_IN_SAME_WORLDSESSION_UPDATE; 100 in the code
    MaxWaiting,    \* bound: STATUS_LOGGEDIN packets in the queue
    MaxPackets,    \* bound: packets received
    MaxRepeats     \* bound: acknowledgements clients send out of turn

ASSUME ConstantsAssumption ==
    {ExpireTime, MaxProcessed, MaxWaiting, MaxPackets, MaxRepeats} \subseteq Nat

\* For LoginReached alone: with more of them waiting than one update handles,
\* they are put back in front of the login each time.
ASSUME LoginAssumption == MaxWaiting <= MaxProcessed

Sockets == {"realm", "instance"}
LoggedIn == {"safe", "unsafe"}
Kinds == LoggedIn \cup {"login", "enum", "ack"}
Packets == [kind : Kinds, at : 1..MaxPackets]

VARIABLES
    \* a socket: how far its handshake is, _closed, whether _worldSession is
    \* set, where its network thread is ("locked": it holds _worldSessionLock)
    \* and the packet that thread holds
    stage, closed, pointer, net, inHand,
    \* the session: "none", "made", "listed" in m_sessions, "deleted"; what
    \* its account has in addSessQueue, where "nobody" is nullptr; how often
    \* its instance socket is in _linkSocketQueue
    life, toAdd, toLink,
    \* m_Socket, forceExit, expireTime; the player; m_playerRecentlyLogout;
    \* _logoutTime is set
    held, forceExit, expireTime, player, recentlyLogout, leaving,
    \* _recvQueue; the locals of Update; history: packets received, the last
    \* STATUS_LOGGEDIN one handled
    recvQueue, requeuePackets, processed, received, handled,
    \* where the world thread, or the map's worker, is; "aborted" by an ASSERT,
    \* "undefined" after the use of a deleted session, "twice" when the same
    \* player is loaded again while it is being loaded: there the model ends
    pc,
    \* history: acknowledgements sent out of turn
    repeats

network == <<stage, closed, pointer, net, inHand>>
world == <<life, toAdd, toLink>>
session == <<held, forceExit, expireTime, player, recentlyLogout, leaving>>
packets == <<recvQueue, requeuePackets, processed, received, handled>>
vars == <<network, world, session, packets, pc, repeats>>

Init ==
    /\ stage = [k \in Sockets |-> "start"] /\ closed = [k \in Sockets |-> FALSE]
    /\ pointer = [k \in Sockets |-> FALSE] /\ net = [k \in Sockets |-> "idle"]
    /\ inHand = [k \in Sockets |-> "none"]
    /\ life = "none" /\ toAdd = <<>> /\ toLink = 0
    /\ held = {} /\ forceExit = FALSE /\ expireTime = ExpireTime
    /\ player = "none" /\ recentlyLogout = FALSE /\ leaving = FALSE
    /\ recvQueue = <<>> /\ requeuePackets = <<>> /\ processed = 0 /\ received = 0 /\ handled = 0
    /\ pc = "link" /\ repeats = 0

PlayerLoading == player \in {"loading", "querying"}
HasPlayer == player \in {"in", "out"}
Halted == pc \in {"aborted", "undefined", "twice"}

-----------------------------------------------------------------------------
(* The network thread of socket k.                                         *)

\* The session exists from here on; the world does not know it yet.
HandleAuthSession ==
    /\ stage["realm"] = "start" /\ ~closed["realm"]
    /\ stage' = [stage EXCEPT !["realm"] = "created"]
    /\ pointer' = [pointer EXCEPT !["realm"] = TRUE]
    /\ life' = "made" /\ held' = {"realm"}
    /\ UNCHANGED <<closed, net, inHand, toAdd, toLink, forceExit, expireTime, player,
                   recentlyLogout, leaving, packets, pc, repeats>>

\* The query's callback runs only while the socket is open.
LoadSessionPermissionsCallback ==
    /\ stage["realm"] = "created" /\ net["realm"] = "idle" /\ ~closed["realm"]
    /\ stage' = [stage EXCEPT !["realm"] = "encrypted"]
    /\ UNCHANGED <<closed, pointer, net, inHand, world, session, packets, pc, repeats>>

\* The client follows SMSG_CONNECT_TO with its first instance socket, or with
\* the next one when the session let go of the last.
HandleAuthContinuedSession ==
    /\ player = "loading" /\ net["instance"] \in {"idle", "done"} /\ toLink = 0 /\ pc # "linking"
    /\ stage["instance"] = "start" \/ (closed["instance"] /\ "instance" \notin held)
    /\ stage' = [stage EXCEPT !["instance"] = "encrypted"]
    /\ closed' = [closed EXCEPT !["instance"] = FALSE]
    /\ pointer' = [pointer EXCEPT !["instance"] = FALSE]
    /\ net' = [net EXCEPT !["instance"] = "idle"]
    /\ UNCHANGED <<inHand, world, session, packets, pc, repeats>>

\* CMSG_ENTER_ENCRYPTED_MODE_ACK in answer to SMSG_ENTER_ENCRYPTED_MODE.
HandleEnterEncryptedModeAck(k) ==
    /\ stage[k] = "encrypted" /\ net[k] = "idle" /\ ~closed[k]
    /\ stage' = [stage EXCEPT ![k] = "acked"]
    /\ toAdd' = IF k = "realm" THEN Append(toAdd, "session") ELSE toAdd
    /\ toLink' = IF k = "instance" THEN toLink + 1 ELSE toLink
    /\ UNCHANGED <<closed, pointer, net, inHand, life, session, packets, pc, repeats>>

\* The same before it was asked for, or once more.  Whoever sends it over a
\* connection without a session hands over nullptr.
EnterEncryptedModeAckAgain(k) ==
    /\ repeats < MaxRepeats /\ repeats' = repeats + 1
    /\ \/ k = "realm" /\ toAdd' = Append(toAdd, "nobody") /\ UNCHANGED toLink
       \/ /\ k = "realm" /\ stage[k] \in {"created", "acked"} /\ net[k] = "idle" /\ pointer[k]
          /\ toAdd' = Append(toAdd, "session") /\ UNCHANGED toLink
       \/ /\ k = "instance" /\ stage[k] = "acked" /\ net[k] = "idle"
          /\ toLink' = toLink + 1 /\ UNCHANGED toAdd
    /\ UNCHANGED <<network, life, session, packets, pc>>

\* How many STATUS_LOGGEDIN packets a queue has, and packets being received.
Waiting(q) == Len(SelectSeq(q, LAMBDA p : p.kind \in LoggedIn))
Receiving(kinds) == Cardinality({k \in Sockets : inHand[k] \in kinds})

\* From the authentication on, ReadHandler hands on what its buffer holds
\* without asking whether another thread closed the socket.  Without a session
\* the socket is closed.  The client sends STATUS_AUTHED packets over its realm
\* connection.
ReadDataHandler(k, kind) ==
    /\ stage[k] # "start" /\ net[k] = "idle"
    /\ received + Receiving(Kinds) < MaxPackets
    /\ kind \in {"login", "enum"} => k = "realm"
    /\ kind \in LoggedIn =>
           Waiting(recvQueue) + Waiting(requeuePackets) + Receiving(LoggedIn) < MaxWaiting
    /\ IF pointer[k] THEN net' = [net EXCEPT ![k] = "locked"] /\ UNCHANGED closed
       ELSE net' = [net EXCEPT ![k] = "closing"] /\ closed' = [closed EXCEPT ![k] = TRUE]
    /\ inHand' = [inHand EXCEPT ![k] = IF pointer[k] THEN kind ELSE "none"]
    /\ UNCHANGED <<stage, pointer, world, session, packets, pc, repeats>>

\* The packet is queued, and the lock released.
QueuePacket(k) ==
    /\ net[k] = "locked"
    /\ received' = received + 1
    /\ recvQueue' = Append(recvQueue, [kind |-> inHand[k], at |-> received + 1])
    /\ net' = [net EXCEPT ![k] = "idle"] /\ inHand' = [inHand EXCEPT ![k] = "none"]
    /\ UNCHANGED <<stage, closed, pointer, world, session, requeuePackets, processed, handled, pc,
                   repeats>>

\* A read, write or protocol error: the first half of CloseSocket.
Disconnect(k) ==
    /\ stage[k] # "start" /\ net[k] = "idle"
    /\ net' = [net EXCEPT ![k] = IF closed[k] THEN "done" ELSE "closing"]
    /\ closed' = [closed EXCEPT ![k] = TRUE]
    /\ UNCHANGED <<stage, pointer, inHand, world, session, packets, pc, repeats>>

OnClose(k) ==
    /\ net[k] = "closing"
    /\ net' = [net EXCEPT ![k] = "done"] /\ pointer' = [pointer EXCEPT ![k] = FALSE]
    /\ UNCHANGED <<stage, closed, inHand, world, session, packets, pc, repeats>>

-----------------------------------------------------------------------------
(* What the world thread and the worker do to the session.                 *)

\* Mutant: OnClose does not take the lock.
CloseSocketAtOnce(ks) ==
    /\ pointer' = [k \in Sockets |-> pointer[k] /\ (k \notin ks \/ closed[k])]
    /\ closed' = [k \in Sockets |-> closed[k] \/ k \in ks]
    /\ UNCHANGED <<stage, net, inHand>>

\* CloseSocket as called from other threads.  OnClose waits for the lock; that
\* _closed is set before makes no difference to a thread that has it.
CloseSocket(ks) ==
    /\ \A k \in ks : net[k] # "locked"
    /\ pointer' = [k \in Sockets |-> pointer[k] /\ (k \notin ks \/ closed[k])]
    /\ closed' = [k \in Sockets |-> closed[k] \/ k \in ks]
    /\ UNCHANGED <<stage, net, inHand>>

KickPlayer == CloseSocket(held) /\ forceExit' = TRUE

\* A transfer under way is finished first.
LogoutPlayer ==
    /\ CloseSocket(held \cap {"instance"})
    /\ held' = held \ {"instance"} /\ player' = "none"
    /\ recentlyLogout' = TRUE /\ leaving' = FALSE
    /\ UNCHANGED <<forceExit, expireTime>>

\* delete, and everything the destructor releases.  held is closed before.
Delete ==
    /\ life' = "deleted" /\ held' = {} /\ player' = "none"
    /\ recentlyLogout' = FALSE /\ leaving' = FALSE
    /\ recvQueue' = <<>> /\ requeuePackets' = <<>> /\ processed' = 0

-----------------------------------------------------------------------------
(* World::UpdateSessions.                                                  *)

\* The loop over _linkSocketQueue goes on, or ends.
NextLink == IF toLink' > 0 THEN "link" ELSE "add"

\* ProcessLinkInstanceSocket, up to where it found the socket open and the
\* session by its key.
ProcessLinkInstanceSocket ==
    /\ pc = "link" /\ toLink > 0
    /\ toLink' = toLink - 1
    /\ pc' = IF ~closed["instance"] /\ life = "listed" THEN "linking" ELSE NextLink
    /\ IF life # "listed" THEN CloseSocket({"instance"}) ELSE UNCHANGED network
    /\ UNCHANGED <<life, toAdd, session, packets>>

\* SetWorldSession, AddInstanceConnection and HandleContinuePlayerLogin, whose
\* queries may fail to be prepared.  If no player is to be loaded, KickPlayer:
\* a socket closed since it was looked at keeps the pointer it is given.
LinkInstanceSocket ==
    /\ pc = "linking" /\ net["instance"] # "locked"
    /\ UNCHANGED world
    /\ held' = held \cup {"instance"}
    /\ \/ /\ player = "loading" /\ player' \in {"querying", "none"} /\ pc' = NextLink
          /\ pointer' = [pointer EXCEPT !["instance"] = TRUE]
          /\ UNCHANGED <<closed, forceExit>>
       \/ /\ player = "querying" /\ pc' = "twice"
          /\ pointer' = [pointer EXCEPT !["instance"] = TRUE]
          /\ UNCHANGED <<closed, forceExit, player>>
       \/ /\ ~PlayerLoading /\ pc' = NextLink /\ net["realm"] # "locked"
          /\ pointer' = [k \in Sockets |-> (pointer[k] \/ k = "instance") /\ (k \notin held' \/ closed[k])]
          /\ closed' = [k \in Sockets |-> closed[k] \/ k \in held']
          /\ forceExit' = TRUE /\ UNCHANGED player
    /\ UNCHANGED <<stage, net, inHand, expireTime, recentlyLogout, leaving, packets>>

\* Nothing is left to be linked.
Linked == pc = "add" \/ (pc = "link" /\ toLink = 0)

\* AddSession_: the session is registered, or refused because another one of
\* its account is loading its player.
AddSession_(refused) ==
    /\ Linked /\ toAdd # <<>> /\ Head(toAdd) = "session" /\ life = "made" /\ pc' = "add"
    /\ toAdd' = Tail(toAdd)
    /\ IF refused THEN KickPlayer /\ Delete
       ELSE /\ life' = "listed"
            /\ UNCHANGED <<network, held, forceExit, player, recentlyLogout, leaving,
                           recvQueue, requeuePackets, processed>>
    /\ UNCHANGED <<toLink, expireTime, received, handled>>

\* AddSession_ of nullptr fails its ASSERT.  Of a session added before, it deletes
\* the session that it then registers.
AddSessionOutOfTurn ==
    /\ Linked /\ toAdd # <<>> /\ (Head(toAdd) = "nobody" \/ life # "made")
    /\ pc' = IF Head(toAdd) = "nobody" THEN "aborted" ELSE "undefined"
    /\ toAdd' = Tail(toAdd)
    /\ UNCHANGED <<network, life, toLink, session, packets>>

\* AddSession_ for another session of the account.
Replace ==
    /\ Linked /\ life = "listed" /\ ~PlayerLoading /\ pc' = "add"
    /\ KickPlayer /\ Delete
    /\ UNCHANGED <<toAdd, toLink, expireTime, received, handled>>

\* The session's Update begins; idle connections are closed.
BeginUpdate ==
    /\ Linked /\ toAdd = <<>>
    /\ pc' = IF life = "listed" THEN "world" ELSE "link"
    /\ (CloseSocket({"realm"}) /\ life = "listed") \/ UNCHANGED network
    /\ UNCHANGED <<world, session, packets>>

-----------------------------------------------------------------------------
(* WorldSession::Update: the packets.  pc is "world" or "map" by the       *)
(* filter it is called with.                                               *)

\* Process of WorldSessionFilter and MapSessionFilter.
Process(kind) ==
    IF kind = "safe" THEN (pc = "map") = (player = "in") ELSE pc = "world"

\* Mutant: there is no limit.
MoreUnlimited ==
    /\ "realm" \in held
    /\ recvQueue # <<>> /\ Process(Head(recvQueue).kind)

\* Mutant: the limit stops the loop one packet early.
MoreStrict ==
    /\ "realm" \in held /\ processed < MaxProcessed
    /\ recvQueue # <<>> /\ Process(Head(recvQueue).kind)

\* The loop goes on.
More ==
    /\ "realm" \in held /\ processed <= MaxProcessed
    /\ recvQueue # <<>> /\ Process(Head(recvQueue).kind)

\* The packet at the front is taken.
Taken ==
    /\ pc \in {"world", "map"} /\ More
    /\ recvQueue' = Tail(recvQueue) /\ processed' = processed + 1
    /\ UNCHANGED <<world, expireTime, received, pc>>

\* STATUS_LOGGEDIN before there is a player.  Lately logged out, the client is
\* taken to mean the player that was.
Postpone ==
    /\ Taken /\ Head(recvQueue).kind \in LoggedIn /\ ~HasPlayer
    /\ requeuePackets' = IF recentlyLogout THEN requeuePackets
                         ELSE Append(requeuePackets, Head(recvQueue))
    /\ UNCHANGED <<network, held, forceExit, player, recentlyLogout, leaving, handled>>

\* Packets that are dropped: STATUS_LOGGEDIN during a transfer,
\* STATUS_TRANSFER outside of one.
Skip ==
    /\ Taken
    /\ \/ Head(recvQueue).kind \in LoggedIn /\ player = "out"
       \/ Head(recvQueue).kind = "ack" /\ player # "out"
    /\ UNCHANGED <<network, held, forceExit, player, recentlyLogout, leaving, requeuePackets, handled>>

\* AntiDOS kicks the player, drops a packet that would be handled, and ends the
\* loop.
Throttle ==
    /\ pc \in {"world", "map"} /\ More
    /\ CASE Head(recvQueue).kind \in LoggedIn -> player = "in"
         [] Head(recvQueue).kind = "ack"      -> player = "out"
         [] OTHER                             -> TRUE
    /\ KickPlayer
    /\ recvQueue' = Tail(recvQueue) /\ processed' = MaxProcessed + 1
    /\ recentlyLogout' = (recentlyLogout /\ Head(recvQueue).kind # "enum")
    /\ UNCHANGED <<world, held, expireTime, player, leaving, requeuePackets, received, handled, pc>>

\* Handlers of packets of a player in the world: they may start a transfer to
\* another map, kick the player, ask for the logout or log out at once.
HandleLoggedIn ==
    /\ Taken /\ Head(recvQueue).kind \in LoggedIn /\ player = "in"
    /\ handled' = Head(recvQueue).at
    /\ \/ UNCHANGED <<network, held, forceExit, player, recentlyLogout, leaving>>
       \/ player' = "out" /\ UNCHANGED <<network, held, forceExit, recentlyLogout, leaving>>
       \/ KickPlayer /\ UNCHANGED <<held, player, recentlyLogout, leaving>>
       \/ /\ Head(recvQueue).kind = "unsafe"
          /\ \/ leaving' = TRUE /\ UNCHANGED <<network, held, forceExit, player, recentlyLogout>>
             \/ LogoutPlayer
    /\ UNCHANGED requeuePackets

\* The player arrives, is sent home instead, or, with no valid place to go to, is
\* logged out.
HandleMoveWorldportAck ==
    /\ Taken /\ Head(recvQueue).kind = "ack" /\ player = "out"
    /\ \/ player' \in {"in", "out"} /\ UNCHANGED <<network, held, forceExit, recentlyLogout, leaving>>
       \/ LogoutPlayer
    /\ UNCHANGED <<requeuePackets, handled>>

HandleCharEnum ==
    /\ Taken /\ Head(recvQueue).kind = "enum"
    /\ recentlyLogout' = FALSE
    /\ UNCHANGED <<network, held, forceExit, player, leaving, requeuePackets, handled>>

\* HandlePlayerLoginOpcode: SMSG_CONNECT_TO is sent, unless the player is not the
\* account's.
HandlePlayerLogin ==
    /\ Taken /\ Head(recvQueue).kind = "login"
    /\ \/ /\ ~PlayerLoading /\ ~HasPlayer /\ player' = "loading"
          /\ UNCHANGED <<network, forceExit>> \/ KickPlayer
       \/ (PlayerLoading \/ HasPlayer) /\ KickPlayer /\ UNCHANGED player
    /\ UNCHANGED <<held, recentlyLogout, leaving, requeuePackets, handled>>

\* Mutant: packets put back end up behind those that came later.
ReaddAtBack ==
    /\ pc \in {"world", "map"} /\ ~More
    /\ recvQueue' = recvQueue \o requeuePackets /\ requeuePackets' = <<>> /\ processed' = 0
    /\ pc' = IF pc = "world" THEN "callbacks" ELSE "link"
    /\ UNCHANGED <<network, world, session, received, handled>>

\* The loop is over.
Readd ==
    /\ pc \in {"world", "map"} /\ ~More
    /\ recvQueue' = requeuePackets \o recvQueue /\ requeuePackets' = <<>> /\ processed' = 0
    /\ pc' = IF pc = "world" THEN "callbacks" ELSE "link"
    /\ UNCHANGED <<network, world, session, received, handled>>

-----------------------------------------------------------------------------
(* WorldSession::Update, called by the world thread: the rest.             *)

\* ProcessQueryCallbacks may find the login's queries done: HandlePlayerLogin.
ProcessQueryCallbacks ==
    /\ pc = "callbacks" /\ pc' = "sockets"
    /\ \/ UNCHANGED <<network, forceExit, player>>
       \/ player = "querying" /\ player' = "in" /\ UNCHANGED <<network, forceExit>>
       \/ player = "querying" /\ player' = "none" /\ KickPlayer
    /\ UNCHANGED <<world, held, expireTime, recentlyLogout, leaving, packets>>

\* The time of a logout asked for has come.  Then no login is under way, as
\* LogoutPlayer ends both the player and the request.
Logout ==
    /\ pc = "callbacks" /\ pc' = "sockets"
    /\ leaving /\ ~PlayerLoading /\ LogoutPlayer
    /\ UNCHANGED <<world, packets>>

Lost == \E k \in held : closed[k]

\* Mutant: the time runs only while there is no player.
CheckSocketsIdle ==
    /\ pc = "sockets"
    /\ expireTime' = IF Lost /\ ~HasPlayer /\ expireTime > 0 THEN expireTime - 1 ELSE expireTime
    /\ pc' = IF Lost /\ (expireTime' = 0 \/ forceExit \/ ~HasPlayer) THEN "dropping"
             ELSE IF player = "in" THEN "map" ELSE "link"
    /\ UNCHANGED <<network, world, held, forceExit, player, recentlyLogout, leaving, packets>>

\* A socket is lost: for some time the session is kept for its player.
CheckSockets ==
    /\ pc = "sockets"
    /\ expireTime' = IF Lost /\ expireTime > 0 THEN expireTime - 1 ELSE expireTime
    /\ pc' = IF Lost /\ (expireTime' = 0 \/ forceExit \/ ~HasPlayer) THEN "dropping"
             ELSE IF player = "in" THEN "map" ELSE "link"
    /\ UNCHANGED <<network, world, held, forceExit, player, recentlyLogout, leaving, packets>>

\* Both sockets are closed and let go of, the realm's first.
DropSocket(k) ==
    /\ pc = "dropping" /\ k \in held /\ (k = "realm" \/ "realm" \notin held)
    /\ CloseSocket({k}) /\ held' = held \ {k}
    /\ UNCHANGED <<world, forceExit, expireTime, player, recentlyLogout, leaving, packets, pc>>

\* Update returned false: the session is erased and deleted.
DeleteSession ==
    /\ pc = "dropping" /\ held = {} /\ pc' = "link"
    /\ Delete
    /\ UNCHANGED <<network, toAdd, toLink, forceExit, expireTime, received, handled>>

-----------------------------------------------------------------------------
Network(k) ==
    \/ \E kind \in Kinds : ReadDataHandler(k, kind)
    \/ HandleEnterEncryptedModeAck(k) \/ EnterEncryptedModeAckAgain(k) \/ Disconnect(k)
    \/ QueuePacket(k) \/ OnClose(k)

Packet ==
    Postpone \/ Skip \/ Throttle \/ HandleLoggedIn \/ HandleMoveWorldportAck
    \/ HandleCharEnum \/ HandlePlayerLogin

World ==
    /\ UNCHANGED repeats
    /\ \/ ProcessLinkInstanceSocket \/ LinkInstanceSocket
       \/ \E refused \in BOOLEAN : AddSession_(refused)
       \/ AddSessionOutOfTurn \/ Replace
       \/ BeginUpdate \/ Packet \/ Readd \/ ProcessQueryCallbacks \/ Logout
       \/ CheckSockets \/ (\E k \in Sockets : DropSocket(k)) \/ DeleteSession

\* The process has ended, or the model has.
Stopped == Halted /\ UNCHANGED vars

Next ==
    \/ /\ ~Halted
       /\ \/ HandleAuthSession \/ LoadSessionPermissionsCallback \/ HandleAuthContinuedSession
          \/ \E k \in Sockets : Network(k)
          \/ World
    \/ Stopped

Spec == Init /\ [][Next]_vars

\* The world thread runs on, and a network thread finishes what it began.
FairSpec ==
    /\ Spec
    /\ WF_vars(World)
    /\ \A k \in Sockets : WF_vars(QueuePacket(k) /\ ~Halted) /\ WF_vars(OnClose(k) /\ ~Halted)

-----------------------------------------------------------------------------
SocketsOK ==
    /\ stage \in [Sockets -> {"start", "created", "encrypted", "acked"}]
    /\ closed \in [Sockets -> BOOLEAN] /\ pointer \in [Sockets -> BOOLEAN]
    /\ net \in [Sockets -> {"idle", "locked", "closing", "done"}]
    /\ inHand \in [Sockets -> Kinds \cup {"none"}]
    /\ \A k \in Sockets : net[k] = "locked" <=> inHand[k] # "none"

SessionOK ==
    /\ life \in {"none", "made", "listed", "deleted"}
    /\ toAdd \in Seq({"session", "nobody"}) /\ toLink \in Nat /\ repeats \in Nat
    /\ held \subseteq Sockets /\ forceExit \in BOOLEAN /\ expireTime \in 0..ExpireTime
    /\ player \in {"none", "loading", "querying", "in", "out"}
    /\ HasPlayer => life = "listed"
    /\ recentlyLogout \in BOOLEAN /\ leaving \in BOOLEAN
    /\ pc \in {"link", "linking", "add", "world", "map", "callbacks", "sockets", "dropping",
              "aborted", "undefined", "twice"}
    /\ pc \in {"linking", "world", "map", "callbacks", "sockets", "dropping"} => life = "listed"

PacketsOK ==
    /\ recvQueue \in Seq(Packets) /\ requeuePackets \in Seq(Packets)
    /\ processed \in 0..MaxProcessed + 1
    /\ received \in 0..MaxPackets /\ handled \in 0..MaxPackets

TypeOK == SocketsOK /\ SessionOK /\ PacketsOK

\* As long as clients acknowledge in turn, no session is handed over when it is
\* not new.  The world thread deletes it by a rule the network threads know
\* nothing of.  None of them is then using it or going to: the pointer of a
\* socket that is still read from is null, and a handshake that would hand the
\* session over a second time is past.  (WorldSocket.cpp:251, World.cpp:370)
NoUseAfterFree ==
    repeats = 0 =>
        /\ ~Halted
        /\ life = "deleted" =>
               /\ \A k \in Sockets :
                      net[k] # "locked" /\ (pointer[k] => net[k] \in {"closing", "done"})
               /\ stage["realm"] = "acked" /\ toAdd = <<>>

\* Packets of a player in the world are handled in the order they were
\* received, although two threads take them in turn and early ones are put
\* back.  (WorldSession.cpp:352, 488)
QueueInOrder ==
    LET q == requeuePackets \o recvQueue
        waiting == {i \in 1..Len(q) : q[i].kind \in LoggedIn}
    IN  \A i \in waiting : /\ handled < q[i].at
                           /\ \A j \in waiting : i < j => q[i].at < q[j].at

\* A session handed to the world does not outlive its realm connection for
\* ever, whichever thread closed it and whatever the player was doing.
\* (WorldSession.cpp:516-541)
SessionEnds == (stage["realm"] = "acked" /\ closed["realm"]) ~> (life = "deleted" \/ Halted)

\* A login in the queue of a registered session is reached, however the packets
\* before it have to be treated and whichever thread is the one to do it.
\* (WorldSession.cpp:352-488)
LoginReached ==
    \A n \in 1..MaxPackets :
        LET queued == Contains(recvQueue, [kind |-> "login", at |-> n])
        IN  (queued /\ life = "listed") ~> (~queued \/ Halted)
=============================================================================
