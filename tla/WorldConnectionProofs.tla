----------------------- MODULE WorldConnectionProofs -----------------------
(***************************************************************************)
(* Proofs about WorldConnection, for any number of packets, limit of       *)
(* packets per update and time a session outlives its socket.              *)
(***************************************************************************)
EXTENDS WorldConnection, FiniteSetTheorems, SequenceTheorems, TLAPS

(* Whose pointer to the session a network thread may use.  This part and   *)
(* the next two say something only while clients acknowledge in turn.      *)
Pointers ==
    repeats = 0 =>
        /\ \A k \in Sockets : net[k] = "locked" => pointer[k]
        /\ \A k \in Sockets : closed[k] /\ pointer[k] => net[k] \in {"closing", "done"}
        /\ \A k \in Sockets : pointer[k] /\ ~closed[k] => k \in held /\ life \in {"made", "listed"}
        /\ life = "none" => \A k \in Sockets : ~pointer[k]
        /\ pc = "linking" /\ closed["instance"] => net["instance"] \in {"closing", "done"}

(* The session is handed over once, at the end of the realm's handshake.   *)
HandedOver ==
    /\ stage["realm"] = "start" <=> life = "none"
    /\ repeats = 0 =>
           /\ stage["realm"] \in {"created", "encrypted"} => life = "made" /\ toAdd = <<>>
           /\ toAdd = <<>> \/ (toAdd = <<"session">> /\ life = "made")

(* An instance socket is handed over once, and until it is linked, the     *)
(* session waits for it.                                                   *)
InTurn ==
    repeats = 0 =>
        /\ ~Halted /\ toLink <= 1
        /\ pc = "linking" => toLink = 0
        /\ stage["instance"] = "encrypted" => toLink = 0 /\ pc # "linking"
        /\ stage["instance"] = "encrypted" \/ toLink > 0 \/ pc = "linking"
               => life = "deleted" \/ player = "loading"

Ordered(q) ==
    \A i, j \in 1..Len(q) :
        i < j /\ q[i].kind \in LoggedIn /\ q[j].kind \in LoggedIn => q[i].at < q[j].at

(* All packets of q came after number n and no later than the last one.    *)
After(q, n) ==
    \A i \in 1..Len(q) : q[i].at <= received /\ (q[i].kind \in LoggedIn => n < q[i].at)

(* The order of the packets; packets are put aside only while there is no  *)
(* player whom one of the same update could reach.                         *)
Order ==
    /\ handled <= received /\ received + Receiving(Kinds) <= MaxPackets
    /\ Ordered(requeuePackets) /\ Ordered(recvQueue)
    /\ \A i \in 1..Len(requeuePackets) : \A j \in 1..Len(recvQueue) :
           requeuePackets[i].kind \in LoggedIn /\ recvQueue[j].kind \in LoggedIn
               => requeuePackets[i].at < recvQueue[j].at
    /\ After(requeuePackets, handled) /\ After(recvQueue, handled)
    /\ requeuePackets # <<>> => pc \in {"world", "map"} /\ ~HasPlayer

IInv == TypeOK /\ Pointers /\ HandedOver /\ InTurn /\ Order

-----------------------------------------------------------------------------
(* Initial states.                                                         *)

LEMMA InitIInv == Init => IInv
<1> SUFFICES ASSUME Init PROVE IInv
  OBVIOUS
<1> USE ConstantsAssumption DEF Init
<1>1. SocketsOK
  BY DEF SocketsOK, Kinds, LoggedIn
<1>2. SessionOK
  <2>1. ExpireTime \in Nat
    OBVIOUS
  <2>2. life \in {"none", "made", "listed", "deleted"} /\ held \subseteq Sockets
    OBVIOUS
  <2>3. toLink \in Nat /\ forceExit \in BOOLEAN /\ repeats \in Nat
    OBVIOUS
  <2>6. toAdd \in Seq({"session", "nobody"})
    BY EmptySeq
  <2>4. recentlyLogout \in BOOLEAN /\ leaving \in BOOLEAN
    OBVIOUS
  <2>5. ~HasPlayer
    BY DEF HasPlayer
  <2> QED BY <2>1, <2>2, <2>3, <2>4, <2>5, <2>6 DEF SessionOK
<1>3. PacketsOK
  BY DEF PacketsOK
<1>4. Pointers /\ HandedOver /\ InTurn
  BY DEF Pointers, HandedOver, InTurn, Halted, Sockets
<1>5. Order
  <2>1. \A k \in Sockets : inHand[k] \notin Kinds
    BY DEF Kinds, LoggedIn
  <2>2. Receiving(Kinds) = 0
    BY <2>1, FS_EmptySet DEF Receiving
  <2> QED BY <2>2 DEF Order, Ordered, After
<1> QED BY <1>1, <1>2, <1>3, <1>4, <1>5 DEF IInv, TypeOK

-----------------------------------------------------------------------------
(* CloseSocket.                                                            *)

\* Closing the sockets of ks, for one k at a time.
LEMMA CloseSocketElements ==
    ASSUME SocketsOK, NEW ks \in SUBSET Sockets, CloseSocket(ks) \/ (ks = {} /\ UNCHANGED network)
    PROVE  /\ SocketsOK' /\ net' = net /\ inHand' = inHand /\ stage' = stage
           /\ \A k \in Sockets : /\ closed'[k] <=> closed[k] \/ k \in ks
                                 /\ pointer'[k] <=> pointer[k] /\ (k \notin ks \/ closed[k])
                                 /\ k \in ks => net[k] # "locked"
<1>1. CASE CloseSocket(ks)
  <2>1. net' = net /\ inHand' = inHand /\ stage' = stage
    BY <1>1 DEF CloseSocket
  <2>2. closed' \in [Sockets -> BOOLEAN] /\ pointer' \in [Sockets -> BOOLEAN]
    BY <1>1 DEF CloseSocket
  <2>3. \A k \in Sockets : /\ closed'[k] <=> closed[k] \/ k \in ks
                           /\ pointer'[k] <=> pointer[k] /\ (k \notin ks \/ closed[k])
                           /\ k \in ks => net[k] # "locked"
    BY <1>1 DEF CloseSocket
  <2> QED BY <2>1, <2>2, <2>3 DEF SocketsOK
<1>2. CASE ks = {} /\ UNCHANGED network
  BY <1>2 DEF network, SocketsOK
<1> QED BY <1>1, <1>2

\* The sockets of ks are closed, and the session lets go of none but these.
LEMMA CloseSocketKeeps ==
    ASSUME SocketsOK, Pointers, NEW ks \in SUBSET Sockets,
           CloseSocket(ks) \/ (ks = {} /\ UNCHANGED network),
           held \ ks \subseteq held',
           \/ life' = life
           \/ life = "made" /\ life' = "listed"
           \/ held \subseteq ks /\ life' = "deleted",
           pc' = "linking" => ~closed'["instance"], repeats' = repeats
    PROVE  SocketsOK' /\ Pointers'
<1>1. SocketsOK' /\ net' = net
  BY CloseSocketElements
<1> SUFFICES ASSUME repeats = 0 PROVE Pointers'
  BY <1>1 DEF Pointers
<1>2. \A k \in Sockets : /\ closed'[k] <=> closed[k] \/ k \in ks
                         /\ pointer'[k] <=> pointer[k] /\ (k \notin ks \/ closed[k])
                         /\ k \in ks => net[k] # "locked"
  BY CloseSocketElements
<1>3. \A k \in Sockets : net'[k] = "locked" => pointer'[k]
  BY <1>1, <1>2 DEF Pointers
<1>4. \A k \in Sockets : closed'[k] /\ pointer'[k] => net'[k] \in {"closing", "done"}
  BY <1>1, <1>2 DEF Pointers
<1>5. \A k \in Sockets : pointer'[k] /\ ~closed'[k] => k \in held' /\ life' \in {"made", "listed"}
  BY <1>2 DEF Pointers
<1>6. life' = "none" => \A k \in Sockets : ~pointer'[k]
  BY <1>2 DEF Pointers
<1>7. pc' = "linking" /\ closed'["instance"] => net'["instance"] \in {"closing", "done"}
  OBVIOUS
<1> QED BY <1>1, <1>3, <1>4, <1>5, <1>6, <1>7 DEF Pointers

\* No handshake ends, and the session still waits for what it waited for.
LEMMA InTurnKept ==
    ASSUME InTurn, repeats' = repeats, stage' = stage, toLink \in Nat, toLink' \in Nat,
           toLink' <= toLink, pc' \notin {"aborted", "undefined", "twice"},
           pc' = "linking" => toLink' < toLink,
           life = "deleted" => life' = "deleted",
           player = "loading" => player' = "loading" \/ life' = "deleted"
    PROVE  InTurn'
BY DEF InTurn, Halted

-----------------------------------------------------------------------------
(* Queues of packets.                                                      *)

\* Nothing of the queues changes.
LEMMA OrderKept ==
    ASSUME Order, UNCHANGED packets, inHand' = inHand,
           requeuePackets # <<>> => pc' \in {"world", "map"} /\ ~HasPlayer'
    PROVE  Order'
BY DEF Order, packets, Ordered, After, Receiving

LEMMA PacketsKept == ASSUME PacketsOK, UNCHANGED packets PROVE PacketsOK'
BY DEF PacketsOK, packets

\* Sockets that receive a packet: none, one or both.
LEMMA ReceivingIsNat == Receiving(Kinds) \in Nat /\ Receiving(Kinds)' \in Nat
<1> DEFINE R == {k \in Sockets : inHand[k] \in Kinds}
           S == {k \in Sockets : inHand'[k] \in Kinds}
<1>1. IsFiniteSet(Sockets)
  <2>1. Sockets = ({} \cup {"realm"}) \cup {"instance"}
    BY DEF Sockets
  <2>2. IsFiniteSet({} \cup {"realm"})
    BY FS_EmptySet, FS_AddElement
  <2> QED BY <2>1, <2>2, FS_AddElement
<1>2. IsFiniteSet(R) /\ IsFiniteSet(S)
  BY <1>1, FS_Subset
<1> QED BY <1>2, FS_CardinalityType DEF Receiving

\* What a socket had in hand counts once: when it gets a packet, and when it
\* hands it on.
LEMMA ReceivingSteps ==
    ASSUME SocketsOK, NEW k \in Sockets, NEW kind,
           inHand' = [inHand EXCEPT ![k] = kind]
    PROVE  /\ Receiving(Kinds)' <= Receiving(Kinds) + 1
           /\ kind \notin Kinds => Receiving(Kinds)' <= Receiving(Kinds)
           /\ kind \notin Kinds /\ inHand[k] \in Kinds => Receiving(Kinds)' = Receiving(Kinds) - 1
<1> DEFINE R == {j \in Sockets : inHand[j] \in Kinds}
           S == {j \in Sockets : inHand'[j] \in Kinds}
<1>1. IsFiniteSet(R)
  <2>1. Sockets = ({} \cup {"realm"}) \cup {"instance"}
    BY DEF Sockets
  <2>2. IsFiniteSet({} \cup {"realm"})
    BY FS_EmptySet, FS_AddElement
  <2>3. IsFiniteSet(Sockets)
    BY <2>1, <2>2, FS_AddElement
  <2> QED BY <2>3, FS_Subset
<1>2. \A j \in Sockets : inHand'[j] = IF j = k THEN kind ELSE inHand[j]
  BY DEF SocketsOK
<1>3. S = IF kind \in Kinds THEN R \cup {k} ELSE R \ {k}
  BY <1>2
<1>4. /\ Cardinality(R) \in Nat
      /\ Cardinality(R \cup {k}) = IF k \in R THEN Cardinality(R) ELSE Cardinality(R) + 1
      /\ Cardinality(R \ {k}) = IF k \in R THEN Cardinality(R) - 1 ELSE Cardinality(R)
  BY <1>1, FS_CardinalityType, FS_AddElement, FS_RemoveElement
<1> HIDE DEF R, S
<1>5. Receiving(Kinds) = Cardinality(R) /\ Receiving(Kinds)' = Cardinality(S)
  BY DEF Receiving, R, S
<1>6. inHand[k] \in Kinds => k \in R
  BY DEF R
<1> QED BY <1>3, <1>4, <1>5, <1>6

\* Without its first element a queue stays in order.
LEMMA TailKeeps ==
    ASSUME PacketsOK, NEW q \in Seq(Packets), q # <<>>
    PROVE  /\ Tail(q) \in Seq(Packets) /\ Head(q) \in Packets /\ Head(q) = q[1]
           /\ \A i \in 1..Len(Tail(q)) : i + 1 \in 1..Len(q) /\ Tail(q)[i] = q[i + 1]
           /\ 1 \in 1..Len(q)
           /\ Ordered(q) => Ordered(Tail(q))
           /\ \A n : After(q, n) => After(Tail(q), n)
<1>1. /\ Tail(q) \in Seq(Packets) /\ Head(q) \in Packets /\ Head(q) = q[1]
      /\ \A i \in 1..Len(Tail(q)) : i + 1 \in 1..Len(q) /\ Tail(q)[i] = q[i + 1]
      /\ 1 \in 1..Len(q)
  OBVIOUS
<1>2. Ordered(q) => Ordered(Tail(q))
  BY <1>1 DEF Ordered
<1>3. \A n : After(q, n) => After(Tail(q), n)
  BY <1>1 DEF After
<1> QED BY <1>1, <1>2, <1>3

\* The first packet is taken off the queue.
LEMMA TakenKeeps ==
    ASSUME PacketsOK, Order, Taken, inHand' = inHand, requeuePackets' = requeuePackets,
           HasPlayer' => HasPlayer,
           \/ handled' = handled
           \/ /\ HasPlayer /\ Head(recvQueue).kind \in LoggedIn
              /\ handled' = Head(recvQueue).at
    PROVE  PacketsOK' /\ Order'
<1>1. /\ pc \in {"world", "map"} /\ pc' = pc /\ processed <= MaxProcessed /\ recvQueue # <<>>
      /\ recvQueue' = Tail(recvQueue) /\ processed' = processed + 1 /\ received' = received
  BY DEF Taken, More
<1>2. recvQueue \in Seq(Packets)
  BY DEF PacketsOK
<1>3. /\ recvQueue' \in Seq(Packets) /\ Head(recvQueue) \in Packets
      /\ \A i \in 1..Len(recvQueue') : i + 1 \in 1..Len(recvQueue) /\ recvQueue'[i] = recvQueue[i + 1]
      /\ 1 \in 1..Len(recvQueue) /\ Head(recvQueue) = recvQueue[1]
  BY <1>1, <1>2, TailKeeps
<1>4. Ordered(recvQueue') /\ \A n : After(recvQueue, n) => After(Tail(recvQueue), n)
  BY <1>1, <1>2, TailKeeps DEF Order
<1>5. handled' \in 0..MaxPackets
  BY <1>3 DEF PacketsOK, Packets
<1>6. PacketsOK'
  BY <1>1, <1>3, <1>5, ConstantsAssumption DEF PacketsOK
<1>7. Ordered(requeuePackets)' /\ Ordered(recvQueue)'
  BY <1>4 DEF Order, Ordered
<1>8. \A i \in 1..Len(requeuePackets') : \A j \in 1..Len(recvQueue') :
           requeuePackets'[i].kind \in LoggedIn /\ recvQueue'[j].kind \in LoggedIn
               => requeuePackets'[i].at < recvQueue'[j].at
  BY <1>3 DEF Order
<1>9. CASE handled' = handled
  <2>1. After(requeuePackets, handled)' /\ After(recvQueue, handled)'
    BY <1>1, <1>3, <1>9 DEF Order, After
  <2> QED BY <1>1, <1>9, <1>6, <1>7, <1>8, <2>1 DEF Order, Receiving
<1>10. CASE HasPlayer /\ Head(recvQueue).kind \in LoggedIn /\ handled' = Head(recvQueue).at
  <2>1. requeuePackets' = <<>>
    BY <1>10 DEF Order
  <2>2. \A i \in 1..Len(recvQueue') : recvQueue'[i].kind \in LoggedIn => handled' < recvQueue'[i].at
    BY <1>3, <1>10 DEF Order, Ordered
  <2>3. After(recvQueue, handled)'
    BY <1>1, <1>3, <2>2 DEF Order, After
  <2>4. After(requeuePackets, handled)'
    BY <2>1 DEF After
  <2>5. handled' <= received'
    BY <1>1, <1>3, <1>10 DEF Order, After
  <2> QED BY <1>1, <1>6, <1>7, <1>8, <2>1, <2>3, <2>4, <2>5 DEF Order, Receiving
<1> QED BY <1>9, <1>10

\* A step of the world thread or the worker that neither makes nor deletes the
\* session nor hands it over.
LEMMA WorldKeeps ==
    ASSUME SocketsOK, Pointers, HandedOver, NEW ks \in SUBSET Sockets,
           CloseSocket(ks) \/ (ks = {} /\ UNCHANGED network),
           held \ ks \subseteq held', life' = life, toAdd' = toAdd, repeats' = repeats,
           pc' = "linking" => ~closed'["instance"]
    PROVE  SocketsOK' /\ Pointers' /\ HandedOver' /\ inHand' = inHand /\ stage' = stage
<1>1. SocketsOK' /\ Pointers'
  BY CloseSocketKeeps
<1>2. stage' = stage /\ inHand' = inHand
  BY CloseSocketElements
<1>3. HandedOver'
  BY <1>2 DEF HandedOver
<1> QED BY <1>1, <1>2, <1>3

\* The session is deleted with its sockets closed.
LEMMA DeleteKeeps ==
    ASSUME IInv, NEW ks \in SUBSET Sockets, held \subseteq ks,
           CloseSocket(ks) \/ (ks = {} /\ UNCHANGED network),
           Delete, life = "listed" \/ (life = "made" /\ toAdd # <<>>),
           toAdd' \in Seq({"session", "nobody"}), repeats = 0 => toAdd' = <<>>,
           toLink' = toLink, repeats' = repeats,
           forceExit' \in BOOLEAN, expireTime' = expireTime,
           UNCHANGED <<received, handled>>, pc' \in {"add", "link"}
    PROVE  IInv'
<1>1. SocketsOK /\ SessionOK /\ PacketsOK /\ Pointers /\ HandedOver /\ InTurn /\ Order
  BY DEF IInv, TypeOK
<1>2. life' = "deleted" /\ held' = {} /\ player' = "none"
  BY DEF Delete
<1>3. SocketsOK' /\ Pointers'
  BY <1>1, <1>2, CloseSocketKeeps
<1>4. stage' = stage /\ inHand' = inHand
  BY <1>1, CloseSocketElements
<1>5. HandedOver'
  BY <1>1, <1>2, <1>4 DEF HandedOver, SessionOK
<1>10. InTurn'
  BY <1>1, <1>2, <1>4, InTurnKept DEF SessionOK
<1>6. SessionOK'
  <2>1. recentlyLogout' \in BOOLEAN /\ leaving' \in BOOLEAN
    BY DEF Delete
  <2>2. ~HasPlayer'
    BY <1>2 DEF HasPlayer
  <2>3. expireTime' \in 0..ExpireTime
    BY <1>1 DEF SessionOK
  <2> QED BY <1>1, <1>2, <2>1, <2>2, <2>3 DEF SessionOK
<1>7. recvQueue' = <<>> /\ requeuePackets' = <<>> /\ processed' = 0
  BY DEF Delete
<1>8. PacketsOK'
  BY <1>1, <1>7, ConstantsAssumption DEF PacketsOK
<1>9. Order'
  BY <1>1, <1>4, <1>7 DEF Order, Ordered, After, Receiving
<1> QED BY <1>3, <1>5, <1>6, <1>8, <1>9, <1>10 DEF IInv, TypeOK

-----------------------------------------------------------------------------
(* The network threads.                                                    *)

LEMMA HandleAuthSessionKeeps == IInv /\ HandleAuthSession => IInv'
<1> SUFFICES ASSUME IInv, HandleAuthSession PROVE IInv'
  OBVIOUS
<1>1. SocketsOK /\ SessionOK /\ PacketsOK /\ Pointers /\ HandedOver /\ InTurn /\ Order
  BY DEF IInv, TypeOK
<1>2. life = "none" /\ (repeats = 0 => \A k \in Sockets : ~pointer[k])
  BY <1>1 DEF HandleAuthSession, HandedOver, Pointers
<1>3. /\ repeats = 0 => toAdd = <<>>
      /\ ~HasPlayer /\ pc \notin {"linking", "world", "map", "callbacks", "sockets", "dropping"}
      /\ repeats' = repeats
  <2>1. repeats' = repeats
    BY DEF HandleAuthSession
  <2> QED BY <1>1, <1>2, <2>1 DEF SessionOK, HandedOver
<1>4. SocketsOK'
  BY <1>1 DEF HandleAuthSession, SocketsOK
<1>5. SessionOK'
  <2>1. ~HasPlayer'
    BY <1>3 DEF HandleAuthSession, HasPlayer
  <2>2. held' \subseteq Sockets /\ life' = "made"
    BY DEF HandleAuthSession, Sockets
  <2> QED BY <1>1, <1>3, <2>1, <2>2 DEF HandleAuthSession, SessionOK
<1>6. Pointers'
  <2>1. repeats = 0 => \A k \in Sockets : pointer'[k] <=> k = "realm"
    BY <1>1, <1>2 DEF HandleAuthSession, SocketsOK
  <2> QED BY <1>1, <1>2, <1>3, <2>1 DEF HandleAuthSession, Pointers
<1>7. HandedOver'
  BY <1>1, <1>3 DEF HandleAuthSession, HandedOver, SocketsOK, Sockets
<1>10. InTurn'
  <2>1. stage'["instance"] = stage["instance"]
    BY <1>1 DEF HandleAuthSession, SocketsOK, Sockets
  <2>2. /\ life = "none" /\ life' = "made" /\ player' = player /\ toLink' = toLink /\ pc' = pc
    BY <1>2 DEF HandleAuthSession
  <2> QED BY <1>1, <1>3, <2>1, <2>2 DEF InTurn, Halted
<1>8. PacketsOK'
  BY <1>1, PacketsKept DEF HandleAuthSession
<1>9. Order'
  <2>1. requeuePackets = <<>>
    BY <1>1, <1>3 DEF Order
  <2> QED BY <1>1, <2>1, OrderKept DEF HandleAuthSession
<1> QED BY <1>4, <1>5, <1>6, <1>7, <1>8, <1>9, <1>10 DEF IInv, TypeOK

LEMMA LoadSessionPermissionsCallbackKeeps ==
    IInv /\ LoadSessionPermissionsCallback => IInv'
<1> SUFFICES ASSUME IInv, LoadSessionPermissionsCallback PROVE IInv'
  OBVIOUS
<1>1. SocketsOK /\ SessionOK /\ PacketsOK /\ Pointers /\ HandedOver /\ InTurn /\ Order
  BY DEF IInv, TypeOK
<1>2. SocketsOK'
  BY <1>1 DEF LoadSessionPermissionsCallback, SocketsOK
<1>3. SessionOK'
  BY <1>1 DEF LoadSessionPermissionsCallback, SessionOK, world, session, HasPlayer
<1>4. Pointers'
  BY <1>1 DEF LoadSessionPermissionsCallback, Pointers, world, session
<1>5. HandedOver'
  BY <1>1 DEF LoadSessionPermissionsCallback, HandedOver, SocketsOK, Sockets, world
<1>7. InTurn'
  <2>1. stage'["instance"] = stage["instance"]
    BY <1>1 DEF LoadSessionPermissionsCallback, SocketsOK, Sockets
  <2> QED BY <1>1, <2>1 DEF LoadSessionPermissionsCallback, InTurn, Halted, world, session
<1>6. PacketsOK' /\ Order'
  BY <1>1, PacketsKept, OrderKept DEF LoadSessionPermissionsCallback, Order, session, HasPlayer
<1> QED BY <1>2, <1>3, <1>4, <1>5, <1>6, <1>7 DEF IInv, TypeOK

LEMMA HandleAuthContinuedSessionKeeps == IInv /\ HandleAuthContinuedSession => IInv'
<1> SUFFICES ASSUME IInv, HandleAuthContinuedSession PROVE IInv'
  OBVIOUS
<1>1. SocketsOK /\ SessionOK /\ PacketsOK /\ Pointers /\ HandedOver /\ InTurn /\ Order
  BY DEF IInv, TypeOK
<1>2. /\ stage' = [stage EXCEPT !["instance"] = "encrypted"]
      /\ closed' = [closed EXCEPT !["instance"] = FALSE]
      /\ pointer' = [pointer EXCEPT !["instance"] = FALSE]
      /\ net' = [net EXCEPT !["instance"] = "idle"]
      /\ net["instance"] \in {"idle", "done"} /\ pc # "linking" /\ player = "loading" /\ toLink = 0
      /\ UNCHANGED <<inHand, world, session, packets, pc, repeats>>
  BY DEF HandleAuthContinuedSession
<1>3. SocketsOK'
  BY <1>1, <1>2 DEF SocketsOK, Sockets
<1>4. SessionOK'
  BY <1>1, <1>2 DEF SessionOK, world, session, HasPlayer
<1>5. Pointers'
  <2>1. \A k \in Sockets : /\ closed'[k] <=> closed[k] /\ k # "instance"
                           /\ pointer'[k] <=> pointer[k] /\ k # "instance"
                           /\ net'[k] = IF k = "instance" THEN "idle" ELSE net[k]
    BY <1>1, <1>2 DEF SocketsOK
  <2>2. held' = held /\ life' = life /\ pc' = pc /\ repeats' = repeats
    BY <1>2 DEF session, world
  <2> QED BY <1>1, <1>2, <2>1, <2>2 DEF Pointers
<1>6. HandedOver'
  BY <1>1, <1>2 DEF HandedOver, SocketsOK, Sockets, world
<1>8. InTurn'
  BY <1>1, <1>2 DEF InTurn, Halted, world, session
<1>7. PacketsOK' /\ Order'
  BY <1>1, <1>2, PacketsKept, OrderKept DEF Order, session, HasPlayer
<1> QED BY <1>3, <1>4, <1>5, <1>6, <1>7, <1>8 DEF IInv, TypeOK

LEMMA HandleEnterEncryptedModeAckKeeps ==
    ASSUME IInv, NEW k \in Sockets, HandleEnterEncryptedModeAck(k) PROVE IInv'
<1>1. SocketsOK /\ SessionOK /\ PacketsOK /\ Pointers /\ HandedOver /\ InTurn /\ Order
  BY DEF IInv, TypeOK
<1>2. /\ stage[k] = "encrypted" /\ stage' = [stage EXCEPT ![k] = "acked"]
      /\ toAdd' = IF k = "realm" THEN Append(toAdd, "session") ELSE toAdd
      /\ toLink' = IF k = "instance" THEN toLink + 1 ELSE toLink
      /\ UNCHANGED <<closed, pointer, net, inHand, life, session, packets, pc, repeats>>
  BY DEF HandleEnterEncryptedModeAck
<1>3. SocketsOK'
  BY <1>1, <1>2 DEF SocketsOK
<1>4. repeats = 0 /\ k = "realm" => life = "made" /\ toAdd = <<>>
  BY <1>1, <1>2 DEF HandedOver
<1>5. SessionOK'
  <2>1. toAdd' \in Seq({"session", "nobody"}) /\ toLink' \in Nat
    BY <1>1, <1>2 DEF SessionOK
  <2> QED BY <1>1, <1>2, <2>1 DEF SessionOK, session, HasPlayer
<1>6. Pointers'
  BY <1>1, <1>2 DEF Pointers, session
<1>7. HandedOver'
  <2>1. stage'["realm"] = IF k = "realm" THEN "acked" ELSE stage["realm"]
    BY <1>1, <1>2 DEF SocketsOK, Sockets
  <2>2. CASE k = "realm"
    <3>1. repeats = 0 => toAdd' = <<"session">>
      BY <1>2, <1>4, <2>2
    <3> QED BY <1>1, <1>2, <1>4, <2>1, <2>2, <3>1 DEF HandedOver
  <2>3. CASE k # "realm"
    <3>1. stage'["realm"] = stage["realm"] /\ life' = life /\ toAdd' = toAdd /\ repeats' = repeats
      BY <1>2, <2>1, <2>3
    <3> QED BY <1>1, <3>1 DEF HandedOver
  <2> QED BY <2>2, <2>3
<1>9. InTurn'
  <2>1. stage'["instance"] = IF k = "instance" THEN "acked" ELSE stage["instance"]
    BY <1>1, <1>2 DEF SocketsOK, Sockets
  <2>2. life' = life /\ player' = player /\ pc' = pc /\ repeats' = repeats /\ toLink \in Nat
    BY <1>1, <1>2 DEF session, SessionOK
  <2> QED BY <1>1, <1>2, <2>1, <2>2 DEF InTurn, Halted
<1>8. PacketsOK' /\ Order'
  BY <1>1, <1>2, PacketsKept, OrderKept DEF Order, session, HasPlayer
<1> QED BY <1>3, <1>5, <1>6, <1>7, <1>8, <1>9 DEF IInv, TypeOK

LEMMA EnterEncryptedModeAckAgainKeeps ==
    ASSUME IInv, NEW k \in Sockets, EnterEncryptedModeAckAgain(k) PROVE IInv'
<1>1. SocketsOK /\ SessionOK /\ PacketsOK /\ HandedOver /\ Order
  BY DEF IInv, TypeOK
<1>2. /\ repeats' = repeats + 1 /\ UNCHANGED <<network, life, session, packets, pc>>
      /\ toAdd' \in {toAdd, Append(toAdd, "nobody"), Append(toAdd, "session")}
      /\ toLink' \in {toLink, toLink + 1}
  BY DEF EnterEncryptedModeAckAgain
<1>3. SocketsOK'
  BY <1>1, <1>2 DEF SocketsOK, network
<1>4. repeats' \in Nat /\ repeats' # 0
  BY <1>1, <1>2 DEF SessionOK
<1>5. SessionOK'
  <2>1. toAdd' \in Seq({"session", "nobody"}) /\ toLink' \in Nat
    BY <1>1, <1>2 DEF SessionOK
  <2> QED BY <1>1, <1>2, <1>4, <2>1 DEF SessionOK, session, HasPlayer
<1>6. Pointers' /\ HandedOver' /\ InTurn'
  BY <1>1, <1>2, <1>4 DEF Pointers, HandedOver, InTurn, network
<1>7. PacketsOK' /\ Order'
  BY <1>1, <1>2, PacketsKept, OrderKept DEF Order, network, session, HasPlayer
<1> QED BY <1>3, <1>5, <1>6, <1>7 DEF IInv, TypeOK

LEMMA ReadDataHandlerKeeps ==
    ASSUME IInv, NEW k \in Sockets, NEW kind \in Kinds, ReadDataHandler(k, kind) PROVE IInv'
<1>1. SocketsOK /\ SessionOK /\ PacketsOK /\ Pointers /\ HandedOver /\ InTurn /\ Order
  BY DEF IInv, TypeOK
<1>2. /\ net[k] = "idle" /\ received + Receiving(Kinds) < MaxPackets
      /\ inHand' = [inHand EXCEPT ![k] = IF pointer[k] THEN kind ELSE "none"]
      /\ UNCHANGED <<stage, pointer, world, session, packets, pc, repeats>>
  BY DEF ReadDataHandler
<1>3. \/ pointer[k] /\ net' = [net EXCEPT ![k] = "locked"] /\ UNCHANGED closed
      \/ ~pointer[k] /\ net' = [net EXCEPT ![k] = "closing"] /\ closed' = [closed EXCEPT ![k] = TRUE]
  BY DEF ReadDataHandler
<1>4. kind # "none" /\ "none" \notin Kinds
  BY DEF Kinds, LoggedIn
<1>5. SocketsOK'
  <2>1. CASE pointer[k] /\ net' = [net EXCEPT ![k] = "locked"] /\ UNCHANGED closed
    BY <1>1, <1>2, <1>4, <2>1 DEF SocketsOK
  <2>2. CASE ~pointer[k] /\ net' = [net EXCEPT ![k] = "closing"] /\ closed' = [closed EXCEPT ![k] = TRUE]
    BY <1>1, <1>2, <2>2 DEF SocketsOK
  <2> QED BY <1>3, <2>1, <2>2
<1>6. SessionOK' /\ HandedOver' /\ InTurn' /\ PacketsOK'
  BY <1>1, <1>2, PacketsKept DEF SessionOK, world, session, HasPlayer, HandedOver, InTurn, Halted
<1>7. Pointers'
  <2>1. held' = held /\ life' = life /\ pc' = pc /\ pointer' = pointer /\ repeats' = repeats
    BY <1>2 DEF session, world
  <2>2. CASE pointer[k] /\ net' = [net EXCEPT ![k] = "locked"] /\ UNCHANGED closed
    BY <1>1, <1>2, <2>1, <2>2 DEF Pointers, SocketsOK
  <2>3. CASE ~pointer[k] /\ net' = [net EXCEPT ![k] = "closing"] /\ closed' = [closed EXCEPT ![k] = TRUE]
    BY <1>1, <1>2, <2>1, <2>3 DEF Pointers, SocketsOK
  <2> QED BY <1>3, <2>2, <2>3
<1>8. Order'
  <2>1. Receiving(Kinds)' <= Receiving(Kinds) + 1
    BY <1>1, <1>2, ReceivingSteps
  <2>2. received' = received /\ handled' = handled /\ recvQueue' = recvQueue
        /\ requeuePackets' = requeuePackets /\ pc' = pc /\ HasPlayer' = HasPlayer
    BY <1>2 DEF packets, session, HasPlayer
  <2>3. received' + Receiving(Kinds)' <= MaxPackets
    BY <1>1, <1>2, <2>1, <2>2, ReceivingIsNat, ConstantsAssumption DEF PacketsOK
  <2> QED BY <1>1, <2>2, <2>3 DEF Order, Ordered, After
<1> QED BY <1>5, <1>6, <1>7, <1>8 DEF IInv, TypeOK

\* The new packet is the last one.
LEMMA QueuePacketKeeps ==
    ASSUME IInv, NEW k \in Sockets, QueuePacket(k) PROVE IInv'
<1>1. SocketsOK /\ SessionOK /\ PacketsOK /\ Pointers /\ HandedOver /\ InTurn /\ Order
  BY DEF IInv, TypeOK
<1>2. /\ net[k] = "locked" /\ received' = received + 1
      /\ net' = [net EXCEPT ![k] = "idle"] /\ inHand' = [inHand EXCEPT ![k] = "none"]
      /\ UNCHANGED <<stage, closed, pointer, world, session, requeuePackets, processed, handled, pc,
                     repeats>>
  BY DEF QueuePacket
<1>3. inHand[k] \in Kinds
  BY <1>1, <1>2 DEF SocketsOK
<1>4. SocketsOK'
  BY <1>1, <1>2 DEF SocketsOK
<1>5. SessionOK' /\ HandedOver' /\ InTurn'
  BY <1>1, <1>2 DEF SessionOK, world, session, HasPlayer, HandedOver, InTurn, Halted
<1>6. Pointers'
  <2>1. held' = held /\ life' = life /\ repeats' = repeats
    BY <1>2 DEF session, world
  <2>2. \A j \in Sockets : net'[j] = IF j = k THEN "idle" ELSE net[j]
    BY <1>1, <1>2 DEF SocketsOK
  <2>3. repeats = 0 => pointer[k] /\ net[k] \notin {"closing", "done"}
    BY <1>1, <1>2 DEF Pointers
  <2> QED BY <1>1, <1>2, <2>1, <2>2, <2>3 DEF Pointers
<1>7. /\ Receiving(Kinds)' = Receiving(Kinds) - 1 /\ Receiving(Kinds) \in Nat
      /\ Receiving(Kinds)' \in Nat
  <2>1. "none" \notin Kinds
    BY DEF Kinds, LoggedIn
  <2> QED BY <1>1, <1>2, <1>3, <2>1, ReceivingSteps, ReceivingIsNat
<1>8. received \in Nat /\ handled \in Nat /\ handled <= received /\ MaxPackets \in Nat
      /\ received + Receiving(Kinds) <= MaxPackets
  BY <1>1, ConstantsAssumption DEF PacketsOK, Order
<1>9. received + 1 \in 1..MaxPackets /\ received' + Receiving(Kinds)' <= MaxPackets
  BY <1>2, <1>7, <1>8
<1> DEFINE p == [kind |-> inHand[k], at |-> received + 1]
<1>10. p \in Packets
  BY <1>3, <1>9 DEF Packets
<1>11. p.at = received + 1
  OBVIOUS
<1>12. recvQueue' = Append(recvQueue, p)
  BY DEF QueuePacket
<1> HIDE DEF p
<1>13. recvQueue \in Seq(Packets) /\ Len(recvQueue) \in Nat
  BY <1>1 DEF PacketsOK
<1>14. /\ recvQueue' \in Seq(Packets) /\ Len(recvQueue') = Len(recvQueue) + 1
       /\ \A i \in 1..Len(recvQueue) : recvQueue'[i] = recvQueue[i]
       /\ recvQueue'[Len(recvQueue) + 1] = p
  BY <1>10, <1>12, <1>13, AppendProperties
<1>15. \A i \in 1..Len(recvQueue') :
           i \in 1..Len(recvQueue) \/ (i = Len(recvQueue) + 1 /\ recvQueue'[i] = p)
  BY <1>13, <1>14
<1>16. PacketsOK'
  BY <1>1, <1>2, <1>9, <1>14 DEF PacketsOK
<1>17. Order'
  <2>1. \A i \in 1..Len(recvQueue) : recvQueue[i].at \in Nat /\ recvQueue[i].at <= received
    <3>1. \A i \in 1..Len(recvQueue) : recvQueue[i] \in Packets
      BY <1>13
    <3> QED BY <1>1, <1>8, <3>1 DEF Order, After, Packets
  <2>2. Ordered(recvQueue)'
    <3> SUFFICES ASSUME NEW i \in 1..Len(recvQueue'), NEW j \in 1..Len(recvQueue'), i < j,
                        recvQueue'[i].kind \in LoggedIn, recvQueue'[j].kind \in LoggedIn
                 PROVE  recvQueue'[i].at < recvQueue'[j].at
      BY DEF Ordered
    <3>1. i \in 1..Len(recvQueue)
      BY <1>13, <1>14
    <3>2. CASE j \in 1..Len(recvQueue)
      BY <1>1, <1>14, <3>1, <3>2 DEF Order, Ordered
    <3>3. CASE recvQueue'[j] = p
      BY <1>8, <1>11, <1>14, <2>1, <3>1, <3>3
    <3> QED BY <1>15, <3>2, <3>3
  <2>3. requeuePackets' = requeuePackets /\ requeuePackets \in Seq(Packets)
    BY <1>1, <1>2 DEF PacketsOK
  <2>4. \A i \in 1..Len(requeuePackets) : requeuePackets[i].at \in Nat /\ requeuePackets[i].at <= received
    <3>1. \A i \in 1..Len(requeuePackets) : requeuePackets[i] \in Packets
      BY <2>3
    <3> QED BY <1>1, <1>8, <3>1 DEF Order, After, Packets
  <2>5. \A i \in 1..Len(requeuePackets') : \A j \in 1..Len(recvQueue') :
            requeuePackets'[i].kind \in LoggedIn /\ recvQueue'[j].kind \in LoggedIn
                => requeuePackets'[i].at < recvQueue'[j].at
    <3> SUFFICES ASSUME NEW i \in 1..Len(requeuePackets), NEW j \in 1..Len(recvQueue'),
                        requeuePackets[i].kind \in LoggedIn, recvQueue'[j].kind \in LoggedIn
                 PROVE  requeuePackets[i].at < recvQueue'[j].at
      BY <2>3
    <3>1. CASE j \in 1..Len(recvQueue)
      BY <1>1, <1>14, <3>1 DEF Order
    <3>2. CASE recvQueue'[j] = p
      BY <1>8, <1>11, <2>4, <3>2
    <3> QED BY <1>15, <3>1, <3>2
  <2>6. After(requeuePackets, handled)'
    BY <1>1, <1>2, <1>8, <2>4 DEF Order, After
  <2>7. After(recvQueue, handled)'
    <3> SUFFICES ASSUME NEW i \in 1..Len(recvQueue')
                 PROVE  recvQueue'[i].at <= received' /\ (recvQueue'[i].kind \in LoggedIn => handled' < recvQueue'[i].at)
      BY DEF After
    <3>1. CASE i \in 1..Len(recvQueue)
      BY <1>1, <1>2, <1>8, <1>14, <2>1, <3>1 DEF Order, After
    <3>2. CASE recvQueue'[i] = p
      BY <1>2, <1>8, <1>11, <3>2
    <3> QED BY <1>15, <3>1, <3>2
  <2>8. Ordered(requeuePackets)'
    BY <1>1, <2>3 DEF Order, Ordered
  <2>9. HasPlayer' = HasPlayer /\ handled' <= received'
    BY <1>2, <1>8 DEF session, HasPlayer
  <2> QED BY <1>1, <1>2, <1>9, <2>2, <2>3, <2>5, <2>6, <2>7, <2>8, <2>9 DEF Order
<1> QED BY <1>4, <1>5, <1>6, <1>16, <1>17 DEF IInv, TypeOK

LEMMA DisconnectKeeps ==
    ASSUME IInv, NEW k \in Sockets, Disconnect(k) PROVE IInv'
<1>1. SocketsOK /\ SessionOK /\ PacketsOK /\ Pointers /\ HandedOver /\ InTurn /\ Order
  BY DEF IInv, TypeOK
<1>2. /\ net[k] = "idle" /\ net' = [net EXCEPT ![k] = IF closed[k] THEN "done" ELSE "closing"]
      /\ closed' = [closed EXCEPT ![k] = TRUE]
      /\ UNCHANGED <<stage, pointer, inHand, world, session, packets, pc, repeats>>
  BY DEF Disconnect
<1>3. SocketsOK'
  BY <1>1, <1>2 DEF SocketsOK
<1>4. SessionOK' /\ HandedOver' /\ InTurn'
  BY <1>1, <1>2 DEF SessionOK, world, session, HasPlayer, HandedOver, InTurn, Halted
<1>5. Pointers'
  <2>1. held' = held /\ life' = life /\ repeats' = repeats
    BY <1>2 DEF session, world
  <2>2. \A j \in Sockets : /\ closed'[j] <=> closed[j] \/ j = k
                           /\ j # k => net'[j] = net[j]
    BY <1>1, <1>2 DEF SocketsOK
  <2>3. net'[k] \in {"closing", "done"}
    BY <1>1, <1>2 DEF SocketsOK
  <2> QED BY <1>1, <1>2, <2>1, <2>2, <2>3 DEF Pointers
<1>6. PacketsOK' /\ Order'
  BY <1>1, <1>2, PacketsKept, OrderKept DEF Order, session, HasPlayer
<1> QED BY <1>3, <1>4, <1>5, <1>6 DEF IInv, TypeOK

LEMMA OnCloseKeeps ==
    ASSUME IInv, NEW k \in Sockets, OnClose(k) PROVE IInv'
<1>1. SocketsOK /\ SessionOK /\ PacketsOK /\ Pointers /\ HandedOver /\ InTurn /\ Order
  BY DEF IInv, TypeOK
<1>2. /\ net[k] = "closing"
      /\ net' = [net EXCEPT ![k] = "done"] /\ pointer' = [pointer EXCEPT ![k] = FALSE]
      /\ UNCHANGED <<stage, closed, inHand, world, session, packets, pc, repeats>>
  BY DEF OnClose
<1>3. SocketsOK'
  BY <1>1, <1>2 DEF SocketsOK
<1>4. SessionOK' /\ HandedOver' /\ InTurn'
  BY <1>1, <1>2 DEF SessionOK, world, session, HasPlayer, HandedOver, InTurn, Halted
<1>5. Pointers'
  <2>1. held' = held /\ life' = life /\ repeats' = repeats
    BY <1>2 DEF session, world
  <2>2. \A j \in Sockets : /\ pointer'[j] <=> pointer[j] /\ j # k
                           /\ net'[j] = IF j = k THEN "done" ELSE net[j]
    BY <1>1, <1>2 DEF SocketsOK
  <2> QED BY <1>1, <1>2, <2>1, <2>2 DEF Pointers
<1>6. PacketsOK' /\ Order'
  BY <1>1, <1>2, PacketsKept, OrderKept DEF Order, session, HasPlayer
<1> QED BY <1>3, <1>4, <1>5, <1>6 DEF IInv, TypeOK

-----------------------------------------------------------------------------
(* The packets.                                                            *)

\* What a packet taken off the queue may do to the session and its sockets.
LEMMA TakenSessionKeeps ==
    ASSUME IInv, pc \in {"world", "map"}, pc' = pc, NEW ks \in SUBSET Sockets,
           CloseSocket(ks) \/ (ks = {} /\ UNCHANGED network),
           UNCHANGED world, expireTime' = expireTime, repeats' = repeats,
           held \ ks \subseteq held', held' \subseteq held, forceExit' \in BOOLEAN,
           player' \in {"none", "loading", "querying", "in", "out"},
           player = "loading" => player' = "loading",
           recentlyLogout' \in BOOLEAN, leaving' \in BOOLEAN
    PROVE  SocketsOK' /\ SessionOK' /\ Pointers' /\ HandedOver' /\ InTurn' /\ inHand' = inHand
<1>1. SocketsOK /\ SessionOK /\ PacketsOK /\ Pointers /\ HandedOver /\ InTurn /\ Order
  BY DEF IInv, TypeOK
<1>2. SocketsOK' /\ Pointers' /\ HandedOver' /\ inHand' = inHand /\ stage' = stage
  BY <1>1, WorldKeeps DEF world
<1>4. InTurn'
  BY <1>1, <1>2, InTurnKept DEF world, SessionOK
<1>3. SessionOK'
  <2>1. life' = "listed" /\ held' \subseteq Sockets
    BY <1>1 DEF SessionOK, world
  <2>2. toAdd' \in Seq({"session", "nobody"}) /\ toLink' \in Nat /\ repeats' \in Nat
    BY <1>1 DEF SessionOK, world
  <2>3. expireTime' \in 0..ExpireTime /\ pc' \in {"world", "map"}
    BY <1>1 DEF SessionOK
  <2> QED BY <2>1, <2>2, <2>3 DEF SessionOK
<1> QED BY <1>2, <1>3, <1>4

\* A packet that is not put aside.
LEMMA TakenStepKeeps ==
    ASSUME IInv, Taken, repeats' = repeats, requeuePackets' = requeuePackets, NEW ks \in SUBSET Sockets,
           CloseSocket(ks) \/ (ks = {} /\ UNCHANGED network),
           held \ ks \subseteq held', held' \subseteq held, forceExit' \in BOOLEAN,
           player' \in {"none", "loading", "querying", "in", "out"},
           player = "loading" => player' = "loading",
           recentlyLogout' \in BOOLEAN, leaving' \in BOOLEAN,
           HasPlayer' => HasPlayer,
           \/ handled' = handled
           \/ /\ HasPlayer /\ Head(recvQueue).kind \in LoggedIn
              /\ handled' = Head(recvQueue).at
    PROVE  IInv'
<1>1. SocketsOK /\ SessionOK /\ PacketsOK /\ Pointers /\ HandedOver /\ InTurn /\ Order
  BY DEF IInv, TypeOK
<1>2. pc \in {"world", "map"} /\ pc' = pc /\ UNCHANGED world /\ expireTime' = expireTime
  BY DEF Taken
<1>3. SocketsOK' /\ SessionOK' /\ Pointers' /\ HandedOver' /\ InTurn' /\ inHand' = inHand
  BY <1>2, TakenSessionKeeps
<1>4. PacketsOK' /\ Order'
  BY <1>1, <1>3, TakenKeeps
<1> QED BY <1>3, <1>4 DEF IInv, TypeOK

LEMMA SessionTypes ==
    ASSUME IInv
    PROVE  /\ held \in SUBSET Sockets /\ forceExit \in BOOLEAN
           /\ player \in {"none", "loading", "querying", "in", "out"}
           /\ recentlyLogout \in BOOLEAN /\ leaving \in BOOLEAN
BY DEF IInv, TypeOK, SessionOK

\* The sockets of a packet that closes none.
LEMMA NoSockets == \E ks \in SUBSET Sockets : ks = {}
OBVIOUS

LEMMA PostponeKeeps == IInv /\ repeats' = repeats /\ Postpone => IInv'
<1> SUFFICES ASSUME IInv, repeats' = repeats, Postpone PROVE IInv'
  OBVIOUS
<1>1. SocketsOK /\ SessionOK /\ PacketsOK /\ Pointers /\ HandedOver /\ InTurn /\ Order
  BY DEF IInv, TypeOK
<1> DEFINE p == Head(recvQueue)
<1>2. /\ Taken /\ p.kind \in LoggedIn /\ ~HasPlayer
      /\ requeuePackets' = IF recentlyLogout THEN requeuePackets ELSE Append(requeuePackets, p)
      /\ UNCHANGED <<network, held, forceExit, player, recentlyLogout, leaving, handled>>
  BY DEF Postpone
<1>3. ~HasPlayer'
  BY <1>2 DEF HasPlayer
<1>4. CASE recentlyLogout
  <2>1. requeuePackets' = requeuePackets
    BY <1>2, <1>4
  <2>2. \A ks \in SUBSET Sockets : ks = {} => IInv'
    BY <1>2, <1>3, <2>1, SessionTypes, TakenStepKeeps
  <2> QED BY <2>2, NoSockets
<1>5. CASE ~recentlyLogout
  <2> DEFINE r == requeuePackets
             q == recvQueue
  <2>1. /\ pc \in {"world", "map"} /\ pc' = pc /\ q # <<>> /\ UNCHANGED world
        /\ q' = Tail(q) /\ processed <= MaxProcessed /\ processed' = processed + 1
        /\ received' = received /\ expireTime' = expireTime /\ handled' = handled
    BY <1>2 DEF Taken, More
  <2>2. \A ks \in SUBSET Sockets : ks = {} =>
            SocketsOK' /\ SessionOK' /\ Pointers' /\ HandedOver' /\ InTurn' /\ inHand' = inHand
    BY <1>2, <2>1, SessionTypes, TakenSessionKeeps
  <2>3. SocketsOK' /\ SessionOK' /\ Pointers' /\ HandedOver' /\ InTurn' /\ inHand' = inHand
    BY <2>2, NoSockets
  <2>4. q \in Seq(Packets) /\ r \in Seq(Packets) /\ received \in Nat
    BY <1>1 DEF PacketsOK
  <2>5. /\ q' \in Seq(Packets) /\ p \in Packets /\ p = q[1] /\ 1 \in 1..Len(q)
        /\ \A i \in 1..Len(q') : i + 1 \in 1..Len(q) /\ q'[i] = q[i + 1]
        /\ Ordered(q') /\ After(Tail(q), handled)
    BY <1>1, <2>1, <2>4, TailKeeps DEF Order
  <2>6. r' = Append(r, p)
    BY <1>2, <1>5
  <2>7. /\ r' \in Seq(Packets) /\ Len(r') = Len(r) + 1 /\ r'[Len(r) + 1] = p /\ Len(r) \in Nat
        /\ \A i \in 1..Len(r) : r'[i] = r[i]
    BY <2>4, <2>5, <2>6, AppendProperties
  <2>8. \A i \in 1..Len(r') : (i \in 1..Len(r) /\ r'[i] = r[i]) \/ (i = Len(r) + 1 /\ r'[i] = p)
    BY <2>7
  <2>9. PacketsOK'
    BY <1>1, <2>1, <2>5, <2>7, ConstantsAssumption DEF PacketsOK
  <2>10. \A i \in 1..Len(r) : r[i].kind \in LoggedIn => r[i].at < p.at
    BY <1>1, <1>2, <2>5 DEF Order
  <2>11. \A j \in 1..Len(q') : q'[j].kind \in LoggedIn => p.at < q'[j].at
    BY <1>1, <1>2, <2>4, <2>5 DEF Order, Ordered
  <2>12. p.at <= received /\ handled < p.at
    BY <1>1, <1>2, <2>5 DEF Order, After
  <2>13. Ordered(r')
    <3> SUFFICES ASSUME NEW i \in 1..Len(r'), NEW j \in 1..Len(r'), i < j,
                        r'[i].kind \in LoggedIn, r'[j].kind \in LoggedIn
                 PROVE  r'[i].at < r'[j].at
      BY DEF Ordered
    <3>1. i \in 1..Len(r) /\ r'[i] = r[i]
      BY <2>7, <2>8
    <3>2. CASE j \in 1..Len(r) /\ r'[j] = r[j]
      BY <1>1, <3>1, <3>2 DEF Order, Ordered
    <3>3. CASE r'[j] = p
      BY <2>10, <3>1, <3>3
    <3> QED BY <2>8, <3>2, <3>3
  <2>14. \A i \in 1..Len(r') : \A j \in 1..Len(q') :
             r'[i].kind \in LoggedIn /\ q'[j].kind \in LoggedIn => r'[i].at < q'[j].at
    <3> SUFFICES ASSUME NEW i \in 1..Len(r'), NEW j \in 1..Len(q'),
                        r'[i].kind \in LoggedIn, q'[j].kind \in LoggedIn
                 PROVE  r'[i].at < q'[j].at
      OBVIOUS
    <3>1. CASE i \in 1..Len(r) /\ r'[i] = r[i]
      BY <1>1, <2>5, <3>1 DEF Order
    <3>2. CASE r'[i] = p
      BY <2>11, <3>2
    <3> QED BY <2>8, <3>1, <3>2
  <2>15. After(r', handled)
    <3> SUFFICES ASSUME NEW i \in 1..Len(r')
                 PROVE  r'[i].at <= received /\ (r'[i].kind \in LoggedIn => handled < r'[i].at)
      BY DEF After
    <3>1. CASE i \in 1..Len(r) /\ r'[i] = r[i]
      BY <1>1, <3>1 DEF Order, After
    <3> QED BY <2>8, <2>12, <3>1
  <2>16. Receiving(Kinds)' = Receiving(Kinds)
    BY <2>3 DEF Receiving
  <2>17. Order'
    <3>1. After(q', handled)
      BY <2>1, <2>5
    <3>2. Ordered(requeuePackets)' /\ Ordered(recvQueue)'
      BY <2>5, <2>13 DEF Ordered
    <3>3. After(requeuePackets, handled)' /\ After(recvQueue, handled)'
      BY <2>1, <2>15, <3>1 DEF After
    <3>4. /\ handled' <= received' /\ received' + Receiving(Kinds)' <= MaxPackets
          /\ pc' \in {"world", "map"}
      BY <1>1, <2>1, <2>16 DEF Order
    <3> QED BY <1>3, <2>14, <3>2, <3>3, <3>4 DEF Order
  <2> QED BY <2>3, <2>9, <2>17 DEF IInv, TypeOK
<1> QED BY <1>4, <1>5

LEMMA SkipKeeps == IInv /\ repeats' = repeats /\ Skip => IInv'
<1> SUFFICES ASSUME IInv, repeats' = repeats, Skip PROVE IInv'
  OBVIOUS
<1>1. /\ Taken
      /\ UNCHANGED <<network, held, forceExit, player, recentlyLogout, leaving, requeuePackets, handled>>
  BY DEF Skip
<1>2. HasPlayer' => HasPlayer
  BY <1>1 DEF HasPlayer
<1>3. \A ks \in SUBSET Sockets : ks = {} => IInv'
  BY <1>1, <1>2, SessionTypes, TakenStepKeeps
<1> QED BY <1>3, NoSockets

LEMMA ThrottleKeeps == IInv /\ repeats' = repeats /\ Throttle => IInv'
<1> SUFFICES ASSUME IInv, repeats' = repeats, Throttle PROVE IInv'
  OBVIOUS
<1>1. SocketsOK /\ SessionOK /\ PacketsOK /\ Pointers /\ HandedOver /\ InTurn /\ Order
  BY DEF IInv, TypeOK
<1>2. /\ pc \in {"world", "map"} /\ recvQueue # <<>> /\ CloseSocket(held) /\ forceExit' = TRUE
      /\ recvQueue' = Tail(recvQueue) /\ processed' = MaxProcessed + 1
      /\ recentlyLogout' = (recentlyLogout /\ Head(recvQueue).kind # "enum")
      /\ UNCHANGED <<world, held, expireTime, player, leaving, requeuePackets, received, handled, pc>>
  BY DEF Throttle, More, KickPlayer
<1>3. recentlyLogout' \in BOOLEAN /\ HasPlayer' = HasPlayer
  BY <1>2 DEF HasPlayer
<1>4. held \in SUBSET Sockets /\ held' \subseteq held /\ held \ held \subseteq held' /\ forceExit' \in BOOLEAN
  BY <1>2, SessionTypes
<1>5. SocketsOK' /\ SessionOK' /\ Pointers' /\ HandedOver' /\ InTurn' /\ inHand' = inHand
  BY <1>2, <1>3, <1>4, SessionTypes, TakenSessionKeeps
<1>6. recvQueue \in Seq(Packets)
  BY <1>1 DEF PacketsOK
<1>7. /\ recvQueue' \in Seq(Packets)
      /\ \A i \in 1..Len(recvQueue') : i + 1 \in 1..Len(recvQueue) /\ recvQueue'[i] = recvQueue[i + 1]
      /\ Ordered(Tail(recvQueue)) /\ After(Tail(recvQueue), handled)
  BY <1>1, <1>2, <1>6, TailKeeps DEF Order
<1>8. PacketsOK'
  BY <1>1, <1>2, <1>7, ConstantsAssumption DEF PacketsOK
<1>9. Order'
  <2>1. Ordered(requeuePackets)' /\ Ordered(recvQueue)'
    BY <1>1, <1>2, <1>7 DEF Order, Ordered
  <2>2. After(requeuePackets, handled)' /\ After(recvQueue, handled)'
    BY <1>1, <1>2, <1>7 DEF Order, After
  <2>3. \A i \in 1..Len(requeuePackets') : \A j \in 1..Len(recvQueue') :
             requeuePackets'[i].kind \in LoggedIn /\ recvQueue'[j].kind \in LoggedIn
                 => requeuePackets'[i].at < recvQueue'[j].at
    BY <1>1, <1>2, <1>7 DEF Order
  <2> QED BY <1>1, <1>2, <1>3, <1>5, <2>1, <2>2, <2>3 DEF Order, Receiving
<1> QED BY <1>5, <1>8, <1>9 DEF IInv, TypeOK

\* A packet upon which the player is logged out.
LEMMA LogoutPlayerKeeps ==
    ASSUME IInv, Taken, repeats' = repeats, HasPlayer, player # "loading", LogoutPlayer,
           requeuePackets' = requeuePackets,
           \/ handled' = handled
           \/ Head(recvQueue).kind \in LoggedIn /\ handled' = Head(recvQueue).at
    PROVE  IInv'
<1>1. held \cap {"instance"} \in SUBSET Sockets
  BY SessionTypes
<1>2. /\ CloseSocket(held \cap {"instance"}) /\ held' = held \ {"instance"}
      /\ player' = "none" /\ recentlyLogout' \in BOOLEAN /\ leaving' \in BOOLEAN
      /\ forceExit' = forceExit
  BY DEF LogoutPlayer
<1>3. ~HasPlayer'
  BY <1>2 DEF HasPlayer
<1>4. held \ (held \cap {"instance"}) \subseteq held' /\ held' \subseteq held
  BY <1>2
<1>5. forceExit' \in BOOLEAN
  BY <1>2, SessionTypes
<1> QED BY <1>1, <1>2, <1>3, <1>4, <1>5, TakenStepKeeps

LEMMA HandleLoggedInKeeps == IInv /\ repeats' = repeats /\ HandleLoggedIn => IInv'
<1> SUFFICES ASSUME IInv, repeats' = repeats, HandleLoggedIn PROVE IInv'
  OBVIOUS
<1>1. /\ Taken /\ HasPlayer /\ player # "loading" /\ Head(recvQueue).kind \in LoggedIn
      /\ handled' = Head(recvQueue).at /\ requeuePackets' = requeuePackets
  BY DEF HandleLoggedIn, HasPlayer
<1>2. CASE UNCHANGED <<network, held, forceExit, player, recentlyLogout, leaving>>
  <2>1. \A ks \in SUBSET Sockets : ks = {} => IInv'
    BY <1>1, <1>2, SessionTypes, TakenStepKeeps
  <2> QED BY <2>1, NoSockets
<1>3. CASE player' = "out" /\ UNCHANGED <<network, held, forceExit, recentlyLogout, leaving>>
  <2>1. \A ks \in SUBSET Sockets : ks = {} => IInv'
    BY <1>1, <1>3, SessionTypes, TakenStepKeeps
  <2> QED BY <2>1, NoSockets
<1>4. CASE KickPlayer /\ UNCHANGED <<held, player, recentlyLogout, leaving>>
  <2>1. CloseSocket(held) /\ forceExit' \in BOOLEAN
    BY <1>4 DEF KickPlayer
  <2> QED BY <1>1, <1>4, <2>1, SessionTypes, TakenStepKeeps
<1>5. CASE leaving' = TRUE /\ UNCHANGED <<network, held, forceExit, player, recentlyLogout>>
  <2>1. \A ks \in SUBSET Sockets : ks = {} => IInv'
    BY <1>1, <1>5, SessionTypes, TakenStepKeeps
  <2> QED BY <2>1, NoSockets
<1>6. CASE LogoutPlayer
  BY <1>1, <1>6, LogoutPlayerKeeps
<1> QED BY <1>2, <1>3, <1>4, <1>5, <1>6 DEF HandleLoggedIn

LEMMA HandleMoveWorldportAckKeeps == IInv /\ repeats' = repeats /\ HandleMoveWorldportAck => IInv'
<1> SUFFICES ASSUME IInv, repeats' = repeats, HandleMoveWorldportAck PROVE IInv'
  OBVIOUS
<1>1. /\ Taken /\ HasPlayer /\ player # "loading"
      /\ UNCHANGED <<requeuePackets, handled>>
  BY DEF HandleMoveWorldportAck, HasPlayer
<1>2. CASE player' \in {"in", "out"} /\ UNCHANGED <<network, held, forceExit, recentlyLogout, leaving>>
  <2>1. \A ks \in SUBSET Sockets : ks = {} => IInv'
    BY <1>1, <1>2, SessionTypes, TakenStepKeeps
  <2> QED BY <2>1, NoSockets
<1>3. CASE LogoutPlayer
  BY <1>1, <1>3, LogoutPlayerKeeps
<1> QED BY <1>2, <1>3 DEF HandleMoveWorldportAck

LEMMA HandleCharEnumKeeps == IInv /\ repeats' = repeats /\ HandleCharEnum => IInv'
<1> SUFFICES ASSUME IInv, repeats' = repeats, HandleCharEnum PROVE IInv'
  OBVIOUS
<1>1. /\ Taken /\ recentlyLogout' \in BOOLEAN /\ HasPlayer' = HasPlayer
      /\ UNCHANGED <<network, held, forceExit, player, leaving, requeuePackets, handled>>
  BY DEF HandleCharEnum, HasPlayer
<1>2. \A ks \in SUBSET Sockets : ks = {} => IInv'
  BY <1>1, SessionTypes, TakenStepKeeps
<1> QED BY <1>2, NoSockets

LEMMA HandlePlayerLoginKeeps == IInv /\ repeats' = repeats /\ HandlePlayerLogin => IInv'
<1> SUFFICES ASSUME IInv, repeats' = repeats, HandlePlayerLogin PROVE IInv'
  OBVIOUS
<1>1. /\ Taken
      /\ UNCHANGED <<held, recentlyLogout, leaving, requeuePackets, handled>>
  BY DEF HandlePlayerLogin
<1>2. CASE player' = "loading"
  <2>1. ~HasPlayer'
    BY <1>2 DEF HasPlayer
  <2>2. CASE UNCHANGED <<network, forceExit>>
    <3>1. \A ks \in SUBSET Sockets : ks = {} => IInv'
      BY <1>1, <1>2, <2>1, <2>2, SessionTypes, TakenStepKeeps
    <3> QED BY <3>1, NoSockets
  <2>3. CASE KickPlayer
    <3>1. CloseSocket(held) /\ forceExit' \in BOOLEAN
      BY <2>3 DEF KickPlayer
    <3> QED BY <1>1, <1>2, <2>1, <3>1, SessionTypes, TakenStepKeeps
  <2>4. UNCHANGED <<network, forceExit>> \/ KickPlayer
    BY DEF HandlePlayerLogin
  <2> QED BY <2>2, <2>3, <2>4
<1>3. CASE KickPlayer /\ UNCHANGED player
  <2>1. CloseSocket(held) /\ forceExit' \in BOOLEAN /\ HasPlayer' = HasPlayer
    BY <1>3 DEF KickPlayer, HasPlayer
  <2> QED BY <1>1, <1>3, <2>1, SessionTypes, TakenStepKeeps
<1> QED BY <1>2, <1>3 DEF HandlePlayerLogin

-----------------------------------------------------------------------------
(* The world thread: sessions and their updates.                           *)

\* A step of the world thread without packets, on a session it keeps.
LEMMA UpdateStepKeeps ==
    ASSUME IInv, NEW ks \in SUBSET Sockets,
           CloseSocket(ks) \/ (ks = {} /\ UNCHANGED network),
           UNCHANGED packets, life' = life, toAdd' = toAdd, repeats' = repeats,
           toLink' \in Nat, toLink' <= toLink, pc' = "linking" => toLink' < toLink,
           held \ ks \subseteq held', held' \subseteq held, forceExit' \in BOOLEAN,
           expireTime' \in 0..ExpireTime,
           player' \in {"none", "loading", "querying", "in", "out"}, HasPlayer' => life = "listed",
           player = "loading" => player' = "loading",
           recentlyLogout' \in BOOLEAN, leaving' \in BOOLEAN,
           requeuePackets = <<>>,
           \/ pc' \in {"link", "add"}
           \/ pc' \in {"world", "map", "callbacks", "sockets", "dropping"} /\ life = "listed"
           \/ pc' = "linking" /\ life = "listed" /\ ks = {} /\ ~closed["instance"]
    PROVE  IInv'
<1>1. SocketsOK /\ SessionOK /\ PacketsOK /\ Pointers /\ HandedOver /\ InTurn /\ Order
  BY DEF IInv, TypeOK
<1>2. pc' = "linking" => ~closed'["instance"]
  <2>1. "instance" \in Sockets
    BY DEF Sockets
  <2> QED BY <1>1, <2>1, CloseSocketElements
<1>3. SocketsOK' /\ Pointers' /\ HandedOver' /\ inHand' = inHand /\ stage' = stage
  BY <1>1, <1>2, WorldKeeps
<1>6. InTurn'
  BY <1>1, <1>3, InTurnKept DEF SessionOK
<1>4. SessionOK'
  <2>1. held' \subseteq Sockets
    BY <1>1 DEF SessionOK
  <2>2. toAdd' \in Seq({"session", "nobody"}) /\ repeats' \in Nat
    BY <1>1 DEF SessionOK
  <2>3. life' \in {"none", "made", "listed", "deleted"}
    BY <1>1 DEF SessionOK
  <2> QED BY <2>1, <2>2, <2>3 DEF SessionOK
<1>5. PacketsOK' /\ Order'
  BY <1>1, <1>3, PacketsKept, OrderKept
<1> QED BY <1>3, <1>4, <1>5, <1>6 DEF IInv, TypeOK

LEMMA ProcessLinkInstanceSocketKeeps == IInv /\ repeats' = repeats /\ ProcessLinkInstanceSocket => IInv'
<1> SUFFICES ASSUME IInv, repeats' = repeats, ProcessLinkInstanceSocket PROVE IInv'
  OBVIOUS
<1>1. SessionOK /\ Order
  BY DEF IInv, TypeOK
<1>2. /\ pc = "link" /\ toLink > 0 /\ toLink' = toLink - 1
      /\ \/ pc' = "linking" /\ ~closed["instance"] /\ life = "listed"
         \/ pc' \in {"link", "add"}
      /\ IF life # "listed" THEN CloseSocket({"instance"}) ELSE UNCHANGED network
      /\ UNCHANGED <<life, toAdd, session, packets>>
  BY DEF ProcessLinkInstanceSocket, NextLink
<1>7. toLink' \in Nat /\ toLink' < toLink /\ toLink' <= toLink
  BY <1>1, <1>2 DEF SessionOK
<1>3. /\ held' = held /\ forceExit' = forceExit /\ expireTime' = expireTime /\ player' = player
      /\ recentlyLogout' = recentlyLogout /\ leaving' = leaving
      /\ expireTime' \in 0..ExpireTime /\ (HasPlayer' => life = "listed")
  BY <1>1, <1>2 DEF session, HasPlayer, SessionOK
<1>4. requeuePackets = <<>>
  BY <1>1, <1>2 DEF Order
<1>5. CASE life # "listed"
  <2>1. {"instance"} \in SUBSET Sockets
    BY DEF Sockets
  <2>2. CloseSocket({"instance"}) /\ pc' \in {"link", "add"}
    BY <1>2, <1>5
  <2> QED BY <1>2, <1>3, <1>4, <1>7, <2>1, <2>2, SessionTypes, UpdateStepKeeps
<1>6. CASE life = "listed"
  <2>1. \A ks \in SUBSET Sockets : ks = {} => IInv'
    BY <1>2, <1>3, <1>4, <1>6, <1>7, SessionTypes, UpdateStepKeeps
  <2> QED BY <2>1, NoSockets
<1> QED BY <1>5, <1>6

LEMMA LinkInstanceSocketKeeps == IInv /\ repeats' = repeats /\ LinkInstanceSocket => IInv'
<1> SUFFICES ASSUME IInv, repeats' = repeats, LinkInstanceSocket PROVE IInv'
  OBVIOUS
<1>1. SocketsOK /\ SessionOK /\ PacketsOK /\ Pointers /\ HandedOver /\ InTurn /\ Order
  BY DEF IInv, TypeOK
<1>2. /\ pc = "linking" /\ held' = held \cup {"instance"} /\ pc' \in {"link", "add", "twice"}
      /\ player' \in {player, "querying", "none"} /\ forceExit' \in {forceExit, TRUE}
      /\ UNCHANGED <<stage, net, inHand, world, expireTime, recentlyLogout, leaving, packets>>
  BY DEF LinkInstanceSocket, NextLink
<1>3. /\ held' \subseteq Sockets /\ life' = "listed" /\ life = "listed"
      /\ player' \in {"none", "loading", "querying", "in", "out"} /\ forceExit' \in BOOLEAN
  BY <1>1, <1>2 DEF SessionOK, Sockets, world
<1>4. SocketsOK'
  <2>1. pointer' \in [Sockets -> BOOLEAN] /\ closed' \in [Sockets -> BOOLEAN]
    <3>1. CASE pointer' = [pointer EXCEPT !["instance"] = TRUE] /\ UNCHANGED closed
      BY <1>1, <3>1 DEF SocketsOK
    <3>2. CASE /\ pointer' = [k \in Sockets |-> (pointer[k] \/ k = "instance") /\ (k \notin held' \/ closed[k])]
               /\ closed' = [k \in Sockets |-> closed[k] \/ k \in held']
      BY <3>2
    <3> QED BY <3>1, <3>2 DEF LinkInstanceSocket
  <2> QED BY <1>1, <1>2, <2>1 DEF SocketsOK
<1>5. SessionOK'
  BY <1>1, <1>2, <1>3 DEF SessionOK, world
<1>6. repeats = 0 => player = "loading"
  BY <1>1, <1>2, <1>3 DEF InTurn
<1>7. Pointers'
  <2> SUFFICES ASSUME repeats = 0 PROVE Pointers'
    BY DEF Pointers
  <2>1. pointer' = [pointer EXCEPT !["instance"] = TRUE] /\ closed' = closed
    BY <1>6 DEF LinkInstanceSocket, PlayerLoading
  <2>2. \A j \in Sockets : pointer'[j] <=> pointer[j] \/ j = "instance"
    BY <1>1, <2>1 DEF SocketsOK
  <2> QED BY <1>1, <1>2, <1>3, <2>1, <2>2 DEF Pointers
<1>8. HandedOver'
  BY <1>1, <1>2 DEF HandedOver, world
<1>9. InTurn'
  <2> SUFFICES ASSUME repeats = 0 PROVE InTurn'
    BY DEF InTurn
  <2>1. pc' \in {"link", "add"}
    BY <1>6 DEF LinkInstanceSocket, PlayerLoading, NextLink
  <2> QED BY <1>1, <1>2, <2>1 DEF InTurn, Halted, world, SessionOK
<1>10. PacketsOK' /\ Order'
  <2>1. requeuePackets = <<>>
    BY <1>1, <1>2 DEF Order
  <2> QED BY <1>1, <1>2, <2>1, PacketsKept, OrderKept
<1> QED BY <1>4, <1>5, <1>7, <1>8, <1>9, <1>10 DEF IInv, TypeOK

LEMMA AddSession_Keeps ==
    ASSUME IInv, NEW refused \in BOOLEAN, repeats' = repeats, AddSession_(refused)
    PROVE  IInv'
<1>1. SocketsOK /\ SessionOK /\ PacketsOK /\ Pointers /\ HandedOver /\ InTurn /\ Order
  BY DEF IInv, TypeOK
<1>2. /\ pc \in {"link", "add"} /\ toAdd # <<>> /\ life = "made" /\ pc' = "add"
      /\ toAdd' = Tail(toAdd)
      /\ UNCHANGED <<toLink, expireTime, received, handled>>
  BY DEF AddSession_, Linked
<1>5. toAdd' \in Seq({"session", "nobody"})
  BY <1>1, <1>2 DEF SessionOK
<1>6. repeats = 0 => toAdd' = <<>>
  <2>1. Tail(<<"session">>) = <<>>
    OBVIOUS
  <2> QED BY <1>1, <1>2, <2>1 DEF HandedOver
<1>3. CASE refused
  <2>1. CloseSocket(held) /\ forceExit' \in BOOLEAN /\ Delete
    BY <1>3 DEF AddSession_, KickPlayer
  <2>2. held \in SUBSET Sockets
    BY SessionTypes
  <2> QED BY <1>2, <1>5, <1>6, <2>1, <2>2, DeleteKeeps
<1>4. CASE ~refused
  <2>1. /\ life' = "listed"
        /\ UNCHANGED <<network, held, forceExit, player, recentlyLogout, leaving,
                       recvQueue, requeuePackets, processed>>
    BY <1>4 DEF AddSession_
  <2>3. \A ks \in SUBSET Sockets : ks = {} => SocketsOK' /\ Pointers'
    BY <1>1, <1>2, <2>1, CloseSocketKeeps
  <2>4. SocketsOK' /\ Pointers'
    BY <2>3, NoSockets
  <2>5. HandedOver'
    BY <1>1, <1>2, <1>6, <2>1 DEF HandedOver, network
  <2>6. SessionOK'
    BY <1>1, <1>2, <1>5, <2>1 DEF SessionOK
  <2>8. InTurn'
    BY <1>1, <1>2, <2>1, InTurnKept DEF SessionOK, network
  <2>7. PacketsOK' /\ Order'
    <3>1. UNCHANGED packets /\ inHand' = inHand
      BY <1>2, <2>1 DEF packets, network
    <3>2. requeuePackets = <<>>
      BY <1>1, <1>2 DEF Order
    <3> QED BY <1>1, <3>1, <3>2, PacketsKept, OrderKept
  <2> QED BY <2>4, <2>5, <2>6, <2>7, <2>8 DEF IInv, TypeOK
<1> QED BY <1>3, <1>4

\* It does not happen while clients acknowledge in turn.
LEMMA AddSessionOutOfTurnKeeps == IInv /\ repeats' = repeats /\ AddSessionOutOfTurn => IInv'
<1> SUFFICES ASSUME IInv, repeats' = repeats, AddSessionOutOfTurn PROVE IInv'
  OBVIOUS
<1>1. SocketsOK /\ SessionOK /\ PacketsOK /\ HandedOver /\ Order
  BY DEF IInv, TypeOK
<1>2. /\ pc \in {"link", "add"} /\ toAdd # <<>> /\ (Head(toAdd) = "nobody" \/ life # "made")
      /\ pc' \in {"aborted", "undefined"} /\ toAdd' = Tail(toAdd)
      /\ UNCHANGED <<network, life, toLink, session, packets>>
  BY DEF AddSessionOutOfTurn, Linked
<1>3. repeats # 0
  BY <1>1, <1>2 DEF HandedOver
<1>4. SocketsOK'
  BY <1>1, <1>2 DEF SocketsOK, network
<1>5. SessionOK'
  <2>1. toAdd' \in Seq({"session", "nobody"})
    BY <1>1, <1>2 DEF SessionOK
  <2> QED BY <1>1, <1>2, <2>1 DEF SessionOK, session, HasPlayer
<1>6. Pointers' /\ HandedOver' /\ InTurn'
  BY <1>1, <1>2, <1>3 DEF Pointers, HandedOver, InTurn, network
<1>7. PacketsOK' /\ Order'
  <2>1. requeuePackets = <<>>
    BY <1>1, <1>2 DEF Order
  <2> QED BY <1>1, <1>2, <2>1, PacketsKept, OrderKept DEF network
<1> QED BY <1>4, <1>5, <1>6, <1>7 DEF IInv, TypeOK

LEMMA ReplaceKeeps == IInv /\ repeats' = repeats /\ Replace => IInv'
<1> SUFFICES ASSUME IInv, repeats' = repeats, Replace PROVE IInv'
  OBVIOUS
<1>1. /\ life = "listed" /\ pc' = "add" /\ CloseSocket(held) /\ forceExit' \in BOOLEAN /\ Delete
      /\ UNCHANGED <<toAdd, toLink, expireTime, received, handled>>
  BY DEF Replace, KickPlayer
<1>2. /\ toAdd' \in Seq({"session", "nobody"}) /\ (repeats = 0 => toAdd' = <<>>)
      /\ toLink' = toLink /\ held \in SUBSET Sockets
  BY <1>1 DEF IInv, TypeOK, SessionOK, HandedOver
<1> QED BY <1>1, <1>2, DeleteKeeps

LEMMA BeginUpdateKeeps == IInv /\ repeats' = repeats /\ BeginUpdate => IInv'
<1> SUFFICES ASSUME IInv, repeats' = repeats, BeginUpdate PROVE IInv'
  OBVIOUS
<1>1. SessionOK /\ Order
  BY DEF IInv, TypeOK
<1>2. /\ pc \in {"link", "add"}
      /\ pc' = IF life = "listed" THEN "world" ELSE "link"
      /\ (CloseSocket({"realm"}) /\ life = "listed") \/ UNCHANGED network
      /\ UNCHANGED <<world, session, packets>>
  BY DEF BeginUpdate, Linked
<1>3. /\ held' = held /\ forceExit' = forceExit /\ expireTime' = expireTime /\ player' = player
      /\ recentlyLogout' = recentlyLogout /\ leaving' = leaving
      /\ life' = life /\ toAdd' = toAdd /\ toLink' = toLink /\ toLink' \in Nat /\ toLink' <= toLink
      /\ expireTime' \in 0..ExpireTime /\ (HasPlayer' => life = "listed")
  BY <1>1, <1>2 DEF session, world, HasPlayer, SessionOK
<1>4. requeuePackets = <<>>
  BY <1>1, <1>2 DEF Order
<1>5. CASE CloseSocket({"realm"})
  <2>1. {"realm"} \in SUBSET Sockets
    BY DEF Sockets
  <2> QED BY <1>2, <1>3, <1>4, <1>5, <2>1, SessionTypes, UpdateStepKeeps
<1>6. CASE UNCHANGED network
  <2>1. \A ks \in SUBSET Sockets : ks = {} => IInv'
    BY <1>2, <1>3, <1>4, <1>6, SessionTypes, UpdateStepKeeps
  <2> QED BY <2>1, NoSockets
<1> QED BY <1>2, <1>5, <1>6

\* Packets put aside are older than those in the queue.
LEMMA ReaddKeeps == IInv /\ repeats' = repeats /\ Readd => IInv'
<1> SUFFICES ASSUME IInv, repeats' = repeats, Readd PROVE IInv'
  OBVIOUS
<1>1. SocketsOK /\ SessionOK /\ PacketsOK /\ Pointers /\ HandedOver /\ InTurn /\ Order
  BY DEF IInv, TypeOK
<1> DEFINE r == requeuePackets
           q == recvQueue
<1>2. /\ pc \in {"world", "map"} /\ pc' \in {"callbacks", "link"}
      /\ q' = r \o q /\ r' = <<>> /\ processed' = 0
      /\ UNCHANGED <<network, world, session, received, handled>>
  BY DEF Readd
<1>3. q \in Seq(Packets) /\ r \in Seq(Packets) /\ Len(q) \in Nat /\ Len(r) \in Nat
  BY <1>1 DEF PacketsOK
<1>4. /\ q' \in Seq(Packets) /\ Len(q') = Len(r) + Len(q)
      /\ \A i \in 1..Len(q') : q'[i] = IF i <= Len(r) THEN r[i] ELSE q[i - Len(r)]
  BY <1>2, <1>3, ConcatProperties
<1>5. \A i \in 1..Len(q') : \/ i \in 1..Len(r) /\ q'[i] = r[i]
                            \/ i - Len(r) \in 1..Len(q) /\ q'[i] = q[i - Len(r)]
  BY <1>3, <1>4
<1>6. PacketsOK'
  BY <1>1, <1>2, <1>4, ConstantsAssumption DEF PacketsOK
<1>7. Ordered(q)'
  <2> SUFFICES ASSUME NEW i \in 1..Len(q'), NEW j \in 1..Len(q'), i < j,
                      q'[i].kind \in LoggedIn, q'[j].kind \in LoggedIn
               PROVE  q'[i].at < q'[j].at
    BY DEF Ordered
  <2>1. CASE i \in 1..Len(r) /\ q'[i] = r[i]
    <3>1. CASE j \in 1..Len(r) /\ q'[j] = r[j]
      BY <1>1, <2>1, <3>1 DEF Order, Ordered
    <3>2. CASE j - Len(r) \in 1..Len(q) /\ q'[j] = q[j - Len(r)]
      BY <1>1, <2>1, <3>2 DEF Order
    <3> QED BY <1>5, <3>1, <3>2
  <2>2. CASE i - Len(r) \in 1..Len(q) /\ q'[i] = q[i - Len(r)]
    <3>1. j - Len(r) \in 1..Len(q) /\ q'[j] = q[j - Len(r)] /\ i - Len(r) < j - Len(r)
      BY <1>3, <1>5, <2>2
    <3> QED BY <1>1, <2>2, <3>1 DEF Order, Ordered
  <2> QED BY <1>5, <2>1, <2>2
<1>8. After(q, handled)'
  <2> SUFFICES ASSUME NEW i \in 1..Len(q')
               PROVE  q'[i].at <= received /\ (q'[i].kind \in LoggedIn => handled < q'[i].at)
    BY <1>2 DEF After
  <2>1. CASE i \in 1..Len(r) /\ q'[i] = r[i]
    BY <1>1, <2>1 DEF Order, After
  <2>2. CASE i - Len(r) \in 1..Len(q) /\ q'[i] = q[i - Len(r)]
    BY <1>1, <2>2 DEF Order, After
  <2> QED BY <1>5, <2>1, <2>2
<1>9. Order'
  <2>1. Len(r') = 0 /\ inHand' = inHand
    BY <1>2 DEF network
  <2>2. Ordered(r)' /\ After(r, handled)'
    BY <2>1 DEF Ordered, After
  <2> QED BY <1>1, <1>2, <1>7, <1>8, <2>1, <2>2 DEF Order, Receiving
<1>10. SocketsOK' /\ Pointers' /\ HandedOver'
  <2>1. life' = life /\ toAdd' = toAdd /\ held' = held
    BY <1>2 DEF world, session
  <2>2. \A ks \in SUBSET Sockets : ks = {} => SocketsOK' /\ Pointers' /\ HandedOver'
    BY <1>1, <1>2, <2>1, WorldKeeps
  <2> QED BY <2>2, NoSockets
<1>12. InTurn'
  BY <1>1, <1>2, InTurnKept DEF network, world, session, SessionOK
<1>11. SessionOK'
  BY <1>1, <1>2 DEF SessionOK, world, session, HasPlayer
<1> QED BY <1>6, <1>9, <1>10, <1>11, <1>12 DEF IInv, TypeOK

\* What holds between the packets of one update and those of the next.
LEMMA BetweenUpdates ==
    ASSUME IInv, pc \in {"callbacks", "sockets", "dropping"}
    PROVE  requeuePackets = <<>> /\ life = "listed" /\ toLink \in Nat /\ toLink <= toLink
           /\ expireTime \in 0..ExpireTime
BY DEF IInv, TypeOK, Order, SessionOK

LEMMA ProcessQueryCallbacksKeeps == IInv /\ repeats' = repeats /\ ProcessQueryCallbacks => IInv'
<1> SUFFICES ASSUME IInv, repeats' = repeats, ProcessQueryCallbacks PROVE IInv'
  OBVIOUS
<1>1. /\ pc = "callbacks" /\ pc' = "sockets"
      /\ UNCHANGED <<world, held, expireTime, recentlyLogout, leaving, packets>>
  BY DEF ProcessQueryCallbacks
<1>2. requeuePackets = <<>> /\ life = "listed" /\ expireTime' \in 0..ExpireTime
      /\ life' = life /\ toAdd' = toAdd /\ toLink' \in Nat /\ toLink' <= toLink
  BY <1>1, BetweenUpdates DEF world
<1>3. CASE /\ UNCHANGED <<network, forceExit>>
           /\ player' = player \/ (player = "querying" /\ player' = "in")
  <2>1. player' \in {"none", "loading", "querying", "in", "out"}
    BY <1>3, SessionTypes
  <2>2. \A ks \in SUBSET Sockets : ks = {} => IInv'
    BY <1>1, <1>2, <1>3, <2>1, SessionTypes, UpdateStepKeeps
  <2> QED BY <2>2, NoSockets
<1>4. CASE player = "querying" /\ player' = "none" /\ KickPlayer
  <2>1. CloseSocket(held) /\ forceExit' \in BOOLEAN
    BY <1>4 DEF KickPlayer
  <2> QED BY <1>1, <1>2, <1>4, <2>1, SessionTypes, UpdateStepKeeps
<1> QED BY <1>3, <1>4 DEF ProcessQueryCallbacks

LEMMA LogoutKeeps == IInv /\ repeats' = repeats /\ Logout => IInv'
<1> SUFFICES ASSUME IInv, repeats' = repeats, Logout PROVE IInv'
  OBVIOUS
<1>1. /\ pc = "callbacks" /\ pc' = "sockets" /\ player # "loading"
      /\ LogoutPlayer /\ UNCHANGED <<world, packets>>
  BY DEF Logout, PlayerLoading
<1>2. /\ CloseSocket(held \cap {"instance"}) /\ held' = held \ {"instance"} /\ player' = "none"
      /\ recentlyLogout' = TRUE /\ leaving' = FALSE
      /\ UNCHANGED <<forceExit, expireTime>>
  BY <1>1 DEF LogoutPlayer
<1>3. requeuePackets = <<>> /\ life = "listed" /\ expireTime' \in 0..ExpireTime
      /\ life' = life /\ toAdd' = toAdd /\ toLink' \in Nat /\ toLink' <= toLink
  BY <1>1, <1>2, BetweenUpdates DEF world
<1>4. held \cap {"instance"} \in SUBSET Sockets /\ held \ (held \cap {"instance"}) \subseteq held'
      /\ held' \subseteq held /\ forceExit' \in BOOLEAN
  BY <1>2, SessionTypes
<1> QED BY <1>1, <1>2, <1>3, <1>4, UpdateStepKeeps

LEMMA CheckSocketsKeeps == IInv /\ repeats' = repeats /\ CheckSockets => IInv'
<1> SUFFICES ASSUME IInv, repeats' = repeats, CheckSockets PROVE IInv'
  OBVIOUS
<1>1. /\ pc = "sockets" /\ pc' \in {"dropping", "map", "link"}
      /\ expireTime' \in {expireTime, expireTime - 1} /\ (expireTime = 0 => expireTime' = expireTime)
      /\ UNCHANGED <<network, world, held, forceExit, player, recentlyLogout, leaving, packets>>
  <2>1. expireTime \in Nat
    BY ConstantsAssumption DEF IInv, TypeOK, SessionOK
  <2> QED BY <2>1 DEF CheckSockets
<1>2. requeuePackets = <<>> /\ life = "listed"
      /\ life' = life /\ toAdd' = toAdd /\ toLink' \in Nat /\ toLink' <= toLink
  BY <1>1, BetweenUpdates DEF world
<1>3. expireTime' \in 0..ExpireTime
  BY <1>1, BetweenUpdates, ConstantsAssumption
<1>4. \A ks \in SUBSET Sockets : ks = {} => IInv'
  BY <1>1, <1>2, <1>3, SessionTypes, UpdateStepKeeps
<1> QED BY <1>4, NoSockets

LEMMA DropSocketKeeps ==
    ASSUME IInv, NEW k \in Sockets, repeats' = repeats, DropSocket(k) PROVE IInv'
<1>1. /\ pc = "dropping" /\ CloseSocket({k}) /\ held' = held \ {k} /\ pc' = pc
      /\ UNCHANGED <<world, forceExit, expireTime, player, recentlyLogout, leaving, packets>>
  BY DEF DropSocket
<1>2. requeuePackets = <<>> /\ life = "listed" /\ expireTime' \in 0..ExpireTime
      /\ life' = life /\ toAdd' = toAdd /\ toLink' \in Nat /\ toLink' <= toLink
  BY <1>1, BetweenUpdates DEF world
<1>3. {k} \in SUBSET Sockets /\ held \ {k} \subseteq held' /\ held' \subseteq held
  BY <1>1
<1> QED BY <1>1, <1>2, <1>3, SessionTypes, UpdateStepKeeps

LEMMA DeleteSessionKeeps == IInv /\ repeats' = repeats /\ DeleteSession => IInv'
<1> SUFFICES ASSUME IInv, repeats' = repeats, DeleteSession PROVE IInv'
  OBVIOUS
<1>1. /\ pc = "dropping" /\ held = {} /\ pc' = "link" /\ Delete
      /\ UNCHANGED <<network, toAdd, toLink, forceExit, expireTime, received, handled>>
  BY DEF DeleteSession
<1>2. /\ life = "listed" /\ toAdd' \in Seq({"session", "nobody"}) /\ (repeats = 0 => toAdd' = <<>>)
      /\ toLink' = toLink /\ forceExit' \in BOOLEAN
  <2>1. life = "listed" /\ toAdd \in Seq({"session", "nobody"}) /\ (repeats = 0 => toAdd = <<>>)
    BY <1>1 DEF IInv, TypeOK, SessionOK, HandedOver
  <2> QED BY <1>1, <2>1, SessionTypes
<1>3. \A ks \in SUBSET Sockets : ks = {} => IInv'
  BY <1>1, <1>2, DeleteKeeps
<1> QED BY <1>3, NoSockets

-----------------------------------------------------------------------------
(* The theorems.                                                           *)

LEMMA NextKeeps == IInv /\ [Next]_vars => IInv'
<1> SUFFICES ASSUME IInv, [Next]_vars PROVE IInv'
  OBVIOUS
<1>1. CASE HandleAuthSession \/ LoadSessionPermissionsCallback \/ HandleAuthContinuedSession
  BY <1>1, HandleAuthSessionKeeps, LoadSessionPermissionsCallbackKeeps, HandleAuthContinuedSessionKeeps
<1>2. ASSUME NEW k \in Sockets, Network(k) PROVE IInv'
  BY <1>2, ReadDataHandlerKeeps, HandleEnterEncryptedModeAckKeeps,
     EnterEncryptedModeAckAgainKeeps, DisconnectKeeps, QueuePacketKeeps, OnCloseKeeps DEF Network
<1>3. CASE Packet /\ repeats' = repeats
  BY <1>3, PostponeKeeps, SkipKeeps, ThrottleKeeps, HandleLoggedInKeeps,
     HandleMoveWorldportAckKeeps, HandleCharEnumKeeps, HandlePlayerLoginKeeps DEF Packet
<1>4. CASE World
  <2>6. repeats' = repeats
    BY <1>4 DEF World
  <2>1. CASE ProcessLinkInstanceSocket \/ LinkInstanceSocket
    BY <2>1, <2>6, ProcessLinkInstanceSocketKeeps, LinkInstanceSocketKeeps
  <2>2. CASE \E refused \in BOOLEAN : AddSession_(refused)
    BY <2>2, <2>6, AddSession_Keeps
  <2>3. CASE AddSessionOutOfTurn \/ Replace \/ BeginUpdate \/ Readd \/ DeleteSession
    BY <2>3, <2>6, AddSessionOutOfTurnKeeps, ReplaceKeeps, BeginUpdateKeeps, ReaddKeeps, DeleteSessionKeeps
  <2>4. CASE ProcessQueryCallbacks \/ Logout \/ CheckSockets
    BY <2>4, <2>6, ProcessQueryCallbacksKeeps, LogoutKeeps, CheckSocketsKeeps
  <2>5. CASE \E k \in Sockets : DropSocket(k)
    BY <2>5, <2>6, DropSocketKeeps
  <2> QED BY <1>3, <1>4, <2>1, <2>2, <2>3, <2>4, <2>5, <2>6 DEF World
<1>5. CASE UNCHANGED vars
  BY <1>5 DEF vars, network, world, session, packets, IInv, TypeOK, SocketsOK, SessionOK,
     PacketsOK, HasPlayer, Pointers, HandedOver, InTurn, Halted, Order, Ordered, After, Receiving
<1> QED BY <1>1, <1>2, <1>4, <1>5 DEF Next, Stopped

LEMMA InvariantHolds == Spec => []IInv
BY InitIInv, NextKeeps, PTL DEF Spec

\* The variables keep their types, and the session is listed whenever the world
\* thread or the worker is in its update, for every number of packets and every
\* limit.  (WorldSession.cpp:340-545)
THEOREM TypeCorrect == Spec => []TypeOK
<1>1. IInv => TypeOK
  BY DEF IInv
<1> QED BY <1>1, InvariantHolds, PTL

\* Whichever thread closes a socket and whenever, no network thread uses the
\* session, or could come to use it, once the world thread has deleted it, and
\* the session is handed over once: until a client acknowledges the encrypted
\* mode out of turn.  (WorldSocket.cpp:251, 1006-1013; World.cpp:370)
THEOREM NoUseAfterFreeHolds == Spec => []NoUseAfterFree
<1>1. IInv => NoUseAfterFree
  <2> SUFFICES ASSUME IInv, repeats = 0 PROVE NoUseAfterFree
    BY DEF NoUseAfterFree
  <2>1. SocketsOK /\ SessionOK /\ Pointers /\ HandedOver /\ ~Halted
    BY DEF IInv, TypeOK, InTurn
  <2>2. ASSUME life = "deleted"
        PROVE  /\ \A k \in Sockets :
                      net[k] # "locked" /\ (pointer[k] => net[k] \in {"closing", "done"})
               /\ stage["realm"] = "acked" /\ toAdd = <<>>
    <3>1. \A k \in Sockets : pointer[k] => closed[k]
      BY <2>1, <2>2 DEF Pointers
    <3>2. \A k \in Sockets : net[k] # "locked" /\ (pointer[k] => net[k] \in {"closing", "done"})
      BY <2>1, <3>1 DEF Pointers
    <3>3. "realm" \in Sockets
      BY DEF Sockets
    <3>4. stage["realm"] = "acked" /\ toAdd = <<>>
      BY <2>1, <2>2, <3>3 DEF HandedOver, SocketsOK
    <3> QED BY <3>2, <3>4
  <2> QED BY <2>1, <2>2 DEF NoUseAfterFree
<1> QED BY <1>1, InvariantHolds, PTL

\* Packets of a player in the world are handled in the order they were
\* received, for any number of packets put aside and of updates, by the world
\* thread and the map's worker in turn.  (WorldSession.cpp:352, 488)
THEOREM QueueInOrderHolds == Spec => []QueueInOrder
<1>1. IInv => QueueInOrder
  <2> SUFFICES ASSUME IInv PROVE QueueInOrder
    OBVIOUS
  <2> DEFINE r == requeuePackets
             w == recvQueue
             q == r \o w
             waiting == {i \in 1..Len(q) : q[i].kind \in LoggedIn}
  <2>1. PacketsOK /\ Order
    BY DEF IInv, TypeOK
  <2>2. w \in Seq(Packets) /\ r \in Seq(Packets) /\ Len(w) \in Nat /\ Len(r) \in Nat
    BY <2>1 DEF PacketsOK
  <2>3. /\ Len(q) = Len(r) + Len(w)
        /\ \A i \in 1..Len(q) : q[i] = IF i <= Len(r) THEN r[i] ELSE w[i - Len(r)]
    BY <2>2, ConcatProperties
  <2> HIDE DEF q
  <2>4. \A i \in 1..Len(q) : \/ i \in 1..Len(r) /\ q[i] = r[i]
                             \/ i - Len(r) \in 1..Len(w) /\ q[i] = w[i - Len(r)]
    BY <2>2, <2>3
  <2>5. \A i \in waiting : handled < q[i].at
    <3> SUFFICES ASSUME NEW i \in 1..Len(q), q[i].kind \in LoggedIn PROVE handled < q[i].at
      OBVIOUS
    <3>1. CASE i \in 1..Len(r) /\ q[i] = r[i]
      BY <2>1, <3>1 DEF Order, After
    <3>2. CASE i - Len(r) \in 1..Len(w) /\ q[i] = w[i - Len(r)]
      BY <2>1, <3>2 DEF Order, After
    <3> QED BY <2>4, <3>1, <3>2
  <2>6. \A i \in waiting : \A j \in waiting : i < j => q[i].at < q[j].at
    <3> SUFFICES ASSUME NEW i \in 1..Len(q), NEW j \in 1..Len(q), i < j,
                        q[i].kind \in LoggedIn, q[j].kind \in LoggedIn
                 PROVE  q[i].at < q[j].at
      OBVIOUS
    <3>1. CASE i \in 1..Len(r) /\ q[i] = r[i]
      <4>1. CASE j \in 1..Len(r) /\ q[j] = r[j]
        BY <2>1, <3>1, <4>1 DEF Order, Ordered
      <4>2. CASE j - Len(r) \in 1..Len(w) /\ q[j] = w[j - Len(r)]
        BY <2>1, <3>1, <4>2 DEF Order
      <4> QED BY <2>4, <4>1, <4>2
    <3>2. CASE i - Len(r) \in 1..Len(w) /\ q[i] = w[i - Len(r)]
      <4>1. j - Len(r) \in 1..Len(w) /\ q[j] = w[j - Len(r)] /\ i - Len(r) < j - Len(r)
        BY <2>2, <2>4, <3>2
      <4> QED BY <2>1, <3>2, <4>1 DEF Order, Ordered
    <3> QED BY <2>4, <3>1, <3>2
  <2> QED BY <2>5, <2>6 DEF QueueInOrder, q
<1> QED BY <1>1, InvariantHolds, PTL

=============================================================================
