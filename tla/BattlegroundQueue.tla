------------------------- MODULE BattlegroundQueue -------------------------
(***************************************************************************)
(* The queue of one unrated battleground in one level bracket, and the     *)
(* battlegrounds made from it: players join alone, are invited into a      *)
(* running or a new battleground, accept, decline or let the invitation    *)
(* lapse, travel, play, leave, log out and come back, while                *)
(* BattlegroundMgr::Update ends, deletes and fills the battlegrounds.      *)
(*                                                                         *)
(* The place an invitation takes is a counter of the battleground, given   *)
(* back by whoever ends it: the queue, its timer, the logout or the        *)
(* battleground.  Battleground.InvitationType has its default, 0; premade  *)
(* groups, arenas and a second queue are not modelled.                     *)
(***************************************************************************)
EXTENDS Integers, Sequences, FiniteSets, SequencesExt, FiniteSetsExt

CONSTANTS
    Players,            \* players of one level bracket
    Alliance,           \* those of the Alliance; the others are Horde
    MinPlayersPerTeam, MaxPlayersPerTeam,
    MaxBattlegrounds,   \* bound: battlegrounds at a time
    MaxTimers           \* bound: invitation timers running at a time

ASSUME ConstantsAssumption ==
    /\ IsFiniteSet(Players) /\ Alliance \subseteq Players
    /\ MinPlayersPerTeam \in Nat \ {0}
    /\ MaxPlayersPerTeam \in Nat /\ MinPlayersPerTeam <= MaxPlayersPerTeam
    /\ MaxBattlegrounds \in Nat \ {0} /\ MaxTimers \in Nat \ {0}

Teams == {"alliance", "horde"}
TeamOf(p) == IF p \in Alliance THEN "alliance" ELSE "horde"
Other(team) == CHOOSE t \in Teams : t # team

Ids == 1..MaxBattlegrounds     \* instance ids; 0 is none
NoSlot == -1                   \* the player has no entry for this queue

VARIABLES
    \* m_QueuedGroups[bracket][BG_QUEUE_NORMAL_*]; IsInvitedToBGInstanceGUID
    \* and RemoveInviteTime of the group a queued player makes up
    queue, invitation,
    \* m_events: the BGQueueRemoveEvents of one update, oldest update first
    timers,
    \* m_bgBattlegroundQueueID: NoSlot, or invitedToInstance;
    \* m_bgData.bgInstanceID; where the player is
    slot, bgInstanceID, place,
    \* the Battleground objects; m_BGFreeSlotQueue
    bgs, freeSlotQueue,
    \* m_QueueUpdateScheduler; how far BattlegroundMgr::Update is, the
    \* battlegrounds it has still to update and those it has still to fill
    scheduled, step, toUpdate, toFill

queueVars == <<queue, invitation, timers>>
playerVars == <<slot, bgInstanceID, place>>
updateVars == <<step, toUpdate, toFill>>
vars == <<queueVars, playerVars, bgs, freeSlotQueue, scheduled, updateVars>>

NotInvited == [bg |-> 0, time |-> 0]
NoBattleground == [status |-> "none", players |-> {}, offline |-> <<>>,
                   invited |-> [t \in Teams |-> 0]]

Init ==
    /\ queue = [t \in Teams |-> <<>>]
    /\ invitation = [p \in Players |-> NotInvited]
    /\ timers = <<>>
    /\ slot = [p \in Players |-> NoSlot]
    /\ bgInstanceID = [p \in Players |-> 0]
    /\ place = [p \in Players |-> "world"]
    /\ bgs = [b \in Ids |-> NoBattleground]
    /\ freeSlotQueue = <<>>
    /\ scheduled = FALSE /\ step = "clients" /\ toUpdate = {} /\ toFill = <<>>

Queued(p) == Contains(queue[TeamOf(p)], p)

(***************************************************************************)
(* A battleground                                                          *)
(***************************************************************************)
OfTeam(b, team) == {p \in bgs[b].players : TeamOf(p) = team}

\* Battleground::GetFreeSlotsForTeam of battleground bg
GetFreeSlotsForTeam(bg, team) ==
    LET this == bg.invited[team]
        other == bg.invited[Other(team)]
        inside == Cardinality({p \in bg.players : TeamOf(p) = team})
        outside == Cardinality(bg.players) - inside
        room == IF this < MaxPlayersPerTeam THEN MaxPlayersPerTeam - this ELSE 0
        diff == IF other = this THEN 1 ELSE IF other > this THEN other - this ELSE 0
        diff3 == IF outside = inside THEN 1
                 ELSE IF outside > inside THEN outside - inside
                 ELSE IF this <= MinPlayersPerTeam THEN MinPlayersPerTeam - this + 1
                 ELSE 0
    IN  CASE bg.status = "join" -> room
          [] bg.status = "progress" -> Min({diff, room, diff3})
          [] OTHER -> 0

HasFreeSlots(bg) == Cardinality(bg.players) < 2 * MaxPlayersPerTeam

\* RemovePlayerAtLeave, of a player in m_Players
Without(bg, p) ==
    [bg EXCEPT !.players = @ \ {p}, !.invited[TeamOf(p)] = @ - 1]

\* AddToBGFreeSlotQueue
WithFreeSlot(b) ==
    IF Contains(freeSlotQueue, b) THEN freeSlotQueue ELSE <<b>> \o freeSlotQueue

\* the rest of RemovePlayerAtLeave: its free slot is offered unless it ends
OfferSlot(b) ==
    IF bgs[b].status # "leave"
    THEN freeSlotQueue' = WithFreeSlot(b) /\ scheduled' = TRUE
    ELSE UNCHANGED <<freeSlotQueue, scheduled>>

(***************************************************************************)
(* The queue, between two updates                                          *)
(***************************************************************************)
\* BattlegroundQueue::AddGroup for a player on his own
HandleBattlemasterJoin(p) ==
    /\ step = "clients" /\ place[p] = "world"
    /\ bgInstanceID[p] = 0 /\ slot[p] = NoSlot
    /\ queue' = [queue EXCEPT ![TeamOf(p)] = Append(@, p)]
    /\ invitation' = [invitation EXCEPT ![p] = NotInvited]
    /\ slot' = [slot EXCEPT ![p] = 0]
    /\ scheduled' = TRUE
    /\ UNCHANGED <<timers, bgInstanceID, place, bgs, freeSlotQueue, updateVars>>

\* BattlegroundQueue::RemovePlayer: the place is given back when the player
\* does not come
Dequeued(p) == [queue EXCEPT ![TeamOf(p)] = RemoveFirst(@, p)]

DecreaseInvitedCount(p, decreaseInvitedCount) ==
    LET b == invitation[p].bg
    IN  IF decreaseInvitedCount /\ b # 0 /\ bgs[b].status # "none"
        THEN [bgs EXCEPT ![b].invited[TeamOf(p)] = @ - 1]
        ELSE bgs

RemovePlayer(p, decreaseInvitedCount) ==
    /\ queue' = Dequeued(p)
    /\ invitation' = [invitation EXCEPT ![p] = NotInvited]
    /\ bgs' = DecreaseInvitedCount(p, decreaseInvitedCount)

\* mutant: the place is given back to be taken again at the door
AcceptGivingBack(p) ==
    LET b == invitation[p].bg
    IN  /\ step = "clients" /\ place[p] = "world" /\ Queued(p)
        /\ b # 0 /\ bgs[b].status # "none" /\ slot[p] \in Ids
        /\ RemovePlayer(p, TRUE)
        /\ bgInstanceID' = [bgInstanceID EXCEPT ![p] = b]
        /\ place' = [place EXCEPT ![p] = "travelling"]
        /\ UNCHANGED <<timers, slot, freeSlotQueue, scheduled, updateVars>>

\* HandleBattleFieldPortOpcode with AcceptedInvite
Accept(p) ==
    LET b == invitation[p].bg
    IN  /\ step = "clients" /\ place[p] = "world" /\ Queued(p)
        /\ b # 0 /\ bgs[b].status # "none" /\ slot[p] \in Ids
        /\ RemovePlayer(p, FALSE)
        /\ bgInstanceID' = [bgInstanceID EXCEPT ![p] = b]
        /\ place' = [place EXCEPT ![p] = "travelling"]
        /\ UNCHANGED <<timers, slot, freeSlotQueue, scheduled, updateVars>>

\* the same without it, or of a deserter: the player leaves the queue
Decline(p) ==
    /\ step = "clients" /\ place[p] = "world" /\ slot[p] # NoSlot /\ Queued(p)
    /\ slot' = [slot EXCEPT ![p] = NoSlot]
    /\ RemovePlayer(p, TRUE)
    /\ scheduled' = TRUE
    /\ UNCHANGED <<timers, bgInstanceID, place, freeSlotQueue, updateVars>>

(***************************************************************************)
(* In the battleground, between two updates                                *)
(***************************************************************************)
\* IsInvitedForBattlegroundInstance, then AddPlayer
Entered(p) ==
    LET b == bgInstanceID[p]
    IN  IF slot[p] = b
        THEN [bgs EXCEPT ![b].players = @ \cup {p}]
        ELSE bgs

\* HandleMoveWorldportAck; a battleground that is gone sends the player home
Arrive(p) ==
    /\ step = "clients" /\ place[p] = "travelling"
    /\ IF bgs[bgInstanceID[p]].status # "none"
       THEN /\ bgs' = Entered(p)
            /\ place' = [place EXCEPT ![p] = "inside"]
            /\ UNCHANGED bgInstanceID
       ELSE /\ place' = [place EXCEPT ![p] = "world"]
            /\ bgInstanceID' = [bgInstanceID EXCEPT ![p] = 0]
            /\ UNCHANGED bgs
    /\ UNCHANGED <<queueVars, slot, freeSlotQueue, scheduled, updateVars>>

\* LeaveBattleground, or a far teleport out of it
Leave(p) ==
    LET b == bgInstanceID[p]
    IN  /\ step = "clients" /\ place[p] = "inside"
        /\ IF p \in bgs[b].players
           THEN /\ bgs' = [bgs EXCEPT ![b] = Without(@, p)]
                /\ slot' = [slot EXCEPT ![p] = NoSlot]
                /\ OfferSlot(b)
           ELSE UNCHANGED <<bgs, slot, freeSlotQueue, scheduled>>
        /\ bgInstanceID' = [bgInstanceID EXCEPT ![p] = 0]
        /\ place' = [place EXCEPT ![p] = "world"]
        /\ UNCHANGED <<queueVars, updateVars>>

\* EndBattleground on a win, called by the battleground's script
EndBattleground(b) ==
    /\ step = "clients" /\ bgs[b].status = "progress" /\ bgs[b].players # {}
    /\ bgs' = [bgs EXCEPT ![b].status = "leave"]
    /\ freeSlotQueue' = RemoveFirst(freeSlotQueue, b)
    /\ UNCHANGED <<queueVars, playerVars, scheduled, updateVars>>

\* EventPlayerLoggedOut: a player inside keeps his place for five minutes
LoggedOut(bg, p) ==
    IF p \in bg.players THEN [bg EXCEPT !.offline = Append(@, p)] ELSE bg

\* mutant: the transfer under way is not finished
LogoutPlayerInTransit(p) ==
    LET b == bgInstanceID[p]
    IN  /\ step = "clients" /\ place[p] # "offline"
        /\ IF b # 0 /\ bgs[b].status # "none"
           THEN /\ bgs' = [bgs EXCEPT ![b] = LoggedOut(@, p)]
                /\ UNCHANGED <<queue, invitation>>
           ELSE IF slot[p] # NoSlot /\ Queued(p)
           THEN RemovePlayer(p, TRUE)
           ELSE UNCHANGED <<bgs, queue, invitation>>
        /\ slot' = [slot EXCEPT ![p] = NoSlot]
        /\ place' = [place EXCEPT ![p] = "offline"]
        /\ UNCHANGED <<timers, bgInstanceID, freeSlotQueue, scheduled, updateVars>>

\* LogoutPlayer: a transfer under way is finished first
LogoutPlayer(p) ==
    LET b == bgInstanceID[p]
    IN  /\ step = "clients" /\ place[p] # "offline"
        /\ IF b # 0 /\ bgs[b].status # "none"
           THEN /\ bgs' = [bgs EXCEPT ![b] = LoggedOut(
                             IF place[p] = "travelling" THEN Entered(p)[b] ELSE @, p)]
                /\ UNCHANGED <<queue, invitation>>
           ELSE IF slot[p] # NoSlot /\ Queued(p)
           THEN RemovePlayer(p, TRUE)
           ELSE UNCHANGED <<bgs, queue, invitation>>
        /\ slot' = [slot EXCEPT ![p] = NoSlot]
        /\ place' = [place EXCEPT ![p] = "offline"]
        /\ UNCHANGED <<timers, bgInstanceID, freeSlotQueue, scheduled, updateVars>>

\* LoadFromDB: back inside when his place is kept and the match is not over
Login(p) ==
    LET b == bgInstanceID[p]
        kept == b # 0 /\ p \in bgs[b].players
    IN  /\ step = "clients" /\ place[p] = "offline"
        /\ IF kept /\ bgs[b].status # "leave"
           THEN /\ slot' = [slot EXCEPT ![p] = b]
                /\ bgs' = [bgs EXCEPT ![b].offline = RemoveFirst(@, p)]
                /\ place' = [place EXCEPT ![p] = "inside"]
                /\ UNCHANGED bgInstanceID
           ELSE /\ bgs' = IF kept THEN [bgs EXCEPT ![b] = Without(@, p)] ELSE bgs
                /\ place' = [place EXCEPT ![p] = "world"]
                /\ bgInstanceID' = [bgInstanceID EXCEPT ![p] = 0]
                /\ UNCHANGED slot
        /\ UNCHANGED <<queueVars, freeSlotQueue, scheduled, updateVars>>

(***************************************************************************)
(* BattlegroundMgr::Update: the battlegrounds                              *)
(***************************************************************************)
\* the battlegrounds are updated once a second only
BeginUpdate ==
    /\ step = "clients"
    /\ step' = "battlegrounds"
    /\ toUpdate' \in {{}, {b \in Ids : bgs[b].status # "none"}}
    /\ UNCHANGED <<queueVars, playerVars, bgs, freeSlotQueue, scheduled, toFill>>

Updating(b) ==
    /\ step = "battlegrounds" /\ b \in toUpdate /\ \A i \in toUpdate : b <= i
    /\ toUpdate' = toUpdate \ {b}
    /\ UNCHANGED <<queueVars, step, toFill>>

\* nobody inside: it is deleted unless somebody is invited
UpdateEmpty(b) ==
    /\ Updating(b) /\ bgs[b].players = {}
    /\ IF \A t \in Teams : bgs[b].invited[t] = 0
       THEN /\ bgs' = [bgs EXCEPT ![b] = NoBattleground]
            /\ freeSlotQueue' = RemoveFirst(freeSlotQueue, b)
       ELSE UNCHANGED <<bgs, freeSlotQueue>>
    /\ UNCHANGED <<playerVars, scheduled>>

\* none of the timers of Battleground::Update has run out
UpdateWaits(b) ==
    /\ Updating(b) /\ bgs[b].players # {}
    /\ UNCHANGED <<playerVars, bgs, freeSlotQueue, scheduled>>

\* _ProcessJoin, when the doors open, or when there is no map or its setup
\* fails: EndNow
ProcessJoin(b) ==
    /\ Updating(b) /\ bgs[b].players # {} /\ bgs[b].status = "join"
    /\ \/ bgs' = [bgs EXCEPT ![b].status = "progress"] /\ UNCHANGED freeSlotQueue
       \/ /\ bgs' = [bgs EXCEPT ![b].status = "leave"]
          /\ freeSlotQueue' = RemoveFirst(freeSlotQueue, b)
    /\ UNCHANGED <<playerVars, scheduled>>

\* mutant: the entry for the queue is kept
SentHomeWithEntry(ps) ==
    LET online == {p \in ps : place[p] # "offline"}
    IN  /\ bgInstanceID' = [p \in Players |-> IF p \in online THEN 0 ELSE bgInstanceID[p]]
        /\ place' = [p \in Players |-> IF p \in online THEN "world" ELSE place[p]]
        /\ UNCHANGED slot

\* RemovePlayerAtLeave for everyone in ps, with Transport; who is offline
\* finds out when he logs in
SentHome(ps) ==
    LET online == {p \in ps : place[p] # "offline"}
    IN  /\ slot' = [p \in Players |-> IF p \in online THEN NoSlot ELSE slot[p]]
        /\ bgInstanceID' = [p \in Players |-> IF p \in online THEN 0 ELSE bgInstanceID[p]]
        /\ place' = [p \in Players |-> IF p \in online THEN "world" ELSE place[p]]

\* _ProcessOfflineQueue, when the first one's five minutes are over
ProcessOfflineQueue(b) ==
    LET p == Head(bgs[b].offline)
    IN  /\ Updating(b) /\ bgs[b].status = "progress"
        /\ bgs[b].offline # <<>> /\ p \in bgs[b].players
        /\ bgs' = [bgs EXCEPT ![b] =
                      [Without(bgs[b], p) EXCEPT !.offline = Tail(bgs[b].offline)]]
        /\ SentHome({p})
        /\ OfferSlot(b)

\* _ProcessProgress, when a side stayed too small for five minutes
ProcessProgress(b) ==
    /\ Updating(b) /\ bgs[b].players # {} /\ bgs[b].status = "progress"
    /\ \E t \in Teams : Cardinality(OfTeam(b, t)) < MinPlayersPerTeam
    /\ bgs' = [bgs EXCEPT ![b].status = "leave"]
    /\ freeSlotQueue' = RemoveFirst(freeSlotQueue, b)
    /\ UNCHANGED <<playerVars, scheduled>>

\* _ProcessLeave, two minutes after the end
ProcessLeave(b) ==
    /\ Updating(b) /\ bgs[b].players # {} /\ bgs[b].status = "leave"
    /\ bgs' = [bgs EXCEPT ![b].players = {},
                          ![b].invited = [t \in Teams |-> @[t] - Cardinality(OfTeam(b, t))]]
    /\ SentHome(bgs[b].players)
    /\ UNCHANGED <<freeSlotQueue, scheduled>>

(***************************************************************************)
(* BattlegroundMgr::Update: the timers of the invitations                  *)
(***************************************************************************)
\* mutant: any invitation to the same battleground
IsPlayerInvitedAtAll(p, b, time) ==
    Queued(p) /\ invitation[p].bg = b

IsPlayerInvited(p, b, time) ==
    Queued(p) /\ invitation[p] = [bg |-> b, time |-> time]

\* UpdateEvents: the oldest invitations may lapse
UpdateEvents ==
    /\ step = "battlegrounds" /\ toUpdate = {} /\ timers # <<>>
    /\ step' = "events"
    /\ UNCHANGED <<queueVars, playerVars, bgs, freeSlotQueue, scheduled, toUpdate, toFill>>

\* BGQueueRemoveEvent::Execute
RemoveEvent(p, b) ==
    /\ step = "events" /\ <<p, b>> \in Head(timers).invited
    /\ timers' = [timers EXCEPT ![1].invited = @ \ {<<p, b>>}]
    /\ IF place[p] # "offline" /\ slot[p] # NoSlot /\ IsPlayerInvited(p, b, Head(timers).time)
       THEN /\ slot' = [slot EXCEPT ![p] = NoSlot]
            /\ RemovePlayer(p, TRUE)
            /\ scheduled' = (scheduled \/ bgs[b].status \notin {"none", "leave"})
       ELSE UNCHANGED <<slot, queue, invitation, bgs, scheduled>>
    /\ UNCHANGED <<bgInstanceID, place, freeSlotQueue, updateVars>>

EventsDone ==
    /\ step = "events" /\ Head(timers).invited = {}
    /\ step' = "battlegrounds" /\ timers' = Tail(timers)
    /\ UNCHANGED <<queue, invitation, playerVars, bgs, freeSlotQueue, scheduled, toUpdate, toFill>>

(***************************************************************************)
(* BattlegroundMgr::Update: the queue.  The last timer is that of the      *)
(* update under way.                                                       *)
(***************************************************************************)
Now == CHOOSE t \in 1..MaxTimers : \A i \in DOMAIN timers : timers[i].time # t

\* The scheduled update, if there is one.  The bounds of the model delay it
\* while no id is left for a battleground, and until a timer is left.
UpdateQueues ==
    /\ step = "battlegrounds" /\ toUpdate = {} /\ Len(timers) < MaxTimers
    /\ IF scheduled /\ \E b \in Ids : bgs[b].status = "none"
       THEN /\ scheduled' = FALSE
            /\ IF \E t \in Teams : queue[t] # <<>>
               THEN /\ step' = "fill" /\ toFill' = freeSlotQueue
                    /\ timers' = Append(timers, [time |-> Now, invited |-> {}])
               ELSE step' = "clients" /\ UNCHANGED <<toFill, timers>>
       ELSE step' = "clients" /\ UNCHANGED <<scheduled, toFill, timers>>
    /\ UNCHANGED <<queue, invitation, playerVars, bgs, freeSlotQueue, toUpdate>>

\* those of a team who are not invited yet, by their index in the queue
Waiting(team) == {i \in DOMAIN queue[team] : invitation[queue[team][i]].bg = 0}

\* a selection pool: the first desired of them
SelectionPool(team, desired) ==
    {queue[team][i] : i \in
        {i \in Waiting(team) : Cardinality({j \in Waiting(team) : j < i}) < desired}}

\* InviteGroupToBG for everyone in ps, into bg, which has id b
InviteGroupToBG(ps, b, bg) ==
    /\ invitation' = [p \in Players |->
           IF p \in ps THEN [bg |-> b, time |-> Last(timers).time] ELSE invitation[p]]
    /\ slot' = [p \in Players |-> IF p \in ps /\ slot[p] # NoSlot THEN b ELSE slot[p]]
    /\ bgs' = [bgs EXCEPT ![b] = [bg EXCEPT !.invited =
           [t \in Teams |-> @[t] + Cardinality({p \in ps : TeamOf(p) = t})]]]
    /\ timers' = [timers EXCEPT ![Len(timers)].invited = @ \cup (ps \X {b})]

\* the players for the free slots of battleground b
FillPlayersToBG(b) ==
    UNION {SelectionPool(t, GetFreeSlotsForTeam(bgs[b], t)) : t \in Teams}

\* BattlegroundQueueUpdate: the next battleground with free slots
FillBattleground(b) ==
    /\ step = "fill" /\ toFill # <<>> /\ b = Head(toFill) /\ toFill' = Tail(toFill)
    /\ IF bgs[b].status \in {"join", "progress"}
       THEN /\ InviteGroupToBG(FillPlayersToBG(b), b, bgs[b])
            /\ freeSlotQueue' = IF HasFreeSlots(bgs[b]) THEN freeSlotQueue
                                ELSE RemoveFirst(freeSlotQueue, b)
       ELSE UNCHANGED <<invitation, slot, bgs, timers, freeSlotQueue>>
    /\ UNCHANGED <<queue, bgInstanceID, place, scheduled, step, toUpdate>>

\* CheckNormalMatch
EnoughPlayers ==
    \A t \in Teams :
        Cardinality(SelectionPool(t, MinPlayersPerTeam)) >= MinPlayersPerTeam

\* CreateNewBattleground, the invitations and StartBattleground
NewMatch(b) ==
    /\ step = "fill" /\ toFill = <<>> /\ step' = "clients" /\ EnoughPlayers
    /\ bgs[b].status = "none" /\ \A i \in 1..(b - 1) : bgs[i].status # "none"
    /\ InviteGroupToBG(UNION {SelectionPool(t, MinPlayersPerTeam) : t \in Teams},
                       b, [NoBattleground EXCEPT !.status = "join"])
    /\ freeSlotQueue' = <<b>> \o freeSlotQueue
    /\ UNCHANGED <<queue, bgInstanceID, place, scheduled, toUpdate, toFill>>

\* too few players, or CreateNewBattleground fails; an update that invited
\* nobody leaves no timer
NoMatch ==
    /\ step = "fill" /\ toFill = <<>> /\ step' = "clients"
    /\ timers' = IF Last(timers).invited = {} THEN Front(timers) ELSE timers
    /\ UNCHANGED <<queue, invitation, playerVars, bgs, freeSlotQueue, scheduled, toUpdate, toFill>>

ClientStep(p) ==
    \/ HandleBattlemasterJoin(p) \/ Accept(p) \/ Decline(p) \/ Arrive(p)
    \/ Leave(p) \/ LogoutPlayer(p) \/ Login(p)

BattlegroundStep(b) ==
    \/ UpdateEmpty(b) \/ UpdateWaits(b) \/ ProcessJoin(b) \/ ProcessOfflineQueue(b)
    \/ ProcessProgress(b) \/ ProcessLeave(b)

Next ==
    \/ \E p \in Players : ClientStep(p)
    \/ \E b \in Ids : EndBattleground(b) \/ BattlegroundStep(b)
    \/ BeginUpdate \/ UpdateEvents
    \/ \E p \in Players, b \in Ids : RemoveEvent(p, b)
    \/ EventsDone \/ UpdateQueues
    \/ \E b \in Ids : FillBattleground(b) \/ NewMatch(b)
    \/ NoMatch

Spec == Init /\ [][Next]_vars

(***************************************************************************)
(* Properties                                                              *)
(***************************************************************************)
\* Every variable has its type; an invited count, a uint32 in the code, is
\* never below zero or above MaxPlayersPerTeam.
TypeOK ==
    /\ queue \in [Teams -> Seq(Players)] /\ \A t \in Teams : IsInjective(queue[t])
    /\ invitation \in [Players -> [bg : 0..MaxBattlegrounds, time : 0..MaxTimers]]
    /\ timers \in Seq([time : 1..MaxTimers, invited : SUBSET (Players \X Ids)])
    /\ Len(timers) <= MaxTimers
    /\ slot \in [Players -> {NoSlot} \cup 0..MaxBattlegrounds]
    /\ bgInstanceID \in [Players -> 0..MaxBattlegrounds]
    /\ place \in [Players -> {"offline", "world", "travelling", "inside"}]
    /\ bgs \in [Ids -> [status : {"none", "join", "progress", "leave"},
                        players : SUBSET Players, offline : Seq(Players),
                        invited : [Teams -> 0..MaxPlayersPerTeam]]]
    /\ freeSlotQueue \in Seq(Ids) /\ IsInjective(freeSlotQueue)
    /\ scheduled \in BOOLEAN /\ toUpdate \subseteq Ids /\ toFill \in Seq(Ids)
    /\ step \in {"clients", "battlegrounds", "events", "fill"}

\* invited and still in the queue, on the way, or inside and counted, be it offline
HoldsPlace(p, b) ==
    \/ Queued(p) /\ invitation[p].bg = b
    \/ place[p] = "travelling" /\ bgInstanceID[p] = b
    \/ p \in bgs[b].players

\* A battleground's invited count is exactly the players who hold a place in
\* it.  Each of the seven ways out of these states is another piece of code
\* that has to give the place back, once (Battleground.cpp:948,
\* BattlegroundQueue.cpp:347): one place too many keeps the battleground from
\* ever being deleted, one too few lets in more than MaxPlayersPerTeam.
InvitedCountExact ==
    \A b \in Ids : bgs[b].status # "none" =>
        \A t \in Teams : bgs[b].invited[t] =
            Cardinality({p \in Players : TeamOf(p) = t /\ HoldsPlace(p, b)})

\* A player has an entry for the queue exactly while he waits in it, travels
\* or plays, and it names the battleground he may enter: an entry left behind
\* would bar him from the queue until he logs out (BattleGroundHandler.cpp:178),
\* one lost would leave him in a battleground that does not count him
\* (MovementHandler.cpp:143).
EntriesMatch ==
    \A p \in Players :
        /\ slot[p] # NoSlot <=> Queued(p) \/ place[p] \in {"travelling", "inside"}
        /\ Queued(p) => /\ place[p] = "world" /\ bgInstanceID[p] = 0
                        /\ slot[p] = invitation[p].bg
        /\ place[p] \in {"travelling", "inside"} =>
              /\ slot[p] = bgInstanceID[p] /\ slot[p] \in Ids
              /\ bgs[slot[p]].status # "none"
        /\ place[p] = "inside" => p \in bgs[slot[p]].players

\* Of the timers that still run for a player only the last may take him out
\* of the queue: who declined, joined again and was invited once more has the
\* full time to answer (case 4 of the comment at BattlegroundQueue.cpp:1042).
OnlyTheLastTimer ==
    [][step = "events" =>
        \A p \in Players : Queued(p) /\ ~ Queued(p)' =>
            \A i \in 2..Len(timers) : \A b \in Ids : <<p, b>> \notin timers[i].invited]_vars
=============================================================================
