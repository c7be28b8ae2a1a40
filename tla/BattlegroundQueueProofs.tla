----------------------- MODULE BattlegroundQueueProofs -----------------------
(***************************************************************************)
(* Proofs about BattlegroundQueue, for any players, team sizes, number of  *)
(* battlegrounds and of timers.                                            *)
(***************************************************************************)
EXTENDS BattlegroundQueue, DataLemmas

(* Each queue holds its own team.                                           *)
TeamsOK == \A t \in Teams : \A p \in Players : Contains(queue[t], p) => TeamOf(p) = t

(* Where the players are.  An invitation is into a battleground that is     *)
(* there, who is in the world belongs to none, and a battleground counts    *)
(* inside only who plays in it or has logged out in it.                     *)
Whereabouts ==
    \A p \in Players :
        /\ Queued(p) /\ invitation[p].bg # 0 => bgs[invitation[p].bg].status # "none"
        /\ place[p] = "world" => bgInstanceID[p] = 0
        /\ \A b \in Ids : p \in bgs[b].players =>
              bgInstanceID[p] = b /\ place[p] \in {"inside", "offline"}

(* A battleground that is not there is empty, and only one where players    *)
(* may still go offers free slots.                                          *)
BattlegroundsOK ==
    \A b \in Ids :
        /\ bgs[b].status = "none" => bgs[b].players = {}
        /\ Contains(freeSlotQueue, b) => bgs[b].status \in {"join", "progress"}

(* The timers have different times, and for a player who waits there is     *)
(* none after the one that has the time of his invitation.                  *)
TimersOK ==
    /\ step \in {"events", "fill"} => timers # <<>>
    /\ \A i, j \in 1..Len(timers) : timers[i].time = timers[j].time => i = j
    /\ \A p \in Players : Queued(p) =>
         \A i, j \in 1..Len(timers) :
            timers[i].time = invitation[p].time /\ i < j =>
               \A b \in Ids : <<p, b>> \notin timers[j].invited

IInv ==
    /\ TypeOK /\ TeamsOK /\ Whereabouts /\ BattlegroundsOK
    /\ InvitedCountExact /\ EntriesMatch /\ TimersOK

-----------------------------------------------------------------------------
(* The parts of IInv that the steps are shown to keep.                     *)

Timer == [time : 1..MaxTimers, invited : SUBSET (Players \X Ids)]

BattlegroundRecord ==
    [status : {"none", "join", "progress", "leave"}, players : SUBSET Players,
     offline : Seq(Players), invited : [Teams -> 0..MaxPlayersPerTeam]]

QueuesOK ==
    /\ queue \in [Teams -> Seq(Players)] /\ \A t \in Teams : IsInjective(queue[t])
    /\ TeamsOK
    /\ invitation \in [Players -> [bg : 0..MaxBattlegrounds, time : 0..MaxTimers]]

PlayersOK ==
    /\ slot \in [Players -> {NoSlot} \cup 0..MaxBattlegrounds]
    /\ bgInstanceID \in [Players -> 0..MaxBattlegrounds]
    /\ place \in [Players -> {"offline", "world", "travelling", "inside"}]

UpdateOK ==
    /\ scheduled \in BOOLEAN /\ toUpdate \subseteq Ids /\ toFill \in Seq(Ids)
    /\ step \in {"clients", "battlegrounds", "events", "fill"}

TimerTypesOK == timers \in Seq(Timer) /\ Len(timers) <= MaxTimers

RecordsOK == bgs \in [Ids -> BattlegroundRecord]

SlotsOK == freeSlotQueue \in Seq(Ids) /\ IsInjective(freeSlotQueue)

\* Whereabouts and EntriesMatch of player p
PlayerOK(p) ==
    /\ Queued(p) /\ invitation[p].bg # 0 => bgs[invitation[p].bg].status # "none"
    /\ place[p] = "world" => bgInstanceID[p] = 0
    /\ \A b \in Ids : p \in bgs[b].players =>
          bgInstanceID[p] = b /\ place[p] \in {"inside", "offline"}
    /\ slot[p] # NoSlot <=> Queued(p) \/ place[p] \in {"travelling", "inside"}
    /\ Queued(p) => /\ place[p] = "world" /\ bgInstanceID[p] = 0
                    /\ slot[p] = invitation[p].bg
    /\ place[p] \in {"travelling", "inside"} =>
          /\ slot[p] = bgInstanceID[p] /\ slot[p] \in Ids
          /\ bgs[slot[p]].status # "none"
    /\ place[p] = "inside" => p \in bgs[slot[p]].players

PlayersMatch == \A p \in Players : PlayerOK(p)

USE DEF queueVars, playerVars, updateVars

LEMMA Parts ==
    IInv <=> /\ QueuesOK /\ PlayersOK /\ UpdateOK /\ TimerTypesOK /\ SlotsOK
             /\ RecordsOK /\ PlayersMatch
             /\ BattlegroundsOK /\ InvitedCountExact /\ TimersOK
<1>1. TypeOK /\ TeamsOK <=> /\ QueuesOK /\ PlayersOK /\ UpdateOK
                           /\ TimerTypesOK /\ SlotsOK /\ RecordsOK
  BY Zenon DEF TypeOK, QueuesOK, PlayersOK, UpdateOK, TimerTypesOK, Timer, SlotsOK,
     RecordsOK, BattlegroundRecord
<1>2. Whereabouts /\ EntriesMatch <=> PlayersMatch
  <2>1. ASSUME Whereabouts, EntriesMatch, NEW p \in Players
        PROVE  PlayerOK(p)
    BY <2>1, Zenon DEF Whereabouts, EntriesMatch, PlayerOK
  <2>2. PlayersMatch => Whereabouts
    BY Zenon DEF PlayersMatch, Whereabouts, PlayerOK
  <2>3. PlayersMatch => EntriesMatch
    BY Zenon DEF PlayersMatch, EntriesMatch, PlayerOK
  <2> QED BY <2>1, <2>2, <2>3 DEF PlayersMatch
<1> QED BY <1>1, <1>2 DEF IInv

LEMMA PartsNext ==
    IInv' <=> /\ QueuesOK' /\ PlayersOK' /\ UpdateOK' /\ TimerTypesOK' /\ SlotsOK'
              /\ RecordsOK' /\ PlayersMatch'
              /\ BattlegroundsOK' /\ InvitedCountExact' /\ TimersOK'
  BY Parts, PTL

\* What a step leaves alone.
LEMMA Unchanged ==
    /\ QueuesOK /\ UNCHANGED <<queue, invitation>> =>
          QueuesOK' /\ \A q \in Players : Queued(q)' <=> Queued(q)
    /\ PlayersOK /\ UNCHANGED playerVars => PlayersOK'
    /\ UpdateOK /\ UNCHANGED <<scheduled, updateVars>> => UpdateOK'
    /\ TimerTypesOK /\ UNCHANGED timers => TimerTypesOK'
    /\ SlotsOK /\ UNCHANGED freeSlotQueue => SlotsOK'
    /\ RecordsOK /\ UNCHANGED bgs => RecordsOK'
    /\ BattlegroundsOK /\ UNCHANGED <<bgs, freeSlotQueue>> => BattlegroundsOK'
    /\ UNCHANGED <<queue, invitation, playerVars, bgs>> =>
          /\ PlayersMatch => PlayersMatch'
          /\ InvitedCountExact => InvitedCountExact'
<1>1. QueuesOK /\ UNCHANGED <<queue, invitation>> =>
          QueuesOK' /\ \A q \in Players : Queued(q)' <=> Queued(q)
  BY DEF QueuesOK, TeamsOK, Queued
<1>2. /\ PlayersOK /\ UNCHANGED playerVars => PlayersOK'
      /\ TimerTypesOK /\ UNCHANGED timers => TimerTypesOK'
      /\ SlotsOK /\ UNCHANGED freeSlotQueue => SlotsOK'
      /\ RecordsOK /\ UNCHANGED bgs => RecordsOK'
  BY DEF PlayersOK, TimerTypesOK, SlotsOK, RecordsOK
<1>3. UpdateOK /\ UNCHANGED <<scheduled, updateVars>> => UpdateOK'
  BY DEF UpdateOK
<1>4. BattlegroundsOK /\ UNCHANGED <<bgs, freeSlotQueue>> => BattlegroundsOK'
  BY DEF BattlegroundsOK
<1>5. ASSUME UNCHANGED <<queue, invitation, playerVars, bgs>>, PlayersMatch
      PROVE  PlayersMatch'
  BY <1>5 DEF PlayersMatch, PlayerOK, Queued
<1>6. ASSUME UNCHANGED <<queue, invitation, playerVars, bgs>>, InvitedCountExact
      PROVE  InvitedCountExact'
  BY <1>6 DEF InvitedCountExact, HoldsPlace, Queued
<1> QED BY <1>1, <1>2, <1>3, <1>4, <1>5, <1>6

-----------------------------------------------------------------------------
(* Counting the players of a team.                                         *)

Team(S, t) == {p \in S : TeamOf(p) = t}

LEMMA TeamsAre ==
    /\ \A p : TeamOf(p) \in Teams
    /\ \A t \in Teams : Other(t) \in Teams /\ Other(t) # t
<1>1. \A p : TeamOf(p) \in Teams
  BY DEF TeamOf, Teams
<1>2. ASSUME NEW t \in Teams
      PROVE  Other(t) \in Teams /\ Other(t) # t
  <2>1. \E u \in Teams : u # t
    BY DEF Teams
  <2> QED BY <2>1 DEF Other
<1> QED BY <1>1, <1>2

LEMMA TeamCount ==
    ASSUME NEW S \in SUBSET Players, NEW t
    PROVE  IsFiniteSet(Team(S, t)) /\ Cardinality(Team(S, t)) \in Nat
<1>1. Team(S, t) \subseteq Players
  BY DEF Team
<1> QED BY <1>1, FS_Subset, FS_CardinalityType, ConstantsAssumption

LEMMA TeamOfNobody == \A t : Cardinality(Team({}, t)) = 0
<1>1. \A t : Team({}, t) = {}
  BY DEF Team
<1> QED BY <1>1, FS_EmptySet

LEMMA TeamOfOne ==
    ASSUME NEW p \in Players, NEW t
    PROVE  Cardinality(Team({p}, t)) = IF TeamOf(p) = t THEN 1 ELSE 0
<1>1. CASE TeamOf(p) = t
  <2>1. Team({p}, t) = {p}
    BY <1>1 DEF Team
  <2> QED BY <1>1, <2>1, FS_Singleton
<1>2. CASE TeamOf(p) # t
  <2>1. Team({p}, t) = {}
    BY <1>2 DEF Team
  <2> QED BY <1>2, <2>1, FS_EmptySet
<1> QED BY <1>1, <1>2

LEMMA TeamMinus ==
    ASSUME NEW S \in SUBSET Players, NEW G \in SUBSET S, NEW t
    PROVE  Cardinality(Team(S \ G, t)) = Cardinality(Team(S, t)) - Cardinality(Team(G, t))
<1>1. Team(S \ G, t) = Team(S, t) \ G /\ Team(S, t) \cap G = Team(G, t)
  BY DEF Team
<1> QED BY <1>1, TeamCount, FS_Difference

LEMMA TeamPlus ==
    ASSUME NEW S \in SUBSET Players, NEW G \in SUBSET Players, S \cap G = {}, NEW t
    PROVE  Cardinality(Team(S \cup G, t)) = Cardinality(Team(S, t)) + Cardinality(Team(G, t))
<1>1. Team(S \cup G, t) = Team(S, t) \cup Team(G, t) /\ Team(S, t) \cap Team(G, t) = {}
  BY DEF Team
<1>2. /\ IsFiniteSet(Team(S, t)) /\ Cardinality(Team(S, t)) \in Nat
      /\ IsFiniteSet(Team(G, t)) /\ Cardinality(Team(G, t)) \in Nat
  BY TeamCount
<1>3. /\ Cardinality(Team(S, t) \cup Team(G, t)) = Cardinality(Team(S, t))
            + Cardinality(Team(G, t)) - Cardinality(Team(S, t) \cap Team(G, t))
  BY <1>2, FS_Union
<1>4. Cardinality(Team(S, t) \cap Team(G, t)) = 0
  BY <1>1, FS_EmptySet
<1> DEFINE m == Cardinality(Team(S, t))
           n == Cardinality(Team(G, t))
           k == Cardinality(Team(S, t) \cap Team(G, t))
<1>5. Cardinality(Team(S \cup G, t)) = m + n - k
  BY <1>1, <1>3
<1>6. m \in Nat /\ n \in Nat /\ k = 0
  BY <1>2, <1>4
<1> HIDE DEF m, n, k
<1>7. Cardinality(Team(S \cup G, t)) = m + n
  BY <1>5, <1>6
<1> QED BY <1>7 DEF m, n

(* The invited counts of the battlegrounds B are right when H[b] are the    *)
(* players with a place in battleground b.                                  *)
Exact(B, H) ==
    \A b \in Ids : B[b].status # "none" =>
        \A t \in Teams : B[b].invited[t] = Cardinality(Team(H[b], t))

\* The players with a place in each battleground.
Held == [b \in Ids |-> {p \in Players : HoldsPlace(p, b)}]

LEMMA HeldIsExact ==
    /\ Held \in [Ids -> SUBSET Players] /\ (InvitedCountExact <=> Exact(bgs, Held))
    /\ Held' \in [Ids -> SUBSET Players] /\ (InvitedCountExact' <=> Exact(bgs', Held'))
<1>1. Held \in [Ids -> SUBSET Players] /\ Held' \in [Ids -> SUBSET Players]
  BY DEF Held
<1>2. \A b \in Ids, t \in Teams :
        Team(Held[b], t) = {p \in Players : TeamOf(p) = t /\ HoldsPlace(p, b)}
  BY DEF Held, Team
<1>3. \A b \in Ids, t \in Teams :
        Team(Held'[b], t) = {p \in Players : TeamOf(p) = t /\ HoldsPlace(p, b)'}
  BY DEF Held, Team
<1>4. InvitedCountExact <=> Exact(bgs, Held)
  BY <1>2, Zenon DEF InvitedCountExact, Exact
<1>5. InvitedCountExact' <=> Exact(bgs', Held')
  BY <1>3, Zenon DEF InvitedCountExact, Exact
<1> QED BY <1>1, <1>4, <1>5

-----------------------------------------------------------------------------
(* What the steps do to players, places and timers.                        *)

\* Nobody takes or gives back a place.
LEMMA CountKept ==
    ASSUME RecordsOK, InvitedCountExact,
           \A q \in Players, b \in Ids : HoldsPlace(q, b)' <=> HoldsPlace(q, b),
           \A b \in Ids : bgs'[b].status # "none" =>
              bgs[b].status # "none" /\ bgs'[b].invited = bgs[b].invited
    PROVE  InvitedCountExact'
<1>1. Held' = Held
  BY DEF Held
<1>2. Exact(bgs, Held)
  BY HeldIsExact
<1>3. Exact(bgs', Held')
  BY <1>1, <1>2 DEF Exact
<1> QED BY <1>3, HeldIsExact

\* The players of G give back their places in c.
LEMMA CountGivenBack ==
    ASSUME RecordsOK, InvitedCountExact, NEW c \in Ids, bgs[c].status # "none",
           NEW G \in SUBSET Players, \A q \in G : HoldsPlace(q, c),
           \A q \in Players, b \in Ids :
              HoldsPlace(q, b)' <=> HoldsPlace(q, b) /\ ~ (b = c /\ q \in G),
           \A b \in Ids : bgs'[b].status # "none" => bgs[b].status # "none",
           \A b \in Ids \ {c} : bgs'[b].invited = bgs[b].invited,
           \A t \in Teams :
              bgs'[c].invited[t] = bgs[c].invited[t] - Cardinality(Team(G, t))
    PROVE  /\ InvitedCountExact'
           /\ \A t \in Teams : bgs'[c].invited[t] \in 0..MaxPlayersPerTeam
<1>1. /\ bgs \in [Ids -> BattlegroundRecord] /\ Exact(bgs, Held)
      /\ Held \in [Ids -> SUBSET Players]
  BY HeldIsExact DEF RecordsOK
<1>2. G \in SUBSET Held[c] /\ Held'[c] = Held[c] \ G
  BY DEF Held
<1>3. \A b \in Ids \ {c} : bgs'[b].invited = bgs[b].invited /\ Held'[b] = Held[b]
  BY DEF Held
<1>4. ASSUME NEW t \in Teams
      PROVE  /\ bgs'[c].invited[t] = Cardinality(Team(Held'[c], t))
             /\ bgs'[c].invited[t] \in 0..MaxPlayersPerTeam
  <2>1. bgs[c].invited[t] \in 0..MaxPlayersPerTeam /\ MaxPlayersPerTeam \in Nat
    BY <1>1, ConstantsAssumption DEF BattlegroundRecord
  <2>2. bgs[c].invited[t] = Cardinality(Team(Held[c], t))
    BY <1>1 DEF Exact
  <2>3. Held[c] \in SUBSET Players /\ Held[c] \ G \in SUBSET Players
    BY <1>1
  <2>4. Cardinality(Team(G, t)) \in Nat /\ Cardinality(Team(Held[c] \ G, t)) \in Nat
    BY <2>3, TeamCount
  <2>5. Cardinality(Team(Held[c] \ G, t)) = Cardinality(Team(Held[c], t)) - Cardinality(Team(G, t))
    BY <1>2, <2>3, TeamMinus
  <2> QED BY <1>2, <2>1, <2>2, <2>4, <2>5
<1>5. ASSUME NEW b \in Ids, bgs'[b].status # "none", NEW t \in Teams
      PROVE  bgs'[b].invited[t] = Cardinality(Team(Held'[b], t))
  <2>1. CASE b = c
    BY <1>4, <2>1
  <2>2. CASE b # c
    BY <1>1, <1>3, <1>5, <2>2 DEF Exact
  <2> QED BY <2>1, <2>2
<1>6. Exact(bgs', Held')
  BY <1>5 DEF Exact
<1> QED BY <1>4, <1>6, HeldIsExact

\* The players of G are invited into c, where the players of before have places.
LEMMA CountTaken ==
    ASSUME RecordsOK, InvitedCountExact, NEW c \in Ids, NEW before \in [Teams -> Nat],
           NEW G \in SUBSET Players, \A q \in G : ~ HoldsPlace(q, c),
           \A t \in Teams : before[t] = Cardinality(Team(Held[c], t)),
           \A q \in Players, b \in Ids :
              HoldsPlace(q, b)' <=> HoldsPlace(q, b) \/ (b = c /\ q \in G),
           \A b \in Ids \ {c} : bgs'[b] = bgs[b],
           \A t \in Teams : bgs'[c].invited[t] = before[t] + Cardinality(Team(G, t))
    PROVE  InvitedCountExact'
<1>1. Exact(bgs, Held) /\ Held \in [Ids -> SUBSET Players]
  BY HeldIsExact
<1>2. Held'[c] = Held[c] \cup G /\ Held[c] \cap G = {} /\ Held[c] \in SUBSET Players
  BY DEF Held
<1>3. \A b \in Ids \ {c} : Held'[b] = Held[b]
  BY DEF Held
<1>4. ASSUME NEW t \in Teams
      PROVE  bgs'[c].invited[t] = Cardinality(Team(Held'[c], t))
  <2>1. Cardinality(Team(Held[c] \cup G, t))
          = Cardinality(Team(Held[c], t)) + Cardinality(Team(G, t))
    BY <1>2, TeamPlus
  <2> QED BY <1>2, <2>1
<1>5. ASSUME NEW b \in Ids, bgs'[b].status # "none", NEW t \in Teams
      PROVE  bgs'[b].invited[t] = Cardinality(Team(Held'[b], t))
  <2>1. CASE b = c
    BY <1>4, <2>1
  <2>2. CASE b # c
    BY <1>1, <1>3, <1>5, <2>2 DEF Exact
  <2> QED BY <2>1, <2>2
<1>6. Exact(bgs', Held')
  BY <1>5 DEF Exact
<1> QED BY <1>6, HeldIsExact

\* What a step does not touch keeps its place.
LEMMA PlayerKept ==
    ASSUME NEW q \in Players, PlayersOK, QueuesOK, PlayerOK(q), Queued(q)' <=> Queued(q),
           /\ invitation'[q] = invitation[q] /\ slot'[q] = slot[q]
           /\ bgInstanceID'[q] = bgInstanceID[q] /\ place'[q] = place[q],
           \A b \in Ids : q \in bgs'[b].players <=> q \in bgs[b].players,
           \A b \in Ids : bgs[b].status # "none" => bgs'[b].status # "none"
    PROVE  PlayerOK(q)'
<1>1. invitation[q].bg = 0 \/ invitation[q].bg \in Ids
  BY DEF QueuesOK, Ids
<1>2. \A b \in Ids : q \in bgs'[b].players =>
          bgInstanceID'[q] = b /\ place'[q] \in {"inside", "offline"}
  BY DEF PlayerOK
<1>3. Queued(q)' /\ invitation'[q].bg # 0 => bgs'[invitation'[q].bg].status # "none"
  BY <1>1 DEF PlayerOK
<1>4. place'[q] \in {"travelling", "inside"} =>
          /\ slot'[q] = bgInstanceID'[q] /\ slot'[q] \in Ids
          /\ bgs'[slot'[q]].status # "none"
  BY DEF PlayerOK
<1>5. place'[q] = "inside" => q \in bgs'[slot'[q]].players
  BY DEF PlayerOK
<1> QED BY <1>2, <1>3, <1>4, <1>5 DEF PlayerOK

\* The timers stay, and nobody who waits gets another invitation with a time.
LEMMA TimersKept ==
    ASSUME TimerTypesOK, TimersOK, UNCHANGED <<timers, step>>,
           \A q \in Players : Queued(q)' =>
              \/ Queued(q) /\ invitation'[q] = invitation[q]
              \/ invitation'[q].time = 0
    PROVE  TimersOK'
<1>1. ASSUME NEW i \in 1..Len(timers)
      PROVE  timers[i].time # 0
  <2>1. timers[i] \in Timer
    BY DEF TimerTypesOK
  <2> QED BY <2>1 DEF Timer
<1> QED BY <1>1 DEF TimersOK

-----------------------------------------------------------------------------
(* The queue between two updates.                                          *)

LEMMA DequeuedKeeps ==
    ASSUME QueuesOK, NEW p \in Players, queue' = Dequeued(p),
           invitation' = [invitation EXCEPT ![p] = NotInvited]
    PROVE  /\ QueuesOK' /\ invitation'[p] = NotInvited
           /\ \A q \in Players : Queued(q)' <=> Queued(q) /\ q # p
           /\ \A q \in Players : q # p => invitation'[q] = invitation[q]
<1> DEFINE u == TeamOf(p)
<1>1. u \in Teams /\ queue[u] \in Seq(Players) /\ IsInjective(queue[u])
  BY TeamsAre DEF QueuesOK
<1>2. /\ RemoveFirst(queue[u], p) \in Seq(Players) /\ IsInjective(RemoveFirst(queue[u], p))
      /\ \A q : Contains(RemoveFirst(queue[u], p), q) <=> Contains(queue[u], q) /\ q # p
  BY <1>1, RemoveFirstOfInjective
<1>3. queue' = [queue EXCEPT ![u] = RemoveFirst(queue[u], p)]
  BY DEF Dequeued
<1> HIDE DEF u
<1>4. queue' \in [Teams -> Seq(Players)]
  BY <1>1, <1>2, <1>3 DEF QueuesOK
<1>5. /\ queue'[u] = RemoveFirst(queue[u], p)
      /\ \A t \in Teams : t # u => queue'[t] = queue[t]
  BY <1>1, <1>3 DEF QueuesOK
<1>6. \A t \in Teams : IsInjective(queue'[t])
  BY <1>2, <1>5 DEF QueuesOK
<1>7. \A t \in Teams, q \in Players : Contains(queue'[t], q) <=>
          Contains(queue[t], q) /\ ~ (t = u /\ q = p)
  BY <1>2, <1>5
<1>8. TeamsOK'
  BY <1>7 DEF TeamsOK, QueuesOK
<1>9. /\ invitation' \in [Players -> [bg : 0..MaxBattlegrounds, time : 0..MaxTimers]]
      /\ invitation'[p] = NotInvited
      /\ \A q \in Players : q # p => invitation'[q] = invitation[q]
  <2>1. NotInvited \in [bg : 0..MaxBattlegrounds, time : 0..MaxTimers]
    BY ConstantsAssumption DEF NotInvited
  <2> QED BY <2>1 DEF QueuesOK
<1>10. \A q \in Players : Queued(q)' <=> Queued(q) /\ q # p
  BY <1>7, TeamsAre DEF Queued, u
<1> QED BY <1>4, <1>6, <1>8, <1>9, <1>10 DEF QueuesOK

\* RemovePlayer, of a player who waits and does not come.
LEMMA RemovePlayerKeeps ==
    ASSUME IInv, NEW p \in Players, Queued(p), RemovePlayer(p, TRUE),
           slot' = [slot EXCEPT ![p] = NoSlot],
           UNCHANGED <<bgInstanceID, freeSlotQueue>>,
           place' = place \/ place' = [place EXCEPT ![p] = "offline"]
    PROVE  /\ QueuesOK' /\ PlayersOK' /\ SlotsOK' /\ RecordsOK' /\ PlayersMatch'
           /\ BattlegroundsOK' /\ InvitedCountExact'
           /\ \A q \in Players : Queued(q)' => Queued(q) /\ invitation'[q] = invitation[q]
<1>1. /\ QueuesOK /\ PlayersOK /\ SlotsOK /\ RecordsOK /\ PlayersMatch
      /\ BattlegroundsOK /\ InvitedCountExact /\ PlayerOK(p)
  BY Parts DEF PlayersMatch
<1>2. /\ QueuesOK' /\ invitation'[p] = NotInvited
      /\ \A q \in Players : Queued(q)' <=> Queued(q) /\ q # p
      /\ \A q \in Players : q # p => invitation'[q] = invitation[q]
  BY <1>1, DequeuedKeeps DEF RemovePlayer
<1>3. /\ PlayersOK' /\ slot'[p] = NoSlot /\ place'[p] \in {"world", "offline"}
      /\ \A q \in Players : q # p => slot'[q] = slot[q] /\ place'[q] = place[q]
  BY <1>1 DEF PlayersOK, PlayerOK
<1>4. SlotsOK'
  BY <1>1, Unchanged
<1> DEFINE c == invitation[p].bg
<1>5. /\ place[p] = "world" /\ bgInstanceID[p] = 0 /\ c \in 0..MaxBattlegrounds
      /\ c # 0 => c \in Ids /\ bgs[c].status # "none"
  BY <1>1 DEF PlayerOK, QueuesOK, Ids
<1>6. ASSUME NEW b \in Ids
      PROVE  p \notin bgs[b].players
  BY <1>1, <1>5 DEF PlayerOK
<1>7. bgs' = IF c # 0 THEN [bgs EXCEPT ![c].invited[TeamOf(p)] = @ - 1] ELSE bgs
  BY <1>5 DEF RemovePlayer, DecreaseInvitedCount
<1>8. /\ \A b \in Ids : /\ bgs'[b].players = bgs[b].players
                        /\ bgs'[b].status = bgs[b].status
      /\ \A b \in Ids \ {c} : bgs'[b] = bgs[b]
      /\ c # 0 => \A t \in Teams : bgs'[c].invited[t] =
            IF t = TeamOf(p) THEN bgs[c].invited[t] - 1 ELSE bgs[c].invited[t]
  BY <1>1, <1>5, <1>7, TeamsAre DEF RecordsOK, BattlegroundRecord
<1> HIDE DEF c
<1>9. \A q \in Players, b \in Ids :
        HoldsPlace(q, b)' <=> HoldsPlace(q, b) /\ ~ (b = c /\ q = p)
  <2> SUFFICES ASSUME NEW q \in Players, NEW b \in Ids
               PROVE  HoldsPlace(q, b)' <=> HoldsPlace(q, b) /\ ~ (b = c /\ q = p)
    OBVIOUS
  <2>1. CASE q = p
    <3>1. HoldsPlace(p, b) <=> b = c
      BY <1>5, <1>6 DEF HoldsPlace, c
    <3>2. ~ HoldsPlace(p, b)'
      BY <1>2, <1>3, <1>5, <1>6, <1>8 DEF HoldsPlace
    <3> QED BY <2>1, <3>1, <3>2
  <2>2. CASE q # p
    BY <1>2, <1>3, <1>8, <2>2 DEF HoldsPlace
  <2> QED BY <2>1, <2>2
<1>10. InvitedCountExact' /\ RecordsOK'
  <2>1. CASE c = 0
    <3>1. 0 \notin Ids /\ bgs' = bgs
      BY <1>7, <2>1 DEF Ids, c
    <3>2. \A q \in Players, b \in Ids : HoldsPlace(q, b)' <=> HoldsPlace(q, b)
      BY <1>9, <2>1, <3>1
    <3> QED BY <1>1, <3>1, <3>2, CountKept DEF RecordsOK
  <2>2. CASE c # 0
    <3>1. PICK d \in Ids : d = c
      BY <1>5, <2>2
    <3>2. \A t \in Teams : bgs'[d].invited[t] = bgs[d].invited[t] - Cardinality(Team({p}, t))
      <4>1. \A t \in Teams : bgs[d].invited[t] \in Int
        BY <1>1 DEF RecordsOK, BattlegroundRecord
      <4> QED BY <1>8, <2>2, <3>1, <4>1, TeamOfOne
    <3>3. /\ bgs[d].status # "none" /\ \A q \in {p} : HoldsPlace(q, d)
          /\ \A b \in Ids : bgs'[b].status # "none" => bgs[b].status # "none"
          /\ \A b \in Ids \ {d} : bgs'[b].invited = bgs[b].invited
      BY <1>5, <1>8, <2>2, <3>1 DEF HoldsPlace, c
    <3>4. \A q \in Players, b \in Ids :
            HoldsPlace(q, b)' <=> HoldsPlace(q, b) /\ ~ (b = d /\ q \in {p})
      BY <1>9, <3>1
    <3>5. /\ InvitedCountExact'
          /\ \A t \in Teams : bgs'[d].invited[t] \in 0..MaxPlayersPerTeam
      BY <1>1, <3>2, <3>3, <3>4, CountGivenBack
    <3>6. RecordsOK'
      <4>1. bgs' = [bgs EXCEPT ![d].invited[TeamOf(p)] = @ - 1]
        BY <1>7, <2>2, <3>1 DEF c
      <4>2. bgs[d] \in BattlegroundRecord /\ bgs \in [Ids -> BattlegroundRecord]
        BY <1>1 DEF RecordsOK
      <4> DEFINE r == [bgs[d] EXCEPT !.invited[TeamOf(p)] = @ - 1]
      <4>3. bgs' = [bgs EXCEPT ![d] = r]
        BY <4>1, <4>2
      <4>4. bgs'[d] = r
        BY <4>2, <4>3
      <4>5. r.invited \in [Teams -> 0..MaxPlayersPerTeam]
        <5>1. r.invited = [bgs[d].invited EXCEPT ![TeamOf(p)] = @ - 1]
          BY <4>2 DEF BattlegroundRecord
        <5>2. r.invited = [t \in Teams |-> r.invited[t]]
          BY <4>2, <5>1 DEF BattlegroundRecord
        <5> HIDE DEF r
        <5> QED BY <3>5, <4>4, <5>2
      <4>6. r \in BattlegroundRecord
        BY <4>2, <4>5 DEF BattlegroundRecord
      <4> HIDE DEF r
      <4> QED BY <4>2, <4>3, <4>6 DEF RecordsOK
    <3> QED BY <3>5, <3>6
  <2> QED BY <2>1, <2>2
<1>11. BattlegroundsOK'
  BY <1>1, <1>8 DEF BattlegroundsOK
<1>12. PlayersMatch'
  <2> SUFFICES ASSUME NEW q \in Players
               PROVE  PlayerOK(q)'
    BY DEF PlayersMatch
  <2>1. CASE q = p
    BY <1>2, <1>3, <1>5, <1>6, <1>8, <2>1 DEF PlayerOK, NoSlot
  <2>2. CASE q # p
    BY <1>1, <1>2, <1>3, <1>8, <2>2, PlayerKept DEF PlayersMatch
  <2> QED BY <2>1, <2>2
<1> QED BY <1>2, <1>3, <1>4, <1>10, <1>11, <1>12

LEMMA HandleBattlemasterJoinKeeps ==
    ASSUME IInv, NEW p \in Players, HandleBattlemasterJoin(p)
    PROVE  IInv'
<1> USE DEF HandleBattlemasterJoin
<1>1. /\ QueuesOK /\ PlayersOK /\ UpdateOK /\ TimerTypesOK /\ SlotsOK /\ RecordsOK /\ PlayersMatch
      /\ BattlegroundsOK /\ InvitedCountExact /\ TimersOK /\ PlayerOK(p)
  BY Parts DEF PlayersMatch
<1> DEFINE u == TeamOf(p)
<1>2. u \in Teams /\ queue[u] \in Seq(Players) /\ IsInjective(queue[u]) /\ ~ Contains(queue[u], p)
  BY <1>1, TeamsAre DEF QueuesOK, PlayerOK, Queued
<1>3. /\ Append(queue[u], p) \in Seq(Players) /\ IsInjective(Append(queue[u], p))
      /\ \A q : Contains(Append(queue[u], p), q) <=> Contains(queue[u], q) \/ q = p
  <2>1. /\ Append(queue[u], p) \in Seq(Players) /\ Len(Append(queue[u], p)) = Len(queue[u]) + 1
        /\ \A i \in 1..Len(queue[u]) : Append(queue[u], p)[i] = queue[u][i]
        /\ Append(queue[u], p)[Len(queue[u]) + 1] = p /\ Len(queue[u]) \in Nat
    BY <1>2, AppendProperties
  <2>2. \A i \in 1..(Len(queue[u]) + 1) : i \in 1..Len(queue[u]) \/ i = Len(queue[u]) + 1
    BY <2>1
  <2>3. \A i, j \in 1..Len(queue[u]) : queue[u][i] = queue[u][j] => i = j
    BY <1>2 DEF IsInjective
  <2>4. \A i \in 1..Len(queue[u]) : queue[u][i] # p
    BY <1>2 DEF Contains
  <2>5. IsInjective(Append(queue[u], p))
    BY <2>1, <2>2, <2>3, <2>4 DEF IsInjective
  <2>6. \A q : Contains(queue[u], q) => Contains(Append(queue[u], p), q)
    BY <2>1 DEF Contains
  <2>7. Contains(Append(queue[u], p), p)
    BY <2>1 DEF Contains
  <2>8. \A q : Contains(Append(queue[u], p), q) => Contains(queue[u], q) \/ q = p
    BY <2>1, <2>2 DEF Contains
  <2> QED BY <2>1, <2>5, <2>6, <2>7, <2>8
<1>4. queue' = [queue EXCEPT ![u] = Append(queue[u], p)]
  OBVIOUS
<1> HIDE DEF u
<1>5. /\ queue' \in [Teams -> Seq(Players)] /\ queue'[u] = Append(queue[u], p)
      /\ \A t \in Teams : t # u => queue'[t] = queue[t]
  BY <1>1, <1>2, <1>3, <1>4 DEF QueuesOK
<1>6. \A t \in Teams : IsInjective(queue'[t])
  BY <1>1, <1>3, <1>5 DEF QueuesOK
<1>7. \A t \in Teams, q \in Players : Contains(queue'[t], q) <=>
          Contains(queue[t], q) \/ (t = u /\ q = p)
  BY <1>3, <1>5
<1>8. TeamsOK'
  BY <1>1, <1>7 DEF TeamsOK, QueuesOK, u
<1>9. \A q \in Players : Queued(q)' <=> Queued(q) \/ q = p
  BY <1>7, TeamsAre DEF Queued, u
<1>10. /\ QueuesOK' /\ invitation'[p] = NotInvited
       /\ \A q \in Players : q # p => invitation'[q] = invitation[q]
  <2>1. NotInvited \in [bg : 0..MaxBattlegrounds, time : 0..MaxTimers]
    BY ConstantsAssumption DEF NotInvited
  <2> QED BY <1>1, <1>5, <1>6, <1>8, <2>1 DEF QueuesOK
<1>11. PlayersOK' /\ slot'[p] = 0 /\ \A q \in Players : q # p => slot'[q] = slot[q]
  BY <1>1, ConstantsAssumption DEF PlayersOK
<1>12. UpdateOK' /\ TimerTypesOK' /\ SlotsOK' /\ RecordsOK' /\ BattlegroundsOK'
  BY <1>1, Unchanged DEF UpdateOK
<1>13. ASSUME NEW b \in Ids
       PROVE  p \notin bgs[b].players /\ b # 0
  BY <1>1 DEF PlayerOK, Ids
<1>14. PlayersMatch'
  <2> SUFFICES ASSUME NEW q \in Players
               PROVE  PlayerOK(q)'
    BY DEF PlayersMatch
  <2>1. CASE q = p
    BY <1>9, <1>10, <1>11, <1>13, <2>1 DEF PlayerOK, NotInvited, NoSlot
  <2>2. CASE q # p
    BY <1>1, <1>9, <1>10, <1>11, <2>2, PlayerKept DEF PlayersMatch
  <2> QED BY <2>1, <2>2
<1>15. InvitedCountExact'
  <2>1. ~ Queued(p) /\ invitation'[p].bg = 0
    BY <1>1, <1>10 DEF PlayerOK, NotInvited
  <2>2. \A q \in Players, b \in Ids : HoldsPlace(q, b)' <=> HoldsPlace(q, b)
    BY <1>9, <1>10, <1>13, <2>1 DEF HoldsPlace
  <2> QED BY <1>1, <2>2, CountKept
<1>16. TimersOK'
  <2>1. \A q \in Players : Queued(q)' =>
          (Queued(q) /\ invitation'[q] = invitation[q]) \/ invitation'[q].time = 0
    BY <1>9, <1>10 DEF NotInvited
  <2> QED BY <1>1, <2>1, TimersKept
<1> QED BY <1>10, <1>11, <1>12, <1>14, <1>15, <1>16, PartsNext

LEMMA AcceptKeeps ==
    ASSUME IInv, NEW p \in Players, Accept(p)
    PROVE  IInv'
<1>1. /\ QueuesOK /\ PlayersOK /\ UpdateOK /\ TimerTypesOK /\ SlotsOK /\ RecordsOK /\ PlayersMatch
      /\ BattlegroundsOK /\ InvitedCountExact /\ TimersOK /\ PlayerOK(p)
  BY Parts DEF PlayersMatch
<1>2. /\ QueuesOK' /\ invitation'[p] = NotInvited
      /\ \A q \in Players : Queued(q)' <=> Queued(q) /\ q # p
      /\ \A q \in Players : q # p => invitation'[q] = invitation[q]
  BY <1>1, DequeuedKeeps DEF Accept, RemovePlayer
<1> DEFINE c == invitation[p].bg
<1>3. /\ place[p] = "world" /\ Queued(p) /\ c # 0 /\ bgs[c].status # "none"
      /\ bgInstanceID' = [bgInstanceID EXCEPT ![p] = c]
      /\ place' = [place EXCEPT ![p] = "travelling"]
      /\ UNCHANGED <<timers, slot, freeSlotQueue, scheduled, updateVars, bgs>>
  BY DEF Accept, RemovePlayer, DecreaseInvitedCount
<1>4. c \in 0..MaxBattlegrounds /\ c \in Ids /\ slot[p] = c
  BY <1>1, <1>3 DEF QueuesOK, Ids, PlayerOK
<1> HIDE DEF c
<1>5. /\ PlayersOK' /\ place'[p] = "travelling" /\ bgInstanceID'[p] = c
      /\ \A q \in Players : q # p =>
           place'[q] = place[q] /\ bgInstanceID'[q] = bgInstanceID[q]
  BY <1>1, <1>3, <1>4 DEF PlayersOK
<1>6. UpdateOK' /\ TimerTypesOK' /\ SlotsOK' /\ RecordsOK' /\ BattlegroundsOK'
  BY <1>1, <1>3, Unchanged
<1>7. ASSUME NEW b \in Ids
      PROVE  p \notin bgs[b].players
  BY <1>1, <1>3 DEF PlayerOK
<1>8. PlayersMatch'
  <2> SUFFICES ASSUME NEW q \in Players
               PROVE  PlayerOK(q)'
    BY DEF PlayersMatch
  <2>1. CASE q = p
    <3>1. slot'[p] = c /\ c # NoSlot
      BY <1>3, <1>4 DEF Ids, NoSlot
    <3> QED BY <1>2, <1>3, <1>4, <1>5, <1>7, <2>1, <3>1 DEF PlayerOK
  <2>2. CASE q # p
    BY <1>1, <1>2, <1>3, <1>5, <2>2, PlayerKept DEF PlayersMatch
  <2> QED BY <2>1, <2>2
<1>9. InvitedCountExact'
  <2>1. ASSUME NEW q \in Players, NEW b \in Ids
        PROVE  HoldsPlace(q, b)' <=> HoldsPlace(q, b)
    <3>1. CASE q = p
      <4>1. HoldsPlace(p, b) <=> b = c
        BY <1>3, <1>7 DEF HoldsPlace, c
      <4>2. HoldsPlace(p, b)' <=> b = c
        BY <1>2, <1>3, <1>5, <1>7 DEF HoldsPlace
      <4> QED BY <3>1, <4>1, <4>2
    <3>2. CASE q # p
      BY <1>2, <1>3, <1>5, <3>2 DEF HoldsPlace
    <3> QED BY <3>1, <3>2
  <2> QED BY <1>1, <1>3, <2>1, CountKept
<1>10. TimersOK'
  BY <1>1, <1>2, <1>3, TimersKept
<1> QED BY <1>2, <1>5, <1>6, <1>8, <1>9, <1>10, PartsNext

LEMMA DeclineKeeps ==
    ASSUME IInv, NEW p \in Players, Decline(p)
    PROVE  IInv'
<1>1. UpdateOK /\ TimerTypesOK /\ TimersOK
  BY Parts
<1>2. /\ QueuesOK' /\ PlayersOK' /\ SlotsOK' /\ RecordsOK' /\ PlayersMatch'
      /\ BattlegroundsOK' /\ InvitedCountExact'
      /\ \A q \in Players : Queued(q)' => Queued(q) /\ invitation'[q] = invitation[q]
  BY RemovePlayerKeeps DEF Decline
<1>3. UpdateOK' /\ TimerTypesOK' /\ TimersOK'
  BY <1>1, <1>2, TimersKept DEF Decline, UpdateOK, TimerTypesOK
<1> QED BY <1>2, <1>3, PartsNext

-----------------------------------------------------------------------------
(* In the battleground, between two updates.                               *)

\* Player p, who has a place in battleground c, is inside it now.
LEMMA EnterKeeps ==
    ASSUME IInv, NEW p \in Players, NEW c \in Ids, bgs[c].status # "none", HoldsPlace(p, c),
           NEW o \in Seq(Players),
           bgs' = [bgs EXCEPT ![c].players = @ \cup {p}, ![c].offline = o]
    PROVE  /\ RecordsOK'
           /\ \A b \in Ids : bgs'[b].status = bgs[b].status /\ bgs'[b].invited = bgs[b].invited
           /\ \A b \in Ids : bgs'[b].players =
                 IF b = c THEN bgs[b].players \cup {p} ELSE bgs[b].players
<1>1. RecordsOK
  BY Parts
<1>2. bgs[c] \in BattlegroundRecord
  BY <1>1 DEF RecordsOK
<1> DEFINE r == [bgs[c] EXCEPT !.players = @ \cup {p}, !.offline = o]
<1>3. bgs' = [bgs EXCEPT ![c] = r]
  BY <1>1 DEF RecordsOK
<1>4. /\ r.status = bgs[c].status /\ r.invited = bgs[c].invited
      /\ r.players = bgs[c].players \cup {p} /\ r.offline = o
      /\ r \in BattlegroundRecord
  BY <1>2 DEF BattlegroundRecord
<1> HIDE DEF r
<1>5. RecordsOK'
  BY <1>1, <1>3, <1>4 DEF RecordsOK
<1>6. \A b \in Ids : bgs'[b] = IF b = c THEN r ELSE bgs[b]
  BY <1>1, <1>3 DEF RecordsOK
<1>7. ASSUME NEW b \in Ids
      PROVE  /\ bgs'[b].status = bgs[b].status /\ bgs'[b].invited = bgs[b].invited
             /\ bgs'[b].players = IF b = c THEN bgs[b].players \cup {p} ELSE bgs[b].players
  <2>1. CASE b = c
    BY <1>4, <1>6, <2>1
  <2>2. CASE b # c
    <3>1. bgs'[b] = bgs[b]
      BY <1>6, <2>2
    <3> QED BY <2>2, <3>1
  <2> QED BY <2>1, <2>2
<1> QED BY <1>5, <1>7

LEMMA ArriveKeeps ==
    ASSUME IInv, NEW p \in Players, Arrive(p)
    PROVE  IInv'
<1>1. /\ QueuesOK /\ PlayersOK /\ UpdateOK /\ TimerTypesOK /\ SlotsOK /\ RecordsOK /\ PlayersMatch
      /\ BattlegroundsOK /\ InvitedCountExact /\ TimersOK /\ PlayerOK(p)
  BY Parts DEF PlayersMatch
<1> DEFINE c == bgInstanceID[p]
<1>2. /\ place[p] = "travelling" /\ slot[p] = c /\ c \in Ids /\ bgs[c].status # "none"
      /\ ~ Queued(p)
  BY <1>1 DEF Arrive, PlayerOK
<1>3. /\ bgs' = [bgs EXCEPT ![c].players = @ \cup {p}]
      /\ place' = [place EXCEPT ![p] = "inside"]
      /\ UNCHANGED <<queueVars, slot, bgInstanceID, freeSlotQueue, scheduled, updateVars>>
  BY <1>2 DEF Arrive, Entered
<1>4. HoldsPlace(p, c)
  BY <1>2 DEF HoldsPlace
<1> HIDE DEF c
<1>5. bgs' = [bgs EXCEPT ![c].players = @ \cup {p}, ![c].offline = bgs[c].offline]
      /\ bgs[c].offline \in Seq(Players)
  BY <1>1, <1>2, <1>3 DEF RecordsOK, BattlegroundRecord
<1>6. /\ RecordsOK'
      /\ \A b \in Ids : bgs'[b].status = bgs[b].status /\ bgs'[b].invited = bgs[b].invited
      /\ \A b \in Ids : bgs'[b].players =
            IF b = c THEN bgs[b].players \cup {p} ELSE bgs[b].players
  BY <1>2, <1>4, <1>5, EnterKeeps
<1>7. QueuesOK' /\ (\A q \in Players : Queued(q)' <=> Queued(q))
  BY <1>1, <1>3, Unchanged
<1>8. UpdateOK' /\ TimerTypesOK' /\ SlotsOK'
  BY <1>1, <1>3, Unchanged
<1>9. PlayersOK' /\ place'[p] = "inside" /\ \A q \in Players : q # p => place'[q] = place[q]
  BY <1>1, <1>3 DEF PlayersOK
<1>10. /\ BattlegroundsOK' /\ \A b \in Ids : p \notin bgs[b].players
       /\ \A b \in Ids : p \in bgs'[b].players <=> b = c
  <2>1. BattlegroundsOK'
    BY <1>1, <1>2, <1>3, <1>6 DEF BattlegroundsOK
  <2>2. \A b \in Ids : p \notin bgs[b].players
    BY <1>1, <1>2 DEF PlayerOK
  <2>3. \A b \in Ids : p \in bgs'[b].players <=> b = c
    BY <1>2, <1>6, <2>2
  <2> QED BY <2>1, <2>2, <2>3
<1>11. PlayersMatch'
  <2> SUFFICES ASSUME NEW q \in Players
               PROVE  PlayerOK(q)'
    BY DEF PlayersMatch
  <2>1. CASE q = p
    <3>1. /\ bgInstanceID'[p] = c /\ slot'[p] = c /\ c # NoSlot
          /\ bgs'[c].status # "none" /\ ~ Queued(p)'
      BY <1>2, <1>3, <1>6, <1>7 DEF c, Ids, NoSlot
    <3> QED BY <1>2, <1>9, <1>10, <2>1, <3>1 DEF PlayerOK
  <2>2. CASE q # p
    BY <1>1, <1>3, <1>6, <1>7, <1>9, <2>2, PlayerKept DEF PlayersMatch
  <2> QED BY <2>1, <2>2
<1>12. InvitedCountExact'
  <2>1. ASSUME NEW q \in Players, NEW b \in Ids
        PROVE  HoldsPlace(q, b)' <=> HoldsPlace(q, b)
    <3>1. CASE q = p
      <4>1. HoldsPlace(p, b) <=> b = c
        BY <1>2, <1>10 DEF HoldsPlace, c
      <4>2. HoldsPlace(p, b)' <=> b = c
        BY <1>2, <1>7, <1>9, <1>10 DEF HoldsPlace
      <4> QED BY <3>1, <4>1, <4>2
    <3>2. CASE q # p
      BY <1>3, <1>6, <1>7, <1>9, <3>2 DEF HoldsPlace
    <3> QED BY <3>1, <3>2
  <2> QED BY <1>1, <1>6, <2>1, CountKept
<1>13. TimersOK'
  BY <1>1, <1>3, <1>7, TimersKept
<1> QED BY <1>6, <1>7, <1>8, <1>9, <1>10, <1>11, <1>12, <1>13, PartsNext

LEMMA LogoutPlayerKeeps ==
    ASSUME IInv, NEW p \in Players, LogoutPlayer(p)
    PROVE  IInv'
<1>1. /\ QueuesOK /\ PlayersOK /\ UpdateOK /\ TimerTypesOK /\ SlotsOK /\ RecordsOK /\ PlayersMatch
      /\ BattlegroundsOK /\ InvitedCountExact /\ TimersOK /\ PlayerOK(p)
  BY Parts DEF PlayersMatch
<1> DEFINE c == bgInstanceID[p]
<1>2. /\ place[p] # "offline" /\ slot' = [slot EXCEPT ![p] = NoSlot]
      /\ place' = [place EXCEPT ![p] = "offline"]
      /\ UNCHANGED <<timers, bgInstanceID, freeSlotQueue, scheduled, updateVars>>
  BY DEF LogoutPlayer
<1>3. UpdateOK' /\ TimerTypesOK' /\ SlotsOK'
  BY <1>1, <1>2, Unchanged
<1>4. PlayersOK' /\ place'[p] = "offline" /\ slot'[p] = NoSlot
      /\ \A q \in Players : q # p => place'[q] = place[q] /\ slot'[q] = slot[q]
  BY <1>1, <1>2 DEF PlayersOK
<1>5. CASE place[p] \in {"travelling", "inside"}
  <2>1. /\ slot[p] = c /\ c \in Ids /\ c # 0 /\ bgs[c].status # "none" /\ ~ Queued(p)
        /\ place[p] = "inside" => p \in bgs[c].players
    BY <1>1, <1>5 DEF PlayerOK, Ids
  <2>2. /\ bgs' = [bgs EXCEPT ![c] = LoggedOut(
                      IF place[p] = "travelling" THEN Entered(p)[c] ELSE bgs[c], p)]
        /\ UNCHANGED <<queue, invitation>>
    BY <2>1 DEF LogoutPlayer
  <2>3. bgs[c] \in BattlegroundRecord /\ bgs \in [Ids -> BattlegroundRecord]
    BY <1>1, <2>1 DEF RecordsOK
  <2> DEFINE r == IF place[p] = "travelling" THEN Entered(p)[c] ELSE bgs[c]
             o == Append(bgs[c].offline, p)
  <2>4. r = [bgs[c] EXCEPT !.players = @ \cup {p}]
    <3>1. CASE place[p] = "travelling"
      BY <2>1, <2>3, <3>1 DEF Entered
    <3>2. CASE place[p] = "inside"
      <4>1. bgs[c].players \cup {p} = bgs[c].players /\ r = bgs[c]
        BY <2>1, <3>2
      <4> QED BY <2>3, <4>1 DEF BattlegroundRecord
    <3> QED BY <1>5, <3>1, <3>2
  <2>5. LoggedOut(r, p) = [bgs[c] EXCEPT !.players = @ \cup {p}, !.offline = o]
    <3>1. p \in r.players /\ r.offline = bgs[c].offline
      BY <2>3, <2>4 DEF BattlegroundRecord
    <3> HIDE DEF r
    <3>2. LoggedOut(r, p) = [r EXCEPT !.offline = o]
      BY <3>1 DEF LoggedOut
    <3> QED BY <2>3, <2>4, <3>2 DEF BattlegroundRecord
  <2>6. bgs' = [bgs EXCEPT ![c].players = @ \cup {p}, ![c].offline = o]
    BY <2>2, <2>3, <2>5
  <2>7. o \in Seq(Players) /\ HoldsPlace(p, c)
    BY <1>5, <2>1, <2>3 DEF BattlegroundRecord, HoldsPlace
  <2> HIDE DEF r, o, c
  <2>8. /\ RecordsOK'
        /\ \A b \in Ids : bgs'[b].status = bgs[b].status /\ bgs'[b].invited = bgs[b].invited
        /\ \A b \in Ids : bgs'[b].players =
              IF b = c THEN bgs[b].players \cup {p} ELSE bgs[b].players
    BY <2>1, <2>6, <2>7, EnterKeeps
  <2>9. QueuesOK' /\ (\A q \in Players : Queued(q)' <=> Queued(q))
    BY <1>1, <2>2, Unchanged
  <2>10. BattlegroundsOK'
    BY <1>1, <1>2, <2>1, <2>8 DEF BattlegroundsOK
  <2>11. PlayersMatch'
    <3> SUFFICES ASSUME NEW q \in Players
                 PROVE  PlayerOK(q)'
      BY DEF PlayersMatch
    <3>1. CASE q = p
      BY <1>1, <1>2, <1>4, <2>1, <2>8, <2>9, <3>1 DEF PlayerOK, c
    <3>2. CASE q # p
      <4>1. /\ Queued(q)' <=> Queued(q)
            /\ invitation'[q] = invitation[q] /\ slot'[q] = slot[q]
            /\ place'[q] = place[q] /\ bgInstanceID'[q] = bgInstanceID[q]
        BY <1>2, <1>4, <2>2, <2>9, <3>2
      <4>2. /\ \A b \in Ids : q \in bgs'[b].players <=> q \in bgs[b].players
            /\ \A b \in Ids : bgs[b].status # "none" => bgs'[b].status # "none"
        BY <2>8, <3>2
      <4> QED BY <1>1, <4>1, <4>2, PlayerKept DEF PlayersMatch
    <3> QED BY <3>1, <3>2
  <2>12. InvitedCountExact'
    <3>1. ASSUME NEW q \in Players, NEW b \in Ids
          PROVE  HoldsPlace(q, b)' <=> HoldsPlace(q, b)
      <4>1. CASE q = p
        <5>1. HoldsPlace(p, b) <=> b = c
          BY <1>1, <1>5, <2>1 DEF HoldsPlace, PlayerOK, c
        <5>2. HoldsPlace(p, b)' <=> b = c
          BY <1>1, <1>4, <2>1, <2>8, <2>9 DEF HoldsPlace, PlayerOK, c
        <5> QED BY <4>1, <5>1, <5>2
      <4>2. CASE q # p
        <5>1. /\ Queued(q)' <=> Queued(q)
              /\ invitation'[q] = invitation[q]
              /\ place'[q] = place[q] /\ bgInstanceID'[q] = bgInstanceID[q]
          BY <1>2, <1>4, <2>2, <2>9, <4>2
        <5>2. q \in bgs'[b].players <=> q \in bgs[b].players
          BY <2>8, <4>2
        <5> QED BY <5>1, <5>2 DEF HoldsPlace
      <4> QED BY <4>1, <4>2
    <3> QED BY <1>1, <2>8, <3>1, CountKept
  <2>13. TimersOK'
    BY <1>1, <1>2, <2>2, <2>9, TimersKept
  <2> QED BY <1>3, <1>4, <2>8, <2>9, <2>10, <2>11, <2>12, <2>13, PartsNext
<1>6. CASE place[p] = "world" /\ Queued(p)
  <2>1. RemovePlayer(p, TRUE)
    BY <1>1, <1>6 DEF LogoutPlayer, PlayerOK
  <2>2. /\ QueuesOK' /\ PlayersOK' /\ SlotsOK' /\ RecordsOK' /\ PlayersMatch'
        /\ BattlegroundsOK' /\ InvitedCountExact'
        /\ \A q \in Players : Queued(q)' => Queued(q) /\ invitation'[q] = invitation[q]
    BY <1>2, <1>6, <2>1, RemovePlayerKeeps
  <2>3. TimersOK'
    BY <1>1, <1>2, <2>2, TimersKept
  <2> QED BY <1>3, <2>2, <2>3, PartsNext
<1>7. CASE place[p] = "world" /\ ~ Queued(p)
  <2>1. UNCHANGED <<bgs, queue, invitation>> /\ bgInstanceID[p] = 0
    BY <1>1, <1>7 DEF LogoutPlayer, PlayerOK
  <2>2. QueuesOK' /\ (\A q \in Players : Queued(q)' <=> Queued(q))
    BY <1>1, <2>1, Unchanged
  <2>3. RecordsOK' /\ BattlegroundsOK'
    BY <1>1, <1>2, <2>1, Unchanged
  <2>4. PlayersMatch'
    <3> SUFFICES ASSUME NEW q \in Players
                 PROVE  PlayerOK(q)'
      BY DEF PlayersMatch
    <3>1. CASE q = p
      BY <1>1, <1>2, <1>4, <1>7, <2>1, <2>2, <3>1 DEF PlayerOK
    <3>2. CASE q # p
      BY <1>1, <1>2, <1>4, <2>1, <2>2, <3>2, PlayerKept DEF PlayersMatch
    <3> QED BY <3>1, <3>2
  <2>5. InvitedCountExact'
    <3>1. ASSUME NEW q \in Players, NEW b \in Ids
          PROVE  HoldsPlace(q, b)' <=> HoldsPlace(q, b)
      BY <1>2, <1>4, <1>7, <2>1, <2>2 DEF HoldsPlace
    <3> QED BY <1>1, <2>1, <3>1, CountKept
  <2>6. TimersOK'
    BY <1>1, <1>2, <2>1, <2>2, TimersKept
  <2> QED BY <1>3, <1>4, <2>2, <2>3, <2>4, <2>5, <2>6, PartsNext
<1>8. place[p] \in {"world", "travelling", "inside"}
  BY <1>1, <1>2 DEF PlayersOK
<1> QED BY <1>5, <1>6, <1>7, <1>8

\* Player p leaves battleground c, or loses his place in it.
LEMMA WithoutKeeps ==
    ASSUME IInv, NEW p \in Players, NEW c \in Ids, p \in bgs[c].players,
           NEW o \in Seq(Players),
           bgs' = [bgs EXCEPT ![c] = [Without(bgs[c], p) EXCEPT !.offline = o]],
           UNCHANGED <<queue, invitation>>,
           \A q \in Players \ {p} : /\ slot'[q] = slot[q] /\ place'[q] = place[q]
                                    /\ bgInstanceID'[q] = bgInstanceID[q],
           slot'[p] = NoSlot,
           \/ place'[p] = "offline"
           \/ place'[p] = "world" /\ bgInstanceID'[p] = 0
    PROVE  /\ QueuesOK' /\ RecordsOK' /\ InvitedCountExact' /\ PlayersMatch'
           /\ \A q \in Players : Queued(q)' <=> Queued(q)
           /\ bgs[c].status # "none"
           /\ \A b \in Ids : /\ bgs'[b].status = bgs[b].status
                             /\ bgs'[b].players \subseteq bgs[b].players
<1>1. /\ QueuesOK /\ PlayersOK /\ RecordsOK /\ PlayersMatch
      /\ BattlegroundsOK /\ InvitedCountExact /\ PlayerOK(p)
  BY Parts DEF PlayersMatch
<1>2. /\ bgInstanceID[p] = c /\ place[p] \in {"inside", "offline"} /\ ~ Queued(p)
      /\ bgs[c].status # "none"
  BY <1>1 DEF PlayerOK, BattlegroundsOK
<1>3. bgs[c] \in BattlegroundRecord /\ bgs \in [Ids -> BattlegroundRecord]
  BY <1>1 DEF RecordsOK
<1> DEFINE r == [Without(bgs[c], p) EXCEPT !.offline = o]
           n == [bgs[c].invited EXCEPT ![TeamOf(p)] = @ - 1]
<1>4. r = [bgs[c] EXCEPT !.players = @ \ {p}, !.invited = n, !.offline = o]
  BY <1>3 DEF Without, BattlegroundRecord
<1>5. /\ r.status = bgs[c].status /\ r.players = bgs[c].players \ {p}
      /\ r.offline = o /\ r.invited = n
  <2> HIDE DEF n, r
  <2> QED BY <1>3, <1>4 DEF BattlegroundRecord
<1>6. \A b \in Ids : bgs'[b] = IF b = c THEN r ELSE bgs[b]
  BY <1>3
<1> HIDE DEF r
<1>7. \A t \in Teams : n[t] = bgs[c].invited[t] - Cardinality(Team({p}, t))
  <2>1. \A t \in Teams : bgs[c].invited[t] \in Int
    BY <1>3 DEF BattlegroundRecord
  <2>2. \A t \in Teams : n[t] = IF t = TeamOf(p) THEN bgs[c].invited[t] - 1 ELSE bgs[c].invited[t]
    BY <1>3 DEF BattlegroundRecord
  <2> QED BY <2>1, <2>2, TeamOfOne
<1>8. n = [t \in Teams |-> n[t]]
  BY <1>3 DEF BattlegroundRecord
<1> HIDE DEF n
<1>9. ASSUME NEW b \in Ids
      PROVE  /\ bgs'[b].status = bgs[b].status /\ bgs'[b].players \subseteq bgs[b].players
             /\ b # c => bgs'[b] = bgs[b]
             /\ \A q \in Players : q \in bgs'[b].players <=>
                   q \in bgs[b].players /\ ~ (b = c /\ q = p)
  <2>1. CASE b = c
    BY <1>5, <1>6, <2>1
  <2>2. CASE b # c
    <3>1. bgs'[b] = bgs[b]
      BY <1>6, <2>2
    <3> QED BY <2>2, <3>1
  <2> QED BY <2>1, <2>2
<1>10. QueuesOK' /\ \A q \in Players : Queued(q)' <=> Queued(q)
  BY <1>1, Unchanged
<1>11. \A b \in Ids : p \in bgs[b].players <=> b = c
  BY <1>1, <1>2 DEF PlayerOK
<1>12. \A q \in Players, b \in Ids :
         HoldsPlace(q, b)' <=> HoldsPlace(q, b) /\ ~ (b = c /\ q \in {p})
  <2> SUFFICES ASSUME NEW q \in Players, NEW b \in Ids
               PROVE  HoldsPlace(q, b)' <=> HoldsPlace(q, b) /\ ~ (b = c /\ q = p)
    OBVIOUS
  <2>1. CASE q = p
    <3>1. HoldsPlace(p, b) <=> b = c
      BY <1>2, <1>11 DEF HoldsPlace
    <3>2. ~ HoldsPlace(p, b)'
      BY <1>2, <1>9, <1>10, <1>11 DEF HoldsPlace
    <3> QED BY <2>1, <3>1, <3>2
  <2>2. CASE q # p
    <3>1. /\ Queued(q)' <=> Queued(q)
          /\ invitation'[q] = invitation[q]
          /\ place'[q] = place[q] /\ bgInstanceID'[q] = bgInstanceID[q]
      BY <1>10, <2>2
    <3>2. q \in bgs'[b].players <=> q \in bgs[b].players
      BY <1>9, <2>2
    <3> QED BY <2>2, <3>1, <3>2 DEF HoldsPlace
  <2> QED BY <2>1, <2>2
<1>13. /\ InvitedCountExact'
       /\ \A t \in Teams : bgs'[c].invited[t] \in 0..MaxPlayersPerTeam
  <2>1. bgs'[c].invited = n
    BY <1>5, <1>6
  <2>2. \A q \in {p} : HoldsPlace(q, c)
    BY <1>11 DEF HoldsPlace
  <2>3. \A b \in Ids : bgs'[b].status # "none" => bgs[b].status # "none"
    BY <1>9
  <2>4. \A b \in Ids \ {c} : bgs'[b].invited = bgs[b].invited
    BY <1>9
  <2>5. \A t \in Teams : bgs'[c].invited[t] = bgs[c].invited[t] - Cardinality(Team({p}, t))
    BY <1>7, <2>1
  <2>6. RecordsOK /\ InvitedCountExact /\ bgs[c].status # "none" /\ {p} \in SUBSET Players
    BY <1>1, <1>2
  <2> QED BY ONLY <1>12, <2>2, <2>3, <2>4, <2>5, <2>6, c \in Ids, CountGivenBack
<1>14. RecordsOK'
  <2>1. n \in [Teams -> 0..MaxPlayersPerTeam]
    BY <1>5, <1>6, <1>8, <1>13
  <2>2. r \in BattlegroundRecord
    BY <1>3, <1>4, <2>1 DEF BattlegroundRecord
  <2>3. bgs' = [bgs EXCEPT ![c] = r]
    BY DEF r
  <2> QED BY <1>3, <2>2, <2>3 DEF RecordsOK
<1>15. PlayersMatch'
  <2> SUFFICES ASSUME NEW q \in Players
               PROVE  PlayerOK(q)'
    BY DEF PlayersMatch
  <2>1. CASE q = p
    BY <1>2, <1>9, <1>10, <1>11, <2>1 DEF PlayerOK
  <2>2. CASE q # p
    BY <1>1, <1>9, <1>10, <2>2, PlayerKept DEF PlayersMatch
  <2> QED BY <2>1, <2>2
<1> QED BY <1>2, <1>9, <1>10, <1>13, <1>14, <1>15

\* A battleground that is not in the queue of free slots is put first.
LEMMA OfferedFirst ==
    ASSUME SlotsOK, NEW c \in Ids, ~ Contains(freeSlotQueue, c),
           freeSlotQueue' = <<c>> \o freeSlotQueue
    PROVE  /\ SlotsOK'
           /\ \A b \in Ids : Contains(freeSlotQueue', b) => Contains(freeSlotQueue, b) \/ b = c
<1> DEFINE q == freeSlotQueue
           q1 == <<c>> \o q
<1>1. q \in Seq(Ids) /\ Len(q) \in Nat /\ <<c>> \in Seq(Ids) /\ Len(<<c>>) = 1 /\ <<c>>[1] = c
  BY DEF SlotsOK
<1> HIDE DEF q
<1>2. /\ q1 \in Seq(Ids) /\ Len(q1) = Len(q) + 1 /\ q1[1] = c
      /\ \A i \in 1..(Len(q) + 1) : i # 1 => q1[i] = q[i - 1]
  BY <1>1, ConcatProperties
<1> HIDE DEF q1
<1>3. \A i \in 1..Len(q1) : i = 1 \/ (i - 1 \in 1..Len(q) /\ q1[i] = q[i - 1])
  BY <1>1, <1>2
<1>4. /\ \A i, j \in 1..Len(q) : q[i] = q[j] => i = j
      /\ \A i \in 1..Len(q) : q[i] # c
  BY DEF SlotsOK, IsInjective, Contains, q
<1>5. IsInjective(q1)
  <2> SUFFICES ASSUME NEW i \in 1..Len(q1), NEW j \in 1..Len(q1), q1[i] = q1[j]
               PROVE  i = j
    BY <1>2 DEF IsInjective
  <2>1. i \in Int /\ j \in Int
    OBVIOUS
  <2>2. CASE i = 1
    BY <1>2, <1>3, <1>4, <2>2
  <2>3. CASE j = 1
    BY <1>2, <1>3, <1>4, <2>3
  <2>4. CASE i # 1 /\ j # 1
    <3>1. i - 1 = j - 1
      BY <1>3, <1>4, <2>4
    <3> QED BY <2>1, <3>1
  <2> QED BY <2>2, <2>3, <2>4
<1>6. \A b \in Ids : Contains(q1, b) => Contains(q, b) \/ b = c
  BY <1>2, <1>3 DEF Contains
<1>7. freeSlotQueue' = q1
  BY DEF q1, q
<1> QED BY <1>2, <1>5, <1>6, <1>7 DEF SlotsOK, q

LEMMA OfferSlotKeeps ==
    ASSUME RecordsOK, SlotsOK, BattlegroundsOK, UpdateOK, NEW c \in Ids, bgs[c].status # "none",
           OfferSlot(c),
           \A b \in Ids : /\ bgs'[b].status = bgs[b].status
                          /\ bgs'[b].players \subseteq bgs[b].players
    PROVE  SlotsOK' /\ BattlegroundsOK' /\ scheduled' \in BOOLEAN
<1>1. CASE freeSlotQueue' = freeSlotQueue /\ scheduled' \in BOOLEAN
  BY <1>1 DEF SlotsOK, BattlegroundsOK
<1>2. CASE /\ bgs[c].status \in {"join", "progress"} /\ ~ Contains(freeSlotQueue, c)
           /\ freeSlotQueue' = <<c>> \o freeSlotQueue /\ scheduled' = TRUE
  <2>1. /\ SlotsOK'
        /\ \A b \in Ids : Contains(freeSlotQueue', b) => Contains(freeSlotQueue, b) \/ b = c
    BY <1>2, OfferedFirst
  <2> QED BY <1>2, <2>1 DEF BattlegroundsOK
<1>3. bgs[c].status \in {"leave", "join", "progress"}
  BY DEF RecordsOK, BattlegroundRecord
<1> QED BY <1>1, <1>2, <1>3 DEF OfferSlot, WithFreeSlot, UpdateOK

\* RemovePlayerAtLeave does not touch the offline queue.
LEMMA WithoutOffline ==
    ASSUME NEW r \in BattlegroundRecord, NEW p \in Players
    PROVE  [Without(r, p) EXCEPT !.offline = r.offline] = Without(r, p)
  BY DEF BattlegroundRecord, Without

LEMMA LeaveKeeps ==
    ASSUME IInv, NEW p \in Players, Leave(p)
    PROVE  IInv'
<1>1. /\ QueuesOK /\ PlayersOK /\ UpdateOK /\ TimerTypesOK /\ SlotsOK /\ RecordsOK /\ PlayersMatch
      /\ BattlegroundsOK /\ InvitedCountExact /\ TimersOK /\ PlayerOK(p)
  BY Parts DEF PlayersMatch
<1> DEFINE c == bgInstanceID[p]
<1>2. c \in Ids /\ p \in bgs[c].players
  BY <1>1 DEF Leave, PlayerOK
<1>3. /\ bgs' = [bgs EXCEPT ![c] = Without(bgs[c], p)]
      /\ slot' = [slot EXCEPT ![p] = NoSlot]
      /\ OfferSlot(c)
      /\ bgInstanceID' = [bgInstanceID EXCEPT ![p] = 0]
      /\ place' = [place EXCEPT ![p] = "world"]
      /\ UNCHANGED <<queueVars, updateVars>>
  BY <1>2 DEF Leave
<1> HIDE DEF c
<1>4. /\ bgs[c].offline \in Seq(Players)
      /\ bgs' = [bgs EXCEPT ![c] = [Without(bgs[c], p) EXCEPT !.offline = bgs[c].offline]]
  <2>1. bgs[c] \in BattlegroundRecord
    BY <1>1, <1>2 DEF RecordsOK
  <2>2. [Without(bgs[c], p) EXCEPT !.offline = bgs[c].offline] = Without(bgs[c], p)
    BY <2>1, WithoutOffline
  <2> QED BY <1>3, <2>1, <2>2 DEF BattlegroundRecord
<1>5. /\ PlayersOK' /\ slot'[p] = NoSlot /\ place'[p] = "world" /\ bgInstanceID'[p] = 0
      /\ \A q \in Players \ {p} : /\ slot'[q] = slot[q] /\ place'[q] = place[q]
                                  /\ bgInstanceID'[q] = bgInstanceID[q]
  BY <1>1, <1>3, ConstantsAssumption DEF PlayersOK
<1>6. PICK d \in Ids : d = c
  BY <1>2
<1>7. /\ QueuesOK' /\ RecordsOK' /\ InvitedCountExact' /\ PlayersMatch'
      /\ \A q \in Players : Queued(q)' <=> Queued(q)
      /\ bgs[d].status # "none"
      /\ \A b \in Ids : /\ bgs'[b].status = bgs[b].status
                        /\ bgs'[b].players \subseteq bgs[b].players
  BY <1>2, <1>3, <1>4, <1>5, <1>6, WithoutKeeps
<1>8. SlotsOK' /\ BattlegroundsOK' /\ scheduled' \in BOOLEAN
  BY <1>1, <1>3, <1>6, <1>7, OfferSlotKeeps
<1>9. TimerTypesOK' /\ UpdateOK'
  BY <1>1, <1>3, <1>8 DEF TimerTypesOK, UpdateOK
<1>10. TimersOK'
  BY <1>1, <1>3, <1>7, TimersKept
<1> QED BY <1>5, <1>7, <1>8, <1>9, <1>10, PartsNext


LEMMA LoginKeeps ==
    ASSUME IInv, NEW p \in Players, Login(p)
    PROVE  IInv'
<1>1. /\ QueuesOK /\ PlayersOK /\ UpdateOK /\ TimerTypesOK /\ SlotsOK /\ RecordsOK /\ PlayersMatch
      /\ BattlegroundsOK /\ InvitedCountExact /\ TimersOK /\ PlayerOK(p)
  BY Parts DEF PlayersMatch
<1> DEFINE c == bgInstanceID[p]
<1>2. /\ place[p] = "offline" /\ slot[p] = NoSlot /\ ~ Queued(p)
      /\ \A b \in Ids : p \in bgs[b].players => b = c
      /\ c \in 0..MaxBattlegrounds /\ (c # 0 => c \in Ids)
  BY <1>1 DEF Login, PlayerOK, PlayersOK, Ids
<1>3. UNCHANGED <<queueVars, freeSlotQueue, scheduled, updateVars>>
  BY DEF Login
<1>4. QueuesOK' /\ UpdateOK' /\ TimerTypesOK' /\ SlotsOK'
      /\ \A q \in Players : Queued(q)' <=> Queued(q)
  BY <1>1, <1>3, Unchanged
<1>5. TimersOK'
  BY <1>1, <1>3, <1>4, TimersKept
<1>6. CASE c # 0 /\ p \in bgs[c].players /\ bgs[c].status # "leave"
  <2> DEFINE o == RemoveFirst(bgs[c].offline, p)
  <2>1. /\ slot' = [slot EXCEPT ![p] = c] /\ place' = [place EXCEPT ![p] = "inside"]
        /\ bgs' = [bgs EXCEPT ![c].offline = o] /\ UNCHANGED bgInstanceID
    BY <1>6 DEF Login
  <2>2. bgs[c] \in BattlegroundRecord /\ bgs[c].offline \in Seq(Players)
    BY <1>1, <1>2, <1>6 DEF RecordsOK, BattlegroundRecord
  <2>3. o \in Seq(Players)
    <3>1. CASE Contains(bgs[c].offline, p)
      BY <2>2, <3>1, RemoveFirstIsRemoveAt, RemoveAtProperties
    <3>2. CASE ~ Contains(bgs[c].offline, p)
      BY <2>2, <3>2 DEF RemoveFirst, Contains
    <3> QED BY <3>1, <3>2
  <2> HIDE DEF o
  <2>4. [bgs[c] EXCEPT !.offline = o] = [bgs[c] EXCEPT !.players = @ \cup {p}, !.offline = o]
    <3>1. bgs[c].players \cup {p} = bgs[c].players
      BY <1>6
    <3> QED BY <2>2, <3>1 DEF BattlegroundRecord
  <2>5. bgs' = [bgs EXCEPT ![c].players = @ \cup {p}, ![c].offline = o]
    <3>1. bgs' = [bgs EXCEPT ![c] = [bgs[c] EXCEPT !.offline = o]]
      BY <2>1
    <3>2. bgs' = [bgs EXCEPT ![c] = [bgs[c] EXCEPT !.players = @ \cup {p}, !.offline = o]]
      BY <2>4, <3>1
    <3> QED BY <3>2
  <2>6. HoldsPlace(p, c) /\ bgs[c].status # "none" /\ c \in Ids
    BY <1>1, <1>2, <1>6 DEF HoldsPlace, BattlegroundsOK
  <2>7. /\ RecordsOK'
        /\ \A b \in Ids : bgs'[b].status = bgs[b].status /\ bgs'[b].invited = bgs[b].invited
        /\ \A b \in Ids : bgs'[b].players =
              IF b = c THEN bgs[b].players \cup {p} ELSE bgs[b].players
    BY <2>3, <2>5, <2>6, EnterKeeps
  <2>8. \A b \in Ids : bgs'[b].players = bgs[b].players
    BY <1>6, <2>7
  <2>9. /\ PlayersOK' /\ slot'[p] = c /\ place'[p] = "inside"
        /\ \A q \in Players : q # p => slot'[q] = slot[q] /\ place'[q] = place[q]
    BY <1>1, <1>2, <2>1 DEF PlayersOK
  <2>10. BattlegroundsOK'
    BY <1>1, <1>3, <2>7, <2>8 DEF BattlegroundsOK
  <2> HIDE DEF c
  <2>11. PlayersMatch'
    <3> SUFFICES ASSUME NEW q \in Players
                 PROVE  PlayerOK(q)'
      BY DEF PlayersMatch
    <3>1. CASE q = p
      <4>1. /\ bgInstanceID'[p] = c /\ c # NoSlot /\ bgs'[c].status # "none" /\ ~ Queued(p)'
            /\ p \in bgs'[c].players
        BY <1>2, <1>4, <1>6, <2>1, <2>6, <2>7, <2>8 DEF c, Ids, NoSlot
      <4>2. \A b \in Ids : p \in bgs'[b].players => b = c
        BY <1>2, <2>8
      <4> QED BY <1>2, <1>6, <2>6, <2>9, <3>1, <4>1, <4>2 DEF PlayerOK
    <3>2. CASE q # p
      BY <1>1, <1>3, <1>4, <2>1, <2>7, <2>8, <2>9, <3>2, PlayerKept DEF PlayersMatch
    <3> QED BY <3>1, <3>2
  <2>12. InvitedCountExact'
    <3>1. ASSUME NEW q \in Players, NEW b \in Ids
          PROVE  HoldsPlace(q, b)' <=> HoldsPlace(q, b)
      <4>1. place'[q] = "travelling" <=> place[q] = "travelling"
        BY <1>2, <2>9
      <4> QED BY <1>3, <1>4, <2>1, <2>8, <4>1 DEF HoldsPlace
    <3> QED BY <1>1, <2>7, <3>1, CountKept
  <2> QED BY <1>4, <1>5, <2>7, <2>9, <2>10, <2>11, <2>12, PartsNext
<1>7. CASE ~ (c # 0 /\ p \in bgs[c].players /\ bgs[c].status # "leave")
  <2>1. /\ bgs' = IF c # 0 /\ p \in bgs[c].players
                  THEN [bgs EXCEPT ![c] = Without(bgs[c], p)] ELSE bgs
        /\ place' = [place EXCEPT ![p] = "world"]
        /\ bgInstanceID' = [bgInstanceID EXCEPT ![p] = 0]
        /\ UNCHANGED slot
    BY <1>7 DEF Login
  <2> HIDE DEF c
  <2>2. /\ PlayersOK' /\ slot'[p] = NoSlot /\ place'[p] = "world" /\ bgInstanceID'[p] = 0
        /\ \A q \in Players \ {p} : /\ slot'[q] = slot[q] /\ place'[q] = place[q]
                                    /\ bgInstanceID'[q] = bgInstanceID[q]
    BY <1>1, <1>2, <2>1, ConstantsAssumption DEF PlayersOK
  <2>3. CASE c # 0 /\ p \in bgs[c].players
    <3>1. PICK d \in Ids : d = c
      BY <1>2, <2>3
    <3>2. /\ bgs[d].offline \in Seq(Players) /\ p \in bgs[d].players
          /\ bgs' = [bgs EXCEPT ![d] = [Without(bgs[d], p) EXCEPT !.offline = bgs[d].offline]]
      <4>1. bgs[d] \in BattlegroundRecord
        BY <1>1 DEF RecordsOK
      <4>2. [Without(bgs[d], p) EXCEPT !.offline = bgs[d].offline] = Without(bgs[d], p)
        BY <4>1, WithoutOffline
      <4> QED BY <2>1, <2>3, <3>1, <4>1, <4>2 DEF BattlegroundRecord
    <3>3. /\ RecordsOK' /\ InvitedCountExact' /\ PlayersMatch'
          /\ \A b \in Ids : /\ bgs'[b].status = bgs[b].status
                            /\ bgs'[b].players \subseteq bgs[b].players
      BY <1>3, <2>2, <3>2, WithoutKeeps
    <3>4. BattlegroundsOK'
      BY <1>1, <1>3, <3>3 DEF BattlegroundsOK
    <3> QED BY <1>4, <1>5, <2>2, <3>3, <3>4, PartsNext
  <2>4. CASE ~ (c # 0 /\ p \in bgs[c].players)
    <3>1. bgs' = bgs
      BY <2>1, <2>4
    <3>2. RecordsOK' /\ BattlegroundsOK'
      BY <1>1, <1>3, <3>1, Unchanged
    <3>3. \A b \in Ids : p \notin bgs[b].players
      BY <1>2, <2>4 DEF Ids
    <3>4. PlayersMatch'
      <4> SUFFICES ASSUME NEW q \in Players
                   PROVE  PlayerOK(q)'
        BY DEF PlayersMatch
      <4>1. CASE q = p
        BY <1>2, <1>4, <2>2, <3>1, <3>3, <4>1 DEF PlayerOK
      <4>2. CASE q # p
        BY <1>1, <1>3, <1>4, <2>2, <3>1, <4>2, PlayerKept DEF PlayersMatch
      <4> QED BY <4>1, <4>2
    <3>5. InvitedCountExact'
      <4>1. ASSUME NEW q \in Players, NEW b \in Ids
            PROVE  HoldsPlace(q, b)' <=> HoldsPlace(q, b)
        BY <1>2, <1>3, <1>4, <2>2, <3>1 DEF HoldsPlace
      <4> QED BY <1>1, <3>1, <4>1, CountKept
    <3> QED BY <1>4, <1>5, <2>2, <3>2, <3>4, <3>5, PartsNext
  <2> QED BY <2>3, <2>4
<1> QED BY <1>6, <1>7


-----------------------------------------------------------------------------
(* The update of the battlegrounds, and their end.                         *)

\* Battleground c opens its doors or ends.
LEMMA StatusKeeps ==
    ASSUME IInv, NEW c \in Ids, bgs[c].status # "none", NEW s \in {"progress", "leave"},
           bgs' = [bgs EXCEPT ![c].status = s],
           \/ freeSlotQueue' = RemoveFirst(freeSlotQueue, c)
           \/ freeSlotQueue' = freeSlotQueue /\ s = "progress",
           UNCHANGED <<queueVars, playerVars, step>>,
           UpdateOK'
    PROVE  IInv'
<1>1. /\ QueuesOK /\ PlayersOK /\ TimerTypesOK /\ SlotsOK /\ RecordsOK /\ PlayersMatch
      /\ BattlegroundsOK /\ InvitedCountExact /\ TimersOK
  BY Parts
<1>2. QueuesOK' /\ PlayersOK' /\ TimerTypesOK' /\ \A q \in Players : Queued(q)' <=> Queued(q)
  BY <1>1, Unchanged
<1>3. /\ RecordsOK'
      /\ \A b \in Ids : /\ bgs'[b].players = bgs[b].players
                        /\ bgs'[b].invited = bgs[b].invited
                        /\ bgs'[b].status = IF b = c THEN s ELSE bgs[b].status
  BY <1>1 DEF RecordsOK, BattlegroundRecord
<1>4. /\ SlotsOK'
      /\ \A b \in Ids : Contains(freeSlotQueue', b) =>
            Contains(freeSlotQueue, b) /\ (b = c => s = "progress")
  <2>1. freeSlotQueue \in Seq(Ids) /\ IsInjective(freeSlotQueue)
    BY <1>1 DEF SlotsOK
  <2>2. CASE freeSlotQueue' = RemoveFirst(freeSlotQueue, c)
    BY <2>1, <2>2, RemoveFirstOfInjective DEF SlotsOK
  <2>3. CASE freeSlotQueue' = freeSlotQueue /\ s = "progress"
    BY <2>1, <2>3 DEF SlotsOK
  <2> QED BY <2>2, <2>3
<1>5. BattlegroundsOK'
  BY <1>1, <1>3, <1>4 DEF BattlegroundsOK
<1>6. PlayersMatch'
  <2> SUFFICES ASSUME NEW q \in Players
               PROVE  PlayerOK(q)'
    BY DEF PlayersMatch
  <2> QED BY <1>1, <1>2, <1>3, PlayerKept DEF PlayersMatch
<1>7. InvitedCountExact'
  <2>1. ASSUME NEW q \in Players, NEW b \in Ids
        PROVE  HoldsPlace(q, b)' <=> HoldsPlace(q, b)
    BY <1>2, <1>3 DEF HoldsPlace
  <2>2. \A b \in Ids : bgs'[b].status # "none" =>
           bgs[b].status # "none" /\ bgs'[b].invited = bgs[b].invited
    BY <1>3
  <2> QED BY <1>1, <2>1, <2>2, CountKept
<1>8. TimersOK'
  BY <1>1, <1>2, TimersKept
<1> QED BY <1>2, <1>3, <1>4, <1>5, <1>6, <1>7, <1>8, PartsNext

LEMMA UpdatingKeeps ==
    ASSUME UpdateOK, NEW c \in Ids, Updating(c), scheduled' \in BOOLEAN
    PROVE  UpdateOK'
  BY DEF UpdateOK, Updating

LEMMA EndBattlegroundKeeps ==
    ASSUME IInv, NEW b \in Ids, EndBattleground(b)
    PROVE  IInv'
<1>1. UpdateOK'
  BY Parts DEF EndBattleground, UpdateOK
<1> QED BY <1>1, StatusKeeps DEF EndBattleground

LEMMA ProcessJoinKeeps ==
    ASSUME IInv, NEW b \in Ids, ProcessJoin(b)
    PROVE  IInv'
<1>1. UpdateOK' /\ bgs[b].status # "none" /\ UNCHANGED <<queueVars, playerVars, step>>
  BY Parts, UpdatingKeeps DEF ProcessJoin, UpdateOK, Updating
<1>2. CASE bgs' = [bgs EXCEPT ![b].status = "progress"] /\ UNCHANGED freeSlotQueue
  BY <1>1, <1>2, StatusKeeps
<1>3. CASE /\ bgs' = [bgs EXCEPT ![b].status = "leave"]
           /\ freeSlotQueue' = RemoveFirst(freeSlotQueue, b)
  BY <1>1, <1>3, StatusKeeps
<1> QED BY <1>2, <1>3 DEF ProcessJoin

LEMMA ProcessProgressKeeps ==
    ASSUME IInv, NEW b \in Ids, ProcessProgress(b)
    PROVE  IInv'
<1>1. UpdateOK'
  BY Parts, UpdatingKeeps DEF ProcessProgress, UpdateOK
<1> QED BY <1>1, StatusKeeps DEF ProcessProgress, Updating

\* A step that only moves the update on.
LEMMA UpdateKeeps ==
    ASSUME IInv, UNCHANGED <<queueVars, playerVars, bgs, freeSlotQueue>>, UpdateOK',
           step' \in {"events", "fill"} => timers # <<>>
    PROVE  IInv'
<1>1. /\ QueuesOK /\ PlayersOK /\ TimerTypesOK /\ SlotsOK /\ RecordsOK /\ PlayersMatch
      /\ BattlegroundsOK /\ InvitedCountExact /\ TimersOK
  BY Parts
<1>2. QueuesOK' /\ PlayersOK' /\ TimerTypesOK' /\ SlotsOK' /\ RecordsOK'
      /\ \A q \in Players : Queued(q)' <=> Queued(q)
  BY <1>1, Unchanged
<1>3. PlayersMatch' /\ BattlegroundsOK' /\ InvitedCountExact'
  BY <1>1, Unchanged
<1>4. TimersOK'
  BY <1>1, <1>2 DEF TimersOK
<1> QED BY <1>2, <1>3, <1>4, PartsNext

LEMMA BeginUpdateKeeps ==
    ASSUME IInv, BeginUpdate
    PROVE  IInv'
<1>1. UpdateOK'
  BY Parts DEF BeginUpdate, UpdateOK
<1> QED BY <1>1, UpdateKeeps DEF BeginUpdate

LEMMA UpdateWaitsKeeps ==
    ASSUME IInv, NEW b \in Ids, UpdateWaits(b)
    PROVE  IInv'
<1>1. UpdateOK'
  BY Parts, UpdatingKeeps DEF UpdateWaits, UpdateOK
<1> QED BY <1>1, UpdateKeeps DEF UpdateWaits, Updating

LEMMA UpdateEmptyKeeps ==
    ASSUME IInv, NEW c \in Ids, UpdateEmpty(c)
    PROVE  IInv'
<1>1. /\ QueuesOK /\ PlayersOK /\ TimerTypesOK /\ SlotsOK /\ RecordsOK /\ PlayersMatch
      /\ BattlegroundsOK /\ InvitedCountExact /\ TimersOK
  BY Parts
<1>2. UpdateOK' /\ step = "battlegrounds" /\ bgs[c].players = {}
      /\ UNCHANGED <<queueVars, playerVars, step>>
  BY Parts, UpdatingKeeps DEF UpdateEmpty, UpdateOK, Updating
<1>3. CASE UNCHANGED <<bgs, freeSlotQueue>>
  BY <1>2, <1>3, UpdateKeeps
<1>4. CASE /\ \A t \in Teams : bgs[c].invited[t] = 0
           /\ bgs' = [bgs EXCEPT ![c] = NoBattleground]
           /\ freeSlotQueue' = RemoveFirst(freeSlotQueue, c)
  <2>1. QueuesOK' /\ PlayersOK' /\ TimerTypesOK' /\ \A q \in Players : Queued(q)' <=> Queued(q)
    BY <1>1, <1>2, Unchanged
  <2>2. TimersOK'
    BY <1>1, <1>2, <2>1, TimersKept
  <2>3. ASSUME NEW q \in Players
        PROVE  ~ HoldsPlace(q, c)
    <3>1. CASE bgs[c].status = "none"
      BY <1>1, <1>2, <3>1 DEF PlayersMatch, PlayerOK, HoldsPlace, Ids
    <3>2. CASE bgs[c].status # "none"
      <4>1. Cardinality(Team(Held[c], TeamOf(q))) = 0
        BY <1>1, <1>4, <3>2, HeldIsExact, TeamsAre DEF Exact
      <4>2. Team(Held[c], TeamOf(q)) = {}
        <5>1. Held[c] \in SUBSET Players
          BY HeldIsExact
        <5> QED BY <4>1, <5>1, TeamCount, FS_EmptySet
      <4> QED BY <4>2 DEF Team, Held
    <3> QED BY <3>1, <3>2
  <2>4. NoBattleground \in BattlegroundRecord /\ NoBattleground.players = {}
        /\ NoBattleground.status = "none"
    BY ConstantsAssumption DEF NoBattleground, BattlegroundRecord
  <2>5. /\ RecordsOK'
        /\ \A b \in Ids : bgs'[b] = IF b = c THEN NoBattleground ELSE bgs[b]
    BY <1>1, <1>4, <2>4 DEF RecordsOK
  <2>6. \A b \in Ids : bgs'[b].players = bgs[b].players
    BY <1>2, <2>4, <2>5
  <2>7. SlotsOK' /\ \A b \in Ids : Contains(freeSlotQueue', b) <=>
            Contains(freeSlotQueue, b) /\ b # c
    BY <1>1, <1>4, RemoveFirstOfInjective DEF SlotsOK
  <2>8. BattlegroundsOK'
    BY <1>1, <1>2, <2>4, <2>5, <2>7 DEF BattlegroundsOK
  <2>9. PlayersMatch'
    <3> SUFFICES ASSUME NEW q \in Players
                 PROVE  PlayerOK(q)'
      BY DEF PlayersMatch
    <3>1. /\ Queued(q)' <=> Queued(q)
          /\ invitation'[q] = invitation[q] /\ slot'[q] = slot[q]
          /\ place'[q] = place[q] /\ bgInstanceID'[q] = bgInstanceID[q]
          /\ \A b \in Ids : q \in bgs'[b].players <=> q \in bgs[b].players
      BY <1>2, <2>1, <2>6
    <3>2. /\ Queued(q) => invitation[q].bg # c
          /\ place[q] \in {"travelling", "inside"} => slot[q] # c
      BY <1>1, <1>2, <2>3 DEF HoldsPlace, PlayersMatch, PlayerOK
    <3>3. \A b \in Ids : b # c => bgs'[b] = bgs[b]
      BY <2>5
    <3>4. PlayerOK(q) /\ (invitation[q].bg = 0 \/ invitation[q].bg \in Ids)
      BY <1>1 DEF PlayersMatch, QueuesOK, Ids
    <3>5. Queued(q)' /\ invitation'[q].bg # 0 => bgs'[invitation'[q].bg].status # "none"
      BY <3>1, <3>2, <3>3, <3>4 DEF PlayerOK
    <3>6. place'[q] \in {"travelling", "inside"} =>
             /\ slot'[q] = bgInstanceID'[q] /\ slot'[q] \in Ids
             /\ bgs'[slot'[q]].status # "none"
      BY <3>1, <3>2, <3>3, <3>4 DEF PlayerOK
    <3>7. place'[q] = "inside" => q \in bgs'[slot'[q]].players
      BY <3>1, <3>4 DEF PlayerOK
    <3> QED BY <3>1, <3>4, <3>5, <3>6, <3>7 DEF PlayerOK
  <2>10. InvitedCountExact'
    <3>1. ASSUME NEW q \in Players, NEW b \in Ids
          PROVE  HoldsPlace(q, b)' <=> HoldsPlace(q, b)
      BY <1>2, <2>1, <2>6 DEF HoldsPlace
    <3>2. \A b \in Ids : bgs'[b].status # "none" =>
             bgs[b].status # "none" /\ bgs'[b].invited = bgs[b].invited
      BY <2>4, <2>5
    <3> QED BY <1>1, <3>1, <3>2, CountKept
  <2> QED BY <1>2, <2>1, <2>2, <2>5, <2>7, <2>8, <2>9, <2>10, PartsNext
<1> QED BY <1>3, <1>4 DEF UpdateEmpty


LEMMA ProcessOfflineQueueKeeps ==
    ASSUME IInv, NEW c \in Ids, ProcessOfflineQueue(c)
    PROVE  IInv'
<1>1. /\ QueuesOK /\ PlayersOK /\ TimerTypesOK /\ SlotsOK /\ RecordsOK /\ PlayersMatch
      /\ BattlegroundsOK /\ InvitedCountExact /\ TimersOK /\ UpdateOK
  BY Parts
<1>2. PICK p : p = Head(bgs[c].offline)
  OBVIOUS
<1>3. /\ Updating(c) /\ p \in bgs[c].players /\ bgs[c].offline # <<>>
      /\ bgs' = [bgs EXCEPT ![c] =
                    [Without(bgs[c], p) EXCEPT !.offline = Tail(bgs[c].offline)]]
      /\ SentHome({p}) /\ OfferSlot(c)
  BY <1>2 DEF ProcessOfflineQueue
<1>4. bgs[c] \in BattlegroundRecord /\ bgs[c].offline \in Seq(Players) /\ p \in Players
  BY <1>1, <1>3 DEF RecordsOK, BattlegroundRecord
<1> DEFINE o == Tail(bgs[c].offline)
<1>5. o \in Seq(Players)
  BY <1>3, <1>4, HeadTailProperties
<1>6. bgs' = [bgs EXCEPT ![c] = [Without(bgs[c], p) EXCEPT !.offline = o]]
  BY <1>3
<1> HIDE DEF o
<1>7. /\ place[p] \in {"inside", "offline"} /\ bgInstanceID[p] = c
      /\ place[p] = "offline" => slot[p] = NoSlot
  BY <1>1, <1>3, <1>4 DEF PlayersMatch, PlayerOK
<1>8. /\ \A q \in Players \ {p} : /\ slot'[q] = slot[q] /\ place'[q] = place[q]
                                  /\ bgInstanceID'[q] = bgInstanceID[q]
      /\ slot'[p] = NoSlot
      /\ \/ place'[p] = "offline"
         \/ place'[p] = "world" /\ bgInstanceID'[p] = 0
  BY <1>3, <1>4, <1>7 DEF SentHome
<1>9. PlayersOK'
  BY <1>1, <1>3, ConstantsAssumption DEF PlayersOK, SentHome
<1>10. UNCHANGED <<queueVars, step>>
  BY <1>3 DEF Updating
<1>11. /\ QueuesOK' /\ RecordsOK' /\ InvitedCountExact' /\ PlayersMatch'
       /\ \A q \in Players : Queued(q)' <=> Queued(q)
       /\ bgs[c].status # "none"
       /\ \A b \in Ids : /\ bgs'[b].status = bgs[b].status
                         /\ bgs'[b].players \subseteq bgs[b].players
  BY <1>3, <1>4, <1>5, <1>6, <1>8, <1>10, WithoutKeeps
<1>12. SlotsOK' /\ BattlegroundsOK' /\ scheduled' \in BOOLEAN
  BY <1>1, <1>3, <1>11, OfferSlotKeeps
<1>13. TimerTypesOK' /\ UpdateOK'
  BY <1>1, <1>3, <1>10, <1>12, UpdatingKeeps DEF TimerTypesOK
<1>14. TimersOK'
  BY <1>1, <1>10, <1>11, TimersKept
<1> QED BY <1>9, <1>11, <1>12, <1>13, <1>14, PartsNext

LEMMA ProcessLeaveKeeps ==
    ASSUME IInv, NEW c \in Ids, ProcessLeave(c)
    PROVE  IInv'
<1>1. /\ QueuesOK /\ PlayersOK /\ TimerTypesOK /\ SlotsOK /\ RecordsOK /\ PlayersMatch
      /\ BattlegroundsOK /\ InvitedCountExact /\ TimersOK /\ UpdateOK
  BY Parts
<1>2. PICK G : G = bgs[c].players
  OBVIOUS
<1>3. /\ UpdateOK' /\ UNCHANGED <<queueVars, step, freeSlotQueue>>
      /\ bgs[c].status = "leave" /\ SentHome(G)
  BY <1>1, <1>2, UpdatingKeeps DEF ProcessLeave, Updating, UpdateOK
<1>4. bgs[c] \in BattlegroundRecord /\ G \in SUBSET Players
  BY <1>1, <1>2 DEF RecordsOK, BattlegroundRecord
<1> DEFINE n == [t \in Teams |-> bgs[c].invited[t] - Cardinality(OfTeam(c, t))]
           r == [bgs[c] EXCEPT !.players = {}, !.invited = n]
<1>5. bgs' = [bgs EXCEPT ![c] = r]
  BY <1>1 DEF ProcessLeave, RecordsOK
<1>6. \A t \in Teams : n[t] = bgs[c].invited[t] - Cardinality(Team(G, t))
  <2>1. \A t \in Teams : OfTeam(c, t) = Team(G, t)
    BY <1>2 DEF OfTeam, Team
  <2> QED BY <2>1
<1>7. n = [t \in Teams |-> n[t]]
  OBVIOUS
<1> HIDE DEF n
<1>8. /\ r.status = "leave" /\ r.players = {} /\ r.invited = n
      /\ r.offline = bgs[c].offline
  BY <1>3, <1>4 DEF BattlegroundRecord
<1>9. n \in [Teams -> 0..MaxPlayersPerTeam] => r \in BattlegroundRecord
  BY <1>4 DEF BattlegroundRecord
<1> HIDE DEF r
<1>10. \A b \in Ids : bgs'[b] = IF b = c THEN r ELSE bgs[b]
  BY <1>1, <1>5 DEF RecordsOK
<1>11. /\ \A b \in Ids \ {c} : bgs'[b] = bgs[b]
       /\ bgs'[c] = r
       /\ \A b \in Ids : bgs'[b].status = bgs[b].status
  BY <1>3, <1>8, <1>10
<1>12. ASSUME NEW b \in Ids, NEW q \in Players
       PROVE  q \in bgs'[b].players <=> q \in bgs[b].players /\ ~ (b = c /\ q \in G)
  BY <1>2, <1>8, <1>11
<1>13. QueuesOK' /\ TimerTypesOK' /\ SlotsOK' /\ \A q \in Players : Queued(q)' <=> Queued(q)
  BY <1>1, <1>3, Unchanged
<1>14. TimersOK'
  BY <1>1, <1>3, <1>13, TimersKept
<1>15. BattlegroundsOK'
  <2>1. \A b \in Ids : bgs[b].players = {} => bgs'[b].players = {}
    BY <1>8, <1>10
  <2> QED BY <1>1, <1>3, <1>11, <2>1 DEF BattlegroundsOK
<1>16. PlayersOK'
  BY <1>1, <1>3, ConstantsAssumption DEF PlayersOK, SentHome
<1>17. \A q \in G : /\ bgInstanceID[q] = c /\ place[q] \in {"inside", "offline"} /\ ~ Queued(q)
                    /\ place[q] = "offline" => slot[q] = NoSlot
                    /\ \A b \in Ids : q \in bgs[b].players => b = c
  BY <1>1, <1>2, <1>4 DEF PlayersMatch, PlayerOK
<1>18. /\ \A q \in Players \ G : /\ slot'[q] = slot[q] /\ place'[q] = place[q]
                                 /\ bgInstanceID'[q] = bgInstanceID[q]
       /\ \A q \in G : /\ slot'[q] = NoSlot
                       /\ \/ place'[q] = "offline"
                          \/ place'[q] = "world" /\ bgInstanceID'[q] = 0
  BY <1>3, <1>4, <1>17 DEF SentHome
<1>19. PlayersMatch'
  <2> SUFFICES ASSUME NEW q \in Players
               PROVE  PlayerOK(q)'
    BY DEF PlayersMatch
  <2>1. CASE q \in G
    <3>1. \A b \in Ids : q \notin bgs'[b].players
      BY <1>12, <1>17, <2>1
    <3> QED BY <1>13, <1>17, <1>18, <2>1, <3>1 DEF PlayerOK
  <2>2. CASE q \notin G
    <3>1. \A b \in Ids : q \in bgs'[b].players <=> q \in bgs[b].players
      BY <1>12, <2>2
    <3> QED BY <1>1, <1>3, <1>11, <1>13, <1>18, <2>2, <3>1, PlayerKept DEF PlayersMatch
  <2> QED BY <2>1, <2>2
<1>20. /\ InvitedCountExact'
       /\ \A t \in Teams : bgs'[c].invited[t] \in 0..MaxPlayersPerTeam
  <2>1. \A q \in G : HoldsPlace(q, c)
    BY <1>2 DEF HoldsPlace
  <2>2. \A q \in Players, b \in Ids :
          HoldsPlace(q, b)' <=> HoldsPlace(q, b) /\ ~ (b = c /\ q \in G)
    <3> SUFFICES ASSUME NEW q \in Players, NEW b \in Ids
                 PROVE  HoldsPlace(q, b)' <=> HoldsPlace(q, b) /\ ~ (b = c /\ q \in G)
      OBVIOUS
    <3>1. CASE q \in G
      <4>1. ~ HoldsPlace(q, b)'
        BY <1>12, <1>13, <1>17, <1>18, <3>1 DEF HoldsPlace
      <4>2. HoldsPlace(q, b) => b = c
        BY <1>17, <3>1 DEF HoldsPlace
      <4> QED BY <3>1, <4>1, <4>2
    <3>2. CASE q \notin G
      <4>1. /\ Queued(q)' <=> Queued(q)
            /\ invitation'[q] = invitation[q]
            /\ place'[q] = place[q] /\ bgInstanceID'[q] = bgInstanceID[q]
            /\ q \in bgs'[b].players <=> q \in bgs[b].players
        BY <1>3, <1>12, <1>13, <1>18, <3>2
      <4> QED BY <3>2, <4>1 DEF HoldsPlace
    <3> QED BY <3>1, <3>2
  <2>3. /\ \A b \in Ids : bgs'[b].status # "none" => bgs[b].status # "none"
        /\ \A b \in Ids \ {c} : bgs'[b].invited = bgs[b].invited
        /\ bgs[c].status # "none"
    BY <1>3, <1>11
  <2>4. \A t \in Teams : bgs'[c].invited[t] = bgs[c].invited[t] - Cardinality(Team(G, t))
    BY <1>6, <1>8, <1>11
  <2>5. RecordsOK /\ InvitedCountExact
    BY <1>1
  <2> QED BY ONLY <1>4, <2>1, <2>2, <2>3, <2>4, <2>5, c \in Ids, CountGivenBack
<1>21. RecordsOK'
  <2>1. n \in [Teams -> 0..MaxPlayersPerTeam]
    BY <1>7, <1>8, <1>11, <1>20
  <2> QED BY <1>1, <1>5, <1>9, <2>1 DEF RecordsOK
<1> QED BY <1>3, <1>13, <1>14, <1>15, <1>16, <1>19, <1>20, <1>21, PartsNext


-----------------------------------------------------------------------------
(* The update of the timers.                                               *)

LEMMA UpdateEventsKeeps ==
    ASSUME IInv, UpdateEvents
    PROVE  IInv'
<1>1. UpdateOK'
  BY Parts DEF UpdateEvents, UpdateOK
<1> QED BY <1>1, UpdateKeeps DEF UpdateEvents

LEMMA RemoveEventKeeps ==
    ASSUME IInv, NEW p \in Players, NEW c \in Ids, RemoveEvent(p, c)
    PROVE  IInv'
<1>1. /\ QueuesOK /\ PlayersOK /\ TimerTypesOK /\ SlotsOK /\ RecordsOK /\ PlayersMatch
      /\ BattlegroundsOK /\ InvitedCountExact /\ TimersOK /\ UpdateOK /\ PlayerOK(p)
  BY Parts DEF PlayersMatch
<1>2. /\ step = "events" /\ timers # <<>> /\ UNCHANGED <<bgInstanceID, place, freeSlotQueue, updateVars>>
      /\ timers' = [timers EXCEPT ![1].invited = @ \ {<<p, c>>}]
  BY <1>1 DEF RemoveEvent, TimersOK
<1>3. timers \in Seq(Timer) /\ Len(timers) \in Nat /\ 1 \in 1..Len(timers) /\ timers[1] \in Timer
  BY <1>1, <1>2 DEF TimerTypesOK
<1> DEFINE e == [timers[1] EXCEPT !.invited = @ \ {<<p, c>>}]
<1>4. e \in Timer /\ e.time = timers[1].time /\ e.invited \subseteq timers[1].invited
  BY <1>3 DEF Timer
<1>5. timers' = [timers EXCEPT ![1] = e]
  BY <1>2
<1> HIDE DEF e
<1>6. /\ timers' \in Seq(Timer) /\ Len(timers') = Len(timers)
      /\ \A i \in 1..Len(timers) : timers'[i] = IF i = 1 THEN e ELSE timers[i]
  BY <1>3, <1>4, <1>5, ExceptSeq
<1>7. \A i \in 1..Len(timers) : timers'[i].time = timers[i].time
                                /\ timers'[i].invited \subseteq timers[i].invited
  BY <1>4, <1>6
<1>8. TimerTypesOK' /\ timers' # <<>>
  BY <1>1, <1>3, <1>6 DEF TimerTypesOK
<1>9. ASSUME \A q \in Players : Queued(q)' => Queued(q) /\ invitation'[q] = invitation[q]
      PROVE  TimersOK'
  BY <1>1, <1>6, <1>7, <1>8, <1>9 DEF TimersOK
<1>10. CASE slot' = slot /\ UNCHANGED <<queue, invitation, bgs, scheduled>>
  <2>1. QueuesOK' /\ PlayersOK' /\ UpdateOK' /\ SlotsOK' /\ RecordsOK'
        /\ \A q \in Players : Queued(q)' <=> Queued(q)
    BY <1>1, <1>2, <1>10, Unchanged
  <2>2. PlayersMatch' /\ BattlegroundsOK' /\ InvitedCountExact'
    BY <1>1, <1>2, <1>10, Unchanged
  <2> QED BY <1>8, <1>9, <1>10, <2>1, <2>2, PartsNext
<1>11. CASE /\ slot[p] # NoSlot /\ Queued(p) /\ slot' = [slot EXCEPT ![p] = NoSlot]
            /\ RemovePlayer(p, TRUE) /\ scheduled' \in BOOLEAN
  <2>1. /\ QueuesOK' /\ PlayersOK' /\ SlotsOK' /\ RecordsOK' /\ PlayersMatch'
        /\ BattlegroundsOK' /\ InvitedCountExact'
        /\ \A q \in Players : Queued(q)' => Queued(q) /\ invitation'[q] = invitation[q]
    BY <1>2, <1>11, RemovePlayerKeeps
  <2>2. UpdateOK'
    BY <1>1, <1>2, <1>11 DEF UpdateOK
  <2> QED BY <1>8, <1>9, <2>1, <2>2, PartsNext
<1> QED BY <1>10, <1>11 DEF RemoveEvent, IsPlayerInvited

LEMMA EventsDoneKeeps ==
    ASSUME IInv, EventsDone
    PROVE  IInv'
<1>1. /\ QueuesOK /\ PlayersOK /\ TimerTypesOK /\ SlotsOK /\ RecordsOK /\ PlayersMatch
      /\ BattlegroundsOK /\ InvitedCountExact /\ TimersOK /\ UpdateOK
  BY Parts
<1>2. /\ step = "events" /\ timers # <<>> /\ step' = "battlegrounds" /\ timers' = Tail(timers)
      /\ UNCHANGED <<queue, invitation, playerVars, bgs, freeSlotQueue, scheduled, toUpdate, toFill>>
  BY <1>1 DEF EventsDone, TimersOK
<1>3. timers \in Seq(Timer) /\ Len(timers) \in Nat
  BY <1>1 DEF TimerTypesOK
<1>4. /\ timers' \in Seq(Timer) /\ Len(timers') = Len(timers) - 1
      /\ \A i \in 1..Len(timers') : timers'[i] = timers[i + 1]
  BY <1>2, <1>3, HeadTailProperties
<1>5. QueuesOK' /\ PlayersOK' /\ UpdateOK' /\ SlotsOK' /\ RecordsOK'
      /\ \A q \in Players : Queued(q)' <=> Queued(q)
  BY <1>1, <1>2, Unchanged DEF UpdateOK
<1>6. PlayersMatch' /\ BattlegroundsOK' /\ InvitedCountExact'
  BY <1>1, <1>2, Unchanged
<1>7. TimerTypesOK'
  BY <1>1, <1>3, <1>4, ConstantsAssumption DEF TimerTypesOK
<1>8. TimersOK'
  <2>1. \A i \in 1..Len(timers') : i + 1 \in 1..Len(timers)
    BY <1>3, <1>4
  <2>2. ASSUME NEW i \in 1..Len(timers'), NEW j \in 1..Len(timers'),
               timers'[i].time = timers'[j].time
        PROVE  i = j
    <3>1. i + 1 = j + 1
      BY <1>1, <1>4, <2>1, <2>2 DEF TimersOK
    <3> QED BY <3>1
  <2>3. ASSUME NEW q \in Players, Queued(q)',
               NEW i \in 1..Len(timers'), NEW j \in 1..Len(timers'),
               timers'[i].time = invitation'[q].time, i < j, NEW b \in Ids
        PROVE  <<q, b>> \notin timers'[j].invited
    <3>1. /\ i + 1 \in 1..Len(timers) /\ j + 1 \in 1..Len(timers) /\ i + 1 < j + 1
          /\ timers[i + 1].time = invitation[q].time /\ Queued(q)
      BY <1>2, <1>4, <1>5, <2>1, <2>3
    <3>2. <<q, b>> \notin timers[j + 1].invited
      BY <1>1, <3>1 DEF TimersOK
    <3> QED BY <1>4, <3>2
  <2> QED BY <1>2, <2>2, <2>3 DEF TimersOK
<1> QED BY <1>5, <1>6, <1>7, <1>8, PartsNext

\* While a timer is left, so is a time.
LEMMA NowIsNew ==
    ASSUME TimerTypesOK, Len(timers) < MaxTimers
    PROVE  Now \in 1..MaxTimers /\ \A i \in 1..Len(timers) : timers[i].time # Now
<1> DEFINE I == 1..Len(timers)
           T == {timers[i].time : i \in I}
           f == [i \in I |-> timers[i].time]
<1>1. Len(timers) \in Nat /\ MaxTimers \in Nat /\ DOMAIN timers = I
  BY ConstantsAssumption DEF TimerTypesOK
<1>2. f \in Surjection(I, T)
  BY DEF Surjection
<1>3. IsFiniteSet(I) /\ Cardinality(I) = Len(timers)
  <2>1. /\ IsFiniteSet(I)
        /\ Cardinality(I) = IF 1 > Len(timers) THEN 0 ELSE Len(timers) - 1 + 1
    <3>1. 1 \in Int /\ Len(timers) \in Int
      BY <1>1
    <3> QED BY <3>1, FS_Interval, Zenon
  <2> QED BY <1>1, <2>1
<1>4. IsFiniteSet(T) /\ Cardinality(T) <= Len(timers)
  <2> HIDE DEF I, T, f
  <2> QED BY <1>2, <1>3, FS_Surjection
<1>5. IsFiniteSet(1..MaxTimers) /\ Cardinality(1..MaxTimers) = MaxTimers
  BY <1>1, FS_Interval
<1>6. \E t \in 1..MaxTimers : t \notin T
  <2>1. CASE 1..MaxTimers \subseteq T
    <3>1. Cardinality(1..MaxTimers) <= Cardinality(T)
      BY <1>4, <2>1, FS_Subset
    <3>2. Cardinality(T) \in Nat
      BY <1>4, FS_CardinalityType
    <3> QED BY <1>1, <1>4, <1>5, <3>1, <3>2
  <2> QED BY <2>1
<1>7. \E t \in 1..MaxTimers : \A i \in DOMAIN timers : timers[i].time # t
  BY <1>1, <1>6
<1> QED BY <1>1, <1>7 DEF Now

LEMMA UpdateQueuesKeeps ==
    ASSUME IInv, UpdateQueues
    PROVE  IInv'
<1>1. /\ QueuesOK /\ PlayersOK /\ TimerTypesOK /\ SlotsOK /\ RecordsOK /\ PlayersMatch
      /\ BattlegroundsOK /\ InvitedCountExact /\ TimersOK /\ UpdateOK
  BY Parts
<1>2. /\ Len(timers) < MaxTimers
      /\ UNCHANGED <<queue, invitation, playerVars, bgs, freeSlotQueue, toUpdate>>
  BY DEF UpdateQueues
<1>3. UpdateOK'
  BY <1>1 DEF UpdateQueues, UpdateOK, SlotsOK
<1>4. CASE step' = "clients" /\ UNCHANGED timers
  BY <1>2, <1>3, <1>4, UpdateKeeps
<1>5. CASE timers' = Append(timers, [time |-> Now, invited |-> {}])
  <2> DEFINE e == [time |-> Now, invited |-> {}]
  <2>1. /\ timers \in Seq(Timer) /\ Len(timers) \in Nat /\ e \in Timer
        /\ e.invited = {} /\ \A i \in 1..Len(timers) : timers[i].time # e.time
    BY <1>1, <1>2, NowIsNew DEF TimerTypesOK, Timer
  <2> HIDE DEF e
  <2>2. /\ timers' \in Seq(Timer) /\ Len(timers') = Len(timers) + 1
        /\ \A i \in 1..Len(timers) : timers'[i] = timers[i]
        /\ timers'[Len(timers) + 1] = e
    BY <1>5, <2>1, AppendProperties DEF e
  <2>3. QueuesOK' /\ PlayersOK' /\ SlotsOK' /\ RecordsOK'
        /\ \A q \in Players : Queued(q)' <=> Queued(q)
    BY <1>1, <1>2, Unchanged
  <2>4. PlayersMatch' /\ BattlegroundsOK' /\ InvitedCountExact'
    BY <1>1, <1>2, Unchanged
  <2>5. TimerTypesOK' /\ timers' # <<>>
    BY <1>2, <2>1, <2>2, ConstantsAssumption DEF TimerTypesOK
  <2>6. \A i \in 1..Len(timers') : i \in 1..Len(timers) \/ i = Len(timers) + 1
    BY <2>1, <2>2
  <2>7. \A i, j \in 1..Len(timers') : timers'[i].time = timers'[j].time => i = j
    BY <1>1, <2>1, <2>2, <2>6 DEF TimersOK
  <2>8. ASSUME NEW q \in Players, Queued(q)',
               NEW i \in 1..Len(timers'), NEW j \in 1..Len(timers'),
               timers'[i].time = invitation'[q].time, i < j, NEW b \in Ids
        PROVE  <<q, b>> \notin timers'[j].invited
    <3>1. i \in 1..Len(timers)
      BY <2>1, <2>2, <2>8
    <3>2. CASE j = Len(timers) + 1
      BY <2>1, <2>2, <3>2
    <3>3. CASE j \in 1..Len(timers)
      <4>1. timers[i].time = invitation[q].time /\ Queued(q) /\ timers'[j] = timers[j]
        BY <1>2, <2>2, <2>3, <2>8, <3>1, <3>3
      <4> QED BY <1>1, <2>8, <3>1, <3>3, <4>1 DEF TimersOK
    <3> QED BY <2>6, <3>2, <3>3
  <2>9. TimersOK'
    BY <2>5, <2>7, <2>8 DEF TimersOK
  <2> QED BY <1>3, <2>3, <2>4, <2>5, <2>9, PartsNext
<1> QED BY <1>4, <1>5 DEF UpdateQueues


-----------------------------------------------------------------------------
(* The update of the queue.                                                *)

\* The first n of some positions are at most n.
LEMMA FirstOnes ==
    ASSUME NEW W \in SUBSET Nat, IsFiniteSet(W), NEW n \in Nat
    PROVE  LET I == {i \in W : Cardinality({j \in W : j < i}) < n}
           IN  IsFiniteSet(I) /\ Cardinality(I) <= n
<1> DEFINE before(i) == {j \in W : j < i}
           I == {i \in W : Cardinality(before(i)) < n}
           rank == [i \in I |-> Cardinality(before(i))]
<1>1. \A i \in W : IsFiniteSet(before(i)) /\ Cardinality(before(i)) \in Nat
  <2> SUFFICES ASSUME NEW i \in W
               PROVE  IsFiniteSet(before(i)) /\ Cardinality(before(i)) \in Nat
    OBVIOUS
  <2>1. before(i) \subseteq W
    OBVIOUS
  <2> QED BY <2>1, FS_Subset, FS_CardinalityType
<1>2. ASSUME NEW i \in W, NEW k \in W, i < k
      PROVE  Cardinality(before(i)) # Cardinality(before(k))
  <2>1. before(i) \subseteq before(k) /\ i \in before(k) /\ i \notin before(i)
    <3>1. \A j \in W : j \in Nat
      OBVIOUS
    <3>2. before(i) \subseteq before(k)
      <4>1. ASSUME NEW j \in before(i)
            PROVE  j \in W /\ j < k
        <5>1. j \in W /\ j < i
          OBVIOUS
        <5>2. j \in Nat /\ i \in Nat /\ k \in Nat
          BY <3>1, <5>1
        <5> QED BY <1>2, <5>1, <5>2
      <4> QED BY <4>1
    <3>3. i \in before(k) /\ ~ (i < i)
      BY <1>2, <3>1
    <3> QED BY <3>2, <3>3
  <2> QED BY <1>1, <2>1, FS_Subset
<1>3. rank \in Injection(I, 0..n - 1)
  <2>1. rank \in [I -> 0..n - 1]
    <3>1. \A i \in I : Cardinality(before(i)) \in 0..n - 1
      BY <1>1
    <3> QED BY <3>1
  <2>2. ASSUME NEW i \in I, NEW k \in I, rank[i] = rank[k]
        PROVE  i = k
    <3>1. i \in Nat /\ k \in Nat /\ i \in W /\ k \in W
      OBVIOUS
    <3>2. ~ (i < k) /\ ~ (k < i)
      BY <1>2, <2>2, <3>1
    <3> QED BY <3>1, <3>2
  <2> QED BY <2>1, <2>2 DEF Injection, IsInjective
<1>4. IsFiniteSet(0..n - 1) /\ Cardinality(0..n - 1) = n
  <2>1. 0 \in Int /\ n - 1 \in Int
    OBVIOUS
  <2>2. /\ IsFiniteSet(0..n - 1)
        /\ Cardinality(0..n - 1) = IF 0 > n - 1 THEN 0 ELSE n - 1 - 0 + 1
    BY <2>1, FS_Interval, Zenon
  <2> QED BY <2>2
<1> HIDE DEF I, rank
<1>5. IsFiniteSet(I) /\ Cardinality(I) <= n
  BY <1>3, <1>4, FS_Injection
<1> QED BY <1>5, Zenon DEF I

\* A pool is players of its team who wait without an invitation, as many as
\* are wanted at most.
LEMMA PoolProperties ==
    ASSUME QueuesOK, NEW t \in Teams, NEW n \in Nat
    PROVE  /\ SelectionPool(t, n) \in SUBSET Players
           /\ \A q \in SelectionPool(t, n) :
                 Queued(q) /\ TeamOf(q) = t /\ invitation[q].bg = 0
           /\ Cardinality(SelectionPool(t, n)) <= n
<1> DEFINE W == Waiting(t)
           I == {i \in W : Cardinality({j \in W : j < i}) < n}
           P == {queue[t][i] : i \in I}
           f == [i \in I |-> queue[t][i]]
<1>1. queue[t] \in Seq(Players) /\ DOMAIN queue[t] = 1..Len(queue[t]) /\ Len(queue[t]) \in Nat
  BY DEF QueuesOK
<1>2. /\ W \subseteq 1..Len(queue[t])
      /\ \A i \in W : /\ queue[t][i] \in Players /\ Contains(queue[t], queue[t][i])
                      /\ invitation[queue[t][i]].bg = 0
  BY <1>1 DEF Waiting, Contains
<1>3. IsFiniteSet(W) /\ W \in SUBSET Nat
  <2>1. IsFiniteSet(1..Len(queue[t]))
    BY <1>1, FS_Interval
  <2> QED BY <1>1, <1>2, <2>1, FS_Subset
<1>4. IsFiniteSet(I) /\ Cardinality(I) <= n
  <2> HIDE DEF W
  <2> QED BY <1>3, FirstOnes
<1>5. P = SelectionPool(t, n)
  BY DEF SelectionPool
<1>6. f \in Surjection(I, P)
  <2> HIDE DEF I
  <2> QED BY DEF Surjection
<1>7. IsFiniteSet(P) /\ Cardinality(P) <= Cardinality(I)
  <2> HIDE DEF I, P, f
  <2> QED BY <1>4, <1>6, FS_Surjection
<1>8. Cardinality(I) \in Nat /\ Cardinality(P) \in Nat
  <2> HIDE DEF I, P
  <2> QED BY <1>4, <1>7, FS_CardinalityType
<1>9. Cardinality(P) <= n
  <2> DEFINE x == Cardinality(P)
             y == Cardinality(I)
  <2>1. x \in Nat /\ y \in Nat /\ x <= y /\ y <= n
    BY <1>4, <1>7, <1>8
  <2> HIDE DEF x, y
  <2>2. x <= n
    BY <2>1
  <2> QED BY <2>2 DEF x
<1>10. \A q \in P : q \in Players /\ Contains(queue[t], q) /\ invitation[q].bg = 0
  BY <1>2
<1>11. \A q \in P : TeamOf(q) = t /\ Queued(q)
  BY <1>10 DEF QueuesOK, TeamsOK, Queued
<1> QED BY <1>5, <1>9, <1>10, <1>11

\* The same for the pools of both teams.
LEMMA PoolsProperties ==
    ASSUME QueuesOK, NEW n \in [Teams -> Nat], NEW G, G = UNION {SelectionPool(t, n[t]) : t \in Teams}
    PROVE  /\ G \in SUBSET Players
           /\ \A q \in G : Queued(q) /\ invitation[q].bg = 0
           /\ \A t \in Teams : Cardinality(Team(G, t)) <= n[t]
<1>1. \A t \in Teams : /\ SelectionPool(t, n[t]) \in SUBSET Players
                       /\ \A q \in SelectionPool(t, n[t]) :
                             Queued(q) /\ TeamOf(q) = t /\ invitation[q].bg = 0
                       /\ Cardinality(SelectionPool(t, n[t])) <= n[t]
  BY PoolProperties
<1>2. \A t \in Teams : Team(G, t) = SelectionPool(t, n[t])
  BY <1>1 DEF Team
<1> QED BY <1>1, <1>2

\* There is room for the free slots of a team.
LEMMA FreeSlotsAreFree ==
    ASSUME RecordsOK, NEW c \in Ids, bgs[c].status \in {"join", "progress"}, NEW t \in Teams
    PROVE  /\ GetFreeSlotsForTeam(bgs[c], t) \in Nat
           /\ bgs[c].invited[t] + GetFreeSlotsForTeam(bgs[c], t) <= MaxPlayersPerTeam
<1> DEFINE bg == bgs[c]
           this == bg.invited[t]
           other == bg.invited[Other(t)]
           inside == Cardinality(Team(bg.players, t))
           outside == Cardinality(bg.players) - inside
           room == IF this < MaxPlayersPerTeam THEN MaxPlayersPerTeam - this ELSE 0
           diff == IF other = this THEN 1 ELSE IF other > this THEN other - this ELSE 0
           diff3 == IF outside = inside THEN 1
                    ELSE IF outside > inside THEN outside - inside
                    ELSE IF this <= MinPlayersPerTeam THEN MinPlayersPerTeam - this + 1
                    ELSE 0
<1>1. MaxPlayersPerTeam \in Nat /\ MinPlayersPerTeam \in Nat
  BY ConstantsAssumption
<1>2. this \in 0..MaxPlayersPerTeam /\ other \in 0..MaxPlayersPerTeam /\ bg.players \in SUBSET Players
  BY TeamsAre DEF RecordsOK, BattlegroundRecord
<1>3. inside \in Nat /\ outside \in Nat
  <2>1. /\ IsFiniteSet(bg.players) /\ Cardinality(bg.players) \in Nat
        /\ Team(bg.players, t) \subseteq bg.players
    BY <1>2, FS_Subset, FS_CardinalityType, ConstantsAssumption DEF Team
  <2>2. Cardinality(Team(bg.players, t)) \in Nat
    BY <1>2, TeamCount
  <2>3. Cardinality(Team(bg.players, t)) <= Cardinality(bg.players)
    BY <2>1, FS_Subset
  <2> QED BY <2>1, <2>2, <2>3
<1>4. GetFreeSlotsForTeam(bgs[c], t) =
        IF bg.status = "join" THEN room ELSE Min({diff, room, diff3})
  <2>1. Team(bg.players, t) = {p \in bg.players : TeamOf(p) = t}
    BY DEF Team
  <2> QED BY <2>1 DEF GetFreeSlotsForTeam
<1> HIDE DEF inside, outside, this, other
<1>5. room \in Nat /\ this + room <= MaxPlayersPerTeam /\ diff \in Nat /\ diff3 \in Nat
  BY <1>1, <1>2, <1>3
<1> HIDE DEF room, diff, diff3
<1>6. Min({diff, room, diff3}) \in Nat /\ Min({diff, room, diff3}) <= room
  <2>1. {diff, room, diff3} \in SUBSET Nat /\ {diff, room, diff3} # {}
    BY <1>5
  <2> QED BY <2>1, MinIsLeast
<1>7. /\ GetFreeSlotsForTeam(bgs[c], t) \in Nat
      /\ this + GetFreeSlotsForTeam(bgs[c], t) <= MaxPlayersPerTeam
  <2> DEFINE m == Min({diff, room, diff3})
  <2>1. m \in Nat /\ m <= room
    BY <1>6
  <2> HIDE DEF m
  <2>2. this + m <= MaxPlayersPerTeam
    BY <1>1, <1>2, <1>5, <2>1
  <2> QED BY <1>4, <1>5, <2>1, <2>2 DEF m
<1> QED BY <1>7 DEF this


\* The players of G are invited into c, which goes on, or begins, as bg.
LEMMA InviteKeeps ==
    ASSUME IInv, timers # <<>>, NEW c \in Ids, NEW G \in SUBSET Players,
           \A q \in G : Queued(q) /\ invitation[q].bg = 0,
           NEW bg \in BattlegroundRecord, bg.status \in {"join", "progress"},
           bg.players = bgs[c].players,
           \A t \in Teams : bg.invited[t] = Cardinality(Team(Held[c], t)),
           \A t \in Teams : bg.invited[t] + Cardinality(Team(G, t)) <= MaxPlayersPerTeam,
           InviteGroupToBG(G, c, bg),
           UNCHANGED <<queue, bgInstanceID, place>>,
           step' \in {"clients", "fill"}
    PROVE  /\ QueuesOK' /\ PlayersOK' /\ TimerTypesOK' /\ RecordsOK' /\ PlayersMatch'
           /\ InvitedCountExact' /\ TimersOK'
           /\ bgs'[c].status = bg.status /\ \A b \in Ids \ {c} : bgs'[b] = bgs[b]
<1>1. /\ QueuesOK /\ PlayersOK /\ TimerTypesOK /\ SlotsOK /\ RecordsOK /\ PlayersMatch
      /\ BattlegroundsOK /\ InvitedCountExact /\ TimersOK /\ UpdateOK
  BY Parts
<1> DEFINE L == Len(timers)
           now == Last(timers).time
           n == [t \in Teams |-> bg.invited[t] + Cardinality({p \in G : TeamOf(p) = t})]
           r == [bg EXCEPT !.invited = n]
           e == [timers[L] EXCEPT !.invited = @ \cup (G \X {c})]
<1>2. /\ timers \in Seq(Timer) /\ L \in Nat /\ L \in 1..L /\ timers[L] \in Timer
      /\ now = timers[L].time /\ now \in 1..MaxTimers
  <2>1. timers \in Seq(Timer) /\ L \in Nat
    BY <1>1 DEF TimerTypesOK
  <2>2. L \in 1..L
    BY <2>1, EmptySeq, SeqEqual
  <2>3. timers[L] \in Timer
    BY <2>1, <2>2
  <2>4. now = timers[L].time
    BY DEF Last
  <2> QED BY <2>1, <2>2, <2>3, <2>4 DEF Timer
<1>3. /\ invitation' = [p \in Players |->
             IF p \in G THEN [bg |-> c, time |-> now] ELSE invitation[p]]
      /\ slot' = [p \in Players |-> IF p \in G /\ slot[p] # NoSlot THEN c ELSE slot[p]]
      /\ bgs' = [bgs EXCEPT ![c] = r]
      /\ timers' = [timers EXCEPT ![L] = e]
  BY DEF InviteGroupToBG
<1>4. n \in [Teams -> 0..MaxPlayersPerTeam]
      /\ \A t \in Teams : n[t] = bg.invited[t] + Cardinality(Team(G, t))
  <2>1. \A t \in Teams : Team(G, t) = {p \in G : TeamOf(p) = t}
    BY DEF Team
  <2>2. ASSUME NEW t \in Teams
        PROVE  n[t] \in 0..MaxPlayersPerTeam
    <3> DEFINE x == bg.invited[t]
               y == Cardinality(Team(G, t))
    <3>1. x \in Nat /\ y \in Nat /\ x + y <= MaxPlayersPerTeam /\ MaxPlayersPerTeam \in Nat
      BY TeamCount, ConstantsAssumption DEF BattlegroundRecord
    <3> HIDE DEF x, y
    <3>2. x + y \in 0..MaxPlayersPerTeam
      BY <3>1
    <3> QED BY <2>1, <3>2 DEF x, y
  <2>3. \A t \in Teams : n[t] = bg.invited[t] + Cardinality(Team(G, t))
    BY <2>1
  <2> HIDE DEF n
  <2>4. n = [t \in Teams |-> n[t]]
    BY DEF n
  <2> QED BY <2>2, <2>3, <2>4
<1> HIDE DEF n
<1>5. /\ r \in BattlegroundRecord /\ r.status = bg.status /\ r.players = bgs[c].players
      /\ r.invited = n
  BY <1>4 DEF BattlegroundRecord
<1> HIDE DEF r
<1>6. /\ RecordsOK' /\ bgs'[c] = r /\ \A b \in Ids \ {c} : bgs'[b] = bgs[b]
  BY <1>1, <1>3, <1>5 DEF RecordsOK
<1>7. \A b \in Ids : /\ bgs'[b].players = bgs[b].players
                     /\ bgs[b].status # "none" => bgs'[b].status # "none"
  <2> SUFFICES ASSUME NEW b \in Ids
               PROVE  /\ bgs'[b].players = bgs[b].players
                      /\ bgs[b].status # "none" => bgs'[b].status # "none"
    OBVIOUS
  <2>1. CASE b = c
    BY <1>5, <1>6, <2>1
  <2>2. CASE b # c
    <3>1. bgs'[b] = bgs[b]
      BY <1>6, <2>2
    <3> QED BY <3>1
  <2> QED BY <2>1, <2>2
<1>8. /\ c \in 1..MaxBattlegrounds /\ MaxBattlegrounds \in Nat /\ MaxTimers \in Nat
  BY ConstantsAssumption DEF Ids
<1>9. /\ QueuesOK'
      /\ \A q \in Players : Queued(q)' <=> Queued(q)
      /\ \A q \in G : invitation'[q].bg = c /\ invitation'[q].time = now
      /\ \A q \in Players \ G : invitation'[q] = invitation[q]
  <2> HIDE DEF now
  <2>1. \A p \in Players : invitation'[p] =
          IF p \in G THEN [bg |-> c, time |-> now] ELSE invitation[p]
    BY <1>3
  <2>2. [bg |-> c, time |-> now] \in [bg : 0..MaxBattlegrounds, time : 0..MaxTimers]
    BY <1>2, <1>8
  <2>3. invitation' \in [Players -> [bg : 0..MaxBattlegrounds, time : 0..MaxTimers]]
    BY <1>1, <1>3, <2>2 DEF QueuesOK
  <2>4. QueuesOK' /\ \A q \in Players : Queued(q)' <=> Queued(q)
    BY <1>1, <2>3 DEF QueuesOK, TeamsOK, Queued
  <2>5. /\ \A q \in G : invitation'[q].bg = c /\ invitation'[q].time = now
        /\ \A q \in Players \ G : invitation'[q] = invitation[q]
    BY <2>1
  <2> QED BY <2>4, <2>5
<1>10. \A q \in G : /\ slot[q] = 0 /\ place[q] = "world" /\ bgInstanceID[q] = 0
                    /\ \A b \in Ids : q \notin bgs[b].players
  BY <1>1 DEF PlayersMatch, PlayerOK
<1>11. /\ PlayersOK'
       /\ \A q \in G : slot'[q] = c
       /\ \A q \in Players \ G : slot'[q] = slot[q]
  BY <1>1, <1>3, <1>8, <1>10 DEF PlayersOK, NoSlot
<1>12. PlayersMatch'
  <2> SUFFICES ASSUME NEW q \in Players
               PROVE  PlayerOK(q)'
    BY DEF PlayersMatch
  <2>1. CASE q \in G
    <3>1. \A b \in Ids : q \notin bgs'[b].players
      BY <1>7, <1>10, <2>1
    <3>2. c # NoSlot /\ bgs'[c].status # "none"
      BY <1>5, <1>6, <1>8 DEF NoSlot
    <3> QED BY <1>9, <1>10, <1>11, <2>1, <3>1, <3>2 DEF PlayerOK
  <2>2. CASE q \notin G
    BY <1>1, <1>7, <1>9, <1>11, <2>2, PlayerKept DEF PlayersMatch
  <2> QED BY <2>1, <2>2
<1>13. InvitedCountExact'
  <2>1. PICK before \in [Teams -> Nat] : before = bg.invited
    BY ConstantsAssumption DEF BattlegroundRecord
  <2>2. \A q \in G : ~ HoldsPlace(q, c)
    BY <1>8, <1>10 DEF HoldsPlace
  <2>3. \A t \in Teams : before[t] = Cardinality(Team(Held[c], t))
    BY <2>1
  <2>4. \A q \in Players, b \in Ids :
          HoldsPlace(q, b)' <=> HoldsPlace(q, b) \/ (b = c /\ q \in G)
    <3> SUFFICES ASSUME NEW q \in Players, NEW b \in Ids
                 PROVE  HoldsPlace(q, b)' <=> HoldsPlace(q, b) \/ (b = c /\ q \in G)
      OBVIOUS
    <3>0. b # 0
      BY DEF Ids
    <3>1. CASE q \in G
      <4>1. ~ HoldsPlace(q, b)
        BY <1>10, <3>0, <3>1 DEF HoldsPlace
      <4>2. HoldsPlace(q, b)' <=> b = c
        BY <1>7, <1>9, <1>10, <3>1 DEF HoldsPlace
      <4> QED BY <3>1, <4>1, <4>2
    <3>2. CASE q \notin G
      <4>1. /\ Queued(q)' <=> Queued(q)
            /\ invitation'[q] = invitation[q]
            /\ place'[q] = place[q] /\ bgInstanceID'[q] = bgInstanceID[q]
            /\ q \in bgs'[b].players <=> q \in bgs[b].players
        BY <1>7, <1>9, <3>2
      <4> QED BY <3>2, <4>1 DEF HoldsPlace
    <3> QED BY <3>1, <3>2
  <2>5. \A t \in Teams : bgs'[c].invited[t] = before[t] + Cardinality(Team(G, t))
    BY <1>4, <1>5, <1>6, <2>1
  <2>6. RecordsOK /\ InvitedCountExact /\ \A b \in Ids \ {c} : bgs'[b] = bgs[b]
    BY <1>1, <1>6
  <2> QED BY ONLY <2>2, <2>3, <2>4, <2>5, <2>6, before \in [Teams -> Nat],
                  G \in SUBSET Players, c \in Ids, CountTaken
<1>14. /\ e \in Timer /\ e.time = now /\ e.invited = timers[L].invited \cup (G \X {c})
  BY <1>2 DEF Timer
<1> HIDE DEF e, now
<1>15. /\ timers' \in Seq(Timer) /\ Len(timers') = L
       /\ \A i \in 1..L : timers'[i] = IF i = L THEN e ELSE timers[i]
  BY <1>2, <1>3, <1>14, ExceptSeq
<1>16. TimerTypesOK' /\ timers' # <<>>
  BY <1>1, <1>2, <1>15 DEF TimerTypesOK
<1>17. TimersOK'
  <2>1. \A i \in 1..L : timers'[i].time = timers[i].time
    BY <1>2, <1>14, <1>15
  <2>2. \A i, j \in 1..Len(timers') : timers'[i].time = timers'[j].time => i = j
    BY <1>1, <1>15, <2>1 DEF TimersOK
  <2>3. ASSUME NEW q \in Players, Queued(q)', NEW i \in 1..Len(timers'), NEW j \in 1..Len(timers'),
               timers'[i].time = invitation'[q].time, i < j, NEW b \in Ids
        PROVE  <<q, b>> \notin timers'[j].invited
    <3>1. i \in 1..L /\ j \in 1..L /\ timers[i].time = invitation'[q].time /\ Queued(q)
      BY <1>9, <1>15, <2>1, <2>3
    <3>2. q \notin G
      <4>1. CASE q \in G
        <5>1. timers[i].time = timers[L].time
          BY <1>2, <1>9, <3>1, <4>1
        <5>2. i = L
          BY <1>1, <1>2, <3>1, <5>1 DEF TimersOK
        <5> QED BY <1>2, <2>3, <3>1, <5>2
      <4> QED BY <4>1
    <3>3. <<q, b>> \notin timers[j].invited
      <4>1. timers[i].time = invitation[q].time
        BY <1>9, <3>1, <3>2
      <4> QED BY <1>1, <2>3, <3>1, <4>1 DEF TimersOK
    <3>4. CASE j = L
      BY <1>14, <1>15, <3>1, <3>2, <3>3, <3>4
    <3>5. CASE j # L
      BY <1>15, <3>1, <3>3, <3>5
    <3> QED BY <3>4, <3>5
  <2> QED BY <1>16, <2>2, <2>3 DEF TimersOK
<1> QED BY <1>5, <1>6, <1>9, <1>11, <1>12, <1>13, <1>16, <1>17


LEMMA FillBattlegroundKeeps ==
    ASSUME IInv, NEW c \in Ids, FillBattleground(c)
    PROVE  IInv'
<1>1. /\ QueuesOK /\ PlayersOK /\ TimerTypesOK /\ SlotsOK /\ RecordsOK /\ PlayersMatch
      /\ BattlegroundsOK /\ InvitedCountExact /\ TimersOK /\ UpdateOK
  BY Parts
<1>2. /\ step = "fill" /\ timers # <<>> /\ toFill # <<>> /\ toFill' = Tail(toFill)
      /\ UNCHANGED <<queue, bgInstanceID, place, scheduled, step, toUpdate>>
  BY <1>1 DEF FillBattleground, TimersOK
<1>3. UpdateOK'
  BY <1>1, <1>2, HeadTailProperties DEF UpdateOK
<1>4. CASE UNCHANGED <<invitation, slot, bgs, timers, freeSlotQueue>>
  BY <1>2, <1>3, <1>4, UpdateKeeps
<1>5. CASE /\ bgs[c].status \in {"join", "progress"}
           /\ InviteGroupToBG(FillPlayersToBG(c), c, bgs[c])
           /\ freeSlotQueue' = IF HasFreeSlots(bgs[c]) THEN freeSlotQueue
                               ELSE RemoveFirst(freeSlotQueue, c)
  <2>1. PICK G : G = FillPlayersToBG(c)
    OBVIOUS
  <2> DEFINE n == [t \in Teams |-> GetFreeSlotsForTeam(bgs[c], t)]
  <2>2. n \in [Teams -> Nat] /\ \A t \in Teams : bgs[c].invited[t] + n[t] <= MaxPlayersPerTeam
    BY <1>1, <1>5, FreeSlotsAreFree
  <2>3. G = UNION {SelectionPool(t, n[t]) : t \in Teams}
    BY <2>1 DEF FillPlayersToBG
  <2> HIDE DEF n
  <2>4. /\ G \in SUBSET Players
        /\ \A q \in G : Queued(q) /\ invitation[q].bg = 0
        /\ \A t \in Teams : Cardinality(Team(G, t)) <= n[t]
    BY <1>1, <2>2, <2>3, PoolsProperties
  <2>5. bgs[c] \in BattlegroundRecord
    BY <1>1 DEF RecordsOK
  <2>6. \A t \in Teams : bgs[c].invited[t] = Cardinality(Team(Held[c], t))
    BY <1>1, <1>5, HeldIsExact DEF Exact
  <2>7. \A t \in Teams : bgs[c].invited[t] + Cardinality(Team(G, t)) <= MaxPlayersPerTeam
    <3> SUFFICES ASSUME NEW t \in Teams
                 PROVE  bgs[c].invited[t] + Cardinality(Team(G, t)) <= MaxPlayersPerTeam
      OBVIOUS
    <3> DEFINE x == bgs[c].invited[t]
               y == Cardinality(Team(G, t))
               z == n[t]
    <3>1. x \in Nat /\ y \in Nat /\ z \in Nat /\ y <= z /\ x + z <= MaxPlayersPerTeam
          /\ MaxPlayersPerTeam \in Nat
      BY <2>2, <2>4, <2>5, TeamCount, ConstantsAssumption DEF BattlegroundRecord
    <3> HIDE DEF x, y, z
    <3>2. x + y <= MaxPlayersPerTeam
      BY <3>1
    <3> QED BY <3>2 DEF x, y
  <2>8. InviteGroupToBG(G, c, bgs[c])
    BY <1>5, <2>1
  <2>9. /\ QueuesOK' /\ PlayersOK' /\ TimerTypesOK' /\ RecordsOK' /\ PlayersMatch'
        /\ InvitedCountExact' /\ TimersOK'
        /\ bgs'[c].status = bgs[c].status /\ \A b \in Ids \ {c} : bgs'[b] = bgs[b]
    BY <1>2, <1>5, <2>4, <2>5, <2>6, <2>7, <2>8, InviteKeeps
  <2>10. SlotsOK' /\ \A b \in Ids : Contains(freeSlotQueue', b) => Contains(freeSlotQueue, b)
    <3>1. CASE freeSlotQueue' = freeSlotQueue
      BY <1>1, <3>1 DEF SlotsOK
    <3>2. CASE freeSlotQueue' = RemoveFirst(freeSlotQueue, c)
      BY <1>1, <3>2, RemoveFirstOfInjective DEF SlotsOK
    <3> QED BY <1>5, <3>1, <3>2
  <2>11. BattlegroundsOK'
    <3>1. \A b \in Ids : bgs'[b].status = bgs[b].status
      BY <2>9
    <3>2. \A b \in Ids \ {c} : bgs'[b].players = bgs[b].players
      BY <2>9
    <3> QED BY <1>1, <1>5, <2>10, <3>1, <3>2 DEF BattlegroundsOK
  <2> QED BY <1>3, <2>9, <2>10, <2>11, PartsNext
<1> QED BY <1>4, <1>5 DEF FillBattleground

LEMMA NewMatchKeeps ==
    ASSUME IInv, NEW c \in Ids, NewMatch(c)
    PROVE  IInv'
<1>1. /\ QueuesOK /\ PlayersOK /\ TimerTypesOK /\ SlotsOK /\ RecordsOK /\ PlayersMatch
      /\ BattlegroundsOK /\ InvitedCountExact /\ TimersOK /\ UpdateOK
  BY Parts
<1> DEFINE bg == [NoBattleground EXCEPT !.status = "join"]
           n == [t \in Teams |-> MinPlayersPerTeam]
           G == UNION {SelectionPool(t, n[t]) : t \in Teams}
<1>2. /\ step = "fill" /\ timers # <<>> /\ step' = "clients" /\ bgs[c].status = "none"
      /\ freeSlotQueue' = <<c>> \o freeSlotQueue
      /\ UNCHANGED <<queue, bgInstanceID, place, scheduled, toUpdate, toFill>>
  BY <1>1 DEF NewMatch, TimersOK
<1>3. UpdateOK'
  BY <1>1, <1>2 DEF UpdateOK
<1>4. InviteGroupToBG(G, c, bg)
  <2>1. G = UNION {SelectionPool(t, MinPlayersPerTeam) : t \in Teams}
    OBVIOUS
  <2> HIDE DEF G
  <2> QED BY <2>1 DEF NewMatch
<1>5. /\ n \in [Teams -> Nat] /\ \A t \in Teams : n[t] = MinPlayersPerTeam
      /\ MinPlayersPerTeam \in Nat /\ MaxPlayersPerTeam \in Nat
      /\ MinPlayersPerTeam <= MaxPlayersPerTeam
  BY ConstantsAssumption
<1>6. /\ G \in SUBSET Players
      /\ \A q \in G : Queued(q) /\ invitation[q].bg = 0
      /\ \A t \in Teams : Cardinality(Team(G, t)) <= n[t]
  <2> HIDE DEF n
  <2> QED BY <1>1, <1>5, PoolsProperties
<1> HIDE DEF G, n
<1>7. bgs[c].players = {}
  BY <1>1, <1>2 DEF BattlegroundsOK
<1>8. /\ bg \in BattlegroundRecord /\ bg.status = "join" /\ bg.players = {}
      /\ \A t \in Teams : bg.invited[t] = 0
  <2>1. /\ NoBattleground \in BattlegroundRecord /\ NoBattleground.players = {}
        /\ \A t \in Teams : NoBattleground.invited[t] = 0
    BY <1>5 DEF NoBattleground, BattlegroundRecord
  <2>2. /\ bg.status = "join" /\ bg.players = NoBattleground.players
        /\ bg.invited = NoBattleground.invited /\ bg \in BattlegroundRecord
    BY <2>1 DEF BattlegroundRecord
  <2> HIDE DEF bg
  <2> QED BY <2>1, <2>2
<1> HIDE DEF bg
<1>9. \A t \in Teams : bg.invited[t] = Cardinality(Team(Held[c], t))
  <2>1. \A q \in Players : ~ HoldsPlace(q, c)
    BY <1>1, <1>2, <1>7 DEF PlayersMatch, PlayerOK, HoldsPlace, Ids
  <2>2. Held[c] = {}
    BY <2>1 DEF Held
  <2> QED BY <1>8, <2>2, TeamOfNobody
<1>10. \A t \in Teams : bg.invited[t] + Cardinality(Team(G, t)) <= MaxPlayersPerTeam
  <2> SUFFICES ASSUME NEW t \in Teams
               PROVE  bg.invited[t] + Cardinality(Team(G, t)) <= MaxPlayersPerTeam
    OBVIOUS
  <2> DEFINE y == Cardinality(Team(G, t))
  <2>1. y \in Nat /\ y <= MinPlayersPerTeam /\ bg.invited[t] = 0
    BY <1>5, <1>6, <1>8, TeamCount
  <2> HIDE DEF y
  <2>2. 0 + y <= MaxPlayersPerTeam
    BY <1>5, <2>1
  <2> QED BY <2>1, <2>2 DEF y
<1>11. /\ QueuesOK' /\ PlayersOK' /\ TimerTypesOK' /\ RecordsOK' /\ PlayersMatch'
       /\ InvitedCountExact' /\ TimersOK'
       /\ bgs'[c].status = bg.status /\ \A b \in Ids \ {c} : bgs'[b] = bgs[b]
  BY <1>2, <1>4, <1>6, <1>7, <1>8, <1>9, <1>10, InviteKeeps
<1>12. ~ Contains(freeSlotQueue, c)
  BY <1>1, <1>2 DEF BattlegroundsOK
<1>13. /\ SlotsOK'
       /\ \A b \in Ids : Contains(freeSlotQueue', b) => Contains(freeSlotQueue, b) \/ b = c
  BY <1>1, <1>2, <1>12, OfferedFirst
<1>14. BattlegroundsOK'
  <2> SUFFICES ASSUME NEW b \in Ids
               PROVE  /\ bgs'[b].status = "none" => bgs'[b].players = {}
                      /\ Contains(freeSlotQueue', b) => bgs'[b].status \in {"join", "progress"}
    BY DEF BattlegroundsOK
  <2>1. CASE b = c
    BY <1>8, <1>11, <2>1
  <2>2. CASE b # c
    <3>1. bgs'[b] = bgs[b]
      BY <1>11, <2>2
    <3> QED BY <1>1, <1>13, <2>2, <3>1 DEF BattlegroundsOK
  <2> QED BY <2>1, <2>2
<1> QED BY <1>3, <1>11, <1>13, <1>14, PartsNext

LEMMA NoMatchKeeps ==
    ASSUME IInv, NoMatch
    PROVE  IInv'
<1>1. /\ QueuesOK /\ PlayersOK /\ TimerTypesOK /\ SlotsOK /\ RecordsOK /\ PlayersMatch
      /\ BattlegroundsOK /\ InvitedCountExact /\ TimersOK /\ UpdateOK
  BY Parts
<1>2. /\ step = "fill" /\ timers # <<>> /\ step' = "clients"
      /\ UNCHANGED <<queue, invitation, playerVars, bgs, freeSlotQueue, scheduled,
                     toUpdate, toFill>>
  BY <1>1 DEF NoMatch, TimersOK
<1>3. QueuesOK' /\ PlayersOK' /\ UpdateOK' /\ SlotsOK' /\ RecordsOK'
      /\ \A q \in Players : Queued(q)' <=> Queued(q)
  BY <1>1, <1>2, Unchanged DEF UpdateOK
<1>4. PlayersMatch' /\ BattlegroundsOK' /\ InvitedCountExact'
  BY <1>1, <1>2, Unchanged
<1>5. /\ timers' \in Seq(Timer) /\ Len(timers') <= Len(timers)
      /\ \A i \in 1..Len(timers') : i \in 1..Len(timers) /\ timers'[i] = timers[i]
  <2>1. timers \in Seq(Timer) /\ Len(timers) \in Nat /\ Len(timers) # 0
    BY <1>1, <1>2, EmptySeq, SeqEqual DEF TimerTypesOK
  <2>2. CASE timers' = timers
    BY <2>1, <2>2
  <2>3. CASE timers' = Front(timers)
    <3>1. timers' = SubSeq(timers, 1, Len(timers) - 1)
      BY <2>3 DEF Front
    <3>2. \A i \in 1..Len(timers) - 1 : i \in 1..Len(timers) /\ timers[i] \in Timer
      BY <2>1
    <3> QED BY <2>1, <3>1, <3>2, SubSeqProperties
  <2> QED BY <2>2, <2>3 DEF NoMatch
<1>6. TimerTypesOK'
  BY <1>1, <1>5, ConstantsAssumption DEF TimerTypesOK
<1>7. TimersOK'
  <2>1. \A i, j \in 1..Len(timers') : timers'[i].time = timers'[j].time => i = j
    BY <1>1, <1>5 DEF TimersOK
  <2>2. ASSUME NEW q \in Players, Queued(q)', NEW i \in 1..Len(timers'), NEW j \in 1..Len(timers'),
               timers'[i].time = invitation'[q].time, i < j, NEW b \in Ids
        PROVE  <<q, b>> \notin timers'[j].invited
    BY <1>1, <1>2, <1>3, <1>5, <2>2 DEF TimersOK
  <2> QED BY <1>2, <2>1, <2>2 DEF TimersOK
<1> QED BY <1>3, <1>4, <1>6, <1>7, PartsNext


-----------------------------------------------------------------------------
(* The invariant.                                                          *)

LEMMA InitEstablishes == Init => IInv
<1> SUFFICES ASSUME Init
             PROVE  IInv
  OBVIOUS
<1> USE DEF Init
<1>1. <<>> \in Seq(Players) /\ <<>> \in Seq(Ids) /\ <<>> \in Seq(Timer) /\ Len(<<>>) = 0
  BY EmptySeq
<1>2. /\ IsInjective(<<>>) /\ \A x : ~ Contains(<<>>, x)
  BY <1>1 DEF IsInjective, Contains
<1>3. \A t \in Teams : queue[t] = <<>>
  OBVIOUS
<1>4. \A p : ~ Queued(p)
  BY <1>2, <1>3, TeamsAre DEF Queued
<1>5. QueuesOK
  <2>1. NotInvited \in [bg : 0..MaxBattlegrounds, time : 0..MaxTimers]
    BY ConstantsAssumption DEF NotInvited
  <2>2. queue \in [Teams -> Seq(Players)]
    BY <1>1
  <2> QED BY <1>2, <1>3, <2>1, <2>2 DEF QueuesOK, TeamsOK
<1>6. PlayersOK
  BY ConstantsAssumption DEF PlayersOK
<1>7. UpdateOK /\ TimerTypesOK /\ SlotsOK
  <2>1. UpdateOK
    BY <1>1 DEF UpdateOK
  <2>2. TimerTypesOK
    <3>1. 0 <= MaxTimers
      BY ConstantsAssumption
    <3> QED BY <1>1, <3>1 DEF TimerTypesOK
  <2>3. SlotsOK
    BY <1>1, <1>2 DEF SlotsOK
  <2> QED BY <2>1, <2>2, <2>3
<1>8. /\ NoBattleground \in BattlegroundRecord /\ NoBattleground.players = {}
      /\ NoBattleground.status = "none"
  BY <1>1, ConstantsAssumption DEF NoBattleground, BattlegroundRecord
<1>9. RecordsOK /\ \A b \in Ids : bgs[b].players = {} /\ bgs[b].status = "none"
  BY <1>8 DEF RecordsOK
<1>10. BattlegroundsOK /\ InvitedCountExact
  BY <1>2, <1>9 DEF BattlegroundsOK, InvitedCountExact
<1>11. PlayersMatch
  BY <1>4, <1>9 DEF PlayersMatch, PlayerOK, NoSlot
<1>12. TimersOK
  BY <1>1 DEF TimersOK
<1> QED BY <1>5, <1>6, <1>7, <1>9, <1>10, <1>11, <1>12, Parts

LEMMA NextKeeps == IInv /\ [Next]_vars => IInv'
<1> SUFFICES ASSUME IInv, [Next]_vars
             PROVE  IInv'
  OBVIOUS
<1>1. ASSUME NEW p \in Players, ClientStep(p)
      PROVE  IInv'
  BY <1>1, HandleBattlemasterJoinKeeps, AcceptKeeps, DeclineKeeps, ArriveKeeps,
     LeaveKeeps, LogoutPlayerKeeps, LoginKeeps DEF ClientStep
<1>2. ASSUME NEW b \in Ids, EndBattleground(b) \/ BattlegroundStep(b)
      PROVE  IInv'
  BY <1>2, EndBattlegroundKeeps, UpdateEmptyKeeps, UpdateWaitsKeeps, ProcessJoinKeeps,
     ProcessOfflineQueueKeeps, ProcessProgressKeeps, ProcessLeaveKeeps DEF BattlegroundStep
<1>3. CASE BeginUpdate \/ UpdateEvents \/ EventsDone \/ UpdateQueues \/ NoMatch
  BY <1>3, BeginUpdateKeeps, UpdateEventsKeeps, EventsDoneKeeps, UpdateQueuesKeeps, NoMatchKeeps
<1>4. ASSUME NEW p \in Players, NEW b \in Ids, RemoveEvent(p, b)
      PROVE  IInv'
  BY <1>4, RemoveEventKeeps
<1>5. ASSUME NEW b \in Ids, FillBattleground(b) \/ NewMatch(b)
      PROVE  IInv'
  BY <1>5, FillBattlegroundKeeps, NewMatchKeeps
<1>6. CASE UNCHANGED vars
  <2>1. UNCHANGED <<queueVars, playerVars, bgs, freeSlotQueue, scheduled, updateVars>>
    BY <1>6 DEF vars
  <2>2. UpdateOK' /\ (step' \in {"events", "fill"} => timers # <<>>)
    BY <2>1, Parts, Unchanged DEF TimersOK
  <2> QED BY <2>1, <2>2, UpdateKeeps
<1> QED BY <1>1, <1>2, <1>3, <1>4, <1>5, <1>6 DEF Next

LEMMA InvariantHolds == Spec => []IInv
  BY InitEstablishes, NextKeeps, PTL DEF Spec

(* Every variable keeps its type: no invited count, a uint32, is ever       *)
(* decreased below zero or raised above MaxPlayersPerTeam, whatever the     *)
(* order in which players and updates end an invitation.                    *)
THEOREM TypeCorrect == Spec => []TypeOK
<1>1. IInv => TypeOK
  BY DEF IInv
<1> QED BY <1>1, InvariantHolds, PTL

(* The invited count of a battleground is at any time exactly the number of *)
(* players who hold a place in it: each of the ways out of the queue, of    *)
(* the journey and of the battleground gives its place back, and once.      *)
THEOREM InvitedCountHolds == Spec => []InvitedCountExact
<1>1. IInv => InvitedCountExact
  BY DEF IInv
<1> QED BY <1>1, InvariantHolds, PTL

(* A player has an entry for the queue exactly while he waits, travels or   *)
(* plays, and it names the battleground that counts him.                    *)
THEOREM EntriesHold == Spec => []EntriesMatch
<1>1. IInv => EntriesMatch
  BY DEF IInv
<1> QED BY <1>1, InvariantHolds, PTL

\* A timer takes a player out of the queue only if he has no later one.
LEMMA RemovedByLastTimer ==
    ASSUME IInv, NEW p \in Players, NEW c \in Ids, RemoveEvent(p, c),
           NEW q \in Players, Queued(q), ~ Queued(q)'
    PROVE  \A i \in 2..Len(timers) : \A b \in Ids : <<q, b>> \notin timers[i].invited
<1>1. QueuesOK /\ TimerTypesOK /\ TimersOK
  BY Parts
<1>2. timers # <<>> /\ timers \in Seq(Timer) /\ Len(timers) \in Nat
  BY <1>1 DEF RemoveEvent, TimersOK, TimerTypesOK
<1>3. q = p /\ invitation[p].time = Head(timers).time
  <2>1. CASE UNCHANGED <<queue, invitation>>
    BY <1>1, <2>1, Unchanged
  <2>2. CASE IsPlayerInvited(p, c, Head(timers).time) /\ RemovePlayer(p, TRUE)
    <3>1. \A x \in Players : Queued(x)' <=> Queued(x) /\ x # p
      BY <1>1, <2>2, DequeuedKeeps DEF RemovePlayer
    <3>2. invitation[p].time = Head(timers).time
      BY <2>2 DEF IsPlayerInvited
    <3> QED BY <3>1, <3>2
  <2> QED BY <2>1, <2>2 DEF RemoveEvent
<1>4. 1 \in 1..Len(timers) /\ timers[1].time = invitation[q].time
  BY <1>2, <1>3
<1>5. \A i \in 2..Len(timers) : i \in 1..Len(timers) /\ 1 < i
  BY <1>2
<1> QED BY <1>1, <1>4, <1>5 DEF TimersOK

\* While the timers are served nothing else changes the queue.
LEMMA StepOfEvents ==
    ASSUME Next, step = "events"
    PROVE  (\E p \in Players, b \in Ids : RemoveEvent(p, b)) \/ UNCHANGED <<queue, invitation>>
<1>1. ASSUME NEW p \in Players, ClientStep(p)
      PROVE  FALSE
  BY <1>1 DEF ClientStep, HandleBattlemasterJoin, Accept, Decline, Arrive, Leave,
     LogoutPlayer, Login
<1>2. ASSUME NEW b \in Ids, EndBattleground(b) \/ BattlegroundStep(b)
      PROVE  FALSE
  BY <1>2 DEF EndBattleground, BattlegroundStep, UpdateEmpty, UpdateWaits, ProcessJoin,
     ProcessOfflineQueue, ProcessProgress, ProcessLeave, Updating
<1>3. ASSUME BeginUpdate \/ UpdateEvents \/ UpdateQueues \/ NoMatch
      PROVE  FALSE
  BY <1>3 DEF BeginUpdate, UpdateEvents, UpdateQueues, NoMatch
<1>4. ASSUME NEW b \in Ids, FillBattleground(b) \/ NewMatch(b)
      PROVE  FALSE
  BY <1>4 DEF FillBattleground, NewMatch
<1>5. EventsDone => UNCHANGED <<queue, invitation>>
  BY DEF EventsDone
<1> QED BY <1>1, <1>2, <1>3, <1>4, <1>5 DEF Next

(* Of the timers that still run for a player only the last may take him out *)
(* of the queue: the rule the comment at BattlegroundQueue.cpp:1042 works   *)
(* through case by case.                                                    *)
THEOREM OnlyTheLastTimerHolds == Spec => OnlyTheLastTimer
<1> DEFINE Lasts ==
      step = "events" =>
        \A p \in Players : Queued(p) /\ ~ Queued(p)' =>
            \A i \in 2..Len(timers) : \A b \in Ids : <<p, b>> \notin timers[i].invited
<1>1. IInv /\ [Next]_vars => [Lasts]_vars
  <2> SUFFICES ASSUME IInv, Next, step = "events",
                      NEW q \in Players, Queued(q), ~ Queued(q)'
               PROVE  \A i \in 2..Len(timers) : \A b \in Ids : <<q, b>> \notin timers[i].invited
    OBVIOUS
  <2>1. CASE UNCHANGED <<queue, invitation>>
    BY <2>1, Parts, Unchanged
  <2>2. CASE \E p \in Players, b \in Ids : RemoveEvent(p, b)
    BY <2>2, RemovedByLastTimer
  <2> QED BY <2>1, <2>2, StepOfEvents
<1> QED BY <1>1, InvariantHolds, PTL DEF Spec, OnlyTheLastTimer

=============================================================================
