\* Two players, one dungeon of each kind in turn.
CONSTANTS
    p1 = p1
    p2 = p2
    g1 = g1
    d1 = d1
    Players = {p1, p2}
    Groups = {g1}
    Dungeons = {d1}
    Kinds <- AllKinds
    MaxId = 2
    MaxData = 4
    MaxPassed = 4
    MaxGrouped = 1
    Nil = Nil
    Dangling = Dangling
    Failed = Failed
SPECIFICATION Spec
SYMMETRY Symmetry
CHECK_DEADLOCK FALSE
INVARIANTS TypeOK IdsTaken OneRaidPerId RaidStateStored OwnRaidOnly
PROPERTIES SavedRaidKept
