\* A raid and a dungeon without a reset schedule share the pool of ids.
CONSTANTS
    p1 = p1
    p2 = p2
    g1 = g1
    d1 = d1
    d2 = d2
    Players = {p1, p2}
    Groups = {g1}
    Dungeons = {d1, d2}
    Kinds <- NormalAndBound
    MaxId = 3
    MaxData = 4
    MaxPassed = 0
    MaxGrouped = 0
    Nil = Nil
    Dangling = Dangling
    Failed = Failed
SPECIFICATION Spec
SYMMETRY Symmetry
CHECK_DEADLOCK FALSE
INVARIANTS SharedByEveryone
