CONSTANTS
    a1 = a1
    a2 = a2
    h1 = h1
    Players <- MCPlayers
    Alliance <- MCAlliance
    MinPlayersPerTeam = 1
    MaxPlayersPerTeam = 2
    MaxBattlegrounds = 2
    MaxTimers = 2
SYMMETRY Exchangeable
SPECIFICATION Spec
INVARIANTS TypeOK InvitedCountExact EntriesMatch
PROPERTIES OnlyTheLastTimer
