------------------------ MODULE MCBattlegroundQueue ------------------------
(* The instance of BattlegroundQueue that TLC checks: two players of the    *)
(* Alliance, who may be exchanged, and one of the Horde.                    *)
EXTENDS BattlegroundQueue, TLC

CONSTANTS a1, a2, h1

MCPlayers == {a1, a2, h1}
MCAlliance == {a1, a2}
Exchangeable == Permutations(MCAlliance)
=============================================================================
