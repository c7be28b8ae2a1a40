--------------------------- MODULE MCInstanceLocks ---------------------------
EXTENDS InstanceLocks, TLC

Symmetry == Permutations(Players)

OnlyBound == {"bound"}
NormalAndBound == {"normal", "bound"}
=============================================================================
