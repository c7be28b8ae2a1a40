--------------------------- MODULE MCSessionQueue ---------------------------
(* Instances of SessionQueue for TLC: session objects are interchangeable,  *)
(* and so are accounts with the same permissions.                           *)
EXTENDS SessionQueue

SessionSymmetry == Permutations(Sessions)
StaffSymmetry == SessionSymmetry \cup Permutations(Accounts \ Staff)
FullSymmetry == SessionSymmetry \cup Permutations(Accounts)
=============================================================================
