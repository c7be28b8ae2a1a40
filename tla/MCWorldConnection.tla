------------------------- MODULE MCWorldConnection -------------------------
(* The instance of WorldConnection that TLC checks.                         *)
EXTENDS WorldConnection
=============================================================================
