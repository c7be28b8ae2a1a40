---------------------------- MODULE MCMapUpdater ----------------------------
(* The instance of MapUpdater that TLC checks, deadlock included.           *)
EXTENDS MapUpdater
=============================================================================
