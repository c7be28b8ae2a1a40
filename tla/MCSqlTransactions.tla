------------------------- MODULE MCSqlTransactions -------------------------
(* The instances of SqlTransactions that TLC checks, deadlock included.     *)
EXTENDS SqlTransactions

CONSTANTS w1, w2, s1, t1, t2, t3

\* t1 has two statements, the others one.
MCLength == [t \in Transactions |-> IF t = t1 THEN 2 ELSE 1]
=============================================================================
