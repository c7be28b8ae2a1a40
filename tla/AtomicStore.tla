---------------------------- MODULE AtomicStore ----------------------------
(***************************************************************************)
(* What the callers of DatabaseWorkerPool expect of a transaction: its     *)
(* rows reach the tables all at once, in their order and once, and it is   *)
(* answered with success, or not at all, and it is answered with failure.  *)
(* A transaction whose connection breaks under it, or that the server did  *)
(* not begin, is set apart in torn: nothing is promised of it but that it  *)
(* harms no other one.  One whose COMMIT the server refused is forgotten:  *)
(* answered with success, though none of its rows are kept.                *)
(***************************************************************************)
EXTENDS Naturals, Sequences, SequencesExt

CONSTANTS Transactions, Length

Rows(t) == [i \in 1..Length[t] |-> <<t, i>>]

VARIABLES
    table,     \* rows in the order they became permanent
    answers,   \* how a transaction ended: "yes" or "no"; "none" until then
    torn,      \* transactions run over a broken connection or not begun
    forgotten  \* transactions whose COMMIT was refused

vars == <<table, answers, torn, forgotten>>

Init ==
    /\ table = <<>> /\ answers = [t \in Transactions |-> "none"]
    /\ torn = {} /\ forgotten = {}

Apply(t) ==
    /\ answers[t] = "none" /\ t \notin torn
    /\ table' = table \o Rows(t) /\ answers' = [answers EXCEPT ![t] = "yes"]
    /\ UNCHANGED <<torn, forgotten>>

Refuse(t) ==
    /\ answers[t] = "none" /\ t \notin torn
    /\ answers' = [answers EXCEPT ![t] = "no"]
    /\ UNCHANGED <<table, torn, forgotten>>

Forget(t) ==
    /\ answers[t] = "none" /\ t \notin torn
    /\ answers' = [answers EXCEPT ![t] = "yes"] /\ forgotten' = forgotten \cup {t}
    /\ UNCHANGED <<table, torn>>

\* Rows of t only, and only while t is being executed.
Tear(t) ==
    /\ answers[t] = "none"
    /\ torn' = torn \cup {t}
    /\ \E answer \in {"none", "yes", "no"} : answers' = [answers EXCEPT ![t] = answer]
    /\ IsPrefix(table, table')
    /\ \A i \in Len(table) + 1 .. Len(table') : table'[i][1] = t
    /\ UNCHANGED forgotten

Next == \E t \in Transactions : Apply(t) \/ Refuse(t) \/ Forget(t) \/ Tear(t)

Spec == Init /\ [][Next]_vars
=============================================================================
