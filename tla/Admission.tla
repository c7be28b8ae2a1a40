----------------------------- MODULE Admission -----------------------------
(***************************************************************************)
(* What players may expect of the login queue: Limit places, a line served *)
(* from its head, a free place handed over at once, and nobody let in past *)
(* a waiting player except staff and players the reconnect tolerance lets  *)
(* in.  Sessions, sockets, queries and the order of the world thread's     *)
(* work are left out.                                                      *)
(***************************************************************************)
EXTENDS Integers, Sequences, FiniteSets, SequencesExt

CONSTANTS Accounts, Limit

VARIABLES
    inside,  \* the accounts past the queue
    line     \* the accounts waiting, next to be let in at the head

vars == <<inside, line>>

Room(in) == Limit = 0 \/ Cardinality(in) < Limit

Init == inside = {} /\ line = <<>>

\* Whoever is next takes a free place, if there is one.
HandOver(in, ln) ==
    IF Room(in) /\ ln # <<>>
    THEN [inside |-> in \cup {Head(ln)}, line |-> Tail(ln)]
    ELSE [inside |-> in, line |-> ln]

Become(world) == inside' = world.inside /\ line' = world.line

\* Account a arrives in a world it is not part of: straight in when there is
\* room and nobody waits, to the end of the line when there is none; staff
\* and tolerated players (the code's choice) go in regardless.
Arrive(world, a) ==
    \/ /\ Room(world.inside) /\ world.line = <<>>
       /\ inside' = world.inside \cup {a} /\ line' = world.line
    \/ /\ ~Room(world.inside)
       /\ inside' = world.inside /\ line' = Append(world.line, a)
    \/ /\ ~Room(world.inside)
       /\ inside' = world.inside \cup {a} /\ line' = world.line

Without(a) ==
    IF a \in inside THEN HandOver(inside \ {a}, line)
    ELSE [inside |-> inside, line |-> RemoveFirst(line, a)]

Present(a) == a \in inside \/ Contains(line, a)

Enter(a) == ~Present(a) /\ Arrive([inside |-> inside, line |-> line], a)
Leave(a) == Present(a) /\ Become(Without(a))
\* The account logs in again while its old session is still there.
Return(a) == Present(a) /\ Arrive(Without(a), a)
\* The server stops: the line is dissolved, everybody is shown the door.
Close == inside' = inside \cup ToSet(line) /\ line' = <<>>

Next == Close \/ \E a \in Accounts : Enter(a) \/ Leave(a) \/ Return(a)

Spec == Init /\ [][Next]_vars
=============================================================================
