----------------------- MODULE SqlTransactionsProofs -----------------------
(***************************************************************************)
(* Proofs about SqlTransactions, for any connections, transactions and     *)
(* numbers of statements: no remains of a transaction meet the next one,   *)
(* and the pool implements AtomicStore.                                    *)
(***************************************************************************)
EXTENDS SqlTransactions, SequenceTheorems, TLAPS

Codes3 == {"none", "error", "deadlock"}

(* A transaction is in one place: not yet handed over, queued once, with   *)
(* one connection, or answered.                                            *)
Placed ==
    /\ \A i, j \in 1..Len(queue) : queue[i] = queue[j] => i = j
    /\ \A i \in 1..Len(queue) : queue[i] \in sent /\ answered[queue[i]] = "none"
    /\ \A c \in Connections : task[c] # None =>
           /\ task[c] \in sent /\ answered[task[c]] = "none"
           /\ \A i \in 1..Len(queue) : queue[i] # task[c]
    /\ \A c, d \in Connections : task[c] = task[d] /\ task[c] # None => c = d
    /\ \A t \in Transactions \ sent : answered[t] = "none"

(* What the server holds for a connection: the statements so far while its *)
(* transaction is open, nothing otherwise, and outside of a transaction    *)
(* only when the connection broke.                                         *)
Served ==
    /\ \A c \in Connections : pc[c] = "lock" => c \in Workers
    /\ \A c \in Connections : open[c] => up[c]
    /\ \A c \in Connections : pc[c] \in {"idle", "lock", "start"} =>
           ~open[c] /\ pending[c] = <<>>
    /\ \A c \in Connections : pc[c] = "rows" =>
           IF open[c] THEN pending[c] = [i \in 1..next[c] - 1 |-> <<task[c], i>>]
                      ELSE pending[c] = <<>> /\ task[c] \in hit
    /\ \A c \in Connections :
           pc[c] = "rollback" /\ errorCode[c] = "none" => task[c] \in hit

(* Of the transactions whose COMMIT was refused, those that nothing else    *)
(* befell are answered with success.                                       *)
Forgotten == refused \ hit

Kept == \A t \in Forgotten : answered[t] = "yes"

Base == TypeOK /\ Placed /\ Served
IInv == Base /\ Kept

-----------------------------------------------------------------------------
(* Initial states.                                                         *)

LEMMA InitIInv == Init => IInv
<1> SUFFICES ASSUME Init PROVE IInv
  OBVIOUS
<1> USE ConstantsAssumption DEF Init
<1>1. TypeOK
  <2>1. ThreadOK
    <3>1. /\ task \in [Connections -> Transactions \cup {None}]
          /\ pc \in [Connections -> {"idle", "start", "rows", "rollback", "lock"}]
      OBVIOUS
    <3>2. \A c \in Connections : (pc[c] = "idle" <=> task[c] = None) /\ pc[c] # "rows"
      OBVIOUS
    <3>3. next \in [Connections -> Nat \ {0}]
      OBVIOUS
    <3>4. errorCode \in [Connections -> {"none", "error", "deadlock"}]
      OBVIOUS
    <3>5. tries \in [Connections -> 0..LoopBreaker]
      OBVIOUS
    <3>6. retrier \in Workers \cup {None} /\ expired \in BOOLEAN
      OBVIOUS
    <3> QED BY <3>1, <3>2, <3>3, <3>4, <3>5, <3>6, Zenon DEF ThreadOK
  <2>2. ServerOK
    BY DEF ServerOK
  <2>3. SessionOK
    <3>1. told \in [Watched -> {"none", "yes", "no"}]
      OBVIOUS
    <3>2. callbacks \in Seq(Watched) /\ pass \in Seq(Watched) /\ kept \in Seq(Watched)
      OBVIOUS
    <3> QED BY <3>1, <3>2 DEF SessionOK
  <2>4. queue \in Seq(Fired \cup Watched) /\ losses \in Nat
    OBVIOUS
  <2> QED BY <2>1, <2>2, <2>3, <2>4 DEF TypeOK
<1>2. Placed
  BY DEF Placed
<1>3. Served
  BY DEF Served
<1>4. Kept
  BY DEF Kept, Forgotten
<1> QED BY <1>1, <1>2, <1>3, <1>4 DEF IInv, Base

-----------------------------------------------------------------------------
(* The return of ExecuteTransaction: the transaction ends, or its          *)
(* connection goes on with it.                                             *)

Answer(code) == IF code = "none" THEN "yes" ELSE "no"

Ends(c, code) ==
    /\ task' = [task EXCEPT ![c] = None] /\ pc' = [pc EXCEPT ![c] = "idle"]
    /\ answered' = [answered EXCEPT ![task[c]] = Answer(code)]

GoesOn(c) ==
    /\ UNCHANGED <<task, answered>>
    /\ \/ pc' = [pc EXCEPT ![c] = "start"]
       \/ pc' = [pc EXCEPT ![c] = "lock"] /\ c \in Workers

LEMMA ReturnStep ==
    ASSUME TypeOK, NEW c \in Connections, NEW code \in Codes3, Return(c, code)
    PROVE  /\ next' = [next EXCEPT ![c] = 1] /\ errorCode' = [errorCode EXCEPT ![c] = "none"]
           /\ tries' \in [Connections -> 0..LoopBreaker]
           /\ retrier' \in Workers \cup {None} /\ expired' \in BOOLEAN
           /\ Ends(c, code) \/ (code # "none" /\ GoesOn(c))
<1> USE ConstantsAssumption DEF TypeOK, ThreadOK, Codes3
<1>1. next' = [next EXCEPT ![c] = 1] /\ errorCode' = [errorCode EXCEPT ![c] = "none"]
  BY DEF Return
<1>2. ASSUME Finish(c, Answer(code))
      PROVE  /\ tries' \in [Connections -> 0..LoopBreaker]
             /\ retrier' \in Workers \cup {None} /\ expired' \in BOOLEAN
             /\ Ends(c, code)
  <2>1. tries' \in [Connections -> 0..LoopBreaker]
    BY <1>2 DEF Finish
  <2>2. retrier' \in Workers \cup {None}
    BY <1>2 DEF Finish
  <2>3. expired' \in BOOLEAN
    BY <1>2, Zenon DEF Finish
  <2>4. Ends(c, code)
    BY <1>2 DEF Finish, Ends
  <2> QED BY <2>1, <2>2, <2>3, <2>4
<1>3. CASE c \in Workers
  <2>1. ReturnToTask(c, code)
    BY <1>3 DEF Return
  <2>2. \/ Finish(c, Answer(code))
        \/ code # "none" /\ Continue(c, "start") /\ UNCHANGED tries
        \/ code # "none" /\ Continue(c, "lock") /\ UNCHANGED tries
    BY <2>1 DEF ReturnToTask, Answer
  <2> QED BY <1>1, <1>2, <1>3, <2>2 DEF Continue, GoesOn, retry
<1>4. CASE c \notin Workers
  <2>1. ReturnToCaller(c, code)
    BY <1>4 DEF Return
  <2>2. \/ Finish(c, Answer(code))
        \/ /\ code # "none" /\ tries[c] # LoopBreaker
           /\ Continue(c, "start") /\ tries' = [tries EXCEPT ![c] = @ + 1]
    BY <2>1 DEF ReturnToCaller, Answer
  <2>3. ASSUME tries[c] # LoopBreaker, tries' = [tries EXCEPT ![c] = @ + 1]
        PROVE  tries' \in [Connections -> 0..LoopBreaker]
    BY <2>3
  <2> QED BY <1>1, <1>2, <2>2, <2>3 DEF Continue, GoesOn, retry
<1> QED BY <1>3, <1>4

-----------------------------------------------------------------------------
(* Steps of AtomicStore.                                                   *)

StoreStep == [Store!Next]_(Store!vars)

\* Nothing of the store changes.
LEMMA StoreStutters ==
    ASSUME UNCHANGED <<answered, table, hit, refused>> PROVE StoreStep
BY DEF StoreStep, Store!vars

\* A sequence is a prefix of its concatenation with another one, and what
\* follows is the other one.
LEMMA PrefixOfConcat ==
    ASSUME NEW S, NEW s \in Seq(S), NEW u \in Seq(S)
    PROVE  /\ IsPrefix(s, s \o u)
           /\ \A i \in Len(s) + 1 .. Len(s \o u) :
                \E j \in 1..Len(u) : (s \o u)[i] = u[j]
<1> DEFINE w == s \o u
<1>1. /\ w \in Seq(S) /\ Len(w) = Len(s) + Len(u)
      /\ \A i \in 1..Len(s) + Len(u) : w[i] = IF i <= Len(s) THEN s[i] ELSE u[i - Len(s)]
  BY ConcatProperties
<1>2. Len(s) \in Nat /\ Len(u) \in Nat
  OBVIOUS
<1> HIDE DEF w
<1>3. SubSeq(w, 1, Len(s)) = SubSeq(s, 1, Len(s))
  <2>1. \A i \in 1..Len(s) : w[i] = s[i] /\ s[i] \in S
    BY <1>1, <1>2
  <2>2. /\ SubSeq(w, 1, Len(s)) \in Seq(S) /\ SubSeq(s, 1, Len(s)) \in Seq(S)
        /\ Len(SubSeq(w, 1, Len(s))) = Len(s) /\ Len(SubSeq(s, 1, Len(s))) = Len(s)
        /\ \A i \in 1..Len(s) : SubSeq(w, 1, Len(s))[i] = SubSeq(s, 1, Len(s))[i]
    BY <1>2, <2>1
  <2> QED BY <2>2, SeqEqual
<1>4. IsPrefix(s, w)
  BY <1>1, <1>2, <1>3 DEF IsPrefix
<1>5. \A i \in Len(s) + 1 .. Len(w) : i - Len(s) \in 1..Len(u) /\ w[i] = u[i - Len(s)]
  BY <1>1, <1>2
<1> QED BY <1>4, <1>5 DEF w

\* Rows of a transaction over a broken connection become permanent.
LEMMA TearStep ==
    ASSUME TypeOK, TypeOK', Kept, NEW t \in Transactions, answered[t] = "none",
           hit' = hit \cup {t}, refused' \in {refused, refused \cup {t}},
           \/ answered' = answered
           \/ \E answer \in {"yes", "no"} : answered' = [answered EXCEPT ![t] = answer],
           NEW u \in Seq(Transactions \X Nat), \A j \in 1..Len(u) : u[j][1] = t,
           table' = table \o u
    PROVE  StoreStep
<1>1. \E answer \in {"none", "yes", "no"} : answered' = [answered EXCEPT ![t] = answer]
  <2>1. answered = [answered EXCEPT ![t] = "none"]
    BY DEF TypeOK
  <2> QED BY <2>1
<1>2. IsPrefix(table, table') /\ \A i \in Len(table) + 1 .. Len(table') : table'[i][1] = t
  BY PrefixOfConcat DEF TypeOK, ServerOK
<1>3. refused' \ hit' = refused \ hit
  BY DEF Kept, Forgotten
<1>4. Store!Tear(t)
  BY <1>1, <1>2, <1>3 DEF Store!Tear, Store!IsPrefix, IsPrefix
<1> QED BY <1>4 DEF StoreStep, Store!Next

\* A transaction ends as it is answered: with all of its rows or with none.
LEMMA SettleStep ==
    ASSUME NEW t \in Transactions, answered[t] = "none", t \notin hit, UNCHANGED <<hit, refused>>,
           NEW answer, answered' = [answered EXCEPT ![t] = answer],
           \/ answer = "yes" /\ table' = table \o Rows(t)
           \/ answer = "no" /\ table' = table
    PROVE  StoreStep
<1>1. CASE answer = "no"
  <2>1. Store!Refuse(t)
    BY <1>1 DEF Store!Refuse
  <2> QED BY <2>1 DEF StoreStep, Store!Next
<1>2. CASE answer = "yes"
  <2>1. Store!Apply(t)
    BY <1>2 DEF Store!Apply, Store!Rows, Rows
  <2> QED BY <2>1 DEF StoreStep, Store!Next
<1> QED BY <1>1, <1>2

\* A transaction whose COMMIT is refused is answered with success.
LEMMA ForgetStep ==
    ASSUME NEW t \in Transactions, answered[t] = "none", t \notin hit, UNCHANGED <<table, hit>>,
           refused' = refused \cup {t}, answered' = [answered EXCEPT ![t] = "yes"]
    PROVE  StoreStep
<1>1. refused' \ hit' = (refused \ hit) \cup {t}
  OBVIOUS
<1>2. Store!Forget(t)
  BY <1>1 DEF Store!Forget
<1> QED BY <1>2 DEF StoreStep, Store!Next

\* The answer of a transaction that is forgotten stays.
LEMMA KeptStep ==
    ASSUME TypeOK, Kept, StoreStep
    PROVE  Kept'
<1>1. answered \in [Transactions -> {"none", "yes", "no"}] /\ Forgotten \subseteq Transactions
  BY DEF TypeOK, Forgotten
<1>2. CASE UNCHANGED Store!vars
  BY <1>2 DEF Store!vars, Kept, Forgotten
<1>3. ASSUME NEW t \in Transactions, Store!Apply(t) \/ Store!Refuse(t) \/ Store!Tear(t)
      PROVE  Kept'
  <2>1. /\ answered[t] = "none" /\ Forgotten' = Forgotten
        /\ \E answer : answered' = [answered EXCEPT ![t] = answer]
    BY <1>3 DEF Store!Apply, Store!Refuse, Store!Tear, Forgotten
  <2> QED BY <1>1, <2>1 DEF Kept
<1>4. ASSUME NEW t \in Transactions, Store!Forget(t)
      PROVE  Kept'
  <2>1. /\ answered' = [answered EXCEPT ![t] = "yes"] /\ Forgotten' = Forgotten \cup {t}
    BY <1>4 DEF Store!Forget, Forgotten
  <2> QED BY <1>1, <2>1 DEF Kept
<1> QED BY <1>2, <1>3, <1>4 DEF StoreStep, Store!Next

-----------------------------------------------------------------------------
(* Handing transactions to the pool.                                       *)

LEMMA FrameStep ==
    ASSUME Placed, Served,
           UNCHANGED <<queue, sent, task, pc, next, errorCode, up, open, pending, answered, hit>>
    PROVE  Placed' /\ Served'
BY DEF Placed, Served

LEMMA EnqueueStep ==
    ASSUME TypeOK, Placed, NEW t \in (Fired \cup Watched) \ sent,
           sent' = sent \cup {t}, queue' = Append(queue, t), UNCHANGED <<task, answered>>
    PROVE  queue' \in Seq(Fired \cup Watched) /\ sent' \subseteq Transactions /\ Placed'
<1> USE DEF TypeOK, Transactions
<1>1. queue' \in Seq(Fired \cup Watched) /\ sent' \subseteq Transactions
  OBVIOUS
<1>2. /\ Len(queue') = Len(queue) + 1 /\ Len(queue) \in Nat
      /\ \A i \in 1..Len(queue') : queue'[i] = IF i <= Len(queue) THEN queue[i] ELSE t
  OBVIOUS
<1>3. \A i \in 1..Len(queue) : queue[i] # t
  BY DEF Placed
<1>4. \A i, j \in 1..Len(queue') : queue'[i] = queue'[j] => i = j
  BY <1>2, <1>3 DEF Placed
<1>5. \A i \in 1..Len(queue') : queue'[i] \in sent' /\ answered'[queue'[i]] = "none"
  BY <1>2 DEF Placed
<1>6. \A c \in Connections : task'[c] # None =>
          /\ task'[c] \in sent' /\ answered'[task'[c]] = "none"
          /\ \A i \in 1..Len(queue') : queue'[i] # task'[c]
  BY <1>2 DEF Placed
<1> QED BY <1>1, <1>4, <1>5, <1>6 DEF Placed

LEMMA CommitTransactionStep ==
    ASSUME IInv, NEW t \in Fired, CommitTransaction(t)
    PROVE  Base' /\ StoreStep
<1> USE DEF IInv, Base, CommitTransaction
<1> USE DEF thread, retry, server, session, history
<1>1. queue' \in Seq(Fired \cup Watched) /\ sent' \subseteq Transactions /\ Placed'
  BY EnqueueStep
<1>2. TypeOK'
  BY <1>1 DEF TypeOK, ThreadOK, ServerOK, SessionOK
<1>3. Served'
  BY DEF Served
<1> QED BY <1>1, <1>2, <1>3, StoreStutters

LEMMA AsyncCommitTransactionStep ==
    ASSUME IInv, NEW t \in Watched, AsyncCommitTransaction(t)
    PROVE  Base' /\ StoreStep
<1> USE DEF IInv, Base, AsyncCommitTransaction
<1> USE DEF thread, retry, server, session, history
<1>1. queue' \in Seq(Fired \cup Watched) /\ sent' \subseteq Transactions /\ Placed'
  BY EnqueueStep
<1>2. SessionOK'
  BY DEF TypeOK, SessionOK
<1>3. TypeOK'
  BY <1>1, <1>2 DEF TypeOK, ThreadOK, ServerOK
<1>4. Served'
  BY DEF Served
<1> QED BY <1>1, <1>3, <1>4, StoreStutters

\* A transaction that no connection, queue or answer knows gets a connection.
LEMMA AssignStep ==
    ASSUME TypeOK, NEW t \in Transactions, NEW c \in Connections, pc[c] = "idle",
           task' = [task EXCEPT ![c] = t], pc' = [pc EXCEPT ![c] = "start"],
           UNCHANGED <<next, errorCode, tries, retrier, expired>>
    PROVE  ThreadOK'
<1> USE ConstantsAssumption DEF TypeOK, ThreadOK
<1>1. /\ task' \in [Connections -> Transactions \cup {None}]
      /\ pc' \in [Connections -> {"idle", "start", "rows", "rollback", "lock"}]
  OBVIOUS
<1>2. \A d \in Connections : (pc'[d] = "idle" <=> task'[d] = None)
  OBVIOUS
<1>3. \A d \in Connections : pc'[d] = "rows" => next'[d] <= Length[task'[d]] + 1
  OBVIOUS
<1> QED BY <1>1, <1>2, <1>3

LEMMA DirectCommitTransactionStep ==
    ASSUME IInv, NEW t \in Direct, NEW c \in Synch, DirectCommitTransaction(t, c)
    PROVE  Base' /\ StoreStep
<1> USE DEF IInv, Base, DirectCommitTransaction
<1> USE DEF thread, retry, server, session, history, Transactions, Connections
<1>1. ThreadOK'
  BY AssignStep
<1>2. TypeOK'
  BY <1>1 DEF TypeOK, ServerOK, SessionOK
<1>3. Placed'
  BY DEF Placed, TypeOK, ThreadOK
<1>4. Served'
  BY DEF Served, TypeOK, ThreadOK
<1> QED BY <1>2, <1>3, <1>4, StoreStutters

LEMMA TakeStep ==
    ASSUME IInv, NEW c \in Connections, Take(c)
    PROVE  Base' /\ StoreStep
<1> USE DEF IInv, Base, Take
<1> USE DEF server, session, history, retry
<1> DEFINE t == Head(queue)
<1>1. /\ t = queue[1] /\ t \in Transactions /\ Len(queue) \in Nat \ {0}
      /\ queue' \in Seq(Fired \cup Watched) /\ Len(queue') = Len(queue) - 1
      /\ \A i \in 1..Len(queue') : i + 1 \in 1..Len(queue) /\ queue'[i] = queue[i + 1]
  BY DEF TypeOK, Transactions
<1>2. t # None
  BY <1>1, ConstantsAssumption
<1>3. ThreadOK'
  BY <1>1, AssignStep
<1>4. TypeOK'
  BY <1>1, <1>3 DEF TypeOK, ServerOK, SessionOK
<1>5. Placed'
  <2> USE <1>1 DEF TypeOK, ThreadOK
  <2>1. \A i, j \in 1..Len(queue') : queue'[i] = queue'[j] => i = j
    BY DEF Placed
  <2>2. \A i \in 1..Len(queue') : /\ queue'[i] \in sent' /\ answered'[queue'[i]] = "none"
                                  /\ queue'[i] # t
    BY DEF Placed
  <2>3. t \in sent /\ answered[t] = "none"
    BY DEF Placed
  <2>4. \A d \in Connections : task[d] # t
    BY <1>2 DEF Placed
  <2>5. \A d \in Connections : task'[d] = IF d = c THEN t ELSE task[d]
    OBVIOUS
  <2>6. \A d \in Connections : task'[d] # None =>
            /\ task'[d] \in sent' /\ answered'[task'[d]] = "none"
            /\ \A i \in 1..Len(queue') : queue'[i] # task'[d]
    BY <2>2, <2>3, <2>5 DEF Placed
  <2>7. \A d, e \in Connections : task'[d] = task'[e] /\ task'[d] # None => d = e
    BY <2>4, <2>5 DEF Placed
  <2> QED BY <2>1, <2>2, <2>6, <2>7 DEF Placed
<1>6. Served'
  BY DEF Served, TypeOK, ThreadOK
<1> QED BY <1>4, <1>5, <1>6, StoreStutters

LEMMA TakeDeadlockLockStep ==
    ASSUME IInv, NEW c \in Connections, TakeDeadlockLock(c)
    PROVE  Base' /\ StoreStep
<1> USE DEF IInv, Base, TakeDeadlockLock
<1> USE DEF server, session, history
<1>1. c \in Workers
  BY DEF Served
<1>2. ThreadOK'
  BY <1>1 DEF TypeOK, ThreadOK
<1>3. TypeOK'
  BY <1>2 DEF TypeOK, ServerOK, SessionOK
<1>4. Placed'
  BY DEF Placed
<1>5. Served'
  BY DEF Served, TypeOK, ThreadOK
<1> QED BY <1>3, <1>4, <1>5, StoreStutters

LEMMA ExpireStep ==
    ASSUME IInv, Expire
    PROVE  Base' /\ StoreStep
<1> USE DEF IInv, Base, Expire
<1> USE DEF thread, server, session, history
<1>1. TypeOK'
  BY DEF TypeOK, ThreadOK, ServerOK, SessionOK
<1>2. Placed' /\ Served'
  BY FrameStep
<1> QED BY <1>1, <1>2, StoreStutters

-----------------------------------------------------------------------------
(* MySQLConnection::ExecuteTransaction.                                    *)

\* Where a transaction returns to: a place to be without remains.
LEMMA ReturnKeeps ==
    ASSUME IInv, NEW c \in Connections, NEW code \in Codes3, Return(c, code),
           task[c] # None, ServerOK', UNCHANGED <<mode, queue, sent, up, session, losses, hit>>,
           refused' \subseteq Transactions,
           open' = [open EXCEPT ![c] = FALSE] \/ (UNCHANGED open /\ ~open[c]),
           pending' = [pending EXCEPT ![c] = <<>>] \/ (UNCHANGED pending /\ pending[c] = <<>>)
    PROVE  Base' /\ (Ends(c, code) \/ (code # "none" /\ GoesOn(c)))
<1> USE DEF IInv, Base
<1>1. /\ next' = [next EXCEPT ![c] = 1] /\ errorCode' = [errorCode EXCEPT ![c] = "none"]
      /\ tries' \in [Connections -> 0..LoopBreaker]
      /\ retrier' \in Workers \cup {None} /\ expired' \in BOOLEAN
      /\ Ends(c, code) \/ (code # "none" /\ GoesOn(c))
  BY ReturnStep
<1>2. task[c] \in Transactions
  BY DEF TypeOK, ThreadOK
<1>3. /\ task' \in [Connections -> Transactions \cup {None}]
      /\ pc' \in [Connections -> {"idle", "start", "rows", "rollback", "lock"}]
      /\ answered' \in [Transactions -> {"none", "yes", "no"}]
      /\ \A d \in Connections : pc'[d] = "idle" <=> task'[d] = None
      /\ \A d \in Connections :
            /\ d # c => pc'[d] = pc[d] /\ task'[d] = task[d]
            /\ d = c => pc'[d] \in {"idle", "start", "lock"}
            /\ d = c /\ pc'[d] = "lock" => c \in Workers
  <2> USE DEF TypeOK, ThreadOK
  <2>1. CASE Ends(c, code)
    <3>1. /\ task' = [task EXCEPT ![c] = None] /\ pc' = [pc EXCEPT ![c] = "idle"]
          /\ answered' \in [Transactions -> {"none", "yes", "no"}]
      BY <1>2, <2>1 DEF Ends, Answer
    <3>2. /\ \A d \in Connections : pc'[d] = IF d = c THEN "idle" ELSE pc[d]
          /\ \A d \in Connections : task'[d] = IF d = c THEN None ELSE task[d]
      BY <3>1
    <3>3. /\ task' \in [Connections -> Transactions \cup {None}]
          /\ pc' \in [Connections -> {"idle", "start", "rows", "rollback", "lock"}]
      BY <3>1
    <3> QED BY <3>1, <3>2, <3>3
  <2>2. CASE GoesOn(c)
    <3>1. PICK where \in {"start", "lock"} :
             /\ pc' = [pc EXCEPT ![c] = where] /\ (where = "lock" => c \in Workers)
             /\ task' = task /\ answered' = answered
      BY <2>2 DEF GoesOn
    <3>2. /\ \A d \in Connections : pc'[d] = IF d = c THEN where ELSE pc[d]
          /\ \A d \in Connections : task'[d] = task[d]
      BY <3>1
    <3>3. pc' \in [Connections -> {"idle", "start", "rows", "rollback", "lock"}]
      BY <3>1
    <3> QED BY <3>1, <3>2, <3>3
  <2> QED BY <1>1, <2>1, <2>2
<1>4. ThreadOK'
  <2>1. next' \in [Connections -> Nat \ {0}]
    BY <1>1 DEF TypeOK, ThreadOK
  <2>2. errorCode' \in [Connections -> {"none", "error", "deadlock"}]
    BY <1>1 DEF TypeOK, ThreadOK
  <2>3. \A d \in Connections : pc'[d] = "rows" => next'[d] <= Length[task'[d]] + 1
    BY <1>1, <1>3 DEF TypeOK, ThreadOK
  <2> QED BY <1>1, <1>3, <2>1, <2>2, <2>3 DEF ThreadOK
<1>5. TypeOK'
  BY <1>3, <1>4 DEF TypeOK, SessionOK, session
<1>6. Placed'
  <2>1. CASE GoesOn(c)
    BY <2>1 DEF Placed, GoesOn
  <2>2. CASE Ends(c, code)
    <3>1. \A d \in Connections : task'[d] = IF d = c THEN None ELSE task[d]
      BY <2>2 DEF Ends, TypeOK, ThreadOK
    <3>2. \A t \in Transactions : t # task[c] => answered'[t] = answered[t]
      BY <2>2 DEF Ends, TypeOK
    <3>3. \A i \in 1..Len(queue) : queue[i] \in Transactions /\ queue[i] # task[c]
      BY DEF Placed, TypeOK, Transactions
    <3>4. \A i \in 1..Len(queue') : queue'[i] \in sent' /\ answered'[queue'[i]] = "none"
      BY <3>2, <3>3 DEF Placed
    <3>5. \A d \in Connections : task'[d] # None =>
            /\ task'[d] \in sent' /\ answered'[task'[d]] = "none"
            /\ \A i \in 1..Len(queue') : queue'[i] # task'[d]
      <4> SUFFICES ASSUME NEW d \in Connections, task'[d] # None
                   PROVE  /\ task'[d] \in sent' /\ answered'[task'[d]] = "none"
                          /\ \A i \in 1..Len(queue') : queue'[i] # task'[d]
        OBVIOUS
      <4>1. d # c /\ task'[d] = task[d] /\ task[d] # None
        BY <3>1
      <4>2. task[d] # task[c] /\ task[d] \in Transactions
        BY <4>1 DEF Placed, TypeOK, ThreadOK
      <4> QED BY <3>2, <4>1, <4>2 DEF Placed
    <3>6. \A d, e \in Connections : task'[d] = task'[e] /\ task'[d] # None => d = e
      BY <3>1 DEF Placed
    <3>7. \A t \in Transactions \ sent' : answered'[t] = "none"
      BY <3>2 DEF Placed
    <3>8. \A i, j \in 1..Len(queue') : queue'[i] = queue'[j] => i = j
      BY DEF Placed
    <3> QED BY <3>4, <3>5, <3>6, <3>7, <3>8 DEF Placed
  <2> QED BY <1>1, <2>1, <2>2
<1>7. Served'
  <2>1. \A d \in Connections :
          /\ d # c => /\ open'[d] = open[d] /\ pending'[d] = pending[d]
                      /\ next'[d] = next[d] /\ errorCode'[d] = errorCode[d]
          /\ d = c => ~open'[d] /\ pending'[d] = <<>>
    BY <1>1 DEF TypeOK, ThreadOK, ServerOK
  <2> QED BY <1>3, <2>1 DEF Served
<1> QED BY <1>1, <1>5, <1>6, <1>7

\* A transaction that is executed is known and not answered.
LEMMA Executing ==
    ASSUME IInv, NEW c \in Connections, task[c] # None
    PROVE  task[c] \in Transactions /\ answered[task[c]] = "none"
BY DEF IInv, Base, TypeOK, ThreadOK, Placed

\* No rows are rows of any transaction.
LEMMA NoRows ==
    /\ <<>> \in Seq(Transactions \X Nat) /\ \A t : \A j \in 1..Len(<<>>) : <<>>[j][1] = t
    /\ TypeOK => table = table \o <<>>
BY DEF TypeOK, ServerOK

\* A transaction returns and nothing of it is permanent.
LEMMA ReturnWithoutRows ==
    ASSUME IInv, Base', NEW c \in Connections, task[c] # None, NEW code \in Codes3,
           UNCHANGED <<table, hit, refused>>, Ends(c, code) \/ GoesOn(c),
           code = "none" => task[c] \in hit
    PROVE  StoreStep
<1>1. PICK t \in Transactions : t = task[c] /\ answered[t] = "none"
  BY Executing
<1>2. CASE GoesOn(c)
  BY <1>2, StoreStutters DEF GoesOn
<1>3. CASE Ends(c, code) /\ t \notin hit
  BY <1>1, <1>3, SettleStep DEF Ends, Answer
<1>4. CASE Ends(c, code) /\ t \in hit
  <2>1. /\ table' = table \o <<>> /\ hit' = hit \cup {t} /\ refused' = refused
        /\ TypeOK /\ TypeOK' /\ Kept
    BY <1>4, NoRows DEF IInv, Base
  <2>2. \E answer \in {"yes", "no"} : answered' = [answered EXCEPT ![t] = answer]
    BY <1>1, <1>4 DEF Ends, Answer
  <2> QED BY <1>1, <2>1, <2>2, NoRows, TearStep
<1> QED BY <1>2, <1>3, <1>4

LEMMA StartStep ==
    ASSUME IInv, NEW c \in Connections, Start(c)
    PROVE  Base' /\ StoreStep
<1> DEFINE t == task[c]
<1>1. /\ pc[c] = "start" /\ t # None /\ t \in Transactions /\ answered[t] = "none"
      /\ ~open[c] /\ pending[c] = <<>>
  BY Executing DEF Start, Running, Served, IInv, Base
<1>2. CASE Length[t] = 0
  <2>1. /\ Return(c, "error")
        /\ UNCHANGED <<mode, queue, sent, session, losses, server, table, hit, refused>>
    BY <1>2 DEF Start
  <2>2. Base' /\ (Ends(c, "error") \/ GoesOn(c))
    BY <1>1, <2>1, ReturnKeeps DEF Codes3, server, history, IInv, Base, TypeOK, ServerOK
  <2> QED BY <1>1, <2>1, <2>2, ReturnWithoutRows DEF Codes3
<1>3. CASE Length[t] > 0
  <2> USE DEF IInv, Base
  <2>1. /\ UNCHANGED <<mode, queue, sent, session, losses, refused>>
        /\ pc' = [pc EXCEPT ![c] = "rows"] /\ next' = [next EXCEPT ![c] = 1]
        /\ open' = [open EXCEPT ![c] = up[c]] /\ pending' = [pending EXCEPT ![c] = <<>>]
        /\ table' = table \o pending[c]
        /\ hit' = IF up[c] THEN hit ELSE hit \cup {task[c]}
        /\ UNCHANGED <<task, errorCode, tries, retry, up, answered>>
    BY <1>3 DEF Start
  <2>2. table' = table
    BY <1>1, <2>1 DEF TypeOK, ServerOK
  <2>3. ThreadOK'
    BY <1>1, <1>3, <2>1, ConstantsAssumption DEF TypeOK, ThreadOK, retry
  <2>4. TypeOK'
    BY <1>1, <2>1, <2>2, <2>3 DEF TypeOK, ServerOK, SessionOK, session
  <2>5. Placed'
    BY <2>1 DEF Placed
  <2>6. Served'
    <3>1. [i \in 1..1 - 1 |-> <<t, i>>] = <<>>
      OBVIOUS
    <3>2. \A d \in Connections :
            /\ d # c => /\ open'[d] = open[d] /\ pending'[d] = pending[d] /\ pc'[d] = pc[d]
                        /\ next'[d] = next[d] /\ errorCode'[d] = errorCode[d]
            /\ d = c => /\ open'[d] = up[d] /\ pending'[d] = <<>> /\ pc'[d] = "rows"
                        /\ next'[d] = 1
            /\ task'[d] = task[d] /\ up'[d] = up[d]
      BY <2>1 DEF TypeOK, ThreadOK, ServerOK
    <3>3. hit \subseteq hit' /\ (~up[c] => t \in hit')
      BY <2>1
    <3> QED BY <3>1, <3>2, <3>3 DEF Served
  <2>7. ASSUME up[c] PROVE StoreStep
    BY <2>1, <2>2, <2>7, StoreStutters
  <2>8. ASSUME ~up[c] PROVE StoreStep
    <3>1. PICK s \in Transactions : s = t
      BY <1>1
    <3>2. answered[s] = "none" /\ answered' = answered /\ hit' = hit \cup {s}
      BY <1>1, <2>1, <2>8, <3>1
    <3>3. table' = table \o <<>> /\ TypeOK /\ Kept /\ refused' = refused
      BY <2>1, <2>2, NoRows
    <3> HIDE DEF t, IInv, Base
    <3> QED BY <2>4, <3>2, <3>3, NoRows, TearStep
  <2> QED BY <2>4, <2>5, <2>6, <2>7, <2>8
<1> QED BY <1>1, <1>2, <1>3 DEF Start

LEMMA StartRefusedStep ==
    ASSUME IInv, NEW c \in Connections, StartRefused(c)
    PROVE  Base' /\ StoreStep
<1> USE DEF IInv, Base
<1>1. PICK t \in Transactions : t = task[c] /\ answered[t] = "none"
  BY Executing DEF StartRefused, Running
<1>2. /\ pc[c] = "start" /\ t # None /\ Length[t] > 0
      /\ pc' = [pc EXCEPT ![c] = "rows"] /\ next' = [next EXCEPT ![c] = 1]
      /\ hit' = hit \cup {t} /\ refused' = refused \cup {t}
      /\ UNCHANGED <<mode, queue, sent, task, errorCode, tries, retrier, expired, table>>
      /\ UNCHANGED <<up, open, pending, answered, session, losses>>
  BY <1>1 DEF StartRefused, Running, Refusing, retry, server
<1>3. ThreadOK'
  BY <1>1, <1>2, ConstantsAssumption DEF TypeOK, ThreadOK
<1>4. TypeOK'
  BY <1>2, <1>3 DEF TypeOK, ServerOK, SessionOK, session
<1>5. Placed'
  BY <1>2 DEF Placed
<1>6. Served'
  <2>1. ~open[c] /\ pending[c] = <<>> /\ t \in hit'
    BY <1>2 DEF Served
  <2>2. \A d \in Connections : pc'[d] = (IF d = c THEN "rows" ELSE pc[d])
                              /\ (d # c => next'[d] = next[d])
    BY <1>2 DEF TypeOK, ThreadOK
  <2>3. hit \subseteq hit'
    BY <1>2
  <2> QED BY <1>1, <1>2, <2>1, <2>2, <2>3 DEF Served
<1>7. StoreStep
  <2>1. table' = table \o <<>> /\ TypeOK /\ Kept
    BY <1>2, NoRows
  <2> QED BY <1>1, <1>2, <1>4, <2>1, NoRows, TearStep
<1> QED BY <1>4, <1>5, <1>6, <1>7

\* The first n rows of a transaction, and one more.
LEMMA FirstRows ==
    ASSUME NEW t \in Transactions, NEW n \in Nat
    PROVE  LET rows == [i \in 1..n |-> <<t, i>>]
           IN  /\ rows \in Seq(Transactions \X Nat)
               /\ \A j \in 1..Len(rows) : rows[j][1] = t
               /\ Append(rows, <<t, n + 1>>) = [i \in 1..n + 1 |-> <<t, i>>]
<1> DEFINE rows == [i \in 1..n |-> <<t, i>>]
           more == [i \in 1..n + 1 |-> <<t, i>>]
<1>1. rows \in Seq(Transactions \X Nat) /\ Len(rows) = n
  OBVIOUS
<1>2. more \in Seq(Transactions \X Nat) /\ Len(more) = n + 1
  OBVIOUS
<1>3. \A i \in 1..n : rows[i] = <<t, i>>
  OBVIOUS
<1>4. \A i \in 1..n + 1 : more[i] = <<t, i>>
  OBVIOUS
<1> HIDE DEF rows, more
<1>5. /\ Append(rows, <<t, n + 1>>) \in Seq(Transactions \X Nat)
      /\ Len(Append(rows, <<t, n + 1>>)) = n + 1
      /\ \A i \in 1..n + 1 :
            Append(rows, <<t, n + 1>>)[i] = IF i <= n THEN rows[i] ELSE <<t, n + 1>>
  BY <1>1
<1>6. \A i \in 1..n + 1 : Append(rows, <<t, n + 1>>)[i] = more[i]
  <2> SUFFICES ASSUME NEW i \in 1..n + 1
               PROVE  Append(rows, <<t, n + 1>>)[i] = more[i]
    OBVIOUS
  <2>1. CASE i \in 1..n
    <3>1. i <= n /\ i \in 1..n + 1
      BY <2>1
    <3> QED BY <1>3, <1>4, <1>5, <2>1, <3>1
  <2>2. CASE i \notin 1..n
    <3>1. i = n + 1 /\ ~(i <= n)
      BY <2>2
    <3> QED BY <1>4, <1>5, <3>1
  <2> QED BY <2>1, <2>2
<1>7. Append(rows, <<t, n + 1>>) = more
  BY <1>2, <1>5, <1>6, SeqEqual
<1>8. \A j \in 1..Len(rows) : rows[j][1] = t
  BY <1>1, <1>3
<1> QED BY <1>1, <1>7, <1>8 DEF rows, more

LEMMA StatementStep ==
    ASSUME IInv, NEW c \in Connections, Statement(c)
    PROVE  Base' /\ StoreStep
<1> USE DEF IInv, Base
<1>1. PICK t \in Transactions : t = task[c] /\ answered[t] = "none"
  BY Executing DEF Statement, Running
<1>2. PICK n \in Nat \ {0} : n = next[c]
  BY DEF TypeOK, ThreadOK
<1>3. /\ pc[c] = "rows" /\ n <= Length[t] /\ up[c] /\ next' = [next EXCEPT ![c] = n + 1]
      /\ UNCHANGED <<mode, queue, sent, task, pc, errorCode, tries, retrier, expired, up, open>>
      /\ UNCHANGED <<answered, session, losses, hit, refused>>
      /\ IF open[c] THEN /\ pending' = [pending EXCEPT ![c] = Append(@, <<t, n>>)]
                         /\ UNCHANGED table
                    ELSE table' = Append(table, <<t, n>>) /\ UNCHANGED pending
  BY <1>1, <1>2 DEF Statement, Running, retry, history
<1>4. ThreadOK'
  <2>1. Length[t] \in Nat
    BY ConstantsAssumption
  <2>2. next' \in [Connections -> Nat \ {0}]
    BY <1>3 DEF TypeOK, ThreadOK
  <2>3. \A d \in Connections : pc'[d] = "rows" => next'[d] <= Length[task'[d]] + 1
    BY <1>1, <1>2, <1>3, <2>1 DEF TypeOK, ThreadOK
  <2>4. \A d \in Connections : pc'[d] = "idle" <=> task'[d] = None
    BY <1>3 DEF TypeOK, ThreadOK
  <2> QED BY <1>3, <2>2, <2>3, <2>4 DEF TypeOK, ThreadOK
<1>5. ServerOK'
  <2>1. /\ Append(pending[c], <<t, n>>) \in Seq(Transactions \X Nat)
        /\ Append(table, <<t, n>>) \in Seq(Transactions \X Nat)
    <3>1. <<t, n>> \in Transactions \X Nat
      OBVIOUS
    <3>2. pending[c] \in Seq(Transactions \X Nat) /\ table \in Seq(Transactions \X Nat)
      BY DEF TypeOK, ServerOK
    <3> QED BY <3>1, <3>2, AppendProperties
  <2>2. pending' \in [Connections -> Seq(Transactions \X Nat)]
    <3> DEFINE more == Append(pending[c], <<t, n>>)
    <3>1. pending' = [pending EXCEPT ![c] = more] \/ pending' = pending
      BY <1>3
    <3>2. more \in Seq(Transactions \X Nat)
      BY <2>1
    <3> HIDE DEF more
    <3> QED BY <3>1, <3>2 DEF TypeOK, ServerOK
  <2>3. table' \in Seq(Transactions \X Nat)
    BY <1>3, <2>1 DEF TypeOK, ServerOK
  <2> QED BY <1>3, <2>2, <2>3 DEF TypeOK, ServerOK
<1>6. TypeOK'
  BY <1>3, <1>4, <1>5 DEF TypeOK, SessionOK, session
<1>7. Placed'
  BY <1>3 DEF Placed
<1>8. CASE open[c]
  <2>1. pending[c] = [i \in 1..n - 1 |-> <<t, i>>]
    BY <1>1, <1>2, <1>3, <1>8 DEF Served
  <2>2. Append(pending[c], <<t, n>>) = [i \in 1..n |-> <<t, i>>]
    <3>1. n - 1 \in Nat /\ n - 1 + 1 = n
      OBVIOUS
    <3> QED BY <2>1, <3>1, FirstRows
  <2>3. \A d \in Connections :
          /\ d # c => pending'[d] = pending[d] /\ next'[d] = next[d]
          /\ d = c => /\ pending'[d] = [i \in 1..n |-> <<task[d], i>>]
                      /\ next'[d] - 1 = n
    <3>1. \A d \in Connections : next'[d] = IF d = c THEN n + 1 ELSE next[d]
      BY <1>3 DEF TypeOK, ThreadOK
    <3>2. pending' = [pending EXCEPT ![c] = [i \in 1..n |-> <<t, i>>]]
      BY <1>3, <1>8, <2>2
    <3>3. \A d \in Connections :
            pending'[d] = IF d = c THEN [i \in 1..n |-> <<t, i>>] ELSE pending[d]
      BY <3>2 DEF TypeOK, ServerOK
    <3>4. [i \in 1..n |-> <<t, i>>] = [i \in 1..n |-> <<task[c], i>>]
      BY <1>1
    <3>5. pending'[c] = [i \in 1..n |-> <<task[c], i>>] /\ next'[c] - 1 = n
      <4>1. next'[c] - 1 = n
        BY <3>1
      <4>2. pending'[c] = [i \in 1..n |-> <<t, i>>]
        BY <3>3
      <4> QED BY <3>4, <4>1, <4>2, Zenon
    <3>6. \A d \in Connections : d # c => pending'[d] = pending[d] /\ next'[d] = next[d]
      BY <3>1, <3>3
    <3> QED BY <3>5, <3>6, Zenon
  <2>4. Served'
    BY <1>3, <1>8, <2>3 DEF Served
  <2> QED BY <1>3, <1>6, <1>7, <1>8, <2>4, StoreStutters
<1>9. CASE ~open[c]
  <2>1. t \in hit
    BY <1>1, <1>3, <1>9 DEF Served
  <2>2. Served'
    BY <1>3, <1>9 DEF Served, TypeOK, ThreadOK
  <2>3. PICK u : u = << <<t, n>> >>
    OBVIOUS
  <2>4. u \in Seq(Transactions \X Nat) /\ \A j \in 1..Len(u) : u[j][1] = t
    BY <2>3
  <2>5. table' = table \o u
    <3>1. <<t, n>> \in Transactions \X Nat /\ table \in Seq(Transactions \X Nat)
      BY DEF TypeOK, ServerOK
    <3> QED BY <1>3, <1>9, <2>3, <3>1, AppendIsConcat
  <2>6. hit' = hit \cup {t} /\ answered' = answered /\ refused' = refused
    BY <1>3, <2>1
  <2>7. TypeOK /\ Kept
    OBVIOUS
  <2>8. StoreStep
    BY <1>1, <1>6, <2>4, <2>5, <2>6, <2>7, TearStep
  <2> QED BY <1>6, <1>7, <2>2, <2>8
<1> QED BY <1>8, <1>9

LEMMA StatementFailsStep ==
    ASSUME IInv, NEW c \in Connections, NEW code \in Codes3, StatementFails(c, code)
    PROVE  Base' /\ StoreStep
<1> USE DEF IInv, Base
<1>1. /\ pc[c] = "rows" /\ task[c] # None
      /\ errorCode' = [errorCode EXCEPT ![c] = code] /\ pc' = [pc EXCEPT ![c] = "rollback"]
      /\ UNCHANGED <<mode, queue, sent, task, next, tries, retrier, expired, up, table, answered>>
      /\ UNCHANGED <<session, losses, hit, refused>>
      /\ \/ open' = [open EXCEPT ![c] = FALSE] /\ pending' = [pending EXCEPT ![c] = <<>>]
         \/ UNCHANGED <<open, pending>>
  BY DEF StatementFails, Running, retry, history
<1>2. code = "none" => ~up[c]
  BY DEF StatementFails, Codes
<1>3. ThreadOK'
  <2>1. errorCode' \in [Connections -> {"none", "error", "deadlock"}]
    BY <1>1 DEF TypeOK, ThreadOK, Codes3
  <2>2. pc' \in [Connections -> {"idle", "start", "rows", "rollback", "lock"}]
    BY <1>1 DEF TypeOK, ThreadOK
  <2>3. \A d \in Connections : pc'[d] = "idle" <=> task'[d] = None
    BY <1>1 DEF TypeOK, ThreadOK
  <2>4. \A d \in Connections : pc'[d] = "rows" => next'[d] <= Length[task'[d]] + 1
    BY <1>1 DEF TypeOK, ThreadOK
  <2> QED BY <1>1, <2>1, <2>2, <2>3, <2>4 DEF TypeOK, ThreadOK
<1>4. ServerOK'
  <2>1. open' \in [Connections -> BOOLEAN]
    BY <1>1 DEF TypeOK, ServerOK
  <2>2. pending' \in [Connections -> Seq(Transactions \X Nat)]
    <3>1. pending' = [pending EXCEPT ![c] = <<>>] \/ pending' = pending
      BY <1>1
    <3>2. <<>> \in Seq(Transactions \X Nat)
      OBVIOUS
    <3> QED BY <3>1, <3>2 DEF TypeOK, ServerOK
  <2> QED BY <1>1, <2>1, <2>2 DEF TypeOK, ServerOK
<1>5. TypeOK'
  BY <1>1, <1>3, <1>4 DEF TypeOK, SessionOK, session
<1>6. Placed'
  BY <1>1 DEF Placed
<1>7. Served'
  <2>1. \A d \in Connections :
          /\ d # c => /\ open'[d] = open[d] /\ pending'[d] = pending[d] /\ pc'[d] = pc[d]
                      /\ errorCode'[d] = errorCode[d]
          /\ d = c => pc'[d] = "rollback" /\ errorCode'[d] = code /\ (open'[d] => open[d])
    BY <1>1 DEF TypeOK, ThreadOK, ServerOK
  <2>2. code = "none" => task[c] \in hit
    BY <1>1, <1>2 DEF Served
  <2> QED BY <1>1, <2>1, <2>2 DEF Served
<1> QED BY <1>1, <1>5, <1>6, <1>7, StoreStutters

LEMMA RollbackTransactionStep ==
    ASSUME IInv, NEW c \in Connections, RollbackTransaction(c)
    PROVE  Base' /\ StoreStep
<1>1. PICK code \in Codes3 : code = errorCode[c]
  BY DEF IInv, Base, TypeOK, ThreadOK, Codes3
<1>2. /\ pc[c] = "rollback" /\ task[c] # None /\ Return(c, code)
      /\ UNCHANGED <<mode, queue, sent, up, session, history, table>>
      /\ open' = [open EXCEPT ![c] = FALSE] /\ pending' = [pending EXCEPT ![c] = <<>>]
  BY <1>1 DEF RollbackTransaction, Running
<1>3. ServerOK'
  BY <1>2 DEF IInv, Base, TypeOK, ServerOK
<1>4. Base' /\ (Ends(c, code) \/ GoesOn(c))
  BY <1>2, <1>3, ReturnKeeps DEF history, IInv, Base, TypeOK
<1>5. code = "none" => task[c] \in hit
  BY <1>1, <1>2 DEF IInv, Base, Served
<1>6. StoreStep
  BY <1>2, <1>4, <1>5, ReturnWithoutRows DEF history
<1> QED BY <1>4, <1>6

LEMMA ExecuteCommitStep ==
    ASSUME IInv, NEW c \in Connections, ExecuteCommit(c)
    PROVE  Base' /\ StoreStep
<1>1. PICK t \in Transactions : t = task[c] /\ answered[t] = "none"
  BY Executing DEF ExecuteCommit, Running
<1>2. /\ pc[c] = "rows" /\ task[c] # None /\ next[c] > Length[t]
      /\ Return(c, "none") /\ table' = table \o pending[c]
      /\ UNCHANGED <<mode, queue, sent, up, session, history>>
      /\ open' = [open EXCEPT ![c] = FALSE] /\ pending' = [pending EXCEPT ![c] = <<>>]
  BY <1>1 DEF ExecuteCommit, Running
<1>3. ServerOK'
  BY <1>2 DEF IInv, Base, TypeOK, ServerOK
<1>4. "none" \in Codes3
  BY DEF Codes3
<1>5. Base' /\ Ends(c, "none")
  BY <1>2, <1>3, <1>4, ReturnKeeps DEF history, IInv, Base, TypeOK
<1>6. answered' = [answered EXCEPT ![t] = "yes"] /\ hit' = hit /\ refused' = refused
  BY <1>1, <1>2, <1>5 DEF Ends, Answer, history
<1>7. CASE open[c]
  <2>1. next[c] - 1 = Length[t]
    BY <1>1, <1>2, ConstantsAssumption DEF IInv, Base, TypeOK, ThreadOK
  <2>2. pending[c] = Rows(t)
    BY <1>1, <1>2, <1>7, <2>1 DEF IInv, Base, Served, Rows
  <2>3. pending[c] \in Seq(Transactions \X Nat) /\ \A j \in 1..Len(pending[c]) : pending[c][j][1] = t
    BY <2>2, FirstRows, ConstantsAssumption DEF Rows
  <2>4. CASE t \notin hit
    BY <1>1, <1>2, <1>5, <1>6, <2>2, <2>4, SettleStep
  <2>5. CASE t \in hit
    <3>1. hit' = hit \cup {t} /\ TypeOK /\ TypeOK' /\ Kept
      BY <1>5, <1>6, <2>5 DEF IInv, Base
    <3> QED BY <1>1, <1>2, <1>5, <1>6, <2>3, <3>1, TearStep
  <2> QED BY <2>4, <2>5
<1>8. CASE ~open[c]
  <2>1. pending[c] = <<>> /\ t \in hit
    BY <1>1, <1>2, <1>8 DEF IInv, Base, Served
  <2>2. hit' = hit \cup {t} /\ TypeOK /\ TypeOK' /\ Kept /\ table' = table \o <<>>
    BY <1>2, <1>5, <1>6, <2>1 DEF IInv, Base
  <2>3. StoreStep
    BY <1>1, <1>6, <2>2, NoRows, TearStep
  <2> QED BY <1>5, <2>3
<1> QED BY <1>7, <1>8

LEMMA CommitRefusedStep ==
    ASSUME IInv, NEW c \in Connections, CommitRefused(c)
    PROVE  Base' /\ StoreStep
<1>1. PICK t \in Transactions : t = task[c] /\ answered[t] = "none"
  BY Executing DEF CommitRefused, Running
<1>2. /\ task[c] # None /\ Return(c, "none") /\ refused' = refused \cup {t}
      /\ UNCHANGED <<mode, queue, sent, up, table, session, losses, hit>>
      /\ open' = [open EXCEPT ![c] = FALSE] /\ pending' = [pending EXCEPT ![c] = <<>>]
  BY <1>1 DEF CommitRefused, Running, Refusing
<1>3. ServerOK'
  BY <1>2 DEF IInv, Base, TypeOK, ServerOK
<1>4. "none" \in Codes3 /\ refused' \subseteq Transactions
  BY <1>2 DEF Codes3, IInv, Base, TypeOK
<1>5. Base' /\ Ends(c, "none")
  BY <1>2, <1>3, <1>4, ReturnKeeps
<1>6. answered' = [answered EXCEPT ![t] = "yes"]
  BY <1>1, <1>5 DEF Ends, Answer
<1>7. CASE t \notin hit
  BY <1>1, <1>2, <1>5, <1>6, <1>7, ForgetStep
<1>8. CASE t \in hit
  <2>1. /\ hit' = hit \cup {t} /\ refused' \in {refused, refused \cup {t}}
        /\ TypeOK /\ TypeOK' /\ Kept /\ table' = table \o <<>>
    BY <1>2, <1>5, <1>8, NoRows DEF IInv, Base
  <2>2. StoreStep
    BY <1>1, <1>6, <2>1, NoRows, TearStep
  <2> QED BY <1>5, <2>2
<1> QED BY <1>7, <1>8

LEMMA InFlightRows ==
    ASSUME IInv, NEW c \in Connections, NEW t \in Transactions, t = task[c]
    PROVE  /\ InFlight(c) \in Seq(Transactions \X Nat)
           /\ \A j \in 1..Len(InFlight(c)) : InFlight(c)[j][1] = t
<1>1. PICK n \in Nat \ {0} : n = next[c]
  BY DEF IInv, Base, TypeOK, ThreadOK
<1>2. CASE pc[c] = "rows" /\ n > Length[t]
  <2>1. InFlight(c) = pending[c]
    BY <1>1, <1>2 DEF InFlight
  <2>2. CASE open[c]
    <3>1. pending[c] = [i \in 1..n - 1 |-> <<t, i>>]
      BY <1>1, <1>2, <2>2 DEF IInv, Base, Served
    <3>2. n - 1 \in Nat
      OBVIOUS
    <3> QED BY <2>1, <3>1, <3>2, FirstRows
  <2>3. CASE ~open[c]
    <3>1. pending[c] = <<>>
      BY <1>2, <2>3 DEF IInv, Base, Served
    <3> QED BY <2>1, <3>1, NoRows
  <2> QED BY <2>2, <2>3
<1>3. CASE pc[c] = "rows" /\ ~(n > Length[t]) /\ ~open[c]
  <2>1. InFlight(c) = << <<t, n>> >>
    BY <1>1, <1>3 DEF InFlight
  <2> QED BY <2>1
<1>4. CASE pc[c] # "rows" \/ (~(n > Length[t]) /\ open[c])
  <2>1. InFlight(c) = <<>>
    BY <1>1, <1>4 DEF InFlight
  <2> QED BY <2>1, NoRows
<1> QED BY <1>2, <1>3, <1>4

LEMMA LoseConnectionStep ==
    ASSUME IInv, NEW c \in Connections, NEW reopened \in BOOLEAN, LoseConnection(c, reopened)
    PROVE  Base' /\ StoreStep
<1>1. PICK t \in Transactions : t = task[c] /\ answered[t] = "none"
  BY Executing DEF LoseConnection
<1>2. /\ pc[c] \in {"start", "rows", "rollback"}
      /\ losses' = losses + 1 /\ hit' = hit \cup {t} /\ refused' = refused
      /\ up' = [up EXCEPT ![c] = reopened]
      /\ open' = [open EXCEPT ![c] = FALSE] /\ pending' = [pending EXCEPT ![c] = <<>>]
      /\ table' \in {table, table \o InFlight(c)}
      /\ UNCHANGED <<mode, queue, sent, task, pc, next, errorCode, tries, retrier, expired>>
      /\ UNCHANGED <<answered, session>>
  BY <1>1 DEF LoseConnection, thread, retry
<1>3. PICK u \in Seq(Transactions \X Nat) :
         table' = table \o u /\ \A j \in 1..Len(u) : u[j][1] = t
  <2>1. CASE table' = table
    BY <2>1, NoRows DEF IInv, Base
  <2>2. CASE table' = table \o InFlight(c)
    BY <1>1, <2>2, InFlightRows
  <2> QED BY <1>2, <2>1, <2>2
<1>4. TypeOK'
  <2> USE DEF IInv, Base, TypeOK
  <2>1. ThreadOK'
    BY <1>2 DEF ThreadOK
  <2>2. up' \in [Connections -> BOOLEAN] /\ open' \in [Connections -> BOOLEAN]
    BY <1>2 DEF ServerOK
  <2>3. pending' \in [Connections -> Seq(Transactions \X Nat)]
    BY <1>2 DEF ServerOK
  <2>4. table' \in Seq(Transactions \X Nat)
    BY <1>3, ConcatProperties DEF ServerOK
  <2>5. ServerOK'
    BY <2>2, <2>3, <2>4 DEF ServerOK
  <2>6. losses' \in Nat
    BY <1>2
  <2>7. SessionOK' /\ hit' \subseteq Transactions
    BY <1>2 DEF SessionOK, session
  <2> QED BY <1>2, <2>1, <2>5, <2>6, <2>7
<1>5. Placed'
  BY <1>2 DEF IInv, Base, Placed
<1>6. Served'
  <2>1. \A d \in Connections :
          /\ d # c => open'[d] = open[d] /\ pending'[d] = pending[d] /\ up'[d] = up[d]
          /\ d = c => ~open'[d] /\ pending'[d] = <<>>
    BY <1>2 DEF IInv, Base, TypeOK, ServerOK
  <2> QED BY <1>1, <1>2, <2>1 DEF IInv, Base, Served
<1>7. StoreStep
  <2>1. TypeOK /\ Kept /\ answered' = answered /\ hit' = hit \cup {t} /\ refused' = refused
    BY <1>2 DEF IInv, Base
  <2> QED BY <1>1, <1>3, <1>4, <2>1, TearStep
<1> QED BY <1>4, <1>5, <1>6, <1>7 DEF IInv, Base

LEMMA AbortStep ==
    ASSUME IInv, NEW c \in Connections, Abort(c)
    PROVE  Base' /\ StoreStep
<1> USE ConstantsAssumption DEF Abort
<1>1. ThreadOK'
  <2>1. /\ task' \in [Connections -> Transactions \cup {None}]
        /\ pc' \in [Connections -> {"idle", "start", "rows", "rollback", "lock"}]
    OBVIOUS
  <2>2. \A d \in Connections : (pc'[d] = "idle" <=> task'[d] = None) /\ pc'[d] # "rows"
    OBVIOUS
  <2>3. next' \in [Connections -> Nat \ {0}]
    OBVIOUS
  <2>4. errorCode' \in [Connections -> {"none", "error", "deadlock"}]
    OBVIOUS
  <2>5. tries' \in [Connections -> 0..LoopBreaker]
    OBVIOUS
  <2>6. retrier' \in Workers \cup {None} /\ expired' \in BOOLEAN
    OBVIOUS
  <2> QED BY <2>1, <2>2, <2>3, <2>4, <2>5, <2>6, Zenon DEF ThreadOK
<1>2. ServerOK'
  BY DEF IInv, Base, TypeOK, ServerOK
<1>3. SessionOK'
  <2>1. callbacks' \in Seq(Watched) /\ pass' \in Seq(Watched) /\ kept' \in Seq(Watched)
    OBVIOUS
  <2>2. updating' \in BOOLEAN /\ owner' \in BOOLEAN
    OBVIOUS
  <2>3. told' \in [Watched -> {"none", "yes", "no"}]
    BY DEF IInv, Base, TypeOK, SessionOK
  <2> QED BY <2>1, <2>2, <2>3 DEF SessionOK
<1>4. TypeOK'
  BY <1>1, <1>2, <1>3 DEF IInv, Base, TypeOK, history
<1>5. Placed'
  BY DEF IInv, Base, Placed
<1>6. Served'
  BY DEF Served
<1>7. StoreStep
  BY StoreStutters DEF history
<1> QED BY <1>4, <1>5, <1>6, <1>7 DEF IInv, Base

-----------------------------------------------------------------------------
(* The session and the shutdown.                                           *)

\* Only the callbacks of the session change.
LEMMA SessionStep ==
    ASSUME IInv, SessionOK',
           UNCHANGED <<mode, queue, sent, thread, retry, server, table, answered, history>>
    PROVE  Base' /\ StoreStep
<1> USE DEF IInv, Base, thread, retry, server, history
<1>1. TypeOK'
  BY DEF TypeOK, ThreadOK, ServerOK
<1>2. Placed' /\ Served'
  BY FrameStep
<1> QED BY <1>1, <1>2, StoreStutters

LEMMA OwnerStep ==
    ASSUME IInv, Owner
    PROVE  Base' /\ StoreStep
<1>1. SessionOK
  BY DEF IInv, Base, TypeOK
<1>2. CASE BeginPass
  BY <1>1, <1>2, SessionStep DEF BeginPass, SessionOK
<1>3. CASE InvokeIfReady
  <2>1. Head(pass) \in Watched /\ Tail(pass) \in Seq(Watched)
    BY <1>1, <1>3 DEF InvokeIfReady, SessionOK
  <2>2. answered[Head(pass)] \in {"none", "yes", "no"}
    BY <2>1 DEF IInv, Base, TypeOK, Transactions
  <2>3. told' \in [Watched -> {"none", "yes", "no"}]
    BY <1>1, <1>3, <2>2 DEF InvokeIfReady, SessionOK
  <2>4. kept' \in Seq(Watched) /\ pass' \in Seq(Watched)
    <3>1. Append(kept, Head(pass)) \in Seq(Watched)
      BY <1>1, <2>1, AppendProperties DEF SessionOK
    <3>2. kept' \in {kept, Append(kept, Head(pass))} /\ pass' = Tail(pass)
      BY <1>3 DEF InvokeIfReady
    <3> QED BY <1>1, <2>1, <3>1, <3>2 DEF SessionOK
  <2> QED BY <1>1, <1>3, <2>3, <2>4, SessionStep DEF InvokeIfReady, SessionOK
<1>4. CASE EndPass
  <2>1. callbacks' \in Seq(Watched) /\ kept' \in Seq(Watched)
    BY <1>1, <1>4, ConcatProperties DEF EndPass, SessionOK
  <2> QED BY <1>1, <1>4, <2>1, SessionStep DEF EndPass, SessionOK
<1> QED BY <1>2, <1>3, <1>4 DEF Owner

LEMMA DeleteSessionStep ==
    ASSUME IInv, DeleteSession
    PROVE  Base' /\ StoreStep
<1>1. /\ owner' = FALSE /\ callbacks' = <<>> /\ UNCHANGED <<pass, kept, updating, told>>
      /\ UNCHANGED <<mode, queue, sent, thread, retry, server, table, answered, history>>
  BY DEF DeleteSession
<1>2. SessionOK'
  <2>1. callbacks' \in Seq(Watched)
    BY <1>1
  <2>2. SessionOK
    BY DEF IInv, Base, TypeOK
  <2>3. owner' \in BOOLEAN
    BY <1>1, Zenon
  <2> QED BY <1>1, <2>1, <2>2, <2>3 DEF SessionOK
<1> QED BY <1>1, <1>2, SessionStep

LEMMA CloseStep ==
    ASSUME IInv, Close
    PROVE  Base' /\ StoreStep
<1> USE DEF Close, thread, retry, server, session, history
<1>1. TypeOK'
  BY DEF IInv, Base, TypeOK, ThreadOK, ServerOK, SessionOK
<1>2. Placed' /\ Served'
  BY FrameStep DEF IInv, Base
<1> QED BY <1>1, <1>2, StoreStutters DEF IInv, Base

LEMMA StutterStep ==
    ASSUME IInv, UNCHANGED vars
    PROVE  Base' /\ StoreStep
<1> USE DEF vars
<1>1. SessionOK'
  BY DEF IInv, Base, TypeOK, SessionOK, session
<1> QED BY <1>1, SessionStep

-----------------------------------------------------------------------------
LEMMA NextStep == IInv /\ [Next]_vars => IInv' /\ StoreStep
<1> SUFFICES ASSUME IInv, [Next]_vars PROVE Base' /\ StoreStep
  BY KeptStep DEF IInv, Base
<1>1. ASSUME NEW t \in Fired, CommitTransaction(t) PROVE Base' /\ StoreStep
  BY <1>1, CommitTransactionStep
<1>2. ASSUME NEW t \in Watched, AsyncCommitTransaction(t) PROVE Base' /\ StoreStep
  BY <1>2, AsyncCommitTransactionStep
<1>3. ASSUME NEW t \in Direct, NEW c \in Synch, DirectCommitTransaction(t, c)
      PROVE  Base' /\ StoreStep
  BY <1>3, DirectCommitTransactionStep
<1>4. ASSUME NEW c \in Connections, Step(c) PROVE Base' /\ StoreStep
  <2>1. ASSUME NEW code \in {"none", "error", "deadlock"}, StatementFails(c, code)
        PROVE  Base' /\ StoreStep
    BY <2>1, StatementFailsStep DEF Codes3
  <2> QED BY <1>4, <2>1, TakeStep, TakeDeadlockLockStep, StartStep, StartRefusedStep,
             StatementStep, RollbackTransactionStep, ExecuteCommitStep, CommitRefusedStep DEF Step
<1>5. ASSUME NEW c \in Connections, Abort(c) PROVE Base' /\ StoreStep
  BY <1>5, AbortStep
<1>6. ASSUME NEW c \in Connections, NEW reopened \in BOOLEAN, LoseConnection(c, reopened)
      PROVE  Base' /\ StoreStep
  BY <1>6, LoseConnectionStep
<1>7. CASE Expire
  BY <1>7, ExpireStep
<1>8. CASE Owner
  BY <1>8, OwnerStep
<1>9. CASE DeleteSession
  BY <1>9, DeleteSessionStep
<1>10. CASE Close
  BY <1>10, CloseStep
<1>11. CASE Stopped \/ UNCHANGED vars
  BY <1>11, StutterStep DEF Stopped
<1> QED BY <1>1, <1>2, <1>3, <1>4, <1>5, <1>6, <1>7, <1>8, <1>9, <1>10, <1>11 DEF Next

LEMMA InvariantHolds == Spec => []IInv
<1>1. IInv /\ [Next]_vars => IInv'
  BY NextStep
<1> QED BY InitIInv, <1>1, PTL DEF Spec

\* The state stays well-formed: in particular a thread is idle exactly when it
\* has no transaction, and never runs past the end of one.
THEOREM TypeCorrect == Spec => []TypeOK
<1>1. IInv => TypeOK
  BY DEF IInv, Base
<1> QED BY <1>1, InvariantHolds, PTL

\* However a transaction ended or was interrupted, its connection has nothing of
\* it left when the next one begins.  (MySQLConnection.cpp:419-431)
THEOREM NothingLeft == Spec => []NothingLeftOpen
<1>1. IInv => NothingLeftOpen
  BY DEF IInv, Base, Served, NothingLeftOpen
<1> QED BY <1>1, InvariantHolds, PTL

\* Retries, reconnections and shutdown included, the pool does to the database
\* what atomic transactions would do and answers accordingly, with two
\* exceptions: of a transaction interrupted by a broken connection, or that the
\* server did not begin, any of its own rows may be there, whatever its answer;
\* one whose COMMIT the server refused has no rows and is answered with success.
\* (DatabaseWorkerPool.cpp:283-370, Transaction.cpp:35-91, MySQLConnection.cpp:394-434)
THEOREM StoreImplemented == Spec => ImplementsStore
<1>1. Init => Store!Init
  BY DEF Init, Store!Init
<1>2. IInv /\ [Next]_vars => [Store!Next]_(Store!vars)
  BY NextStep DEF StoreStep
<1> QED BY <1>1, <1>2, InvariantHolds, PTL DEF Spec, ImplementsStore, Store!Spec

-----------------------------------------------------------------------------
(* What the session is told.                                               *)

\* The rows of t are the ones after the first k.
Together(t, k) ==
    /\ k \in 0..Len(table) - Length[t]
    /\ \A i \in 1..Len(table) :
           IF i \in k + 1..k + Length[t] THEN table[i] = Rows(t)[i - k] ELSE table[i][1] # t

Absent(t) == \A i \in 1..Len(table) : table[i][1] # t

(* The answers are true, and the callbacks are told nothing else.          *)
Answers ==
    /\ \A t \in Transactions \ hit :
           IF answered[t] = "yes" /\ t \notin Forgotten
           THEN \E k \in Nat : Together(t, k) ELSE Absent(t)
    /\ \A t \in Watched : told[t] \in {"none", answered[t]}

LEMMA ToldStep == [Next]_vars => told' = told \/ InvokeIfReady
BY DEF Next, CommitTransaction, AsyncCommitTransaction, DirectCommitTransaction, Step, Take,
   TakeDeadlockLock, Start, StartRefused, Statement, StatementFails, RollbackTransaction,
   ExecuteCommit, CommitRefused, Abort, LoseConnection, Expire, Owner, BeginPass, EndPass, DeleteSession, Close, Stopped, vars, session

LEMMA RowsProperties ==
    ASSUME NEW t \in Transactions
    PROVE  /\ Rows(t) \in Seq(Transactions \X Nat) /\ Len(Rows(t)) = Length[t] /\ Length[t] \in Nat
           /\ \A i \in 1..Length[t] : Rows(t)[i] = <<t, i>> /\ Rows(t)[i][1] = t
<1>1. Length[t] \in Nat
  BY ConstantsAssumption
<1>2. Rows(t) = [i \in 1..Length[t] |-> <<t, i>>] /\ DOMAIN Rows(t) = 1..Length[t]
  BY DEF Rows
<1>3. \A i \in 1..Length[t] : <<t, i>> \in Transactions \X Nat /\ <<t, i>>[1] = t
  BY <1>1
<1>4. Rows(t) \in [1..Length[t] -> Transactions \X Nat]
  BY <1>2, <1>3
<1>5. Rows(t) \in Seq(Transactions \X Nat)
  BY <1>1, <1>4
<1>6. Len(Rows(t)) = Length[t]
  BY <1>1, <1>2, <1>5
<1> QED BY <1>1, <1>2, <1>5, <1>6

\* Rows appended to the table leave those of t as they are.
LEMMA AppendedRows ==
    ASSUME TypeOK, NEW t \in Transactions, table' \in Seq(Transactions \X Nat),
           Len(table) <= Len(table'), \A i \in 1..Len(table) : table'[i] = table[i],
           \A i \in Len(table) + 1 .. Len(table') : table'[i][1] # t
    PROVE  /\ Absent(t) => Absent(t)'
           /\ \A k \in Nat : Together(t, k) => Together(t, k)'
<1>1. Len(table) \in Nat /\ Len(table') \in Nat /\ Length[t] \in Nat
  BY ConstantsAssumption DEF TypeOK, ServerOK
<1>2. \A i \in 1..Len(table') : \/ i \in 1..Len(table) /\ table'[i] = table[i]
                                \/ i > Len(table) /\ table'[i][1] # t
  BY <1>1
<1>3. Absent(t) => Absent(t)'
  BY <1>2 DEF Absent
<1>4. ASSUME NEW k \in Nat, Together(t, k) PROVE Together(t, k)'
  <2>1. k + Length[t] <= Len(table) /\ k \in 0..Len(table') - Length[t]
    BY <1>1, <1>4 DEF Together
  <2>2. ASSUME NEW i \in 1..Len(table')
        PROVE  IF i \in k + 1..k + Length[t] THEN table'[i] = Rows(t)[i - k] ELSE table'[i][1] # t
    <3>1. CASE i \in 1..Len(table) /\ table'[i] = table[i]
      BY <1>4, <3>1 DEF Together
    <3>2. CASE i > Len(table) /\ table'[i][1] # t
      <4>1. i \notin k + 1..k + Length[t]
        BY <1>1, <2>1, <3>2
      <4> QED BY <3>2, <4>1
    <3> QED BY <1>2, <3>1, <3>2
  <2> QED BY <2>1, <2>2 DEF Together, Rows
<1> QED BY <1>3, <1>4

LEMMA AnswersStep == IInv /\ IInv' /\ Answers /\ [Next]_vars => Answers'
<1> SUFFICES ASSUME IInv, IInv', Answers, [Next]_vars PROVE Answers'
  OBVIOUS
<1>1. TypeOK /\ TypeOK' /\ StoreStep
  BY NextStep DEF IInv, Base
<1>2. /\ table \in Seq(Transactions \X Nat) /\ table' \in Seq(Transactions \X Nat)
      /\ Len(table) \in Nat /\ Len(table') \in Nat
      /\ answered \in [Transactions -> {"none", "yes", "no"}]
  BY <1>1 DEF TypeOK, ServerOK
<1>3. \A t \in Watched : t \in Transactions
  BY DEF Transactions
<1>4. \A t \in Transactions : answered[t] # "none" => answered'[t] = answered[t]
  <2>1. CASE UNCHANGED Store!vars
    BY <2>1 DEF Store!vars
  <2>2. ASSUME NEW t \in Transactions,
               Store!Apply(t) \/ Store!Refuse(t) \/ Store!Forget(t) \/ Store!Tear(t)
        PROVE  \A s \in Transactions : answered[s] # "none" => answered'[s] = answered[s]
    BY <1>2, <2>2 DEF Store!Apply, Store!Refuse, Store!Forget, Store!Tear
  <2> QED BY <1>1, <2>1, <2>2 DEF StoreStep, Store!Next
<1>5. \A t \in Watched : told'[t] \in {"none", answered'[t]}
  <2> SUFFICES ASSUME NEW t \in Watched PROVE told'[t] \in {"none", answered'[t]}
    OBVIOUS
  <2>1. told[t] \in {"none", answered[t]}
    BY DEF Answers
  <2>2. CASE told' = told
    BY <1>3, <1>4, <2>1, <2>2
  <2>3. CASE InvokeIfReady
    <3>1. Head(pass) \in Watched /\ told \in [Watched -> {"none", "yes", "no"}]
      BY <1>1, <2>3 DEF InvokeIfReady, TypeOK, SessionOK
    <3>2. told'[t] = told[t] \/ told'[t] = answered[t]
      BY <2>3, <3>1 DEF InvokeIfReady
    <3>3. answered' = answered
      BY <2>3 DEF InvokeIfReady
    <3> QED BY <2>1, <3>2, <3>3
  <2> QED BY <2>2, <2>3, ToldStep
<1>6. ASSUME NEW t \in Transactions \ hit'
      PROVE  IF answered'[t] = "yes" /\ t \notin Forgotten'
              THEN \E k \in Nat : Together(t, k)' ELSE Absent(t)'
  <2>1. CASE UNCHANGED Store!vars
    BY <1>6, <2>1 DEF Store!vars, Answers, Together, Absent, Rows, Forgotten
  <2>2. ASSUME NEW s \in Transactions, Store!Apply(s), s # t
        PROVE  IF answered'[t] = "yes" /\ t \notin Forgotten'
              THEN \E k \in Nat : Together(t, k)' ELSE Absent(t)'
    <3>1. /\ hit' = hit /\ answered'[t] = answered[t] /\ table' = table \o Rows(s)
          /\ Forgotten' = Forgotten
      BY <1>2, <2>2 DEF Store!Apply, Store!Rows, Rows, Forgotten
    <3>2. Rows(s) \in Seq(Transactions \X Nat) /\ \A i \in 1..Len(Rows(s)) : Rows(s)[i][1] = s
      BY RowsProperties
    <3>3. /\ Len(table) <= Len(table') /\ \A i \in 1..Len(table) : table'[i] = table[i]
          /\ \A i \in Len(table) + 1 .. Len(table') : table'[i][1] # t
      <4>1. /\ Len(table') = Len(table) + Len(Rows(s)) /\ Len(Rows(s)) \in Nat
            /\ \A i \in 1..Len(table') :
                   table'[i] = IF i <= Len(table) THEN table[i] ELSE Rows(s)[i - Len(table)]
        BY <1>2, <3>1, <3>2, ConcatProperties
      <4>2. \A i \in Len(table) + 1 .. Len(table') :
                i - Len(table) \in 1..Len(Rows(s)) /\ table'[i] = Rows(s)[i - Len(table)]
        BY <1>2, <4>1
      <4>3. \A i \in Len(table) + 1 .. Len(table') : table'[i][1] # t
        BY <2>2, <3>2, <4>2
      <4>4. \A i \in 1..Len(table) : table'[i] = table[i]
        BY <1>2, <4>1
      <4> QED BY <1>2, <4>1, <4>3, <4>4
    <3> QED BY <1>1, <1>2, <3>1, <3>3, AppendedRows DEF Answers
  <2>3. ASSUME Store!Apply(t)
        PROVE  IF answered'[t] = "yes" /\ t \notin Forgotten'
              THEN \E k \in Nat : Together(t, k)' ELSE Absent(t)'
    <3>1. hit' = hit /\ answered'[t] = "yes" /\ answered[t] = "none" /\ table' = table \o Rows(t)
      BY <1>2, <2>3 DEF Store!Apply, Store!Rows, Rows
    <3>0. t \notin Forgotten'
      BY <2>3, <3>1 DEF Store!Apply, Kept, Forgotten, IInv
    <3>2. Length[t] \in Nat /\ Rows(t) \in Seq(Transactions \X Nat) /\ Len(Rows(t)) = Length[t]
      BY RowsProperties
    <3>3. /\ Len(table') = Len(table) + Length[t]
          /\ \A i \in 1..Len(table') :
                 table'[i] = IF i <= Len(table) THEN table[i] ELSE Rows(t)[i - Len(table)]
      BY <1>2, <3>1, <3>2, ConcatProperties
    <3>4. Absent(t)
      BY <3>1 DEF Answers
    <3>5. \E k \in Nat : Together(t, k)'
      <4>1. ASSUME NEW i \in 1..Len(table')
            PROVE  IF i \in Len(table) + 1..Len(table) + Length[t]
                   THEN table'[i] = Rows(t)[i - Len(table)] ELSE table'[i][1] # t
        <5>1. CASE i \in 1..Len(table)
          <6>1. table'[i] = table[i] /\ i \notin Len(table) + 1..Len(table) + Length[t]
            BY <1>2, <3>2, <3>3, <5>1
          <6> QED BY <3>4, <5>1, <6>1 DEF Absent
        <5>2. CASE i \notin 1..Len(table)
          <6>1. /\ table'[i] = Rows(t)[i - Len(table)]
                /\ i \in Len(table) + 1..Len(table) + Length[t]
            BY <1>2, <3>2, <3>3, <5>2
          <6> QED BY <6>1
        <5> QED BY <5>1, <5>2
      <4>2. Len(table) \in 0..Len(table') - Length[t]
        BY <1>2, <3>2, <3>3
      <4>3. PICK n \in Nat : n = Len(table)
        BY <1>2
      <4>4. n \in 0..Len(table') - Length[t]
        BY <4>2, <4>3
      <4>5. \A i \in 1..Len(table') :
                IF i \in n + 1..n + Length[t] THEN table'[i] = Rows(t)[i - n] ELSE table'[i][1] # t
        BY <4>1, <4>3
      <4>6. Together(t, n)'
        BY <4>4, <4>5 DEF Together, Rows
      <4> QED BY <4>6
    <3> QED BY <1>2, <3>0, <3>1, <3>5
  <2>4. ASSUME NEW s \in Transactions, Store!Refuse(s)
        PROVE  IF answered'[t] = "yes" /\ t \notin Forgotten'
              THEN \E k \in Nat : Together(t, k)' ELSE Absent(t)'
    <3>1. /\ hit' = hit /\ table' = table /\ (answered'[t] = "yes" <=> answered[t] = "yes")
          /\ Forgotten' = Forgotten
      BY <1>2, <2>4 DEF Store!Refuse, Forgotten
    <3> QED BY <3>1 DEF Answers, Together, Absent, Rows
  <2>5. ASSUME NEW s \in Transactions, Store!Tear(s)
        PROVE  IF answered'[t] = "yes" /\ t \notin Forgotten'
              THEN \E k \in Nat : Together(t, k)' ELSE Absent(t)'
    <3>1. s # t /\ t \notin hit
      BY <2>5 DEF Store!Tear
    <3>2. answered'[t] = answered[t] /\ Forgotten' = Forgotten
      BY <1>2, <2>5, <3>1 DEF Store!Tear, Forgotten
    <3>3. /\ Len(table) <= Len(table') /\ \A i \in 1..Len(table) : table'[i] = table[i]
          /\ \A i \in Len(table) + 1 .. Len(table') : table'[i][1] # t
      <4>1. Len(table) <= Len(table') /\ SubSeq(table, 1, Len(table)) = SubSeq(table', 1, Len(table))
        BY <1>2, <2>5 DEF Store!Tear, Store!IsPrefix
      <4>2. \A i \in 1..Len(table) : table'[i] = table[i]
        BY <1>2, <4>1
      <4>3. \A i \in Len(table) + 1 .. Len(table') : table'[i][1] # t
        BY <2>5, <3>1 DEF Store!Tear
      <4> QED BY <4>1, <4>2, <4>3
    <3> QED BY <1>1, <1>2, <3>1, <3>2, <3>3, AppendedRows DEF Answers
  <2>6. ASSUME NEW s \in Transactions, Store!Forget(s)
        PROVE  IF answered'[t] = "yes" /\ t \notin Forgotten'
               THEN \E k \in Nat : Together(t, k)' ELSE Absent(t)'
    <3>1. /\ hit' = hit /\ table' = table /\ Forgotten' = Forgotten \cup {s}
          /\ answered[s] = "none" /\ (s # t => answered'[t] = answered[t])
      BY <1>2, <2>6 DEF Store!Forget, Forgotten
    <3> QED BY <3>1 DEF Answers, Together, Absent, Rows
  <2> QED BY <1>1, <2>1, <2>2, <2>3, <2>4, <2>5, <2>6 DEF StoreStep, Store!Next
<1> QED BY <1>5, <1>6 DEF Answers

\* What the callbacks of a session are told is true, for any statements, workers
\* and number of attempts: all rows together, or none.  Not so when the
\* connection broke or the server did not begin the transaction, which may be
\* answered either way with some rows, nor when it refused the COMMIT: success
\* is reported of no rows.
\* (Transaction.cpp:57-91, 98-107, MySQLConnection.cpp:394-434)
THEOREM AnswersAreTrue == Spec => []AnswerIsTrue
<1>1. Init => Answers
  <2>1. \A t \in Watched : t \in Transactions
    BY DEF Transactions
  <2> QED BY <2>1 DEF Init, Answers, Absent, Forgotten
<1>2. IInv /\ Answers => AnswerIsTrue
  <2> SUFFICES ASSUME Answers, NEW t \in Watched \ hit
               PROVE  /\ told[t] = "yes" /\ t \notin refused => \E k \in Nat : Together(t, k)
                      /\ told[t] = "no" \/ t \in refused => Absent(t)
    BY DEF AnswerIsTrue, Together, Absent
  <2>1. told[t] \in {"none", answered[t]} /\ t \in Transactions \ hit
    BY DEF Answers, Transactions
  <2> QED BY <2>1 DEF Answers, Forgotten
<1>3. IInv /\ IInv' /\ Answers /\ [Next]_vars => Answers'
  BY AnswersStep
<1> QED BY <1>1, <1>2, <1>3, InvariantHolds, PTL DEF Spec

=============================================================================
