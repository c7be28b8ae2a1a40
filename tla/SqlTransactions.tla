-------------------------- MODULE SqlTransactions --------------------------
(***************************************************************************)
(* DatabaseWorkerPool of one database: its queue and worker threads, its   *)
(* synchronous connections, MySQLConnection with the server's side of each *)
(* connection, TransactionTask, and the transaction callbacks of one       *)
(* WorldSession.                                                           *)
(*                                                                         *)
(* A statement is one step: it takes effect on the server, fails, or meets *)
(* a broken connection.  What a statement writes is one row.  Of the       *)
(* server, autocommit and the rollback of a deadlocked or disconnected     *)
(* transaction, and of one whose COMMIT it refuses, are modelled; that     *)
(* transactions do not see each other's uncommitted rows, and that a       *)
(* ROLLBACK over a working connection succeeds, is taken as given.         *)
(***************************************************************************)
EXTENDS Naturals, Sequences, FiniteSets, SequencesExt

CONSTANTS
    Workers,      \* asynchronous connections, one thread each
    Synch,        \* synchronous connections
    Fired,        \* transactions of CommitTransaction
    Watched,      \* transactions of AsyncCommitTransaction, one session's
    Direct,       \* transactions of DirectCommitTransaction
    Length,       \* number of statements of each transaction
    LoopBreaker,  \* retries of DirectCommitTransaction; 5 in the code
    Refusable,    \* bound: transactions the server may refuse, once, to begin or commit
    MaxFaults,    \* bound: those it refuses and connections that break, together
    None          \* no transaction, no thread

Connections == Workers \cup Synch
Transactions == Fired \cup Watched \cup Direct

ASSUME ConstantsAssumption ==
    /\ Workers \cap Synch = {} /\ None \notin Connections \cup Transactions
    /\ Length \in [Transactions -> Nat]
    /\ LoopBreaker \in Nat \ {0} /\ Refusable \subseteq Transactions /\ MaxFaults \in Nat

VARIABLES
    \* the process: "running", "closing" or "aborted"
    mode,
    \* the executor's queue, and the transactions handed to the pool so far
    queue, sent,
    \* a connection's thread: ExecuteTransaction and its callers
    task, pc, next, errorCode, tries,
    \* _deadlockLock, and whether its holder used up its minute
    retrier, expired,
    \* m_Mysql is not null; the server's side of it: in a transaction or not,
    \* and the rows not yet committed
    up, open, pending,
    \* the database: committed rows in order
    table,
    \* the futures, the callbacks waiting for them, the pass over these, and
    \* what the callbacks were told
    answered, callbacks, pass, kept, updating, owner, told,
    \* history: connections lost; transactions run over a broken connection or
    \* without the server having begun one; those refused, of either kind
    losses, hit, refused

thread == <<task, pc, next, errorCode, tries>>
retry == <<retrier, expired>>
server == <<up, open, pending>>
session == <<callbacks, pass, kept, updating, owner, told>>
history == <<losses, hit, refused>>
vars == <<mode, queue, sent, thread, retry, server, table, answered, session, history>>

Rows(t) == [i \in 1..Length[t] |-> <<t, i>>]

Init ==
    /\ mode = "running" /\ queue = <<>> /\ sent = {}
    /\ task = [c \in Connections |-> None] /\ pc = [c \in Connections |-> "idle"]
    /\ next = [c \in Connections |-> 1] /\ errorCode = [c \in Connections |-> "none"]
    /\ tries = [c \in Connections |-> 0]
    /\ retrier = None /\ expired = FALSE
    /\ up = [c \in Connections |-> TRUE] /\ open = [c \in Connections |-> FALSE]
    /\ pending = [c \in Connections |-> <<>>]
    /\ table = <<>>
    /\ answered = [t \in Transactions |-> "none"]
    /\ callbacks = <<>> /\ pass = <<>> /\ kept = <<>> /\ updating = FALSE
    /\ owner = TRUE /\ told = [t \in Watched |-> "none"]
    /\ losses = 0 /\ hit = {} /\ refused = {}

-----------------------------------------------------------------------------
(* Handing transactions to the pool.                                       *)

CommitTransaction(t) ==
    /\ mode = "running" /\ t \in Fired \ sent
    /\ sent' = sent \cup {t} /\ queue' = Append(queue, t)
    /\ UNCHANGED <<mode, thread, retry, server, table, answered, session, history>>

\* The session keeps the future in its callback processor.
AsyncCommitTransaction(t) ==
    /\ mode = "running" /\ owner /\ ~updating /\ t \in Watched \ sent
    /\ sent' = sent \cup {t} /\ queue' = Append(queue, t)
    /\ callbacks' = Append(callbacks, t)
    /\ UNCHANGED <<mode, thread, retry, server, table, answered, pass, kept, updating,
                   owner, told, history>>

\* GetFreeConnection found c; its owner's thread executes t itself.
DirectCommitTransaction(t, c) ==
    /\ mode = "running" /\ t \in Direct \ sent /\ c \in Synch /\ pc[c] = "idle"
    /\ sent' = sent \cup {t}
    /\ task' = [task EXCEPT ![c] = t] /\ pc' = [pc EXCEPT ![c] = "start"]
    /\ UNCHANGED <<mode, queue, next, errorCode, tries, retry, server, table, answered, session, history>>

\* A worker thread runs the next handler of the queue.
Take(c) ==
    /\ mode = "running" /\ c \in Workers /\ pc[c] = "idle" /\ queue # <<>>
    /\ queue' = Tail(queue)
    /\ task' = [task EXCEPT ![c] = Head(queue)] /\ pc' = [pc EXCEPT ![c] = "start"]
    /\ UNCHANGED <<mode, sent, next, errorCode, tries, retry, server, table, answered,
                   session, history>>

-----------------------------------------------------------------------------
(* TransactionTask::Execute and DirectCommitTransaction, from the return   *)
(* of ExecuteTransaction onwards.  Local variables are reset where they    *)
(* go out of scope.                                                        *)

Finish(c, answer) ==
    /\ task' = [task EXCEPT ![c] = None] /\ pc' = [pc EXCEPT ![c] = "idle"]
    /\ answered' = [answered EXCEPT ![task[c]] = answer]
    /\ tries' = [tries EXCEPT ![c] = 0]
    /\ retrier' = IF retrier = c THEN None ELSE retrier
    /\ expired' = (expired /\ retrier # c)

Continue(c, where) ==
    /\ pc' = [pc EXCEPT ![c] = where]
    /\ UNCHANGED <<task, answered, retry>>

\* Mutant: after its minute the task reports success.
ReturnToTaskOptimistic(c, code) ==
    CASE code = "none"                     -> Finish(c, "yes")
      [] code # "none" /\ retrier = c      -> IF expired THEN Finish(c, "yes")
                                              ELSE Continue(c, "start") /\ UNCHANGED tries
      [] code = "deadlock" /\ retrier # c  -> Continue(c, "lock") /\ UNCHANGED tries
      [] OTHER                             -> Finish(c, "no")

\* Mutant: the loop has no time limit.
ReturnToTaskForever(c, code) ==
    CASE code = "none"                     -> Finish(c, "yes")
      [] code # "none" /\ retrier = c      -> Continue(c, "start") /\ UNCHANGED tries
      [] code = "deadlock" /\ retrier # c  -> Continue(c, "lock") /\ UNCHANGED tries
      [] OTHER                             -> Finish(c, "no")

\* Mutant: the loop is not left on success.
ReturnToTaskAgain(c, code) ==
    CASE retrier = c                       -> IF expired THEN Finish(c, "no")
                                              ELSE Continue(c, "start") /\ UNCHANGED tries
      [] code = "none" /\ retrier # c      -> Finish(c, "yes")
      [] code = "deadlock" /\ retrier # c  -> Continue(c, "lock") /\ UNCHANGED tries
      [] OTHER                             -> Finish(c, "no")

\* While it retries, a task does not look at what kind of error it gets.
ReturnToTask(c, code) ==
    CASE code = "none"                     -> Finish(c, "yes")
      [] code # "none" /\ retrier = c      -> IF expired THEN Finish(c, "no")
                                              ELSE Continue(c, "start") /\ UNCHANGED tries
      [] code = "deadlock" /\ retrier # c  -> Continue(c, "lock") /\ UNCHANGED tries
      [] OTHER                             -> Finish(c, "no")

\* DirectCommitTransaction: an error in the first attempt that is no deadlock
\* is final, any later one is not.
ReturnToCaller(c, code) ==
    IF code = "none" \/ tries[c] = LoopBreaker \/ (tries[c] = 0 /\ code # "deadlock")
    THEN Finish(c, IF code = "none" THEN "yes" ELSE "no")
    ELSE Continue(c, "start") /\ tries' = [tries EXCEPT ![c] = @ + 1]

Return(c, code) ==
    /\ next' = [next EXCEPT ![c] = 1] /\ errorCode' = [errorCode EXCEPT ![c] = "none"]
    /\ IF c \in Workers THEN ReturnToTask(c, code) ELSE ReturnToCaller(c, code)

\* The lock under which one thread at a time retries.
TakeDeadlockLock(c) ==
    /\ mode # "aborted" /\ pc[c] = "lock" /\ retrier = None
    /\ retrier' = c
    /\ pc' = [pc EXCEPT ![c] = "start"]
    /\ UNCHANGED <<mode, queue, sent, task, next, errorCode, tries, expired, server, table,
                   answered, session, history>>

\* DEADLOCK_MAX_RETRY_TIME_MS have passed.
Expire ==
    /\ mode # "aborted" /\ retrier # None /\ ~expired
    /\ expired' = TRUE
    /\ UNCHANGED <<mode, queue, sent, thread, retrier, server, table, answered, session, history>>

-----------------------------------------------------------------------------
(* MySQLConnection::ExecuteTransaction.                                    *)

Running(c, where) == mode # "aborted" /\ task[c] # None /\ pc[c] = where

\* BeginTransaction, which ignores failure.  The server commits what a
\* transaction still open has pending.  An empty transaction is an error.
Start(c) ==
    /\ Running(c, "start")
    /\ UNCHANGED <<mode, queue, sent, session, losses, refused>>
    /\ \/ /\ Length[task[c]] = 0
          /\ Return(c, "error")
          /\ UNCHANGED <<server, table, hit>>
       \/ /\ Length[task[c]] > 0
          /\ pc' = [pc EXCEPT ![c] = "rows"] /\ next' = [next EXCEPT ![c] = 1]
          /\ open' = [open EXCEPT ![c] = up[c]] /\ pending' = [pending EXCEPT ![c] = <<>>]
          /\ table' = table \o pending[c]
          /\ hit' = IF up[c] THEN hit ELSE hit \cup {task[c]}
          /\ UNCHANGED <<task, errorCode, tries, retry, up, answered>>

\* The server may answer a transaction of c's with an error where the code
\* does not look.
Refusing(c) ==
    /\ up[c] /\ task[c] \in Refusable \ refused
    /\ refused' = refused \cup {task[c]}
    /\ losses + Cardinality(refused') <= MaxFaults

\* START TRANSACTION fails, the connection works: the statements that follow
\* run in autocommit mode.
StartRefused(c) ==
    /\ Running(c, "start") /\ Length[task[c]] > 0 /\ Refusing(c)
    /\ pc' = [pc EXCEPT ![c] = "rows"] /\ next' = [next EXCEPT ![c] = 1]
    /\ hit' = hit \cup {task[c]}
    /\ UNCHANGED <<mode, queue, sent, task, errorCode, tries, retry, server, table,
                   answered, session, losses>>

\* Mutant: the loop runs once more than there are statements.
StatementOnceMore(c) ==
    /\ Running(c, "rows") /\ next[c] <= Length[task[c]] + 1 /\ up[c]
    /\ next' = [next EXCEPT ![c] = @ + 1]
    /\ LET row == <<task[c], next[c]>>
       IN  IF open[c] THEN pending' = [pending EXCEPT ![c] = Append(@, row)] /\ UNCHANGED table
                      ELSE table' = Append(table, row) /\ UNCHANGED pending
    /\ UNCHANGED <<mode, queue, sent, task, pc, errorCode, tries, retry, up, open, answered,
                   session, history>>

\* The loop over m_queries: Execute succeeds.
Statement(c) ==
    /\ Running(c, "rows") /\ next[c] <= Length[task[c]] /\ up[c]
    /\ next' = [next EXCEPT ![c] = @ + 1]
    /\ LET row == <<task[c], next[c]>>
       IN  IF open[c] THEN pending' = [pending EXCEPT ![c] = Append(@, row)] /\ UNCHANGED table
                      ELSE table' = Append(table, row) /\ UNCHANGED pending
    /\ UNCHANGED <<mode, queue, sent, task, pc, errorCode, tries, retry, up, open, answered,
                   session, history>>

\* What GetLastError may say of a failed statement.  A deadlock needs another
\* connection with uncommitted rows; without m_Mysql, mysql_errno(nullptr) is
\* 0 or some older error.
Codes(c) ==
    IF ~up[c] THEN {"none", "error"}
    ELSE {"error"} \cup {code \in {"deadlock"} : \E d \in Connections \ {c} : pending[d] # <<>>}

\* Execute returns false.  A deadlock makes the server roll back at once.
StatementFails(c, code) ==
    /\ Running(c, "rows") /\ next[c] <= Length[task[c]] /\ code \in Codes(c)
    /\ errorCode' = [errorCode EXCEPT ![c] = code] /\ pc' = [pc EXCEPT ![c] = "rollback"]
    /\ IF code = "deadlock"
       THEN open' = [open EXCEPT ![c] = FALSE] /\ pending' = [pending EXCEPT ![c] = <<>>]
       ELSE UNCHANGED <<open, pending>>
    /\ UNCHANGED <<mode, queue, sent, task, next, tries, retry, up, table, answered, session,
                   history>>

\* Mutant: the error is returned without ROLLBACK.
RollbackTransactionNot(c) ==
    /\ Running(c, "rollback")
    /\ Return(c, errorCode[c])
    /\ UNCHANGED <<mode, queue, sent, server, table, session, history>>

\* ROLLBACK, and the error is returned.
RollbackTransaction(c) ==
    /\ Running(c, "rollback")
    /\ open' = [open EXCEPT ![c] = FALSE] /\ pending' = [pending EXCEPT ![c] = <<>>]
    /\ Return(c, errorCode[c])
    /\ UNCHANGED <<mode, queue, sent, up, table, session, history>>

\* COMMIT, whose outcome is ignored.
ExecuteCommit(c) ==
    /\ Running(c, "rows") /\ next[c] > Length[task[c]]
    /\ table' = table \o pending[c]
    /\ open' = [open EXCEPT ![c] = FALSE] /\ pending' = [pending EXCEPT ![c] = <<>>]
    /\ Return(c, "none")
    /\ UNCHANGED <<mode, queue, sent, up, session, history>>

\* COMMIT fails, the connection works: the server has rolled back, the code
\* does not ask, and 0 is returned all the same.
CommitRefused(c) ==
    /\ Running(c, "rows") /\ next[c] > Length[task[c]] /\ Refusing(c)
    /\ open' = [open EXCEPT ![c] = FALSE] /\ pending' = [pending EXCEPT ![c] = <<>>]
    /\ Return(c, "none")
    /\ UNCHANGED <<mode, queue, sent, up, table, session, losses, hit>>

\* The rows of the statement under way, if the server got to execute it.
InFlight(c) ==
    IF pc[c] = "rows" /\ next[c] > Length[task[c]] THEN pending[c]
    ELSE IF pc[c] = "rows" /\ ~open[c] THEN <<<<task[c], next[c]>>>> ELSE <<>>

\* The connection breaks during a statement.  The server rolls back;
\* _HandleMySQLErrno opens another connection, in autocommit mode, and the
\* same statement is run again, or fails for good if Open returns an error
\* that is not one of a lost connection.
LoseConnection(c, reopened) ==
    /\ mode # "aborted" /\ task[c] # None /\ pc[c] \in {"start", "rows", "rollback"}
    /\ up[c] /\ losses + Cardinality(refused) < MaxFaults
    /\ losses' = losses + 1 /\ hit' = hit \cup {task[c]}
    /\ up' = [up EXCEPT ![c] = reopened]
    /\ open' = [open EXCEPT ![c] = FALSE] /\ pending' = [pending EXCEPT ![c] = <<>>]
    /\ table' \in {table, table \o InFlight(c)}
    /\ UNCHANGED <<mode, queue, sent, thread, retry, answered, session, refused>>

\* ABORT: five attempts to reconnect failed, or a statement does not fit the
\* database; also the ping of KeepAlive over a null m_Mysql.  Of the process
\* nothing is left, of uncommitted rows neither.
Abort(c) ==
    /\ \/ mode # "aborted" /\ pc[c] \in {"start", "rows", "rollback"}
       \/ mode = "running" /\ pc[c] = "idle" /\ ~up[c]
    /\ mode' = "aborted" /\ queue' = <<>>
    /\ task' = [d \in Connections |-> None] /\ pc' = [d \in Connections |-> "idle"]
    /\ next' = [d \in Connections |-> 1] /\ errorCode' = [d \in Connections |-> "none"]
    /\ tries' = [d \in Connections |-> 0] /\ retrier' = None /\ expired' = FALSE
    /\ up' = [d \in Connections |-> FALSE] /\ open' = [d \in Connections |-> FALSE]
    /\ pending' = [d \in Connections |-> <<>>]
    /\ callbacks' = <<>> /\ pass' = <<>> /\ kept' = <<>>
    /\ updating' = FALSE /\ owner' = FALSE
    /\ UNCHANGED <<sent, table, answered, told, history>>

-----------------------------------------------------------------------------
(* WorldSession::ProcessQueryCallbacks, for its transactions.              *)

BeginPass ==
    /\ mode # "aborted" /\ owner /\ ~updating /\ callbacks # <<>>
    /\ updating' = TRUE /\ pass' = callbacks /\ callbacks' = <<>>
    /\ UNCHANGED <<mode, queue, sent, thread, retry, server, table, answered, kept, owner,
                   told, history>>

\* Mutant: a callback that is not ready is dropped.
InvokeIfReadyOnce ==
    /\ mode # "aborted" /\ updating /\ pass # <<>>
    /\ pass' = Tail(pass)
    /\ told' = [told EXCEPT ![Head(pass)] = answered[Head(pass)]]
    /\ UNCHANGED <<mode, queue, sent, thread, retry, server, table, answered, callbacks, kept,
                   updating, owner, history>>

\* remove_if comes to the next callback, and looks whether its future is ready.
InvokeIfReady ==
    /\ mode # "aborted" /\ updating /\ pass # <<>>
    /\ pass' = Tail(pass)
    /\ IF answered[Head(pass)] # "none"
       THEN told' = [told EXCEPT ![Head(pass)] = answered[Head(pass)]] /\ UNCHANGED kept
       ELSE kept' = Append(kept, Head(pass)) /\ UNCHANGED told
    /\ UNCHANGED <<mode, queue, sent, thread, retry, server, table, answered, callbacks,
                   updating, owner, history>>

EndPass ==
    /\ mode # "aborted" /\ updating /\ pass = <<>>
    /\ updating' = FALSE /\ callbacks' = callbacks \o kept /\ kept' = <<>>
    /\ UNCHANGED <<mode, queue, sent, thread, retry, server, table, answered, pass, owner,
                   told, history>>

\* The session is deleted: nobody waits for the answers any more.
DeleteSession ==
    /\ mode = "running" /\ owner /\ ~updating
    /\ owner' = FALSE /\ callbacks' = <<>>
    /\ UNCHANGED <<mode, queue, sent, thread, retry, server, table, answered, pass, kept,
                   updating, told, history>>

-----------------------------------------------------------------------------
(* Shutdown.                                                               *)

\* Close, after all sessions and callers of the pool are gone: the executor
\* is stopped.  Threads finish what they are executing; the rest of the queue
\* is destroyed with the executor.
Close ==
    /\ mode = "running" /\ ~owner /\ \A c \in Synch : pc[c] = "idle"
    /\ mode' = "closing"
    /\ UNCHANGED <<queue, sent, thread, retry, server, table, answered, session, history>>

Closed == mode = "closing" /\ \A c \in Connections : pc[c] = "idle"

Stopped == (Closed \/ mode = "aborted") /\ UNCHANGED vars

Step(c) ==
    \/ Take(c) \/ TakeDeadlockLock(c) \/ Start(c) \/ StartRefused(c) \/ Statement(c)
    \/ \E code \in {"none", "error", "deadlock"} : StatementFails(c, code)
    \/ RollbackTransaction(c) \/ ExecuteCommit(c) \/ CommitRefused(c)

Owner == BeginPass \/ InvokeIfReady \/ EndPass

Next ==
    \/ \E t \in Fired : CommitTransaction(t)
    \/ \E t \in Watched : AsyncCommitTransaction(t)
    \/ \E t \in Direct, c \in Synch : DirectCommitTransaction(t, c)
    \/ \E c \in Connections : Step(c) \/ Abort(c)
    \/ \E c \in Connections, reopened \in BOOLEAN : LoseConnection(c, reopened)
    \/ Expire \/ Owner \/ DeleteSession \/ Close \/ Stopped

Spec == Init /\ [][Next]_vars

\* Every connection's thread runs on, time passes, the session is updated.
FairSpec ==
    /\ Spec
    /\ \A c \in Connections : WF_vars(Step(c))
    /\ WF_vars(Expire) /\ WF_vars(Owner)

-----------------------------------------------------------------------------
ThreadOK ==
    /\ task \in [Connections -> Transactions \cup {None}]
    /\ pc \in [Connections -> {"idle", "start", "rows", "rollback", "lock"}]
    /\ \A c \in Connections : pc[c] = "idle" <=> task[c] = None
    /\ next \in [Connections -> Nat \ {0}]
    /\ \A c \in Connections : pc[c] = "rows" => next[c] <= Length[task[c]] + 1
    /\ errorCode \in [Connections -> {"none", "error", "deadlock"}]
    /\ tries \in [Connections -> 0..LoopBreaker]
    /\ retrier \in Workers \cup {None} /\ expired \in BOOLEAN

ServerOK ==
    /\ up \in [Connections -> BOOLEAN] /\ open \in [Connections -> BOOLEAN]
    /\ pending \in [Connections -> Seq(Transactions \X Nat)]
    /\ table \in Seq(Transactions \X Nat)

SessionOK ==
    /\ callbacks \in Seq(Watched) /\ pass \in Seq(Watched) /\ kept \in Seq(Watched)
    /\ updating \in BOOLEAN /\ owner \in BOOLEAN
    /\ told \in [Watched -> {"none", "yes", "no"}]

TypeOK ==
    /\ mode \in {"running", "closing", "aborted"}
    /\ queue \in Seq(Fired \cup Watched) /\ sent \subseteq Transactions
    /\ answered \in [Transactions -> {"none", "yes", "no"}]
    /\ ThreadOK /\ ServerOK /\ SessionOK
    /\ losses \in Nat
    /\ hit \subseteq Transactions /\ refused \subseteq Transactions

\* However the last transaction of a connection ended - committed, refused,
\* deadlocked, or over a connection that broke and was replaced - the next one
\* does not find its remains.  (MySQLConnection.cpp:419-431)
NothingLeftOpen ==
    \A c \in Connections : pc[c] \in {"idle", "lock"} => ~open[c] /\ pending[c] = <<>>

\* What a callback is told is true, but for two things the code does not look
\* at.  Success means that all rows are there, in order, once and together,
\* however many attempts it took, unless the server refused the COMMIT: then
\* there are none, and the callback is told success.  Failure means that there
\* are none.  Transactions run over a broken connection, or after a refused
\* START TRANSACTION, are excepted: they may be told success or failure with
\* some of their rows.  (Transaction.cpp:57-91, 98-107, MySQLConnection.cpp:394-434)
AnswerIsTrue ==
    \A t \in Watched \ hit :
        /\ told[t] = "yes" /\ t \notin refused =>
               \E k \in 0..Len(table) - Length[t] : \A i \in 1..Len(table) :
                   IF i \in k + 1..k + Length[t] THEN table[i] = Rows(t)[i - k]
                                                 ELSE table[i][1] # t
        /\ told[t] = "no" \/ t \in refused => \A i \in 1..Len(table) : table[i][1] # t

\* The whole pool, its retries and its reconnections implement transactions
\* that happen at once and are answered accordingly, except for those a broken
\* connection interrupted or the server did not begin, and for those whose
\* COMMIT it refused, which are forgotten whole.
\* (DatabaseWorkerPool.cpp:283-370)
Store == INSTANCE AtomicStore WITH
             answers <- answered, torn <- hit, forgotten <- refused \ hit
ImplementsStore == Store!Spec

\* A session that asked to be told is told, unless it goes first: no retry
\* loop, no reconnection and no pass over the callbacks loses the answer.
\* (AsyncCallbackProcessor.h:40-53)
EventuallyTold ==
    \A t \in Watched : t \in sent ~> (told[t] # "none" \/ ~owner \/ mode = "aborted")

\* Close returns: a worker that is retrying, or waits for the lock of the one
\* that is, comes to an end.  (DatabaseWorkerPool.cpp:166-174)
CloseEnds == mode = "closing" ~> (Closed \/ mode = "aborted")

\* What DatabaseWorkerPool.h:166 says of a transaction: it "will automatically
\* rollback if not commited".  One that failed leaves no rows, also when its
\* connection broke on the way.
RolledBack ==
    \A t \in Transactions :
        answered[t] = "no" => \A i \in 1..Len(table) : table[i][1] # t
=============================================================================
