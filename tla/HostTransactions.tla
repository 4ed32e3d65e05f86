---------------------------- MODULE HostTransactions ----------------------------
(* Host transactions: Engine::begin opens a transaction whose slot is shared by  *)
(* the Transaction handle and every TxTransport made from it; the generated      *)
(* transaction / transaction_retrying run a host closure over such a transport,  *)
(* commit when it returns Ok, roll back when it returns Err and run it again     *)
(* after a deadlock.  A guarded call inside the closure runs its guard while the *)
(* transaction holds its connection, and the guard may check out another one.    *)
(* Plain tasks run one auto-committing mutation (apply / apply_once) on the same *)
(* pool.  The server and sqlx's transaction guard are modelled as the drivers    *)
(* use them.                                                                     *)
EXTENDS Naturals, FiniteSets

CONSTANTS
    Tasks,      \* each runs one transaction_retrying or one plain mutation
    Plain,      \* the tasks that run a plain mutation
    Guarded,    \* the tasks whose closure calls a guarded mutation
    Straying,   \* <<dialect, task>>: whose closure gives a client to a task that outlives it
    Dropped,    \* the tasks whose future the host may drop
    Exhausted,  \* the tasks one of whose statements may find SQLite out of disk or memory
    Asks,       \* task -> the options its transaction asks for
    Conns,      \* the pool's connections
    NoConn,
    Dialects,   \* the dialects the run considers
    Ignored,    \* <<dialect, error>>: the errors of a call a closure may ignore
    MaxRetry,   \* Retry::max
    MaxCalls    \* bound: calls on one transaction

ASSUME HostAssumption ==
    /\ NoConn \notin Conns
    /\ Plain \cup Guarded \cup Dropped \cup Exhausted \subseteq Tasks
    /\ Dialects \subseteq {"mariadb", "postgres", "sqlite"}
    /\ MaxRetry \in Nat /\ MaxCalls \in Nat \ {0}

VARIABLES
    dialect,
    conn,    \* connection -> what the server keeps for it
    task,    \* task -> its transaction_retrying (or apply) loop
    call,    \* task -> the call that holds its slot's lock, if any
    told,    \* task -> the calls of each attempt that were answered 200
    db       \* the committed writes

vars == <<dialect, conn, task, call, told, db>>

Writes == {<<t, a, n, s>> : t \in Tasks, a \in 0..MaxRetry, n \in 1..MaxCalls, s \in 1..2}
\* `missing`: no row matched; `full`: SQLite found no disk or memory and gave the
\* transaction up; `other` stands for what no retry helps.
Errors == {"constraint", "deadlock", "busy", "missing", "full", "other"}
Options == {"default"} \cup {Asks[t] : t \in Tasks}

\* A connection with no open transaction; `next` is MariaDB's one-shot SET TRANSACTION.
Clean == [open |-> FALSE, aborted |-> FALSE, writes |-> {}, opts |-> "default", next |-> "default"]
NoCall == [by |-> "none", at |-> "none", conn |-> NoConn]

InUse == {task[t].slot : t \in Tasks} \cup {task[t].held : t \in Tasks} \cup {call[t].conn : t \in Tasks}
FreeConns == Conns \ InUse

Init ==
    /\ dialect \in Dialects
    /\ conn = [c \in Conns |-> Clean]
    /\ task = [t \in Tasks |-> [pc |-> "idle", slot |-> NoConn, held |-> NoConn, attempt |-> 0,
                                calls |-> 0, again |-> FALSE, stray |-> "none", answer |-> "none"]]
    /\ call = [t \in Tasks |-> NoCall]
    /\ told = [t \in Tasks |-> {}]
    /\ db = {}

\* (mutant) every failed attempt is run again, one whose commit got no answer included
MutRetryAny(e) == e \in Errors

\* TxError::is_retryable and DbError::is_deadlock: SQLite's busy and MariaDB's lock
\* wait timeout are classified with the deadlocks.
IsRetryable(e) == e \in {"deadlock", "busy"}

\* (mutant) a transaction dropped or ended returns its connection as it is
MutNoRollback(c) == conn

\* sqlx's guard (or RusqliteTx's Drop) rolls back before the connection is pooled.
RolledBack(c) == [conn EXCEPT ![c] = [Clean EXCEPT !.next = conn[c].next]]

Set(t, fields) == task' = [task EXCEPT ![t] = [f \in DOMAIN task[t] |->
                              IF f \in DOMAIN fields THEN fields[f] ELSE task[t][f]]]
Ends(t, result) == Set(t, [pc |-> "done", held |-> NoConn, answer |-> result,
                           attempt |-> 0, calls |-> 0, again |-> FALSE])

\* ------------------------------------------------------------ opening (Engine::begin)
Start(t) ==
    /\ task[t].pc \in {"idle", "backoff"}
    /\ Set(t, [pc |-> "checkout", calls |-> 0, again |-> FALSE])
    /\ UNCHANGED <<dialect, conn, call, told, db>>

\* MariaDB sets a host transaction's options by a statement of its own before BEGIN.
Checkout(t) ==
    /\ task[t].pc = "checkout"
    /\ \E c \in FreeConns :
          Set(t, [held |-> c, pc |-> IF dialect = "mariadb" /\ t \notin Plain THEN "pre" ELSE "begin"])
    /\ UNCHANGED <<dialect, conn, call, told, db>>

\* The bounded checkout wait: PoolExhausted, which is never retried.
CheckoutTimesOut(t) ==
    /\ task[t].pc = "checkout"
    /\ FreeConns = {}
    /\ Ends(t, "err")
    /\ UNCHANGED <<dialect, conn, call, told, db>>

SetOptions(t) ==
    /\ task[t].pc = "pre"
    /\ \/ /\ conn' = [conn EXCEPT ![task[t].held].next = Asks[t]]
          /\ Set(t, [pc |-> "begin"])
       \/ UNCHANGED conn /\ Ends(t, "err")
    /\ UNCHANGED <<dialect, call, told, db>>

\* Dialect::begin_transaction_sql: Postgres and SQLite name the options in BEGIN itself;
\* MariaDB's BEGIN opens with whatever SET TRANSACTION left for the next one.
OpensWith(t, c) ==
    CASE dialect = "mariadb" -> conn[c].next
      [] t \in Plain -> "default"
      [] OTHER -> Asks[t]

Begin(t) ==
    LET c == task[t].held IN
    /\ task[t].pc = "begin"
    /\ \/ /\ conn' = [conn EXCEPT ![c] = [Clean EXCEPT !.open = TRUE, !.opts = OpensWith(t, c)]]
          /\ Set(t, [pc |-> "closure", slot |-> c, held |-> NoConn])
       \/ conn' = [conn EXCEPT ![c] = Clean] /\ Ends(t, "err")   \* lost, or SQLite's busy
    /\ UNCHANGED <<dialect, call, told, db>>

\* ------------------------------------------------- one call (TxTransport::dispatch)
\* The caller holds the slot's lock for the whole call; a call on an empty slot is
\* refused ("already committed or rolled back") and changes nothing.
CallStarts(t, by) ==
    /\ call[t].by = "none"
    /\ task[t].slot # NoConn
    /\ task[t].calls < IF t \in Plain THEN 1 ELSE MaxCalls
    /\ \/ by = "closure" /\ task[t].pc = "closure"
       \/ by = "stray" /\ task[t].stray = "alive"
    /\ call' = [call EXCEPT ![t] = [by |-> by, at |-> IF t \in Guarded THEN "guard" ELSE "first", conn |-> NoConn]]
    /\ Set(t, [calls |-> task[t].calls + 1])
    /\ UNCHANGED <<dialect, conn, told, db>>

\* (mutant) a mutation's failed statement does not keep it from committing
MutCommitsPartial(t, e) ==
    /\ call' = [call EXCEPT ![t] = NoCall]
    /\ \/ call[t].by = "closure" /\ Set(t, [pc |-> "commit"])
       \/ call[t].by = "stray" /\ UNCHANGED task

\* The call is answered with an error.  A stray ignores it; the closure returns it
\* (`?`) or, for the errors in Ignored, goes on.  A plain mutation always returns it.
CallFails(t, e) ==
    /\ call' = [call EXCEPT ![t] = NoCall]
    /\ \/ call[t].by = "closure" /\ Set(t, [pc |-> "rollback", again |-> IsRetryable(e)])
       \/ /\ call[t].by = "stray" \/ (t \notin Plain /\ <<dialect, e>> \in Ignored)
          /\ UNCHANGED task

\* HttpGuard::check fails closed: only a callback that answers "allow" in time, within
\* the size limits and in the protocol's form allows.
CallbackOutcomes == {"allow", "deny", "timeout", "transport", "status", "headers", "size", "protocol"}
Allows(outcome) == outcome = "allow"

\* check_guard inside dispatch_on: the guard decides, or re-enters the engine with a
\* query first; a denial is a 403.
GuardDecides(t) ==
    /\ call[t].at = "guard"
    /\ \/ \E outcome \in CallbackOutcomes :
             IF Allows(outcome) THEN call' = [call EXCEPT ![t].at = "first"] /\ UNCHANGED task
                                ELSE CallFails(t, "other")
       \/ call' = [call EXCEPT ![t].at = "reenter"] /\ UNCHANGED task
    /\ UNCHANGED <<dialect, conn, told, db>>

\* The re-entered engine checks out another connection of the same pool, or times out,
\* and a guard that cannot decide denies.
GuardReenters(t) ==
    /\ call[t].at = "reenter"
    /\ \/ \E c \in FreeConns : call' = [call EXCEPT ![t].at = "reading", ![t].conn = c] /\ UNCHANGED task
       \/ FreeConns = {} /\ CallFails(t, "other")
    /\ UNCHANGED <<dialect, conn, told, db>>

\* The guard's query is a transaction of its own to the server: it uses up `next`.
GuardReads(t) ==
    /\ call[t].at = "reading"
    /\ conn' = [conn EXCEPT ![call[t].conn].next = "default"]
    /\ \/ call' = [call EXCEPT ![t].at = "first", ![t].conn = NoConn] /\ UNCHANGED task
       \/ CallFails(t, "other")
    /\ UNCHANGED <<dialect, told, db>>

Nth(t) == <<task[t].attempt, task[t].calls>>
WriteOf(t) == <<t, task[t].attempt, task[t].calls, IF call[t].at = "first" THEN 1 ELSE 2>>

\* run_writes runs the mutation's two statements in order.
StatementRuns(t) ==
    LET c == task[t].slot IN
    /\ call[t].at \in {"first", "second"}
    /\ ~conn[c].aborted
    /\ conn[c].opts # "read_only"
    /\ IF conn[c].open
       THEN conn' = [conn EXCEPT ![c].writes = @ \cup {WriteOf(t)}] /\ UNCHANGED db
       ELSE db' = db \cup {WriteOf(t)} /\ UNCHANGED conn     \* autocommitted
    /\ IF call[t].at = "first"
       THEN call' = [call EXCEPT ![t].at = "second"] /\ UNCHANGED told
       ELSE call' = [call EXCEPT ![t] = NoCall] /\ told' = [told EXCEPT ![t] = @ \cup {Nth(t)}]
    /\ UNCHANGED <<dialect, task>>

\* What the server keeps of a transaction one of whose statements failed: Postgres
\* aborts it, MariaDB rolls all of it back on a deadlock, SQLite where it gives up, and
\* both only the statement otherwise.
AfterError(c, e) ==
    CASE dialect = "postgres" -> [conn EXCEPT ![c].aborted = TRUE]
      [] <<dialect, e>> \in {<<"mariadb", "deadlock">>, <<"sqlite", "full">>} -> [conn EXCEPT ![c] = Clean]
      [] OTHER -> conn

StatementFails(t) ==
    /\ call[t].at \in {"first", "second"}
    /\ \E e \in Errors \ {"missing"} :
          /\ e = "deadlock" => dialect # "sqlite"
          /\ e = "full" => dialect = "sqlite" /\ t \in Exhausted
          /\ conn' = AfterError(task[t].slot, e) /\ CallFails(t, e)
    /\ UNCHANGED <<dialect, told, db>>

\* The statement's `where` matched no row: the call is a 404, whatever ran before stays.
NotFound(t) ==
    /\ call[t].at \in {"first", "second"}
    /\ ~conn[task[t].slot].aborted
    /\ CallFails(t, "missing")
    /\ UNCHANGED <<dialect, conn, told, db>>

\* The closure drops a call's future (a select or timeout of its own) and goes on.
ClosureCancelsCall(t) ==
    /\ call[t].by = "closure" /\ t \notin Plain
    /\ call' = [call EXCEPT ![t] = NoCall]
    /\ UNCHANGED <<dialect, conn, task, told, db>>

\* The closure hands a client over the same slot to a task it spawns.
ClosureSpawns(t) ==
    /\ <<dialect, t>> \in Straying /\ task[t].pc = "closure" /\ task[t].stray = "none"
    /\ Set(t, [stray |-> "alive"])
    /\ UNCHANGED <<dialect, conn, call, told, db>>

\* -------------------------------------------------------------------- the boundary
ClosureReturns(t) ==
    /\ task[t].pc = "closure"
    /\ call[t].by # "closure"
    /\ IF t \in Plain
       THEN task[t].calls = 1 /\ Set(t, [pc |-> "commit"])
       ELSE \/ Set(t, [pc |-> "commit"])
            \/ Set(t, [pc |-> "rollback"])
    /\ UNCHANGED <<dialect, conn, call, told, db>>

\* (mutant) the transaction is taken out only by its last owner
MutTakesAlone(t) ==
    /\ task[t].pc \in {"commit", "rollback"}
    /\ task[t].held = NoConn
    /\ call[t].by = "none" /\ task[t].stray # "alive"
    /\ Set(t, [held |-> task[t].slot, slot |-> NoConn])
    /\ UNCHANGED <<dialect, conn, call, told, db>>

\* Transaction::commit and rollback take the transaction out under the slot's lock; from
\* then on a stray client finds the slot empty.
Takes(t) ==
    /\ task[t].pc \in {"commit", "rollback"}
    /\ task[t].held = NoConn
    /\ call[t].by = "none"
    /\ Set(t, [held |-> task[t].slot, slot |-> NoConn,
               stray |-> IF task[t].stray = "alive" THEN "gone" ELSE task[t].stray])
    /\ UNCHANGED <<dialect, conn, call, told, db>>

\* The next attempt has a slot of its own, and the answers of this one are void.
FailsOrRetries(t, retryable, result) ==
    IF retryable /\ task[t].attempt < MaxRetry
    THEN /\ Set(t, [pc |-> "backoff", held |-> NoConn, attempt |-> task[t].attempt + 1, stray |-> "none"])
         /\ told' = [told EXCEPT ![t] = {}]
    ELSE Ends(t, result) /\ UNCHANGED told

\* COMMIT of a transaction Postgres aborted rolls back and reports success; COMMIT on
\* a connection without one does nothing and reports success, but on SQLite an error.
Commits(t) ==
    LET c == task[t].held IN
    /\ task[t].pc = "commit" /\ c # NoConn
    /\ conn[c].open \/ dialect # "sqlite"
    /\ db' = IF conn[c].aborted THEN db ELSE db \cup conn[c].writes
    /\ conn' = RolledBack(c)
    /\ Ends(t, "ok")
    /\ UNCHANGED <<dialect, call, told>>

\* (mutant) the commit's error is dropped
MutCommitIgnored(t) ==
    LET c == task[t].held IN
    /\ task[t].pc = "commit" /\ c # NoConn /\ conn[c].open
    /\ conn' = RolledBack(c)
    /\ Ends(t, "ok") /\ UNCHANGED told
    /\ UNCHANGED <<dialect, call, db>>

CommitFails(t) ==
    LET c == task[t].held IN
    /\ task[t].pc = "commit" /\ c # NoConn
    /\ conn[c].open \/ dialect = "sqlite"
    /\ conn' = RolledBack(c)
    /\ FailsOrRetries(t, conn[c].open /\ IsRetryable("deadlock"), "err")
    /\ UNCHANGED <<dialect, call, db>>

\* The connection is lost while COMMIT is in flight: either outcome, reported as Other.
CommitIsLost(t) ==
    LET c == task[t].held IN
    /\ task[t].pc = "commit" /\ c # NoConn /\ conn[c].open
    /\ db' \in {db, IF conn[c].aborted THEN db ELSE db \cup conn[c].writes}
    /\ conn' = [conn EXCEPT ![c] = Clean]
    /\ FailsOrRetries(t, IsRetryable("other"), "unknown")
    /\ UNCHANGED <<dialect, call>>

RollsBack(t) ==
    LET c == task[t].held IN
    /\ task[t].pc = "rollback" /\ c # NoConn
    /\ conn' = RolledBack(c)
    /\ FailsOrRetries(t, task[t].again, "err")
    /\ UNCHANGED <<dialect, call, db>>

\* ----------------------------------------------------------------------- dropping
\* The host drops the task's future: the handle goes, and the closure with its call.
\* The slot's transaction goes with the last of the handle and the transports, so a
\* stray client keeps it open.
Drop(t) ==
    LET stays == task[t].stray = "alive" /\ task[t].slot # NoConn
        c == IF task[t].held # NoConn THEN task[t].held ELSE task[t].slot
    IN /\ t \in Dropped
       /\ task[t].pc \notin {"idle", "done"}
       /\ call' = IF call[t].by = "closure" THEN [call EXCEPT ![t] = NoCall] ELSE call
       /\ conn' = IF stays \/ c = NoConn THEN conn ELSE RolledBack(c)
       /\ db' \in {db} \cup IF task[t].pc = "commit" /\ task[t].held # NoConn /\ ~conn[c].aborted
                            THEN {db \cup conn[c].writes} ELSE {}
       /\ Set(t, [pc |-> "done", held |-> NoConn, slot |-> IF stays THEN task[t].slot ELSE NoConn,
                  answer |-> "dropped", again |-> FALSE])
       /\ UNCHANGED <<dialect, told>>

\* The stray client is dropped, mid-call or not; the last owner drops the transaction.
StrayEnds(t) ==
    LET last == task[t].pc = "done" /\ task[t].slot # NoConn IN
    /\ task[t].stray = "alive"
    /\ call' = IF call[t].by = "stray" THEN [call EXCEPT ![t] = NoCall] ELSE call
    /\ conn' = IF last THEN RolledBack(task[t].slot) ELSE conn
    /\ Set(t, [stray |-> "gone", slot |-> IF last THEN NoConn ELSE task[t].slot])
    /\ UNCHANGED <<dialect, told, db>>

TaskStep(t) ==
    \/ Start(t) \/ Checkout(t) \/ CheckoutTimesOut(t) \/ SetOptions(t) \/ Begin(t)
    \/ (t \in Plain /\ CallStarts(t, "closure")) \/ ClosureReturns(t) \/ Takes(t)
    \/ Commits(t) \/ CommitFails(t) \/ CommitIsLost(t) \/ RollsBack(t)
CallStep(t) ==
    \/ GuardDecides(t) \/ GuardReenters(t) \/ GuardReads(t)
    \/ StatementRuns(t) \/ StatementFails(t) \/ NotFound(t)
HostStep(t) ==
    \/ (t \notin Plain /\ \E by \in {"closure", "stray"} : CallStarts(t, by))
    \/ ClosureCancelsCall(t) \/ ClosureSpawns(t) \/ Drop(t) \/ StrayEnds(t)

AllEnded == (\A t \in Tasks : task[t].pc = "done" /\ call[t].by = "none") /\ UNCHANGED vars

Next == (\E t \in Tasks : TaskStep(t) \/ CallStep(t) \/ HostStep(t)) \/ AllEnded
Spec == Init /\ [][Next]_vars

\* A task that can take a step takes it: the closure returns, a call in progress goes on,
\* and a checkout ends with a connection or with the pool's timeout.  Nothing makes a
\* stray client go away.
FairSpec == Spec /\ \A t \in Tasks : WF_vars(TaskStep(t)) /\ WF_vars(CallStep(t))

\* ---------------------------------------------------------------------- properties
TypeOK ==
    /\ dialect \in Dialects
    /\ conn \in [Conns -> [open : BOOLEAN, aborted : BOOLEAN, writes : SUBSET Writes,
                           opts : Options, next : Options]]
    /\ task \in [Tasks -> [pc : {"idle", "checkout", "pre", "begin", "closure", "commit",
                                 "rollback", "backoff", "done"},
                           slot : Conns \cup {NoConn}, held : Conns \cup {NoConn},
                           attempt : 0..MaxRetry, calls : 0..MaxCalls,
                           again : BOOLEAN, stray : {"none", "alive", "gone"},
                           answer : {"none", "ok", "err", "unknown", "dropped"}]]
    /\ call \in [Tasks -> [by : {"none", "closure", "stray"}, conn : Conns \cup {NoConn},
                           at : {"none", "guard", "reenter", "reading", "first", "second"}]]
    /\ told \in [Tasks -> SUBSET ((0..MaxRetry) \X (1..MaxCalls))]
    /\ db \subseteq Writes

Committed(t) == {w \in db : w[1] = t}

\* tx.rs, run/db.rs: whatever is dropped, cancelled or fails, and whoever still holds a
\* client, a connection another caller can check out has no transaction open and none
\* of the writes of the one before.
PooledHasNoTransaction ==
    \A c \in FreeConns : ~conn[c].open /\ conn[c].writes = {}

\* transaction_retrying, apply: of all the attempts of one closure at most one leaves
\* writes behind, an outcome nobody knows is not tried again; an attempt that has not
\* committed shows nothing to others, and a transaction answered with an error has left
\* nothing.
OneAttemptCommits ==
    \A t \in Tasks :
        /\ \A v, w \in Committed(t) : v[2] = w[2]
        /\ task[t].answer \in {"none", "err"} => Committed(t) = {}

\* transaction_retrying: Ok means that every call of the closure's last run that was
\* answered 200, a stray client's included, is committed with both its statements.
OkMeansCommitted ==
    \A t \in Tasks : task[t].answer = "ok" =>
        \A c \in told[t] : {<<t, c[1], c[2], s>> : s \in 1..2} \subseteq db

\* apply_once: a mutation outside a host transaction is all or nothing, in every order
\* of drops, retries and lost commits.
MutationIsWhole == \A t \in Plain : \A w \in Committed(t) : {[w EXCEPT ![4] = s] : s \in 1..2} \subseteq db

\* Engine::begin, Db::begin: an open transaction runs with the options its opener asked
\* for, the default ones for a mutation's own transaction.
RunsAsAsked ==
    \A t \in Tasks : LET c == task[t].slot IN
        c # NoConn /\ conn[c].open => conn[c].opts = IF t \in Plain THEN "default" ELSE Asks[t]

\* Every transaction ends, a guard that waits for a second connection while its own
\* transaction holds one included.
EveryTransactionEnds == \A t \in Tasks : (task[t].pc # "idle") ~> (task[t].pc = "done")
================================================================================
