----------------------------- MODULE SqlitePool -----------------------------
(***************************************************************************)
(* The rusqlite backend's connections (sqlite_rusqlite/) and the           *)
(* foreign-keys-off transaction of a table rebuild                         *)
(* (migrate_foreign_keys.rs) on top of it.                                 *)
(*                                                                         *)
(* A connection lives on a worker thread that runs its jobs in the order   *)
(* they were submitted. Request tasks check connections out of a bounded   *)
(* pool, submit a job and wait for its answer; they may be dropped while   *)
(* they wait, their jobs staying queued. Dropping a transaction queues its *)
(* rollback and returns the connection without waiting.                    *)
(*                                                                         *)
(* A task runs one of three programs: a "mutation" (RusqliteTx), a         *)
(* "rebuild" (ForeignKeysOff over a plain RusqliteDb) or an "app" callback *)
(* (with_connection), the only code on a worker that may panic.            *)
(***************************************************************************)
EXTENDS Integers, Sequences, FiniteSets

CONSTANTS
    Tasks,        \* request tasks
    Programs,     \* which programs they run
    Cancellable,  \* programs whose task may be dropped
    AutoRollback, \* writes that may fail by ending their transaction
    Configured,   \* whether connections are opened with foreign_keys on
    Max,          \* max_connections
    Given,        \* the pool is over the caller's own connection
    MaxCalls      \* bound: calls, hence checkouts and workers

ASSUME ConstantsAssumption ==
    /\ IsFiniteSet(Tasks)
    /\ Programs \subseteq {"mutation", "rebuild", "app"}
    /\ Cancellable \subseteq Programs
    /\ AutoRollback \subseteq {"WRITE", "REBUILD"}
    /\ Configured \subseteq BOOLEAN
    /\ Max \in Nat \ {0} /\ MaxCalls \in Nat
    /\ Given \in BOOLEAN /\ (Given => Max = 1)

Workers == 1..MaxCalls

VARIABLES
    permits,   \* free permits of the semaphore
    idle,      \* the stack of pooled workers
    thread,    \* per worker: its thread's state
    handle,    \* per worker: whether its job sender exists
    queue,     \* per worker: its jobs, each an operation and its call
    conn,      \* per worker: the call whose transaction is open (0: none),
               \* the calls that wrote in it, foreign_keys now and at first
    opened,    \* Given: the connection has been taken
    task,      \* per task: where it is
    calls,     \* calls so far; a call's number names its checkout
    asked, committed, acked  \* calls that sent COMMIT, whose write is
                             \* durable, that were told so

vars == <<permits, idle, thread, handle, queue, conn, opened, task, calls, asked,
          committed, acked>>

database == <<conn, committed>>
workers == <<thread, queue, database>>

-----------------------------------------------------------------------------
Ops == {"ASK", "OFF", "BEGIN", "WRITE", "REBUILD", "CHECK", "COMMIT", "ABANDON",
        "ROLLBACK", "ON", "APP", "done"}

Job == [op : Ops \cup {"DROP"}, by : 1..MaxCalls]

Idle == [pc |-> "idle", program |-> "app", w |-> 0, by |-> 0, op |-> "done",
         answer |-> "none", guard |-> FALSE]

Task == [pc : {"idle", "acquire", "spawn", "wait"},
         program : {"mutation", "rebuild", "app"}, w : 0..MaxCalls, by : 0..MaxCalls,
         op : Ops, answer : {"none", "ok", "no", "error"}, guard : BOOLEAN]

FreshConnection(fk) == [tx |-> 0, wrote |-> {}, fk |-> fk, fk0 |-> fk]

Closed == FreshConnection(TRUE)

TypeOK ==
    /\ permits \in 0..Max
    /\ idle \in Seq(Workers)
    /\ thread \in [Workers -> {"none", "opening", "running", "unwinding", "gone"}]
    /\ handle \in [Workers -> BOOLEAN]
    /\ \A w \in Workers :
        /\ queue[w] \in Seq(Job)
        /\ conn[w] \in [tx : 0..MaxCalls, wrote : SUBSET (1..MaxCalls), fk : BOOLEAN,
                       fk0 : BOOLEAN]
    /\ opened \in BOOLEAN
    /\ task \in [Tasks -> Task]
    /\ calls \in 0..MaxCalls
    /\ asked \cup committed \cup acked \subseteq 1..MaxCalls

Init ==
    /\ permits = Max
    /\ idle = << >>
    /\ thread = [w \in Workers |-> "none"]
    /\ handle = [w \in Workers |-> FALSE]
    /\ queue = [w \in Workers |-> << >>]
    /\ conn = [w \in Workers |-> Closed]
    /\ opened = FALSE
    /\ task = [t \in Tasks |-> Idle]
    /\ calls = 0
    /\ asked = {} /\ committed = {} /\ acked = {}

(* Worker::is_alive: the flag is cleared after a panicking job's answer    *)
(* channel and the connection are dropped, before the inbox is.            *)
IsAlive(w) == thread[w] \in {"opening", "running", "unwinding"}

(* Whether jobs still reach the inbox.                                     *)
Accepts(w) == thread[w] \in {"running", "unwinding"}

Holds(t, w) == task[t].pc = "wait" /\ task[t].w = w

-----------------------------------------------------------------------------
(* The programs: what a task does after an operation was answered.         *)

FirstOp_WriteBeforeBegin(program) ==
    CASE program = "mutation" -> "WRITE" [] program = "rebuild" -> "ASK"
      [] program = "app" -> "APP"

FirstOp(program) ==
    CASE program = "mutation" -> "BEGIN" [] program = "rebuild" -> "ASK"
      [] program = "app" -> "APP"

(* Mutant: a failed COMMIT of a rebuild returns at once.                   *)
AfterRebuild_CommitFails ==
    {<<"ASK", "ok", "OFF">>, <<"OFF", "ok", "BEGIN">>,
     <<"BEGIN", "ok", "REBUILD">>, <<"BEGIN", "error", "ON">>,
     <<"REBUILD", "ok", "CHECK">>, <<"REBUILD", "error", "ROLLBACK">>,
     <<"CHECK", "ok", "COMMIT">>, <<"CHECK", "error", "ABANDON">>,
     <<"COMMIT", "ok", "ON">>, <<"ROLLBACK", "ok", "ON">>,
     <<"ABANDON", "ok", "ON">>, <<"ABANDON", "error", "ON">>}

(* ForeignKeysOff: begin, commit, rollback and abandon.                    *)
AfterRebuild ==
    {<<"ASK", "ok", "OFF">>, <<"OFF", "ok", "BEGIN">>,
     <<"BEGIN", "ok", "REBUILD">>, <<"BEGIN", "error", "ON">>,
     <<"REBUILD", "ok", "CHECK">>, <<"REBUILD", "error", "ROLLBACK">>,
     <<"CHECK", "ok", "COMMIT">>, <<"CHECK", "error", "ABANDON">>,
     <<"COMMIT", "ok", "ON">>, <<"COMMIT", "error", "ABANDON">>,
     <<"ROLLBACK", "ok", "ON">>,
     <<"ABANDON", "ok", "ON">>, <<"ABANDON", "error", "ON">>}

(* RusqliteTx: any error ends the program, the guard rolls back.           *)
AfterMutation == {<<"BEGIN", "ok", "WRITE">>, <<"WRITE", "ok", "COMMIT">>}

NextOp(program, op, answer) ==
    LET after == CASE program = "mutation" -> AfterMutation
                   [] program = "rebuild" -> AfterRebuild
                   [] program = "app" -> {}
    IN
    IF \E o \in Ops : <<op, answer, o>> \in after
    THEN CHOOSE o \in Ops : <<op, answer, o>> \in after
    ELSE "done"

-----------------------------------------------------------------------------
(* A task submits op for its connection and waits. The answer of a thread  *)
(* that has stopped is an error.                                           *)
Submit(t, w, op, by) ==
    /\ queue' = IF Accepts(w)
                THEN [queue EXCEPT ![w] = Append(@, [op |-> op, by |-> by])]
                ELSE queue
    /\ asked' = IF op = "COMMIT" THEN asked \cup {by} ELSE asked

Waiting(t, program, w, op) ==
    [pc |-> "wait", program |-> program, w |-> w, by |-> task[t].by, op |-> op,
     guard |-> program = "mutation", answer |-> IF Accepts(w) THEN "none" ELSE "error"]

Start(t, program) ==
    /\ task[t].pc = "idle"
    /\ calls < MaxCalls
    /\ calls' = calls + 1
    /\ task' = [task EXCEPT ![t] = [Idle EXCEPT !.pc = "acquire", !.program = program,
                                                !.by = calls + 1]]
    /\ UNCHANGED <<permits, idle, handle, opened, asked, acked, workers>>

(* The 30 seconds are over.                                                *)
TimeOut(t) ==
    /\ task[t].pc = "acquire"
    /\ permits = 0
    /\ task' = [task EXCEPT ![t] = Idle]
    /\ UNCHANGED <<permits, idle, handle, opened, calls, asked, acked, workers>>

(* Pool::acquire with a worker in the pool: its first job is submitted.    *)
TakeIdle(t) ==
    LET w == idle[Len(idle)]
        op == FirstOp(task[t].program)
    IN
    /\ task[t].pc = "acquire"
    /\ permits > 0
    /\ idle # << >>
    /\ permits' = permits - 1
    /\ idle' = SubSeq(idle, 1, Len(idle) - 1)
    /\ Submit(t, w, op, task[t].by)
    /\ task' = [task EXCEPT ![t] = Waiting(t, task[t].program, w, op)]
    /\ UNCHANGED <<thread, handle, database, opened, calls, acked>>

(* Mutant: a worker is spawned while there are idle ones.                  *)
Spawn_Eagerly(t) ==
    /\ task[t].pc = "acquire"
    /\ permits > 0
    /\ permits' = permits - 1
    /\ thread' = [thread EXCEPT ![task[t].by] = "opening"]
    /\ handle' = [handle EXCEPT ![task[t].by] = TRUE]
    /\ task' = [task EXCEPT ![t].pc = "spawn", ![t].w = task[t].by]
    /\ UNCHANGED <<idle, queue, database, opened, calls, asked, acked>>

(* Pool::acquire with none: Worker::spawn; the worker is named for its     *)
(* call.                                                                   *)
Spawn(t) ==
    /\ task[t].pc = "acquire"
    /\ permits > 0
    /\ idle = << >>
    /\ permits' = permits - 1
    /\ thread' = [thread EXCEPT ![task[t].by] = "opening"]
    /\ handle' = [handle EXCEPT ![task[t].by] = TRUE]
    /\ task' = [task EXCEPT ![t].pc = "spawn", ![t].w = task[t].by]
    /\ UNCHANGED <<idle, queue, database, opened, calls, asked, acked>>

(* Worker::spawn returns: the first job, or the opener's error.            *)
Spawned(t) ==
    LET w == task[t].w
        op == FirstOp(task[t].program)
    IN
    /\ task[t].pc = "spawn"
    /\ \/ /\ thread[w] = "running"
          /\ Submit(t, w, op, task[t].by)
          /\ task' = [task EXCEPT ![t] = Waiting(t, task[t].program, w, op)]
          /\ UNCHANGED <<permits, handle>>
       \/ /\ thread[w] = "gone"
          /\ permits' = permits + 1
          /\ handle' = [handle EXCEPT ![w] = FALSE]
          /\ task' = [task EXCEPT ![t] = Idle]
          /\ UNCHANGED <<queue, asked>>
    /\ UNCHANGED <<idle, thread, database, opened, calls, acked>>

(* The answer is in; the task goes on. A connection that does not enforce  *)
(* foreign keys needs no rebuild transaction but the driver's own.         *)
Continue(t) ==
    LET c == task[t]
        plain == c.op = "ASK" /\ c.answer = "no"
        program == IF plain THEN "mutation" ELSE c.program
        op == IF plain THEN "BEGIN" ELSE NextOp(c.program, c.op, c.answer)
    IN
    /\ c.pc = "wait"
    /\ c.answer # "none"
    /\ op # "done"
    /\ Submit(t, c.w, op, c.by)
    /\ task' = [task EXCEPT ![t] = Waiting(t, program, c.w, op)]
    /\ UNCHANGED <<permits, idle, thread, handle, database, opened, calls, acked>>

(* Mutant: no rollback is queued when a transaction is dropped.            *)
DropJobs_None(c) == queue

(* RusqliteTx::drop.                                                       *)
DropJobs(c) ==
    IF c.guard /\ Accepts(c.w)
    THEN [queue EXCEPT ![c.w] = Append(@, [op |-> "DROP", by |-> c.by])]
    ELSE queue

(* Pooled::drop: a live worker goes back to the pool, a dead one is        *)
(* dropped; then the permit is released.                                   *)
Release(c) ==
    /\ IF IsAlive(c.w)
       THEN idle' = Append(idle, c.w) /\ UNCHANGED handle
       ELSE handle' = [handle EXCEPT ![c.w] = FALSE] /\ UNCHANGED idle
    /\ permits' = permits + 1
    /\ queue' = DropJobs(c)

(* The program is over; the caller has its result.                         *)
Finish(t) ==
    LET c == task[t] IN
    /\ c.pc = "wait"
    /\ c.answer \in {"ok", "error"}
    /\ NextOp(c.program, c.op, c.answer) = "done"
    /\ Release(c)
    /\ acked' = IF c.op = "COMMIT" /\ c.answer = "ok" THEN acked \cup {c.by} ELSE acked
    /\ task' = [task EXCEPT ![t] = Idle]
    /\ UNCHANGED <<thread, database, opened, calls, asked>>

(* The task is dropped: while it waits for a permit, for its worker to     *)
(* start (the sender and the permit go with it), or for an answer.         *)
Cancel(t) ==
    LET c == task[t] IN
    /\ c.program \in Cancellable
    /\ \/ /\ c.pc = "acquire"
          /\ UNCHANGED <<permits, idle, handle, queue>>
       \/ /\ c.pc = "spawn"
          /\ handle' = [handle EXCEPT ![c.w] = FALSE]
          /\ permits' = permits + 1
          /\ UNCHANGED <<idle, queue>>
       \/ /\ c.pc = "wait"
          /\ Release(c)
    /\ task' = [task EXCEPT ![t] = Idle]
    /\ UNCHANGED <<thread, database, opened, calls, asked, acked>>

-----------------------------------------------------------------------------
(* The worker threads.                                                     *)

(* The connection is opened, also when nobody waits for it any longer; the *)
(* caller's own one is there only once.                                    *)
Open(w) ==
    /\ thread[w] = "opening"
    /\ \/ /\ ~ (Given /\ opened)
          /\ thread' = [thread EXCEPT ![w] = "running"]
          /\ \E fk \in Configured : conn' = [conn EXCEPT ![w] = FreshConnection(fk)]
          /\ opened' = TRUE
       \/ /\ Given => opened
          /\ thread' = [thread EXCEPT ![w] = "gone"]
          /\ UNCHANGED <<conn, opened>>
    /\ UNCHANGED <<permits, idle, handle, queue, task, calls, asked, committed, acked>>

(* The next job is op; its answer reaches the call that still waits.       *)
RunJob(w, op, answer) ==
    /\ thread[w] = "running"
    /\ queue[w] # << >>
    /\ queue[w][1].op = op
    /\ queue' = [queue EXCEPT ![w] = Tail(@)]
    /\ task' = [t \in Tasks |->
                   IF Holds(t, w) /\ task[t].by = queue[w][1].by /\ op # "DROP"
                   THEN [task[t] EXCEPT !.answer = answer]
                   ELSE task[t]]
    /\ UNCHANGED <<permits, idle, handle, opened, calls, asked, acked>>

RolledBack(w) == [conn EXCEPT ![w].tx = 0, ![w].wrote = {}]

(* begin: an error where a transaction is open, or of a BEGIN that waits   *)
(* for a lock.                                                             *)
JobBegin(w) ==
    \/ /\ conn[w].tx = 0
       /\ RunJob(w, "BEGIN", "ok")
       /\ conn' = [conn EXCEPT ![w].tx = queue[w][1].by]
       /\ UNCHANGED <<thread, committed>>
    \/ /\ RunJob(w, "BEGIN", "error")
       /\ UNCHANGED <<thread, database>>

(* execute: outside of a transaction a write commits by itself; an error   *)
(* leaves the transaction open or, a full disk say, ends it.               *)
JobWrite(w) ==
    \E op \in {"WRITE", "REBUILD"} :
        /\ \/ /\ conn[w].tx = 0
              /\ RunJob(w, op, "ok")
              /\ committed' = committed \cup {queue[w][1].by}
              /\ UNCHANGED conn
           \/ /\ conn[w].tx # 0
              /\ RunJob(w, op, "ok")
              /\ conn' = [conn EXCEPT ![w].wrote = @ \cup {queue[w][1].by}]
              /\ UNCHANGED committed
           \/ /\ RunJob(w, op, "error")
              /\ conn' = conn \/ (op \in AutoRollback /\ conn' = RolledBack(w))
              /\ UNCHANGED committed
        /\ UNCHANGED thread

(* COMMIT: SQLITE_BUSY and a deferred constraint leave the transaction     *)
(* open.                                                                   *)
JobCommit(w) ==
    /\ \/ /\ conn[w].tx # 0
          /\ RunJob(w, "COMMIT", "ok")
          /\ committed' = committed \cup conn[w].wrote
          /\ conn' = RolledBack(w)
       \/ /\ RunJob(w, "COMMIT", "error")
          /\ UNCHANGED database
    /\ UNCHANGED thread

(* ROLLBACK: an error where no transaction is open.                        *)
JobRollback(w) ==
    /\ \E op \in {"ROLLBACK", "ABANDON"} :
           RunJob(w, op, IF conn[w].tx = 0 THEN "error" ELSE "ok")
    /\ conn' = RolledBack(w)
    /\ UNCHANGED <<thread, committed>>

(* The job RusqliteTx::drop queues.                                        *)
JobDrop(w) ==
    /\ RunJob(w, "DROP", "none")
    /\ conn' = RolledBack(w)
    /\ UNCHANGED <<thread, committed>>

(* The pragmas of a rebuild. foreign_keys cannot be changed inside a       *)
(* transaction.                                                            *)
JobPragma(w) ==
    /\ \/ /\ RunJob(w, "ASK", IF conn[w].fk THEN "ok" ELSE "no")
          /\ UNCHANGED conn
       \/ /\ RunJob(w, "CHECK", "ok") \/ RunJob(w, "CHECK", "error")
          /\ UNCHANGED conn
       \/ \E op \in {"OFF", "ON"} :
             /\ RunJob(w, op, "ok")
             /\ conn' = IF conn[w].tx = 0 THEN [conn EXCEPT ![w].fk = (op = "ON")] ELSE conn
    /\ UNCHANGED <<thread, committed>>

(* with_connection's callback; when it panics its caller has an error      *)
(* while the thread still unwinds.                                         *)
JobApp(w) ==
    /\ \/ RunJob(w, "APP", "ok") /\ UNCHANGED thread
       \/ /\ RunJob(w, "APP", "error")
          /\ thread' = [thread EXCEPT ![w] = "unwinding"]
    /\ UNCHANGED database

(* Mutant: jobs queued behind a panic are not dropped with the inbox.      *)
Exit_KeepsInbox(w) ==
    /\ \/ thread[w] = "unwinding"
       \/ thread[w] = "running" /\ ~ handle[w] /\ queue[w] = << >>
    /\ thread' = [thread EXCEPT ![w] = "gone"]
    /\ conn' = [conn EXCEPT ![w] = Closed]
    /\ UNCHANGED <<permits, idle, handle, queue, opened, task, calls, asked, committed, acked>>

(* A thread ends when it has unwound or when its sender is dropped and its *)
(* inbox empty: the connection is closed, and with it what it had open;    *)
(* jobs left in the inbox are dropped, an error for who waits.             *)
Exit(w) ==
    /\ \/ thread[w] = "unwinding"
       \/ thread[w] = "running" /\ ~ handle[w] /\ queue[w] = << >>
    /\ thread' = [thread EXCEPT ![w] = "gone"]
    /\ conn' = [conn EXCEPT ![w] = Closed]
    /\ queue' = [queue EXCEPT ![w] = << >>]
    /\ task' = [t \in Tasks |->
                   IF Holds(t, w) /\ task[t].answer = "none"
                   THEN [task[t] EXCEPT !.answer = "error"]
                   ELSE task[t]]
    /\ UNCHANGED <<permits, idle, handle, opened, calls, asked, committed, acked>>

-----------------------------------------------------------------------------
TaskStep(t) ==
    TakeIdle(t) \/ Spawn(t) \/ TimeOut(t) \/ Spawned(t) \/ Continue(t) \/ Finish(t)

WorkerStep(w) ==
    \/ Open(w) \/ JobBegin(w) \/ JobWrite(w) \/ JobCommit(w) \/ JobRollback(w)
    \/ JobDrop(w) \/ JobPragma(w) \/ JobApp(w) \/ Exit(w)

Next ==
    \/ \E t \in Tasks :
        \/ \E program \in Programs : Start(t, program)
        \/ TaskStep(t)
        \/ Cancel(t)
    \/ \E w \in Workers : WorkerStep(w)

(* The runtime polls ready tasks and their timers; worker threads run.     *)
Fairness ==
    /\ \A t \in Tasks : WF_vars(TaskStep(t))
    /\ \A w \in Workers : WF_vars(WorkerStep(w))

Spec == Init /\ [][Next]_vars /\ Fairness

-----------------------------------------------------------------------------
(* Properties.                                                             *)

Holders == {t \in Tasks : task[t].pc \in {"spawn", "wait"}}

(* The semaphore bounds the connections, pooled and checked out, by        *)
(* max_connections, and each one has a single owner: no panic,             *)
(* cancellation or failed open makes permits, the idle stack and the       *)
(* checkouts disagree.                                                     *)
ConnectionsBounded ==
    /\ permits + Cardinality(Holders) = Max
    /\ Len(idle) + Cardinality(Holders) <= Max
    /\ \A i \in 1..Len(idle) :
        /\ \A j \in 1..Len(idle) : idle[i] = idle[j] => i = j
        /\ \A t \in Holders : task[t].w # idle[i]
    /\ \A t, u \in Holders : task[t].w = task[u].w => t = u

Ready(w) == thread[w] = "running" /\ queue[w] # << >>

(* A job never runs in another call's transaction, whatever was dropped    *)
(* before it: "Queued ahead of the pool return, so the next checkout finds *)
(* no open transaction" (tx.rs).                                           *)
JobsMeetNoForeignTx ==
    \A w \in Workers :
        (Ready(w) /\ queue[w][1].op # "DROP") => conn[w].tx \in {0, queue[w][1].by}

(* A write is durable only if its call sent COMMIT, also when the call was *)
(* dropped with jobs still queued, and a call told that it has committed   *)
(* has.                                                                    *)
CommitDecides == committed \subseteq asked /\ acked \subseteq committed

(* A pooled connection with nothing left to do has no open transaction.    *)
NeverPooledWithOpenTx ==
    \A i \in 1..Len(idle) :
        LET w == idle[i] IN
        (thread[w] = "running" /\ queue[w] = << >>) => conn[w].tx = 0

(* Nor does it enforce foreign keys differently than when it was opened:   *)
(* a rebuild that ends in any way turns them back on, and outside of the   *)
(* transaction, where the pragma has an effect.                            *)
PooledAsOpened ==
    /\ NeverPooledWithOpenTx
    /\ \A i \in 1..Len(idle) :
        LET w == idle[i] IN
        (thread[w] = "running" /\ queue[w] = << >>) => conn[w].fk = conn[w].fk0

(* Every call returns: its checkout is served or times out, and a dead     *)
(* worker answers with an error instead of leaving its callers waiting.    *)
EveryCallReturns == \A t \in Tasks : task[t].pc # "idle" ~> task[t].pc = "idle"

(* from_connection's connection stays with the backend once it is taken    *)
(* (when no callback panics).                                              *)
GivenConnectionKept ==
    (Given /\ opened) => \E w \in Workers : thread[w] = "running" /\ handle[w]
=============================================================================
