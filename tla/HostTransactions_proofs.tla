----------------------- MODULE HostTransactions_proofs -----------------------
(* Proofs about HostTransactions, for any number of tasks and connections,   *)
(* retries and calls: a connection that can be checked out is clean,         *)
(* whatever closures ignore and give away, and, where they keep to what the  *)
(* server can undo, transactions are atomic and told the truth.              *)
EXTENDS HostTransactions, TLAPS

Task == [pc : {"idle", "checkout", "pre", "begin", "closure", "commit", "rollback",
               "backoff", "done"},
         slot : Conns \cup {NoConn}, held : Conns \cup {NoConn},
         attempt : 0..MaxRetry, calls : 0..MaxCalls,
         again : BOOLEAN, stray : {"none", "alive", "gone"},
         answer : {"none", "ok", "err", "unknown", "dropped"}]

Call == [by : {"none", "closure", "stray"}, conn : Conns \cup {NoConn},
         at : {"none", "guard", "reenter", "reading", "first", "second"}]

Conn == [open : BOOLEAN, aborted : BOOLEAN, writes : SUBSET Writes,
         opts : Options, next : Options]

(* A slot's lock is held by a call only while the slot has a transaction,    *)
(* and a connection is held outside of it only before the closure runs and   *)
(* after the boundary has taken the transaction out.                         *)
Shape(t) ==
    /\ task[t].pc \in {"pre", "begin"} => task[t].held # NoConn
    /\ task[t].held # NoConn =>
        task[t].pc \in {"pre", "begin", "commit", "rollback"} /\ task[t].slot = NoConn
    /\ task[t].slot # NoConn =>
        \/ task[t].pc \in {"closure", "commit", "rollback"}
        \/ task[t].pc = "done" /\ task[t].stray = "alive" /\ task[t].answer = "dropped"
    /\ task[t].pc = "closure" => task[t].slot # NoConn
    /\ task[t].pc \in {"commit", "rollback"} => task[t].slot # NoConn \/ task[t].held # NoConn
    /\ task[t].stray = "alive" => task[t].slot # NoConn
    /\ task[t].answer = "none" <=> task[t].pc # "done"
    /\ call[t].at = "none" <=> call[t].by = "none"
    /\ call[t].at # "none" => task[t].calls # 0
    /\ call[t].by = "closure" => task[t].pc = "closure"
    /\ call[t].by = "stray" => task[t].stray = "alive" /\ t \notin Plain
    /\ call[t].conn # NoConn <=> call[t].at = "reading"

Own(t) == {task[t].slot, task[t].held, call[t].conn} \ {NoConn}

(* No two tasks use one connection, nor does a guard its transaction's.      *)
Disjoint ==
    /\ \A t, u \in Tasks : t # u => Own(t) \cap Own(u) = {}
    /\ \A t \in Tasks : call[t].conn # NoConn => call[t].conn # task[t].slot

Dirty(c) == conn[c].open \/ conn[c].writes # {}

(* The connection whose transaction is t's.                                  *)
Transacts(t, c) ==
    c # NoConn /\ \/ c = task[t].slot
                  \/ c = task[t].held /\ task[t].pc \in {"commit", "rollback"}

DirtyIsHeld == \A c \in Conns : Dirty(c) => \E t \in Tasks : Transacts(t, c)

ConnInv == TypeOK /\ (\A t \in Tasks : Shape(t)) /\ Disjoint /\ DirtyIsHeld

-----------------------------------------------------------------------------
(* What a host must keep to for its transactions to be atomic: its closures  *)
(* go on after an error only where the server has undone no more than the    *)
(* failed statement, and give clients to tasks that outlive them only where  *)
(* that holds of every error: on SQLite while it has disk and memory.        *)
KeepsToUndone ==
    /\ <<"mariadb", "deadlock">> \notin Ignored /\ <<"sqlite", "full">> \notin Ignored
    /\ \A e \in Errors \ {"missing"} : <<"postgres", e>> \notin Ignored
    /\ \A s \in Straying : s[1] = "sqlite" /\ s[2] \notin Exhausted

Both(t, a, n) == {<<t, a, n, s>> : s \in 1..2}

(* An open transaction of t in connection c has the writes of its attempt,   *)
(* both of each call answered 200.                                           *)
Faithful(t, c) ==
    /\ \A w \in conn[c].writes : w[1] = t /\ w[2] = task[t].attempt
    /\ task[t].pc # "rollback" \/ task[t].stray = "alive" => conn[c].open
    /\ task[t].pc \in {"closure", "commit"} =>
        /\ ~conn[c].aborted
        /\ \A k \in told[t] : k[1] = task[t].attempt /\ Both(t, k[1], k[2]) \subseteq conn[c].writes
        /\ call[t].at = "second" => <<t, task[t].attempt, task[t].calls, 1>> \in conn[c].writes
        /\ t \in Plain =>
            /\ call[t].at \notin {"none", "second"} \/ task[t].calls = 0 => conn[c].writes = {}
            /\ call[t].at = "second" => conn[c].writes = {<<t, task[t].attempt, task[t].calls, 1>>}
            /\ call[t].at = "none" =>
                \A w \in conn[c].writes : Both(t, w[2], w[3]) \subseteq conn[c].writes

(* What t has committed, and been told.                                      *)
Truthful(t) ==
    /\ task[t].pc \in {"idle", "checkout", "pre", "begin", "backoff"} => told[t] = {}
    /\ task[t].pc \in {"checkout", "pre", "begin"} => task[t].calls = 0
    /\ task[t].answer \in {"none", "err"} => Committed(t) = {}
    /\ \A v, w \in Committed(t) : v[2] = w[2]
    /\ task[t].answer = "ok" => \A k \in told[t] : Both(t, k[1], k[2]) \subseteq db
    /\ t \in Plain => \A w \in Committed(t) : Both(t, w[2], w[3]) \subseteq db
    /\ task[t].stray = "alive" => dialect = "sqlite" /\ t \notin Exhausted

TxInv ==
    \A t \in Tasks :
        /\ Truthful(t)
        /\ \A c \in Conns : Transacts(t, c) => Faithful(t, c)
-----------------------------------------------------------------------------
USE HostAssumption

Stages == {"idle", "checkout", "pre", "begin", "closure", "commit", "rollback", "backoff", "done"}
Answers == {"none", "ok", "err", "unknown", "dropped"}
Slots == Conns \cup {NoConn}
Answered == (0..MaxRetry) \X (1..MaxCalls)

(* What a step makes of t, and of no other task.                             *)
Moves(t, pc, slot, held, attempt, calls, stray, answer) ==
    /\ task' \in [Tasks -> Task]
    /\ \A u \in Tasks \ {t} : task'[u] = task[u]
    /\ task'[t].pc = pc /\ task'[t].slot = slot /\ task'[t].held = held
    /\ task'[t].attempt = attempt /\ task'[t].calls = calls
    /\ task'[t].stray = stray /\ task'[t].answer = answer

Calls(t, by, at, c) ==
    /\ call' \in [Tasks -> Call]
    /\ \A u \in Tasks \ {t} : call'[u] = call[u]
    /\ call'[t].by = by /\ call'[t].at = at /\ call'[t].conn = c

(* Only c's state changes.                                                   *)
Only(c) == conn' \in [Conns -> Conn] /\ \A d \in Conns \ {c} : conn'[d] = conn[d]

Cleans(c) == Only(c) /\ ~conn'[c].open /\ conn'[c].writes = {}

LEMMA Types ==
    ASSUME TypeOK
    PROVE  /\ conn \in [Conns -> Conn] /\ task \in [Tasks -> Task] /\ call \in [Tasks -> Call]
           /\ told \in [Tasks -> SUBSET Answered] /\ db \subseteq Writes
           /\ dialect \in {"mariadb", "postgres", "sqlite"}
  BY DEF TypeOK, Conn, Task, Call, Answered

LEMMA TypesKept ==
    ASSUME TypeOK, dialect' = dialect, conn' \in [Conns -> Conn], task' \in [Tasks -> Task],
           call' \in [Tasks -> Call], told' \in [Tasks -> SUBSET Answered], db' \subseteq Writes
    PROVE  TypeOK'
  BY DEF TypeOK, Conn, Task, Call, Answered

(* The state of a task, field by field.                                      *)
LEMMA TaskType ==
    ASSUME NEW r \in Task
    PROVE  /\ r.pc \in Stages /\ r.slot \in Slots /\ r.held \in Slots
           /\ r.attempt \in 0..MaxRetry /\ r.calls \in 0..MaxCalls /\ r.again \in BOOLEAN
           /\ r.stray \in {"none", "alive", "gone"} /\ r.answer \in Answers
  BY DEF Task, Stages, Slots, Answers

LEMMA SetMoves ==
    ASSUME NEW t \in Tasks, NEW fields, task \in [Tasks -> Task], Set(t, fields),
           NEW pc, NEW slot, NEW held, NEW attempt, NEW calls, NEW stray, NEW answer,
           task'[t].again \in BOOLEAN,
           pc \in Stages, slot \in Slots, held \in Slots, attempt \in 0..MaxRetry,
           calls \in 0..MaxCalls, stray \in {"none", "alive", "gone"}, answer \in Answers,
           task'[t].pc = pc, task'[t].slot = slot, task'[t].held = held,
           task'[t].attempt = attempt, task'[t].calls = calls, task'[t].stray = stray,
           task'[t].answer = answer
    PROVE  Moves(t, pc, slot, held, attempt, calls, stray, answer)
<1>1. task'[t] \in Task
  BY DEF Set, Task, Stages, Slots, Answers
<1>2. QED BY <1>1 DEF Set, Moves

LEMMA StartMoves ==
    ASSUME TypeOK, NEW t \in Tasks, Start(t)
    PROVE  Moves(t, "checkout", task[t].slot, task[t].held, task[t].attempt, 0, task[t].stray, task[t].answer)
<1>1. task \in [Tasks -> Task]
  BY Types
<1>2. /\ task'[t].pc = "checkout" /\ task'[t].slot = task[t].slot /\ task'[t].held = task[t].held
      /\ task'[t].attempt = task[t].attempt /\ task'[t].calls = 0 /\ task'[t].stray = task[t].stray
      /\ task'[t].answer = task[t].answer
  BY <1>1 DEF Start, Set, Task
<1>3. task'[t].again \in BOOLEAN
  BY <1>1 DEF Start, Set, Task
<1>4. QED
  BY <1>1, <1>2, <1>3, SetMoves, TaskType DEF Start, Stages

LEMMA EndsMoves ==
    ASSUME TypeOK, NEW t \in Tasks, NEW r \in Answers, Ends(t, r)
    PROVE  Moves(t, "done", task[t].slot, NoConn, 0, 0, task[t].stray,
                 r)
<1>1. task \in [Tasks -> Task] /\ task[t] \in Task
  BY Types
<1>2. /\ task'[t].pc = "done" /\ task'[t].slot = task[t].slot /\ task'[t].held = NoConn
      /\ task'[t].attempt = 0 /\ task'[t].calls = 0
      /\ task'[t].stray = task[t].stray /\ task'[t].answer = r
  BY <1>1 DEF Ends, Set, Task
<1>3. task'[t].again \in BOOLEAN
  BY <1>1 DEF Ends, Set, Task
<1>4. QED
  BY <1>1, <1>2, <1>3, SetMoves, TaskType DEF Ends, Stages, Answers, Slots

LEMMA PcMoves ==
    ASSUME TypeOK, NEW t \in Tasks, NEW pc \in Stages, Set(t, [pc |-> pc])
    PROVE  Moves(t, pc, task[t].slot, task[t].held, task[t].attempt, task[t].calls, task[t].stray,
                 task[t].answer)
<1>1. task \in [Tasks -> Task] /\ task[t] \in Task
  BY Types
<1>2. /\ task'[t].pc = pc /\ task'[t].slot = task[t].slot /\ task'[t].held = task[t].held
      /\ task'[t].attempt = task[t].attempt /\ task'[t].calls = task[t].calls
      /\ task'[t].stray = task[t].stray /\ task'[t].answer = task[t].answer
  BY <1>1 DEF Set, Task
<1>3. task'[t].again \in BOOLEAN
  BY <1>1 DEF Set, Task
<1>4. QED
  BY <1>1, <1>2, <1>3, SetMoves, TaskType DEF Stages, Answers, Slots

LEMMA FailMoves ==
    ASSUME TypeOK, NEW t \in Tasks, NEW again \in BOOLEAN, Set(t, [pc |-> "rollback", again |-> again])
    PROVE  Moves(t, "rollback", task[t].slot, task[t].held, task[t].attempt, task[t].calls, task[t].stray,
                 task[t].answer)
<1>1. task \in [Tasks -> Task] /\ task[t] \in Task
  BY Types
<1>2. /\ task'[t].pc = "rollback" /\ task'[t].slot = task[t].slot /\ task'[t].held = task[t].held
      /\ task'[t].attempt = task[t].attempt /\ task'[t].calls = task[t].calls
      /\ task'[t].stray = task[t].stray /\ task'[t].answer = task[t].answer
  BY <1>1 DEF Set, Task
<1>3. task'[t].again \in BOOLEAN
  BY <1>1 DEF Set, Task
<1>4. QED
  BY <1>1, <1>2, <1>3, SetMoves, TaskType DEF Stages, Answers, Slots

LEMMA HeldMoves ==
    ASSUME TypeOK, NEW t \in Tasks, NEW pc \in Stages, NEW c \in Conns, Set(t, [held |-> c, pc |-> pc])
    PROVE  Moves(t, pc, task[t].slot, c, task[t].attempt, task[t].calls, task[t].stray,
                 task[t].answer)
<1>1. task \in [Tasks -> Task] /\ task[t] \in Task
  BY Types
<1>2. /\ task'[t].pc = pc /\ task'[t].slot = task[t].slot /\ task'[t].held = c
      /\ task'[t].attempt = task[t].attempt /\ task'[t].calls = task[t].calls
      /\ task'[t].stray = task[t].stray /\ task'[t].answer = task[t].answer
  BY <1>1 DEF Set, Task
<1>3. task'[t].again \in BOOLEAN
  BY <1>1 DEF Set, Task
<1>4. QED
  BY <1>1, <1>2, <1>3, SetMoves, TaskType DEF Stages, Answers, Slots

LEMMA BeginMoves ==
    ASSUME TypeOK, NEW t \in Tasks, NEW c \in Slots, Set(t, [pc |-> "closure", slot |-> c, held |-> NoConn])
    PROVE  Moves(t, "closure", c, NoConn, task[t].attempt, task[t].calls, task[t].stray,
                 task[t].answer)
<1>1. task \in [Tasks -> Task] /\ task[t] \in Task
  BY Types
<1>2. /\ task'[t].pc = "closure" /\ task'[t].slot = c /\ task'[t].held = NoConn
      /\ task'[t].attempt = task[t].attempt /\ task'[t].calls = task[t].calls
      /\ task'[t].stray = task[t].stray /\ task'[t].answer = task[t].answer
  BY <1>1 DEF Set, Task
<1>3. task'[t].again \in BOOLEAN
  BY <1>1 DEF Set, Task
<1>4. QED
  BY <1>1, <1>2, <1>3, SetMoves, TaskType DEF Stages, Answers, Slots

LEMMA CallMoves ==
    ASSUME TypeOK, NEW t \in Tasks, task[t].calls < MaxCalls, Set(t, [calls |-> task[t].calls + 1])
    PROVE  Moves(t, task[t].pc, task[t].slot, task[t].held, task[t].attempt, task[t].calls + 1, task[t].stray,
                 task[t].answer)
<1>1. task \in [Tasks -> Task] /\ task[t] \in Task
  BY Types
<1>2. /\ task'[t].pc = task[t].pc /\ task'[t].slot = task[t].slot /\ task'[t].held = task[t].held
      /\ task'[t].attempt = task[t].attempt /\ task'[t].calls = task[t].calls + 1
      /\ task'[t].stray = task[t].stray /\ task'[t].answer = task[t].answer
  BY <1>1 DEF Set, Task
<1>3. task'[t].again \in BOOLEAN
  BY <1>1 DEF Set, Task
<1>4. QED
  BY <1>1, <1>2, <1>3, SetMoves, TaskType DEF Stages, Answers, Slots

LEMMA StrayMoves ==
    ASSUME TypeOK, NEW t \in Tasks, NEW s \in {"none", "alive", "gone"}, NEW c \in Slots, Set(t, [stray |-> s, slot |-> c])
    PROVE  Moves(t, task[t].pc, c, task[t].held, task[t].attempt, task[t].calls, s,
                 task[t].answer)
<1>1. task \in [Tasks -> Task] /\ task[t] \in Task
  BY Types
<1>2. /\ task'[t].pc = task[t].pc /\ task'[t].slot = c /\ task'[t].held = task[t].held
      /\ task'[t].attempt = task[t].attempt /\ task'[t].calls = task[t].calls
      /\ task'[t].stray = s /\ task'[t].answer = task[t].answer
  BY <1>1 DEF Set, Task
<1>3. task'[t].again \in BOOLEAN
  BY <1>1 DEF Set, Task
<1>4. QED
  BY <1>1, <1>2, <1>3, SetMoves, TaskType DEF Stages, Answers, Slots

LEMMA SpawnMoves ==
    ASSUME TypeOK, NEW t \in Tasks, Set(t, [stray |-> "alive"])
    PROVE  Moves(t, task[t].pc, task[t].slot, task[t].held, task[t].attempt, task[t].calls, "alive",
                 task[t].answer)
<1>1. task \in [Tasks -> Task] /\ task[t] \in Task
  BY Types
<1>2. /\ task'[t].pc = task[t].pc /\ task'[t].slot = task[t].slot /\ task'[t].held = task[t].held
      /\ task'[t].attempt = task[t].attempt /\ task'[t].calls = task[t].calls
      /\ task'[t].stray = "alive" /\ task'[t].answer = task[t].answer
  BY <1>1 DEF Set, Task
<1>3. task'[t].again \in BOOLEAN
  BY <1>1 DEF Set, Task
<1>4. QED
  BY <1>1, <1>2, <1>3, SetMoves, TaskType DEF Stages, Answers, Slots

LEMMA TakesMoves ==
    ASSUME TypeOK, NEW t \in Tasks, NEW s \in {"none", "alive", "gone"},
           Set(t, [held |-> task[t].slot, slot |-> NoConn, stray |-> s])
    PROVE  Moves(t, task[t].pc, NoConn, task[t].slot, task[t].attempt, task[t].calls, s,
                 task[t].answer)
<1>1. task \in [Tasks -> Task] /\ task[t] \in Task
  BY Types
<1>2. /\ task'[t].pc = task[t].pc /\ task'[t].slot = NoConn /\ task'[t].held = task[t].slot
      /\ task'[t].attempt = task[t].attempt /\ task'[t].calls = task[t].calls
      /\ task'[t].stray = s /\ task'[t].answer = task[t].answer
  BY <1>1 DEF Set, Task
<1>3. task'[t].again \in BOOLEAN
  BY <1>1 DEF Set, Task
<1>4. QED
  BY <1>1, <1>2, <1>3, SetMoves, TaskType DEF Stages, Answers, Slots

LEMMA RetryMoves ==
    ASSUME TypeOK, NEW t \in Tasks, task[t].attempt < MaxRetry,
           Set(t, [pc |-> "backoff", held |-> NoConn, attempt |-> task[t].attempt + 1, stray |-> "none"])
    PROVE  Moves(t, "backoff", task[t].slot, NoConn, task[t].attempt + 1, task[t].calls, "none",
                 task[t].answer)
<1>1. task \in [Tasks -> Task] /\ task[t] \in Task
  BY Types
<1>2. /\ task'[t].pc = "backoff" /\ task'[t].slot = task[t].slot /\ task'[t].held = NoConn
      /\ task'[t].attempt = task[t].attempt + 1 /\ task'[t].calls = task[t].calls
      /\ task'[t].stray = "none" /\ task'[t].answer = task[t].answer
  BY <1>1 DEF Set, Task
<1>3. task'[t].again \in BOOLEAN
  BY <1>1 DEF Set, Task
<1>4. QED
  BY <1>1, <1>2, <1>3, SetMoves, TaskType DEF Stages, Answers, Slots

LEMMA DropMoves ==
    ASSUME TypeOK, NEW t \in Tasks, NEW c \in Slots,
           Set(t, [pc |-> "done", held |-> NoConn, slot |-> c, answer |-> "dropped", again |-> FALSE])
    PROVE  Moves(t, "done", c, NoConn, task[t].attempt, task[t].calls, task[t].stray,
                 "dropped")
<1>1. task \in [Tasks -> Task] /\ task[t] \in Task
  BY Types
<1>2. /\ task'[t].pc = "done" /\ task'[t].slot = c /\ task'[t].held = NoConn
      /\ task'[t].attempt = task[t].attempt /\ task'[t].calls = task[t].calls
      /\ task'[t].stray = task[t].stray /\ task'[t].answer = "dropped"
  BY <1>1 DEF Set, Task
<1>3. task'[t].again \in BOOLEAN
  BY <1>1 DEF Set, Task
<1>4. QED
  BY <1>1, <1>2, <1>3, SetMoves, TaskType DEF Stages, Answers, Slots

LEMMA TaskKept ==
    ASSUME TypeOK, NEW t \in Tasks, UNCHANGED task
    PROVE  Moves(t, task[t].pc, task[t].slot, task[t].held, task[t].attempt, task[t].calls,
                 task[t].stray, task[t].answer)
  BY Types DEF Moves

LEMMA CallKept ==
    ASSUME TypeOK, NEW t \in Tasks, UNCHANGED call
    PROVE  Calls(t, call[t].by, call[t].at, call[t].conn)
  BY Types DEF Calls

LEMMA CallEnds ==
    ASSUME TypeOK, NEW t \in Tasks, call' = [call EXCEPT ![t] = NoCall]
    PROVE  Calls(t, "none", "none", NoConn)
  BY Types DEF Calls, Call, NoCall

LEMMA CallGoes ==
    ASSUME TypeOK, NEW t \in Tasks, NEW at \in {"guard", "reenter", "reading", "first", "second"},
           call' = [call EXCEPT ![t].at = at]
    PROVE  Calls(t, call[t].by, at, call[t].conn)
  BY Types DEF Calls, Call

LEMMA CallFailsMoves ==
    ASSUME TypeOK, NEW t \in Tasks, NEW e, CallFails(t, e)
    PROVE  /\ Calls(t, "none", "none", NoConn)
           /\ \/ /\ call[t].by = "closure"
                 /\ Moves(t, "rollback", task[t].slot, task[t].held, task[t].attempt,
                          task[t].calls, task[t].stray, task[t].answer)
              \/ /\ call[t].by = "stray" \/ (t \notin Plain /\ <<dialect, e>> \in Ignored)
                 /\ UNCHANGED task
<1>1. IsRetryable(e) \in BOOLEAN
  BY DEF IsRetryable
<1>2. QED
  BY <1>1, CallEnds, FailMoves DEF CallFails

LEMMA RolledBackCleans ==
    ASSUME TypeOK, NEW c \in Conns, conn' = RolledBack(c)
    PROVE  Cleans(c)
  BY Types DEF RolledBack, Clean, Cleans, Only, Conn, Options

LEMMA LostCleans ==
    ASSUME TypeOK, NEW c \in Conns, conn' = [conn EXCEPT ![c] = Clean]
    PROVE  Cleans(c)
  BY Types DEF Clean, Cleans, Only, Conn, Options

-----------------------------------------------------------------------------
(* A step of t keeps the invariant when it touches no connection but its own *)
(* and the free one it may take, and leaves its transaction's the only one   *)
(* of them that is dirty.                                                    *)
LEMMA ConnFrame ==
    ASSUME ConnInv, NEW t \in Tasks, TypeOK',
           \A u \in Tasks \ {t} : task'[u] = task[u] /\ call'[u] = call[u],
           \A c \in Conns \ Own(t) : conn'[c] = conn[c],
           Own(t)' \subseteq Own(t) \cup FreeConns,
           Shape(t)', call'[t].conn # NoConn => call'[t].conn # task'[t].slot,
           \A c \in Own(t) : Dirty(c)' => Transacts(t, c)'
    PROVE  ConnInv'
<1>1. \A u \in Tasks : Shape(u)'
  BY DEF ConnInv, Shape
<1>2. \A u \in Tasks \ {t} : Own(u)' = Own(u)
  BY DEF Own
<1>3. \A u \in Tasks : Own(u) \cap FreeConns = {}
  BY DEF Own, FreeConns, InUse
<1>4. Disjoint'
  BY <1>2, <1>3 DEF ConnInv, Disjoint
<1>5. DirtyIsHeld'
  <2>1. SUFFICES ASSUME NEW c \in Conns, Dirty(c)' PROVE \E u \in Tasks : Transacts(u, c)'
    BY DEF DirtyIsHeld
  <2>2. CASE c \in Own(t)
    BY <2>1, <2>2
  <2>3. CASE c \notin Own(t)
    <3>1. Dirty(c)
      BY <2>1, <2>3 DEF Dirty
    <3>2. PICK u \in Tasks : Transacts(u, c)
      BY <3>1 DEF ConnInv, DirtyIsHeld
    <3>3. u # t
      BY <3>2, <2>3 DEF Transacts, Own
    <3>4. Transacts(u, c)'
      BY <3>2, <3>3 DEF Transacts
    <3>5. QED BY <3>4
  <2>4. QED BY <2>2, <2>3
<1>6. QED BY <1>1, <1>4, <1>5 DEF ConnInv

LEMMA ConnStep ==
    ASSUME ConnInv, NEW t \in Tasks,
           NEW pc, NEW slot, NEW held, NEW attempt, NEW calls, NEW stray, NEW answer,
           Moves(t, pc, slot, held, attempt, calls, stray, answer),
           NEW by, NEW at, NEW k, Calls(t, by, at, k),
           dialect' = dialect, told' \in [Tasks -> SUBSET Answered], db' \subseteq Writes,
           conn' \in [Conns -> Conn], \A c \in Conns \ Own(t) : conn'[c] = conn[c],
           {slot, held, k} \ {NoConn} \subseteq Own(t) \cup FreeConns,
           Shape(t)', k # NoConn => k # slot,
           \A c \in Own(t) : Dirty(c)' => Transacts(t, c)'
    PROVE  ConnInv'
<1>1. TypeOK'
  BY TypesKept DEF Moves, Calls, ConnInv
<1>2. \A u \in Tasks \ {t} : task'[u] = task[u] /\ call'[u] = call[u]
  BY DEF Moves, Calls
<1>3. Own(t)' = {slot, held, k} \ {NoConn}
  BY DEF Own, Moves, Calls
<1>4. call'[t].conn = k /\ task'[t].slot = slot
  BY DEF Moves, Calls
<1>5. QED
  BY <1>1, <1>2, <1>3, <1>4, ConnFrame

(* Which of t's connections may be dirty.                                    *)
LEMMA DirtyOwn ==
    ASSUME ConnInv, NEW t \in Tasks, NEW c \in Own(t), Dirty(c)
    PROVE  Transacts(t, c)
<1>1. c \in Conns
  BY Types, TaskType DEF ConnInv, Own, Slots, Call
<1>2. PICK u \in Tasks : Transacts(u, c)
  BY <1>1 DEF ConnInv, DirtyIsHeld
<1>3. c \in Own(u)
  BY <1>2 DEF Transacts, Own
<1>4. QED
  BY <1>2, <1>3 DEF ConnInv, Disjoint

(* What holds of t before a step.                                            *)
LEMMA Now ==
    ASSUME ConnInv, NEW t \in Tasks
    PROVE  /\ TypeOK /\ Shape(t) /\ task[t] \in Task /\ call[t] \in Call
           /\ task[t].pc \in Stages /\ task[t].slot \in Slots /\ task[t].held \in Slots
           /\ task[t].attempt \in 0..MaxRetry /\ task[t].calls \in 0..MaxCalls
           /\ task[t].stray \in {"none", "alive", "gone"} /\ task[t].answer \in Answers
           /\ call[t].by \in {"none", "closure", "stray"} /\ call[t].conn \in Slots
           /\ call[t].at \in {"none", "guard", "reenter", "reading", "first", "second"}
           /\ call[t].conn # NoConn => call[t].conn # task[t].slot
           /\ Own(t) = {task[t].slot, task[t].held, call[t].conn} \ {NoConn}
           /\ Own(t) \subseteq Conns
<1>1. TypeOK /\ Shape(t) /\ task[t] \in Task /\ call[t] \in Call
  BY Types DEF ConnInv
<1>2. call[t].by \in {"none", "closure", "stray"} /\ call[t].conn \in Slots
      /\ call[t].at \in {"none", "guard", "reenter", "reading", "first", "second"}
  BY <1>1 DEF Call, Slots
<1>3. QED
  BY <1>1, <1>2, TaskType DEF ConnInv, Disjoint, Own, Slots

LEMMA QuietStep ==
    ASSUME ConnInv, NEW t \in Tasks,
           NEW pc, NEW slot, NEW held, NEW attempt, NEW calls, NEW stray, NEW answer,
           Moves(t, pc, slot, held, attempt, calls, stray, answer),
           NEW by, NEW at, NEW k, Calls(t, by, at, k),
           UNCHANGED <<dialect, conn, told, db>>,
           {slot, held, k} \ {NoConn} \subseteq Own(t) \cup FreeConns,
           Shape(t)', k # NoConn => k # slot,
           \A c \in Conns : Transacts(t, c) => Transacts(t, c)'
    PROVE  ConnInv'
<1>1. conn' \in [Conns -> Conn] /\ told' \in [Tasks -> SUBSET Answered] /\ db' \subseteq Writes
  BY Types DEF ConnInv
<1>2. \A c \in Own(t) : c \in Conns
  BY Types, TaskType DEF ConnInv, Own, Slots, Call
<1>3. \A c \in Own(t) : Dirty(c)' => Transacts(t, c)'
  BY <1>2, DirtyOwn DEF Dirty
<1>4. QED
  BY <1>1, <1>3, ConnStep

LEMMA StartConn ==
    ASSUME ConnInv, NEW t \in Tasks, Start(t)
    PROVE  ConnInv'
<1>1. Moves(t, "checkout", task[t].slot, task[t].held, task[t].attempt, 0,
               task[t].stray, task[t].answer)
  BY StartMoves DEF ConnInv
<1>2. Calls(t, call[t].by, call[t].at, call[t].conn)
  BY CallKept DEF ConnInv, Start
<1>3. Shape(t)'
  BY <1>1, <1>2, Now DEF Start, Stages, Shape, Moves, Calls
<1>4. \A c \in Conns : Transacts(t, c) => Transacts(t, c)'
  BY <1>1, Now DEF Start, Transacts, Moves, Shape
<1>5. QED
  BY <1>1, <1>2, <1>3, <1>4, Now, QuietStep DEF Start, Shape

LEMMA CheckoutTimesOutConn ==
    ASSUME ConnInv, NEW t \in Tasks, CheckoutTimesOut(t)
    PROVE  ConnInv'
<1>1. Moves(t, "done", task[t].slot, NoConn, 0, 0,
               task[t].stray, "err")
  BY EndsMoves DEF ConnInv, CheckoutTimesOut, Answers
<1>2. Calls(t, call[t].by, call[t].at, call[t].conn)
  BY CallKept DEF ConnInv, CheckoutTimesOut
<1>3. Shape(t)'
  BY <1>1, <1>2, Now DEF CheckoutTimesOut, Stages, Shape, Moves, Calls
<1>4. \A c \in Conns : Transacts(t, c) => Transacts(t, c)'
  BY <1>1, Now DEF CheckoutTimesOut, Transacts, Moves, Shape
<1>5. QED
  BY <1>1, <1>2, <1>3, <1>4, Now, QuietStep DEF CheckoutTimesOut, Shape

LEMMA ClosureSpawnsConn ==
    ASSUME ConnInv, NEW t \in Tasks, ClosureSpawns(t)
    PROVE  ConnInv'
<1>1. Moves(t, task[t].pc, task[t].slot, task[t].held, task[t].attempt, task[t].calls,
               "alive", task[t].answer)
  BY SpawnMoves DEF ConnInv, ClosureSpawns
<1>2. Calls(t, call[t].by, call[t].at, call[t].conn)
  BY CallKept DEF ConnInv, ClosureSpawns
<1>3. Shape(t)'
  BY <1>1, <1>2, Now DEF ClosureSpawns, Stages, Shape, Moves, Calls
<1>4. \A c \in Conns : Transacts(t, c) => Transacts(t, c)'
  BY <1>1, Now DEF ClosureSpawns, Transacts, Moves, Shape
<1>5. QED
  BY <1>1, <1>2, <1>3, <1>4, Now, QuietStep DEF ClosureSpawns, Shape

LEMMA TakesConn ==
    ASSUME ConnInv, NEW t \in Tasks, Takes(t)
    PROVE  ConnInv'
<1>1. Moves(t, task[t].pc, NoConn, task[t].slot, task[t].attempt, task[t].calls,
               IF task[t].stray = "alive" THEN "gone" ELSE task[t].stray, task[t].answer)
  BY TakesMoves, Types, TaskType DEF ConnInv, Takes
<1>2. Calls(t, call[t].by, call[t].at, call[t].conn)
  BY CallKept DEF ConnInv, Takes
<1>3. Shape(t)'
  BY <1>1, <1>2, Now DEF Takes, Stages, Shape, Moves, Calls
<1>4. \A c \in Conns : Transacts(t, c) => Transacts(t, c)'
  BY <1>1, Now DEF Takes, Transacts, Moves, Shape
<1>5. QED
  BY <1>1, <1>2, <1>3, <1>4, Now, QuietStep DEF Takes, Shape

LEMMA CheckoutConn ==
    ASSUME ConnInv, NEW t \in Tasks, Checkout(t)
    PROVE  ConnInv'
<1> DEFINE pc == IF dialect = "mariadb" /\ t \notin Plain THEN "pre" ELSE "begin"
<1>1. PICK c \in FreeConns : Set(t, [held |-> c, pc |-> pc])
  BY DEF Checkout
<1>2. c \in Conns
  BY DEF FreeConns
<1>3. Moves(t, pc, task[t].slot, c, task[t].attempt, task[t].calls,
               task[t].stray, task[t].answer)
  BY <1>1, <1>2, HeldMoves DEF ConnInv, Stages
<1>4. Calls(t, call[t].by, call[t].at, call[t].conn)
  BY CallKept DEF ConnInv, Checkout
<1>5. Shape(t)'
  BY <1>2, <1>3, <1>4, Now DEF Checkout, Stages, Shape, Moves, Calls
<1>6. \A d \in Conns : Transacts(t, d) => Transacts(t, d)'
  BY <1>3, Now DEF Checkout, Transacts, Moves, Shape
<1>7. QED
  BY <1>3, <1>4, <1>5, <1>6, Now, QuietStep DEF Checkout, Shape

LEMMA ClosureReturnsConn ==
    ASSUME ConnInv, NEW t \in Tasks, ClosureReturns(t)
    PROVE  ConnInv'
<1>1. PICK pc \in {"commit", "rollback"} : Set(t, [pc |-> pc])
  BY DEF ClosureReturns
<1>2. Moves(t, pc, task[t].slot, task[t].held, task[t].attempt, task[t].calls,
               task[t].stray, task[t].answer)
  BY <1>1, PcMoves DEF ConnInv, Stages
<1>3. Calls(t, call[t].by, call[t].at, call[t].conn)
  BY CallKept DEF ConnInv, ClosureReturns
<1>4. Shape(t)'
  BY <1>1, <1>2, <1>3, Now DEF ClosureReturns, Stages, Shape, Moves, Calls
<1>5. \A c \in Conns : Transacts(t, c) => Transacts(t, c)'
  BY <1>2, Now DEF ClosureReturns, Transacts, Moves, Shape
<1>6. QED
  BY <1>2, <1>3, <1>4, <1>5, Now, QuietStep DEF ClosureReturns, Shape

LEMMA CallStartsConn ==
    ASSUME ConnInv, NEW t \in Tasks, NEW by \in {"closure", "stray"}, CallStarts(t, by),
           by = "stray" => t \notin Plain
    PROVE  ConnInv'
<1> DEFINE at == IF t \in Guarded THEN "guard" ELSE "first"
<1>0. task[t].calls < MaxCalls /\ task[t].calls \in 0..MaxCalls
  BY Now DEF CallStarts
<1>1. Moves(t, task[t].pc, task[t].slot, task[t].held, task[t].attempt, task[t].calls + 1,
               task[t].stray, task[t].answer)
  BY <1>0, CallMoves DEF ConnInv, CallStarts
<1>2. Calls(t, by, at, NoConn)
  BY Types DEF ConnInv, CallStarts, Calls, Call
<1>3. Shape(t)'
  BY <1>0, <1>1, <1>2, Now DEF CallStarts, Stages, Shape, Moves, Calls
<1>4. \A c \in Conns : Transacts(t, c) => Transacts(t, c)'
  BY <1>1 DEF Transacts, Moves
<1>5. QED
  BY <1>1, <1>2, <1>3, <1>4, Now, QuietStep DEF CallStarts, Shape

LEMMA FailsOrRetriesMoves ==
    ASSUME TypeOK, NEW t \in Tasks, NEW retryable, NEW r \in Answers,
           FailsOrRetries(t, retryable, r)
    PROVE  \/ /\ retryable /\ task[t].attempt < MaxRetry
              /\ Moves(t, "backoff", task[t].slot, NoConn, task[t].attempt + 1, task[t].calls,
                       "none", task[t].answer)
              /\ told' = [told EXCEPT ![t] = {}]
           \/ /\ Moves(t, "done", task[t].slot, NoConn, 0, 0, task[t].stray, r)
              /\ UNCHANGED told
<1>1. CASE retryable /\ task[t].attempt < MaxRetry
  <2>1. told' = [told EXCEPT ![t] = {}]
        /\ Set(t, [pc |-> "backoff", held |-> NoConn, attempt |-> task[t].attempt + 1, stray |-> "none"])
    BY <1>1 DEF FailsOrRetries
  <2>2. QED BY <1>1, <2>1, RetryMoves
<1>2. CASE ~(retryable /\ task[t].attempt < MaxRetry)
  <2>1. Ends(t, r) /\ UNCHANGED told
    BY <1>2 DEF FailsOrRetries
  <2>2. QED BY <2>1, EndsMoves
<1>3. QED BY <1>1, <1>2

(* A failed call of t leaves its connections as they are held.               *)
LEMMA CallFailsKeeps ==
    ASSUME ConnInv, NEW t \in Tasks, NEW e, CallFails(t, e)
    PROVE  /\ Calls(t, "none", "none", NoConn)
           /\ \E pc \in Stages :
                 Moves(t, pc, task[t].slot, task[t].held, task[t].attempt, task[t].calls,
                       task[t].stray, task[t].answer)
           /\ Shape(t)'
           /\ \A c \in Conns : Transacts(t, c) => Transacts(t, c)'
<1>1. Calls(t, "none", "none", NoConn)
  BY Now, CallFailsMoves
<1>2. CASE /\ call[t].by = "closure"
           /\ Moves(t, "rollback", task[t].slot, task[t].held, task[t].attempt,
                    task[t].calls, task[t].stray, task[t].answer)
  <2>1. Shape(t)' /\ \A c \in Conns : Transacts(t, c) => Transacts(t, c)'
    BY <1>1, <1>2, Now DEF Shape, Transacts, Moves, Calls
  <2>2. "rollback" \in Stages
    BY DEF Stages
  <2>3. QED BY <1>1, <1>2, <2>1, <2>2
<1>3. CASE UNCHANGED task
  <2>1. Shape(t)' /\ \A c \in Conns : Transacts(t, c) => Transacts(t, c)'
    BY <1>1, <1>3, Now DEF Shape, Transacts, Calls
  <2>2. QED BY <1>1, <1>3, <2>1, Now, TaskKept
<1>4. QED
  BY <1>2, <1>3, Now, CallFailsMoves

(* A failed call that changes nothing of the connections.                    *)
LEMMA CallFailsConn ==
    ASSUME ConnInv, NEW t \in Tasks, NEW e, CallFails(t, e), UNCHANGED <<dialect, conn, told, db>>
    PROVE  ConnInv'
<1>1. PICK pc \in Stages : Moves(t, pc, task[t].slot, task[t].held, task[t].attempt,
                                 task[t].calls, task[t].stray, task[t].answer)
  BY CallFailsKeeps
<1>2. {task[t].slot, task[t].held, NoConn} \ {NoConn} \subseteq Own(t) \cup FreeConns
  BY Now
<1>3. QED
  BY <1>1, <1>2, CallFailsKeeps, QuietStep

LEMMA NotFoundConn ==
    ASSUME ConnInv, NEW t \in Tasks, NotFound(t)
    PROVE  ConnInv'
  BY CallFailsConn DEF NotFound

LEMMA CallStaysConn ==
    ASSUME ConnInv, NEW t \in Tasks, UNCHANGED <<dialect, conn, task, told, db>>,
           NEW at \in {"guard", "reenter", "first", "second"}, call[t].at # "none",
           Calls(t, call[t].by, at, NoConn)
    PROVE  ConnInv'
<1>1. Moves(t, task[t].pc, task[t].slot, task[t].held, task[t].attempt,
            task[t].calls, task[t].stray, task[t].answer)
  BY Now, TaskKept
<1>2. Shape(t)' /\ \A c \in Conns : Transacts(t, c) => Transacts(t, c)'
  BY Now DEF Shape, Transacts, Calls
<1>3. {task[t].slot, task[t].held, NoConn} \ {NoConn} \subseteq Own(t) \cup FreeConns
  BY Now
<1>4. QED
  BY <1>1, <1>2, <1>3, QuietStep

LEMMA GuardDecidesConn ==
    ASSUME ConnInv, NEW t \in Tasks, GuardDecides(t)
    PROVE  ConnInv'
<1>0. call[t].conn = NoConn /\ call[t].at = "guard"
  BY Now DEF GuardDecides, Shape
<1>1. CASE \E at \in {"first", "reenter"} : call' = [call EXCEPT ![t].at = at] /\ UNCHANGED task
  <2>1. PICK at \in {"first", "reenter"} : call' = [call EXCEPT ![t].at = at] /\ UNCHANGED task
    BY <1>1
  <2>2. Calls(t, call[t].by, at, NoConn)
    BY <1>0, <2>1, Now, CallGoes
  <2>3. QED BY <1>0, <2>1, <2>2, CallStaysConn DEF GuardDecides
<1>2. CASE CallFails(t, "other")
  BY <1>2, CallFailsConn DEF GuardDecides
<1>3. QED
  BY <1>1, <1>2 DEF GuardDecides

LEMMA GuardReentersConn ==
    ASSUME ConnInv, NEW t \in Tasks, GuardReenters(t)
    PROVE  ConnInv'
<1>1. CASE CallFails(t, "other")
  BY <1>1, CallFailsConn DEF GuardReenters
<1>2. CASE \E c \in FreeConns : call' = [call EXCEPT ![t].at = "reading", ![t].conn = c] /\ UNCHANGED task
  <2>1. PICK c \in FreeConns : call' = [call EXCEPT ![t].at = "reading", ![t].conn = c] /\ UNCHANGED task
    BY <1>2
  <2>2. c \in Conns /\ c \notin Own(t) /\ c # NoConn /\ c # task[t].slot
    BY HostAssumption DEF FreeConns, InUse, Own
  <2>3. Calls(t, call[t].by, "reading", c)
    BY <2>1, <2>2, Types, Now DEF Calls, Call
  <2>4. Moves(t, task[t].pc, task[t].slot, task[t].held, task[t].attempt,
              task[t].calls, task[t].stray, task[t].answer)
    BY <2>1, Now, TaskKept
  <2>5. Shape(t)' /\ \A d \in Conns : Transacts(t, d) => Transacts(t, d)'
    BY <2>1, <2>2, <2>3, Now DEF GuardReenters, Shape, Transacts, Calls
  <2>6. {task[t].slot, task[t].held, c} \ {NoConn} \subseteq Own(t) \cup FreeConns
    BY Now
  <2>7. QED
    BY <2>2, <2>3, <2>4, <2>5, <2>6, QuietStep DEF GuardReenters
<1>3. QED
  BY <1>1, <1>2 DEF GuardReenters

LEMMA ClosureCancelsCallConn ==
    ASSUME ConnInv, NEW t \in Tasks, ClosureCancelsCall(t)
    PROVE  ConnInv'
<1>1. Calls(t, "none", "none", NoConn)
  BY Now, CallEnds DEF ClosureCancelsCall
<1>2. Moves(t, task[t].pc, task[t].slot, task[t].held, task[t].attempt,
            task[t].calls, task[t].stray, task[t].answer)
  BY Now, TaskKept DEF ClosureCancelsCall
<1>3. Shape(t)' /\ \A c \in Conns : Transacts(t, c) => Transacts(t, c)'
  BY <1>1, Now DEF ClosureCancelsCall, Shape, Transacts, Calls
<1>4. {task[t].slot, task[t].held, NoConn} \ {NoConn} \subseteq Own(t) \cup FreeConns
  BY Now
<1>5. QED
  BY <1>1, <1>2, <1>3, <1>4, QuietStep DEF ClosureCancelsCall

(* ------------------------------------- the steps that change a connection  *)
LEMMA SetOptionsConn ==
    ASSUME ConnInv, NEW t \in Tasks, SetOptions(t)
    PROVE  ConnInv'
<1>0. task[t].held \in Own(t) /\ task[t].held \in Conns /\ task[t].pc = "pre"
  BY Now DEF SetOptions, Shape
<1>1. Calls(t, call[t].by, call[t].at, call[t].conn)
  BY Now, CallKept DEF SetOptions
<1>2. \A c \in Conns : ~Transacts(t, c)
  BY <1>0, Now DEF Transacts, Shape
<1>3. CASE Set(t, [pc |-> "begin"]) /\ conn' = [conn EXCEPT ![task[t].held].next = Asks[t]]
  <2>1. Moves(t, "begin", task[t].slot, task[t].held, task[t].attempt, task[t].calls,
              task[t].stray, task[t].answer)
    BY <1>3, Now, PcMoves DEF Stages
  <2>2. Only(task[t].held) /\ \A c \in Conns : Dirty(c)' = Dirty(c)
    BY <1>0, <1>3, Now, Types DEF Only, Conn, Dirty, Options
  <2>3. Shape(t)' /\ \A c \in Own(t) : Dirty(c)' => Transacts(t, c)'
    BY <1>0, <1>1, <1>2, <2>1, <2>2, Now, DirtyOwn DEF Shape, Moves, Calls, Stages
  <2>4. QED
    BY <1>0, <1>1, <2>1, <2>2, <2>3, Now, Types, ConnStep DEF SetOptions, Only
<1>4. CASE UNCHANGED conn /\ Ends(t, "err")
  <2>1. Moves(t, "done", task[t].slot, NoConn, 0, 0, task[t].stray, "err")
    BY <1>4, Now, EndsMoves DEF Answers
  <2>2. Shape(t)' /\ \A c \in Conns : Transacts(t, c) => Transacts(t, c)'
    BY <1>0, <1>1, <1>2, <2>1, Now DEF Shape, Moves, Calls, Stages
  <2>3. QED
    BY <1>1, <1>4, <2>1, <2>2, Now, QuietStep DEF SetOptions
<1>5. QED
  BY <1>3, <1>4 DEF SetOptions

LEMMA BeginConn ==
    ASSUME ConnInv, NEW t \in Tasks, Begin(t)
    PROVE  ConnInv'
<1>0. PICK c \in Conns :
        /\ c = task[t].held /\ task[t].slot = NoConn /\ task[t].stray # "alive"
        /\ call[t].by = "none" /\ call[t].at = "none" /\ call[t].conn = NoConn /\ Own(t) = {c}
  BY Now DEF Begin, Shape
<1>1. Calls(t, "none", "none", NoConn)
  BY <1>0, Now, CallKept DEF Begin
<1>2. CASE /\ conn' = [conn EXCEPT ![c] = [Clean EXCEPT !.open = TRUE, !.opts = OpensWith(t, c)]]
           /\ Set(t, [pc |-> "closure", slot |-> c, held |-> NoConn])
  <2>1. Moves(t, "closure", c, NoConn, task[t].attempt, task[t].calls,
              task[t].stray, task[t].answer)
    BY <1>0, <1>2, Now, BeginMoves
  <2>2. OpensWith(t, c) \in Options
    BY <1>0, Types, Now DEF OpensWith, Options, Conn
  <2>3. Only(c)
    BY <1>0, <1>2, <2>2, Now, Types DEF Only, Conn, Clean, Options
  <2>4. Shape(t)' /\ Transacts(t, c)'
    BY <1>0, <1>1, <2>1, Now DEF Shape, Moves, Calls, Begin, Transacts
  <2>5. QED
    BY <1>0, <1>1, <2>1, <2>3, <2>4, Now, Types, ConnStep DEF Begin, Only
<1>3. CASE conn' = [conn EXCEPT ![c] = Clean] /\ Ends(t, "err")
  <2>1. Moves(t, "done", task[t].slot, NoConn, 0, 0, task[t].stray, "err")
    BY <1>3, Now, EndsMoves DEF Answers
  <2>2. Cleans(c)
    BY <1>0, <1>3, Now, LostCleans
  <2>3. Shape(t)'
    BY <1>0, <1>1, <2>1, Now DEF Shape, Moves, Calls, Begin
  <2>4. \A d \in Own(t) : ~Dirty(d)'
    BY <1>0, <2>2 DEF Cleans, Dirty
  <2>5. QED
    BY <1>0, <1>1, <2>1, <2>2, <2>3, <2>4, Now, Types, ConnStep DEF Begin, Cleans, Only
<1>4. QED
  BY <1>0, <1>2, <1>3 DEF Begin

LEMMA GuardReadsConn ==
    ASSUME ConnInv, NEW t \in Tasks, GuardReads(t)
    PROVE  ConnInv'
<1> DEFINE c == call[t].conn
<1>0. c \in Own(t) /\ c \in Conns /\ call[t].at = "reading"
  BY Now DEF GuardReads, Shape
<1>1. Only(c) /\ \A d \in Conns : Dirty(d)' = Dirty(d)
  <2>1. conn' = [conn EXCEPT ![c].next = "default"] /\ conn \in [Conns -> Conn]
    BY Now, Types DEF GuardReads
  <2>2. conn'[c] = [conn[c] EXCEPT !.next = "default"] /\ \A d \in Conns \ {c} : conn'[d] = conn[d]
    BY <1>0, <2>1
  <2>3. conn' \in [Conns -> Conn]
    BY <1>0, <2>1 DEF Conn, Options
  <2>4. conn'[c].open = conn[c].open /\ conn'[c].writes = conn[c].writes
    BY <1>0, <2>1, <2>2 DEF Conn
  <2>5. QED
    BY <2>2, <2>3, <2>4 DEF Only, Dirty
<1>2. PICK pc, by, at : /\ Moves(t, pc, task[t].slot, task[t].held, task[t].attempt,
                                 task[t].calls, task[t].stray, task[t].answer)
                        /\ Calls(t, by, at, NoConn)
                        /\ Shape(t)'
                        /\ \A d \in Conns : Transacts(t, d) => Transacts(t, d)'
  <2>1. CASE call' = [call EXCEPT ![t].at = "first", ![t].conn = NoConn] /\ UNCHANGED task
    <3>1. Calls(t, call[t].by, "first", NoConn)
      BY <2>1, Types, Now DEF Calls, Call
    <3>2. Moves(t, task[t].pc, task[t].slot, task[t].held, task[t].attempt,
                task[t].calls, task[t].stray, task[t].answer)
      BY <2>1, Now, TaskKept
    <3>3. Shape(t)' /\ \A d \in Conns : Transacts(t, d) => Transacts(t, d)'
      BY <1>0, <2>1, <3>1, Now DEF Shape, Transacts, Calls
    <3>4. QED BY <3>1, <3>2, <3>3
  <2>2. CASE CallFails(t, "other")
    BY <2>2, CallFailsKeeps
  <2>3. QED
    BY <2>1, <2>2 DEF GuardReads
<1>3. \A d \in Own(t) : Dirty(d)' => Transacts(t, d)'
  BY <1>1, <1>2, Now, DirtyOwn
<1>4. {task[t].slot, task[t].held, NoConn} \ {NoConn} \subseteq Own(t) \cup FreeConns
  BY Now
<1>5. QED
  BY <1>0, <1>1, <1>2, <1>3, <1>4, Now, Types, ConnStep DEF GuardReads, Only

LEMMA WriteOfType ==
    ASSUME ConnInv, NEW t \in Tasks, call[t].at # "none"
    PROVE  WriteOf(t) \in Writes /\ Nth(t) \in Answered
<1>1. task[t].calls \in 1..MaxCalls /\ task[t].attempt \in 0..MaxRetry
  BY Now DEF Shape
<1>2. QED
  BY <1>1 DEF WriteOf, Nth, Writes, Answered

LEMMA StatementRunsConn ==
    ASSUME ConnInv, NEW t \in Tasks, StatementRuns(t)
    PROVE  ConnInv'
<1> DEFINE c == task[t].slot
<1>0. c \in Own(t) /\ c \in Conns /\ call[t].at # "none" /\ call[t].conn = NoConn /\ Transacts(t, c)
  BY Now DEF StatementRuns, Shape, Transacts
<1>1. WriteOf(t) \in Writes /\ Nth(t) \in Answered
  BY <1>0, WriteOfType
<1>2. Only(c) /\ db' \subseteq Writes
  BY <1>0, <1>1, Now, Types DEF StatementRuns, Only, Conn
<1>3. told' \in [Tasks -> SUBSET Answered]
  BY <1>0, <1>1, Now, Types DEF StatementRuns
<1>4. Moves(t, task[t].pc, task[t].slot, task[t].held, task[t].attempt,
            task[t].calls, task[t].stray, task[t].answer)
  BY Now, TaskKept DEF StatementRuns
<1>5. PICK by, at : Calls(t, by, at, NoConn) /\ Shape(t)'
  <2>1. CASE call' = [call EXCEPT ![t].at = "second"]
    <3>1. Calls(t, call[t].by, "second", NoConn)
      BY <1>0, <2>1, Now, CallGoes
    <3>2. Shape(t)'
      BY <1>0, <3>1, Now DEF StatementRuns, Shape, Calls
    <3>3. QED BY <3>1, <3>2
  <2>2. CASE call' = [call EXCEPT ![t] = NoCall]
    <3>1. Calls(t, "none", "none", NoConn)
      BY <2>2, Now, CallEnds
    <3>2. Shape(t)'
      BY <1>0, <3>1, Now DEF StatementRuns, Shape, Calls
    <3>3. QED BY <3>1, <3>2
  <2>3. QED
    BY <2>1, <2>2 DEF StatementRuns
<1>6. \A d \in Conns : Transacts(t, d)' = Transacts(t, d)
  BY DEF StatementRuns, Transacts
<1>7. \A d \in Own(t) : Dirty(d)' => Transacts(t, d)'
  BY <1>0, <1>2, <1>6, Now, DirtyOwn DEF Only, Dirty
<1>8. {task[t].slot, task[t].held, NoConn} \ {NoConn} \subseteq Own(t) \cup FreeConns
  BY Now
<1>9. QED
  BY <1>0, <1>2, <1>3, <1>4, <1>5, <1>7, <1>8, ConnStep DEF StatementRuns, Only

LEMMA StatementFailsConn ==
    ASSUME ConnInv, NEW t \in Tasks, StatementFails(t)
    PROVE  ConnInv'
<1> DEFINE c == task[t].slot
<1>0. c \in Own(t) /\ c \in Conns
  BY Now DEF StatementFails, Shape
<1>1. PICK e \in Errors : conn' = AfterError(c, e) /\ CallFails(t, e)
  BY DEF StatementFails
<1>2. Only(c) /\ \A d \in Conns : Dirty(d)' => Dirty(d)
  <2>1. CASE conn' = conn
    BY <2>1, Now, Types DEF Only, Dirty
  <2>2. CASE conn' = [conn EXCEPT ![c] = Clean]
    BY <1>0, <2>2, Now, LostCleans DEF Cleans, Only, Dirty
  <2>3. CASE conn' = [conn EXCEPT ![c].aborted = TRUE]
    <3>1. conn \in [Conns -> Conn]
      BY Now, Types
    <3>2. conn'[c] = [conn[c] EXCEPT !.aborted = TRUE] /\ \A d \in Conns \ {c} : conn'[d] = conn[d]
      BY <1>0, <2>3, <3>1
    <3>3. conn' \in [Conns -> Conn]
      BY <1>0, <2>3, <3>1 DEF Conn
    <3>4. conn'[c].open = conn[c].open /\ conn'[c].writes = conn[c].writes
      BY <1>0, <3>1, <3>2 DEF Conn
    <3>5. QED
      BY <3>2, <3>3, <3>4 DEF Only, Dirty
  <2>4. QED
    BY <1>1, <2>1, <2>2, <2>3 DEF AfterError
<1>3. PICK pc \in Stages : Moves(t, pc, task[t].slot, task[t].held, task[t].attempt,
                                 task[t].calls, task[t].stray, task[t].answer)
  BY <1>1, CallFailsKeeps
<1>4. \A d \in Own(t) : Dirty(d)' => Transacts(t, d)'
  BY <1>1, <1>2, Now, DirtyOwn, CallFailsKeeps
<1>5. {task[t].slot, task[t].held, NoConn} \ {NoConn} \subseteq Own(t) \cup FreeConns
  BY Now
<1>6. Calls(t, "none", "none", NoConn) /\ Shape(t)'
  BY <1>1, CallFailsKeeps
<1>7. QED
  BY <1>0, <1>2, <1>3, <1>4, <1>5, <1>6, Now, Types, ConnStep DEF StatementFails, Only

(* The boundary ends t's transaction and lets go of the connection it left   *)
(* clean.                                                                    *)
LEMMA BoundaryEnds ==
    ASSUME ConnInv, NEW t \in Tasks, task[t].pc \in {"commit", "rollback"}, task[t].held # NoConn,
           Cleans(task[t].held),
           NEW pc \in {"done", "backoff"}, NEW attempt, NEW calls, NEW stray \in {task[t].stray, "none"},
           NEW answer, Moves(t, pc, task[t].slot, NoConn, attempt, calls, stray, answer),
           \/ pc = "done" /\ answer # "none"
           \/ pc = "backoff" /\ answer = "none",
           UNCHANGED <<dialect, call>>, told' \in [Tasks -> SUBSET Answered], db' \subseteq Writes
    PROVE  ConnInv'
<1>1. Own(t) = {task[t].held} /\ call[t].by = "none" /\ call[t].at = "none" /\ call[t].conn = NoConn
      /\ task[t].slot = NoConn /\ task[t].stray # "alive"
  BY Now DEF Shape
<1>2. Calls(t, "none", "none", NoConn)
  BY <1>1, Now, CallKept
<1>3. Shape(t)'
  BY <1>1, <1>2, Now DEF Shape, Moves, Calls
<1>4. \A d \in Own(t) : ~Dirty(d)'
  BY <1>1 DEF Cleans, Dirty
<1>5. conn' \in [Conns -> Conn] /\ \A d \in Conns \ Own(t) : conn'[d] = conn[d]
  BY <1>1 DEF Cleans, Only
<1>6. {task[t].slot, NoConn, NoConn} \ {NoConn} \subseteq Own(t) \cup FreeConns
  BY <1>1
<1>7. QED
  BY <1>2, <1>3, <1>4, <1>5, <1>6, ConnStep

LEMMA Committing ==
    ASSUME ConnInv, NEW c \in Conns
    PROVE  db \cup conn[c].writes \subseteq Writes
  BY Types DEF ConnInv, Conn

LEMMA CommitsConn ==
    ASSUME ConnInv, NEW t \in Tasks, Commits(t)
    PROVE  ConnInv'
<1>1. task[t].held \in Conns /\ task[t].pc = "commit" /\ task[t].held # NoConn
  BY Now DEF Commits, Slots
<1>2. Cleans(task[t].held) /\ db' \subseteq Writes /\ told' \in [Tasks -> SUBSET Answered]
  BY <1>1, Now, Types, RolledBackCleans, Committing DEF Commits
<1>3. Moves(t, "done", task[t].slot, NoConn, 0, 0, task[t].stray, "ok")
  BY Now, EndsMoves DEF Commits, Answers
<1>4. QED
  BY <1>1, <1>2, <1>3, BoundaryEnds DEF Commits

LEMMA FailsOrRetriesConn ==
    ASSUME ConnInv, NEW t \in Tasks, task[t].pc \in {"commit", "rollback"}, task[t].held # NoConn,
           Cleans(task[t].held), NEW retryable, NEW r \in Answers \ {"none"},
           FailsOrRetries(t, retryable, r), UNCHANGED <<dialect, call>>, db' \subseteq Writes
    PROVE  ConnInv'
<1>1. CASE /\ Moves(t, "backoff", task[t].slot, NoConn, task[t].attempt + 1, task[t].calls,
                    "none", task[t].answer)
           /\ told' = [told EXCEPT ![t] = {}]
  <2>1. told' \in [Tasks -> SUBSET Answered] /\ task[t].answer = "none"
    BY <1>1, Now, Types DEF Shape
  <2>2. QED
    BY <1>1, <2>1, BoundaryEnds
<1>2. CASE Moves(t, "done", task[t].slot, NoConn, 0, 0, task[t].stray, r) /\ UNCHANGED told
  <2>1. told' \in [Tasks -> SUBSET Answered]
    BY <1>2, Now, Types
  <2>2. QED
    BY <1>2, <2>1, BoundaryEnds
<1>3. QED
  BY <1>1, <1>2, Now, FailsOrRetriesMoves

LEMMA CommitFailsConn ==
    ASSUME ConnInv, NEW t \in Tasks, CommitFails(t)
    PROVE  ConnInv'
<1>1. task[t].held \in Conns /\ task[t].pc = "commit" /\ task[t].held # NoConn
  BY Now DEF CommitFails, Slots
<1>2. Cleans(task[t].held) /\ db' \subseteq Writes
  BY <1>1, Now, Types, RolledBackCleans DEF CommitFails
<1>3. QED
  BY <1>1, <1>2, FailsOrRetriesConn DEF CommitFails, Answers

LEMMA CommitIsLostConn ==
    ASSUME ConnInv, NEW t \in Tasks, CommitIsLost(t)
    PROVE  ConnInv'
<1>1. task[t].held \in Conns /\ task[t].pc = "commit" /\ task[t].held # NoConn
  BY Now DEF CommitIsLost, Slots
<1>2. Cleans(task[t].held) /\ db' \subseteq Writes
  BY <1>1, Now, Types, LostCleans, Committing DEF CommitIsLost
<1>3. QED
  BY <1>1, <1>2, FailsOrRetriesConn DEF CommitIsLost, Answers

LEMMA RollsBackConn ==
    ASSUME ConnInv, NEW t \in Tasks, RollsBack(t)
    PROVE  ConnInv'
<1>1. task[t].held \in Conns /\ task[t].pc = "rollback" /\ task[t].held # NoConn
  BY Now DEF RollsBack, Slots
<1>2. Cleans(task[t].held) /\ db' \subseteq Writes
  BY <1>1, Now, Types, RolledBackCleans DEF RollsBack
<1>3. QED
  BY <1>1, <1>2, FailsOrRetriesConn DEF RollsBack, Answers

(* Dropped with the last of its owners, a transaction leaves its connection  *)
(* clean; a stray client that stays keeps it.                                *)
LEMMA DropConn ==
    ASSUME ConnInv, NEW t \in Tasks, Drop(t)
    PROVE  ConnInv'
<1>1. PICK stays, c :
        /\ stays = (task[t].stray = "alive" /\ task[t].slot # NoConn)
        /\ c = IF task[t].held # NoConn THEN task[t].held ELSE task[t].slot
  OBVIOUS
<1>2. /\ call' = IF call[t].by = "closure" THEN [call EXCEPT ![t] = NoCall] ELSE call
      /\ conn' = IF stays \/ c = NoConn THEN conn ELSE RolledBack(c)
      /\ db' \in {db} \cup IF task[t].pc = "commit" /\ task[t].held # NoConn /\ ~conn[c].aborted
                           THEN {db \cup conn[c].writes} ELSE {}
      /\ Set(t, [pc |-> "done", held |-> NoConn, slot |-> IF stays THEN task[t].slot ELSE NoConn,
                 answer |-> "dropped", again |-> FALSE])
      /\ UNCHANGED <<dialect, told>>
      /\ task[t].pc # "done"
  BY <1>1 DEF Drop
<1>3. c \in Slots /\ (c # NoConn => c \in Conns /\ c \in Own(t))
  BY <1>1, Now DEF Slots
<1> DEFINE slot == IF stays THEN task[t].slot ELSE NoConn
<1>4. Moves(t, "done", slot, NoConn, task[t].attempt, task[t].calls, task[t].stray, "dropped")
  BY <1>2, Now, DropMoves DEF Slots
<1>5. PICK by, at, k : /\ Calls(t, by, at, k) /\ k \in {NoConn, call[t].conn}
                       /\ by # "closure" /\ by \in {call[t].by, "none"}
                       /\ IF by = "none" THEN at = "none" /\ k = NoConn
                                         ELSE at = call[t].at /\ k = call[t].conn
  <2>1. CASE call[t].by = "closure"
    BY <1>2, <2>1, Now, CallEnds
  <2>2. CASE call[t].by # "closure"
    BY <1>2, <2>2, Now, CallKept DEF Shape
  <2>3. QED BY <2>1, <2>2
<1>6. Shape(t)'
  <2>1. task[t].stray = "alive" <=> slot # NoConn
    BY <1>1, Now DEF Shape
  <2>2. CASE by = "none"
    BY <1>4, <1>5, <2>1, <2>2 DEF Shape, Moves, Calls
  <2>3. CASE by # "none"
    <3>1. by = "stray" /\ call[t].by = "stray" /\ at = call[t].at /\ k = call[t].conn
      BY <1>5, <2>3, Now
    <3>2. QED
      BY <1>4, <1>5, <2>1, <3>1, Now DEF Shape, Moves, Calls
  <2>4. QED BY <2>2, <2>3
<1>7. conn' \in [Conns -> Conn] /\ (\A d \in Conns \ Own(t) : conn'[d] = conn[d])
      /\ \A d \in Own(t) : Dirty(d)' => Transacts(t, d)'
  <2>1. CASE stays \/ c = NoConn
    <3>1. UNCHANGED conn
      BY <1>2, <2>1
    <3>2. \A d \in Conns : Transacts(t, d) => Transacts(t, d)'
      BY <1>1, <1>4, <2>1, Now DEF Transacts, Moves, Shape
    <3>3. QED
      BY <3>1, <3>2, Now, Types, DirtyOwn DEF Dirty
  <2>2. CASE ~stays /\ c # NoConn
    <3>1. Cleans(c)
      BY <1>2, <1>3, <2>2, Now, RolledBackCleans
    <3>2. \A d \in Conns : Transacts(t, d) => d = c
      BY <1>1, Now DEF Transacts, Shape
    <3>3. QED
      BY <1>3, <3>1, <3>2, Now, DirtyOwn DEF Cleans, Only, Dirty
  <2>3. QED BY <2>1, <2>2
<1>8. db' \subseteq Writes /\ told' \in [Tasks -> SUBSET Answered]
  <2>1. task[t].held # NoConn => c \in Conns
    BY <1>1, <1>3
  <2>2. QED
    BY <1>2, <2>1, Now, Types, Committing
<1>9. {slot, NoConn, k} \ {NoConn} \subseteq Own(t) \cup FreeConns /\ (k # NoConn => k # slot)
  BY <1>5, Now
<1>10. QED
  BY <1>2, <1>4, <1>5, <1>6, <1>7, <1>8, <1>9, ConnStep

LEMMA StrayEndsConn ==
    ASSUME ConnInv, NEW t \in Tasks, StrayEnds(t)
    PROVE  ConnInv'
<1>1. PICK last : last = (task[t].pc = "done" /\ task[t].slot # NoConn)
  OBVIOUS
<1> DEFINE slot == IF last THEN NoConn ELSE task[t].slot
<1>2. /\ call' = IF call[t].by = "stray" THEN [call EXCEPT ![t] = NoCall] ELSE call
      /\ conn' = IF last THEN RolledBack(task[t].slot) ELSE conn
      /\ Set(t, [stray |-> "gone", slot |-> slot])
      /\ UNCHANGED <<dialect, told, db>>
      /\ task[t].stray = "alive"
  BY <1>1 DEF StrayEnds
<1>3. Moves(t, task[t].pc, slot, task[t].held, task[t].attempt, task[t].calls, "gone", task[t].answer)
  BY <1>2, Now, StrayMoves DEF Slots
<1>4. PICK by, at, k : /\ Calls(t, by, at, k) /\ k \in {NoConn, call[t].conn}
                       /\ by # "stray" /\ by \in {call[t].by, "none"}
                       /\ IF by = "none" THEN at = "none" /\ k = NoConn
                                         ELSE at = call[t].at /\ k = call[t].conn
  <2>1. CASE call[t].by = "stray"
    BY <1>2, <2>1, Now, CallEnds
  <2>2. CASE call[t].by # "stray"
    BY <1>2, <2>2, Now, CallKept DEF Shape
  <2>3. QED BY <2>1, <2>2
<1>5. Shape(t)'
  <2>1. CASE by = "none"
    <3>1. at = "none" /\ k = NoConn
      BY <1>4, <2>1
    <3>2. slot # NoConn => task[t].pc \in {"closure", "commit", "rollback"}
      BY <1>1, Now DEF Shape
    <3>3. task[t].pc \in {"closure", "commit", "rollback", "done"} /\ task[t].held = NoConn
      BY <1>2, Now DEF Shape
    <3>4. task[t].pc # "done" => slot = task[t].slot
      BY <1>1
    <3>5. QED
      BY <1>3, <1>4, <2>1, <3>1, <3>2, <3>3, <3>4, Now DEF Shape, Moves, Calls
  <2>2. CASE by # "none"
    <3>1. by = "closure" /\ call[t].by = "closure" /\ at = call[t].at /\ k = call[t].conn
      BY <1>4, <2>2, Now
    <3>2. task[t].pc = "closure" /\ ~last
      BY <1>1, <3>1, Now DEF Shape
    <3>3. QED
      BY <1>3, <1>4, <3>1, <3>2, Now DEF Shape, Moves, Calls
  <2>3. QED BY <2>1, <2>2
<1>6. task[t].slot \in Conns /\ task[t].slot \in Own(t) /\ task[t].held = NoConn
  BY <1>2, Now DEF Shape, Slots
<1>7. conn' \in [Conns -> Conn] /\ (\A d \in Conns \ Own(t) : conn'[d] = conn[d])
      /\ \A d \in Own(t) : Dirty(d)' => Transacts(t, d)'
  <2>1. CASE ~last
    <3>1. UNCHANGED conn
      BY <1>2, <2>1
    <3>2. \A d \in Conns : Transacts(t, d) => Transacts(t, d)'
      BY <1>1, <1>3, <2>1, Now DEF Transacts, Moves, Shape
    <3>3. QED
      BY <3>1, <3>2, Now, Types, DirtyOwn DEF Dirty
  <2>2. CASE last
    <3>1. Cleans(task[t].slot)
      BY <1>2, <1>6, <2>2, Now, RolledBackCleans
    <3>2. \A d \in Conns : Transacts(t, d) => d = task[t].slot
      BY <1>6, HostAssumption DEF Transacts
    <3>3. QED
      BY <1>6, <3>1, <3>2, Now, DirtyOwn DEF Cleans, Only, Dirty
  <2>3. QED BY <1>1, <2>1, <2>2
<1>8. {slot, task[t].held, k} \ {NoConn} \subseteq Own(t) \cup FreeConns /\ (k # NoConn => k # slot)
  BY <1>4, Now
<1>9. db' \subseteq Writes /\ told' \in [Tasks -> SUBSET Answered]
  BY <1>2, Now, Types
<1>10. QED
  BY <1>2, <1>3, <1>4, <1>5, <1>7, <1>8, <1>9, ConnStep

-----------------------------------------------------------------------------
LEMMA ConnInit ==
    ASSUME Init
    PROVE  ConnInv
<1>1. TypeOK
  BY DEF Init, TypeOK, Clean, NoCall, Options
<1>2. \A t \in Tasks : Shape(t) /\ Own(t) = {} /\ call[t].conn = NoConn
  BY DEF Init, Shape, NoCall, Own
<1>3. \A c \in Conns : ~Dirty(c)
  BY DEF Init, Dirty, Clean
<1>4. QED
  BY <1>1, <1>2, <1>3 DEF ConnInv, Disjoint, DirtyIsHeld

LEMMA ConnNext ==
    ASSUME ConnInv, [Next]_vars
    PROVE  ConnInv'
<1>1. CASE UNCHANGED vars
  <2>1. TypeOK'
    BY <1>1 DEF vars, ConnInv, TypeOK
  <2>2. \A t \in Tasks : Shape(t)'
    BY <1>1 DEF vars, ConnInv, Shape
  <2>3. Disjoint' /\ DirtyIsHeld'
    BY <1>1 DEF vars, ConnInv, Disjoint, Own, DirtyIsHeld, Dirty, Transacts
  <2>4. QED BY <2>1, <2>2, <2>3 DEF ConnInv
<1>2. ASSUME NEW t \in Tasks, TaskStep(t)
      PROVE  ConnInv'
  BY <1>2, StartConn, CheckoutConn, CheckoutTimesOutConn, SetOptionsConn, BeginConn, CallStartsConn,
     ClosureReturnsConn, TakesConn, CommitsConn, CommitFailsConn, CommitIsLostConn, RollsBackConn
  DEF TaskStep
<1>3. ASSUME NEW t \in Tasks, CallStep(t)
      PROVE  ConnInv'
  BY <1>3, GuardDecidesConn, GuardReentersConn, GuardReadsConn, StatementRunsConn,
     StatementFailsConn, NotFoundConn
  DEF CallStep
<1>4. ASSUME NEW t \in Tasks, HostStep(t)
      PROVE  ConnInv'
  BY <1>4, CallStartsConn, ClosureCancelsCallConn, ClosureSpawnsConn, DropConn, StrayEndsConn
  DEF HostStep
<1>5. QED
  BY <1>1, <1>2, <1>3, <1>4 DEF Next, AllEnded

(* Every variable keeps its type.                                            *)
THEOREM TypeCorrect == Spec => []TypeOK
<1>1. ConnInv => TypeOK
  BY DEF ConnInv
<1>2. QED
  BY <1>1, ConnInit, ConnNext, PTL DEF Spec

(* Whatever is dropped, cancelled, ignored or fails, and whoever still holds *)
(* a client, a connection that can be checked out has no transaction open    *)
(* and none of its writes (tx.rs, sqlx's guard and RusqliteTx's Drop).       *)
THEOREM PoolIsClean == Spec => []PooledHasNoTransaction
<1>1. ConnInv => PooledHasNoTransaction
  <2>1. SUFFICES ASSUME ConnInv, NEW c \in FreeConns PROVE ~Dirty(c)
    BY DEF PooledHasNoTransaction, Dirty
  <2>2. \A t \in Tasks : ~Transacts(t, c)
    BY DEF FreeConns, InUse, Transacts
  <2>3. QED
    BY <2>1, <2>2 DEF ConnInv, DirtyIsHeld, FreeConns
<1>2. QED
  BY <1>1, ConnInit, ConnNext, PTL DEF Spec

-----------------------------------------------------------------------------
(* What a step of t leaves alone.                                            *)
Others(t) ==
    /\ \A u \in Tasks \ {t} : task'[u] = task[u] /\ call'[u] = call[u] /\ told'[u] = told[u]
    /\ \A c \in Conns \ Own(t) : conn'[c] = conn[c]
    /\ dialect' = dialect
    /\ db \subseteq db' /\ \A w \in db' \ db : w[1] = t

LEMMA SetOthers ==
    ASSUME TypeOK, NEW t \in Tasks, NEW fields, Set(t, fields)
    PROVE  \A u \in Tasks \ {t} : task'[u] = task[u]
  BY Types DEF Set

LEMMA CallFailsOthers ==
    ASSUME TypeOK, NEW t \in Tasks, NEW e, CallFails(t, e)
    PROVE  \A u \in Tasks \ {t} : task'[u] = task[u] /\ call'[u] = call[u]
  BY Types DEF CallFails, Set

LEMMA FailsOrRetriesOthers ==
    ASSUME TypeOK, NEW t \in Tasks, NEW retryable, NEW r \in Answers, FailsOrRetries(t, retryable, r)
    PROVE  \A u \in Tasks \ {t} : task'[u] = task[u] /\ told'[u] = told[u]
  BY Types, FailsOrRetriesMoves DEF Moves

(* The writes of t's transaction are t's.                                    *)
LEMMA OwnWrites ==
    ASSUME TxInv, NEW t \in Tasks, NEW c \in Conns, Transacts(t, c)
    PROVE  Faithful(t, c) /\ \A w \in conn[c].writes : w[1] = t
  BY DEF TxInv, Faithful

LEMMA TaskStepOthers ==
    ASSUME ConnInv, TxInv, NEW t \in Tasks, TaskStep(t)
    PROVE  Others(t)
<1>1. CASE Start(t)
  BY <1>1, Now, SetOthers DEF Start, Others
<1>2. CASE Checkout(t)
  BY <1>2, Now, SetOthers DEF Checkout, Others
<1>3. CASE CheckoutTimesOut(t)
  BY <1>3, Now, SetOthers DEF CheckoutTimesOut, Ends, Others
<1>4. CASE SetOptions(t)
  <2>1. \A c \in Conns \ Own(t) : conn'[c] = conn[c]
    BY <1>4, Now, Types DEF SetOptions, Shape
  <2>2. QED
    BY <1>4, <2>1, Now, SetOthers DEF SetOptions, Ends, Others
<1>5. CASE Begin(t)
  <2>1. \A c \in Conns \ Own(t) : conn'[c] = conn[c]
    BY <1>5, Now, Types DEF Begin, Shape
  <2>2. QED
    BY <1>5, <2>1, Now, SetOthers DEF Begin, Ends, Others
<1>6. CASE CallStarts(t, "closure")
  BY <1>6, Now, Types, SetOthers DEF CallStarts, Others
<1>7. CASE ClosureReturns(t)
  BY <1>7, Now, SetOthers DEF ClosureReturns, Others
<1>8. CASE Takes(t)
  BY <1>8, Now, SetOthers DEF Takes, Others
<1>9. ASSUME task[t].pc \in {"commit", "rollback"}, task[t].held # NoConn
      PROVE  /\ task[t].held \in Conns /\ task[t].held \in Own(t) /\ Transacts(t, task[t].held)
             /\ \A w \in conn[task[t].held].writes : w[1] = t
  <2>1. task[t].held \in Conns /\ task[t].held \in Own(t) /\ Transacts(t, task[t].held)
    BY <1>9, Now DEF Transacts
  <2>2. QED BY <2>1, OwnWrites
<1>10. CASE Commits(t)
  <2>1. \A c \in Conns \ Own(t) : conn'[c] = conn[c]
    BY <1>9, <1>10, Now, Types DEF Commits, RolledBack
  <2>2. \A u \in Tasks \ {t} : task'[u] = task[u]
    BY <1>10, Now, SetOthers DEF Commits, Ends
  <2>3. QED
    BY <1>9, <1>10, <2>1, <2>2 DEF Commits, Others
<1>11. CASE CommitFails(t)
  <2>1. \A c \in Conns \ Own(t) : conn'[c] = conn[c]
    BY <1>9, <1>11, Now, Types DEF CommitFails, RolledBack
  <2>2. \A u \in Tasks \ {t} : task'[u] = task[u] /\ told'[u] = told[u]
    BY <1>11, Now, FailsOrRetriesOthers DEF CommitFails, Answers
  <2>3. QED
    BY <1>11, <2>1, <2>2 DEF CommitFails, Others
<1>12. CASE CommitIsLost(t)
  <2>1. \A c \in Conns \ Own(t) : conn'[c] = conn[c]
    BY <1>9, <1>12, Now, Types DEF CommitIsLost
  <2>2. \A u \in Tasks \ {t} : task'[u] = task[u] /\ told'[u] = told[u]
    BY <1>12, Now, FailsOrRetriesOthers DEF CommitIsLost, Answers
  <2>3. QED
    BY <1>9, <1>12, <2>1, <2>2 DEF CommitIsLost, Others
<1>13. CASE RollsBack(t)
  <2>1. \A c \in Conns \ Own(t) : conn'[c] = conn[c]
    BY <1>9, <1>13, Now, Types DEF RollsBack, RolledBack
  <2>2. \A u \in Tasks \ {t} : task'[u] = task[u] /\ told'[u] = told[u]
    BY <1>13, Now, FailsOrRetriesOthers DEF RollsBack, Answers
  <2>3. QED
    BY <1>13, <2>1, <2>2 DEF RollsBack, Others
<1>14. QED
  BY <1>1, <1>2, <1>3, <1>4, <1>5, <1>6, <1>7, <1>8, <1>10, <1>11, <1>12, <1>13 DEF TaskStep

LEMMA CallStepOthers ==
    ASSUME ConnInv, TxInv, NEW t \in Tasks, CallStep(t)
    PROVE  Others(t)
<1>1. CASE GuardDecides(t)
  BY <1>1, Now, Types, CallFailsOthers DEF GuardDecides, Others
<1>2. CASE GuardReenters(t)
  BY <1>2, Now, Types, CallFailsOthers DEF GuardReenters, Others
<1>3. CASE GuardReads(t)
  <2>1. \A c \in Conns \ Own(t) : conn'[c] = conn[c]
    BY <1>3, Now, Types DEF GuardReads, Shape
  <2>2. QED
    BY <1>3, <2>1, Now, Types, CallFailsOthers DEF GuardReads, Others
<1>4. task[t].slot # NoConn => task[t].slot \in Conns /\ task[t].slot \in Own(t)
  BY Now DEF Slots
<1>5. call[t].at \in {"first", "second"} => task[t].slot # NoConn
  BY Now DEF Shape
<1>6. CASE StatementRuns(t)
  <2>1. \A c \in Conns \ Own(t) : conn'[c] = conn[c]
    BY <1>4, <1>5, <1>6, Now, Types DEF StatementRuns
  <2>2. \A u \in Tasks \ {t} : task'[u] = task[u] /\ call'[u] = call[u] /\ told'[u] = told[u]
    BY <1>6, Now, Types DEF StatementRuns
  <2>3. db \subseteq db' /\ \A w \in db' \ db : w[1] = t
    BY <1>6 DEF StatementRuns, WriteOf
  <2>4. QED
    BY <1>6, <2>1, <2>2, <2>3 DEF StatementRuns, Others
<1>7. CASE StatementFails(t)
  <2>1. PICK e \in Errors : conn' = AfterError(task[t].slot, e) /\ CallFails(t, e)
    BY <1>7 DEF StatementFails
  <2>2. \A c \in Conns \ Own(t) : conn'[c] = conn[c]
    BY <1>4, <1>5, <1>7, <2>1, Now, Types DEF AfterError, StatementFails
  <2>3. QED
    BY <1>7, <2>1, <2>2, Now, CallFailsOthers DEF StatementFails, Others
<1>8. CASE NotFound(t)
  BY <1>8, Now, CallFailsOthers DEF NotFound, Others
<1>9. QED
  BY <1>1, <1>2, <1>3, <1>6, <1>7, <1>8 DEF CallStep

LEMMA HostStepOthers ==
    ASSUME ConnInv, TxInv, NEW t \in Tasks, HostStep(t)
    PROVE  Others(t)
<1>1. CASE \E by \in {"closure", "stray"} : CallStarts(t, by)
  BY <1>1, Now, Types, SetOthers DEF CallStarts, Others
<1>2. CASE ClosureCancelsCall(t)
  BY <1>2, Now, Types DEF ClosureCancelsCall, Others
<1>3. CASE ClosureSpawns(t)
  BY <1>3, Now, SetOthers DEF ClosureSpawns, Others
<1>4. CASE Drop(t)
  <2>1. PICK c : c = IF task[t].held # NoConn THEN task[t].held ELSE task[t].slot
    OBVIOUS
  <2>2. c # NoConn => c \in Conns /\ c \in Own(t)
    BY <2>1, Now DEF Slots
  <2>3. /\ \A u \in Tasks \ {t} : task'[u] = task[u] /\ call'[u] = call[u] /\ told'[u] = told[u]
        /\ dialect' = dialect
    BY <1>4, Now, Types, SetOthers DEF Drop
  <2>4. \A d \in Conns \ Own(t) : conn'[d] = conn[d]
    <3>1. conn' = conn \/ (c # NoConn /\ conn' = RolledBack(c))
      BY <1>4, <2>1 DEF Drop
    <3>2. QED
      BY <2>2, <3>1, Now, Types DEF RolledBack
  <2>5. db \subseteq db' /\ \A w \in db' \ db : w[1] = t
    <3>1. CASE task[t].pc = "commit" /\ task[t].held # NoConn
      <4>1. Transacts(t, c) /\ c \in Conns
        BY <2>1, <2>2, <3>1 DEF Transacts
      <4>2. \A w \in conn[c].writes : w[1] = t
        BY <4>1, OwnWrites
      <4>3. db' \in {db, db \cup conn[c].writes}
        BY <1>4, <2>1 DEF Drop
      <4>4. QED BY <4>2, <4>3
    <3>2. CASE ~(task[t].pc = "commit" /\ task[t].held # NoConn)
      BY <1>4, <3>2 DEF Drop
    <3>3. QED BY <3>1, <3>2
  <2>6. QED
    BY <2>3, <2>4, <2>5 DEF Others
<1>5. CASE StrayEnds(t)
  <2>1. task[t].slot \in Conns /\ task[t].slot \in Own(t)
    BY <1>5, Now DEF StrayEnds, Shape, Slots
  <2>2. \A d \in Conns \ Own(t) : conn'[d] = conn[d]
    BY <1>5, <2>1, Now, Types DEF StrayEnds, RolledBack
  <2>3. QED
    BY <1>5, <2>2, Now, Types, SetOthers DEF StrayEnds, Others
<1>6. QED
  BY <1>1, <1>2, <1>3, <1>4, <1>5 DEF HostStep

(* A step of t keeps the invariant when it does for t.                       *)
LEMMA TxFrame ==
    ASSUME ConnInv, TxInv, NEW t \in Tasks, Others(t), Truthful(t)',
           \A c \in Conns : Transacts(t, c)' => Faithful(t, c)'
    PROVE  TxInv'
<1>1. SUFFICES ASSUME NEW u \in Tasks, u # t
               PROVE  Truthful(u)' /\ \A c \in Conns : Transacts(u, c)' => Faithful(u, c)'
  BY DEF TxInv
<1>2. task'[u] = task[u] /\ call'[u] = call[u] /\ told'[u] = told[u]
  BY <1>1 DEF Others
<1>3. Committed(u)' = Committed(u) /\ db \subseteq db' /\ dialect' = dialect
  BY <1>1 DEF Others, Committed
<1>4. Truthful(u)'
  BY <1>2, <1>3 DEF TxInv, Truthful
<1>5. ASSUME NEW c \in Conns, Transacts(u, c)'
      PROVE  Faithful(u, c)'
  <2>1. Transacts(u, c)
    BY <1>2, <1>5 DEF Transacts
  <2>2. c \notin Own(t)
    BY <1>1, <2>1 DEF Transacts, Own, ConnInv, Disjoint
  <2>3. conn'[c] = conn[c]
    BY <2>2 DEF Others
  <2>4. QED
    BY <1>2, <2>1, <2>3 DEF TxInv, Faithful
<1>6. QED BY <1>4, <1>5

LEMMA TxNow ==
    ASSUME TxInv, NEW t \in Tasks
    PROVE  Truthful(t) /\ \A c \in Conns : Transacts(t, c) => Faithful(t, c)
  BY DEF TxInv

(* ------------------------------------------- before the closure's slot     *)
LEMMA OpeningTx ==
    ASSUME ConnInv, TxInv, NEW t \in Tasks, Others(t),
           NEW pc, NEW slot, NEW held, NEW attempt, NEW calls, NEW stray, NEW answer,
           Moves(t, pc, slot, held, attempt, calls, stray, answer), UNCHANGED <<told, db>>,
           task[t].pc \in {"idle", "checkout", "pre", "begin", "backoff"}, stray = task[t].stray,
           slot = NoConn,
           \/ pc \in {"checkout", "pre", "begin"} /\ calls = 0 /\ answer = "none"
           \/ pc = "done" /\ answer = "err"
    PROVE  TxInv'
<1>1. Truthful(t) /\ answer \in {"none", "err"} /\ task[t].answer = "none"
  BY TxNow, Now DEF Shape
<1>2. Truthful(t)'
  BY <1>1 DEF Truthful, Moves, Committed, Others
<1>3. \A c \in Conns : ~Transacts(t, c)'
  BY DEF Transacts, Moves
<1>4. QED BY <1>2, <1>3, TxFrame

LEMMA StartTx ==
    ASSUME ConnInv, TxInv, NEW t \in Tasks, Others(t), Start(t)
    PROVE  TxInv'
<1>1. Moves(t, "checkout", task[t].slot, task[t].held, task[t].attempt, 0, task[t].stray, task[t].answer)
  BY Now, StartMoves
<1>2. task[t].slot = NoConn /\ task[t].answer = "none"
  BY Now DEF Start, Shape
<1>3. QED BY <1>1, <1>2, OpeningTx DEF Start

LEMMA CheckoutTx ==
    ASSUME ConnInv, TxInv, NEW t \in Tasks, Others(t), Checkout(t)
    PROVE  TxInv'
<1>1. PICK c \in FreeConns, pc \in {"pre", "begin"} : Set(t, [held |-> c, pc |-> pc])
  BY DEF Checkout
<1>2. Moves(t, pc, task[t].slot, c, task[t].attempt, task[t].calls, task[t].stray, task[t].answer)
  BY <1>1, Now, HeldMoves DEF Stages, FreeConns
<1>3. task[t].slot = NoConn /\ task[t].answer = "none" /\ task[t].calls = 0
  BY Now, TxNow DEF Checkout, Shape, Truthful
<1>4. QED BY <1>1, <1>2, <1>3, OpeningTx DEF Checkout

LEMMA CheckoutTimesOutTx ==
    ASSUME ConnInv, TxInv, NEW t \in Tasks, Others(t), CheckoutTimesOut(t)
    PROVE  TxInv'
<1>1. Moves(t, "done", task[t].slot, NoConn, 0, 0, task[t].stray, "err")
  BY Now, EndsMoves DEF CheckoutTimesOut, Answers
<1>2. task[t].slot = NoConn
  BY Now DEF CheckoutTimesOut, Shape
<1>3. QED BY <1>1, <1>2, OpeningTx DEF CheckoutTimesOut

LEMMA SetOptionsTx ==
    ASSUME ConnInv, TxInv, NEW t \in Tasks, Others(t), SetOptions(t)
    PROVE  TxInv'
<1>1. task[t].slot = NoConn /\ task[t].answer = "none" /\ task[t].calls = 0
  BY Now, TxNow DEF SetOptions, Shape, Truthful
<1>2. CASE Set(t, [pc |-> "begin"])
  <2>1. Moves(t, "begin", task[t].slot, task[t].held, task[t].attempt, task[t].calls,
              task[t].stray, task[t].answer)
    BY <1>2, Now, PcMoves DEF Stages
  <2>2. QED BY <1>1, <2>1, OpeningTx DEF SetOptions
<1>3. CASE Ends(t, "err")
  <2>1. Moves(t, "done", task[t].slot, NoConn, 0, 0, task[t].stray, "err")
    BY <1>3, Now, EndsMoves DEF Answers
  <2>2. QED BY <1>1, <2>1, OpeningTx DEF SetOptions
<1>4. QED BY <1>2, <1>3 DEF SetOptions

LEMMA BeginTx ==
    ASSUME ConnInv, TxInv, NEW t \in Tasks, Others(t), Begin(t)
    PROVE  TxInv'
<1>0. PICK c \in Conns :
        /\ c = task[t].held /\ task[t].slot = NoConn /\ task[t].stray # "alive"
        /\ call[t].at = "none" /\ task[t].calls = 0 /\ told[t] = {} /\ task[t].answer = "none"
  BY Now, TxNow DEF Begin, Shape, Truthful
<1>1. CASE /\ conn' = [conn EXCEPT ![c] = [Clean EXCEPT !.open = TRUE, !.opts = OpensWith(t, c)]]
           /\ Set(t, [pc |-> "closure", slot |-> c, held |-> NoConn])
  <2>1. Moves(t, "closure", c, NoConn, task[t].attempt, task[t].calls, task[t].stray, task[t].answer)
    BY <1>0, <1>1, Now, BeginMoves
  <2>2. conn'[c].open /\ ~conn'[c].aborted /\ conn'[c].writes = {}
    BY <1>0, <1>1, Now, Types DEF Clean, Conn
  <2>3. Truthful(t)'
    BY <1>0, <2>1, TxNow DEF Truthful, Moves, Committed, Others, Begin
  <2>4. \A d \in Conns : Transacts(t, d)' => d = c
    BY <2>1 DEF Transacts, Moves
  <2>5. Faithful(t, c)'
    BY <1>0, <2>1, <2>2 DEF Faithful, Moves, Begin
  <2>6. QED BY <2>3, <2>4, <2>5, TxFrame
<1>2. CASE Ends(t, "err")
  <2>1. Moves(t, "done", task[t].slot, NoConn, 0, 0, task[t].stray, "err")
    BY <1>2, Now, EndsMoves DEF Answers
  <2>2. QED BY <1>0, <2>1, OpeningTx DEF Begin
<1>3. QED BY <1>0, <1>1, <1>2 DEF Begin

(* ------------------------------------------------- while the slot has it   *)
(* A step that changes none of t's connection, db and what t was told, and   *)
(* moves its call and its closure.                                           *)
LEMMA CallingTx ==
    ASSUME ConnInv, TxInv, NEW t \in Tasks, Others(t), UNCHANGED <<told, db>>,
           NEW pc, NEW calls, NEW stray,
           Moves(t, pc, task[t].slot, task[t].held, task[t].attempt, calls, stray, task[t].answer),
           task[t].slot # NoConn,
           conn'[task[t].slot].open = conn[task[t].slot].open,
           conn'[task[t].slot].aborted = conn[task[t].slot].aborted,
           conn'[task[t].slot].writes = conn[task[t].slot].writes,
           \/ pc = task[t].pc /\ pc \notin {"closure", "commit"}
           \/ /\ pc \in {"closure", "commit"} /\ task[t].pc \in {"closure", "commit"}
              /\ call'[t].at = "second" => call[t].at = "second" /\ calls = task[t].calls
              /\ t \in Plain /\ call'[t].at = "none" => call[t].at = "none" /\ calls = task[t].calls
              /\ t \in Plain /\ (call'[t].at \notin {"none", "second"} \/ calls = 0) =>
                    call[t].at \notin {"none", "second"} \/ task[t].calls = 0
           \/ pc = "rollback" /\ task[t].pc = "closure",
           stray = task[t].stray \/ (stray = "alive" /\ dialect = "sqlite" /\ t \notin Exhausted /\ task[t].pc = "closure")
             \/ stray = "gone"
    PROVE  TxInv'
<1>1. PICK c \in Conns : c = task[t].slot
  BY Now DEF Slots
<1>2. Transacts(t, c) /\ Faithful(t, c) /\ Truthful(t) /\ task[t].held = NoConn
  BY <1>1, Now, TxNow DEF Transacts, Shape
<1>3. Truthful(t)'
  <2>1. pc \in {"closure", "commit", "rollback", "done"}
    BY Now DEF Shape
  <2>2. QED
    BY <1>2, <2>1 DEF Truthful, Moves, Committed, Others
<1>4. \A d \in Conns : Transacts(t, d)' => d = c
  BY <1>1, <1>2 DEF Transacts, Moves
<1>5. Faithful(t, c)'
  BY <1>1, <1>2 DEF Faithful, Moves
<1>6. QED BY <1>3, <1>4, <1>5, TxFrame

LEMMA CallStartsTx ==
    ASSUME ConnInv, TxInv, NEW t \in Tasks, Others(t), NEW by \in {"closure", "stray"},
           CallStarts(t, by)
    PROVE  TxInv'
<1>0. task[t].calls < MaxCalls /\ task[t].calls \in 0..MaxCalls
  BY Now DEF CallStarts
<1>1. Moves(t, task[t].pc, task[t].slot, task[t].held, task[t].attempt, task[t].calls + 1,
            task[t].stray, task[t].answer)
  BY <1>0, Now, CallMoves DEF CallStarts
<1>2. call'[t].at \in {"guard", "first"}
  BY Now, Types DEF CallStarts
<1>3. t \in Plain => task[t].calls = 0
  BY <1>0 DEF CallStarts
<1>4. task[t].calls + 1 # 0
  BY <1>0
<1>5. UNCHANGED <<told, db, conn>> /\ task[t].slot # NoConn
  BY DEF CallStarts
<1>6. QED
  BY <1>1, <1>2, <1>3, <1>4, <1>5, CallingTx

LEMMA CallStaysTx ==
    ASSUME ConnInv, TxInv, NEW t \in Tasks, Others(t), UNCHANGED <<told, db, task>>,
           call[t].at # "none", \A c \in Own(t) : c # call[t].conn => conn'[c] = conn[c],
           \/ call'[t].at \notin {"none", "second"} /\ call[t].at \notin {"none", "second"}
           \/ call'[t].at = "none" /\ t \notin Plain
    PROVE  TxInv'
<1>1. Moves(t, task[t].pc, task[t].slot, task[t].held, task[t].attempt, task[t].calls,
            task[t].stray, task[t].answer)
  BY Now, TaskKept
<1>2. task[t].slot # NoConn /\ task[t].slot \in Own(t) /\ task[t].slot # call[t].conn
      /\ task[t].calls # 0
  BY Now DEF Shape
<1>3. conn'[task[t].slot] = conn[task[t].slot]
  BY <1>2
<1>4. QED
  BY <1>1, <1>2, <1>3, CallingTx

LEMMA CallFailsTx ==
    ASSUME ConnInv, TxInv, NEW t \in Tasks, Others(t), UNCHANGED <<told, db>>,
           call[t].at # "none", \A c \in Own(t) : c # call[t].conn => conn'[c] = conn[c],
           NEW e, CallFails(t, e)
    PROVE  TxInv'
<1>1. call'[t].at = "none"
  BY Now, CallFailsMoves DEF Calls
<1>2. CASE /\ call[t].by = "closure"
           /\ Moves(t, "rollback", task[t].slot, task[t].held, task[t].attempt,
                    task[t].calls, task[t].stray, task[t].answer)
  <2>1. task[t].slot # NoConn /\ task[t].slot \in Own(t) /\ task[t].slot # call[t].conn
        /\ task[t].pc = "closure"
    BY <1>2, Now DEF Shape
  <2>2. conn'[task[t].slot] = conn[task[t].slot]
    BY <2>1
  <2>3. QED
    BY <1>2, <2>1, <2>2, CallingTx
<1>3. CASE (call[t].by = "stray" \/ t \notin Plain) /\ UNCHANGED task
  <2>1. t \notin Plain
    BY <1>3, Now DEF Shape
  <2>2. QED
    BY <1>1, <1>3, <2>1, CallStaysTx
<1>4. QED
  BY <1>2, <1>3, Now, CallFailsMoves

LEMMA GuardDecidesTx ==
    ASSUME ConnInv, TxInv, NEW t \in Tasks, Others(t), GuardDecides(t)
    PROVE  TxInv'
<1>1. CASE CallFails(t, "other")
  BY <1>1, CallFailsTx DEF GuardDecides
<1>2. CASE \E at \in {"first", "reenter"} : call' = [call EXCEPT ![t].at = at] /\ UNCHANGED task
  <2>1. call'[t].at \in {"first", "reenter"} /\ UNCHANGED task
    BY <1>2, Now, CallGoes DEF Calls
  <2>2. QED BY <2>1, CallStaysTx DEF GuardDecides
<1>3. QED BY <1>1, <1>2 DEF GuardDecides

LEMMA GuardReentersTx ==
    ASSUME ConnInv, TxInv, NEW t \in Tasks, Others(t), GuardReenters(t)
    PROVE  TxInv'
<1>1. CASE CallFails(t, "other")
  BY <1>1, CallFailsTx DEF GuardReenters
<1>2. CASE \E c \in FreeConns : call' = [call EXCEPT ![t].at = "reading", ![t].conn = c] /\ UNCHANGED task
  <2>1. call'[t].at = "reading" /\ UNCHANGED task
    BY <1>2, Now, Types DEF Call
  <2>2. QED BY <2>1, CallStaysTx DEF GuardReenters
<1>3. QED BY <1>1, <1>2 DEF GuardReenters

LEMMA GuardReadsTx ==
    ASSUME ConnInv, TxInv, NEW t \in Tasks, Others(t), GuardReads(t)
    PROVE  TxInv'
<1>0. call[t].at = "reading" /\ \A c \in Own(t) : c # call[t].conn => conn'[c] = conn[c]
  BY Now, Types DEF GuardReads
<1>1. CASE CallFails(t, "other")
  BY <1>0, <1>1, CallFailsTx DEF GuardReads
<1>2. CASE call' = [call EXCEPT ![t].at = "first", ![t].conn = NoConn] /\ UNCHANGED task
  <2>1. call'[t].at = "first"
    BY <1>2, Now, Types DEF Call
  <2>2. QED BY <1>0, <1>2, <2>1, CallStaysTx DEF GuardReads
<1>3. QED BY <1>1, <1>2 DEF GuardReads

LEMMA NotFoundTx ==
    ASSUME ConnInv, TxInv, NEW t \in Tasks, Others(t), NotFound(t)
    PROVE  TxInv'
  BY CallFailsTx DEF NotFound

LEMMA ClosureCancelsCallTx ==
    ASSUME ConnInv, TxInv, NEW t \in Tasks, Others(t), ClosureCancelsCall(t)
    PROVE  TxInv'
<1>1. call[t].at # "none" /\ call'[t].at = "none" /\ t \notin Plain
  BY Now, CallEnds DEF ClosureCancelsCall, Shape, Calls
<1>2. QED
  BY <1>1, CallStaysTx DEF ClosureCancelsCall

LEMMA ClosureSpawnsTx ==
    ASSUME ConnInv, TxInv, NEW t \in Tasks, Others(t), KeepsToUndone, ClosureSpawns(t)
    PROVE  TxInv'
<1>1. Moves(t, task[t].pc, task[t].slot, task[t].held, task[t].attempt, task[t].calls,
            "alive", task[t].answer)
  BY Now, SpawnMoves DEF ClosureSpawns
<1>2. dialect = "sqlite" /\ t \notin Exhausted /\ task[t].pc = "closure" /\ task[t].slot # NoConn
  BY Now DEF ClosureSpawns, KeepsToUndone, Shape
<1>3. UNCHANGED <<told, db, conn, call>>
  BY DEF ClosureSpawns
<1>4. QED BY <1>1, <1>2, <1>3, CallingTx

LEMMA ClosureReturnsTx ==
    ASSUME ConnInv, TxInv, NEW t \in Tasks, Others(t), ClosureReturns(t)
    PROVE  TxInv'
<1>1. PICK pc \in {"commit", "rollback"} : Set(t, [pc |-> pc])
  BY DEF ClosureReturns
<1>2. Moves(t, pc, task[t].slot, task[t].held, task[t].attempt, task[t].calls,
            task[t].stray, task[t].answer)
  BY <1>1, Now, PcMoves DEF Stages
<1>3. task[t].pc = "closure" /\ task[t].slot # NoConn
  BY Now DEF ClosureReturns, Shape
<1>4. UNCHANGED <<told, db, conn, call>>
  BY DEF ClosureReturns
<1>5. QED BY <1>1, <1>2, <1>3, <1>4, CallingTx

LEMMA TakesTx ==
    ASSUME ConnInv, TxInv, NEW t \in Tasks, Others(t), Takes(t)
    PROVE  TxInv'
<1>0. PICK c \in Conns : c = task[t].slot
  BY Now DEF Takes, Shape, Slots
<1>1. PICK s \in {"none", "gone"} :
        Moves(t, task[t].pc, NoConn, c, task[t].attempt, task[t].calls, s, task[t].answer)
  BY <1>0, Now, TakesMoves DEF Takes
<1>2. Transacts(t, c) /\ Faithful(t, c) /\ Truthful(t)
  BY <1>0, TxNow DEF Transacts
<1>3. Truthful(t)'
  BY <1>1, <1>2 DEF Truthful, Moves, Committed, Others, Takes
<1>4. \A d \in Conns : Transacts(t, d)' => d = c
  BY <1>1 DEF Transacts, Moves
<1>5. Faithful(t, c)'
  BY <1>1, <1>2 DEF Faithful, Moves, Takes
<1>6. QED BY <1>3, <1>4, <1>5, TxFrame

LEMMA StatementFailsTx ==
    ASSUME ConnInv, TxInv, NEW t \in Tasks, Others(t), KeepsToUndone, StatementFails(t)
    PROVE  TxInv'
<1>0. PICK c \in Conns : c = task[t].slot
  BY Now DEF StatementFails, Shape, Slots
<1>1. PICK e \in Errors \ {"missing"} : /\ e = "full" => t \in Exhausted
                                        /\ conn' = AfterError(c, e) /\ CallFails(t, e)
  BY <1>0 DEF StatementFails
<1>2. CASE UNCHANGED conn
  BY <1>1, <1>2, CallFailsTx DEF StatementFails
<1>3. CASE conn' # conn
  <2>1. /\ dialect \in {"postgres", "mariadb"} \/ t \in Exhausted
        /\ <<dialect, e>> \notin Ignored
        /\ conn' \in {[conn EXCEPT ![c].aborted = TRUE], [conn EXCEPT ![c] = Clean]}
    BY <1>1, <1>3 DEF AfterError, KeepsToUndone
  <2>2. Truthful(t) /\ Transacts(t, c) /\ Faithful(t, c) /\ task[t].stray # "alive"
        /\ task[t].held = NoConn
    BY <1>0, <2>1, Now, TxNow DEF Truthful, Transacts, Shape
  <2>3. call[t].by = "closure"
        /\ Moves(t, "rollback", task[t].slot, task[t].held, task[t].attempt,
                 task[t].calls, task[t].stray, task[t].answer)
    BY <1>1, <2>1, <2>2, Now, CallFailsMoves DEF Shape
  <2>4. conn'[c].writes \subseteq conn[c].writes
    <3>1. CASE conn' = [conn EXCEPT ![c].aborted = TRUE]
      BY <3>1, Now, Types DEF Conn
    <3>2. CASE conn' = [conn EXCEPT ![c] = Clean]
      BY <3>2, Now, Types DEF Clean
    <3>3. QED BY <2>1, <3>1, <3>2
  <2>5. Truthful(t)'
    BY <2>2, <2>3, Now DEF Truthful, Moves, Committed, Others, StatementFails, Shape
  <2>6. \A d \in Conns : Transacts(t, d)' => d = c
    BY <1>0, <2>2, <2>3 DEF Transacts, Moves
  <2>7. Faithful(t, c)'
    BY <2>2, <2>3, <2>4 DEF Faithful, Moves
  <2>8. QED BY <2>5, <2>6, <2>7, TxFrame
<1>4. QED BY <1>2, <1>3

LEMMA StatementRunsTx ==
    ASSUME ConnInv, TxInv, NEW t \in Tasks, Others(t), StatementRuns(t)
    PROVE  TxInv'
<1>0. PICK c \in Conns : c = task[t].slot /\ task[t].held = NoConn
  BY Now DEF StatementRuns, Shape, Slots
<1>1. Transacts(t, c) /\ Faithful(t, c) /\ Truthful(t)
  BY <1>0, TxNow DEF Transacts
<1>2. UNCHANGED task /\ call[t].at \in {"first", "second"} /\ task[t].calls # 0
      /\ (task[t].pc = "closure" \/ task[t].stray = "alive")
  BY Now DEF StatementRuns, Shape
<1>3. conn[c].open
  BY <1>1, <1>2 DEF Faithful
<1>4. /\ UNCHANGED db
      /\ conn'[c].writes = conn[c].writes \cup {WriteOf(t)}
      /\ conn'[c].open /\ conn'[c].aborted = conn[c].aborted
  BY <1>0, <1>3, Now, Types DEF StatementRuns, Conn
<1>5. Committed(t)' = Committed(t)
  BY <1>4 DEF Committed
<1>6. task[t].answer \in {"none", "dropped"}
  BY <1>0, Now, HostAssumption DEF Shape
<1>7. task[t].pc \in {"closure", "commit", "rollback", "done"}
  BY <1>0, Now, HostAssumption DEF Shape
<1>8. Truthful(t)'
  BY <1>1, <1>2, <1>4, <1>5, <1>6, <1>7 DEF Truthful, Others
<1>9. \A d \in Conns : Transacts(t, d)' => d = c
  BY <1>0, <1>2 DEF Transacts
<1>10. Faithful(t, c)'
  <2>1. /\ \A w \in conn'[c].writes : w[1] = t /\ w[2] = task[t].attempt
        /\ WriteOf(t)[3] = task[t].calls
    BY <1>1, <1>4 DEF Faithful, WriteOf
  <2>2. CASE call[t].at = "first"
    <3>1. call'[t].at = "second" /\ UNCHANGED told
      BY <2>2, Now, Types DEF StatementRuns, Call
    <3>2. WriteOf(t) = <<t, task[t].attempt, task[t].calls, 1>>
      BY <2>2 DEF WriteOf
    <3>3. QED
      BY <1>1, <1>2, <1>4, <2>1, <2>2, <3>1, <3>2 DEF Faithful
  <2>3. CASE call[t].at = "second"
    <3>1. call'[t].at = "none" /\ told'[t] = told[t] \cup {Nth(t)}
      BY <2>3, Now, Types DEF StatementRuns, NoCall
    <3>2. WriteOf(t) = <<t, task[t].attempt, task[t].calls, 2>>
      BY <2>3 DEF WriteOf
    <3>3. Nth(t)[1] = task[t].attempt /\ Nth(t)[2] = task[t].calls
      BY DEF Nth
    <3>4. ASSUME task[t].pc \in {"closure", "commit"}
          PROVE  Both(t, task[t].attempt, task[t].calls) \subseteq conn'[c].writes
      <4>1. <<t, task[t].attempt, task[t].calls, 1>> \in conn'[c].writes
        BY <1>1, <1>4, <2>3, <3>4 DEF Faithful
      <4>2. <<t, task[t].attempt, task[t].calls, 2>> \in conn'[c].writes
        BY <1>4, <3>2
      <4>3. QED BY <4>1, <4>2 DEF Both
    <3>5. ASSUME task[t].pc \in {"closure", "commit"}, NEW k \in told'[t]
          PROVE  k[1] = task[t].attempt /\ Both(t, k[1], k[2]) \subseteq conn'[c].writes
      BY <1>1, <1>4, <3>1, <3>3, <3>4, <3>5 DEF Faithful
    <3>6. ASSUME task[t].pc \in {"closure", "commit"}, t \in Plain, NEW w \in conn'[c].writes
          PROVE  Both(t, w[2], w[3]) \subseteq conn'[c].writes
      <4>1. w[2] = task[t].attempt /\ w[3] = task[t].calls
        BY <1>1, <1>4, <2>1, <2>3, <3>2, <3>6 DEF Faithful
      <4>2. QED BY <3>4, <3>6, <4>1
    <3>7. QED
      BY <1>1, <1>2, <1>4, <2>1, <3>1, <3>5, <3>6 DEF Faithful
  <2>4. QED BY <1>2, <2>2, <2>3
<1>11. QED BY <1>8, <1>9, <1>10, TxFrame

(* -------------------------------------------------------- at the boundary  *)
(* Taken out, the transaction ends: whole, or without a trace, or nobody     *)
(* knows and it is not tried again.                                          *)
LEMMA BoundaryTx ==
    ASSUME ConnInv, TxInv, NEW t \in Tasks, Others(t), task[t].held # NoConn,
           NEW pc, NEW attempt, NEW calls, NEW stray, NEW answer,
           Moves(t, pc, task[t].slot, NoConn, attempt, calls, stray, answer),
           stray \in {task[t].stray, "none"},
           \/ /\ pc = "backoff" /\ answer = "none" /\ task[t].answer = "none"
              /\ told'[t] = {} /\ UNCHANGED db
           \/ /\ pc = "done" /\ answer = "err" /\ task[t].answer = "none" /\ UNCHANGED <<told, db>>
           \/ /\ pc = "done" /\ answer = "ok" /\ UNCHANGED told
              /\ task[t].pc = "commit" /\ db' = db \cup conn[task[t].held].writes
           \/ /\ pc = "done" /\ answer \in {"unknown", "dropped"} /\ UNCHANGED told
              /\ task[t].pc = "commit" /\ db' \in {db, db \cup conn[task[t].held].writes}
    PROVE  TxInv'
<1>0. PICK c \in Conns : c = task[t].held /\ task[t].slot = NoConn /\ task[t].stray # "alive"
                         /\ task[t].answer = "none" /\ call[t].at = "none"
  BY Now DEF Shape, Slots
<1>1. Truthful(t) /\ Committed(t) = {}
  BY <1>0, TxNow DEF Truthful
<1>2. \A d \in Conns : ~Transacts(t, d)'
  BY <1>0 DEF Transacts, Moves
<1>3. CASE UNCHANGED db /\ answer # "ok"
  <2>1. Committed(t)' = {}
    BY <1>1, <1>3 DEF Committed
  <2>2. Truthful(t)'
    BY <1>0, <1>1, <1>3, <2>1 DEF Truthful, Moves, Others
  <2>3. QED BY <1>2, <2>2, TxFrame
<1>4. CASE /\ task[t].pc = "commit" /\ UNCHANGED told /\ pc = "done"
           /\ answer \in {"ok", "unknown", "dropped"} /\ db' = db \cup conn[c].writes
  <2>1. Faithful(t, c)
    BY <1>0, <1>4, TxNow DEF Transacts
  <2>2. Committed(t)' = conn[c].writes
    BY <1>1, <1>4, <2>1 DEF Committed, Faithful
  <2>3. conn[c].writes \subseteq db'
    BY <1>4
  <2>4. \A k \in told[t] : Both(t, k[1], k[2]) \subseteq db'
    BY <1>4, <2>1, <2>3 DEF Faithful
  <2>5. t \in Plain => \A w \in Committed(t)' : Both(t, w[2], w[3]) \subseteq db'
    BY <1>0, <1>4, <2>1, <2>2, <2>3 DEF Faithful
  <2>6. \A v, w \in Committed(t)' : v[2] = w[2]
    BY <2>1, <2>2 DEF Faithful
  <2>7. Truthful(t)'
    BY <1>0, <1>4, <2>4, <2>5, <2>6 DEF Truthful, Moves
  <2>8. QED BY <1>2, <2>7, TxFrame
<1>5. QED BY <1>0, <1>3, <1>4

LEMMA CommitsTx ==
    ASSUME ConnInv, TxInv, NEW t \in Tasks, Others(t), Commits(t)
    PROVE  TxInv'
<1>1. Moves(t, "done", task[t].slot, NoConn, 0, 0, task[t].stray, "ok")
  BY Now, EndsMoves DEF Commits, Answers
<1>2. task[t].held \in Conns /\ Transacts(t, task[t].held)
  BY Now DEF Commits, Transacts, Slots
<1>3. ~conn[task[t].held].aborted
  BY <1>2, TxNow DEF Faithful, Commits
<1>4. QED BY <1>1, <1>3, BoundaryTx DEF Commits

LEMMA FailsOrRetriesTx ==
    ASSUME ConnInv, TxInv, NEW t \in Tasks, Others(t), task[t].held # NoConn, UNCHANGED db,
           task[t].pc \in {"commit", "rollback"}, NEW retryable, FailsOrRetries(t, retryable, "err")
    PROVE  TxInv'
<1>1. task[t].answer = "none"
  BY Now DEF Shape
<1>2. CASE /\ Moves(t, "backoff", task[t].slot, NoConn, task[t].attempt + 1, task[t].calls,
                    "none", task[t].answer)
           /\ told' = [told EXCEPT ![t] = {}]
  <2>1. told'[t] = {}
    BY <1>2, Now, Types
  <2>2. QED BY <1>1, <1>2, <2>1, BoundaryTx
<1>3. CASE Moves(t, "done", task[t].slot, NoConn, 0, 0, task[t].stray, "err") /\ UNCHANGED told
  BY <1>1, <1>3, BoundaryTx
<1>4. QED BY <1>2, <1>3, Now, FailsOrRetriesMoves DEF Answers

LEMMA CommitFailsTx ==
    ASSUME ConnInv, TxInv, NEW t \in Tasks, Others(t), CommitFails(t)
    PROVE  TxInv'
  BY FailsOrRetriesTx DEF CommitFails

LEMMA RollsBackTx ==
    ASSUME ConnInv, TxInv, NEW t \in Tasks, Others(t), RollsBack(t)
    PROVE  TxInv'
  BY FailsOrRetriesTx DEF RollsBack

LEMMA CommitIsLostTx ==
    ASSUME ConnInv, TxInv, NEW t \in Tasks, Others(t), CommitIsLost(t)
    PROVE  TxInv'
<1>1. /\ Moves(t, "done", task[t].slot, NoConn, 0, 0, task[t].stray, "unknown")
      /\ UNCHANGED told
  BY Now, FailsOrRetriesMoves DEF CommitIsLost, IsRetryable, Answers
<1>2. db' \in {db, db \cup conn[task[t].held].writes}
  BY DEF CommitIsLost
<1>3. QED BY <1>1, <1>2, BoundaryTx DEF CommitIsLost

LEMMA DropTx ==
    ASSUME ConnInv, TxInv, NEW t \in Tasks, Others(t), Drop(t)
    PROVE  TxInv'
<1>1. PICK slot \in Slots :
        /\ slot = IF task[t].stray = "alive" /\ task[t].slot # NoConn THEN task[t].slot ELSE NoConn
        /\ Set(t, [pc |-> "done", held |-> NoConn, slot |-> slot, answer |-> "dropped", again |-> FALSE])
  BY Now DEF Drop, Slots
<1>2. Moves(t, "done", slot, NoConn, task[t].attempt, task[t].calls, task[t].stray, "dropped")
  BY <1>1, Now, DropMoves
<1>3. CASE task[t].held # NoConn
  <2>1. slot = task[t].slot
    BY <1>1, <1>3, Now DEF Shape
  <2>2. CASE UNCHANGED db
    <3>1. Truthful(t)' /\ \A d \in Conns : ~Transacts(t, d)'
      BY <1>2, <1>3, <2>1, <2>2, Now, TxNow DEF Truthful, Moves, Committed, Others, Drop, Shape, Transacts
    <3>2. QED BY <3>1, TxFrame
  <2>3. CASE task[t].pc = "commit" /\ db' = db \cup conn[task[t].held].writes
    BY <1>2, <1>3, <2>1, <2>3, BoundaryTx DEF Drop
  <2>4. QED BY <1>3, <2>2, <2>3 DEF Drop
<1>4. CASE task[t].held = NoConn
  <2>1. UNCHANGED <<db, told>> /\ task[t].pc # "done" /\ task[t].answer = "none"
    BY <1>4, Now DEF Drop, Shape
  <2>2. Truthful(t)'
    BY <1>2, <2>1, TxNow DEF Truthful, Moves, Committed, Others
  <2>3. ASSUME NEW c \in Conns, Transacts(t, c)'
        PROVE  Faithful(t, c)'
    <3>1. c = slot /\ slot = task[t].slot /\ task[t].stray = "alive" /\ UNCHANGED conn
      BY <1>1, <1>2, <2>3 DEF Transacts, Moves, Drop
    <3>2. Faithful(t, c)
      BY <3>1, <2>3, TxNow DEF Transacts
    <3>3. QED
      BY <1>2, <3>1, <3>2 DEF Faithful, Moves
  <2>4. QED BY <2>2, <2>3, TxFrame
<1>5. QED BY <1>3, <1>4

LEMMA StrayEndsTx ==
    ASSUME ConnInv, TxInv, NEW t \in Tasks, Others(t), StrayEnds(t)
    PROVE  TxInv'
<1>1. PICK slot \in Slots :
        /\ slot = IF task[t].pc = "done" /\ task[t].slot # NoConn THEN NoConn ELSE task[t].slot
        /\ Set(t, [stray |-> "gone", slot |-> slot])
  BY Now DEF StrayEnds, Slots
<1>2. Moves(t, task[t].pc, slot, task[t].held, task[t].attempt, task[t].calls, "gone", task[t].answer)
  BY <1>1, Now, StrayMoves
<1>3. task[t].slot # NoConn /\ task[t].held = NoConn
  BY Now DEF StrayEnds, Shape
<1>4. CASE task[t].pc = "done"
  <2>1. Truthful(t)' /\ \A d \in Conns : ~Transacts(t, d)'
    BY <1>1, <1>2, <1>3, <1>4, TxNow DEF Truthful, Moves, Committed, Others, StrayEnds, Transacts
  <2>2. QED BY <2>1, TxFrame
<1>5. CASE task[t].pc # "done"
  <2>1. UNCHANGED <<told, db, conn>> /\ slot = task[t].slot
    BY <1>1, <1>5 DEF StrayEnds
  <2>2. task[t].pc \in {"closure", "commit", "rollback"}
    BY <1>3, <1>5, Now DEF Shape
  <2>3. CASE call[t].by = "stray"
    <3>1. call'[t].at = "none" /\ t \notin Plain
      BY <2>3, Now, CallEnds DEF StrayEnds, Shape, Calls
    <3>2. task[t].calls # 0
      BY <2>3, Now DEF Shape
    <3>3. QED
      BY <1>2, <1>3, <2>1, <2>2, <3>1, <3>2, CallingTx
  <2>4. CASE call[t].by # "stray"
    <3>1. UNCHANGED call
      BY <2>4 DEF StrayEnds
    <3>2. QED
      BY <1>2, <1>3, <2>1, <2>2, <3>1, CallingTx
  <2>5. QED BY <2>3, <2>4
<1>6. QED BY <1>4, <1>5

-----------------------------------------------------------------------------
LEMMA TxInit ==
    ASSUME Init
    PROVE  TxInv
  BY DEF Init, TxInv, Truthful, Committed, Transacts

LEMMA TxNext ==
    ASSUME ConnInv, TxInv, KeepsToUndone, [Next]_vars
    PROVE  TxInv'
<1>1. CASE UNCHANGED vars
  BY <1>1 DEF vars, TxInv, Truthful, Committed, Transacts, Faithful
<1>2. ASSUME NEW t \in Tasks, TaskStep(t)
      PROVE  TxInv'
  <2>1. Others(t)
    BY <1>2, TaskStepOthers
  <2>2. QED
    BY <1>2, <2>1, StartTx, CheckoutTx, CheckoutTimesOutTx, SetOptionsTx, BeginTx, CallStartsTx,
       ClosureReturnsTx, TakesTx, CommitsTx, CommitFailsTx, CommitIsLostTx, RollsBackTx
    DEF TaskStep
<1>3. ASSUME NEW t \in Tasks, CallStep(t)
      PROVE  TxInv'
  <2>1. Others(t)
    BY <1>3, CallStepOthers
  <2>2. QED
    BY <1>3, <2>1, GuardDecidesTx, GuardReentersTx, GuardReadsTx, StatementRunsTx,
       StatementFailsTx, NotFoundTx
    DEF CallStep
<1>4. ASSUME NEW t \in Tasks, HostStep(t)
      PROVE  TxInv'
  <2>1. Others(t)
    BY <1>4, HostStepOthers
  <2>2. QED
    BY <1>4, <2>1, CallStartsTx, ClosureCancelsCallTx, ClosureSpawnsTx, DropTx, StrayEndsTx
    DEF HostStep
<1>5. QED
  BY <1>1, <1>2, <1>3, <1>4 DEF Next, AllEnded

LEMMA TxAlways ==
    ASSUME KeepsToUndone
    PROVE  Spec => [](ConnInv /\ TxInv)
<1>1. Init => ConnInv /\ TxInv
  BY ConnInit, TxInit
<1>2. ConnInv /\ TxInv /\ [Next]_vars => (ConnInv /\ TxInv)'
  BY ConnNext, TxNext
<1>3. QED BY <1>1, <1>2, PTL DEF Spec

(* Of all the attempts of one closure at most one leaves writes behind, an   *)
(* attempt shows nothing before it has committed, and a transaction answered *)
(* with an error has left nothing (transaction_retrying, apply).             *)
THEOREM AttemptsAreAtomic ==
    ASSUME KeepsToUndone
    PROVE  Spec => []OneAttemptCommits
<1>1. TxInv => OneAttemptCommits
  BY DEF TxInv, Truthful, OneAttemptCommits
<1>2. QED BY <1>1, TxAlways, PTL

(* Ok means that every call of the closure's last run that was answered 200  *)
(* is committed with both its statements (Transaction::commit).              *)
THEOREM OkIsTrue ==
    ASSUME KeepsToUndone
    PROVE  Spec => []OkMeansCommitted
<1>1. TxInv => OkMeansCommitted
  BY DEF TxInv, Truthful, OkMeansCommitted, Both
<1>2. QED BY <1>1, TxAlways, PTL

(* A mutation outside a host transaction is all or nothing (apply_once).     *)
THEOREM MutationsAreWhole ==
    ASSUME KeepsToUndone
    PROVE  Spec => []MutationIsWhole
<1>1. ASSUME ConnInv, TxInv PROVE MutationIsWhole
  <2>1. SUFFICES ASSUME NEW t \in Plain, NEW w \in Committed(t), NEW s \in 1..2
                 PROVE  [w EXCEPT ![4] = s] \in db
    BY DEF MutationIsWhole
  <2>2. w \in Writes /\ w[1] = t
    BY <1>1 DEF Committed, ConnInv, TypeOK
  <2>3. PICK a \in 0..MaxRetry, n \in 1..MaxCalls, i \in 1..2 : w = <<t, a, n, i>>
    BY <2>2 DEF Writes
  <2>4. [w EXCEPT ![4] = s] = <<t, w[2], w[3], s>>
    BY <2>3
  <2>5. Both(t, w[2], w[3]) \subseteq db
    BY <1>1, <2>1, HostAssumption DEF TxInv, Truthful
  <2>6. QED
    BY <2>4, <2>5 DEF Both
<1>2. QED BY <1>1, TxAlways, PTL

-----------------------------------------------------------------------------
(* The options of open transactions and the calls of plain mutations.        *)
AsAsked == dialect # "mariadb" => RunsAsAsked

OneCall == \A t \in Plain : task[t].calls <= 1

(* A step that opens no transaction and starts no call.                      *)
Opens(c) == conn'[c].open => conn[c].open /\ conn'[c].opts = conn[c].opts

Settles ==
    /\ dialect' = dialect
    /\ \A u \in Tasks : /\ task'[u].slot \in {task[u].slot, NoConn}
                        /\ task'[u].calls \in {task[u].calls, 0}
    /\ \A c \in Conns : Opens(c)

LEMMA SettlesKeeps ==
    ASSUME ConnInv, AsAsked, OneCall, Settles
    PROVE  AsAsked' /\ OneCall'
<1>1. OneCall'
  BY HostAssumption DEF OneCall, Settles
<1>2. ASSUME NEW t \in Tasks, dialect # "mariadb", task'[t].slot # NoConn,
             conn'[task'[t].slot].open
      PROVE  conn'[task'[t].slot].opts = IF t \in Plain THEN "default" ELSE Asks[t]
  <2>1. PICK c \in Conns : c = task[t].slot /\ c = task'[t].slot
    BY <1>2, Types, TaskType DEF Settles, ConnInv, Slots
  <2>2. conn[c].open /\ conn'[c].opts = conn[c].opts
    BY <1>2, <2>1 DEF Settles, Opens
  <2>3. QED
    BY <1>2, <2>1, <2>2 DEF AsAsked, RunsAsAsked
<1>3. QED
  BY <1>1, <1>2 DEF AsAsked, RunsAsAsked, Settles

(* Steps of one task, by what they make of it and of the connections.        *)
LEMMA MovesSettles ==
    ASSUME ConnInv, NEW t \in Tasks, dialect' = dialect, NEW pc, NEW held, NEW attempt,
           NEW stray, NEW answer, NEW slot \in {task[t].slot, NoConn},
           NEW calls \in {task[t].calls, 0},
           Moves(t, pc, slot, held, attempt, calls, stray, answer),
           \A c \in Conns : Opens(c)
    PROVE  Settles
  BY DEF Settles, Moves

LEMMA CleansOpens ==
    ASSUME NEW c, Cleans(c)
    PROVE  \A d \in Conns : Opens(d)
  BY DEF Cleans, Only, Opens

LEMMA SameOpens ==
    ASSUME UNCHANGED conn
    PROVE  \A d \in Conns : Opens(d)
  BY DEF Opens

LEMMA CallFailsSettles ==
    ASSUME ConnInv, NEW t \in Tasks, NEW e, CallFails(t, e), dialect' = dialect,
           \A c \in Conns : Opens(c)
    PROVE  Settles
<1>1. PICK pc \in Stages : Moves(t, pc, task[t].slot, task[t].held, task[t].attempt,
                                 task[t].calls, task[t].stray, task[t].answer)
  BY CallFailsKeeps
<1>2. QED
  BY <1>1, MovesSettles

LEMMA SameTaskSettles ==
    ASSUME UNCHANGED <<task, dialect>>, \A c \in Conns : Opens(c)
    PROVE  Settles
  BY DEF Settles

LEMMA EndsSettles ==
    ASSUME ConnInv, NEW t \in Tasks, NEW r \in Answers, Ends(t, r), dialect' = dialect,
           \A c \in Conns : Opens(c)
    PROVE  Settles
<1>1. Moves(t, "done", task[t].slot, NoConn, 0, 0, task[t].stray, r)
  BY EndsMoves DEF ConnInv
<1>2. QED
  BY <1>1, MovesSettles

LEMMA RetriesSettles ==
    ASSUME ConnInv, NEW t \in Tasks, NEW retryable, NEW r \in Answers,
           FailsOrRetries(t, retryable, r), dialect' = dialect, \A c \in Conns : Opens(c)
    PROVE  Settles
<1>1. CASE Moves(t, "backoff", task[t].slot, NoConn, task[t].attempt + 1, task[t].calls,
                 "none", task[t].answer)
  BY <1>1, MovesSettles
<1>2. CASE Moves(t, "done", task[t].slot, NoConn, 0, 0, task[t].stray, r)
  BY <1>2, MovesSettles
<1>3. QED
  BY <1>1, <1>2, FailsOrRetriesMoves DEF ConnInv

LEMMA OpeningSettles ==
    ASSUME ConnInv, NEW t \in Tasks,
           Start(t) \/ Checkout(t) \/ CheckoutTimesOut(t) \/ SetOptions(t)
    PROVE  Settles
<1>1. CASE Start(t)
  BY <1>1, StartMoves, MovesSettles, SameOpens DEF ConnInv, Start
<1>2. CASE Checkout(t)
  <2>1. PICK c \in FreeConns, pc \in {"pre", "begin"} : Set(t, [held |-> c, pc |-> pc])
    BY <1>2 DEF Checkout
  <2>2. c \in Conns
    BY DEF FreeConns
  <2>3. Moves(t, pc, task[t].slot, c, task[t].attempt, task[t].calls, task[t].stray,
              task[t].answer)
    BY <2>1, <2>2, HeldMoves DEF ConnInv, Stages
  <2>4. QED
    BY <1>2, <2>3, MovesSettles, SameOpens DEF Checkout
<1>3. CASE CheckoutTimesOut(t)
  BY <1>3, EndsSettles, SameOpens DEF CheckoutTimesOut, Answers
<1>4. CASE SetOptions(t)
  <2>1. CASE Set(t, [pc |-> "begin"]) /\ conn' = [conn EXCEPT ![task[t].held].next = Asks[t]]
    <3>1. Moves(t, "begin", task[t].slot, task[t].held, task[t].attempt, task[t].calls,
                task[t].stray, task[t].answer)
      BY <2>1, PcMoves DEF ConnInv, Stages
    <3>2. \A c \in Conns : Opens(c)
      BY <2>1, Types DEF Opens, ConnInv, Conn
    <3>3. QED
      BY <1>4, <3>1, <3>2, MovesSettles DEF SetOptions
  <2>2. CASE UNCHANGED conn /\ Ends(t, "err")
    BY <1>4, <2>2, EndsSettles, SameOpens DEF SetOptions, Answers
  <2>3. QED
    BY <1>4, <2>1, <2>2 DEF SetOptions
<1>5. QED
  BY <1>1, <1>2, <1>3, <1>4

LEMMA BoundarySettles ==
    ASSUME ConnInv, NEW t \in Tasks,
           ClosureReturns(t) \/ Takes(t) \/ Commits(t) \/ CommitFails(t) \/ CommitIsLost(t)
             \/ RollsBack(t)
    PROVE  Settles
<1>1. CASE ClosureReturns(t)
  <2>1. PICK pc \in {"commit", "rollback"} : Set(t, [pc |-> pc])
    BY <1>1 DEF ClosureReturns
  <2>2. Moves(t, pc, task[t].slot, task[t].held, task[t].attempt, task[t].calls,
              task[t].stray, task[t].answer)
    BY <2>1, PcMoves DEF ConnInv, Stages
  <2>3. QED
    BY <1>1, <2>2, MovesSettles, SameOpens DEF ClosureReturns
<1>2. CASE Takes(t)
  <2>1. Moves(t, task[t].pc, NoConn, task[t].slot, task[t].attempt, task[t].calls,
              IF task[t].stray = "alive" THEN "gone" ELSE task[t].stray, task[t].answer)
    BY <1>2, TakesMoves, Types, TaskType DEF ConnInv, Takes
  <2>2. QED
    BY <1>2, <2>1, MovesSettles, SameOpens DEF Takes
<1>3. CASE Commits(t) \/ CommitFails(t) \/ CommitIsLost(t) \/ RollsBack(t)
  <2>1. task[t].held \in Conns /\ dialect' = dialect
    BY <1>3, Now DEF Commits, CommitFails, CommitIsLost, RollsBack, Slots
  <2>2. conn' = RolledBack(task[t].held) \/ conn' = [conn EXCEPT ![task[t].held] = Clean]
    BY <1>3 DEF Commits, CommitFails, CommitIsLost, RollsBack
  <2>3. Cleans(task[t].held)
    BY <2>1, <2>2, RolledBackCleans, LostCleans DEF ConnInv
  <2>4. \A c \in Conns : Opens(c)
    BY <2>1, <2>3, CleansOpens
  <2>5. \/ Ends(t, "ok")
        \/ \E retryable : FailsOrRetries(t, retryable, "err") \/ FailsOrRetries(t, retryable, "unknown")
    BY <1>3, Zenon DEF Commits, CommitFails, CommitIsLost, RollsBack
  <2>6. "ok" \in Answers /\ "err" \in Answers /\ "unknown" \in Answers
    BY DEF Answers
  <2>7. QED
    BY <2>1, <2>4, <2>5, <2>6, EndsSettles, RetriesSettles
<1>4. QED
  BY <1>1, <1>2, <1>3

LEMMA CallSettles ==
    ASSUME ConnInv, NEW t \in Tasks, CallStep(t)
    PROVE  Settles
<1>0. conn \in [Conns -> Conn]
  BY Types DEF ConnInv
<1>1. CASE GuardDecides(t) \/ GuardReenters(t) \/ NotFound(t)
  <2>1. dialect' = dialect /\ \A c \in Conns : Opens(c)
    BY <1>1, SameOpens DEF GuardDecides, GuardReenters, NotFound
  <2>2. UNCHANGED task \/ \E e : CallFails(t, e)
    BY <1>1 DEF GuardDecides, GuardReenters, NotFound
  <2>3. QED
    BY <2>1, <2>2, SameTaskSettles, CallFailsSettles
<1>2. CASE GuardReads(t)
  <2>1. conn' = [conn EXCEPT ![call[t].conn].next = "default"] /\ dialect' = dialect
    BY <1>2 DEF GuardReads
  <2>2. \A c \in Conns : Opens(c)
    BY <1>0, <2>1 DEF Opens, Conn
  <2>3. UNCHANGED task \/ CallFails(t, "other")
    BY <1>2 DEF GuardReads
  <2>4. QED
    BY <2>1, <2>2, <2>3, SameTaskSettles, CallFailsSettles
<1>3. CASE StatementRuns(t)
  <2>1. UNCHANGED <<task, dialect>>
    BY <1>3 DEF StatementRuns
  <2>2. \A c \in Conns : Opens(c)
    <3>1. CASE UNCHANGED conn
      BY <3>1, SameOpens
    <3>2. CASE conn' = [conn EXCEPT ![task[t].slot].writes = @ \cup {WriteOf(t)}]
      BY <1>0, <3>2 DEF Opens, Conn
    <3>3. QED
      BY <1>3, <3>1, <3>2 DEF StatementRuns
  <2>3. QED
    BY <2>1, <2>2, SameTaskSettles
<1>4. CASE StatementFails(t)
  <2>1. PICK e \in Errors : conn' = AfterError(task[t].slot, e) /\ CallFails(t, e)
    BY <1>4 DEF StatementFails
  <2>2. task[t].slot \in Conns /\ dialect' = dialect
    BY <1>4, Now DEF StatementFails, Shape
  <2>3. \A c \in Conns : Opens(c)
    <3>1. CASE UNCHANGED conn
      BY <3>1, SameOpens
    <3>2. CASE conn' = [conn EXCEPT ![task[t].slot] = Clean]
      BY <2>2, <3>2, LostCleans, CleansOpens DEF ConnInv
    <3>3. CASE conn' = [conn EXCEPT ![task[t].slot].aborted = TRUE]
      BY <1>0, <3>3 DEF Opens, Conn
    <3>4. QED
      BY <2>1, <3>1, <3>2, <3>3 DEF AfterError
  <2>4. QED
    BY <2>1, <2>2, <2>3, CallFailsSettles
<1>5. QED
  BY <1>1, <1>2, <1>3, <1>4 DEF CallStep

LEMMA DroppingSettles ==
    ASSUME ConnInv, NEW t \in Tasks,
           ClosureCancelsCall(t) \/ ClosureSpawns(t) \/ Drop(t) \/ StrayEnds(t)
    PROVE  Settles
<1>1. CASE ClosureCancelsCall(t)
  BY <1>1, SameOpens, SameTaskSettles DEF ClosureCancelsCall
<1>2. CASE ClosureSpawns(t)
  BY <1>2, SpawnMoves, MovesSettles, SameOpens DEF ConnInv, ClosureSpawns
<1>3. CASE Drop(t)
  <2>1. PICK stays, c :
          /\ stays = (task[t].stray = "alive" /\ task[t].slot # NoConn)
          /\ c = IF task[t].held # NoConn THEN task[t].held ELSE task[t].slot
    OBVIOUS
  <2>2. PICK slot : slot = IF stays THEN task[t].slot ELSE NoConn
    OBVIOUS
  <2>3. /\ conn' = IF stays \/ c = NoConn THEN conn ELSE RolledBack(c)
        /\ Set(t, [pc |-> "done", held |-> NoConn, slot |-> slot,
                   answer |-> "dropped", again |-> FALSE])
        /\ dialect' = dialect
    BY <1>3, <2>1, <2>2 DEF Drop
  <2>4. c \in Slots /\ slot \in Slots /\ slot \in {task[t].slot, NoConn}
    BY <2>1, <2>2, Now DEF Slots
  <2>5. Moves(t, "done", slot, NoConn, task[t].attempt, task[t].calls, task[t].stray, "dropped")
    BY <2>3, <2>4, DropMoves DEF ConnInv
  <2>6. \A d \in Conns : Opens(d)
    <3>1. CASE UNCHANGED conn
      BY <3>1, SameOpens
    <3>2. CASE c \in Conns /\ conn' = RolledBack(c)
      BY <3>2, RolledBackCleans, CleansOpens DEF ConnInv
    <3>3. QED
      BY <2>3, <2>4, <3>1, <3>2 DEF Slots
  <2>7. QED
    BY <2>3, <2>4, <2>5, <2>6, MovesSettles
<1>4. CASE StrayEnds(t)
  <2>1. PICK last : last = (task[t].pc = "done" /\ task[t].slot # NoConn)
    OBVIOUS
  <2>2. PICK slot : slot = IF last THEN NoConn ELSE task[t].slot
    OBVIOUS
  <2>3. /\ conn' = IF last THEN RolledBack(task[t].slot) ELSE conn
        /\ Set(t, [stray |-> "gone", slot |-> slot])
        /\ dialect' = dialect /\ task[t].stray = "alive"
    BY <1>4, <2>1, <2>2 DEF StrayEnds
  <2>4. task[t].slot \in Conns /\ slot \in Slots /\ slot \in {task[t].slot, NoConn}
    BY <2>2, <2>3, Now DEF Slots, Shape
  <2>5. Moves(t, task[t].pc, slot, task[t].held, task[t].attempt, task[t].calls, "gone",
              task[t].answer)
    BY <2>3, <2>4, StrayMoves DEF ConnInv
  <2>6. \A d \in Conns : Opens(d)
    <3>1. CASE UNCHANGED conn
      BY <3>1, SameOpens
    <3>2. CASE conn' = RolledBack(task[t].slot)
      BY <2>4, <3>2, RolledBackCleans, CleansOpens DEF ConnInv
    <3>3. QED
      BY <2>3, <3>1, <3>2
  <2>7. QED
    BY <2>3, <2>4, <2>5, <2>6, MovesSettles
<1>5. QED
  BY <1>1, <1>2, <1>3, <1>4

(* BEGIN opens with the options the transaction asked for.                   *)
LEMMA BeginAsAsked ==
    ASSUME ConnInv, AsAsked, OneCall, NEW t \in Tasks, Begin(t)
    PROVE  AsAsked' /\ OneCall'
<1>0. PICK c \in Conns : c = task[t].held /\ task[t].slot = NoConn /\ Own(t) = {c}
  BY Now DEF Begin, Shape
<1>1. CASE /\ conn' = [conn EXCEPT ![c] = [Clean EXCEPT !.open = TRUE, !.opts = OpensWith(t, c)]]
           /\ Set(t, [pc |-> "closure", slot |-> c, held |-> NoConn])
  <2>1. Moves(t, "closure", c, NoConn, task[t].attempt, task[t].calls, task[t].stray,
              task[t].answer)
    BY <1>0, <1>1, Now, BeginMoves
  <2>2. OneCall'
    BY <2>1, HostAssumption DEF OneCall, Moves
  <2>3. conn'[c].opts = OpensWith(t, c) /\ \A d \in Conns \ {c} : conn'[d] = conn[d]
    BY <1>1, Types DEF ConnInv, Clean
  <2>4. dialect' = dialect
    BY DEF Begin
  <2>5. ASSUME NEW u \in Tasks, dialect # "mariadb", task'[u].slot # NoConn,
               conn'[task'[u].slot].open
        PROVE  conn'[task'[u].slot].opts = IF u \in Plain THEN "default" ELSE Asks[u]
    <3>1. CASE u = t
      BY <2>1, <2>3, <2>5, <3>1 DEF OpensWith, Moves
    <3>2. CASE u # t
      <4>1. task'[u].slot = task[u].slot /\ task[u].slot \in Own(u)
        BY <2>1, <2>5, <3>2 DEF Moves, Own
      <4>2. task[u].slot # c /\ task[u].slot \in Conns
        BY <1>0, <2>5, <3>2, <4>1, Types, TaskType DEF ConnInv, Disjoint, Slots
      <4>3. QED
        BY <2>3, <2>5, <4>1, <4>2 DEF AsAsked, RunsAsAsked
    <3>3. QED
      BY <3>1, <3>2
  <2>6. QED
    BY <2>2, <2>4, <2>5 DEF AsAsked, RunsAsAsked
<1>2. CASE conn' = [conn EXCEPT ![c] = Clean] /\ Ends(t, "err")
  <2>1. \A d \in Conns : Opens(d)
    BY <1>2, LostCleans, CleansOpens DEF ConnInv
  <2>2. Settles
    BY <1>2, <2>1, EndsSettles DEF Begin, Answers
  <2>3. QED
    BY <2>2, SettlesKeeps
<1>3. QED
  BY <1>0, <1>1, <1>2 DEF Begin

LEMMA CallStartsAsAsked ==
    ASSUME ConnInv, AsAsked, OneCall, NEW t \in Tasks, NEW by, CallStarts(t, by)
    PROVE  AsAsked' /\ OneCall'
<1>0. /\ task[t].calls \in 0..MaxCalls /\ task[t].calls < MaxCalls
      /\ t \in Plain => task[t].calls = 0
  BY Now DEF CallStarts
<1>1. Moves(t, task[t].pc, task[t].slot, task[t].held, task[t].attempt, task[t].calls + 1,
            task[t].stray, task[t].answer)
  BY <1>0, CallMoves DEF ConnInv, CallStarts
<1>2. OneCall'
  BY <1>0, <1>1, HostAssumption DEF OneCall, Moves
<1>3. \A u \in Tasks : task'[u].slot = task[u].slot
  BY <1>1 DEF Moves
<1>4. UNCHANGED <<conn, dialect>>
  BY DEF CallStarts
<1>5. AsAsked'
  BY <1>3, <1>4 DEF AsAsked, RunsAsAsked
<1>6. QED
  BY <1>2, <1>5

LEMMA AsAskedInit == Init => AsAsked /\ OneCall
<1> SUFFICES ASSUME Init PROVE AsAsked /\ OneCall
  OBVIOUS
<1>1. \A t \in Tasks : task[t].slot = NoConn /\ task[t].calls = 0
  BY DEF Init
<1>2. QED
  BY <1>1, HostAssumption DEF AsAsked, RunsAsAsked, OneCall

LEMMA AsAskedNext == ConnInv /\ AsAsked /\ OneCall /\ [Next]_vars => AsAsked' /\ OneCall'
<1> SUFFICES ASSUME ConnInv, AsAsked, OneCall, [Next]_vars PROVE AsAsked' /\ OneCall'
  OBVIOUS
<1>1. CASE UNCHANGED vars
  <2>1. Settles
    BY <1>1, SameTaskSettles, SameOpens DEF vars
  <2>2. QED
    BY <2>1, SettlesKeeps
<1>2. ASSUME NEW t \in Tasks, TaskStep(t) PROVE AsAsked' /\ OneCall'
  BY <1>2, OpeningSettles, BoundarySettles, SettlesKeeps, BeginAsAsked, CallStartsAsAsked
  DEF TaskStep
<1>3. ASSUME NEW t \in Tasks, CallStep(t) PROVE AsAsked' /\ OneCall'
  BY <1>3, CallSettles, SettlesKeeps
<1>4. ASSUME NEW t \in Tasks, HostStep(t) PROVE AsAsked' /\ OneCall'
  BY <1>4, DroppingSettles, SettlesKeeps, CallStartsAsAsked DEF HostStep
<1>5. QED
  BY <1>1, <1>2, <1>3, <1>4 DEF Next, AllEnded

LEMMA AskedAlways == Spec => [](ConnInv /\ AsAsked /\ OneCall)
<1>1. Init => ConnInv /\ AsAsked /\ OneCall
  BY ConnInit, AsAskedInit
<1>2. ConnInv /\ AsAsked /\ OneCall /\ [Next]_vars => (ConnInv /\ AsAsked /\ OneCall)'
  BY ConnNext, AsAskedNext
<1>3. QED BY <1>1, <1>2, PTL DEF Spec

(* Where BEGIN itself names the options (begin_transaction_sql of Postgres   *)
(* and SQLite), an open transaction runs with those its opener asked for,    *)
(* whoever had the connection before and whatever was dropped or lost there. *)
(* On MariaDB, which sets them by a statement of its own, TLC refutes it.    *)
THEOREM OptionsAreTheOpeners == Spec => [](dialect # "mariadb" => RunsAsAsked)
<1>1. AsAsked => (dialect # "mariadb" => RunsAsAsked)
  BY DEF AsAsked
<1>2. QED BY <1>1, AskedAlways, PTL

(* What a call in progress does next is up to itself, to its callback or to  *)
(* the checkout's timeout.                                                   *)
CallGoesOn(t) ==
    \/ call[t].at \in {"guard", "reenter"}
    \/ call[t].at = "reading" /\ call[t].conn # NoConn
    \/ call[t].at \in {"first", "second"} /\ task[t].slot # NoConn

(* And a transaction: it opens with the connection it holds, its closure     *)
(* runs or has returned, or the boundary takes the transaction out of the    *)
(* slot or has it. A boundary waits for the slot's lock only while the call  *)
(* that has it goes on.                                                      *)
GoesOn(t) ==
    \/ task[t].pc \in {"idle", "backoff", "checkout"}
    \/ task[t].pc \in {"pre", "begin"} /\ task[t].held # NoConn
    \/ /\ task[t].pc = "closure" /\ task[t].slot # NoConn /\ call[t].by # "closure"
       /\ t \in Plain => call[t].by = "none" /\ task[t].calls \in {0, 1}
    \/ task[t].pc \in {"commit", "rollback"} /\ task[t].held # NoConn
    \/ /\ task[t].pc \in {"commit", "rollback"} /\ task[t].slot # NoConn
       /\ call[t].by = "none"
    \/ call[t].by # "none" /\ CallGoesOn(t)

(* No transaction and no call hangs, whatever is dropped, lost or given      *)
(* away: none has lost the connection, slot or call its next step needs, so  *)
(* with the scheduler's fairness EveryTransactionEnds holds of the instances *)
(* (Transaction::commit and rollback, which take the slot's lock).           *)
THEOREM NoTransactionHangs ==
    Spec => [](\A t \in Tasks : /\ task[t].pc # "done" => GoesOn(t)
                                /\ call[t].by # "none" => CallGoesOn(t))
<1>1. ASSUME ConnInv, OneCall, NEW t \in Tasks
      PROVE  /\ task[t].pc # "done" => GoesOn(t)
             /\ call[t].by # "none" => CallGoesOn(t)
  <2>1. Shape(t) /\ task[t] \in Task /\ call[t] \in Call
    BY <1>1, Types DEF ConnInv
  <2>2. call[t].by # "none" => CallGoesOn(t)
    BY <2>1 DEF Shape, Call, CallGoesOn
  <2>3. t \in Plain => task[t].calls \in {0, 1}
    BY <1>1, <2>1 DEF OneCall, Task
  <2>4. call[t].by \in {"none", "closure", "stray"}
    BY <2>1 DEF Call
  <2>5. task[t].pc \in Stages
    BY <2>1, TaskType
  <2>6. task[t].pc # "done" => GoesOn(t)
    BY <2>1, <2>2, <2>3, <2>4, <2>5 DEF Shape, GoesOn, Stages
  <2>7. QED BY <2>2, <2>6
<1>2. ConnInv /\ OneCall
        => \A t \in Tasks : /\ task[t].pc # "done" => GoesOn(t)
                            /\ call[t].by # "none" => CallGoesOn(t)
  BY <1>1
<1>3. QED BY <1>2, AskedAlways, PTL
================================================================================
