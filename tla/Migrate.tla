------------------------------ MODULE Migrate ------------------------------
(***************************************************************************)
(* Applying and rolling back migrations (migrate.rs, migrate_resume.rs,    *)
(* migrate_progress.rs): the ledger `_based_migrations`, the progress      *)
(* table of chunked runs, and the runs of `apply` that are cut short by a  *)
(* crash, an error or a commit whose answer is lost, and started again.    *)
(*                                                                         *)
(* Migrations are their numbers 1..N and a content hash is the version of  *)
(* the up.mig it is the hash of. A script is the sequence of its units; a  *)
(* chunked unit walks Batches batches. What a script did to the schema and *)
(* the rows is recorded as the set of work it committed.                   *)
(***************************************************************************)
EXTENDS Integers, Sequences, FiniteSets, FiniteSetsExt

CONSTANTS
    Procs,            \* processes that may call apply
    N,                \* migrations
    Versions,         \* versions of an up.mig or down.mig
    UpScript,         \* [1..N -> [Versions -> Seq(UnitKinds)]]
    DownScript,       \* the same; an empty script is a missing down.mig
    Batches,          \* batches of a chunked unit
    Destructive,      \* migrations that need --allow-destructive
    Directions,       \* among "up", "down", "to"
    Transactional,    \* whether DDL is: TRUE, or FALSE on MariaDB, or either
    EditWays,         \* which scripts are edited, among Ways
    MaxEdits,         \* bound: edits of migration files
    MaxFailures       \* bound: runs cut short

Migrations == 1..N
Ways == {"up", "down"}
UnitKinds == {"dml", "ddl", "chunk"}

ASSUME ConstantsAssumption ==
    /\ N \in Nat /\ Batches \in Nat \ {0}
    /\ Versions \subseteq Nat \ {0} /\ 1 \in Versions
    /\ UpScript \in [Migrations -> [Versions -> Seq(UnitKinds)]]
    /\ DownScript \in [Migrations -> [Versions -> Seq(UnitKinds)]]
    /\ Destructive \subseteq Migrations
    /\ Directions \subseteq {"up", "down", "to"}
    /\ Transactional \subseteq BOOLEAN
    /\ EditWays \subseteq Ways
    /\ MaxEdits \in Nat /\ MaxFailures \in Nat

VARIABLES
    transactional, \* FALSE when a DDL statement commits implicitly
    disk,      \* the version of each up.mig and down.mig
    ledger,    \* the hash recorded for each migration, 0 without a row
    progress,  \* the progress row of each migration and way
    done,      \* work committed since the other way last completed
    repeats,   \* work committed again
    pc, job,   \* per process: its step and its run of apply
    tx,        \* per process: the writes of its open transaction
    edits, failures

db == <<ledger, progress, done, repeats>>

vars == <<transactional, disk, ledger, progress, done, repeats, pc, job, tx, edits, failures>>

-----------------------------------------------------------------------------
(* Scripts.                                                                *)

Chunked(u) == \E i \in DOMAIN u : u[i] = "chunk"

(* segments(): each chunked unit is a segment of its own, and so is each   *)
(* stretch of other units; segments are counted from 0.                    *)
SegmentOf(u, i) == Cardinality({j \in 2..i : "chunk" \in {u[j - 1], u[j]}})

EndsSegment(u, i) == i = Len(u) \/ SegmentOf(u, i + 1) # SegmentOf(u, i)

(* The unit a run resumed at segment s starts with.                        *)
FirstOf(u, s) ==
    IF \E i \in DOMAIN u : SegmentOf(u, i) = s
    THEN Min({i \in DOMAIN u : SegmentOf(u, i) = s})
    ELSE Len(u) + 1

(* The work of version v of a script: its units, and the batches of its    *)
(* chunked units.                                                          *)
WorkOf(u, v) ==
    {w \in {v} \X (DOMAIN u) \X (0..Batches) : u[w[2]] = "chunk" <=> w[3] # 0}

(* The part of it before batch c + 1 of segment s.                         *)
WorkBefore(u, v, s, c) ==
    {w \in WorkOf(u, v) :
        \/ SegmentOf(u, w[2]) < s
        \/ SegmentOf(u, w[2]) = s /\ u[w[2]] = "chunk" /\ w[3] <= c}

-----------------------------------------------------------------------------
Row == [hash : {0} \cup Versions, segment : Nat, cursor : 0..Batches]

NoRow == [hash |-> 0, segment |-> 0, cursor |-> 0]

Applied == {m \in Migrations : ledger[m] # 0}

(* A transaction's writes: work, at most one progress row and one ledger   *)
(* row; Keep where it writes none.                                         *)
Keep == -1
KeepRow == [NoRow EXCEPT !.hash = Keep]
Nothing == [work |-> {}, row |-> KeepRow, entry |-> Keep]

FirstFiles == [m \in Migrations |-> [up |-> 1, down |-> 1]]

NoJob == [down |-> {}, up |-> {}, target |-> {}, files |-> FirstFiles, ack |-> FALSE,
          m |-> 0, way |-> "up", at |-> 0, cursor |-> 0, auto |-> FALSE]

Files == [up : Versions, down : Versions]

Jobs == [down : SUBSET Migrations, up : SUBSET Migrations, target : SUBSET Migrations,
         files : [Migrations -> Files], ack : BOOLEAN, m : 0..N, way : Ways,
         at : Nat, cursor : 0..Batches, auto : BOOLEAN]

Work == Versions \X (Nat \ {0}) \X (0..Batches)

TypeOK ==
    /\ transactional \in Transactional
    /\ disk \in [Migrations -> Files]
    /\ ledger \in [Migrations -> {0} \cup Versions]
    /\ progress \in [Migrations -> [Ways -> Row]]
    /\ \A m \in Migrations, w \in Ways : done[m][w] \subseteq Work
    /\ \A r \in repeats : r \in Migrations \X Ways \X Work
    /\ pc \in [Procs -> {"idle", "next", "run", "close", "entry", "commit"}]
    /\ job \in [Procs -> Jobs]
    /\ \A p \in Procs :
        /\ tx[p].work \subseteq Work
        /\ tx[p].row \in Row \cup {KeepRow}
        /\ tx[p].entry \in {Keep, 0} \cup Versions
    /\ edits \in 0..MaxEdits /\ failures \in 0..MaxFailures

Init ==
    /\ transactional \in Transactional
    /\ disk = FirstFiles
    /\ ledger = [m \in Migrations |-> 0]
    /\ progress = [m \in Migrations |-> [w \in Ways |-> NoRow]]
    /\ done = [m \in Migrations |-> [w \in Ways |-> {}]]
    /\ repeats = {}
    /\ pc = [p \in Procs |-> "idle"]
    /\ job = [p \in Procs |-> NoJob]
    /\ tx = [p \in Procs |-> Nothing]
    /\ edits = 0 /\ failures = 0

Goto(p, s) == pc' = [pc EXCEPT ![p] = s]

Leave(p) ==
    /\ Goto(p, "idle")
    /\ job' = [job EXCEPT ![p] = NoJob]
    /\ tx' = [tx EXCEPT ![p] = Nothing]

-----------------------------------------------------------------------------
(* What the database does with the writes t of p's current run.            *)

Publish(p, t) ==
    LET m == job[p].m
        w == job[p].way
        mine == done[m][w] \cup t.work
        other == CHOOSE x \in Ways : x # w
    IN
    /\ done' = [done EXCEPT
           ![m][w] = mine,
           ![m][other] = IF t.entry = Keep THEN @ ELSE {}]
    /\ repeats' = repeats \cup {<<m, w, x>> : x \in t.work \cap done[m][w]}
    /\ progress' = IF t.row = KeepRow THEN progress
                   ELSE [progress EXCEPT ![m][w] = t.row]
    /\ ledger' = IF t.entry = Keep THEN ledger ELSE [ledger EXCEPT ![m] = t.entry]

(* The writes t are added to the transaction; once a DDL statement has     *)
(* ended it implicitly, each takes effect at once.                         *)
Write(p, t) ==
    IF job[p].auto
    THEN Publish(p, t) /\ UNCHANGED tx
    ELSE tx' = [tx EXCEPT ![p] = t] /\ UNCHANGED db

-----------------------------------------------------------------------------
(* apply.                                                                  *)

(* Mutant: a ledger row whose migration is not on disk is ignored.         *)
LedgerTrusted_NoExistence(have) ==
    /\ \A m \in Applied \cap 1..have : ledger[m] = disk[m].up
    /\ \A m \in Applied \cap 1..have : 1..m \subseteq Applied

(* The existence and tamper guards and the contiguous-prefix check, for a  *)
(* migrations directory that holds the first `have` migrations.            *)
LedgerTrusted(have) ==
    /\ Applied \subseteq 1..have
    /\ \A m \in Applied : ledger[m] = disk[m].up
    /\ \A m \in Applied : 1..m \subseteq Applied

(* The applied migrations that are on disk.                                *)
Reversible(have) == Applied \cap 1..have

KeepMax(direction, n, have) ==
    CASE direction = "up" -> have
      [] direction = "to" -> n
      [] direction = "down" -> IF Cardinality(Reversible(have)) < 2 THEN 0
                               ELSE Max(Reversible(have) \ {Max(Reversible(have))})

(* apply reads the directory and the ledger, and plans its runs.           *)
Start(p, have, direction, n, ack) ==
    LET keep == KeepMax(direction, n, have) IN
    /\ pc[p] = "idle"
    /\ LedgerTrusted(have)
    /\ job' = [job EXCEPT ![p] = [NoJob EXCEPT
           !.down = {m \in Reversible(have) : m > keep},
           !.up = {m \in 1..have \ Applied : m <= keep},
           !.target = {m \in 1..have : m <= keep},
           !.files = disk,
           !.ack = ack]]
    /\ Goto(p, "next")
    /\ UNCHANGED <<transactional, disk, db, tx, edits, failures>>

(* Mutant: rollbacks run oldest first.                                     *)
NextRun_OldestFirst(p) ==
    IF job[p].down # {} THEN <<Min(job[p].down), "down">> ELSE <<Min(job[p].up), "up">>

(* Rollbacks newest first, then the pending migrations oldest first.       *)
NextRun(p) ==
    IF job[p].down # {} THEN <<Max(job[p].down), "down">> ELSE <<Min(job[p].up), "up">>

Script(p, m, way) ==
    IF way = "up" THEN UpScript[m][job[p].files[m].up]
    ELSE DownScript[m][job[p].files[m].down]

(* apply returns its report.                                               *)
ReturnReport(p) ==
    /\ pc[p] = "next"
    /\ job[p].down \cup job[p].up = {}
    /\ Leave(p)
    /\ UNCHANGED <<transactional, disk, db, edits, failures>>

(* Mutant: the hash of the saved progress is not compared.                 *)
Refused_IgnoresProgressHash(p, m, way) ==
    IF way = "down" THEN Script(p, m, way) = << >>
    ELSE m \in Destructive /\ ~job[p].ack

(* NoDown, the destructive gate, and run_resumable's tamper guard.         *)
Refused(p, m, way) ==
    \/ way = "down" /\ Script(p, m, way) = << >>
    \/ way = "up" /\ m \in Destructive /\ ~job[p].ack
    \/ /\ Chunked(Script(p, m, way))
       /\ progress[m][way] # NoRow
       /\ progress[m][way].hash # job[p].files[m].up

Refuse(p) ==
    /\ pc[p] = "next"
    /\ job[p].down \cup job[p].up # {}
    /\ Refused(p, NextRun(p)[1], NextRun(p)[2])
    /\ Leave(p)
    /\ UNCHANGED <<transactional, disk, db, edits, failures>>

(* Mutant: a resumed run starts after the segment it stopped in.           *)
ResumeAt_NextSegment(u, row) ==
    [at |-> FirstOf(u, IF row = NoRow THEN 0 ELSE row.segment + 1), cursor |-> 0]

(* Where run_resumable starts from a progress row; NoRow is the start.     *)
ResumeAt(u, row) == [at |-> FirstOf(u, row.segment), cursor |-> row.cursor]

(* run_migration: a script without a chunked unit ignores saved progress;  *)
(* a resumed run with no segment left returns at once.                     *)
Begin(p) ==
    LET m == NextRun(p)[1]
        way == NextRun(p)[2]
        u == Script(p, m, way)
        from == ResumeAt(u, IF Chunked(u) THEN progress[m][way] ELSE NoRow)
    IN
    /\ pc[p] = "next"
    /\ job[p].down \cup job[p].up # {}
    /\ ~Refused(p, m, way)
    /\ job' = [job EXCEPT ![p] = [@ EXCEPT
           !.down = job[p].down \ {m}, !.up = job[p].up \ {m},
           !.m = m, !.way = way, !.at = from.at, !.cursor = from.cursor,
           !.auto = FALSE]]
    /\ Goto(p, IF from.at <= Len(u) THEN "run"
               ELSE IF Chunked(u) THEN "next" ELSE "entry")
    /\ UNCHANGED <<transactional, disk, db, tx, edits, failures>>

Current(p) == Script(p, job[p].m, job[p].way)

Version(p) == IF job[p].way = "up" THEN job[p].files[job[p].m].up
              ELSE job[p].files[job[p].m].down

-----------------------------------------------------------------------------
(* run_in_tx, statements, chunks, finish_segment.                          *)

(* MariaDB commits the open transaction before a DDL statement and leaves  *)
(* the rest of it in autocommit.                                           *)
ImplicitCommit(p) ==
    /\ pc[p] = "run"
    /\ Current(p)[job[p].at] = "ddl"
    /\ ~transactional /\ ~job[p].auto
    /\ Publish(p, tx[p])
    /\ tx' = [tx EXCEPT ![p] = Nothing]
    /\ job' = [job EXCEPT ![p].auto = TRUE]
    /\ UNCHANGED <<transactional, disk, pc, edits, failures>>

(* A statement; after the last of its segment the segment is closed.       *)
Statement(p) ==
    LET u == Current(p)
        i == job[p].at
    IN
    /\ pc[p] = "run"
    /\ u[i] # "chunk"
    /\ u[i] = "ddl" => transactional \/ job[p].auto
    /\ Write(p, [tx[p] EXCEPT !.work = @ \cup {<<Version(p), i, 0>>}])
    /\ IF EndsSegment(u, i)
       THEN /\ Goto(p, IF Chunked(u) THEN "close" ELSE "entry")
            /\ UNCHANGED job
       ELSE /\ job' = [job EXCEPT ![p].at = i + 1]
            /\ UNCHANGED pc
    /\ UNCHANGED <<transactional, disk, edits, failures>>

(* A statement that has been committed before, by a run that then got no   *)
(* ledger row, is refused: the table, the column or the key is there. Some *)
(* statements may be executed again, and Statement stays possible.         *)
StatementRefused(p) ==
    LET u == Current(p)
        i == job[p].at
    IN
    /\ pc[p] = "run"
    /\ u[i] # "chunk"
    /\ u[i] = "ddl" => transactional \/ job[p].auto
    /\ <<Version(p), i, 0>> \in done[job[p].m][job[p].way]
    /\ Leave(p)
    /\ UNCHANGED <<transactional, disk, db, edits, failures>>

(* The writes of batch c of the chunked unit p is at.                      *)
BatchWrites(p, c) ==
    [Nothing EXCEPT
        !.work = {<<Version(p), job[p].at, c>>},
        !.row = [hash |-> job[p].files[job[p].m].up,
                 segment |-> SegmentOf(Current(p), job[p].at), cursor |-> c]]

(* A batch: its write and the progress row in one transaction. The select  *)
(* that comes back empty closes the segment instead.                       *)
Batch(p) ==
    LET c == job[p].cursor + 1 IN
    /\ pc[p] = "run"
    /\ Current(p)[job[p].at] = "chunk"
    /\ IF c > Batches
       THEN Goto(p, "close") /\ UNCHANGED <<job, tx>>
       ELSE /\ tx' = [tx EXCEPT ![p] = BatchWrites(p, c)]
            /\ job' = [job EXCEPT ![p].cursor = c]
            /\ Goto(p, "commit")
    /\ UNCHANGED <<transactional, disk, db, edits, failures>>

(* Mutant: the last segment does not clear the progress row.               *)
ClearProgress_Skipped(p) ==
    /\ pc[p] = "close"
    /\ Goto(p, "entry")
    /\ UNCHANGED <<transactional, disk, db, tx, job, edits, failures>>

(* finish_segment: the progress row is deleted ...                         *)
ClearProgress(p) ==
    /\ pc[p] = "close"
    /\ Write(p, [tx[p] EXCEPT !.row = NoRow])
    /\ Goto(p, "entry")
    /\ UNCHANGED <<transactional, disk, job, edits, failures>>

LastSegment(p) == job[p].at >= Len(Current(p))

(* ... and inserted again for the next segment, in a segment that is not   *)
(* the last.                                                               *)
MoveProgress(p) ==
    /\ pc[p] = "entry"
    /\ ~LastSegment(p)
    /\ Write(p, [tx[p] EXCEPT
           !.row = [hash |-> job[p].files[job[p].m].up,
                    segment |-> SegmentOf(Current(p), job[p].at) + 1, cursor |-> 0]])
    /\ Goto(p, "commit")
    /\ UNCHANGED <<transactional, disk, job, edits, failures>>

(* Another open transaction holds a lock on the ledger row of m.           *)
EntryLocked(p) ==
    \E q \in Procs \ {p} : tx[q].entry # Keep /\ job[q].m = job[p].m

(* Mutant: the ledger row is inserted or replaced.                         *)
EntryFits_Upsert(p) == TRUE

(* The INSERT into the ledger requires that no row is there.               *)
EntryFits(p) == job[p].way = "up" => ledger[job[p].m] = 0

(* The last segment, or a run in one transaction, updates the ledger.      *)
WriteEntry(p) ==
    /\ pc[p] = "entry"
    /\ LastSegment(p)
    /\ ~EntryLocked(p)
    /\ EntryFits(p)
    /\ Write(p, [tx[p] EXCEPT
           !.entry = IF job[p].way = "up" THEN job[p].files[job[p].m].up ELSE 0])
    /\ Goto(p, "commit")
    /\ UNCHANGED <<transactional, disk, job, edits, failures>>

(* COMMIT; the run goes on with the next batch or segment, or is over.     *)
Committed(p) ==
    LET i == job[p].at
        u == Current(p)
    IN
    IF u # << >> /\ u[i] = "chunk" /\ tx[p].row.cursor > 0
    THEN Goto(p, "run") /\ UNCHANGED job
    ELSE IF LastSegment(p) THEN Goto(p, "next") /\ UNCHANGED job
    ELSE /\ Goto(p, "run")
         /\ job' = [job EXCEPT ![p] = [@ EXCEPT !.at = i + 1, !.cursor = 0, !.auto = FALSE]]

Commit(p) ==
    /\ pc[p] = "commit"
    /\ Publish(p, tx[p])
    /\ tx' = [tx EXCEPT ![p] = Nothing]
    /\ Committed(p)
    /\ UNCHANGED <<transactional, disk, edits, failures>>

(* COMMIT returns an error, having taken effect or not.                    *)
CommitFails(p) ==
    /\ pc[p] = "commit"
    /\ failures < MaxFailures
    /\ failures' = failures + 1
    /\ Publish(p, tx[p]) \/ UNCHANGED db
    /\ Leave(p)
    /\ UNCHANGED <<transactional, disk, edits>>

(* The process is lost, or a statement fails: apply ends and what its      *)
(* transaction has not committed is rolled back.                           *)
Interrupt(p) ==
    /\ pc[p] # "idle"
    /\ failures < MaxFailures
    /\ failures' = failures + 1
    /\ Leave(p)
    /\ UNCHANGED <<transactional, disk, db, edits>>

(* The ledger INSERT hits a row another process inserted: the run fails.   *)
EntryRefused(p) ==
    /\ pc[p] = "entry"
    /\ LastSegment(p)
    /\ ~EntryLocked(p)
    /\ ~EntryFits(p)
    /\ Leave(p)
    /\ UNCHANGED <<transactional, disk, db, edits, failures>>

-----------------------------------------------------------------------------
(* An author rewrites an up.mig or a down.mig.                             *)
Edit(m, way) ==
    /\ edits < MaxEdits
    /\ edits' = edits + 1
    /\ \E v \in Versions \ {disk[m][way]} : disk' = [disk EXCEPT ![m][way] = v]
    /\ UNCHANGED <<transactional, db, pc, job, tx, failures>>

StartAny(p) ==
    \E have \in 0..N, direction \in Directions, n \in 0..N, ack \in BOOLEAN :
        /\ direction # "to" => n = 0
        /\ Destructive = {} => ~ack
        /\ Start(p, have, direction, n, ack)

(* What p's run of apply does of its own.                                  *)
Advance(p) ==
    \/ ReturnReport(p) \/ Refuse(p) \/ Begin(p)
    \/ ImplicitCommit(p) \/ Statement(p) \/ StatementRefused(p) \/ Batch(p)
    \/ ClearProgress(p) \/ MoveProgress(p) \/ WriteEntry(p) \/ EntryRefused(p)
    \/ Commit(p)

Next ==
    \/ \E p \in Procs : StartAny(p) \/ Advance(p) \/ CommitFails(p) \/ Interrupt(p)
    \/ \E m \in Migrations, way \in EditWays : Edit(m, way)

Spec == Init /\ [][Next]_vars

(* apply runs until it returns; whoever deploys runs `apply` again, with   *)
(* every migration at hand, until nothing is pending.                      *)
Retried ==
    /\ Spec
    /\ \A p \in Procs : WF_vars(Advance(p))
    /\ \A p \in Procs : SF_vars(Start(p, N, "up", 0, TRUE))

-----------------------------------------------------------------------------
(* Properties.                                                             *)

(* The ledger is a prefix of the sequence of migrations after any mix of   *)
(* Up, Down and To runs and their interruptions, as apply's contiguous-    *)
(* prefix check relies on, and an apply that returns its report has        *)
(* reconciled it to its Direction: "exactly {number <= N}" for To(N).      *)
LedgerFollowsDirection ==
    /\ \A m \in Applied : 1..m \subseteq Applied
    /\ \A p \in Procs :
        (pc[p] = "next" /\ job[p].down \cup job[p].up = {}) => Applied = job[p].target

(* Whoever applies beside it, an apply that returns its report leaves      *)
(* every migration of its target in the ledger, and the ledger never has a *)
(* hole: apply reads the ledger once and trusts it for its whole plan.     *)
TargetIsApplied ==
    /\ \A m \in Applied : 1..m \subseteq Applied
    /\ \A p \in Procs :
        (pc[p] = "next" /\ job[p].down \cup job[p].up = {}) => job[p].target \subseteq Applied

(* A migration with a ledger row has had every unit and batch of the       *)
(* version recorded run since it was last rolled back. One without a row   *)
(* has had every unit of its down.mig run, if it ever was applied. Where   *)
(* DDL is transactional nothing but that version, or down.mig, has run     *)
(* that way. What an interrupted run has done the other way since, a       *)
(* rollback of an applied one or an apply of another, is ProgressIsExact's.*)
LedgerMatchesWork ==
    \A m \in Migrations :
        LET wanted == IF m \in Applied THEN WorkOf(UpScript[m][ledger[m]], ledger[m])
                      ELSE WorkOf(DownScript[m][disk[m].down], disk[m].down)
            did == done[m][IF m \in Applied THEN "up" ELSE "down"]
        IN
        /\ wanted \subseteq did \/ (m \notin Applied /\ did = {})
        /\ transactional => did \subseteq wanted

(* However often apply is interrupted and started again, and also by two   *)
(* processes when no script is resumable, no unit or batch is committed    *)
(* twice where DDL is transactional.                                       *)
NothingRepeated == transactional => repeats = {}

(* Several processes that apply at once, none of which rolls back, agree:  *)
(* the ledger's key lets one of each pair of runs of a migration commit,   *)
(* so nothing runs twice and the work recorded is the work done, and the   *)
(* plan each made from one reading of the ledger still comes true.         *)
AppliersAgree == NothingRepeated /\ TargetIsApplied /\ LedgerMatchesWork

(* A progress row stands exactly at the work its run has committed, and    *)
(* without one a run has committed nothing: run_resumable neither skips    *)
(* nor repeats a batch, where DDL is transactional.                        *)
ProgressIsExact ==
    /\ NothingRepeated
    /\ transactional => \A m \in Migrations, w \in Ways :
           LET row == progress[m][w]
               v == IF w = "up" THEN row.hash ELSE disk[m].down
               u == IF w = "up" THEN UpScript[m][v] ELSE DownScript[m][v]
           IN
           IF row # NoRow
           THEN done[m][w] = WorkBefore(u, v, row.segment, row.cursor)
           ELSE (w = "up" <=> m \notin Applied) => done[m][w] = {}

(* Work is committed only at the frontier: up work on the lowest migration *)
(* without a ledger row, down work on the highest one with a row.          *)
WorkAtFrontier ==
    [][\A m \in Migrations :
        /\ ~ (done'[m]["up"] \subseteq done[m]["up"]) => Applied = 1..(m - 1)
        /\ ~ (done'[m]["down"] \subseteq done[m]["down"]) => Applied = 1..m]_vars

(* Where MariaDB's DDL persisted without a ledger row, as apply's comment  *)
(* warns: no run is under way, and a run would execute a committed         *)
(* statement again.                                                        *)
NeedsInspection ==
    /\ ~transactional /\ failures > 0
    /\ \A p \in Procs : pc[p] = "idle"
    /\ \E m \in Migrations \ Applied :
        LET u == UpScript[m][disk[m].up] IN
        \E w \in done[m]["up"] :
            /\ w[1] = disk[m].up /\ w[3] = 0
            /\ w[2] >= ResumeAt(u, IF Chunked(u) THEN progress[m]["up"] ELSE NoRow).at

(* An interrupted apply leaves the database in a state from which `apply`  *)
(* run again completes: everything is applied over and over, whatever else *)
(* is applied and rolled back, until a file is edited. The one exception   *)
(* is the state apply's comment tells to inspect, in which a statement may *)
(* be refused by every further run; it needs an interruption and DDL that  *)
(* commits implicitly.                                                     *)
AppliedAgain == []<>(Applied = Migrations \/ edits > 0 \/ NeedsInspection)
=============================================================================
