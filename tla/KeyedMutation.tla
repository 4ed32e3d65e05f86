--------------------------- MODULE KeyedMutation ---------------------------
(***************************************************************************)
(* A mutation that carries an idempotency key, run with the durable        *)
(* DbStore: run_mutation, apply, apply_once (run/mutation.rs) and the      *)
(* TxIdempotency half of DbStore (idempotency.rs). The key row is claimed, *)
(* the writes run, the response is recorded and all three commit in ONE    *)
(* database transaction; a deadlock re-runs the whole attempt; a dropped   *)
(* future or a failed statement rolls the transaction back.                *)
(*                                                                         *)
(* Any number of server instances share the database: a process of Procs   *)
(* is one request task of any of them. A process that dies is a task that  *)
(* is dropped (Cancel).                                                    *)
(*                                                                         *)
(* The database is external: it runs a transaction atomically, its unique  *)
(* index admits one uncommitted row per stored key and makes a second      *)
(* INSERT wait, and a COMMIT whose caller has gone may still take effect.  *)
(***************************************************************************)
EXTENDS Integers, FiniteSets

CONSTANTS
    Procs,      \* request tasks
    Nobody,     \* owner of a transaction whose task has dropped it
    Keys,       \* the (callable, key) pairs of requests
    StoredKey,  \* StoredKey[k]: the primary key the key column really stores for k
    Prints,     \* request fingerprints (hash of args + ctx)
    PoolSize,   \* connections of the backend
    RetryLimit, \* TX_RETRY_LIMIT
    HasGc,      \* the store was built by DbStore::with_gc
    MaxCalls,   \* bound: requests issued in a behaviour
    MaxGen      \* bound: times the sweep may delete one key

ASSUME ConstantsAssumption ==
    /\ Nobody \notin Procs
    /\ Keys # {}
    /\ StoredKey \in [Keys -> Keys]
    /\ Prints \subseteq Nat \ {0}
    /\ PoolSize \in Nat \ {0}
    /\ RetryLimit \in Nat
    /\ HasGc \in BOOLEAN
    /\ MaxCalls \in Nat
    /\ MaxGen \in Nat

VARIABLES
    pc,       \* pc[p]: where the task is in run_mutation
    call,     \* call[p]: its request, and the attempt number of apply's loop
    row,      \* row[s]: the committed row of _based_idempotency stored under s
    claim,    \* claim[s]: the open transaction holding an uncommitted row for s
    effects,  \* committed writes: [key, print, id, gen]
    gen,      \* gen[s]: how often the sweep has deleted the row of s
    sweep,    \* [due, running]: the store's sweep clock and its detached tasks
    answers,  \* successes returned to callers: [key, print, id]
    calls     \* requests issued so far; the next request's id

vars == <<pc, call, row, claim, effects, gen, sweep, answers, calls>>

-----------------------------------------------------------------------------
(* State.  A request's id is the id plan_mutation minted for it, which is  *)
(* also the response; 0 is SQL NULL and "no fingerprint".                  *)

Steps == {"idle", "checkout", "claim", "insert", "select", "write", "record",
          "commit", "committing", "committed", "aborted"}

NoRow == [present |-> FALSE, print |-> 0, response |-> 0, old |-> FALSE]

NoClaim == [status |-> "free", owner |-> Nobody, key |-> CHOOSE k \in Keys : TRUE,
            print |-> 0, id |-> 0, response |-> 0, old |-> FALSE]

Row == [present : BOOLEAN, print : Nat, response : Nat, old : BOOLEAN]

Claim == [status : {"free", "open", "committing"}, owner : Procs \cup {Nobody},
          key : Keys, print : Nat, id : Nat, response : Nat, old : BOOLEAN]

Call == [key : Keys, print : Nat, id : Nat, attempt : 0..RetryLimit]

Effect == [key : Keys, print : Nat, id : Nat, gen : Nat]

Answer == [key : Keys, print : Nat, id : Nat]

TypeOK ==
    /\ pc \in [Procs -> Steps]
    /\ call \in [Procs -> Call]
    /\ row \in [Keys -> Row]
    /\ claim \in [Keys -> Claim]
    /\ effects \subseteq Effect
    /\ gen \in [Keys -> Nat]
    /\ sweep \in [due : BOOLEAN, running : Nat]
    /\ answers \subseteq Answer
    /\ calls \in Nat

Init ==
    /\ pc = [p \in Procs |-> "idle"]
    /\ call = [p \in Procs |-> [key |-> CHOOSE k \in Keys : TRUE, print |-> 0,
                                id |-> 0, attempt |-> 0]]
    /\ row = [s \in Keys |-> NoRow]
    /\ claim = [s \in Keys |-> NoClaim]
    /\ effects = {}
    /\ gen = [s \in Keys |-> 0]
    /\ sweep = [due |-> FALSE, running |-> 0]
    /\ answers = {}
    /\ calls = 0

(* The stored key p's request lands on, and the request as an answer.      *)
Slot(p) == StoredKey[call[p].key]

Request(p) == [key |-> call[p].key, print |-> call[p].print, id |-> call[p].id]

Holds(p, s) == claim[s].status # "free" /\ claim[s].owner = p

(* Connections in use: tasks past checkout, and dropped transactions whose *)
(* rollback or commit the server has not finished.                         *)
InUse == Cardinality({p \in Procs : pc[p] \notin {"idle", "checkout"}})
         + Cardinality({s \in Keys : claim[s].status # "free"
                                     /\ claim[s].owner = Nobody})

-----------------------------------------------------------------------------
(* Leaving a transaction.                                                  *)

(* Mutant: the connection goes back to the pool with its transaction open. *)
DropTx_Leaks(p) == UNCHANGED claim

(* Dropping a Tx without commit: the rollback is the connection's to run,  *)
(* so the uncommitted row outlives the task until DbRollback. A COMMIT     *)
(* already sent is out of the task's hands.                                *)
DropTx(p) ==
    claim' = [s \in Keys |-> IF Holds(p, s)
                             THEN [claim[s] EXCEPT !.owner = Nobody]
                             ELSE claim[s]]

(* run_mutation returns; the task ends.                                    *)
Return(p) ==
    pc' = [pc EXCEPT ![p] = "idle"]

(* run_mutation returns a success.                                         *)
Succeed(p, id) ==
    /\ answers' = answers \cup {[Request(p) EXCEPT !.id = id]}
    /\ Return(p)

(* The loop of apply: a deadlock re-runs the attempt on a fresh checkout   *)
(* while attempts remain; every other failure, and the last deadlock, is   *)
(* returned.                                                               *)
Retry(p) ==
    /\ call[p].attempt < RetryLimit
    /\ call' = [call EXCEPT ![p].attempt = @ + 1]
    /\ pc' = [pc EXCEPT ![p] = "checkout"]

-----------------------------------------------------------------------------
(* run_mutation.                                                           *)

(* A request arrives: it is planned (ids minted once, before any claim)    *)
(* and enters apply's loop. A request that fails to plan changes nothing.  *)
Begin(p, k, f) ==
    /\ pc[p] = "idle"
    /\ calls < MaxCalls
    /\ calls' = calls + 1
    /\ call' = [call EXCEPT ![p] = [key |-> k, print |-> f, id |-> calls + 1,
                                    attempt |-> 0]]
    /\ pc' = [pc EXCEPT ![p] = "checkout"]
    /\ UNCHANGED <<row, claim, effects, gen, sweep, answers>>

(* Checkout of a pooled connection and BEGIN.                              *)
Checkout(p) ==
    /\ pc[p] = "checkout"
    /\ InUse < PoolSize
    /\ pc' = [pc EXCEPT ![p] = "claim"]
    /\ UNCHANGED <<call, row, claim, effects, gen, sweep, answers, calls>>

(* DbStore::claim starts with maybe_sweep: a due sweep is re-armed and     *)
(* spawned on its own task.                                                *)
MaybeSweep(p) ==
    /\ pc[p] = "claim"
    /\ sweep' = IF sweep.due
                THEN [due |-> FALSE, running |-> sweep.running + 1]
                ELSE sweep
    /\ pc' = [pc EXCEPT ![p] = "insert"]
    /\ UNCHANGED <<call, row, claim, effects, gen, answers, calls>>

(* Mutant: the affected count of the INSERT is ignored.                    *)
Insert_IgnoresCount(p) ==
    LET s == Slot(p) IN
    /\ pc[p] = "insert"
    /\ claim[s].status = "free"
    /\ pc' = [pc EXCEPT ![p] = "write"]
    /\ claim' = [claim EXCEPT ![s] =
           [status |-> "open", owner |-> p, key |-> call[p].key,
            print |-> call[p].print, id |-> call[p].id,
            response |-> 0, old |-> FALSE]]
    /\ UNCHANGED <<call, row, effects, gen, sweep, answers, calls>>

(* INSERT-or-ignore of the in-flight row. It waits while another           *)
(* transaction holds an uncommitted row for the stored key, then either    *)
(* inserts (1 affected: Fresh) or is ignored (0: a committed row exists).  *)
Insert(p) ==
    LET s == Slot(p) IN
    /\ pc[p] = "insert"
    /\ claim[s].status = "free"
    /\ IF row[s].present
       THEN /\ pc' = [pc EXCEPT ![p] = "select"]
            /\ UNCHANGED claim
       ELSE /\ pc' = [pc EXCEPT ![p] = "write"]
            /\ claim' = [claim EXCEPT ![s] =
                   [status |-> "open", owner |-> p, key |-> call[p].key,
                    print |-> call[p].print, id |-> call[p].id,
                    response |-> 0, old |-> FALSE]]
    /\ UNCHANGED <<call, row, effects, gen, sweep, answers, calls>>

(* The row the SELECT finds: it compares the stored key with the full key. *)
SelectRow(p) == IF StoredKey[call[p].key] = call[p].key THEN row[call[p].key] ELSE NoRow

(* Mutant: replays without comparing fingerprints.                         *)
SelectReplay_AnyPrint(p) ==
    LET r == SelectRow(p) IN
    /\ pc[p] = "select"
    /\ r.present
    /\ r.response # 0
    /\ Succeed(p, r.response)
    /\ DropTx(p)
    /\ UNCHANGED <<call, row, effects, gen, sweep, calls>>

(* The ignored claim reads the committed row and replays its response to a *)
(* request with the same fingerprint; the transaction is dropped.          *)
SelectReplay(p) ==
    LET r == SelectRow(p) IN
    /\ pc[p] = "select"
    /\ r.present
    /\ r.print = call[p].print
    /\ r.response # 0
    /\ Succeed(p, r.response)
    /\ DropTx(p)
    /\ UNCHANGED <<call, row, effects, gen, sweep, calls>>

(* The other outcomes of the SELECT: another request's fingerprint (422),  *)
(* a row swept since the conflict, or a row with no response (503).        *)
SelectReject(p) ==
    LET r == SelectRow(p) IN
    /\ pc[p] = "select"
    /\ \/ ~r.present
       \/ r.print # call[p].print
       \/ r.response = 0
    /\ DropTx(p)
    /\ Return(p)
    /\ UNCHANGED <<call, row, effects, gen, sweep, answers, calls>>

(* run_writes completed inside the transaction.                            *)
RunWrites(p) ==
    /\ pc[p] = "write"
    /\ pc' = [pc EXCEPT ![p] = "record"]
    /\ UNCHANGED <<call, row, claim, effects, gen, sweep, answers, calls>>

(* run_writes matched no row: NotFound, the transaction is dropped.        *)
NotFound(p) ==
    /\ pc[p] = "write"
    /\ DropTx(p)
    /\ Return(p)
    /\ UNCHANGED <<call, row, effects, gen, sweep, answers, calls>>

(* Mutant: commits without recording the response.                         *)
Record_Skipped(p) ==
    /\ pc[p] = "record"
    /\ pc' = [pc EXCEPT ![p] = "commit"]
    /\ UNCHANGED <<call, row, claim, effects, gen, sweep, answers, calls>>

(* DbStore::record: UPDATE ... WHERE key = the full key. The number of     *)
(* rows it matched is not looked at.                                       *)
Record(p) ==
    LET s == Slot(p) IN
    /\ pc[p] = "record"
    /\ claim' = IF s = call[p].key
                THEN [claim EXCEPT ![s].response = call[p].id]
                ELSE claim
    /\ pc' = [pc EXCEPT ![p] = "commit"]
    /\ UNCHANGED <<call, row, effects, gen, sweep, answers, calls>>

(* COMMIT is sent.                                                         *)
SendCommit(p) ==
    LET s == Slot(p) IN
    /\ pc[p] = "commit"
    /\ claim' = [claim EXCEPT ![s].status = "committing"]
    /\ pc' = [pc EXCEPT ![p] = "committing"]
    /\ UNCHANGED <<call, row, effects, gen, sweep, answers, calls>>

(* The answer to COMMIT arrives, or is lost (a commit error: 503).         *)
CommitAcked(p) ==
    /\ pc[p] = "committed"
    /\ Succeed(p, call[p].id)
    /\ UNCHANGED <<call, row, claim, effects, gen, sweep, calls>>

CommitUnknown(p) ==
    /\ pc[p] = "committed"
    /\ Return(p)
    /\ UNCHANGED <<call, row, claim, effects, gen, sweep, answers, calls>>

-----------------------------------------------------------------------------
(* Failures a task meets.                                                  *)

(* A statement, or the COMMIT, is refused as a deadlock / serialization    *)
(* conflict / lock-wait timeout: re-run, or give up after the last try.    *)
Deadlock(p) ==
    /\ pc[p] \in {"claim", "insert", "select", "write", "record", "aborted"}
    /\ DropTx(p)
    /\ \/ Retry(p)
       \/ call[p].attempt = RetryLimit /\ Return(p) /\ UNCHANGED call
    /\ UNCHANGED <<row, effects, gen, sweep, answers, calls>>

(* Pool exhaustion, a lost connection, any other database error.           *)
Fail(p) ==
    /\ pc[p] \in {"checkout", "claim", "insert", "select", "write", "record",
                  "commit", "committing", "aborted"}
    /\ DropTx(p)
    /\ Return(p)
    /\ UNCHANGED <<call, row, effects, gen, sweep, answers, calls>>

(* The caller drops the future, or its server process dies, at any await.  *)
Cancel(p) ==
    /\ pc[p] # "idle"
    /\ DropTx(p)
    /\ Return(p)
    /\ UNCHANGED <<call, row, effects, gen, sweep, answers, calls>>

-----------------------------------------------------------------------------
(* The database.                                                           *)

(* A transaction commits: the key row, its response and the writes become  *)
(* visible at once. Its task may be gone.                                  *)
DbCommit(s) ==
    LET c == claim[s] IN
    /\ c.status = "committing"
    /\ row' = [row EXCEPT ![s] = [present |-> TRUE, print |-> c.print,
                                  response |-> c.response, old |-> c.old]]
    /\ effects' = effects \cup {[key |-> c.key, print |-> c.print, id |-> c.id,
                                 gen |-> gen[s]]}
    /\ claim' = [claim EXCEPT ![s] = NoClaim]
    /\ pc' = [p \in Procs |-> IF c.owner = p THEN "committed" ELSE pc[p]]
    /\ UNCHANGED <<call, gen, sweep, answers, calls>>

(* A transaction ends without effect: a dropped one, or a refused COMMIT.  *)
DbRollback(s) ==
    LET c == claim[s] IN
    /\ \/ c.status = "open" /\ c.owner = Nobody
       \/ c.status = "committing"
    /\ claim' = [claim EXCEPT ![s] = NoClaim]
    /\ pc' = [p \in Procs |-> IF c.owner = p THEN "aborted" ELSE pc[p]]
    /\ UNCHANGED <<call, row, effects, gen, sweep, answers, calls>>

-----------------------------------------------------------------------------
(* Garbage collection (DbStore::with_gc).                                  *)

(* A ttl window elapses on the store's clock.                              *)
SweepFallsDue ==
    /\ HasGc
    /\ ~sweep.due
    /\ sweep' = [sweep EXCEPT !.due = TRUE]
    /\ UNCHANGED <<pc, call, row, claim, effects, gen, answers, calls>>

(* The row of s, committed or not, becomes older than ttl. created_at is   *)
(* the time of the INSERT, so a row can commit already old.                *)
Age(s) ==
    /\ HasGc
    /\ gen[s] < MaxGen
    /\ \/ /\ row[s].present /\ ~row[s].old
          /\ row' = [row EXCEPT ![s].old = TRUE]
          /\ UNCHANGED claim
       \/ /\ claim[s].status # "free" /\ ~claim[s].old
          /\ claim' = [claim EXCEPT ![s].old = TRUE]
          /\ UNCHANGED row
    /\ UNCHANGED <<pc, call, effects, gen, sweep, answers, calls>>

(* A detached sweep deletes every committed row older than ttl.            *)
Sweep ==
    LET swept == {s \in Keys : row[s].present /\ row[s].old} IN
    /\ sweep.running > 0
    /\ row' = [s \in Keys |-> IF s \in swept THEN NoRow ELSE row[s]]
    /\ gen' = [s \in Keys |-> IF s \in swept THEN gen[s] + 1 ELSE gen[s]]
    /\ sweep' = [sweep EXCEPT !.running = @ - 1]
    /\ UNCHANGED <<pc, call, claim, effects, answers, calls>>

(* It fails, silently: the checkout or the DELETE errs, or the process     *)
(* dies.                                                                   *)
SweepFails ==
    /\ sweep.running > 0
    /\ sweep' = [sweep EXCEPT !.running = @ - 1]
    /\ UNCHANGED <<pc, call, row, claim, effects, gen, answers, calls>>

-----------------------------------------------------------------------------
Progress(p) ==
    \/ Checkout(p) \/ MaybeSweep(p) \/ Insert(p)
    \/ SelectReplay(p) \/ SelectReject(p)
    \/ RunWrites(p) \/ NotFound(p) \/ Record(p) \/ SendCommit(p)
    \/ CommitAcked(p) \/ CommitUnknown(p)

(* The errors a task is handed once its transaction is gone.               *)
HandleAbort(p) == pc[p] = "aborted" /\ (Deadlock(p) \/ Fail(p))

Next ==
    \/ \E p \in Procs, k \in Keys, f \in Prints : Begin(p, k, f)
    \/ \E p \in Procs : Progress(p) \/ Deadlock(p) \/ Fail(p) \/ Cancel(p)
    \/ \E s \in Keys : DbCommit(s) \/ DbRollback(s) \/ Age(s)
    \/ SweepFallsDue \/ Sweep \/ SweepFails

(* Tasks are polled and the server answers: a task takes its next step,    *)
(* a transaction that was dropped or sent to commit ends, and the error it *)
(* ends with is handled. Nothing is assumed of callers, of failures, of    *)
(* cancellation, of the sweep, or of a lock wait timing out.               *)
Fairness ==
    /\ \A p \in Procs : WF_vars(Progress(p)) /\ WF_vars(HandleAbort(p))
    /\ \A s \in Keys : WF_vars(DbCommit(s) \/ DbRollback(s))

Spec == Init /\ [][Next]_vars

FairSpec == Spec /\ Fairness

-----------------------------------------------------------------------------
(* Properties.                                                             *)

(* Between two sweeps of a key, the writes of at most one request commit   *)
(* under it, whatever mix of retries, deadlock re-runs, lost commit        *)
(* acknowledgements, cancellations and sweeps happens: the deduplication   *)
(* DbStore promises "while retained".                                      *)
OneEffectPerRetention ==
    \A e1, e2 \in effects :
        (e1.key = e2.key /\ e1.gen = e2.gen) => e1 = e2

(* A committed key row carries the response of the request whose writes    *)
(* committed with it: the assumption DbStore::claim makes when it replays  *)
(* a row it conflicted with.                                               *)
CommittedRowHasResponse ==
    \A s \in Keys : row[s].present =>
        \E e \in effects : /\ StoredKey[e.key] = s
                           /\ e.gen = gen[s]
                           /\ e.print = row[s].print
                           /\ e.id = row[s].response

(* No step makes a mutation's writes visible without also making its key   *)
(* row visible, and no step but the sweep removes a key row: key, writes   *)
(* and response commit together and stay together.                         *)
KeyAndEffectsCommitTogether ==
    [][/\ \A e \in effects' \ effects :
             ~row[StoredKey[e.key]].present /\ row'[StoredKey[e.key]].present
       /\ \A s \in Keys : row[s].present /\ ~row'[s].present => gen'[s] = gen[s] + 1
      ]_<<effects, row>>

(* The callers' view: DbStore implements AtMostOnce. In particular a       *)
(* success is only ever the response of an applied request with the        *)
(* caller's own key and payload, even when it is delivered late.           *)
Abstract == INSTANCE AtMostOnce WITH
    Ids <- 1..MaxCalls,
    retained <- {k \in Keys : row[StoredKey[k]].present},
    applied <- {[key |-> e.key, print |-> e.print, id |-> e.id] : e \in effects},
    answered <- answers

ImplementsAtMostOnce == Abstract!Spec

(* Every request task ends: a claim blocked on another task's uncommitted  *)
(* key row, or on a pool filled by such claims, is released even when that *)
(* task was dropped in the middle of its transaction.                      *)
EveryCallEnds == \A p \in Procs : pc[p] # "idle" ~> pc[p] = "idle"
=============================================================================
