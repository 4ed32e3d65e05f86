# A TLA+ verification project for Based

Based compiles a schema language (BSL) to SQL, typed clients and migrations, and
runs the result: `based-runtime` is an engine, embedded or behind HTTP, that plans
a request, runs its SQL in a transaction, deduplicates retried mutations and
applies migrations. This directory holds TLA+ models of the parts of that code
whose correctness depends on the order in which things happen, the TLC runs that
check them on small instances, and TLAPS proofs about them for every instance.

Every definition is a translation of Rust under `src/`; `PROJECT.json` maps it to
the lines it stands for. Run from this directory:

    tlc -workers 2 -config MCKeyedMutation_safety.cfg MCKeyedMutation.tla
    tlapm KeyedMutation_proofs.tla
    tlapm OutOfBandMutation_proofs.tla
    tlapm SqlitePool_proofs.tla
    tlapm HostTransactions_proofs.tla
    tlapm Listener_proofs.tla
    tlapm Generation_proofs.tla
    tlapm LanguageServer_proofs.tla
    tlapm Migrate_proofs.tla

## 1. The system

Paths below are relative to `src/crates/`; `rt/` is `based-runtime/src/`, `cg/` is
`based-codegen/src/`.

| Component | State | Operations | Hard behaviour | Here |
|---|---|---|---|---|
| Keyed mutation with the durable store: `rt/run/mutation.rs`, `DbStore` in `rt/idempotency.rs` | table `_based_idempotency`, the mutation's own rows, a sweep clock | claim, replay, reject, writes, record, commit, deadlock re-run, sweep | concurrent retries, lost commit answers, dropped futures, a sweep between two statements | `KeyedMutation`, `AtMostOnce` |
| Out-of-band store: the begin/record bracket of `run_mutation`, `MemStore` | map key -> entry with expiry, next sweep | begin, record, abandon (`Claim::drop`), sweep | time to live against request duration, loss of the process, cancellation around COMMIT | `OutOfBandMutation` |
| Explicit transactions and guards: `rt/tx.rs`, `rt/embed.rs`, `rt/serve.rs`, `rt/guard.rs`, `rt/external_guard/`, the generated `transaction_retrying` | a slot shared by a handle and its transports, the connection's server-side state | begin, dispatch, guard, commit, rollback, drop, retry | clones of the slot that outlive the handle, ignored errors, lost commits, a guard that needs a second connection | `HostTransactions` |
| SQLite pool: `rt/sqlite_rusqlite/`, and the rebuild transaction `rt/migrate_foreign_keys.rs` | semaphore, stack of idle workers, per worker a job queue and a connection | acquire, timeout, spawn, submit, drop, COMMIT/ROLLBACK, foreign_keys OFF/ON | jobs that outlive their caller, panics, failed opens, a transaction inherited by the next checkout | `SqlitePool` |
| HTTP listener: `rt/http.rs`, row streaming `rt/sqlite_rusqlite/fetch.rs` | drain flag, notification, requests in flight, bounded row channels | serve, shutdown, `/readyz`, NDJSON streaming, disconnect | a shutdown that races its waiter, a balancer that has not yet noticed, streams that fail or are left midway | `Listener` |
| Migration runner: `rt/migrate.rs`, `migrate_resume.rs`, `migrate_progress.rs` | ledger `_based_migrations`, progress table, the database's schema and rows, the files on disk | apply in each `Direction`, its guards, segments and batches, ledger and progress writes | interruption at any step and resumption, DDL that commits implicitly, edited files, two appliers | `Migrate` |
| Schema migrations: `cg/migrate/` | two snapshots, a script, the database it runs on | diff, order of steps, SQLite rebuild, data steps, derived rollback | renames and drops in one script, three dialects' rules for DDL, the way back | `SchemaChange` |
| Artifact publication and catalog import: `based-artifacts/`, `based-cli/src/import/publish.rs`; `build.rs` and its cache: `based-build/` | files, ownership markers, a cache record | preflight, stage, recheck, rename, record | a user who edits the files meanwhile, one of several renames failing, a stale cache | `Generation` |
| LSP server: `based-lsp/src/main.rs`, `compile/build.rs` | overlays, snapshots, published URIs | open, change, save, close, refresh, publish | handlers that interleave at their publishes, nested projects, manifests that break | `LanguageServer` |
| Planning, execution, shaping: `rt/plan/`, `rt/run/`, `rt/cursor.rs`, `rt/value.rs` | none | request to SQL, rows to JSON | sequential | one step in the models |
| Shard routing and sqlx drivers: `rt/shard.rs`, `rt/driver.rs`, `rt/postgres.rs`, `rt/sqlite.rs` | pools (sqlx's) | checkout, begin, statement timeouts | inside sqlx and the servers | external |
| Compiler: manifest, parser, sema, other codegen, fmt, catalogs, CLI, LSP features | none between calls | text to text | sequential | not modelled |

How they interact. A listener or an embedding application calls `dispatch`; a
mutation runs its guard, then `run_mutation`, which asks the idempotency store,
checks a connection out of the backend, opens a transaction and commits it.
`DbStore` keeps its table in the same database and transaction; `MemStore` is
memory of the process and is consulted around the transaction. An application that
wants several calls in one transaction begins it itself and dispatches over a
transport; a guard inside such a call re-enters the engine on another connection.
`apply` checks out connections of the same backend, one per transaction, and runs
scripts that the migrate engine has derived from two snapshots. On SQLite with the
rusqlite driver every checkout is a worker thread of the pool, which streams rows to
the listener over a bounded channel; a migration that rebuilds a table brackets its
transaction with foreign_keys OFF and ON. The tools (`based gen`, `build.rs`, import,
the language server) share the source tree with its user.

The hazards, each at its line and with the properties meant to catch it, are in
`PROJECT.json` under `hazards`.

## 2. What is modelled

### KeyedMutation and AtMostOnce

A process of `Procs` is one request task of any server instance. Its `pc` follows
`run_mutation`, `apply` and `apply_once`: `Begin` (planning), `Checkout`,
`MaybeSweep`, `Insert` (the ignored `INSERT` of the key row, whose count tells
whether the claim is won), `SelectReplay`/`SelectReject` (a visible row with the
same or another fingerprint), `RunWrites`/`NotFound`, `Record`, `SendCommit`, and
the two ways a commit's answer comes back. `Deadlock` re-runs the attempt up to
`RetryLimit` times; `Fail` is any other statement error; `Cancel` drops the future
at any await, `COMMIT` in flight included; a process that dies is such a task.

`row[s]` and `claim[s]` are the committed row and the uncommitted one of a stored
key. The database is external and modelled by what the code relies on: a unique
index makes a second `INSERT` wait, a dropped transaction rolls back at some later
time, and a `COMMIT` whose caller is gone may still take effect. `StoredKey` is what
the key column stores: the key itself for TEXT, a prefix for MariaDB's
`VARCHAR(255)`.

`AtMostOnce` is what a caller may rely on, without transactions: a set of retained
keys, the requests applied, and the answers given. `KeyedMutation!Abstract` maps the
model to it and the map is both checked and proved.

### OutOfBandMutation

The same request path with `begin` before the transaction and `record` after its
commit. `entries` is `MemStore`'s map, `now` the monotonic clock, `nextSweep` the
amortised sweep. `BeginFresh`, `BeginReplay`, `BeginReject` are the outcomes of
`begin` (in flight and mismatch are one rejection), `Fail` and `Cancel` run the
`Claim` guard's `abandon`, `Crash` loses the map and the tasks. A commit whose task
goes away stays in `limbo` until the database settles it. `suspends` tells, from the
initial state on, whether the store's `record` awaits I/O: the trait allows it,
`MemStore` does not do it, and the guard is disarmed before the call.

### HostTransactions

A task is one `transaction_retrying` (or, in `Plain`, one mutation with its own
transaction) on a pool of connections; `task[t].slot` is what the shared slot of
`Transaction` and its transports holds, `task[t].held` what the boundary itself holds
while it begins, commits or rolls back, and `call[t]` the call that has the slot's
lock. `conn[c]` is what the server keeps: an open transaction, its writes, whether an
error has aborted it, its options and the ones a `SET TRANSACTION` left for the next.
`Start`, `Checkout`, `SetOptions`, `Begin` are `Engine::begin`; `CallStarts`,
`GuardDecides`, `GuardReenters`, `StatementRuns`, `StatementFails`, `NotFound` are one
dispatch; `ClosureReturns`, `Commits`, `CommitFails`, `CommitIsLost`, `RollsBack` the
boundary; `Drop` the host dropping the future at any await, `ClosureSpawns` and
`StrayEnds` a client that outlives its closure. `AfterError` is external: what each
server keeps of a transaction after a failed statement, all of it, none, or (Postgres) an
aborted one. A SQLite without disk or memory gives the whole transaction up (`full`), and
what follows on that connection is autocommitted; `Exhausted` are the tasks that may
meet it.

### SqlitePool

A worker is its thread's state, its queue of jobs and its connection (open
transaction, its writes, foreign_keys). A task acquires a permit (`TakeIdle`,
`Spawn`, `TimeOut`), then submits the operations of its program one at a time and
waits: a mutation (`RusqliteTx`), a rebuild (`ForeignKeysOff` over a plain
`RusqliteDb`, the table `AfterRebuild`), or an application's callback. `Cancel`
drops it at any await; its queued jobs stay. `Release` is the drop order of the code:
the rollback job of `RusqliteTx`, the worker to the stack if its flag says alive, the
permit. The threads run jobs in order (`JobBegin` ... `JobApp`), may panic in a
callback (then `unwinding`: answers are gone, the flag still says alive), and end
(`Exit`). Callbacks are assumed to leave the connection as they found it.

### Listener

`Shutdown` is `Handle::shutdown` in its three steps (flag, `notify_waiters`,
`notify_one`), `AwaitShutdown` the drain future that reads the flag and then waits,
`WindowEnds` and `StopAccepting` the drain window, `Readiness` the probe that reads the
flag first and the backend after. A load balancer acts on the last answer it got. A
request goes from `Arrives` over `Checkout` and `Submit` to `TakesItem`, `RowsEnd` or
`Fails`; its rows come from a worker thread (`SendsRow`, `QueryFails`, `QueryEnds`) over a
channel of `Buffer` items, and a client may leave at any time (`Disconnects`) while its
job stays queued. `WorkerPanics` is the thread dying with its jobs.

### Migrate

A migration is its number, a content hash is the version of its file, and a script
is the sequence of its units: DML, DDL or a chunked step of `Batches` batches.
`StartAny`/`Start` is one call of `apply`: ledger read, tamper guard, existence and
contiguity checks, the target of the `Direction`, the reversibility check. Then per
migration `Refuse` (the destructive gate, an edited script with saved progress),
`Begin`, and the statements of `run_in_tx` or `run_resumable`: `Statement`, `Batch`,
`MoveProgress`, `ClearProgress`, `WriteEntry`, `Commit`. `ImplicitCommit` is a
MariaDB DDL statement, which commits what precedes it and leaves the rest of the
transaction in autocommit. `CommitFails` and `Interrupt` cut a run short before or
after its commit took effect; `EntryRefused` is the ledger's primary key refusing
the second of two appliers; `Edit` changes a file, under the rules of section 5.
`StatementRefused` is a plain statement that a run without a ledger row has committed
before and that the database does not accept again: what `apply`'s comment
(`migrate.rs:432`) warns of on MariaDB.

`done` records the work committed for each migration and way, and `repeats` what was
committed twice: history variables, read by no guard of the code's actions.

### SchemaChange

A snapshot maps tables to columns, indexes and foreign keys, with the `@was` renames
that led to it. `DiffSnapshots`, `ConstraintSafe`, `Evolve`, `RollbackTarget` and
`SqlitePlan` are the functions of `cg/migrate` of those names, on structures instead of
SQL text. `Generate` writes a script between any two snapshots of `Schemas`, with a data
step at any place; `RunUnit` executes one statement of it on a database that keeps, for
each column, where its data came from; a statement that does not fit, or that the
dialect refuses (`Accepts`), rejects the script. A created or rebuilt table refers to
others inline: on Postgres and MySQL they must be there, SQLite looks for them when rows
are written. As tables are created in name order, one may refer to a table its script
creates later (`AheadOfTarget`); such a script is rejected on Postgres and MySQL, and
`StatementsFit` excepts exactly that and the drops of `schema_order`. `Rollback` runs the derived way back.
What databases accept is external.

### Generation

Processes of three kinds, each run a sequence of single file accesses: a generator
(`publish`: preflight every output, stage all, then recheck and rename one by one), a
build (`Discover`, `Fingerprint`, `Lookup`, check, publish, `Record`) and an import
(`persist_noclobber`). The user edits sources and takes over, deletes or links outputs
between any two of them, and a process may die. A file is who wrote it (nobody, the
tool from certain inputs, the user, not a regular file). `late` remembers the files
touched between a process's last look and its rename, the window no tool closes.

### LanguageServer

`Handle` is one notification up to its first await: update the overlays, recompile every
open project, compute what to publish and what to clear. `Publish` and `Clear` are the
awaits that follow, one at a time, so two handlers interleave there. `Owner` finds a
file's project by the nearest manifest, `Sources` what a project compiles. `shown` is
what the editor displays for a file: the project and the texts it was diagnosed from.
A manifest's `root` may name another directory: `manifests[d]` is the directory whose
files `Discover` finds, while `Owner` asks only for the nearest manifest, so a file may
be owned by a project that does not compile it (`OutsideRoot`). `polled` is the handler
between its recompilation and its first publish, which nothing comes between: it is sent
without waiting. `seen`, `alone` and `overlapped` are history, read by no action.

## 3. Runs

| Run | Instance | What it shows |
|---|---|---|
| `keyed_safety` | 2 tasks, 1 key, 2 payloads, 3 requests, 1 deadlock re-run, 1 sweep | at most one effect per retention of a key; a visible row has the response of its effect; `AtMostOnce` is implemented |
| `keyed_live` | 3 tasks on a pool of 2 | every request task ends although claims wait on each other and on connections |
| `oob_safety` | 2 tasks, 2 keys, 2 payloads, keyless requests, both kinds of store, TTL 2, clock to 4, 3 requests and process losses together | claims exclude each other, none is stranded, an answer matches its payload, only commits of unknown outcome repeat, expired entries do not accumulate |
| `host_transactions` | a retrying host transaction with a guard and a stray client beside a plain mutation, 2 connections, 3 dialects, 1 retry, 2 calls | pooled connections are clean, one attempt commits, an error leaves nothing, `Ok` means committed, mutations are whole, everything ends |
| `pool_safety` | 2 tasks, 3 checkouts, pool of 1, all programs, dropped, timed out, failing, panicking | one owner per connection, no inherited transaction, foreign_keys as opened, commits only when asked, every call returns |
| `listener` | 2 threads shut down, a stream and a call on one worker, 2 rows, a channel of 1, 1 dying worker | answers are framed and end once, no request is refused, serve returns, workers are freed |
| `migrate_safety` | 3 migrations, one chunked in both directions, one destructive, 2 interruptions, 1 edit, both kinds of DDL | ledger, progress and work agree after any mix of up, down and to; interrupted runs neither skip nor repeat; apply run again completes, but where interrupted MariaDB DDL stays without its ledger row |
| `migrate_concurrent` | 2 processes, 2 plain migrations, an `up.mig` edited in between, both kinds of DDL | no work is committed twice, recorded work is the work done, and whoever returns a report finds its target applied |
| `schema_change` | every change between 21 schemas of up to two tables and columns, every `@was`, 3 dialects, both orders | a script that ends reaches its snapshot, up and down; kept columns keep their data; loss is marked; statements and data steps meet the schema they were written for |
| `schema_order` (violated) | the same | a format 2 script drops an index or key where the dialect refuses |
| `generation` | a generator of 2 files, a build, an import, 2 runs, 2 edits, 1 take-over | user files are kept, reports are exact, the cache is truthful |
| `language_server` | a project, one nested in it, a loose file, 3 user events, 2 handlers | one owner publishes a file, answers fit the buffers, diagnostics settle and arrive |

Why these bounds. Two tasks on one key are the smallest conflict; the third request
retries after both. One deadlock and one re-run reach every branch of the loop. One
sweep separates two retentions, which is all a property compares. TTL 2 with a clock
to 4 lets an entry be live, expire and be claimed again, and spans two sweep
intervals. Three migrations make a prefix with something on each side of the
one that changes; two batches make "first", "between" and "last" differ; two
interruptions hit one run twice. In the pool one connection makes the three checkouts
follow each other on it in every order; the worker is the unit of interference, as
two connections share only the semaphore and the stack, whose accounting is proved
for any number (section 6). In `host_transactions` two connections let one transaction's
leftovers meet another's checkout, and let a guard find the pool exhausted; two calls
make "some succeeded" differ from "all". In `listener` two rows over a channel of one
let the worker block with a row in hand; two callers of shutdown interleave their three
steps around one waiter. Two runs of `generation` overlap in every pair of kinds, and a
second build meets the record of the first. Two tables and two columns are what a rename
needs to collide with a drop or an addition; two handlers are what an overlap needs.

Deadlock is checked in `host_transactions` and `listener`, whose final states stutter
explicitly; elsewhere request and failure budgets run out, and a system without
requests is idle.

### Disagreements met

`schema_order` is a finding: it checks a sentence of `step_order.rs` that the code does
not keep, and `PROJECT.json` quotes it. The others below are hazards with a note. Each
gives the constants under which TLC refutes the property, with the same module and
otherwise the constants of its run.

| Constants | Refuted | Shown |
|---|---|---|
| `StoredKey <- MCTruncatedKey` (`MCKeyedMutation`) | `CommittedRowHasResponse` | on MariaDB a key longer than its column leaves a visible row without response |
| `OpsWithinTtl = FALSE` | `AnswersMatchPayload` | a request slower than the TTL completes another payload's claim |
| (none: drop `~suspends`) | `NoStrandedClaim` | a store whose record suspends strands a claim when the request is cancelled there |
| `EditWays = {"down"}` | `LedgerMatchesWork` | an interrupted rollback resumes in an edited `down.mig` at a position of the old one |
| 2 processes, `Directions = {"up", "down"}` | `LedgerFollowsDirection` | an up and a down at once leave a hole in the ledger |
| `Given = TRUE` | `GivenConnectionKept` | a checkout dropped while its worker starts closes the caller's own connection |
| `Cancellable = Programs` | `NeverPooledWithOpenTx` | a rebuild whose task is dropped is pooled with its transaction open |
| `AutoRollback = {"WRITE", "REBUILD"}` | `PooledAsOpened` | a statement error that ends SQLite's transaction skips the restoration of foreign_keys |
| `Asks <- MCAsks` (`MCHostTransactions`) | `RunsAsAsked` | MariaDB's `SET TRANSACTION` before a dropped `BEGIN` reaches the connection's next transaction |
| `Ignored <- MCIgnoredOnPostgres` | `OkMeansCommitted` | a closure that ignores an error on Postgres is told `Ok` of a transaction that rolled back |
| (property `DoneIsAlwaysWhole`) | `DoneIsAlwaysWhole` | a stream whose worker thread dies ends with `done` |
| `EditsDuringBuild = TRUE` | `CacheIsTruthful` | a source edited while a build runs is recorded with the client of the old one |
| `Untracked = TRUE`, `Schemas <- UniqueSchemas` | `ReachesTarget`, `DownRestores` | changes the diff does not compare leave the database behind its snapshot |
| (property `DroppedIsCleared`) | `DroppedIsCleared` | a file the newer of two overlapping refreshes drops and clears stays shown with the older one's diagnostics, against `main.rs:71-72` |
| (drop `alone`) | `SettledIsExact`, `TypedIsDiagnosed` | of two overlapping refreshes the older diagnostics may stay shown |
| (drop `~overlapped`), `MaxEvents = 4` | `SettledIsExact` | a later refresh that runs alone does not clear them either |
| (drop `OutsideRoot`) | `AnswersFitBuffers`, `TypedIsDiagnosed` | a file its manifest's `root` leaves out has no answer and no diagnostics |
| (drop `NeedsInspection`) | `AppliedAgain` | DDL committed without a ledger row is refused by every later run |
| (drop `AheadOfTarget`) | `StatementsFit` | a table is created before the new table it refers to |
| `Exhausted = {h, p}` | `OneAttemptCommits` | after a full disk has ended SQLite's transaction a stray client's writes are kept beside the retry's |

## 4. Fairness

Safety runs assume none. `keyed_live` assumes that tasks are polled, that an error the
database hands out is handled, and that a transaction sent to commit or dropped ends:
tokio and the database do that. It assumes nothing of callers, cancellations, errors,
the sweep or lock timeouts. `pool_safety` assumes that ready tasks and their timers
are polled and that threads run. `host_transactions` assumes weak fairness of each
task's own next step and of its call: the closure returns, statements are answered and
a checkout ends with a connection or the pool's timeout; a stray client may live for
ever. `listener` assumes that ready futures are polled, workers run, the balancer keeps
probing, and a client reads or goes away: the listener has no drain deadline of its own,
so without the last a stream would hold it. `language_server` assumes that the serve
loop polls every handler; nothing is assumed of the user.
`migrate_safety` uses `Retried`: a run that can take a step
takes one (weak fairness of `Advance`), and `apply` up is called with every file at
hand and destructive steps acknowledged whenever that is possible again and again
(strong fairness of that one `Start`), while failures and edits are bounded. Without a
caller nothing is applied, so this is the claim "apply run again completes".

## 5. Assumptions on the environment

* Databases run transactions atomically and keep what they committed. Isolation
  anomalies between application rows are not modelled.
* `OpsWithinTtl`: a request is shorter than its key's TTL, as `MemStore`'s docs ask.
* A migration script is edited to another version with the same kind (chunked or
  plain); a file with a ledger row is edited too, and then refused by the guard.
* Two appliers run plain migrations only. Two processes that resume one chunked run
  are not modelled: what stops them is each database's locking of the progress row.
* A closure ignores only errors after which its server keeps the transaction
  (`Ignored`), and gives clients away only on SQLite (`Straying`) and where that finds disk
  and memory (`Exhausted`).
* A manifest may change between any two refreshes, not during one.
* A load balancer sends nothing after it has seen `/readyz` fail, and probes within
  the drain window.
* Sources are not edited while a build runs; `Untracked` schema changes are excluded.
* One shard. Keys, payloads and responses are compared for equality only.

## 6. Proofs

TLAPS checks the theorems below for every value of the constants, from the one named
`ASSUME` of each module: finitely many tasks where a theorem counts them, bounds that
are naturals, disjoint kinds of tasks, files and requests. A bound that only keeps TLC
finite (`MaxCalls`, `MaxTime`, `MaxFailures`, ...) is an arbitrary natural here.
Every safety invariant and every safety action property that a run checks is a
theorem, except those of `SchemaChange` (section 7).

A theorem that is false without a condition states it as a hypothesis of its own, by a
name. Each holds in the run that checks the property; where section 3 lists what TLC
shows without it, it is needed:

| Hypothesis | Says | Why |
|---|---|---|
| `KeysStoredWhole` | a key column stores keys whole | false on MariaDB for long keys, `MCTruncatedKey` |
| `OpsWithinTtl` | a request is shorter than the TTL | asked for by `MemStore`'s docs |
| `KeepsToUndone` | a closure goes on after an error only where the server has undone the statement alone (on SQLite not a full disk), and only SQLite clients of a task that is not `Exhausted` outlive a closure | what a host must keep to; `MCIgnoredOnPostgres`, `Exhausted` |
| `RebuildsRun` | a rebuild is not dropped half way | it runs in the migration command, which drops nothing; `Cancellable = Programs` |
| `Sure` | a failed statement of a rebuild leaves its transaction open | SQLite may end it (disk full, I/O); `AutoRollback` |
| `SourcesStand` | no source changes under a running build | `generate` reads the sources twice; `EditsDuringBuild` |
| `OneApplies` | one process applies at a time | `apply` reads the ledger and locks nothing |
| `DownsStand` | a `down.mig` is not edited | its text is not covered by the stored hash; `EditWays` |
| `KindsStand` | an edit leaves a script chunked, or plain | `run_migration` (`migrate.rs:561`) looks at saved progress only for a script with a chunk |
| `PlainUps`, `NobodyRollsBack` | concurrent appliers run plain migrations up | section 5 |

`KeyedMutation_proofs` proves, for any number of tasks, keys, payloads and re-runs:

* `TypeCorrect`: the type invariant, the bound on attempts included.
* `DeduplicatesWhileRetained`: at most one request's writes commit under a key
  between two sweeps.
* `VisibleRowReplays`: a visible key row carries a response. It assumes
  `KeysStoredWhole` (the column stores keys whole), without which it is false (see
  `MCTruncatedKey` above).
* `CommitIsAtomic`: key row and writes become visible in one step.
* `DbStoreDeduplicates`: the model implements `AtMostOnce`, again if keys are stored
  whole; initial states map to initial states, every step to a step or a stutter.

None of these is inductive. `OneEffectPerRetention` speaks of committed rows only, and
a step that commits says nothing of the claim it commits. `IndInv` adds what ties the
two together: `ClaimsSound` (an uncommitted row excludes a committed one and holds the
response of its own request once it is sent), `TasksOwnClaims` (a task between its
`INSERT` and the end of its `COMMIT` owns exactly the claim of its own key, and nobody
owns another), `EffectsRetained` (effects belong to past retentions or to the
committed row), and `CallsNumbered` (requests are distinct). The refinement also needs
`AcksApplied`: an answered success is that of an applied request.

`NobodyWaitsInACircle` is about waiting. A request holds a connection while its `INSERT`
waits for the key row of another, and the other may wait for a connection; so retries
of one key can fill the pool. The theorem says that while any request is alive some
task can take its next step, or the server has a transaction to end. It follows from
`TasksOwnClaims`: an uncommitted row is that of a task past its `INSERT`, which waits
for nobody, of a `COMMIT` the server has, or of a dropped task, whose rollback is the
server's; and when the pool is full, whoever holds a connection is one of these or
waits for one.

`OutOfBandMutation_proofs` proves every property of its run, for any number of tasks,
keys and payloads, any TTL, any number of crashes and both kinds of store:

* `TypeCorrect`, `ClaimsAreReleased` (`NoStrandedClaim`) and `SweepBoundsEntries`
  (`SweptInTime`) hold however long requests take.
* `ClaimsExclude` (`OneRunPerKey`), `AnswersAreTruthful` (`AnswersMatchPayload`) and
  `OnlyUnknownCommitsRepeat` (`RepeatsAreUnknownCommits`) assume `OpsWithinTtl`.

`ClaimsOwned` is the invariant behind the second group: a running keyed request owns
the entry of its key, which is in flight, has its fingerprint and expires a TTL after
it began, hence later than now. So `begin` finds it live, no other request runs, and
whoever abandons or records touches only its own entry. `RepeatInv` then splits every
commit in three: its outcome is unknown; its task is about to answer; or an answer
guards it (`Guards`), that is, the recorded entry lasts a TTL from the answer or that
time has passed, and whatever has begun later under its key began after that. The
second case needs `Newest`: a running request is the latest of its key in this process
life. `SweepAhead` ties the sweep clock to the oldest entry.

`SqlitePool_proofs` proves every safety property of its run, for any number of tasks,
connections and calls. `PoolBounded`: with every panic, cancellation and failed open,
free permits and checkouts add up to `max_connections`, idle and checked-out workers
together do not exceed it, and no worker is pooled twice, checked out twice, or both.
`PoolInv` strengthens it by what makes a new worker new: calls are numbered apart
(`Numbered`) and no worker in use has the number of a call that still waits for one
(`FreshNames`). The other theorems are about what is *in* a connection, whose state
lags behind its holder: the thread runs a job long after it was queued, often for a
call that is gone. So `JobInv` speaks of the whole queue:

* `JobsKeepApart` (`JobsMeetNoForeignTx`): jobs lie call by call and the last job of a
  call that has left ends its transaction (`CallByCall`), so that an open transaction
  is always that of the first job's call (`TxIsNext`).
* `CommitIsDecisive` (`CommitDecides`): a task waits for the job it has queued last
  (`JobsAwaited`), and a write in the queue meets its own transaction (`WritesInTx`).
* `PoolIsClean` and `PoolIsAsOpened` (`NeverPooledWithOpenTx`, `PooledAsOpened`):
  `Knows` lists, for each answer the holder has, whether the transaction is open and
  what foreign_keys is. `PoolIsAsOpened` is the one that needs `Sure`.
* `NoCallIsStranded` assumes nothing, not even `RebuildsRun`. A call that waits for its
  worker to start has a thread that was started; one that waits for an answer has it,
  or has its job in the inbox of a thread that runs (`Attended`) or that is unwinding
  and will drop the inbox. A panic passes through here: its own waiter is answered
  first, those queued behind it only when the thread is gone.

`HostTransactions_proofs` proves `TypeCorrect` and the four safety properties of its
run, for any tasks, connections, dialects, retries and calls:

* `PoolIsClean` (`PooledHasNoTransaction`) assumes nothing of closures. `ConnInv` says
  that no two tasks use one connection, nor a guard its transaction's (`Disjoint`), and
  that an open transaction or a write lies in the connection of the slot, or of the
  boundary while it commits or rolls back (`DirtyIsHeld`).
* `AttemptsAreAtomic` (`OneAttemptCommits`), `OkIsTrue` (`OkMeansCommitted`) and
  `MutationsAreWhole` (`MutationIsWhole`) assume `KeepsToUndone`. `TxInv` relates what a
  task has been told to what the server has: an open transaction holds writes of the
  present attempt only, both of every call answered 200 (`Faithful`), and what is
  committed is of one attempt (`Truthful`).
* `OptionsAreTheOpeners`: where `dialect` is not MariaDB an open transaction has the
  options its opener asked for (`RunsAsAsked`), any connection, drop or lost answer
  before it notwithstanding. On MariaDB it is false (`MCAsks` above), so the theorem and
  the refutation together place the fault in the statement of its own.
* `NoTransactionHangs`: every transaction and call under way has the connection, slot
  or lock its next step needs (`GoesOn`, `CallGoesOn`); a boundary waits for a lock only
  while the call that holds it goes on, and that call at most for the checkout's timeout.

`Listener_proofs` proves both safety properties of its run and two more, without a hypothesis.
`RolloutRefusesNobody` (`NothingRefused`) rests on `Rollout`: the drain future is past
its window only after the balancer has seen a probe fail. `BodiesAreFramed`
(`AnswerIsFramed`) rests on the count that a row is never lost between worker, channel
and client: lines written and items in the channel add up to the worker's position in
the query (`Progress`), and once its job is gone to all rows, an error, or a thread that
died (`Rest`); `OneJob` keeps a second job of the same request from adding to them.
`NoWakeupIsLost` is about `Handle::shutdown`, which stores the flag and then notifies
twice, against the drain future, which loads the flag and then waits: from any number of
threads, a future that waits beside a set flag has a stored permit or a wakeup to come
(`Wakeups`). `ServeReturnsWhenAllAreOver` says that once serve has returned no request
is in flight and none gets in.

`Generation_proofs` proves every property of its run, for any processes and outputs:
`ReportsAreExact` (`ReportIsExact`) and the action property `UserFilesAreKept`
(`UserFilesKept`) from `PublishInv` (nothing is replaced before everything is staged; a
file about to be renamed over is not the user's, or was touched in the window `late`
records), and `CacheTellsTheTruth` (`CacheIsTruthful`) from `BuildInv`: where sources
stand still, each thing a build has read is what is there, and the client it has
accepted, written or found is the one they make (`Fresh`).

`LanguageServer_proofs` proves the three safety properties of its run, for any nesting
of projects, any number of handlers and files: `FilesArePublishedOnce`
(`PublishedOnce`), `AnswersComeFromBuffers` (`AnswersFitBuffers`) and
`EditorShowsTheSnapshots` (`SettledIsExact`). An open file on disk has an answer unless the
`root` of the manifest that owns it leaves it out (`OutsideRoot`), the one condition of
`AnswersFitBuffers`. `Inv` carries what is in flight:
the last notification about a buffer tells what the editor holds (`InboxTells`),
snapshots hold the buffers as they are except for a save still to be handled
(`SnapshotsFit`), and a file shows its newest diagnostics or has them among the
publishes to come (`ShownFits`).

`Migrate_proofs` proves the safety properties of both its runs, for any sequence of
migrations, any scripts, numbers of batches, edits of `up.mig` and interruptions:

* `LedgerIsReconciled` (`LedgerFollowsDirection`) and `WorkIsAtTheFrontier`
  (`WorkAtFrontier`) assume `OneApplies` and `DownsStand`. Their invariant `PlanInv`
  says that the ledger is `1..k`, that what a run has still to do is the rest of its
  plan from there (`Planned`), and where in its script a run is (`Running`).
* `LedgerTellsTheWork` (`LedgerMatchesWork`) and `ResumedRunsAreExact`
  (`ProgressIsExact`) assume `KindsStand` as well.
  `WorkInv` adds, for each migration, that committed work is what its ledger row or its
  progress row says (`DoneFits`), and for a run, that committed work and the work in its
  transaction together are exactly what precedes its position (`RunHolds`). Where DDL
  commits implicitly "exactly" becomes "at least" (`Holds`), as work may be repeated there.
  Before it was proved, TLC checked it on 372 675 states.
* `ManyAppliersAgree` (`AppliersAgree`) is about any number of processes that apply plain
  migrations at once, with either kind of DDL: nothing is repeated (where DDL rolls
  back), the ledger has no hole, recorded work is the work done, and a process that
  returns a report finds its target applied. `TogetherInv` follows each process
  (`AppliesFits`): its target is in the ledger or still ahead in its plan, whatever the
  ledger has gained since it was read (`StillPlanned`); below the migration it runs all
  is applied, and what is behind its position is done or in its transaction
  (`PlainRunHolds`). That nothing runs twice needs `ApplyInv`: all work of a migration
  has its ledger row, and no two processes hold the uncommitted row of one migration.

Most proofs have one lemma per action, stated before the theorem that combines them. In
four modules definitions were put so that the provers can follow, with no change of what they say:
steps that set several fields of a record set the whole record, or name it
(`Listener`'s `Leaves`; `Generation`'s `Becomes`, `Finished`, `Published`);
`LanguageServer`'s `Owner` takes the least of `Marked`; and `Migrate`'s `Begin`
removes the migration from both lists of its plan, in one of which it is.

## 7. What only TLC checks, and what is not modelled

Liveness (`EveryCallEnds`, `EveryCallReturns`, `EveryTransactionEnds`, `ShutdownReturns`,
`WorkerIsFreed`, `AppliedAgain`, `TypedIsDiagnosed`) is out of the prover's reach: it
needs fairness and `ENABLED`. Its safe part is proved for four of them: that whoever
waits has somebody to wait for (`NobodyWaitsInACircle`, `NoCallIsStranded`,
`NoTransactionHangs`, `NoWakeupIsLost`). What is left to TLC is that the steps they
name are taken and that there are finitely many.
The properties of `SchemaChange` (`ReachesTarget`, `DataKept`, `LossIsMarked`,
`StatementsFit`) stay with TLC: each is about the result of running the statements of a script one after
another on a database, so a proof would be an induction over the script and
the diff that made it, which the provers cannot do; the run enumerates every pair of its
schemas instead.
`TypeOK` of a module without a `TypeCorrect` theorem states its types for the
reader and can be added to its run's invariants; its proof module has the types as a part of
its inductive invariant.

Not modelled, and why. Most of the repository is a compiler: parser, semantic analysis,
SQL and client generation, formatter, catalog import and the editor features are
sequential functions from trees to text. They keep no state between calls and run no two
things at once; a TLA+ rendering would transcribe them, and TLC could enumerate none of
their inputs that matter, so unit and golden tests (which the repository has) serve them
better. The part of code generation whose correctness is about order, the migrate
engine, is modelled. Statement planning, row shaping, cursors and value conversion are
pure as well. sqlx's pools and the servers are external and appear as what the code
relies on. Within modelled components: moves of a table between `@schema`s, scopes, raw lines and the
inverse of data steps in `SchemaChange`; value binding in `SqlitePool`; embedded
artifacts in `Generation`; two appliers of one chunked run in `Migrate`.

## 8. Plan

1. Two appliers of one chunked migration, with the database's row locks as a
   parameter, and `ManyAppliersAgree` for it.
2. `OutOfBandMutation` as an implementation of `AtMostOnce` with unknown commits.
3. The inverse of data steps (`invert.rs`) in `SchemaChange`.
4. Shard routing over `KeyedMutation`: one key always claims on one shard.
