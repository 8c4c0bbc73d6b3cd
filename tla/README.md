# Verification of the Aurora DSQL migration toolkit

The toolkit moves a MySQL or PostgreSQL database to Aurora DSQL. It converts and applies the
schema, copies the data (Full Load), keeps the target up to date from the source's change log
(CDC: Debezium on Kafka Connect and this repository's own DSQL sink connector) and lets the
operator cut over. The modules here model the parts of it where a wrong order of steps, a crash
or a lost answer would lose or duplicate data without anyone noticing. Paths below are relative
to the root of the repository (`src/` is the repository; the Python package is
`src/src/dsql_migrator`, the sink is `src/connectors/dsql-sink`).

Status: the CDC sink (batching, holds, transactions), the job manager, the load of one table, the
overlay ledger, the hand-off from load to CDC on a PostgreSQL source, the dead-letter gate on cut over and
the reading of the dead-letter log, on whose promise the gate rests, are modelled, checked and, in their
central invariants, proved. The engine's shards, the offset seeding of a MySQL source and the other
cut-over gates are planned (section 3).

## 1. Inventory

### Components

| Component | Source | State it keeps | Operations |
|---|---|---|---|
| Sink task | `DsqlSinkTask.java` | holds per partition, commit caps of released holds, paused partitions, offsets already dead-lettered, "a put has not returned" | `put`, `preCommit`, `open`, `close`, `flush`, `stop` |
| Sink batching | `Batches.java`, `ChangeEvent.java`, part of `DsqlSinkTask.java` | none | partition, move groups, same-SQL runs, collapse to one image per key |
| Sink transactions and connection | `DsqlSinkTask.java`, `OccRetry.java` | the cached JDBC connection and the session behind it | connect, execute, commit, roll back, retry, give the batch back to Connect |
| Record parsing and values | `DebeziumEvents.java`, `DebeziumTypeConverter.java`, `ValueFit.java` | a 60 s cache of column types | parse, convert, refuse |
| Sink configuration, tokens, index cache | `DsqlSinkConnectorConfig.java`, `DsqlIamTokenProvider.java`, `SourceKeyIndex.java`, ... | a cached IAM token, a 60 s cache of an index lookup | sign, look up |
| Job manager and job store | `core/job_manager.py`, `core/job_store.py` | jobs in memory, the stop flags, snapshots in S3 (or SQLite, or memory) | submit, update, heartbeat, stop, reap, end, restore, prune |
| Full Load importer | `core/batched_import.py`, `core/occ.py` | the contiguous resume point, the pool of connections | read ahead, write batches out of order, retry, quarantine |
| Full Load engine | `ui/data_migration/_full_load_engine.py`, `_index_builds.py`, `_fk_validation.py` | chunks of a job, shards, deferred indexes | load tables and shards in worker processes, retry, stop, verdict |
| Exporter and watermark | `core/exporter*.py`, `core/watermark.py` | the snapshot and its change-log coordinate | capture, read |
| Overlay ledger | `core/overlay_ledger.py`, `_cdc_overlay.py`, `ui/cutover_defaults.py` | one JSON object per target: the DEFAULTs dropped for excluded columns, the set the rows were written under | read, plan, merge, restore |
| CDC start and hand-off | `core/cdc*.py`, `core/mysql_start_point_fence.py`, `deploy/cdc-stack/lambda/seeder.py` | replication slot, topics, seeded offsets | create, seed, start |
| CDC deployment | `core/cdc_deployer.py`, `core/msk_connect_controller.py`, ... | CloudFormation stack, connectors | deploy, stop, scale, delete |
| CDC monitoring | `core/cdc_dlq.py`, `core/msk_connect_controller.py`, `_cdc_status.py`, `_cdc_monitoring.py`, ... | the position in the dead-letter log and its continuation, a ledger of dead letters per table, the outcome of the last read | poll, check, land, restore |
| Cut-over gates | `ui/cdc_*_gate.py`, `ui/validation.py`, `ui/cutover_defaults.py` | the validation report with the times of its comparisons, waivers, an accepted gap | validate, re-check, waive, accept, offer cut over |
| Session state, start over | `core/session_state_store.py`, `ui/start_over.py`, ... | persisted sessions | save, restore, tear down |
| Schema application | `core/schema_applier.py`, `core/target_connection.py` | none | one DDL per transaction, with retries; recreate, overlay, restore of a DEFAULT |
| Conversion, assessment, introspection, validation | `core/converter*.py`, `core/introspector.py`, `core/validator*.py`, ... | none | text and catalog to text |
| Web UI and assistant | `ui/` | page state | renders and calls the above |
| Configuration, secrets, logs | `config.py`, `core/secrets.py`, `core/*_log.py` | settings, append-only logs | load, append |

### How they interact

* Operator -> Web UI -> `JobManager.submit`: Full Load runs as the work of a job, in one thread
  per job, which starts worker processes. The work reports through a `JobHandle` (chunk updates,
  heartbeats), every change is written through to the job store, a watchdog thread polls for
  silent jobs, and a restarted application restores the jobs from the store.
* Exporter -> importer -> engine: a consistent snapshot is read in batches, which a pool writes
  and retries. Its watermark is handed to the CDC start, which seeds the connector's offsets.
* Debezium -> Kafka -> Connect worker -> sink task: the worker calls `put` with what the consumer
  polled, redelivers the same batch when `put` throws a `RetriableException`, asks `preCommit`
  what to commit, and applies `context.offset` (rewind) and `context.pause` before its next poll.
  A record that cannot be applied goes to the dead-letter queue.
* Sink task -> Aurora DSQL: one transaction per chunk, per row when a chunk fails, per catalog
  read; conflicts are reported at COMMIT (40001).
* Sink task -> worker log -> CloudWatch -> monitor's poll and cut-over check -> dead-letter ledger of
  the session -> validation (which tables need a CHECKSUM) and dead-letter gate. Poll and check read on
  worker threads through one controller, and land on the event loop.
* Drift reports and the overlay ledger -> the other cut-over gates.

### What is hard, and what makes each part correct

* *Sink task.* A batch is not atomic: rows of it may have landed when Aurora DSQL fails, the worker
  dies or a rebalance takes the partition. A change refused by a secondary unique index waits on
  its partition for the change that frees the value, on this partition or another; the offset
  must not pass it, its tail must not be written before it, and nothing may wait for ever.
  Correct means: no commit passes a change nobody has dealt with, no row goes back behind what was
  committed, every hold ends, replication catches up.
* *Batching.* Reordering and collapsing must not change what the changes do one by one.
* *Transactions.* A session can die at any point, `isValid` passes on a half-open socket and in an
  aborted transaction, a COMMIT can succeed unanswered, an error's SQLSTATE decides between
  "again" and "dead letter". Correct means: no healthy row is dead-lettered, a commit carries its
  own attempt only, no row is left out, no poison row is retried for ever.
* *Job manager.* Threads that hang, a watchdog that fails a job whose thread comes back, stops that
  race the end, writes to S3 that are coalesced, lost, or landed without an answer, and a restart
  at any point. Correct means: nothing incomplete looks done, nobody's job stays "running", a
  recorded outcome stays, a restart repeats work at most.
* *Importer.* Readers, a queue, a pool whose batches end out of order, lost answers, rows the target
  refuses, a snapshot that is fresh on a re-read, a stream beside the load. Correct means: a table that
  says DONE has every row of the snapshot it read last in the target or in its report; a resume
  point passes nothing unsettled; the load returns.
* *Overlay ledger.* A column excluded from the migration loses its DEFAULT on the target so that its
  rows hold NULL; the record is what allows cut over to put it back. Loads, starts of CDC and restores
  follow each other under changing sets of columns and die between two statements. Correct means: no
  dropped DEFAULT goes unrecorded, rows written under different sets are never mixed by a load, and
  the stream never meets a DEFAULT.
* *CDC start.* Publication, slot, copies and connector are created by different jobs, which fail and
  are repeated, beside source transactions that stay open across all of it; two migrations may use the
  same names. Correct means: no committed change of a captured table is in neither the copy nor the stream.
* *Dead-letter log.* Lines are shown late and out of order; a read stops at a page cap, fails, or is
  detached from a page that went away; two readers share a position and land in any order; a snapshot
  holds position and ledger of different moments. Correct means: no line is skipped or counted twice, and a
  read that says "complete" has every line counted that was there when it began.
* *Dead-letter gate.* It judges by comparing times: of comparisons on one clock and dead letters on
  another, of reads and of reports that are merged, restored or replaced in between. Correct means: cut over
  is not offered while a row is stale for a dead letter the operator does not know of.

`PROJECT.json` lists each hazard at its line with the properties that would catch it.

## 2. Modules

| Module | What it is |
|---|---|
| `SinkBatching` | pure operators: `Batches.partition`, `withMoveDeletes`, `dedupeRunByPk`, `renderSql`, and one statement of Aurora DSQL under a primary key and a unique index |
| `SinkBatchingCheck`, `MCSinkBatching` | a state machine that grows a chunk one change at a time and compares batched with one-by-one |
| `DsqlSinkTask` (EXTENDS `SinkBatching`) | the task and the Connect worker around it |
| `MCDsqlSinkTask` | source histories: five chosen ones, and all legal ones of two changes |
| `DsqlSinkTaskProofs` | what `Kept`, `Partition` and `DedupedRuns` return, for every input; the invariants on offsets, on what is settled and on what was reported, and their consequences |
| `PutOutcome` | abstract: what the transactions of one put promise |
| `SinkTransaction`, `MCSinkTransaction` | detailed: the transactions of one put on the cached connection |
| `SinkTransactionProofs` | the session invariant and the refinement of `PutOutcome` |
| `JobManager`, `MCJobManager` | jobs, their threads, the watchdog, S3, restarts |
| `JobManagerProofs` | the inductive invariant and its consequences |
| `TableLoad` | abstract: what the load of a table promises |
| `BatchedImport`, `MCBatchedImport` | detailed: the load of one table, or shard, with its readers, queue, pool and re-reads |
| `BatchedImportProofs` | the load invariant, the resume point and the refinement of `TableLoad` |
| `OverlayLedger`, `MCOverlayLedger` | the excluded columns of a target, their record, and the jobs that read and merge it |
| `OverlayLedgerProofs` | the inductive invariant and its consequences |
| `PgHandoff`, `MCPgHandoff` | publication, slot, copies and Start CDC of the migrations of one PostgreSQL source |
| `PgHandoffProofs` | the inductive invariant, where a stream begins, and that no change falls between |
| `SinkLog` | dead letters, the log that shows them, the clock; the ledger's arithmetic |
| `DeadLetterLedger` | abstract: what the reading of the log promises to the gate |
| `DeadLetterLog`, `MCDeadLetterLog` | detailed: position, continuations, polls and checks, snapshot and restart |
| `DeadLetterLogProofs` | the inductive invariant of the reading, what the session keeps of the lines, and the refinement of `DeadLetterLedger` |
| `CutoverGate`, `MCCutoverGate` (over `DeadLetterLedger`) | validations, re-checks, waivers and the gate |
| `CutoverGateProofs` | the inductive invariant of the gate, and that it is right to open |

Every definition that stands for code is in the `map` of `PROJECT.json` with its lines;
definitions marked external stand for Kafka Connect, pgjdbc, Aurora DSQL or S3 and are modelled
from how the code uses them. Definitions marked by a comment "Mutant of" or "mutant:" are plausible wrong versions
of the definition beside them; no specification uses them.

### DsqlSinkTask

One task, several partitions, each a log of changes from a *source history* (initial rows and a
log per partition). `target` holds the rows, `position`, `current`, `committed`, `rewind`,
`paused` and `batch` the worker's side, `hold`, `releasedCaps`, `pausedByHold`, `refusedAhead`,
`redelivering` the fields of the task, and `pc`, `putBatch`, `putRefused`, `todo`, `rows`,
`untried` the put in progress, which takes one step per chunk or row so that failures fall in
between. `fate` and `reports` are history variables.

A poll applies the pending rewinds, fetches and delivers; the put parses and refuses (`read`),
applies chunks and falls back to single rows (`apply`), tries due holds (`resolve`) and returns,
which releases the ended holds; a transient failure anywhere throws and the same batch is
delivered again. Commits, ticks of the clock, rebalances and restarts interleave with all of it.

Abstractions, each a superset of the code's behaviours unless said otherwise:

* columns are one unique column `u` and one other `d`; a table has a source-keyed (re-keyed) part
  and a plain part; a refusal is an `op` of its own (`poison`, `unfit`, `reject`);
* due holds are tried in any order (the code: order of creation);
* the clock is ticks: a hold is due or not and has an age; the doubling of its wait is lost;
* one task: a rebalance takes a partition and gives it back to the same task;
* source-keyed tombstones are skipped, as the code does; the drift cool-down, which only decides
  between the batched and the single-row path, is left out;
* a move deletes the row of its old composite key, as the code does while the target has no valid unique
  index on the source key; the delete by source key it goes over to then (`SourceKeyIndex`, `moveDelete`
  with `moveBySourceKey`) is left out: not a superset;
* a held change tried again can be rejected again only by the unique index;
* the dead-letter produce is not awaited by the code, and is taken to succeed (see Hazards);
* the branch of `put` that meets a commit cap while it redelivers is left out: it is unreachable,
  which `NoCapAcrossRedelivery` says and the proof shows.

### SinkTransaction

The transactions of one put: `units` still to run (chunks, single rows, catalog reads), the
current `unit`, the statements `done` in this attempt, `attempt`, the error caught, the cached
connection with the session's own transaction (`txn`, `sent`), and what has `landed` and was
`rejected`. `Reuse`/`Open`/`OpenFails` are `connection()`, `Execute`/`RowFails`/`StatementFails`/
`DescribeFails` the statements, `Commit*` the COMMIT with its three bad ends, `BeforeRetry` the
step of OccRetry between attempts, `Throw`, `Judge` and `Isolate` the callers' catch blocks,
`Redeliver` Connect. The environment may end the session at any point, known to the driver or not.
Errors are classes of SQLSTATE (`Errors`), because the code tells no more apart. Rows run in any order
(their order is `DsqlSinkTask`'s part); a rejected row is handed on, whether it is then held or
dead-lettered.

Left out: the age of a cached token, an interrupted back-off, a describe that fails for a
driver limitation (the code falls back to plain binding), metrics and logs.

`PutOutcome` says what the rest of the task relies on: rows land or are rejected, only rows that
Aurora DSQL refuses are rejected, and a batch that is over has nothing left. `KeepsPromise` is
`PutOutcome`'s specification under `over <- step = "returned"`.

`SinkTransaction` and `DsqlSinkTask` are views of one put at two levels. They meet where
`DsqlSinkTask` takes a chunk or row to land whole, to fail transiently (with or without having
landed) or to be rejected; `SinkTransaction` shows that connection, retry and rollback offer no
other outcome. The composition is by this argument, not by a module.

### JobManager

`record` is the in-memory job (status, reason, chunk per table), `stored` its snapshot in S3, `sig`
the signature of the last write, `worker` where the thread stands, `own` the work's account of its
tables, `cancel` the stop flags, `quiet` the jobs the watchdog sees as silent, `loaded` what is on
the target. Every change of a record persists (`Change`, `Update`): a write is skipped when the
signature is the same, and may be lost or landed without an answer. The thread's end is three steps,
as in the code: the work returns or raises, the flag is read, the outcome recorded.

Abstractions: error counts, progress, row counts and index builds are left out; a snapshot is its
status, its reason and its chunks; whether the 15-second throttle lets a write through is
nondeterministic; `thread.start()` succeeds; a job failed by the watchdog keeps a thread that may
come back; a retry has the selection it was submitted with; a table dropped and recreated under an
abandoned worker is left to the load path. The SQLite and in-memory stores are the case in which no
write fails. `Restart` is the crash together with `restore` and `prune_terminal`, as start-up runs
them before it serves anything.

### BatchedImport

One load of a table or shard, from its first read to the engine's verdict. The snapshot is cut into
*works* (a work is a batch of a key range, what `_iter_work` yields); reader threads read them in the
order of their range, skip those below the resume point and queue the rest (`Read`, `Skips`,
`StreamEnds`), the loading thread submits them to the pool and takes their results in the order they
end (`Pull`, `Drain`), and a batch on the pool is a set of parts: it inserts, retries a transient
error, finds the keys that exist, halves what the target refuses down to one row and reports it
(`Insert`, `Duplicate`, `Collide`, `SelectExisting`, `Reject`, `Isolate`, `Capped`, `GiveUp`). A failure
of the source ends the reading; the engine reads again, on the same snapshot or on a new one, appending
or recreating the table (`Raise`, `Reread`, `Resume`, `Carried`). The operator may stop the load and the
sink may write beside it (`Cancel`, `SinkInserts`).

`TableLoad` is its promise: rows are settled one after another, a re-read may start from a new
snapshot, and DONE is said only when every row is in the target or in the report. `IsTableLoad` is
`TableLoad`'s specification under the mapping in `BatchedImport`.

Abstractions: a row is its key, a part is refused when it holds a poison row; timings, batch sizes in
bytes, counters, progress and the leases of the connection pool are left out, and so is the index pass
that follows the rows; of a stream beside the load only its inserts are modelled, not its deletes;
the `COUNT(*)` the replace path ends with is left out.

### OverlayLedger

Two groups of state: the target (`exists`, `default`, the `kinds` of rows by the columns they hold NULL
in, and the `ledger` object), which outlives everything, and one session (`excluded`, whether it `uses`
the ledger, how far `cdc` is) with its job. A Full Load or Start CDC goes through each table's places in
order: `read` (the one read of the ledger), `drop` and `create` (`recreate_table`, two statements),
`facts` (the catalog, and the verdict on an append), `record` (the merge, each attempt a step that may
fail after its write landed), `alter` (a step per column, refused when the DEFAULT is not the recorded
one), `load`. A restore goes from `read` to `unit`, one item a step, and ends with its merge. Every job
may fail or die at each step; `ChangeExclusions`, `StartOver`, `Attest`, `EndCdc` are the operator's.
`FindRecords` is the Start dialog or the cut-over screen, which mark the session when they find a record.
`dropped` and `unread` are history variables: the DEFAULTs the overlay dropped and nobody has set since, and
the tables that a load or a stream wrote to, since they were last dropped, although it held another record of
them than the ledger's.

`cdc` is `none` until Start CDC has created the connectors, `streaming`, `drained` when the operator
attests it, and `frozen` when a later Start or a probe withdraws the attestation: source writes are
still frozen, so the stream writes nothing more until Start CDC is done again.

A session that excludes nothing and is not marked as using the ledger, as after `StartOver`, may act without
having read it, and the model lets it: `StartCdc` then makes no call and goes straight to the connectors, and
`ReadFails` lets a load go on when the ledger is unreadable (`_full_load_engine.py:6227`). Then
neither the record nor the rows are safe: `RecordIsRight(t)` and `WritesUnmixed(t)` fail for some tables
(section 6). `EmptyMeansEveryRow` and `LoadKeepsContract` say them of the tables outside `unread`, and hold:
the harm stays with the tables that such a job wrote to, and ends when they are dropped. A load that ends before its first row, or whose tables have no record, leaves `unread` alone; so
the exception is only for jobs that really went by the wrong record.

Abstractions: the merge of several tables is one merge per table; the restore's screen is current
when the operator clicks; Start over happens when nothing runs and CDC is gone (its dialog names
what runs and offers the teardown); an operator's choice among pending DEFAULTs stands for the
automatic list and the manual one, so the DDL digests that tell them apart are left out; NOT NULL and
computed columns are left out; one session and one application task.

### PgHandoff

| State | In the code |
|---|---|
| `now`, `txn`, `at`, `writes` | the source's WAL and its transactions; a change remembers whether its table was published when it was written |
| `pub`, `members`, `slot`, `slotAt`, `user` | the publication with its tables; the replication slot, its confirmed position, and who keeps it active |
| `step`, `made`, `stale`, `awaited`, `adding` | the locals of `provision_pg_replication` and of a retry that adds a table |
| `mark`, `covered`, `copy` | the watermark on the job's record, the tables it covers, and the snapshot each table was read at |
| `submitted`, `captured`, `stack`, `started`, `from` | Start CDC: the operations window, the tables the connectors got, the CloudFormation stack, whether it counts as started, where its first stream began |

A Full Load refuses a slot in use, publishes its tables, drops a stale slot, creates its own, which is
ready when the transactions open at that moment have ended, and records it as the watermark; each
step can fail, and the failure drops the publication again if this run made it. Then the tables are
copied. A table selected later joins the publication, waits for every transaction older than the ID
taken after it joined, is copied, and is added to the watermark's coverage unless a Start was submitted
meanwhile. Start CDC checks publication, members, slot and, on the first Start, the slot's position;
then the connector attaches. Stop, Delete and the best-effort removal of both objects follow.

Several migrations run beside each other because the objects' names derive from the stack name and
nothing but the documentation's rule "one stack name per migration" keeps it unique. `unguarded[m]` is
a history variable: it is set where the code itself gives up the guarantee for `m`. These are: a Start
whose checks could not read the source goes ahead and logs it; another migration moves or drops the slot
after `m` passed its position check, which also counts a slot that was in creation and had no position
to compare; another migration drops the publication between two steps of `m` that do not look again.
`NoGap` is stated for the migrations that are not unguarded; the guards that run are thus shown to be
sufficient also against a second migration, and the places where they are not are named.

Abstractions: a transaction is open from its first write; one WAL position per commit and per slot
creation; pgoutput is the rule "published iff a member when written"; the connector decodes every
commit after the slot's position. Left out: `snapshot.mode=initial`, appending copies, the tables a
connector is reconfigured with, and everything MySQL: coordinates, topics, seeded offsets.

### DeadLetterLog

| State | In the code |
|---|---|
| `at`, `shown`, `now`, `cdcStart` (`SinkLog`) | the lines of the sink with the time they carry, when CloudWatch began to show them, the application's clock, the start of CDC the session knows of |
| `reader` | the controller: position, seen lines, the continuation of a capped read, what the last read proved |
| `flight`, `claim` | the polls and checks under way (read, reported, landing), and the claim of the check |
| `cursor`, `seen`, `audited`, `ledger`, `readFrom`, `lastRead`, `pending` | the session: its copy of the position, the audited lines, the count and last time per table, where the coverage begins, the outcome published and the one that waits |
| `saved` | the snapshot: position, ledger, beginning of the coverage |

A read goes from the position, or looks back if there is none, or follows the continuation of the one
before; it ends at the end of the log, at its page cap (anywhere), or with a failure. `Read` is the call
under the controller's lock; `Report` what the worker does next: a poll stores outcome and position
in the session at once, a check keeps both for its landing; `LandPoll` and `LandCheck` count the lines
and publish an outcome. A poll publishes the outcome that waits in the session, which need not be its own.

`DeadLetterLedger` states what the gate needs of all this: lines come to be counted; when a published read
says it is complete, every line that was shown before it began, from the beginning of the coverage on, is
counted or *excused*. `ReadSpeaksForLedger` is its specification with the excused lines spelled out: those
read by a worker that has not landed, those that were overtaken, those a
restart left between the stored position and the stored ledger, those from before a look-back. The
last three are losses (section 6). Overtaken is a history: a line CloudWatch showed after a younger one, or
one of the same millisecond, had been read, or after a capped read had passed its time; and a line of the
millisecond in which a capped read stopped. It excuses no line that was in the log when a read came by and
did not stop there.

Abstractions: a session has one log group and one controller between two rebuilds, and no worker is
between its read and its report when the controller is replaced; a page is any number of lines; the
session's list of seen lines is not trimmed (the code cuts it to 2,000 when it passes 5,000);
lines are identified, where the code compares table, code, text and millisecond. The position moves one
millisecond past a line while everything happens at multiples of `Unit`: fewer reads than `Unit` keep
the two apart.

### CutoverGate

`report`, `runStart`, `overrides`, `completedAt`, `recheckedAt`, `waiver` and `accepted` are the state of
Validation, `run` its thread: tables still to compare (`Compare` takes one table at one moment), those to
compare by value, the automatic CHECKSUM pass. `FinishRun` replaces the report, `Merge` splices a re-check
into it. `MustRecheck`, `ReadState`, `Covers`, `Held` are the gate, evaluated on the state of the moment;
`Open` says that the screen offers cut over. `healed` holds the dead letters whose row a later change
brought up to date: a table is `Stale` while one of its dead letters is not healed, a comparison by value
sees that, one by count may not. Reads land as `DeadLetterLedger` allows, `SaveInMerge` is the snapshot that
takes the report before a merge and its times after it. `acknowledged` and `mixed` are history variables.

The gate is thus checked against the promise, and the promise against the reading of the log: an
assume-guarantee argument. `Excuses` says which lines the reading may lose; the runs let it lose none.
`explained` is what the Full Load reported as dropped, chosen once.
`Known` lists what may still be stale when cut over is offered: a dead letter the waiver was given for, one
that came after the last read began, an excused one, and everything if the operator waived a problem of
the reading itself.

Abstractions: a validation that failed for a table is a mismatch; the fast sweep is a run by count; the
release state "unverified" (no table's records were reconciled) holds cut over and is left out; validations
reaped by the watchdog, and the gates beside this one, are left out.

## 3. Plan

1. Sink core: `SinkBatching`, `DsqlSinkTask`, proofs -- done.
2. `JobManager` with its store, proofs -- done.
3. `PutOutcome`, `SinkTransaction`, proofs -- done. Later: the drift cool-down and `SourceKeyIndex`.
4. `TableLoad`, `BatchedImport`, proofs -- done. Later: the pool's leases and the index pass.
5. `FullLoad`: shards and worker processes over `TableLoad`, under `JobManager`'s chunks, with an
   abandoned worker beside a retry.
6. `OverlayLedger`, proofs -- done. Later: two sessions on one target, two application tasks.
7. `PgHandoff`, proofs -- done. Later: the same for a MySQL source, whose start point is a binlog
   coordinate seeded into the connector's offsets, and a Start that takes a snapshot.
8. `DeadLetterLog`, `CutoverGate`, proofs -- done. Later: the gates on replica identity and catalog drift, which
   use the same evidence.
9. `SessionState` (what a snapshot holds of the rest, and the teardown of start over), `SchemaApply`.

Theorems still wanted for the present modules: that a chunk's batched transaction leaves what its changes
leave one by one (`BatchingKeepsOutcome`), and with it `RowsCoverCommit`; both need induction over data.

## 4. Runs

| Run | Distinct states | Question |
|---|---|---|
| `sink_hold` | 227,622 | every legal source history of two changes of three rows, and five longer ones (a primary key updated across partitions, a key changed and changed back, a value handed over with poison in the tail, a re-keyed table, a value never freed), one transient failure, one crash or rebalance, some of them without a dead-letter reporter: all safety properties, and that every hold ends and replication catches up |
| `sink_batching` | 16,842 | every chunk of up to three changes from ten, on two tables; every limit up to four |
| `sink_transaction` | 137,087 | a read and two chunks, one row rejected by the target, one by the client, three failures anywhere: safety, refinement, and that the put returns |
| `job_recovery` | 1,107,449 | one table, one durable and one other job (fresh, or the second retrying the first), stops, stalls, a restart, one lost or unanswered S3 call: safety, what a restart keeps, and that every job ends |
| `table_load` | 199,448 | five loads (shared or fresh snapshots, appended to or recreated, beside a stream), one lost source, one failure of the target, a stop: safety, refinement, and that the load returns |
| `overlay_ledger` | 3,011,985 | two tables, one column, two DEFAULTs, up to symmetry of both; four jobs of any kind, two failures anywhere, every order of exclusions, starts over and attestations, jobs that never read the ledger included |
| `pg_handoff` | 3,890,184 | two migrations with one stack name, a source transaction, three loads and starts in any order, every step failing or not |
| `job_prune` | violation | a statement about pruning (below) |
| `dead_letter_log` | 2,744,052 | a poll and two checks, the second of which takes over the claim of a hung one, two lines in one table; reads with caps, continuations and failures, three of them, or two and a rebuilt controller or a restart from a snapshot of any moment: nothing skipped, the ledger exact, the refinement of `DeadLetterLedger` |
| `cutover_gate` | 3,882,509 | two tables, one of them with rows the Full Load dropped or none, an attached pipeline with an older dead letter or none, skew; three validations, re-checks and reads in any order, acceptance and waivers |
| `cutover_restart` | 4,549,259 | one table, with an accepted gap or not, a known start; the same three and, at any moment, a snapshot and a restart |
| `dlq_coverage` | violation | a statement about the coverage of the log (below) |

**The deepest of the properties.** `RowsCoverCommit`: every column of every row shows its
partition's log at some offset at or after the committed one, so a replay from the commit always
ends in the source's final row, whatever was held, skipped, dead-lettered or applied twice.
`CommittedIsSettled`: below a commit everything was written, dead-lettered or replaced.
`TailWaits` and `NoCapAcrossRedelivery`: a hold's tail waits, and a release is only issued by a put that
returns. `KeepsPromise` and `CommitsItsUnit`: no failure of the connection makes the put
misjudge a row or commit another attempt's statements. `DoneMeansLoaded` and `RestartKeepsWork`: an
incomplete load never looks complete, and coalesced writes to S3 lose nothing that a retry needs.
`IsTableLoad` and `ResumeIsSettled`: a load that says DONE misses no row, whatever order the batches
ended in and whatever the attempts before skipped. `OwedIsRecorded` and `LoadKeepsContract`: whichever
job died where, cut over can put every dropped DEFAULT back, and no load mixes rows of two contracts,
unless a job went by another record than the ledger's.
`NoGap`: whatever was open when, and whoever shares the names, a captured change is copied or streamed.
`ReadSpeaksForLedger`: a published complete read speaks for the ledger, whoever read, in which order they
landed, and what was restored. `OpenIsRight`: cut over is not offered over a stale row nobody knows of.

**Bounds and why they are enough.** *Sink*: two partitions are the least in which a value is freed
elsewhere and two holds wait for each other; `MaxPoll = 2` lets a put hold a head and its tail, or
one without the other; `BatchSize = 2` makes chunks of one and two changes and lets a move fill one;
`Budget` of one or two ticks lets a hold outlive a tick or not; one transient failure and one
crash at any step give each pair of step and failure. *Batching*: three changes make a move
group beside another run, and a key repeated around a different one. *Transactions*: three failures
are a first one, one in the rollback or the retry after it, and one in the redelivery; `MaxRetries`
(3) is reached within them. *Jobs*: two jobs are a load and the retry of it, one durable and
one that is not; one table is loaded or not, a load of two of which one fails is left to the proofs, which
state the same properties for any tables; `MaxBeats` bounds heartbeats that go nowhere, `MaxMisses` lost S3 calls, `MaxRestarts`
restarts, `MaxNow` the whole seconds of S3's clock, which only pruning reads. *Load*: a range of three
batches beside a range of one lets a batch end before, between and after its neighbours and the resume
point of one range move without the other; two batches in flight and two read ahead fill both limits;
a row the target refuses is alone in its batch and beside another; one lost source and one failure per
kind of step; `MaxQuarantine` of two is reached by the two poison rows. *Ledger*: four jobs are two loads
under two sets, a start and a restore, in any order; two failures are a merge that fails on each of its
`MaxAttempts`, or two jobs that fail; one column is excluded or not, and a recreated table can get either of
two DEFAULTs. Two tables make one fail while the job goes on with the other; tables and DEFAULTs are
interchangeable (symmetry: no definition names one, and only safety is checked). *Hand-off*: `NoGap` speaks of one
change at a time, so one transaction of one change, which may open and commit at any point, is every
change; `MaxWal` of three is two slots and its commit; `MaxRuns` of three is a load of each migration
and a Start, or a load, its Start and a second one; one migration adds a table, the other loads what the first
loads. *Dead letters*: two lines are one read and one shown late, or one in the air and one at the
position; three reads are a capped one, its continuation and one after it; a fault takes the place of a
read. Times are tens of milliseconds, a grace and a look-back two of them, so a line is younger or older than
either; three moments let a line come before, during and after a read, and a claim go stale. `MCView` merges the
states that differ only in a snapshot the bounds allow no restart to go back to. *Gate*: one dead
letter is counted before a waiver or a verdict, or after it; `MaxSpent` of three is a validation, a re-check
that refutes or replaces it and a read, or a validation between two reads; a second table
lets a validation leave the first out, and clears or does not clear the history for it; skew and margin are
one unit, a dead letter is then stamped before, at or after the comparison that misses it. Tables and lines are
interchangeable (symmetry, used only where no liveness is checked); jobs are not, S3 lists
them by key. The proofs lift the bounds on the properties they cover.

Deadlock is not checked where the system really stops: a task without a reporter fails, a chunk is
full, a put has returned, all jobs have ended, the load is over, the jobs of the ledger's instance the
runs and the WAL of the hand-off's, or the reads, lands and moments of the dead letters' are used up.

**Fairness and why the code justifies it.** *Sink*: a put that is running goes on (one thread; each
of its steps is a call that returns), the worker's loop polls, commits and lets time pass. Polls
and commits are strongly fair because a poll of one partition is disabled whenever a put is in
progress or the partition is paused, and the worker comes back to it every time. Crashes,
rebalances and transient failures are not fair and are bounded: "Aurora DSQL answers in the
end". *Transactions*: the thread takes its steps and Connect delivers again; nothing is assumed of
failures but the bound. *Jobs*: a started thread enters `_run`, time passes, the watchdog polls; no
step of the work itself is fair, so that every wedge is covered: only the watchdog ends those jobs.
*Load*: the readers, the loading thread and the pool's batches take their steps, because a socket
timeout ends every statement and every page read; failures are bounded, a stop is never required.
The ledger and the hand-off state no liveness: every job of theirs may end at any step; nor do the dead
letters: no read ever has to begin.

## 5. Proofs

All eight proof modules hold for every value of the constants that satisfies the named `ASSUME`s
(types, `BatchSize`, `Budget` and `MaxRetries` at least one, finitely many partitions and rows; the
rejected rows are rows, the units cover the rows; a plan that shares its snapshot recreates nothing; every
setting of the log's reading is a multiple of `Unit`). None depends on how many rows, partitions, jobs,
tables, failures or restarts there are.

* `DsqlSinkTaskProofs`: `CommitBehindHold` and `CommitAdvances` are not inductive: a commit takes
  `current`, which is ahead of a hold from the moment a put returns until a poll applies the
  rewind. `OffsetsInv` relates the five offsets of a partition: without a hold, delivered
  records lie between `current` and `position` and a pending rewind is the cap of a release; with one,
  the commit is at or below it, `position` (after the pending rewind) at or beyond it, and anything
  delivered reaches it. One lemma per action keeps it (`OffsetsInvariant`); from it
  `CommitNeverPassesAHold`, `CommitNeverGoesBack`, `NoCapAcrossRedeliveryHolds`. `PausedIsHeldHolds`
  needs only that holds begin in a put and end, with their pauses, when it returns.
  `CommittedIsSettled` speaks of a commit and of a change written long before it: `SettledInv` says in
  between that the batch is in offset order and reaches from what the worker may commit to `position`,
  that what a put has still to apply is a part of it in the same order (`PutOrder`), that each record of the
  batch is settled, behind a hold, or still to come (`PutCovers`), and that below a hold, or below `current`
  where there is none, all is settled (`PartitionSettled`). `SettledInvariant`, `TypeOKHolds`,
  `CommittedIsSettledHolds`. `TailWaitsHolds` is one step: what a chunk may contain, by `Kept`. `ReportsInv`
  says of a change whose next report would be one too many (`Spent`) that nothing but a failure delivers it again, or
  that its redelivery is skipped (`Passed`), phase by phase of the put: `ReportsInvariant`, `ReportedOncePerDeliveryHolds`.
  All of it needs what `Kept` and `Partition` return for every input (`PartitionCuts`), to say which record
  a chunk has. Both are recursive functions over the indices of a
  sequence; a property of every index is proved by its least counterexample, in place of an induction.
  `DedupedHasNoKeyTwice` says of the collapse, for any list of statements, what `NoKeyTwiceInARun` checks of the lists
  that `WithMoveDeletes` returns: two runs of the same SQL are kept apart by the first statement of a key between them,
  which the collapse leaves in its place.
* `SinkTransactionProofs`: `SessionInv` says what an attempt finds (`OwnTransaction`: a clean
  transaction between the units, and within one exactly the statements it executed), that no row
  gets lost (`Accounted`) and that an error judged permanent is about a row of the unit
  (`Justified`). `HealthyNotRejected` needs the first and the third, since the error that rejects a row
  can come from what an earlier attempt left; the second is what makes a put that returns complete.
  `SessionInvariant`, `HealthyNotRejectedHolds`,
  `CommitsItsUnitHolds`; and `KeepsPromiseHolds`: each step maps to a step of `PutOutcome` or a stutter.
* `JobManagerProofs`: `JobInv` adds to `DoneMeansLoaded` where each thread stands by the status its
  job shows (`InPlace`), that the chunks shown are the work's own while nothing else ended the job
  (`ShowsOwn`), and that the work's DONE tables are loaded. `JobInvariant`, `NoOrphanHolds`,
  `DoneMeansLoadedHolds`, `OutcomeStaysHolds`, and `EndedSaysWhyHolds`. `RestartKeepsWorkHolds` needs
  `StoreInv` (`StoreIsCurrent`): while no S3 call was lost, the signature of the last write and the stored
  snapshot have the status and chunks of the record, so that a skipped write skips nothing.
* `BatchedImportProofs`: the resume point and the verdict are not inductive alone. `LoadInv` adds that
  a batch read is skipped, queued, on the pool, settled, or known to be missing (`AccountInv`), that
  the parts of a batch on the pool and what was settled cover its rows (`BatchInv`), that the
  batches recorded ahead are settled (`TrackerInv`), and what an ended reader and loading thread
  imply (`MainInv`). `LoadInvariant`, `ResumePointIsSettled`, and `LoadIsTableLoad`: each step maps to a
  step of `TableLoad` or a stutter.
* `OverlayLedgerProofs`: `OwedIsRecorded` is inductive only with what a job knows while it works.
  `IInv` adds which jobs exclude each other and what `cdc` allows (`GateInv`), that a table that does
  not exist has no rows and no DEFAULTs and one between DROP and CREATE owes nothing (`TargetInv`), that
  the facts a job read still hold (`FactsInv`), that its view is the ledger's (`ViewInv`), and that
  the columns left out are NULL once a table is ready (`NullInv`). `TypeCorrect`, `DroppedIsRecorded`,
  `StreamWritesNull`. For the record, `ContractInv` says of each table outside `unread` (`Fits`) that its record
  is right (`RecordIsRight`), that rows which hold NULL for an exclusion have a record that names it (`RowsFit`),
  so that an append after a change of exclusions is refused, and that from the merge on, and under the stream, the
  record agrees with what the session excludes (`RecordFits`). A table that a step leaves alone keeps that
  (`FitsStays`), one whose part in the job ends is left with little to keep (`FitsAside`), and the merge brings
  the record to fit (`MergeKeeps`). `RecordDescribesRows` and `LoadsNeverMix` follow, for every session.
* `PgHandoffProofs`: `NoGap` says nothing of a migration before its Start, so `IInv` says what has to
  be true until then. While its start point is where its load put it (`Held`), the copies have every change
  of a covered table that was written unpublished (`CapturePublished`). Two waits establish that: PostgreSQL's
  own in the creation of a slot (`CreationWaits`), and the one for what was open when a table joined
  (`AdditionWaited`). `PositionKept` says that a Start past its checks begins at the watermark, `Times`
  that no copy is older than it: a published change is then after the position or in the copy.
  `TypeCorrect`, `StartsAtWatermark`, `NothingFallsBetween`.

* `CutoverGateProofs`: `OpenIsRight` compares times and counts, and is as good as what they stand for. `IInv`
  says it: no time the session keeps is from the future and no dead letter from before the start of CDC
  (`ClocksInv`); the ledger counts no fewer dead letters than it knows of and has the time of the
  latest (`LedgerInv`); a waiver as high as the ledger was given for each dead letter in it (`WaiverInv`); a table
  verified by a comparison begun at `t` has no stale dead letter from before `t - Skew` (`VerdictInv`), also
  half-way through a run, where the verdict still waits for its merge. Each holds of the snapshot too, since a restart
  makes that the state. `Speaks` is the promise of `DeadLetterLedger`. `GateInvariant`, `OpenIsRightHolds`,
  `GateInvHolds`. Assumed: finitely many dead letters; the sink's clock is at most `Skew` off and `Margin`
  no less; no dead letter carries a time from before the start of CDC, which a connector that takes minutes
  to come up ensures. The proof is for every `Excuses`, so a reading that loses lines weakens the
  statement only by the lines it lost.
* `DeadLetterLogProofs`: `NothingSkipped` is about one position, the controller's, but a landing or a report of
  another read can put back the session's, a check's or the snapshot's, and a rebuilt controller starts from it. So
  each of the four has nothing behind it that is not taken up or overtaken (`Swept`, in `PositionInv`), the
  snapshot's against what a restart would keep and drop; and a continuation has nothing between the position and
  where it goes on (`ResumeInv`). A line CloudWatch shows below a position would break that. That it
  counts as overtaken needs a bound on how far a position is ahead of what was read (`Bounded`): at
  most `reads` milliseconds past a line, or by that much past the clock less `Grace`, the window in which lines
  are still shown. `MaxReads < Unit`, and times on a grid of `Unit` (`ClockInv`), make "past a line" mean "not past a
  younger one". `SeenInv`: what was seen is counted or in the air, so that a read that leaves out what it has seen
  loses nothing. `LedgerInv`: the audited lines are the counted ones until a restart, and the snapshot's ledger is
  exact too. `ReportsInv`: each outcome, in the controller, in a flight, waiting or published, says no more than
  what is known of the lines shown before it began. `LogInvariant`, `LogInvHolds`, and
  `ReadSpeaksForLedgerHolds`: each step maps to a step of `DeadLetterLedger` or a stutter. Any number of
  polls, checks, lines, tables, faults; but fewer reads than `Unit` has milliseconds, so of two lines that are fewer
  milliseconds apart than there are reads the theorems say nothing (a read that finds nothing new can move the position on by
  one).

Only model-checked: liveness (`CatchesUp`, `PutReturns`, `EveryJobEnds`, `LoadReturns`), which is out of
the prover's reach; `RowsCoverCommit` and the properties of `SinkBatchingCheck` (`BatchingKeepsOutcome`, `NoKeyTwiceInARun`,
`PartitionIsRight`), which speak of folds and sums over sequences of changes and
would need induction over data.

## 6. Disagreements between documentation and code

Two have a run of their own, `job_prune` and `dlq_coverage`; the others were met while modelling and are
described here. The properties that hold set five of them apart by name (`unread` in `OverlayLedger`;
`dropped`, `restarted`, `Unread` and `mixed` in the modules of the dead letters) instead of leaving them out.

* Collapse: a comment in `applyChunkBatched` calls the collapse apply-equivalent. Under a
  secondary unique index a collapsed run can be rejected where its changes apply one by one. The
  chunk is then replayed row by row: a slower path, no lost row (`RowsCoverCommit` holds).
* Stop: `request_cancel` answers True for a stop that comes between the last look at the flag
  and the record of DONE; the job then ends DONE. Its tables are loaded.
* `job_prune`: start-up rewrites every snapshot and then prunes by time of last write, so the newest
  DONE job can be the one deleted. It loses history, no work.
* Start CDC after Start over: it does not read the ledger when the session excludes nothing and is not
  marked as using it (`_cdc_overlay.py:108`). Start over forgets the mark and keeps the object, so a
  migration of type CDC only then streams values into a column while the record goes on saying that all
  rows were written without it, which the comments at `overlay_ledger.py:89` and `_cdc_overlay.py:123`
  exclude; chapter 13 of the manual (line 467) says a new session after Start over still sees the record. A
  later load is let append where it should ask for Drop & reload. The model has these steps: without
  `\ unread` in `EmptyMeansEveryRow` TLC ends a behaviour with `StartOver`, `StartCdc`, `Connectors`, `StreamRows`.
* An unreadable ledger: the load of such a session goes on when its read of the ledger fails
  (`_full_load_engine.py:6225`, "Nothing recorded (or an unreadable read) leaves such a run exactly as
  before"), and appends values to rows that hold NULL. The Start dialog reads the ledger too, but an unreadable one
  holds back only a session already marked (`_full_load_ui.py:1486`), so an outage of the store covers both reads.
  Chapter 13 says "never mixes NULL with stored values" (line 419) and that an unreadable ledger is never
  treated as "no record" (line 468). Without `\ unread'` in `LoadKeepsContract` TLC ends a behaviour with
  `StartOver`, `StartLoad`, `ReadFails`, `LoadRows`.
* `dlq_coverage`: the position moves just past the newest line read, however young it is. A line that
  CloudWatch shows later, of the same millisecond or an earlier one, is behind it; no later read returns it, and
  the next complete read is published. The comment at `_state.py:336` calls the coverage continuous.
* Another's outcome: a poll lands whatever outcome waits (`_cdc_status.py:3000`). Detached by a refresh and landing
  after its successor reported, it publishes the successor's outcome before the lines of it are counted, which
  the comment at `_cdc_status.py:2998` excludes. The successor's landing follows and mends it.
* Position without lines: a poll's worker stores the position before the event loop counts the lines. A snapshot in
  between and a restart lose them, against the comment at `session_persistence.py:887`.
* Counted twice: a check's landing stores an older position over that of a later poll. Restored after a restart,
  the lines between the two are counted again. The gate only becomes stricter by it.
* Tables left out: a history that begins after the start of CDC is cleared by comparisons of the tables in the
  report, while the docstring of the gate asks for every table. A table that was left out of the
  validation keeps what was dead-lettered before the first read.
* Two reports: a snapshot in the middle of a merge dates an old verdict by the re-check that refuted it. The
  next snapshot mends it; a restart before that restores it. `OpenIsRight` sets the tables of such
  a snapshot apart.

One more needs no run: the javadoc of `reportOrThrow` (line 2216) says that a task without a
reporter logs and skips, while `quarantine` (2357-2370) stops the task. The model follows the code, and
the histories without a reporter in `sink_hold` show that this is what keeps a commit from passing a change nobody has.

## 7. Not modelled

Parsing, value conversion, SQL translation, assessment, introspection and validation are functions
of one input: tests reach them, interleavings do not. The UI appears as the inputs of the job
manager and of the ledger. Deployment, and monitoring but for the dead letters, are calls to AWS and reports on their answers. The
engine's shards and index builds, the CDC start of a MySQL source, the gates but those on dead letters and
dropped DEFAULTs, the rest of a session and the apply job of Schema Conversion are in the plan; their
hazards are listed and carry no property yet. What
the modelled parts leave out is named with each module above: for the load the leases of the connection
pool, the deferred index pass, the counts and CDC deletes beside it; for the ledger NOT NULL and computed
columns, the DDL digests, two application tasks or sessions on one object, and stale restore screens; for
the hand-off a Start that takes a snapshot and copies that append.
