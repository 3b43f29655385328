# Formal models of millrace

millrace copies a retail PostgreSQL database into an analytical warehouse (DuckDB, optionally
Snowflake) batch by batch: change events flow through Debezium, Kafka and Spark into bronze and
silver Parquet, dbt builds a candidate per run, a reconciliation compares the candidate with source
history, and a promotion moves the stable `analytics` views to it. This directory holds TLA+
modules of that program, TLC configurations that check them on small instances, and TLAPS proofs of
what matters most for every instance. Line references are to the repository root.

    tlc -workers 2 -config MCDuckDbPromotion.cfg MCDuckDbPromotion
    tlapm DuckDbPromotionProofs.tla

## 1. Inventory

| Component | Code | State it keeps | Operations | Interacts through |
|---|---|---|---|---|
| Source database | `infra/postgres/*.sql` | `control.source_batch`, retail tables, `source_history.*` | `apply_demo_batch`, capture triggers | write-ahead log (Debezium), SQL reads |
| Cutoff capture | `orchestration/runtime.py` | none; run_id is a hash of interval and batch | `capture_cutoff`, `stable_run_id` | reads `source_batch` |
| Event parsing | `streaming/parser.py`, `schemas.py` | none | record to event, tombstone or reason code | called by ingestion for every record |
| Ingestion | `streaming/spark_job.py`, `storage.py` | checkpoint, bronze, dead letters, silver | `run_ingestion`, micro-batch, snapshot, backfill | Kafka offsets, object store paths |
| Current state | `streaming/state.py` | none | `deduplicate_events`, `build_current_state` | same result as the snapshot's window |
| Candidate build | `dbt/`, `runtime.py` | candidate schema per run | incremental merge, dbt tests | reads silver |
| Snowflake load | `warehouse/snowflake_target.py` | local directory, stage, raw schema | `load_silver` | reads silver while Spark may rewrite it |
| Reconciliation | `validation/service.py`, `readers.py`, `canonical.py` | report file, `validation_runs` | `validate` | reads history and candidate views |
| Comparison | `validation/comparison.py` | caches of one command | `compare` | several targets, one source |
| Promotion, DuckDB | `validation/publication.py` | `publication_runs`, `analytics` views | `promote` in one transaction | report file, audit row |
| Promotion, Snowflake | `validation/publication.py` | the same and the staging schema | `promote` in implicitly committed steps | the same |
| Pipeline | `airflow/dags/millrace_pipeline.py`, `orchestration/__main__.py` | task states | DAG run, `backfill-run` | calls everything above |
| Dashboard | `dashboard/app.py`, `repository.py` | cached panels | load a panel query by query | reads the DuckDB views under the file lock |
| Gateways, settings, metrics, logging, deployment | `warehouse/gateway.py`, ... | none that a decision reads | | |

What is hard: statements of a promotion commit implicitly on Snowflake, so a crash lands between any
two of them; commands are separate processes that share a report file, a staging schema, a candidate
schema and a silver prefix, all named by the deterministic run_id; Kafka partitions lag each other and
PostgreSQL, while the gate compares against PostgreSQL; a micro-batch is replayed under another run's
id, a restarted connector delivers old changes after newer ones, and a backfill reads the files that a
query deletes and refills; the parser's checks must accept every form Debezium sends and refuse every
damage; a command that ends removes the local files of a load of the same run; the dashboard reads
views one by one while they are replaced; and the incremental merge remembers earlier, incomplete
snapshots of the same run. `PROJECT.json` lists each hazard at its line with the properties that cover
it.

What makes each component correct: readers see one whole, validated publication and the record
never claims a newer one (promotion); history and events agree at a cutoff that no longer changes
(source); a record is committed only when it is kept as what its sender means or refused for its
damage, and a snapshot reads a prefix and shows the last change of each key (parsing and ingestion);
both implementations of the current state agree (state); a load that returns left exactly one listing
(load); the published mart is the source at the batch (pipeline); passed means identical (comparison);
a panel stands for one publication and never goes back (dashboard).

## 2. Modules

`Publication` is the abstract promise: contexts, the one on show, the recorded ones, the validated
ones. `SnowflakePromotion` and `DuckDbPromotion` both implement it (`Refines`, through `INSTANCE
Publication WITH ...`), and so does `Candidate`. `Archive` is what ingestion promises the runs built
on it; `Ingestion` implements it and `Candidate` reads it. `Dashboard` extends `DuckDbPromotion`: its
page runs beside the commands. `Candidate` extends `SourceHistory` and composes the pipeline.
`Ingestion` extends `EventParsing` (what a record says) and `SourceOrder` (which change is later);
`CurrentState` uses the same `SourceOrder`. `SnowflakeLoad` and `CrossEngine` stand alone. `MC*`
modules only give constants their values, `*Proofs` modules hold the theorems. Definitions headed
"faulty variant" are never used by the specification: each is the code with a plausible bug, and
`PROJECT.json` pairs it with the property that notices it.

**Publication** (with `PublicationProofs`). `Audit`, `Grant`, `Lapse`, `Show`, `Record`, `Publish`. A
context is a (run_id, batch_id) pair. `granted` holds the contexts that a promotion under way has read
as passed: the code reads the verdict once, at its gate, and nothing locks it until the views move, so
the promise is about the verdict at the gate. DuckDB and the pipeline publish in one step (`Publish`).
It has no run of its own: it is exercised as the specification that the two implementations refine,
and its properties are proved.

**Archive**. The messages of the source, which of them are archived for good, and the last snapshot;
no offsets, files, paths, batches or processes. `Drain` archives more, without a gap in a partition;
`Snapshot` shows the last change of each key that belongs to the cutoff; `Backfill` reads the days it
asks for, at least as far as they are archived. Checked and proved as what `Ingestion` implements.

**SnowflakePromotion**. One action per statement of `SnowflakePromotionService.promote`:
`CheckAudit`, `CheckLatestBatch`, `CheckExisting`, `InsertPending`, `CreateStaging`, `CreateView`,
`SwapSchemas`, `MarkPublished`, `DropStaging`, each of a promoter `p` with its own program counter.
Sessions have autocommit off: `txn[p]` holds uncommitted rows, and `AfterCommit` makes them durable
with the next DDL statement, as Snowflake does. `WriteReport`, `RecordValidation` and
`AbandonValidation` are a validation (file first, then the audit row, possibly dying in between);
they interleave with promotions at every statement, in all runs. `ValidateReport` starts a promotion
from a report. `Crash` loses the session. `Serialized` says that operators run one promote command at
a time. Two rows for one run are possible, as in the code, whose table has no key. The last view, over
the control tables, selects them live and shows whatever run is published; the model enters it as the
context whose promotion created it, which makes `AllOrNothing` and `ShownIsAccountedFor` stricter. Not
modelled: creation of control tables, and the table lock a Snowflake UPDATE takes (the model allows
more interleavings).

**DuckDbPromotion**. DuckDB has one writer, so `session` holds at most one connection. `Open`,
`Gates`, `CreateView`, `CommitPublication` (which the primary key of publication_runs refuses to a run
that has a row), `Fail` (rollback at any statement), and a validation with its report file. Promotion
reads the file before it opens the database (`ReadReport`, then `Promote`), and `OtherTargetReports`
lets a validation of the Snowflake target overwrite it.

**Dashboard**. `OpenPanel`, `QueryViews`, `ClosePanel` are the loaders of `repository.py`: a
connection per panel, one query after another, each its own transaction, over some of the panel's
views. `Expire` is the panel's time to live. DuckDB's file lock is the composition: a command opens no
session while a panel is read (`LockedOut`: it raises) and a panel is not opened while a command
writes. `load_dashboard_data` and `load_validation_status` are cached apart, so two panels of one page
may stand for two publications; the properties are per panel. The figures, the range filter and the
rendering are not modelled, nor is whether a command eventually gets the lock.

**SourceHistory**. One log of changes stands for the history rows and the change events, which differ
in one field: the row batch of a delete. `HistoryAt(b)` is `PostgresHistoryReader`, `SilverAt(b,
read)` is the snapshot of `spark_job.py`. `Overlap` and `TouchFirst` name two things the code relies
on and does not enforce: batches do not overlap, and a row is stamped with the active batch before
it is deleted (the seed data does both). A delete that breaks the second is `LateDelete`: the history
files it under a later batch than its event. Batches change row by row, which includes the demo's single
transaction.

**Candidate**. Executions (`Execs`) of runs: `Start`, `Spark`, `Build`, `Validate`, `Test`,
`Promote`, `Abandon`, and the runbook's `RemoveCandidate`. A run is identified by its batch (the
interval is fixed), so an execution meets what earlier ones left. `AnyCutoff` lets a run name a batch
that is not complete, as `backfill-run` does, which takes any `--batch-id` unchecked; `capture_cutoff`
of the DAG names completed ones only. `Repeat` lets a run be executed again after it was published, or
by two executions at once: nothing in the code prevents either. `Partition` maps keys to Kafka
partitions: with one partition events arrive in commit order, with several they may lag each other.
`Merge` is the incremental filter of `dim_product.sql`; `CountsAgree` is `reconcile_entity_counts`.
`Promote` is one step, because the two promotion modules justify that. The runbook tells operators
to remove the silver prefix and to retry from the build; the model retries from Spark, which has to
write the prefix first.

`ImplementsPublication` (in `CandidateProofs`) maps the pipeline to the promise that the promotion
modules implement, and `SparkReadsArchive` maps `Spark` to a drain of the archive with its snapshot.
That is how `Candidate` stands on the modules below it. A run stands for one interval and cutoff: two
runs with different intervals and one cutoff are left out. A backfill is `Spark` with `read = bronze`;
one beside a running query may also read records that are not committed (`Archive!Backfill`), which
`Candidate` leaves to `Ingestion`.

**EventParsing**. `parse_debezium_event` as a list of checks in the order of the code; the first that
fails gives the reason. A record keeps what the checks tell apart: its key, the kind of its body, the
operation, both row images, source block, transaction orders, timestamps as days. `Decoded` turns
base64 decimals into text when the envelope declares a schema; `BatchOf`, `TransactionOrder` and
`EventDay` are the fallbacks, where zero counts as missing. A day no datetime can hold raises
(`DayRaises`), and then the whole batch fails. The connector as configured sends string decimals and no
tombstones; the parser handles both, and so does the model. Left out: an unknown topic (the topics of a
query are the known ones) and exceptions other than that of the day (integers too large to convert,
base64 of an odd form). Kafka gives every record a timestamp.

The second half of the module says what a record means whatever the order of the checks: `Conveys`
relates it to the change it tells of, field by field, `Flaws` is the set of its damages, and `Means`
takes it for a change, a tombstone, or its one damage. A row or source block that is missing and an
object that lacks every field are told apart, as in the code.

**SourceOrder**. `Later`, the order of `source_order`, and `Latest`, rank one of the window.

**Ingestion**. The source's log is a sequence of messages, each a raw record with what its sender
means by it (`carries`; `SenderAssumption`: the record `Means` that). Debezium (`Produce`, external)
appends the next to the partition of its key; `Resend` restarts it from an earlier position. An
availableNow query (`StartQuery` fixes its targets) plans a micro-batch in the offset log (`Plan`),
parses it (`ParseBatch`), clears and fills each event date (`ClearDate`, `FillDate`), writes dead
letters, and commits. `Replay` runs a planned batch again under whichever run_id started the query. A
path is overwritten by deletion, so a crash leaves a hole. Dead letters are deleted and written in one
step. `WriteSnapshot` follows a drained query; `Backfill` is `BRONZE_BACKFILL`, a process of its own
that reads bronze at any time. `silver` is the last snapshot written, of whichever run: a later one
replaces it in the model although runs have prefixes of their own, because every property is about a
snapshot when it is written and nothing reads an older one.

**CurrentState** (with `CurrentStateProofs`). The fold of `state.py` over any order of arrival with
replays, against rank one of the window in `spark_job.py`. The payload tiebreaker of the fold never
decides, since partition and offset identify an event.

**SnowflakeLoad**. `load_silver`: clear, replace schema, list, download (possibly short, with
attempts), count, create table, PUT, COPY, commit. DDL commits the COPY of the entity before; a session
that dies loses it; a load that raises loses its variables with its process. Spark may overwrite the
run's snapshot at any time, as spark_job.py does: entity by entity (`StartSnapshot`, `NextTable`), first
the old objects go (`Overwrite`), then the new ones appear one by one (`WriteObject`), and the job may
die and leave the prefix half written (`EndSnapshot`), so a load may list a part of a snapshot, or
nothing. The objects of one entity go in one step. `Cleanup` is
`cleanup_temporary_files` of another command of the run, which removes local files under the load, one
by one. A download whose directory is gone raises, which is the step `Crash`. A truncated copy counts no
row, where DuckDB would normally raise: the model allows the load to go on. Not modelled: two loads, or
two Spark jobs, of one run at once.

**CrossEngine**. `compare`: validation of each target, entity by entity, with caching readers; a read
that raises, or a value that cannot be made canonical, becomes one failed `query` check.
`compare_reports` at the end. Aggregates, partition counts and null counts are functions of the rows
and add nothing to the checksum and count; `customers.status` and other unlisted columns are not
part of a row, as in `config/reconciliation.yml`. A target that cannot be opened ends the command
without a verdict and is not modelled.

## 3. Runs

| Run | Question | Bounds, and why they suffice |
|---|---|---|
| `snowflake_sequential` | One promotion at a time beside validations, a crash between any two statements: are views whole, the record never ahead, one row per run, the abstract promise implemented, a pending row resolved? | three contexts (two batches of one run and another run), two views, three rows, one crash: an older and a newer batch, a resumed row, a verdict overwritten between gate and swap |
| `snowflake_concurrent` | What holds when commands interleave: has every view on show its row, does a published row stay, is a command that returns recorded? | two promoters, two contexts, one crash |
| `snowflake_regression` | Does a newer batch on show stay? **Violated** | one crash, two contexts |
| `duckdb` | Do record and views change together and in order, whatever fails; is a panel of the dashboard made of one publication, never of an older one than before? | three contexts, three views: two for the data panel, so that its queries can see different contexts, one for the status |
| `candidate_in_order` | Is the published mart the source at its batch; do history and events agree? | two keys, two batches, three changes, two executions, one partition, deletes stamped or not |
| `candidate_operated` | As operated: is a closed cutoff frozen, does a candidate that is right stay right, does a published run keep verdict and data, is every publishable batch published? | two keys, two batches that overlap, two changes, two partitions, one execution at a time, any cutoff, repeated at will |
| `candidate_partitions` | Is the published mart the source when one partition lags another? **Violated** | two partitions, four changes |
| `candidate_repeat` | Does repeating a published run leave what readers see alone? **Violated** | one partition, three changes |
| `ingestion` | Is every committed record kept as what it means or refused for its damage; does a snapshot read a prefix and show the last change of each key; does a backfill miss anything committed; is `Archive` implemented; is everything committed in the end? | 24 logs: every other form of an update and every single damage alone, an insert with a delete of its key, two keys in two partitions; two days, two run ids, one restart of the connector, one crash: a batch that spans dates and partitions, a replay under another id, an old change behind a newer one |
| `current_state` | Do fold and window agree? | eight events: late, equal LSN, beyond the cutoff, a re-insert, a moved key |
| `snowflake_load` | Is what was loaded one listing, whole and durable; does a retry succeed? | two entities, two objects, two snapshots, two attempts: a listing of the first snapshot downloaded while the second is written, files removed between download and PUT |
| `cross_engine` | Does passed mean identical; is a disagreement warehouse-side? | two targets, two entities (one may be empty), one key, two values and a bad one, one write during the command |

Deadlock is checked except where the system may rightly stop (no change left to make, command
ended). `MaxClock`, `MaxCrashes`, `MaxResends`, `MaxChanges`, `MaxWrites`, `MaxVersion` only bound the
exploration.

**What the violations show.**
* `snowflake_regression`: a promotion that dies after the swap has published although its row is
  pending; the gate, which counts published rows only, then admits an older batch.
* `candidate_partitions`: a first execution meets an incomplete snapshot and fails; the retry's merge
  drops a late row whose source batch is below the greatest in the mart. Silver is right, counts
  agree, the gate passes, the mart is stale. All keys of one table share a topic with several
  partitions, so nothing orders them. What is true with any number of partitions is
  `CandidateStaysTrue`: data that was complete and right once is not taken away again;
  `candidate_operated` checks it with a partition per key.
* `candidate_repeat`: the stable views select from the candidate schema, and the run_id of a repeated
  run is the same: its build changes what readers see before any check. In the trace a row inserted
  and deleted in the batch reaches Kafka after the publication, the insert first. If all events of the
  cutoff had arrived, repeating the run leaves table, data and verdict alone: `PublishedStands`.

**Limits that constants show.** They are not runs; change the constant to see the trace.
* `Serialized = FALSE` with two promoters: `AllOrNothing` and `RecordNeverAhead` fail, as commands
  share `analytics_staging` and hold no lock from the gate to the UPDATE. docs/architecture.md:157-158
  calls the single writer specific to DuckDB; Snowflake promotions need one too. `ShownIsAccountedFor`,
  `PublishedIsFinal` and `ReturnedIsRecorded` are what the code keeps without it.
* A verdict may change between the audit gate and the swap, on Snowflake: a publication whose last
  validation failed can go on show. `Publication` therefore promises a verdict that was passed at the
  gate (`granted`), not one that still is.
* `Overlap = TRUE`: a cutoff that is merely complete is not frozen, as a lower batch may still be
  loading; the advisory lock of `apply_demo_batch` is per batch. `ClosedCutoffIsFrozen` says what holds.
* `TouchFirst = FALSE`: 01_schema.sql:257 exempts DELETE from the row-batch check, so a row that a
  later batch deletes unstamped is missing from every later snapshot of the earlier cutoff, and the
  gate of such a backfill fails for good. `SilverMatchesHistory` says exactly which rows;
  `CandidateStaysTrue` and `PublishedStands` fail with that constant.
* `PublishedMatchesSource` needs the events of a table in commit order, or all of them before the first
  build; nothing in the code waits for either.
* `DisagreementIsWarehouseSide` excepts a source read that raised for one target only: the caches of
  `comparison.py` keep results and not exceptions, so identical targets are then reported as
  disagreeing.
* A backfill does not see a prefix: it may read rows of a batch that is not committed, and miss others
  of it. `BackfillCoversCommitted` says what it never misses.
* Two changes of one key with equal LSN and transaction order, and a key that changes partitions, would
  be ordered by Kafka position. `OrderAssumption` states what PostgreSQL and Debezium provide instead.
* `LoadedIsListed` says that one listing was loaded, not that DuckDB still reads it: every
  `backfill-run` overwrites the run's silver prefix (orchestration/__main__.py:50). The listing itself may
  be of a prefix that Spark has half written; the gate of that run is what notices missing rows.

## 4. Fairness

* `SnowflakePromotion!Retry`: a started command runs on; the operator starts a pending context again
  (docs/architecture.md: the next attempt for the same run resumes), strongly fair because a report
  with the right verdict may come and go. Crashes are not fair, only bounded.
* `Candidate!Fairness` (with overlapping batches and cutoffs that are not closed run in between):
  tasks end; from some time on none is killed; a publishable batch is executed again and again
  (schedule or operator); an execution of Spark finds all events that were delivered; a candidate
  whose count test fails after its verdict passed is removed, as docs/runbook.md says. Without that
  last part a retained deleted key fails the count test in every retry. `EventuallyPublished` is
  written `[]<>` over all batches, since a publishable batch stays one. A run whose task fails for
  good is given up (`GiveUp`), so that it may be started again.
* `Ingestion!FairSpec`: runs are scheduled and a started query goes on. `EventuallyCommitted` excepts
  `Poisoned`: a record whose day cannot be represented raises in every replay of its batch, and no run
  gets past it (spark_job.py:289 catches nothing).
* `SnowflakeLoad!Fairness`: a failed load is retried, processes stop dying, short downloads stop, other
  commands of the run stop removing files under the load (`Disturbed`). Killing is excluded only as a
  step that is not also a step of the program.

## 5. Proofs

Proved for every value of the constants (numbers of contexts, views, promoters, events, keys, batches,
partitions, logs, entities, objects, targets, runs and all bounds), from the named assumptions on them:
batches are naturals, a run and a batch identify a context, there is a view, an entity and a target,
`Nothing`, `None`, `NotBuilt` and `Absent` are none of the other values. TLC evaluates every assumption
on the instances. Assumptions that say more are named below.

* `PublicationProofs`: `TypeOK /\ RecordNeverAhead` is inductive, and gives both theorems.
* `DuckDbPromotionProofs`: the invariant adds `SessionInv`: what an open transaction has established.
  At the views and the commit its context is authorised (no other session can write in between) and
  `draft` selects it in every view built so far; before that `draft` is what is committed. Type
  correctness, `DuckDbRecordMatchesViews`, `DuckDbPublishedInOrder` and `DuckDbRefinesPublication`
  follow. The dashboard's `DInv` adds what the queries of an open panel have seen: nothing, or the one
  context on show, which no command replaces while the file is read. With the record's order this
  gives `PanelsOfOnePublication` and `PanelsNeverAhead`.
* `SnowflakePromotionProofs`: `CInv` holds under any interleaving. A session adds only a pending row or
  the published form of a row it removes, and every context in a schema, staging included, has a row.
  It gives `SnowflakeTypeCorrect`, `SnowflakeShownAccounted`, `SnowflakePublishedFinal` and
  `SnowflakeReturnedIsRecorded`: whichever of two interleaved UPDATEs of a run commits first, the context
  of the command that returns is published. With `Serialized`, `SInv` adds that one promotion is active
  and, per statement, which gates still hold, how the session's row stands, and how far staging is built;
  that the audit row still says passed is not among them, as validations go on meanwhile.
  `SnowflakeAllOrNothing`, `SnowflakeOneRowPerRun`, `SnowflakeRecordNeverAhead` and
  `SnowflakeRefinesPublication` follow. The safety properties
  alone are not inductive: that the swap keeps the record behind the views depends on a gate read seven
  statements earlier.
* `CurrentStateProofs`: `Later` is a strict total order on events with distinct positions, so the fold
  holds the greatest seen event of each key; hence `CurrentStateRanksFirst` and `CurrentStatesAgree`.
* `IngestionProofs` begins with the parser. `ParserNamesAFlaw`: it refuses exactly the records that
  have a flaw, for one of their flaws; `ParserFaithful`: what a record means is what the parser makes of
  it. Both are about every record, not the forms of the instance. `GInv` then relates the offsets
  (committed, planned, targeted), the files of committed and planned batches, and how far a batch under
  way has been written: each of its records is still to do, being filled, or in a file of the next batch
  id. That no overwrite reaches a committed file rests on the batch id in the path.
  `IngestionReadsPrefix`, `IngestionBackfillCovers` and, with `ParserFaithful`, `IngestionLosesNothing`
  follow. `IngestionShowsLastChange` adds `OrderAssumption` (the source numbers the changes of a key
  upwards) and that a record is in the partition of its key: the window's greatest event is then the
  last change of the log among those delivered, whatever was delivered twice. `IngestionTypeCorrect`
  adds that the topic is no longer than the restarts of the connector allow.
  `IngestionImplementsArchive` needs one invariant more: whatever the connector repeats, a message is
  delivered only after all earlier ones of its partition, so what is committed has no gap although it
  is counted in offsets of a topic with repetitions. Every step is then a drain, a snapshot, a backfill
  or a stutter. Two results go beyond the runs. `IngestionSnapshotsAdvance`: a snapshot written by a
  query takes no key back behind an earlier snapshot of the same or a lower cutoff, also where that
  one was a backfill's and had read a batch under way; the invariant is that what any snapshot read is
  committed, or in the planned batch, which the query commits first. `PoisonedForGood`: once a planned
  batch has a record whose day cannot be represented, neither it nor anything after it is ever written
  or committed, under any run id.
* `SnowflakeLoadProofs`: the invariant says what earlier entities have (committed, or in the COPY that
  the next DDL commits), that later ones have no table yet, and that listing, downloads, local files
  and stage agree at each step even when files vanish and Spark writes half a snapshot meanwhile. The
  row count decides at the end: as many whole rows as were counted, out of the listed objects, are all
  of them.
* `CrossEngineProofs`: every entity behind the command was compared with what the caches hold, or
  raised for a reason. `ComparePassedMeansIdentical` and `CompareDisagreements` follow.
* `CandidateProofs`: a closed cutoff takes no further change, however batches overlap
  (`SourceClosedCutoffIsFrozen`); with `~Overlap`, `SrcInv` says that batches come one after another
  and the log is in their order, so events and history differ by late deletes only
  (`SourceSilverMatchesHistory`). The other results assume `TouchFirst` alone: neither `~Overlap`,
  `~Repeat`, completed cutoffs nor one partition. `UpToDate(b)` says that all events of a closed
  cutoff have arrived and that what is built of its run is right. No step takes that away: the source
  adds nothing at the cutoff, Spark reads the same events again, a merge of equal rows changes
  nothing, a removed candidate is built afresh (`CandidateKeepsTruth`). Then the gate passes at every
  later validation and the verdict stays (`CandidateVerdictStands`), where `PipeInv` supplies that a
  run on show is recorded and a recorded one has its tables. `CandidatePublishesSource` concludes for
  readers: from the moment a run is up to date, whenever it is on show they see the source. That
  moment is not promised: a run can be published before it (`candidate_partitions`).
  `CandidateImplementsPublication` and `CandidateSparkReadsArchive` compose the modules and assume
  nothing of the switches.

Only model-checked: liveness (`PendingResolves`, `EventuallyPublished`, `EventuallyCommitted`,
`EventuallyLoaded`), since the prover handles neither fairness nor `ENABLED`, and that with one
partition and no repetition the mart on show is the source although runs were built before all events
had arrived (`PublishedMatchesSource` in `candidate_in_order`). All other invariants and action
properties that a passing run checks are also proved, under the assumptions above. What a recursive
definition computes for all inputs needs induction over data, out of the prover's reach;
`CurrentState` therefore folds by steps of a state machine.

Assumed of the environment and never proved: `SenderAssumption` and `OrderAssumption` (what Debezium and
PostgreSQL provide), `IngestionAssumption`, and the switches of `Candidate` named above. Proved and in no
run: `PublicationNeverAhead`, `PublicationNeverRegresses`, `IngestionSnapshotsAdvance`, `PoisonedForGood`,
`CandidateImplementsPublication`, `CandidateSparkReadsArchive` and the two parser theorems.

## 6. Plan

1. Done: promotion on both engines with the abstract promise, current state, source history, the
   pipeline, parsing with ingestion and backfill, the Snowflake load under cleanup, the comparison, the
   dashboard; proofs of their safety, of the parser for every record, of the archive, and of how the
   pipeline rests on the publication and the archive.
2. Worth adding: the DAG's task retries and timeouts and single cleared tasks (docs/runbook.md:68) in
   `Candidate`; two tables with a foreign key, whose topics lag each other, and the facts that join
   them; several intervals with one cutoff; the lock a Snowflake UPDATE takes.

Not modelled:
* dbt staging and intermediate models and macros: projections and joins without state of their own.
* Gateways: adapters over the drivers; their transactions appear in the promotion and load modules.
* Command lines, settings, streaming configuration: they check arguments; the mode, cutoff and end of
  interval they carry appear in `Ingestion`.
* Metrics and logging: no decision reads them.
* Deployment files and object store URIs: no program logic. That paths of different runs, batches and
  dates differ is what `AtPath` stands for.
* The wording of reports, the columns and seed data of the source, the figures of the dashboard.
