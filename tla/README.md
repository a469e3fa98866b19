# Formal verification of opentrade-registry

TLA+ models of the parts of this repository that keep state under concurrency
and failure, TLC configurations that check them on small instances, and TLAPS
proofs of the main results for every value of the constants.

Contents: [the system](#1-the-system), [the models](#2-the-models),
[the runs](#3-the-runs), [disagreements found](#4-disagreements-between-code-and-documentation),
[the proofs](#5-the-proofs), [what is left out](#6-what-is-not-modelled),
[the plan](#7-plan).

## 1. The system

opentrade-registry downloads official contractor-licence files, normalises
them and publishes them.  It exists twice over one set of adapters and schemas:
as a local library and CLI that write files and a SQLite cache, and as a private
hosted platform made of an operator command, a worker, Postgres, an
S3-compatible archive and an HTTP API.

```
 staging file --> enqueue command --> archive (S3)        clients
      |              |     ^                                 |
      |              |     | storage health document      record API
      |              v     |  (storage monitor)              |
      |        source_snapshots, worker_jobs                 v
      |              |                          current_records, developer keys
      |              v claim / heartbeat                     ^
      +------> worker loop + import handler -----------------+
               import_manifests, record_versions     promote_import

 official server --> download --> source file --> adapter (rows, records)
                                                      |
              registry.sync / verify, CLI <-----------+
                     |            `--> export file
                     v
          SQLite image in memory --> cache file
```

### Inventory

| Part | State it keeps | Operations | Talks to |
| --- | --- | --- | --- |
| Job queue: `infra/postgres/migrations/0003`, `ingestion-worker/src/worker.ts` | `worker_jobs`; per worker the running job and its abort signal | enqueue, claim, heartbeat, complete, fail, cancel, requeue | the handler, operators |
| Import handler: `import-handler.ts` | phase of an import, counts, rows staged so far | verify, create manifest, stage, validate, promote, mark failed | queue, tables, archive, health document, adapter |
| Staging and promotion: `0001`, `createPostgresImportStore` | `import_manifests`, `record_versions`, `current_records`, `record_changes`, locks | the statements of the store, `promote_import` | import handler; the record API reads `current_records` |
| Snapshot intake: `enqueue.ts`, `enqueue-command.ts`, `archive.ts`, `snapshot-file.ts`, `0004` | `source_snapshots`, archived objects, the staging file | inspect, archive, register and enqueue | archive, Postgres, health document |
| Storage pressure: `storage-pressure.ts` | the health document and its age | measure, write, admit | disk, enqueue command, import handler |
| Local cache and sync: `packages/storage-sqlite`, `packages/registry` | records, import runs, redactions; an image in memory and a file | sync, checkpoint, resume, redact, prune, save, verify | adapters, file system |
| Record API: `services/record-api` | developer keys, daily usage, rate windows, verification jobs | authenticate, limit, search, get, verify, manage keys | Postgres, Supabase |
| Source download: `packages/registry/src/network.ts`, `archive.ts`, `snapshot-resolvers.ts`, `packages/cli/src/import` | temporary directories and files, the export file | resolve, fetch, follow redirects, extract, export | network, file system |
| Adapters: ten packages `packages/adapter-*`, twelve adapters | none; a reader while it reads | stream rows, map, normalise, warn | files |
| Core: `packages/core` | none | CSV, schemas, normalise numbers, migrate, verify | - |
| CLI, registry data, hosted metadata `api/`, web site, scripts | JSON files | parse options, build, serve | - |

### What is hard, and what makes each part correct

* **Job queue.** Workers die, go silent and come back; operators cancel and
  requeue at any time; the answer to a statement may be lost.  Correct means:
  only the latest claim decides a job, attempts stay within their budget, final
  statuses are final, a cancellation is not hidden by a completion, silent
  workers are replaced, revoked ones stop.
* **Import handler.** Every database call may be rejected, with or without its
  effect, and two attempts may overlap after a takeover.  Correct means: a
  completed job has published every key of its snapshot, two attempts never
  write into one manifest, an early cancellation prevents the publication.
* **Promotion.** Five statements in one READ COMMITTED transaction, concurrent
  with promotions of the same source and with `markFailed`.  Correct means: to
  a reader the dataset of a source is replaced in one step, and the change log
  replays to the dataset.
* **Snapshot intake.** A file anybody may replace, an archive and a database
  without a common transaction, commands that die and are repeated.  Correct
  means: what is registered is archived, what is published is what was
  registered, and a repetition is never refused without a cause.
* **Storage pressure.** A stale document, a clock that is stepped back,
  thresholds that change process by process.  Correct means: nobody is admitted
  on a measurement that is too old or below their own limit.
* **Local sync.** Checkpoints, aborts, process death, failing saves, and two
  processes that save the same file in turn.  Correct means: a resume point is
  never ahead of the records in the same image, rows count once, a strict
  sync that fails otherwise than in a save leaves the records alone; what is redacted is gone and what has a
  retention date is removed after it.
* **Reading a source file.** Blank, short and broken lines, headers that are not
  the first line, limits, aborts and resumed reads.  Correct means: every line
  is a row once, an error, or nothing at all.
* **Adapters.** Ten sources with ten ways to say that a licence ended.  Correct
  means: no licence is current against its date, nor against the words of its
  source as far as the adapter looks for them, and what is not understood is
  warned of.  Section 4 has the words that are overlooked and the texts nobody is
  warned of.
* **Download.** Servers redirect, stall, lie about lengths.  Correct means:
  only declared hosts are asked, and nothing is left behind whatever fails.
* **Verification.** Four ways to ask for one licence, over a file, a cache and
  the published dataset.  Correct means: they do not contradict each other
  about the same file.
* **Record API.** Requests race each other, revocations, midnight and
  promotions.  Correct means: no answer beyond a quota, windows that hold, immediate
  revocation, pages that neither repeat nor lose rows.

`PROJECT.json` lists the hazards line by line with the properties that cover
each, and says why where no property does.

## 2. The models

| Module | Models | Rests on |
| --- | --- | --- |
| `JobQueue` | `worker_jobs`, the functions of migration 0003, `worker.ts` with an arbitrary handler | |
| `ImportWorker` | `createSnapshotImportHandler` inside that loop, call by call | EXTENDS `JobQueue`, implements it |
| `SourceDataset` | the promise of promotion: one atomic replacement per manifest | |
| `Promotion` | staging tables and `promote_import` statement by statement | implements `SourceDataset` |
| `StoragePressure` | monitor, document, admission | |
| `SnapshotIntake` | enqueue, archive, registration, verification by imports | |
| `RateLimiter`, `DeveloperKeys`, `LicenseSearch` | the three stateful parts of the record API | composed by `MCRecordApi` |
| `CacheSync` | `OpenTradeRegistry.sync` over `OpenTradeSqliteCache` | |
| `AdapterCommon` | what adapters decide from, and the record schema as far as a row can fail it | |
| `AlaskaCommerce`, `ArizonaRoc`, `CaliforniaCslb`, `FloridaDbpr`, `IllinoisIdfpr`, `IndianaPla`, `MinnesotaDli`, `OregonCcb`, `TexasTdlr`, `WashingtonLni` | one adapter package each | `AdapterCommon` |
| `SourceAdapters` | the interface they share | the ten |
| `LicenseCache` | stored records: import, redaction, retention, prune | `SourceAdapters` |
| `RowStream` | the reader of a source file, line by line | `SourceAdapters`, whose formats it reads |
| `SourceDownload` | downloads, archives, the export of a sync | |
| `SourceLookup` | verification over file, cache and published records | |
| `MCEnqueue`, `MCRegistry`, `MCRecordApi` | one instance for parts that keep no state in common | the parts |
| `*Proofs` | theorems about the module they are named after | |
| `MC*` | constants, symmetry and bounds for TLC | |

Common conventions.  A SQL function or statement is one action, since Postgres
makes it atomic; between two awaits of TypeScript nothing else of the process
runs, so the code between two awaits is one action as well; a process death is
an action of its own.  Definitions keep the names of the source where they can.
Definitions called `Faulty...` are forms the definition after them must *not*
have: no specification uses them, and `PROJECT.json` ("mutants") pairs each with
the property that notices it.

### JobQueue

`status`, `attempts`, `lockedBy`, `scheduledAt`, `cancelRequested` are columns;
`silence` is `now() - heartbeat_at`, counted up to one tick past the limit, all
that `claim_worker_job` reads of it; `scheduledAt` holds tickets since only its
order is read.  `running`, `runAttempt`, `aborted` are locals of `runOnce`.
`ClaimWorkerJob`, `HeartbeatWorkerJob`, `CompleteWorkerJob`, `FailWorkerJob`,
`RequestCancel`, `RequeueFailed` are the SQL functions; `Claim`, `Heartbeat`,
`Complete`, `CompleteUnheard` (the statement commits, its answer is lost, the
catch block goes on to fail the job) and `Fail` are what a worker does around
them.  `skipped` in a claim is the set of rows another transaction has locked
(`for update skip locked`).  Worker ids are assumed distinct between processes
that run at the same time: `locked_by` is the only fence, and the configuration
of `infra/compose.yaml` gives each worker one id.

### ImportWorker

Adds `manifest` and `versions` (the manifest of a job and the keys it has
versions of) and per worker `phase`, `read`, `seen`, `rejected`.  A snapshot is
the sequence of keys its rows normalize to: the first row of a key is staged and
followed by a heartbeat, a later one is skipped without either
(`SkipDuplicate`), and a row that does not normalize is rejected.  Each call of
the handler is an action, so that it interleaves with the heartbeat timer
(`TimerHeartbeat`), with SIGTERM (`Stop`), with operators and with other
workers.  A constant `Faults` switches the environment's misbehaviour on:
process deaths, rejected statements (with and without effect), bad rows or
failing archive and storage calls, and shutdown.  `promote_import` is one step
here; `Promotion` shows that it may be.

### SourceDataset and Promotion

`SourceDataset` has one action, `Publish`: the dataset of a source becomes the
content of one manifest and the feed gains exactly their difference.
`Promotion` gives each database connection a transaction with a step counter,
the rows it wrote (`overlay`) and the change records it inserted (`logged`),
visible to itself until `Commit`; `rowLock` and `sourceLock` are the row lock
on the manifest and the advisory lock on the source.  A transaction may roll
back at each statement; the client may give up on it and mark the manifest
failed while it still runs.  `replica` is history: a reader that replays the
change log.

### StoragePressure

The document carries its real age and the steps the clock was set back since it
was stamped; their difference is what `now - checkedAt` yields.  The monitor
measures, writes a temporary file and renames it, in separate steps, and
restarts with other thresholds; callers read, then decide.

### SnapshotIntake

A process is an enqueue command or an import handler with a program counter.
Reading the file, `HEAD`, `PUT` with `If-None-Match`, the check after a refused
`PUT`, and the registration are separate steps; a process may die after each of
them, and the answer to each call may be lost (`Abandon`, and repetition by
another process).  `rewrites` is history: how often, up to two, the file of a
process was replaced while it ran.

### RateLimiter, DeveloperKeys, LicenseSearch

`RateLimiter`: `allow()` is synchronous, so it is one step (`Allow` or
`Refuse`); a window stores the time left until `resetAt`.  `granted` and
`started` are history.  `DeveloperKeys`: a request looks its key up, takes the
snapshot of the quota statement, then locks and counts; revocation, expiry and
midnight come between any two of these.  The query is parsed and the search runs
behind the count, so a counted request may still end in 400 (`RejectQuery`) or
500 (`RequestFails`, which covers lost answers as well).  `LicenseSearch`: one query per page,
any promotion between two pages; ids come from a sequence in the order
statements ran, which need not be the order of their commits.

### CacheSync

`file` is the cache on disk, `database[s]` the image a session holds in memory
(as committed), `transaction[s]` what its open import transaction has written.
`sync[s]` holds the locals of one `sync()` call with the await it stands at in
`pc`: reading the next row, normalising it, delivering it to `onRecord`, saving
a checkpoint, saving the final image, or saving in the catch block.  Rows are
good, invalid (normalisation rejects) or malformed (the parser rejects).  The
sequence of rows is assumed not to change while it is read.

### Adapters, LicenseCache

An adapter module has a column list, a row mapping, the forms of its dates, its
status and trade tables, its warnings and its record, in the order of the
package.  A cell is abstracted to what the code tells apart: a status text is
the *set* of words the code looks for that occur in it, in the source's order of
tests (so `{"inactive", "active"}` is INACTIVE); a date is a form and a day; a
number is blank, symbols that normalise to nothing, or plain.  A record keeps
for each of its fields the columns it was taken from, which is what redaction is
about.  `LicenseCache` stores the records of one adapter while rows change, days
pass, rows are imported, redacted and pruned; `promised` is history, the
retention date of the last sync.

### RowStream

`text` is a file as a sequence of lines (blank, header, short, broken, row);
`read` holds the locals of `streamMappedCsvRecords` with its place.  Csv files
with and without a header and workbooks take different steps, and which formats
exist comes from the adapters.  A read may be aborted, stopped by its limit or
by its consumer, fail on a strict error, and be resumed behind a row number.

### SourceDownload

`download` holds the locals of one call, by the registry or by the command line.
A server answers anything: `FollowRedirect` takes any URL.  `DownloadFails` may
come at each await.  `directories` are the temporary directories on disk and
the temporary export; `contacted` is history; `output` is the export file.

### SourceLookup

The published file, the cache after syncs of earlier and later files, and
`current_records` after imports.  `RegistryVerify`, `CommandVerify`,
`CacheVerify` and `ApiVerify` are the four answers.  `fresh` is history: which
of cache and dataset saw the file that is published now.

## 3. The runs

Passing runs:

| Run | Instance | Shows |
| --- | --- | --- |
| `queue` | 2 jobs, 2 workers, 2 attempts, lease of 1 tick | budgets, fencing, cancellation, final statuses; lapsed leases recover, revoked workers stop |
| `promotion` | 3 manifests of one source, 2 keys, 2 fingerprints, 2 connections | no mixture, complete change log, failures invisible, implements `SourceDataset`; every promotion ends |
| `import` | 1 job of 3 rows, the last a duplicate, 2 workers, 2 attempts, all faults | completed means published, whole, one handler per manifest, early cancellation; implements `JobQueue`; jobs settle |
| `enqueue` | gate: 1 caller, 2 measurements, 2 settings, 1 step of the clock; intake: 2 processes, 2 sources, 2 keys, 1 file, 2 contents | admission with room and while fresh, a monitor that never regresses; archived before registered, verified before published, no groundless refusal |
| `api` | 3 clients over a map of 2; 2 keys, 3 requests, 2 days, quota 2; 3 licences, 4 ids, pages of 1 | windows hold, quotas exact, revocation immediate, pages complete and disjoint |
| `registry` | sync: 2 sessions, 1 run, files of 2 and 5 rows, checkpoints every 2 records; license: 10 adapters, the rows below, 2 days; stream: every file of up to 4 lines; download: 3 hosts, 2 redirects, 1 chunk; lookup: files of up to 2 lines, 2 numbers | resume points covered, rows counted once, failed syncs harmless; statuses follow the source; redaction and prune; every line accounted for; declared hosts only, nothing left behind; lookups agree |

Why these bounds are enough to be interesting.  Two workers and two attempts are
what it takes for an old owner to meet a new one, and for the first owner to
claim the job again; a lease of one tick lapses in the middle of everything a
worker does.  Two connections and three manifests let one promotion commit
between any two statements of another and a third follow; two keys give every
mix of added, changed, removed and unchanged.  Two contents and one file let a
file be replaced and put back.  Three clients over a map of two force the sweep
and the refusal; three requests compete for a quota of two across midnight.  The
five rows of the long file contain each kind of row, a repeated fingerprint and
a checkpoint in the middle.

Bounds that are named in the modules: `MaxAttempts`, `StaleAfter` (queue),
`MaxBack`, `AgeLimit` (storage), `rewrites` up to 2 (intake), `LastDay`, `MaxId`
(API).  There are two state constraints.  `MCBound` in `MCRegistry`: syncs of the
short file, whose rows are all good, are not strict, and the long file is synced
by one session at a time, while two sessions interleave freely on the short
one.  `MCCanonical` in `MCPromotion` stands in for symmetry, which liveness does
not allow: manifests, keys and fingerprints are named in the order the first
manifest uses them, and every behaviour is a renaming of such a one.  Import runs have one job: handlers of two jobs share nothing but the
queue, and `queue` has two.  The parts of the record API share no state, so `MCRecordApi`
lets each behaviour exercise one of them while the others rest; so do
`MCEnqueue` and `MCRegistry`.

The rows of `license` are every status word, alone, in the combinations that
contain one another and once as a contradiction (probation and expired), with a blank, a padded and an unreadable expiry date on
either side of today; every trade; blank and symbol-only numbers.  Files of
`stream` are every sequence of three kinds of line, with and without a header
before them.  Three hosts are one that is declared, one that is not and the
loopback host.  Two lines are what it takes for one number to be twice in a
file, and two files for a cache to be behind.

`CHECK_DEADLOCK FALSE` is set where the system may stop: when every manifest of
`promotion` is promoted or failed, when days, keys and ids of `api` are used up,
and in the runs of `MCRegistry`, whose reads, cache days and syncs end.  Symmetry
is used only in runs without liveness properties.

Fairness.  `RecoveryFairness`: the clock runs, some worker keeps polling (the
loop of `main.ts`) and eventually meets the row unlocked, and a handler ends,
since streams and archive calls are finite.  `RevocationFairness`: the
heartbeat timer of `worker.ts` fires, and a handler whose signal is aborted
throws at its next look at it.  `FairImportSpec`: polling, and a handler that
waits for nothing but a finite call goes on; no fault is ever assumed to happen
or to cease.  `FairSpec` of `Promotion`: a running statement completes, and the
advisory lock, whose waiters Postgres queues, is granted if it is released again
and again (strong fairness on `LockSource` alone).

## 4. Disagreements between code and documentation

Each is a run that TLC must find violated.

| Run | Statement | What the code does |
| --- | --- | --- |
| `queue_abandoned` | `docs/ingestion.md:22`: migration 0003 adds "stale-job recovery ... and dead-letter state" | a job whose worker dies during its *last* attempt can be neither claimed nor requeued and stays `processing` |
| `import_retry` | `docs/ingestion.md:24`: "Worker retries must preserve the manifest and snapshot identifiers" | a retry inserts the manifest again and fails on the unique constraint of migration 0001; no retry of such a job can succeed |
| `import_failed` | `docs/security-threat-model.md:38`: "Failed imports never replace valid current data" | when `complete_worker_job` rejects after `promote_import` committed, the published import is recorded as failed |
| `redacted_address` | `docs/storage.md:15`: cache records can "redact phone, email, website, address lines, or personnel" | `redactCanonicalRecord` clears the first two lines of an address; the third, which the schema has and the adapters of Florida and Texas fill, stays |
| `unusual_status` | `docs/adapter-authoring.md:105`: "Unknown source values should become warnings ... Do not silently drop unusual statuses or classifications"; `docs/adapters/minnesota-dli.md:33`: "Unknown labels map to `unknown`" | Minnesota and Washington look for "active" and have no rule for inactive: an INACTIVE licence becomes active and current, without a warning.  Indiana and Minnesota leave every other text they do not know as `unknown` without a warning |
| `api_revoked` | `docs/hosted-v2-api.md:44`: "API-key failures return `401`" | a key that dies between the lookup and the quota statement makes the request end in 500 |

Observed while modelling, without a run:

* No code writes `source_health`, which `docs/ingestion.md:12` lets a promotion
  commit together with the records.  The table is not modelled.
* A redaction drops the import run of the rows it rewrites, keeps the licensee's
  name when personnel are removed, and lasts until the next sync of the row.
* An import keeps the first of two licences with one normalised number, so the
  API answers `indexed_match` where the file is ambiguous; its own branch
  `ambiguous` cannot be reached, since `current_records` is unique per number.
* A row that cannot be mapped fails the `verify` command while the registry
  only warns.
* The command line registers no adapter for Alaska, Illinois and Indiana.

## 5. The proofs

All theorems hold for any finite or infinite sets of jobs, workers, manifests,
keys, files, sessions, rows and requests, and any values of the numeric
constants that satisfy the assumptions named in the modules (`...Assumption`:
null values differ from real ones, limits are numbers, an input is of the form
the module's comment gives it).  One says more than a type:
`FingerprintAssumption` of `CacheSync`, that rows of different contents have
different fingerprints, as those of a SHA-256 over the whole row do.  The
theorems are checked by tlapm with Z3, Zenon and, for the temporal steps, LS4.

| Module | Theorems (property) |
| --- | --- |
| `JobQueueProofs` | `TypeCorrect`, `RetryBudgetHolds`, `CancelNotLostHolds`, `LatestAttemptDecidesHolds`, `FinalIsFinalHolds` |
| `PromotionProofs` | `TypeCorrect`, `NoMixedDataset`, `ChangeLogIsComplete`, `FailureIsInvisible`, `PromotionImplementsDataset` |
| `ImportWorkerProofs` | `WorkerImplementsQueue`, `ImportTypeCorrect`, `CompletionIsTruthful`, `NoPartialPublication`, `ManifestHasOneHandler`, `EarlyCancellationHolds` |
| `StoragePressureProofs` | `PressureTypeCorrect`, `AdmissionNeedsRoom`, `AdmissionIsFresh`, `MonitorOnlyImproves`, which give `GateHolds` (`GateIsSound`) |
| `SnapshotIntakeProofs` | `IntakeTypeCorrect`, `RegistrationIsBacked`, `PublicationIsVerified`, `RefusalsAreConflicts`; `EnqueueImplementsItsParts`, `EnqueueTypeCorrect` |
| `RecordApiProofs` | `LimiterTypeCorrect`, `WindowsHold`, `QuotasAreExact`, `RevocationsAreImmediate`, `NoSteadyRowIsMissed`, `NoRowIsRepeated`, which give `PaginationHolds` (`PaginationIsExact`); `ApiImplementsItsParts`, `ApiTypeCorrect` |
| `CacheSyncProofs` | `SyncIsInductive`, `SyncTypes`, `ResumePoints` (`ResumePointIsCovered`), `RowCounts` (`RowsCountOnce`), `FailedSyncs` (`FailedSyncChangesNothing`) |
| `RegistryProofs` | `SourceDownload`: `DownloadTypes`, `DownloadsStayOnDeclaredHosts` (`OnlyDeclaredHosts`), `DownloadsCleanUp` (`NothingIsLeftBehind`); `SourceLookup`: `LookupTypes`, `VerificationsAgree` (`LookupsAgree`); `RowStream`: `StreamTypes`, `LinesAreAccounted` (`EveryLineIsAccounted`); adapters and `LicenseCache`: `LicenseIsInductive`, `LicenseTypes`, `RedactionHides` (`RedactedIsHidden`), `PrunesKeepPromises` (`PruningKeepsPromises`), `StatusesFollowSource` (`StatusFollowsSource`); all of them: `RegistryImplementsItsParts`, `RegistryTypeCorrect` |

The arguments:

* **Queue.** `QueueInvariant` adds `OwnerRunsLatestAttempt` to the checked
  invariants: a worker that owns the row of its job runs the attempt the row
  counts.  Without it nothing excludes an old owner whose late answer decides a
  later attempt.  The action properties follow from it step by step.
* **Promotion.** `PromotionInvariant` says what a running transaction relies on
  at each statement: it holds its locks (`LocksHeld`), so the committed dataset
  of its source does not move; hence what it wrote (`OverlayExact`) and logged
  (`LogExact`) is exactly the difference to its manifest when it commits.  The
  same facts map `Commit` to `Publish` and every other step to a stutter.
* **Import.** `WorkerImplementsQueue` maps each handler step to a queue step or
  a stutter, so the theorems about `JobQueue` hold of the worker.
  `ImportInvariant` ties each phase of a handler to the status and the keys of
  its manifest (`HandlerExact`), and each status of a manifest to the handlers
  that may hold it (`ManifestExact`); the unique constraint gives the second.
  For cancellations, `Doomed` is an invariant from the request on.
* **Storage.** `PressureInv` bounds the clock steps hidden in every document
  (`StampsBounded`) and says that a measurement under way is not older than the
  published one (`MeasuredIsNewer`).
* **Intake.** Objects never change and snapshots never go away, so what a
  process saw in the archive stays true (`ObjectSeen`); what it knows of its
  file is lost only by a replacement, which `rewrites` counts
  (`EnqueueSound`, `ImportSound`).
* **Record API.** A running window is as old as the history says
  (`WindowIsCurrent`), and the sweep only takes expired windows
  (`SweptWindows`).  For the quota, a request takes the next number while the
  usage row is locked and keeps it whatever becomes of it, so `QuotaIsExact` is
  inductive; a request that
  arrived after its key died is still at the door or refused (`DeadIsRefused`).
  A page is a prefix of the ids behind the cursor (`PageIsPrefix`) and the last
  one is all of them (`LastPageIsWhole`), so up to the cursor the client has
  every steady row and beyond it none (`PagesSoFar`).
* **Local sync.** `SyncInv` says of a session what its place in the file stands
  for (`GoodSync`): the open transaction over the committed image covers the rows
  read so far, the counters are those of this prefix, and the image a checkpoint
  leaves behind covers the resume point it stores.  Two images matter, the one in
  memory and the one on disk, and each is good on its own (`GoodImage`), so it
  does not matter which session saved last.
* **Download.** `CallInv` splits calls into those that download, those that read
  a local file and none.  In the first, each URL contacted passed the test for
  the hosts of the call, which are the declared ones or loopback alone; in all of
  them `directories` and `output` are functions of the place of the call
  (`DirectoriesAt`, `OutputAt`), `cleanup()` being the step to the last places.
* **Verification.** `LookupInv`: after a sync the cache contains every good line
  of the file; current records are unique per number, come from good lines, and
  exist for every number of the file, of which every line was good.  Finiteness
  is part of it: `ambiguous` counts matches.
* **Reading a source file.** `StreamInv` relates a reader's `position` to the
  lines: nothing is taken ahead of it, and behind it every line has been taken,
  reported or skipped as its kind asks for, from the line a resumed read starts
  after.  A resumed read passes broken lines again, which is why those are
  reported *at least* once.
* **Adapters.** `FirstHit` and `NoHit` compute a chain of ifs, and `ChainOf3` to
  `ChainOf7` unfold one.  With them each adapter's record of an arbitrary row is
  shown to be a `GoodRecord`: it has a status of the schema, is not current past
  its date unless on probation nor against the words the adapter looks for
  (`NotEnded`, in terms of `Said`), warns of what it does not understand, and keeps private columns
  apart (`PrivateColumns`): what holds the telephone number or an address line
  goes into no field that a redaction of that field leaves.
* **License cache.** `LicenseInv` says that an entry is the record its adapter
  makes of its row, but for the fields redaction emptied, so what holds of
  records holds of the cache.  `StatusFollowsSource` measures a record by what
  its adapter looks for (`Said`), and is proved of every row.  It does not say
  that no record is current against the words of its source, which is false:
  Minnesota and Washington take inactive for active, Washington looks for neither
  "revok" nor "expired", Alaska, Illinois, Indiana and Florida let probation go
  before inactive and expired, and Oregon and Texas publish no status.  The run
  `unusual_status` shows the first of these.

* **Compositions.** `MCEnqueue`, `MCRecordApi` and `MCRegistry` let one part
  move while the others rest.  `EnqueueImplementsItsParts`,
  `ApiImplementsItsParts` and `RegistryImplementsItsParts` show that a behaviour
  of the composition is a behaviour of its parts, so the theorems about
  `PressureSpec`, `IntakeSpec`, `LimiterSpec`, `KeysSpec`, `SearchSpec`,
  `SyncSpec` and `DownloadSpec` hold of it, and those about `LicenseSpec`,
  `StreamSpec` and `LookupSpec` where that part moves.  A part that rests has
  its types if the state it rests in is one of the instance: `EnqueueTypeCorrect`
  takes the measurement and the thresholds of `PressureRests` to be among the
  constants, `RegistryTypeCorrect` the file without lines.

Every inductive invariant was model-checked on these instances before it was
proved.

Model-checked only: liveness (`LapsedLeaseRecovers`, `RevokedWorkerStops`,
`JobSettles`, `PromotionEnds`), which needs ENABLED.
Facts that need induction over data are out of the reach of the installed
provers: of a file the proofs use its length and its lines, and what is summed
over it is counted as a cardinality.

## 6. What is not modelled

* The characters of a file: the CSV automaton and the assembly of lines across
  chunk boundaries (`parse/csv.ts`, `parse/lines.ts`), and workbook parsing.
  `RowStream` starts at lines.
* The source file is assumed not to change while a sync reads it.
* The migration of records to version 2, the schemas of the registry and
  `buildPromotionPlan`, which only tests call.
* The verification job that the hosted route inserts: nothing in the repository
  consumes the queue `browser_lookup`.
* Token checks of the record API, which are calls of Supabase; HTTP servers;
  the commands `sources` and `validate`, which print; loading of adapters and
  policies at start-up; grants and row-level security, on which the models rely;
  registry data, metadata API, web site and scripts, which compute one output
  from files and keep no state.
* Inside modelled parts: the contents of texts and columns, counters of
  manifests beyond the number of rows, secrets and hashes, SQL types, wording of
  errors, the kinds of limit an archive may break (one failure stands for them).
* The overlap of two registrations of one snapshot: `Register` is one step, since
  the unique indexes make the second call wait.  The constraint on `object_key`
  is not the one `on conflict` names, so Postgres may answer the second call with
  an error instead of the snapshot; it finds the snapshot when it is repeated.
* A failed `save()` is a step of `CacheSync`, but `FailedSyncChangesNothing`
  exempts it: after the commit the new records stay in the image in memory.
* Process deaths during a download or an export: the temporary directory, or
  file, of a killed process stays, and no code looks for it.

## 7. Plan

Done: all modules of section 2, and a theorem for every safety property the
passing runs check.

Left: steps towards liveness that need no ENABLED, as for `LapsedLeaseRecovers`
that a lapsed lease stays lapsed until a claim or an operator ends it; and the
parts of section 6 that keep state.
