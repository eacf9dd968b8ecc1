# Self-host: TLA+ models, model checking and proofs

This directory holds a verification development for Self-host, a platform that
stores time series, datasets and other records of IoT installations in
PostgreSQL (and datasets, optionally, in S3) and runs user programs on them.
The models are translated from the Go and SQL source; `PROJECT.json` maps every
definition to the lines it stands for.

## 1. The system

| Component | State | Operations | Interacts with |
|---|---|---|---|
| **Rollup tables** (migrations 000010, 000016, 000018) | `tsdata`, `tsdata_hourly_rollups`, `tsdata_daily_rollups` | statement triggers after INSERT/DELETE of samples, and after INSERT/UPDATE/DELETE of hourly rows | fired by every write to `tsdata` |
| **Time series writes** (`internal/services/timeseries.go`) | the `timeseries` table | add, update, delete series; add data in batches of 256; delete a range | rollup tables |
| **Time series queries** (same file) | none | raw and aggregated queries, from samples and rollups | rollup tables |
| **Datasets** (`dataset.go`, `dataset_storage.go`) | the `datasets` table, objects in S3 | add, update, delete, download with ETag | S3, uploads |
| **Dataset uploads** (`dataset_upload.go`) | `dataset_uploads`, `dataset_upload_parts`, multipart uploads or part files | create a session, send a part, list, cancel, assemble | datasets, S3, file system |
| **Ingester insamlare** (`internal/insamlare`) | a message queue, a point queue, a buffer per series | MQTT callback, transform workers, writer with timed flushes | MQTT, `tsdata` |
| **Program manager juvuln** (`api/juvuln`, `cmd/juvuln`) | cache of signed program revisions, cron entries, workforce | refresh by mark and sweep every minute, dispatch, worker registration and status | database of each domain, workers |
| **Workforce** (`pkg/workforce`) | workers with load and time last seen | add, delete, set load, choose, clear the inactive | program manager |
| **Worker malgomaj** (`api/malgomaj`) | program cache and library cache with expiry timers | run a task, report the load | program manager |
| **Access control** (`policy_check.go`, `policy_validation.go`, `middleware/policyvalidator.go`, `access.sql.go`) | policies of groups, a decision cache per request | decide one access or many, list what is readable, add, change and delete policies, refuse shadowed ones | every API call |
| **Users, groups, tokens, things** | their tables | create, rename, change memberships, delete, list | access control, references |
| **Programs** (`program.go`, `programs.sql`) | programs and code revisions | add a revision, sign, delete, choose the revision to run | program manager |
| **Alerts** (`alert.go`, migration 000005) | alerts | merge or create, update, expire | - |
| **Rate control** (`middleware/ratecontrol.go`) | a limiter per API key | look up, clean up | every API call |

`cmd/selfctl`, the benchmark tools, the test broker and generated code keep no
state of the system and are left out.

What is hard about it: every API call is several database statements and object
store calls without a common transaction, so requests interleave between any two
of them, fail after some of them, or stop half way; the rollups are kept by
triggers that fire triggers; answers are put together from several statements;
the ingester, the caches and the workforce are concurrent with timers,
timeouts and lossy queues. The list is in `PROJECT.json` under `hazards`, each
at its line, with the properties that would notice it go wrong.

What makes each part correct:

* rollups: each row equals a scan of its samples, after any sequence of writes;
* series writes: nothing stored is overwritten, nothing is stored for a series
  that does not exist, bounds hold;
* queries: every sample in the range is counted once; a query that races writers
  answers something between what stayed and what was ever there;
* datasets: row, checksum and object belong together; no dataset touches the
  object of another; 304 means the copy is current;
* uploads: limits on parts hold for what is assembled; a finished session leaves
  nothing behind in the object store;
* ingester: no point is lost but by a failure that is counted; shutdown ends;
* program manager and workers: what runs is the signed revision, a failing
  domain loses no programs, no deadlock of cache locks, a live worker is used;
* access control: every change was allowed to its caller; the rule that decides, the
  rule of the listings and the check for shadowed rules agree;
* alerts: one open alert per event unless calls overlap; rate control: no visitor gets
  more than its burst and what its bucket gained;
* programs: revision numbers are unique and never mean two codes.

## 2. Modules

| Module | Models | State and actions |
|---|---|---|
| `RollupTables` | the three tables and their triggers | `tsdata`, `hourly`, `daily`; `InsertStmt`, `DeleteStmt`: a statement with all its triggers is one step |
| `Timeseries` (extends it) | series, adding data, ingest, deletes | `series`, `request` (what each client's request has got to); `ReadSeries`, `ReadUnit`, `insertTimeseriesBatch` are the database calls of one request |
| `RangeSplit` | `splitHourlyRollupRanges`, `splitDailyRollupRanges` | pure operators |
| `TimeseriesQuery` (extends both) | `loadAggregateSources` and the aggregation | `query`, and the history variables `always` and `ever`; each read is one statement |
| `DatasetStore` | datasets, rows and objects | `dataset`, `object`, `request`, and the history variables `alone` and `trouble`; each database or S3 call is one step, `Abandon` is a crash, a cancelled context or a failed call |
| `DatasetUploads` (extends it) | upload sessions on both backends | `upload`, `staged` |
| `ModuleLibrary` | the library cache of a worker | `cache`, `lifetime` (the timer of each item), `lookup`; `Get` in its steps, the timers |
| `WorkerTasks` (extends it) | tasks of a worker and its program cache | `task`, `m`, `item` (timer and expiry function of each item), `mux`; the steps of `CreateTask` between two lock operations, the HTTP calls of programs, the steps of the expiry function |
| `Programs` | programs and code revisions of a domain | `program`, `code`, `signed`, the history variable `everSigned`; one action per statement |
| `Workforce` | the register of workers and the loop of each worker | `registered`, `load`, `loop`; the calls of the loop, which may be lost, timeouts, the sweep |
| `ProgramManager` (extends both) | refresh, scheduler, dispatch, connections, restart | `m`, `deletes`, `cron`, `refresh`, `conn`, `down`, `job`; `Begin`, `Query`, `Add`, `Commit`, `Execute`, ... |
| `TopicRoutes` | matching topics with filters and expressions, captures, the filter an expression subscribes to | pure operators; `FilterAccepts` is the broker's side, `LevelsAccept` that of the client library |
| `Ingest` (extends it) | `Runtime.Run`, subscription callbacks, `transformLoop`, `Writer` | `run`, `callbacks`, `msgCh`, `worker`, `queue`, `writer`, `buffer`, `stats`, `tsdata`, the history variables `log` and `excused`; every channel operation and every statement is one step, `Kill` and a panic end the process |
| `PointContract` | what the ingester promises about a point | `accepted`, `pending`, `stored`; `Accept`, `Settle` |
| `AccessRules` | `LIKE`, the decision, the rule of the listings, `policyShadows` | pure operators |
| `Accounts` (extends it) | users, groups, memberships, tokens, policies, things | the tables; one operator per statement or transaction |
| `Alerts` | `alert_merge`, updates, timeouts | `alerts`, the history variable `disturbed` |
| `RateControl` | the map of visitors, their token buckets, the cleanup | `visitors`, `buckets`, `doomed`, the history variables `admitted` and `regained` |
| `ApiServer` (extends the last three) | requests from the first middleware to the last statement | `req` (place in the code and what was read so far), the history variable `seen` (the rules the token of a request was judged by at the instants of the request) |
| `MCTimeseries`, `MCTimeseriesQuery`, `MCDatasetUploads`, `MCWorkerTasks`, `MCProgramManager`, `MCIngest`, `MCApiServer` | small instances | values for the constants |
| `RollupTablesProofs`, `TimeseriesProofs`, `TimeseriesQueryProofs`, `DatasetProofs`, `WorkerProofs`, `ManagerProofs`, `IngestProofs`, `ApiServerProofs` | theorems | - |

Correspondence worth knowing:

* `DailyAfterHourlyUpsert` has the order in which PostgreSQL fires the triggers of
  an INSERT ... ON CONFLICT DO UPDATE: those after UPDATE, then those after INSERT.
* A request's place in the code is its `pc`; the fields of its record are the local
  variables that live across calls (bounds and unit read earlier, `previousRef`,
  the checksum, the key).
* The object key depends on the dataset alone (`ContentRef`; `WriteRef` and
  `UploadRef` are not used), so keys are datasets.
* A checksum is the content it was computed from: hashes have no collisions.
* S3 is modelled from how `dataset_storage.go` uses it: a put replaces the object,
  completing needs an open upload and matching ETags, aborting an upload that is
  not open is an error. The consequence shows in the model: a session whose upload
  was completed and whose request then failed can be neither assembled nor
  cancelled.
* `MaxTotalSize` limits inline uploads only, as in the code.
* The query of the previous object reference (`dataset.go`, line 376,
  `dataset_upload.go`, line 246) may fail without ending the request: its error is
  dropped and the request goes on as if there were no object
  (`ReadPreviousRefFails`), as it does when the deletion of the old object fails
  (`DeleteOldObjectFails`). An update to empty content then succeeds and the old
  object stays. Both count as trouble in `UntroubledAgree`.
* An item of a worker's caches is named by the task that added it, so that a timer
  and the entry it was started for can be told apart from another task's. Both
  expiry functions delete by key, as in the code, whichever item is there by then.
* A `sync.RWMutex` lets no new reader in while a writer waits (`WriterWaits`). Locks
  that are released before the next call are not state: the step is atomic.
* The deadline of a program aborts its machine between two instructions, and
  `RunContext` waits for that. The `http` module of programs and the library use
  clients without a timeout and requests without a context (`tengo_mod_http.go`,
  lines 151, 271 and 435, `library.go`, line 138), so an answer that does not come
  keeps a task for ever, past its deadline too (`ProgramCalls`, `DeadlinePasses`,
  `CallReturns`, `CompileModuleArrives`), and the lock of the compiled code keeps
  other tasks of the same item behind it.
* The cache timeouts of a worker are 0 unless configured (`cmd/malgomaj/main.go`,
  lines 52 and 53), so a timer may fire as soon as it is started.
* Settings of a program (name, type, schedule, deadline, language) are one value;
  `Routines` and `Runnable` say what the type and the schedule make of it.
* `refresh.seen`, `refresh.asked` and `refresh.fresh` are history: what this refresh
  read, which domains it has done with, and whether it reached `Commit`.
* A worker has three states in the register: known and alive, known and late, not
  known. The clock is only this. One task is followed from scheduler to worker at a
  time, since tasks share nothing on the side of the manager.
* Ingester: `Stop` disconnects the client and closes the channel in one step. A
  message may be delivered again at any time, which is what a broker does that got no
  acknowledgement, and what publishers do. One value or series the database refuses
  fails the flush, and the whole batch is dropped. When a subscription is refused, Run
  closes the channel of a client that stays connected, so that a callback may send
  on a closed channel: the panic ends the process (`CallbackPanics`). `main` passes a
  context that is never cancelled; `Cancel` is for callers of `Run` that do.
* Where a timestamp comes from is decided sample by sample (`FromPayload`). On a fixed
  route a bare number takes the time of reception even if the route has a
  `timestamp_key`; an object of a JSON payload must then have the key, or the
  whole message is dropped. A script names series and timestamp of every point, and
  a point without a timestamp takes the time of its conversion. Readings of the clock
  are taken to differ.
* A route subscribes to its `subscription_topic` if it has one, else to its filter, else
  to the filter derived from its expression (`SubscriptionTopic`). The broker applies
  the rule of MQTT that a leading wildcard does not reach topics that begin with `$`
  (`Hidden`); the client library and the matchers do not know it. The library keeps
  one callback per filter, so a route that subscribes to the filter of an earlier one
  takes its messages away (`Superseded`), and it calls every callback whose filter
  accepts the topic, whichever subscription brought the message.
* API server: the middlewares run in the order policy check, author, rate control
  (the last one of the list in `server.gen.go` is outermost). A decision is kept
  for the rest of its request, so rights may be withdrawn between check and change.
* The scope of a request is made of the text in its URL (`policyvalidator.go`, line 75),
  whereas the handler works with the UUID it parses to, and several texts parse to
  one UUID. Calls carry both (`text` and `id`, `UuidOf` is the parse). A rule is about
  the text: one that denies `users/<uuid>` in one spelling says nothing about a URL
  with another, and the run has such a call. `ChangesAuthorised` therefore is about the
  resource as the URL spells it. Likewise the right to grant a policy is asked for the
  literal text of its pattern, not for everything the pattern covers.
* A user is not renamed to a name of three characters or less (`user.go`, line 353): the
  field is ignored, the rest of the change goes on (`ShortNames`).
* A resource is a sequence of path segments and a wildcard covers whole segments, as
  `validatePolicyResource` demands. `sqlLikeMatch` is greedy and may refuse what LIKE
  accepts: it errs on the side of accepting a rule.
* `UpdatePolicy` of two requests may combine into a rule neither of them was checked
  for (a field from each); `ChangesAuthorised` speaks of the other updates.
* `CreateThing` gives its policies to a group that has the uuid of its user. Only root
  has one; for anybody else the group is NULL and the statement fails.
* `DeleteUser` deletes the group of the user's present name, which need not be the
  one it was created with. Two concurrent replacements of a user's groups leave the
  union of both.
* `alert_merge` is an UPDATE and an INSERT. Two calls may both find nothing and open
  twins; from then on a merge matches two rows, which `RETURNING ... INTO` answers
  with an error until one of them is closed. A shelved alert is matched until its
  timeout has passed (migration 000005, lines 101 to 106), one whose status is
  `unknown` never is. `docs/alerts.md` says otherwise of shelved alerts: only an open or
  acknowledged one matches and else a new alert is added (lines 72 to 82), and a
  shelved alert never expires (line 66). The model follows the migration, and
  `TwinsNeedOverlap` claims nothing of shelved alerts.
* The cleanup of visitors may forget one that is in use: it then starts with a new
  burst, which `BurstHolds` accounts for.

## 3. Runs

| Run | Result | What it shows |
|---|---|---|
| `timeseries` | passes | `HourlyExact`, `DailyCovers`, `SamplesHaveSeries`, `NoOverwrite`, `DeleteRepairsDay` with two clients, the ingester, deletes and changes of the series |
| `timeseries_query` | passes | `QuerySplitExact`, `HourlyAnswerIsScan`, `QueryBracketed` |
| `dataset_uploads` | passes | `RowSound`, `UntroubledAgree`, `AssembledPartsLargeEnough`, `SessionsReleaseStaging` on both backends |
| `worker_tasks` | passes | `CachedItemExpires`, `LibraryEntryExpires`: nothing is cached without a timer still to remove it; `TaskAnswered`: a task that is never answered waits for an HTTP answer that does not come, or behind the task that executes its program and waits for one, or the worker is in the deadlock of the double read lock; there is no other way to hang a task |
| `program_manager` | passes | `SchedulerMatchesCache`, `CommittedCacheIsExact`, `OnlySignedRuns`, `ErrorsUnscheduleNothing`, `CacheConverges`, `RunningWorkerIsUsable` with edits, outages, closed handles, changes of the domain file and restarts |
| `ingest` | passes | `LossNeedsCause`, `StatsAddUp`, `RedeliveryStoresOnce`, `SubscriptionMeetsMatcher`; `KeepsContract`, that the pipeline implements `PointContract`; `PointsSettle` and `StopCompletes` (liveness), with repeated messages, failing statements, a refused subscription, cancellation, kills and restarts |
| `api_server` | passes | `ChangesAuthorised`, `ShadowedNeverDecides`, `ListedIsReadable`, `TwinsNeedOverlap`, `BurstHolds` with two clients whose requests overlap statement by statement and may be cut off, and URLs that spell a uuid in two ways |
| `timeseries_bounds` | violated | `OutOfBoundsRejected`: the ingester does not look at the bounds, the API looks at bounds read earlier |
| `timeseries_daily` | violated | `DailyAnswerIsScan`: one INSERT with a sample in a known hour and one in a new hour of the same day counts the new hour twice in the day |
| `dataset_etag` | violated | `NotModifiedIsFresh`: the object is overwritten before its row, so a failure (or a BadDigest answer) leaves new content under the old ETag |
| `worker_expiry` | violated | `BackgroundRoutineDeletesItem`: a task that replaces a cached program and the expiry function of the old item wait for each other, with the mutex of the cache held |
| `program_inactive` | violated | `InactiveShallNotRun`: with the database of one domain down no refresh commits, and an inactive program of another domain stays scheduled |

Bounds, and why they are enough:

* An hour of two ticks and a day of two hours with times 0, 1, 2 and 4: two
  samples in an hour, two hours in a day, two days, so that merging, inserting and
  refreshing happen at both levels and in one statement. Two values, so that
  minimum, maximum and sum differ. Batches of two and a body of three points
  make a request stop between batches; one body repeats a timestamp.
* Two clients: every hazard listed is a race of two requests (or of a request and
  the ingester). One series, as no statement relates two.
* Queries: windows on and off the bucket boundaries, inside one hour, empty;
  at most three statements on `tsdata` of at most two rows (`MaxWrites`, `MaxRows`).
* Datasets: one that exists, one that is created, one session, two parts, bodies
  below the minimal part size, large enough and too large, two clients and at most
  five requests (`MaxRequests`): enough for create, two parts, assemble and one
  request against them.

* Worker: three tasks of one program that imports nothing (a task that runs, one
  that replaces its item, one that meets both), or two tasks of a program with one
  module and a third beside them, or two tasks of a program that makes HTTP calls and a
  third beside them, which their waiting must not hold up. Timers fire at any moment after their start.
* Manager: two domains with a program each, one of them edited twice (`MaxEdits`),
  with two revisions and two texts; one outage, change of the domain file or
  restart (`MaxTroubles`); one worker. A failing domain and one that does not fail,
  before and after each other, is what the refresh has to cope with. Two edits are
  needed to give the number of a deleted revision to another text.

* Ingester: two workers, channels of one place and batches of two, so that every
  channel is full and every batch is both full and cut short by the ticker. Three
  routes: one that names its subscription, which is wider than its filter, a filter
  with `+` and `#` that reads timestamps, and an expression whose script makes two
  points, one of them for an unknown series. Four messages: one the matcher refuses,
  a sample with a timestamp, a bare number, and the one for the script. The topics
  add levels too many, too few and empty, and one that begins with `$`. Two
  deliveries, so that a message is repeated before or after a restart or meets another
  one in a batch; one chance failure, one restart.
* API server: five workloads (`MCWorkloads`), each the calls that can disturb each
  other: policies of someone with few rights while root withdraws some; users,
  groups and memberships with the same names; listings beside denials; one event
  merged, acknowledged, shelved, closed, set to unknown, reopened and deleted; pools of
  three or four uuids; one visitor with a burst of two. Three to
  five requests of two clients: every hazard listed is a race of two requests, after
  at most one or two that set the scene. The bursts of the first four workloads
  are never used up, those requests are not about rates.

CHECK_DEADLOCK is off for series, datasets, the worker, the ingester and the API
server: the bounded instances end when their bound is used up, and a server without
requests may rest. The
program manager never rests, and is checked for deadlock.

Fairness. Series, queries, datasets and the API server assume none: their properties are safety
properties, and every request may be abandoned.

* `worker_tasks` and `worker_expiry` assume weak fairness of the worker as a whole
  (`Working`): Go runs some goroutine that can run, timers fire, deadlines pass, and a
  program that is not inside a call ends by its deadline. Nothing is assumed of the
  answers to HTTP requests (`OutsideStep` is outside `Working`), for nothing in the code
  limits the wait for them. As every request and every timer has finitely many steps,
  nothing need be assumed of the order of goroutines or of locks.
* `program_manager` and `program_inactive` assume weak fairness of the refresh, of
  `PostEnds` and of the reconnecting routine. At the full minute the timer of the
  refresh and that of the sweep are ready together and `select` chooses at random:
  a refresh may be missed but not for ever. The loop of a running worker goes on;
  `Subscribe` and `ReportLoad` are strongly fair, for a call may be lost but not
  every one. A database is never assumed to come back: `CacheConverges` has it
  as its premise.

* `ingest` assumes that every goroutine that can go on does, that `select` takes every
  ready case eventually, and that a subscription is answered. Nobody has to publish,
  to cancel or to kill, and no statement has to succeed.

Each property is paired with a mutated definition (`mutants` in `PROJECT.json`)
under which its run fails.

## 4. Proofs

All proved for every value of the constants that satisfies the named assumptions.

* `RollupTablesProofs`: the incremental upsert and the refresh after a delete both
  give the hourly table a recomputation gives (`UpsertIsExact`, `RefreshIsExact`), from
  facts about cardinality, minimum, maximum and sum of disjoint sets of samples. For
  the daily table, `Covering` (a day has a row iff it has hours, with their minimum
  and maximum and a count that is not too low) is kept by the upsert, by the refresh
  and by both in the order the triggers fire (`DailyAfterInsert`, `DailyAfterDelete`);
  after a delete the rows of its days are exact (`DeleteRepairs`), for the refresh has
  removed the old ones and the hours recomputed are none of those left. `SUM` is
  `MapThenSumSet` of the community modules, a recursive function on the subsets of
  the rows. What it computes is proved by least counterexample: the sizes of the sets
  for which a fact fails have a least one (`MinExists`, from the well-foundedness of
  the naturals), and one row less is a set for which it holds (`SumOfUnion`,
  `SumType`, `SumOfOther`).
* `TimeseriesProofs`: `TypeCorrect`, `HourlyRollupsExact`, `DailyRollupsCover`,
  `NoOrphanSamples`, `SamplesNotOverwritten`, `DeletesRepairDays`. The inductive
  invariant is `TypeOK /\ HourlyExact /\ DaysCovered /\ SamplesHaveSeries`. `TypeOK`
  holds the UNIQUE constraint, without which new rows would not be disjoint from the
  stored ones and the upsert would not be exact; `HourlyExact` needs in turn that a
  deleted series has no samples, for its rollup rows cascade away. `DaysCovered` is
  `DailyCovers` with natural counts and a finite table.
* `TimeseriesQueryProofs`: `SplitIsExact`, about the operators of `RangeSplit`.
  Arithmetic of `%` is put in one lemma (`Truncate` is the multiple of the length
  just below), the rest is order. `HourlyAnswersAreScans` follows with `HourlyExact`:
  an hour of the answer has one rollup row and no sample read from `tsdata`, or only
  samples (`HourSources`). `AnswersAreBracketed`, `QueryRangeIsReadOnce` and
  `TypeCorrect` come from the inductive invariant `QueryInv`: the tables are those of
  `TimeseriesProofs`, what was read lies in the ranges done so far and contains every
  sample of them that stayed (`RawBracketed`), and the rollup rows of a finished query
  are those of the tables as they stay (`RollupsRead`). A daily row stands for the
  samples of its day because days are made of hours (`NestedTruncate`), and rows that
  each count at least their samples count at least all of them (`CountsCover`, by
  least counterexample again).
* `DatasetProofs`: `DatasetsTyped`, `RowsAreSound`, `RowsAndObjectsAgree`,
  `SmallPartsRefused`, `EndedSessionsRelease`. `RowSound` is not inductive: the
  row takes content, checksum and key from a request many steps old. The invariant
  adds `RequestsSound`, which says what the fields of a request are worth at each
  `pc` (a key is the dataset's own, an inline content is the one that was hashed, a
  session belongs to the dataset of the request). `SessionsReleaseStaging` needs
  `Lifecycle` and `Releases`: a session without a row belongs to a request that is
  about to release it, or has been released. `AssembledPartsLargeEnough` needs
  `PartsLarge`, that the parts a request is about to assemble were large enough when
  it looked, and that the object store refuses a part sent again in between.
  `UntroubledAgree` needs `History` (what the history variables `alone` and `trouble`
  know of the requests in progress), `Agreement` (row and object agree while nobody
  has disturbed them) and `Settled` (what a write that is alone has got done at each
  `pc`). A content sent in one piece has at most one body (`StoreAssumption`).
* `WorkerProofs`: `WorkerTyped`, `ProgramsAreForgotten`, `ModulesAreForgotten`.
  `CachedItemExpires` needs that an item is in the map only under its own program
  (`ItemsAtHome`), for its expiry function deletes by that, and the part of `TypeOK`
  that says who holds the mutex.
* `ManagerProofs`: `ManagerTyped`, `SchedulerFollowsCache`, `CommitIsExact`,
  `UnsignedNeverRuns`, `FailureUnschedulesNothing`. The invariant adds
  `MarkAndSweep`, what is true in the middle of a refresh (an added row is cached and
  not marked, what is cached is marked or was added, a domain is asked once, all
  domains are asked or still to ask), and `SignaturesKept`, that every signature in
  the tables and of every row still to add is on record.
* `IngestProofs`: `IngestTypeCorrect`, `NothingLostSilently`, `PipelineKeepsContract`,
  `StampedStoredOnce`, `CountersAddUp`, `MatchersAgree`. The type invariant needs
  `Room` (a worker that waits to enqueue, or a callback that waits to send, holds
  what is not yet in the channel). `Apart` says that a point is in one place of the
  pipeline at a time, without which a settled point could be in flight a second
  time. `StepEffect` says of every action which points it accepts and which it
  settles; the refinement of `PointContract` and `LossNeedsCause` both follow from
  it. `StampedStoredOnce` rests on the key of the table, and on `StampedKey`: where the
  timestamp comes with the sample, the key is a function of message, route and sample
  and not of the delivery. `MatchersAgree` is about all valid routes and all topics:
  broker, library and matcher compare level by level, so the proof goes by positions
  (`MatchedFits`, `FittingIsMatched`). Its exceptions are in the property itself: a later
  route with the same filter, `$` and a leading wildcard, an empty level, a literal `#`
  in an expression, and routes that set `subscription_topic`, for which nothing is
  claimed. `DollarAssumption`: no wildcard begins with `$`. `IngestAssumption` has what
  the loader of the configuration guarantees (`config.go`: positive sizes, valid topics).
* `ApiServerProofs`: `ShadowedDecidesNothing` and `ListedMayBeRead`, about all sets of
  rules, patterns and resources with at least one segment and priorities as the
  CHECK of migration 000020 allows them. The first rests on `CoversSound`: when
  `policyResourceCovers` says so, the segments a candidate matches can be laid along
  the existing pattern too. With `TablesTyped` they give `ShadowedRulesDecideNothing`
  and `ListingsAreReadable` for every reachable state. The inductive invariant
  `ServerOK` joins `TablesTyped`, `RequestsPlaced` (what a request holds at each
  `pc`), `AlertsOK`, `RateOK` and `Counted`; it gives `ServerTyped`.
  `TwinsComeFromOverlap` needs `AlertsSettled`, in which `NoLiveTwins` is about all alerts
  that `alert_merge` matches, shelved ones too: an alert that is open and that a call
  between its UPDATE and its INSERT has not seen is marked as disturbed as soon as the
  call inserts. `BurstsAreKept` needs `Budget`, for tokens are not created but for a
  new bucket and a tick: what a visitor was admitted and what is left in the buckets
  it can still reach (`Chips`, among them those that requests in progress hold) is at
  most the burst and what was regained. `ChangesWereAllowed` needs that every pair a
  request has had authorised is one its token had at some instant of the request
  (`Grants`); it holds whatever texts `UuidOf` parses to a uuid. The assumptions: pools of
  uuids are strings (`IdsAssumption`), literals
  are strings (`LiteralsAssumption`), and the bodies of the calls are of the types
  that the handlers and `validatePolicyRuleShape` let through (`ApiAssumption`).

Every invariant and every action property of the passing runs is proved. Only
model-checked, because the prover has no rule for liveness under fairness:
`PointsSettle`, `StopCompletes`, `TaskAnswered`, `CacheConverges`,
`RunningWorkerIsUsable`. The five runs that end in a violation are counterexamples and
have nothing to prove.

## 5. Not modelled

* A statement and its triggers are one step: two transactions whose triggers see
  different snapshots of the tables (READ COMMITTED) are not modelled.
* Values are integers: rounding of floating-point sums is not modelled. Times are
  microseconds and the database session is in UTC.
* Aggregates in other time zones, precisions under an hour, raw queries with a
  limit, filters by value and unit conversion of answers.
* The storage backend is fixed in a behaviour. A part file read while it is being
  overwritten, and a PUT that reaches S3 after its request gave up, are not
  modelled. Names, formats, tags and sizes of datasets are left out.
* Worker: what a program computes, the request and response a CGI program shares
  with its other runs, revisions of code and modules, the value of the load.
  `library.Add` and `library.Delete` are called by nothing.
* Manager: the endpoint that serves modules, the languages of a worker (no code
  looks at them), a run that finds no worker (it is dropped without a trace), the
  routine of a closed connection that may go on when Close meets its ping. Clocks are not
  modelled: a timer is enabled or it is not.
* The triggers after UPDATE of `tsdata` (migration 000016, lines 50 to 90 and 129 to 133):
  no statement of the program updates samples. PostgreSQL does when a user is
  deleted (`created_by` is ON DELETE SET NULL, migration 000010, line 7); the
  triggers then recompute the rollups of the hours from their samples, which is
  exact.
* Ingester: what a Tengo script computes (a message has the sequence of its points) and
  its time limit, expressions the loader cannot derive a filter from, shared
  subscriptions (`$share/...`), the time a statement takes, the counters of messages and flushes.
* API server: bodies the handlers refuse before their first statement, the endpoints
  that only read (single records, explanations of a decision, `Whoami`), texts that are
  no UUID, listings by
  tags, severity and texts of alerts. `UpdateThingByUuid` changes fields nothing else
  reads. `SetRequestRateForUser` is not implemented in the code. A resource with the
  character `_`, which LIKE takes for any character.
* Whether an allow outside the deny is listed: a listing hides whatever some deny
  matches, the documentation (`docs/access_control.md`) has the first rule decide.
  Only the direction listed => readable is stated.
* Two transactions whose triggers run at the same time are decided by snapshots and
  row locks of PostgreSQL, which are not in this repository.
* `cmd/selfctl` makes one HTTP call per command; the benchmark tools and the test broker
  are not part of the running system; configuration and slices keep no state.

How much of the code this is: of 45,662 lines of Go some 15,000 are generated data
types, client calls and plumbing (`client.gen.go`, `types.gen.go`, `models.go`, `db.go`, and
`server.gen.go` but for the scopes and the order of the middlewares) with no
behaviour of their own, and some 5,000 are the command line client, load generators
and test tools. The rest of what is not mapped is mostly decoding of bodies, encoding
of answers, read-only listings and configuration. The map names the lines that
change state or decide something.

## 6. Plan

Done: series and rollups, queries, datasets and uploads, the worker, the program
manager with the workforce, the ingester and its contract, the API server with access
control, accounts, alerts and rate control.

Left, in this order:

1. The worker composed with the manager, with revisions in its cache: which revision
   runs between a signature and the expiry of the item. The CGI state that runs of one
   program share.
2. An abstract specification of the manager (a set of deployed revisions per domain)
   that the refresh implements.
