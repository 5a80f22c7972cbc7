# Versio: formal specification

Versio takes a supplier's file, cuts it into chunks, converts the chunks in
parallel and merges the results into one file. This directory holds TLA+ models
of the parts where order, failure and time decide the result, the TLC
configurations that check them, and TLAPS proofs. Paths below are relative to
`src/src/apps/transformation/` unless they say otherwise.

## 1. The system

| Component | State it keeps | Operations | Hard behaviour | Model |
|---|---|---|---|---|
| Submission (`services/transformation_service.py`, `submit`) | idempotency key in Redis, job row, uploaded file | reserve, touch, create, resolve, dispatch, release, wait | concurrent duplicates, a reservation with a TTL, a death at any step | `Submission` |
| Split task (`split_and_dispatch_chunks`) | one input object per chunk, one message each | put, publish, in a loop | half-finished splits that run again | `JobPipeline`, `DataPath` |
| Chunk task (`services/chunk_processing_service.py`, `tasks/transform.py`) | chunk lock, output object, counters and `failed_chunks` of the row | lock, check output, begin, convert and flush, count, complete, unlock, record failure | redelivery, concurrent duplicates, a crash between any two writes | `JobPipeline`, `DataPath` |
| Merge task (`services/merge_service.py`, `mergers/`) | final object, errors file, DONE | list outputs, write, merge traces, complete | duplicates, missing chunks, late completion, order of rows | `JobPipeline`, `JobReports`, `DataPath` |
| Job row (`repositories/job_repository.py`) | status, counters, failures, start time | one UPDATE or locked read-modify-write per method | guards on terminal statuses | `JobRow` |
| Lifecycle, retry view, sweep (`services/job_lifecycle_service.py`, `views/retry.py`, `management/commands/retry_stuck_jobs.py`) | none: they act on a row they read | resume, resume_merge, mark_retrying, abandon | the row changes between the read and the write | `JobPipeline` |
| Job report cache (`views/job.py`, `cache/cache_adapter.py`) and the page that polls it | report per job, two TTLs | read-through, invalidate, download | a reader stores what it read before a write | `JobReports` |
| Templates, mappings, source fields (`services/template_*.py`, `mapping_service.py`, `source_field_service.py`, `repositories/template_repository.py`) and the seed command | DRAFT, PUBLISHED, DEPRECATED, parent tree, mappings | publish, revert, deprecate, update; create, update, delete of fields and mappings | check-then-act, whole-row saves, cascades against inserts | `TemplateEditing` |
| Template caches (`services/chunk_processing_service.py`, `cache/cache_adapter.py`) | mappings and fields per template, one TTL | read-through | nothing invalidates them | `DataPath` |
| Authentication (`src/src/apps/supplier_auth/`) | token rows, introspection cache | login, refresh, introspect | rotation against a cached answer | `SupplierSessions` |
| Dashboard (`src/src/apps/dashboard/`) | a session token in a signed cookie | introspect, refresh per request, login, logout | two requests refresh one token, answers out of order | `SupplierSessions` |
| Pure code (chunk size and ranges, converters, writers, mergers) | none | functions | boundaries | `DataPath` |

The API process calls Redis, S3 and PostgreSQL and publishes to RabbitMQ; two
pools of Celery workers consume (`docker-compose.yml`: chunk tasks have their own
queue and workers) and call the same three stores; the sweep and the retry
view read a row, write it and publish. The dashboard is a client of the API and keeps
its state in the browser's cookie. There is no transaction across stores and, but for the
issue of a token, none across two repository calls: everything that makes a job correct is
in the order of single atomic accesses. What each component must guarantee:

* submission: one job per file, template and supplier in a day; no caller blocked;
* pipeline: each chunk counted once, the merge only over all of them, DONE only
  over a whole file, no terminal job changed by a late task, every job finished
  after a crash;
* reports: stale only through a race, and for a bounded time; no promise of a file that
  is not there; no page that polls for ever;
* templates: what is published does not change; the fields stay a forest; every
  mapping's source field exists;
* data path: every convertible item on each sheet its mappings name, none twice, in order,
  whatever the chunks;
* authentication: a rotated token is refused, at the latest when its cache entry ends;
  one token per supplier.

## 2. Modules

| Module | What it is |
|---|---|
| `JobRow` | the row and JobRepository's writes, one operator per method |
| `JobPipeline` | one job: split, chunk and merge tasks, workers and queues, locks, faults, sweep and manual retry; extends `JobRow` |
| `JobOutcome` | abstract: chunks written once, merged when all are there, finished when merged; implemented by `JobPipeline` |
| `JobReports` | composes `JobPipeline` with the report cache, the polling pages and the errors file |
| `DataPath` | what is in the file: split, conversion and merge of one job, template caches, edits |
| `Submission` | identical submissions racing for one idempotency key |
| `TemplateEditing` | one template, its fields and mappings, requests and seed runs |
| `SupplierSessions` | one supplier account: dashboard requests, tokens, introspection cache |
| `TokenLife` | abstract: a token is issued once and refused for good; implemented by `SupplierSessions` |
| `*_proofs` | the theorems about the module of that name |
| `DataPath_sequences` | the lemmas of `DataPath_proofs` about the operators that select, order and join lines |
| `MC*` | workers, requests, fault sets, inputs and symmetry for TLC |

### JobPipeline

Every variable is a store: `job` is the row, `inputs`, `outputs` and `final` the
objects, `locks` the Redis keys, `queue` the messages in RabbitMQ. Each worker has a
program counter `pc` that names the next access to a store; a handler is cut at
every access, so two handlers interleave everywhere the real ones can. Work
between two accesses (validation, conversion) is part of the step before or after
it. `process()` is the sequence

    get, lock, exists, begin, flush, skips, clear, incr, complete, unlock

then, in the task, `record` (record_failure), `retry`, `handoff` (publish the merge)
and `ack`. A split is `put`, `send` in a loop; a merge is `mget, list, write, done`.

* `Take`, `Ack`, `Retry`, `Crash` are Celery on RabbitMQ with
  `task_acks_late` and `task_reject_on_worker_lost`: a message stays its worker's
  until `ack` and goes back to the queue if the worker dies.
* `Raise` is an exception at an access; `Handler` says where it leads: the
  `finally` of `process()`, then the task's `except`, and nothing catches one in
  either of those.
* `ConvertImpossible` is PermanentChunkError.
* An operator (a run of the sweep, or a request to the retry view) reads the row
  into `snap`, decides on it, writes the row and publishes the messages of
  `todo`: four separate steps, in which it may also die.
* `counted` is a history variable: the chunks counted since the last reset.

What is one step although it is more than one statement: `set_status(PROCESSING)` (two
UPDATEs; nothing between them can unset `started_at` but a reset) and
`completed()` (re-reads the row and skips a DONE one, which MarkDone leaves as it is).

Abstractions: a chunk is its index; an entry of `failed_chunks` is only
retryable or permanent; `skipped` counts one item per chunk that skips any; a job's
age is not modelled, and every comparison with a threshold can go either way. With
`HitLiveJobs = FALSE` an operator acts only when nothing of the job is queued or
running, which is what `settings/base.py` calibrates the thresholds for ("this never
fires on a job that's merely slow").

### JobReports

Extends `JobPipeline` and takes its steps as they are. Every write that goes through
JobLifecycleService is followed by an invalidation of the cached report, a step of
its own: the actor `owes` it and does nothing else until it is made, fails or the actor dies.
What is owed is decided by the step (`WorkerOwes`, `OperatorOwes`): `completed()` stops at a
DONE row, `resume_merge` and `mark_retrying` write only sometimes. A page's request is
JobView: `cache`, `row`, `exists` (the errors file), `fill`; between `row` and `fill` its
`draft` can be overtaken. `RequestFails` is a store that fails under it: `get_batch` then returns
None and the page shows `_error()`'s fragment, which polls no more (`AtRest`), or nobody
answers and the 204 of UpstreamErrorMiddleware leaves the page as it was. A request its page gave up
on and that still fills the cache is one of another page. `traces` and `errorsFile` are the skip traces and what the
best-effort merge made of them; `hasOutput` is `output_storage_path`, which a reset clears.
`overtaken` and `unswept` are history: they say which drafts the row has moved on from and
whether the entry can outlive the row it was read from. Time is the ticks left to the entry.

### DataPath

`JobPipeline` says when split, conversion and merge run; `DataPath` says what they do to the
items. The job's source is a sequence of kinds of items: convertible, without a value on some
sheets or on all, rejected by the validator, one a handler raises on, not an object, converted to
a value a writer refuses. The split cuts `ChunkFrom(start)` until the
source ends and may start again at any time; workers load the mappings and the fields
through the cache, which `Strangers` (workers on other jobs of the template) fill too, read the
metadata uncached, convert, and write a file: a function from sheets to lines, a line being
a heading or an item's row with the versions it was made with. The merge reads the metadata
again and joins the files as the merger of the format does.

`Fate` is what becomes of an item under the loaded parts: a template without fields asks nothing
of an item and leaves it no values, one without mappings shows it to no handler. An empty list in
the cache counts as a miss (`Usable`) and is written again. A row without any value (`Blank`) is a
row without cells in a workbook and, in a csv without columns, an empty line. `ReadBack` is what a merger reads
of a chunk's text: openpyxl ends a sheet at its last cell, so blank rows at the end of a chunk
are gone, and `splitlines()` drops one empty line there; blank rows before a row that shows stay.

An edit gives a part of the template a new version, up to `LastVersion`, and `edits` counts
them; versions stand for what the template can be, with several sheets, with none, without
fields. A field that a mapping refers to cannot be deleted (`on_delete=PROTECT`), so an edit
does not leave mappings over no fields, although a stale copy of either can still meet the
other. `unsettled` is history: an edit fell within the job, or within the caches' reach of it.

### TemplateEditing

A request is cut at every call of the repository, and `pc` names the next: `row` and `own`
(the lookups and the status check), `ref`, `children`, `mapped` (the checks of the services),
then `fetch` and `save`, or `insert`, `delete`, `status`. `copy` is the row that
`update_*` has fetched and will save whole, status or parent included; an insert with a
foreign key that no longer resolves fails, a delete cascades and is refused by a protected
mapping. The seed command publishes first and then replaces fields and mappings. The
history variable `overtaken` holds the edits that had passed their check when the template left
DRAFT, and seed runs.

### SupplierSessions

A request of a browser: `cache`, `db`, `fill` (introspect), `threshold`, `invalidate`,
`find` (refresh), `delete`, `create` (the transaction that issues a token), `reply`. The
session is a signed cookie (`SESSION_ENGINE` in `src/src/versio/settings/dashboard.py`), so each
request works on the token it was sent with, and its answer overwrites the cookie when it
arrives. `doomed` is what the DELETE of the transaction saw, because nobody sees its effect
before the commit. Histories: `age` (ticks since a token stopped being valid), `slipped`
(refreshes whose entry was filled again), `overlapped` and `raced` (issues that overlapped).

### Submission

Requests that share one key. `Reserve` is SET NX, `Touch` ends a stage (counting,
uploading) with EXPIRE, `Create`, `Resolve` and `Send` are the rest of the `try`,
`Release` its `finally`; `Await` is the loser's last poll. Time is in ticks because a
TTL and its refreshes are the point: `left` is what the key has, `spent` what its
holder has used since the last refresh. A resolved key lives for a day and is ended
by `ForgetJob`. `JobPipeline` starts where this ends, with a job whose split task was
published by `Send` or, after a death or a refusal of the broker, was not.

## 3. Runs

Passing runs:

| Run | Properties | Shows |
|---|---|---|
| `job_tasks` | TypeOK, OneWorkerPerChunk, SkipsCountedOnce, ChunkTasksHaveInput | tasks alone, any crash or exception |
| `job_operators` | DoneIsComplete, IInv, PartialHasFailures, ChunkTasksSpareTerminalJobs, FailuresStayVisible, ImplementsOutcome | sweep, abandonment and manual retries on live jobs, with crashes, exceptions and permanent failures |
| `job_recovers` | EventuallyDone | with the sweep, a job survives the loss of its split task and a fault at any access outside the window of `uncounted_output` |
| `submission` | SubmissionInv, OneJobPerWindow, PlaceholderHasHolder, EveryRequestEnds | three duplicates, two faults, stages shorter than the reservation |
| `templates` | TypeOK, FieldsFormAForest, ReadOnlyOncePublished | any two requests or seed runs, interleaved at every repository call |
| `sessions` | TypeOK, StaleAcceptanceBounded, OneTokenUnlessRaced, RotatesUncachedToken, ImplementsTokenLife, EveryTokenDies | two concurrent requests of one browser, with outages and lost answers |
| `report` | ReportTypeOK, StaleOnlyByRace, StaleForAWhile, DownloadsAreWhole, PollingEnds | two chunks that reject items through the whole pipeline, with its report cache, what the download views stream and a polling page |
| `data_path` | TypeOK, SplitMatchesCount, RowsInOrder, ChunksAreInvisible, CopiesAreRecent | ten files in four formats, with blank rows, with templates without mappings or fields, and with an edit of the template at any time |

Runs that refute what a comment or a document of the repository says; the counterexample is
the shortest behaviour of the code:

| Run | Property | What happens |
|---|---|---|
| `uncounted_output` | EventuallyDone | a worker dies after `flush` and before `incr`: the output exists and is not counted; every later attempt returns ALREADY_DONE and no sweep ever finishes the job |
| `slow_holder` | DoneIsComplete | a chunk outlives CHUNK_LOCK_TTL, a second worker processes it too, it is counted twice, and the job is DONE without another chunk |
| `late_transition` | StatusFollowsTable | a `revert_to_draft` and a `deprecate` have both read PUBLISHED; the revert writes first, and the deprecate takes the template from DRAFT to DEPRECATED |
| `mid_edit` | OneMappingPerBatch | a published template is reverted and edited while a job of it runs: one file holds rows of both mappings |

Behaviour the models contain and no property or run is about; each is a hazard of
`PROJECT.json`, at its line:

* a merge past its DONE check moves a job that was abandoned meanwhile from FAILED to DONE,
  over a whole file;
* `resume()` resets on the `processed_chunks` it read and takes away a chunk
  counted since; the counter stays exact;
* a failure recorded before the first `begin()` and then cleared leaves
  PROCESSING with `started_at` null, which the sweep and the retry view pass over;
* an exception after `incr` lists a failure on a chunk that is done, and nothing clears it;
* the sweep compares the age first and marks FAILED a job whose failures are all
  permanent;
* one stage of a submission that outlasts the reservation lets a duplicate make a second job;
* `update_template` saves the whole row it fetched, and so undoes a publish or a deprecation made
  in between;
* the merger loses the rows without a value at the end of a chunk's sheet, so the rows of the next
  chunk move up there and the rows of one item need not stand on the same line of two sheets;
* one item that is not an object, or one value that a writer refuses, fails its whole chunk;
* one poll answered with an error ends the polling of a page whose job goes on.

### Bounds

* Job runs: `TotalChunks = 2`: the counter is at its limit, one short and at zero; a chunk
  counted twice is enough to complete the job without the other. Two chunk workers for every
  race of two handlers, on one chunk or on two; one default worker. A second merge or
  split runs after the first, or after a crash of it. `MaxCopies = 1`: a message present
  twice does what the same message delivered again does; a copy held by a worker is not
  counted, so two handlers of one message do run at once. `MaxFaults = 2` (1 where one
  is the question): pairs of faults, the combinations that make the retry of a retry.
  `MaxRetries` is 1 with faults in the tasks (retry and give up both happen), 0 in
  `job_operators`, where the operators are the retry. `job_operators` restricts crashes
  to `incr` and `ack` and exceptions to `get`, `complete` and `done`, one of each kind of
  handler outcome, because `job_tasks` has them everywhere; one operator, which acts again
  and again.
* `report`: two chunks that both reject items, so that a result or an errors file could be
  partial; one worker of each kind, one operator and one page, because the rest of its
  question is the order of a row's writes, their invalidations and one reader, and two handlers at once
  are the question of the runs of `JobPipeline`. One fault in all besides a lost split task: a crash after `begin()`,
  inside the lock and with its invalidation still owed or made, an exception at the trace (`skips`) or
  at the end of the merge (`done`), a failing invalidation or a failing request. The TTLs are 1 and 2
  ticks and a request may hang for 1, so an entry expires before, during and after a fill.
* `data_path`: two target chunks of at least 4 and at most 5 items, and files of 1 to 11
  items: under the minimum, a last chunk of one item, three chunks because of the
  maximum, a chunk without rows, one that ends with blank rows on one sheet or on all, and chunks
  that raise. `LastVersion = 3`: mappings for one sheet, for two, for none and for one again, each
  one edit from the next; one version without fields. Jobs start with any of them, and
  `MaxEdits = 1`: one edit puts an old and a new version into one job, which is what the properties
  can tell apart. One worker of the job and one stranger, which is enough for an entry to be filled by another.
* `templates`: two requests, two fields, one mapping: a child and its parent, a mapping on
  either, ids exhausted. A third request would only overtake what two can.
* `sessions`: two requests of one browser, two tokens, a token of 3 ticks refreshed
  below 2, an entry of 2, a lag of 1: the order of the settings, and an entry
  that outlives its token.
* `submission`: three requests (a winner, a duplicate, a retry), a TTL of 3 ticks and
  stages of up to 2, so that two stages without a refresh exceed the TTL.
* Symmetry over workers or requests is used for invariants and action properties only.

Deadlock is not checked where the system really stops: a job that is DONE, or FAILED, or
left with a permanent failure has no next step, and neither has a submission that was
answered or a file that was merged. `templates`, `late_transition`, `sessions` and `report` check it.

### Fairness

* `FairSpec` of `JobPipeline` assumes that a worker that has a task goes on (the
  process runs, or dies, which is `Crash`), that RabbitMQ delivers, that Redis keys
  expire, and that the sweep runs again and again ("Intended to run periodically via
  crontab or Celery beat"). It does not assume that manual retries happen, that faults do
  or do not, or that a crash is eventually followed by anything but redelivery.
* `FairSpec` of `Submission` assumes that a request that runs goes on, that a wait has a
  deadline (`IDEMPOTENCY_WAIT_TIMEOUT`).
* `FairSpec` of `SupplierSessions` assumes that a request that runs goes on (gunicorn
  kills a worker that is silent for 180 s, `src/docker-compose.yml`) and that time passes. It does
  not assume that anyone sends a request.
* `ReportFairSpec` assumes that time passes, that a page polls ("every 3s" in
  `_batch_status.html`) and that its requests go on, but for `MaxFaults` that fail. Nothing is assumed of the pipeline: `PollingEnds`
  is about a job that comes to rest.

## 4. Proofs

Each theorem holds for every value of the constants that the module's named assumptions
allow; what else is assumed is said here.

`JobPipeline_proofs`, for any number of chunks, workers, operators, retries and faults:

* `TypeCorrect`, `PartialAlwaysHasFailures`, `ChunkTasksFindInput`,
  `LateTasksSpareTerminalJobs`, `FailuresAreVisible`: unconditional.
* `Inductive`, `DoneMeansWholeFile`, `CounterIsExact`, `ChunksAreExclusive`,
  `SkipsAreCountedOnce`, `PipelineImplementsOutcome`: if no lock expires under its holder
  (`~SlowHolders`). `slow_holder` shows that the assumption is needed.

The argument. "DONE implies a whole file" is not inductive: a merge takes whatever outputs
exist, so it must not start early, so the counter must not run ahead of the outputs, so
no chunk may be counted twice, so no two workers may be between the
output-existence check and the count of one chunk. `IInv` says this, in this order
from the end: a handler inside the lock holds it (`HoldersAreLocked`) and is alone
(`OneWorkerPerChunk`); what it saw of the output stays true until it writes it
(`GuardStaysTrue`); so `processed_chunks` is the size of a set of chunks that have output
(`CounterMatchesOutputs`); so while an output is missing no merge message, no handler
and no operator that leads to one exists (`MergeMeansAllOutputs`); so every merge lists all
chunks (`FinalIsWhole`). A reset empties `counted` and keeps outputs: the counter stays
exact and the job can then not complete, which is safe. Refinement: `outputs`, `final` and
"status is DONE" are the variables of `JobOutcome`; Flush is Write, WriteFinal is Merge,
Completed is Complete, and an operator's write to a DONE row is Reopen.

`InputPart` makes `ChunkTasksHaveInput` inductive: not only queued and running chunks
have input, but those an operator's list or a failure entry may turn into messages.
`SkipPart` names the set of chunks whose skips are in the counter; a chunk enters it inside
its lock, after its output, and no second time. The two action properties follow from the types
and, for each write of a worker, from the guard of the repository method.

`JobReports_proofs`, for any number of pages, any TTLs and any lag:

* `ReportTypesCorrect`: the types of the pipeline and the reports together. A failing
  invalidation sends a handler where an exception of the step before would, so the type
  invariant says that who owes an invalidation is still inside its task.
* `StaleReportsAreRaced`: from "a draft that was not overtaken is the row" (`DraftsFollowRow`)
  and "a report that is not the row's has an invalidation to come, or is `unswept`".
* `StaleReports`: from the age of an entry, which starts at the lag of its fill.
* `DownloadsInductive`, `DownloadsAreComplete` (under `~SlowHolders`): a downloaded result is whole,
  an errors file has a trace for every chunk that skipped items, and no cached report promises a
  file that is not there. `DownloadInv` carries it: a chunk's trace is stored before its skips are
  counted, and its skips before the chunk itself; so while a worker is still at `skips` a chunk is
  uncounted, and by `IInv` no merge has started that could miss the trace. Once written, neither
  file goes away.
* `ReportsImplementOutcome` (under `~SlowHolders`): the composition implements `JobOutcome` as the
  pipeline does. A step of a page or an invalidation is a stutter, failing or not; every other
  step is one of `JobPipeline`.

`SupplierSessions_proofs`, for any number of requests, browsers and tokens and any
times: `TypeCorrect`, `SessionInvariant`, `StaleAcceptance`, `OneToken`,
`RotationUncached`, `TokenLifeImplemented`. `SessionInv` adds to the properties
that keys are fresh, that a fill under way read its row no longer ago than its lag,
so its token is no longer invalid than that (`FillsAreRecent`), and that a row an issue did not see was
committed during it (`MissedRowsRaced`). The refinement maps each key to a phase; that a
dead key stays dead needs that a fill begins only with a valid row.

`TemplateEditing_proofs`, for any number of requests, fields and mappings: `TypeCorrect`,
`TemplateInvariant`, `Forest`, `ReadOnly`. The forest's reason: a parent's id is lower than its
child's, ids are never reused, an update saves the parent it fetched, which never
changes, and a foreign key stands at each write. `ReadOnly` rests on `WritersAreOvertaken`: a
request past its check, while the template is not a draft, is in `overtaken`.

`DataPath_proofs`, for any files, sizes and edits: `SplitCorrect` (the k-th chunk
starts at k times the size, and the ceiling of length by size is the number of chunks that start
inside the file), `TypeCorrect`, which also says that outputs are of chunks a split has made, and:

* `RowsKeepOrder`. The inductive part is `OutputsInv`: one output per chunk, each the file of its
  chunk in *some* version of the template; a file, once there, was made from them. `total` outputs
  are then all chunks, the merge lists the k-th chunk k-th, and joining files whose rows
  ascend and lie in consecutive ranges gives rows that ascend. Every row of a chunk that is in the
  merged file comes from that chunk's output, and what a merger drops of an output is blank; so
  the file has of each chunk exactly the rows that its conversion owes, blank ones apart. Edits do
  not matter, and the theorem does not say that two chunks had the same version: an edit that adds
  a sheet leaves the rows of earlier chunks out of it.
* `StaleCopies`. A loader that holds a part edited since it read it has hung for at least as long
  as that edit is old, and an entry it fills starts with the whole TTL to live.
* `ChunksCannotBeSeen`. While no edit is within reach (`~unsettled`), every copy a job can meet,
  in the cache, in a worker or in an output, is the template's version (`OneVersion`, from the
  bound of `StaleCopies`). The files of one version join to the headings once and the rows of
  all chunks, and without the blank ones (`Content`) that is what the merge of one chunk of
  everything gives: both are `OneFile`. Blank rows are left out because there the chunks do show.

The model joins texts with a fold, which is a recursive function, and puts numbers in order with
`InOrder`. `DataPath_sequences` proves what these give without an induction
theorem: a set of numbers that fails a statement has a least member (`LeastNat`), and that member
does not fail (`UpTo`). It ends in two lemmas about the merge of the files of any cut of the
source: `MergedInOrder`, each chunk with its own version, and `MergedContent`, one version for all.

`Submission_proofs`, for any number of requests, any TTL longer than a stage:

* `PlaceholderIsHeld`: unconditional.
* `SubmissionInductive`, `SubmissionsAreDeduplicated`: if stages end in time and no fault
  falls between `create` and `resolve` (the job would exist without its key). The
  invariant: whoever is inside the `try` owns the key, alone, and the key's TTL plus
  the time spent since its refresh is the whole TTL, so the stage ends first.

Only model-checked: everything under fairness (EventuallyDone, EveryRequestEnds,
EveryTokenDies, PollingEnds), which the prover does not reach. Every invariant
and action property of a passing run is a theorem, within the assumptions named above.

## 5. What is left

* Ages: a job's `started_at` against the sweep's thresholds, and three retries of 60 s against
  the lock's TTL of 600 s. `JobPipeline` lets every such comparison go either way.
* A composition of `DataPath` with `JobPipeline`, so that what the merge lists is what the
  pipeline stored; today `DataPath` starts its merge when `total_chunks` outputs exist,
  which `PipelineImplementsOutcome` proves of the pipeline.

## 6. Not modelled

* The admin site: forms that write the template's rows without any of the checks; nothing
  said of `TemplateEditing` holds of it.
* Display orders and the counters they are claimed from, and field names. A clash of
  names only refuses a request (`NameTaken`).
* The list of jobs and the download of the source, plain reads of one row.
* The formatting of single values by the handlers, and the types and constraints of the item
  validator: `DataPath` keeps only an item's fate, and whether its row has a value. Source path detection is one pass
  over a bounded number of parser events, without shared state. All have unit tests.
* The S3 client, serializers, settings and abstract interfaces; a call of a client is one atomic
  access of the models, and the models rely on an object being created whole.
* The identity a token carries, and refused logins.
* Within the pipeline: an unregistered format (converters and mergers are
  registered for the same formats), a job deleted while its tasks run (nothing deletes jobs),
  a call that takes effect and then raises, and the times `started_at`, `completed_at`
  and `failed_at` themselves.

Every hazard found while reading the code, covered or not, is in `PROJECT.json` with its line.
