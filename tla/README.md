# RetailOps in TLA+

A verification project for RetailOps, a back office for retail operations: it
takes in supplier documents, reconciles orders, receipts and invoices, asks a
language model to review the exceptions, queues the doubtful ones for a person,
and forecasts demand. The program is Python (FastAPI, SQLAlchemy on PostgreSQL,
a worker process per queue) with a console in TypeScript. Paths below are
relative to `src/apps/api/src/retailops_api/` unless they start with `src/`.

The interesting part of the program is what happens between its transactions.
Almost every component reads rows in one statement, decides on the copy, and
writes in another under READ COMMITTED, with no row version; what holds it
together is a handful of conditional updates and unique constraints, and a lease
that can run out under its holder. The modules here model that grain: one
action per statement or file operation, sessions that keep copies, and
processes that are killed in between.

## Inventory

| Component | State | Operations | Hard because | Correct when |
|---|---|---|---|---|
| Job store (`jobs/store.py`) | `processing_jobs`: state, lease token, lease end, attempts, `available_at` | insert under an idempotency key, claim, release lapsed leases, succeed, fail | conditional updates race; `succeed` checks a cached copy; `fail` reads and writes apart | one execution at a time per lease, attempts bounded, results match states |
| Worker (`jobs/worker.py`, `jobs/handlers.py`) | sessions, the copy of the row | `run_once`: lease, handler, record, settle | crashes, lost failure records, leases overrun by slow handlers | every stored job settles |
| Database queue (`jobs/database.py`) | none of its own | release, look, conditional claim | lost claims | nobody runs what somebody else holds |
| Hosted queue (`jobs/sqs.py`) | messages, receipts per adapter instance | announce, receive, discard, claim by name, settle | redelivery, duplicates, the dead-letter queue, announcements before commits | a waiting job keeps a message |
| Review cases (`review/workflow.py`, `review/persist.py`) | case row, snapshot, decision record, audit events | create, attach, start, assign, decide, cancel | two requests decide on copies | decided once, and row, record and history agree |
| Match rules (`procurement/match.py`, `rules.py`, `money.py`) | none | match lines, check quantity, price, tax, total, currency | rounding, tolerances, early returns | impacts add up, a clean run means agreement |
| Reconciliation runs (`procurement/load.py`, `persist.py`, `orchestrate.py`) | stored runs with versions and fingerprints | load a scope, reuse or store the next version | rows move between statements, two sessions store one version | versions in order, an answer is current |
| Forecast panel, baselines, backtest, features (`forecasting/`) | stored folds | weekly panel, three baselines, rolling origins, feature rows | off-by-one week leaks the future; ingestion between two reads | no leakage, no partial week |
| Training and local registry (`forecasting/train.py`, `registry.py`, `artifact.py`, `promotion.py`) | `index.json`, version directories, output directory | fit, compare, register, promote, approve | no lock, no rename; killed or overtaken between file operations | index and directories agree, promotion is earned |
| Document intake (`api/routes/jobs.py`, `documents/`) | stored bytes and sidecar, document rows and findings | upload, parse, validate, compare with the catalog, record | object, job and document are written apart; two holders of one job; errors taken as permanent; texts that parse as no number | processed once, object, job and document agree, the findings name what is wrong |
| AI review service (`review/bedrock.py`, `openai.py`, `contract.py`, `schemas.py`, `supplier.py`, `reconciliation.py`, `routing.py`) | none; usage counts | the requests of a review, their retries, the checks on an answer, routing | each of several requests fails or answers on its own, in many shapes | nothing unchecked skips the queue; retries are bounded |
| Hosted registry (`forecasting/sagemaker_registry.py`) | packages in a service | register, list, approve, promote | a promotion is several calls, a listing one page | one champion or none |
| Hosted review workflow (`review/cloud_workflow.py`) | handles, used tokens, events | start, callback, expire | answer, timeout and second start in any order, calls that overlap without a lock | a token ends once unless calls overlap |
| Identity (`identity/`, `api/deps.py`) | a copy of the provider's keys | verify a token, refresh | threads share the copy, keys rotate, fetches fail | a refusal has a reason |
| Request limit (`core/ratelimit.py`, `api/deps.py`) | a limiter per process, its counters | build, read the clock, count | two limiters built at once, a clock read before the lock | what passes is paid for |
| Datasets (`dataset/`) | seven files and a manifest | write, read, validate | files replaced one by one; checks that must cover the constraints of the tables | what is valid can be loaded |
| Catalog ingestion (`ingestion/`, `domain/repositories.py`) | the catalog tables and sales | synchronise, upsert, report | two loads at once, each writing only what differs from its copy | a load leaves its files' rows and says so |
| Tables and migrations (`domain/models/`, `src/apps/api/migrations/`) | schema, revision | upgrade, downgrade | rows in the tables, commands at once, the running release beside the new schema | the last revision is what the models declare |
| Synthetic data, demonstration, operations views, review evaluation | none, or reads | generate, fill, report | little | |
| Web console (`src/apps/web`) | page state | poll a job | late answers | shows the job's last state |

How they interact. A request enqueues a job in its own transaction and, on the
hosted queue, sends the message before that transaction commits. A worker takes
a lease, runs the handler (document intake, reconciliation, or a forecast
evaluation) in one transaction with the row's success, and records a failure in
another. An upload is stored before its job, outside any transaction; the intake
compares it with the catalog that ingestion keeps. Reconciliation runs and
their review by the model open review cases; people decide those through
requests; the export of feedback reads decision records and snapshots. Training
runs beside all this as a command line over files, and shares only the registry
directory with other trainings and approvals. The modules follow these
boundaries: a handler is one commit in `JobWorker`, and what happens inside that
commit is `DocumentIntake` for the intake handler and `ForecastEvaluation` for the forecast's.

`PROJECT.json` lists every component with its files, and the hazards with the
line where each bites and the properties that would catch it.

## Modules

| Module | Models | State and actions in terms of the code |
|---|---|---|
| `JobStore` | `jobs/store.py`, `domain/models/job.py` | `rows`; one operator per statement on a row: `Inserted`, `Claimed`, `Released`, `Owns` (the `_leased` check), `Succeeded`, `Failed` |
| `JobWorker` | `jobs/worker.py` | `pc`, `seen` (the copy in the identity map), `token`; `LoadJob`, `CommitWork`, `ConflictOnSuccess`, `HandlerRaises`, `ReadForFailure`, `RecordFailure`, and the faults |
| `DatabaseQueue` | `jobs/database.py`, composed with the two above | `ReleaseExpired`, `NextClaimable`, `Claim`, `LoseClaim`, `Enqueue` |
| `SqsQueue` | `jobs/sqs.py`, composed with `JobWorker`; the queue service is external, modelled from its use and from `src/infra/modules/messaging/main.tf` | `messages`, `request` (the open transaction of a request), `delivery`; announcing, receiving, discarding, settling, redrive |
| `JobLifecycle` | abstract: the life of a job as the store's documentation tells it, weaker once a lease has run out | implemented by both queues |
| `ReviewCases` | `review/workflow.py`, `review/persist.py`, `review/cases.py`, `review/feedback.py` | `cases`, `snapshots`, `decisions`, `audit`, sessions with `seen` and `history`; two reads and one write-and-commit per request |
| `ReviewLifecycle` | abstract: the life of a case as `review/cases.py` documents it, weaker once a row was written over | implemented by `ReviewCases` |
| `ReconciliationRules` | `procurement/match.py`, `rules.py`, `money.py` | pure operators from documents, catalog and tolerances to the set of exceptions |
| `ReconciliationRuns` | `procurement/load.py`, `persist.py`, `orchestrate.py` | documents that others edit, `runs`, sessions that read statement by statement and keep what they loaded first |
| `ForecastRules` | `forecasting/weeks.py`, `frame.py`, `database_frame.py`, `models.py`, `metrics.py`, `promotion.py`, `backtest.py`, `split.py`, `features.py`, `feature_panel.py` | pure operators over a weekly panel |
| `ForecastEvaluation` | `forecasting/evaluate_run.py` and the forecast handler | `sales` and `catalog`, ingested and corrected together (`Ingest`) while an evaluation reads the span, the stores, the categories and the sales in four statements (`ReadSpan`, `ReadStores`, `ReadCategories`, `ReadSales`) and stores its folds |
| `ModelRegistry` | `forecasting/train.py`, `registry.py`, `artifact.py` | `index`, `folders`, `staging`; one action per file operation, `Torn` for a file opened and not yet written |
| `SupplierSheet` | `documents/schema.py`, `parse.py`, `rules.py`, `catalog.py`, `catalog_rules.py` | pure operators from rows of cells and a catalog to findings, and to whether the code raises instead |
| `DocumentIntake` | `api/routes/jobs.py` (upload), `documents/storage.py`, `process.py`, `persist.py` and the intake handler, composed with `DatabaseQueue` | `objects`, `request` (the storage key in a job's request), `documents`; the handler as `stage`, `read`, `draft`: one action per call it makes between `LoadJob` and `CommitWork`; `EditCatalog` beside it |
| `ModelReview` | `review/supplier.py`, `reconciliation.py`, `contract.py`, `schemas.py`, `bedrock.py`, `openai.py`, `routing.py` | `subject` and `provider` of a review, `pending` requests, the `tries` of the one at hand, `attempts` so far, `outcome`; `CallFails`, `CallAnswers` per call, `EndReview` for the route |
| `HostedRegistry` | `forecasting/sagemaker_registry.py`; the service is external | `packages` with the status and the label they show; each operator's calls one by one, each of which may fail |
| `CallbackWorkflow` | `review/cloud_workflow.py` | `handles`, `consumed`, `recorded` events, a clock, and what each caller is at in `calling`; `StartFresh`, `Callback` and `Expire` check, `Install` and `UseUp` mark, `RecordEvent` records, on a clock read again for an answer |
| `IdentityKeys` | `identity/cognito.py`, `local.py`, `types.py`, `api/deps.py` | `published` by the provider, `cached`, `fetchedAt`, one `thread` per request: `Look`, `KeepCopy`, `BeginFetch` and `EndFetch` with the lock held in between, `LookAgain` |
| `RequestLimits` | `core/ratelimit.py`, `api/deps.py` | `current` limiter of each process, `buckets`, `checking` (the request each counts): `Arrive`, `BuildLimiter`, `ReadClock`, `Count`, and `Restart` |
| `TableForms`, `MigrationSteps`, `DomainTables` | the seven migrations and the models of every table | a table by what an insert must give, references, uniqueness, value rules, indexes; each migration as a sequence of statements |
| `SchemaMigrations` | `src/apps/api/migrations/env.py`, with PostgreSQL's part external | `schema`, `revision`, `filled` tables, a `command` per process; a command is one transaction |
| `DatasetRules` | `dataset/contract.py`, `snapshot.py`, `validate.py` | pure operators: what is written of a row, what is read back, and one set of issues per table |
| `CatalogLoading` | `dataset/snapshot.py`, `ingestion/cli.py`, `catalog.py`, `sales.py`, `domain/repositories.py` | `files` and the `writer` replacing them; `tables`; per loader the table at hand (`turn`), its `copy`, what is `pending`, its `report` |
| `MC...` | instances for TLC | constants, and for `MCServices` and `MCCatalogDatabase` a variable `part` that says which of several independent parts a behaviour is about |
| `SumLemmas` | no code | induction over finite sets, and sums, for the proofs |
| `...Proofs` | theorems | see below |

Abstractions worth knowing:

* A lease token is random and never drawn twice; the attempt number it was
  minted with names it. Time is two booleans of a row (`due`, `lapsed`) that the
  environment sets.
* The handlers' own work is one commit. Whether it is retried is a free choice,
  so every error class is covered. `DocumentIntake` opens one of them up: its
  handler's calls are actions, and `ImplementsQueue` shows that the opaque
  handler stands for it.
* In `DocumentIntake` a file is what it can be read as: refused with a
  `ParseError`, unreadable (a library's own exception), or a set of rows. A cell
  is blank, malformed, a text, a number, or one of the two things Python's
  `Decimal` also reads, `NaN` and `Infinity`. Texts are numbers that stand for
  them. An idempotency key sent by the client is a job that several files map
  to. The supplier is always found, and the size limits, which the request and
  the handler share, are taken to hold.
* An update, the inserts after it and the commit are one step where the first
  update locks the row: a second writer waits for that commit.
* Money counts the fourth decimal and rates are integers, with the rounding
  (`HalfEven`) the code's decimal context applies. Equal fingerprints are taken
  for equal payloads.
* A model's answer is the shape it comes in, the kinds of its text blocks and
  the fields a check or a route reads; a confidence is a percentage or `NaN`. A
  token is what its header and claims say and whose key it was signed with.
* Of a table, column types, lengths and constraint names are left out (alembic's
  own check compares types). Of a dataset, columns that no check, reference or
  comparison tells from a name. A dead writer leaves an empty file or whole
  rows; a row cut in the middle is not modelled.
* What a load writes of one table goes to the database at the end of that table,
  as the session flushes it there: updates in the order of the rows' ids, then
  inserts. A column written over a row that another load changed meanwhile keeps
  the other columns as they are.
* An edit of the orders keeps their numbers unique, as the table's constraint
  does, and a sale is one row for each store, product and day. Sums over lines, weeks and
  sales are sums over functions, not folds of this project's own.
* Forecasts count parts of `1/Scale`, so that the moving average is whole.
  Floating-point rounding is left out; the fitted model is a free choice of
  error, because the properties hold whatever it predicts.
* A call of the callback workflow looks up the handle, reads the clock and asks whether
  the token is used in one step, at its reading of the clock; a `now` the caller passes
  is the clock at that step. The two events of a start are one.

## Runs

| Run | Bounds | What it shows |
|---|---|---|
| `database_queue` | 2 workers, 2 jobs, 2 attempts, 2 faults | `LeaseBudget`, `AttemptsPaidFor`, `ResultMatchesState`; the table implements `JobLifecycle`; every stored job settles |
| `hosted_queue` | 2 workers, 1 job, 2 attempts, 4 messages, 2 receives, 1 fault | the table implements `JobLifecycle` however often a message is delivered; `WaitingJobHasMessage`, `MessagesPaidFor`; every job settles or is one of those no worker will hear of again |
| `review_cases` | 1 case, 2 sessions, 5 requests, one person with and without a verified subject and a colleague, 2 decisions | `FeedbackAgrees`, `AuditTellsStatus`, `ReviewerActedLast`; implements `ReviewLifecycle` |
| `reconciliation` | 2 sessions, 3 requests, 1 edit; 2 orders, 2 receipts, 2 invoices in variants | `VersionsTell`, `AnswerIsCurrent`, `ImpactAddsUp`, `CleanRunsAgree`, `RaisingSilences` |
| `forecasting` | 2 sessions, 3 trainings or approvals, 3 versions; 4 databases (two ragged, one without a sale), 11 batches of 2 stores, 3 products and 3 categories, 2 ingests, 1 evaluation, weeks of two days | `IndexAgrees`, `RowsLoad`, `PromotionEarned`, `SecondGateNeverDecides`; `NoLeakage`, `EveryFoldScored`, `PanelCountsSales` |
| `document_intake` | 2 workers, 1 job, 2 attempts, 1 fault; 2 uploads, 5 files (every kind of wrong cell, three offers, a cost of `NaN`, an infinite one, refused), 2 catalogs, 1 edit; services may fail | `ProcessedOnce`, `JobTellsDocument`, `FindingsExact`, `CostJudgedByTermsInForce`; implements `DatabaseQueue` |
| `services` | review: 3 sheets and 4 exceptions, 10 answers, 4 failures, 3 calls; registry: 2 operators, 3 packages, pages of 2, 6 calls; workflow: 2 callers, 2 cases, 2 tokens, a timeout of 1, 1 tick; keys: 2 keys, 3 tokens, 2 threads, 3 ticks; limits: 3 requests of one process, 2 limiters, 6 arrivals, 2 windows | `RouteIsEarned`, `CallsPaidFor`, `ChampionTold`, `OutcomesInOrder`, `RefusalsExplained`, `AdmissionsPaidFor` |
| `catalog_database` | schema: 2 commands, every revision a target, rows in 3 tables; contents: 2 loaders, 3 loads, 2 datasets, 1 write, 34 directories | `HeadServesModels`, `UpgradesOnlyAdd`; `LoadTellsTables`, `OnlyKnownRefusals` |
| `job_reopened`, `unannounced_job`, `review_overwritten`, `registration_wedged` | the smallest that show it | one statement of the repository each that the code does not keep (next section) |

Why the bounds are enough. A lease conflict needs two workers on one row; the
second job brings the order of ids and the release of several leases by one
statement. Two faults let a lease run out under its holder and the process that
took over crash as well. Four messages are the announcement, one for each of two
attempts, and one for the attempt a lapsed lease adds. A review race needs two sessions; five requests let
a case be opened, taken up, and then have three requests race or follow one
another. Three reconciliation requests are two that race and one that comes
after; one edit between any two statements is every torn read a single change
can cause. Three trainings are a registered champion, one that fits against it
and one that overtakes. Weeks of two days, lags of one, two and three weeks and
averages over two keep every edge (partial first and last weeks, a lookback that
falls off the panel, a window shorter than asked) within ten days;
two ingests put a new store, a new category or a product filed elsewhere between any two of
the four reads. Two callers of a workflow are two ends of one token, or two starts of one
case, and one tick lets an answer be recorded when its token has expired. Two uploads
are a file and its repetition; one fault is the lapse that gives a job a second
holder, and one catalog edit is enough to come between the handler's two reads
of it or between its two attempts. The catalog has a product whose barcode and
whose supplier number lead to different terms, and a number that stands in two.
A sheet asks the model about two categories and a summary, so an answer, a
failure and a retry can each fall on any of the three. Three packages do not fit
a page of two. Three requests of one process are two that both build a limiter
and one that counts behind them; a second window is the edge. Of the two
datasets the second turns the category tree over, moves a barcode, changes a
price and adds a row to most tables; a third load shows what a second one left.
The directories hold one defect of every kind a check is there for, and one of
every kind the checks let through.

Five facts about pure operators are stated as `ASSUME` in the MC modules and
evaluated by these runs: every flawed directory is found and no generated one is
(`FlawsAreFound`); what is written is read back as it will be stored, with the
same checksum in whatever order the rows are (`FilesKeepDatasets`); only a
verified reviewer decides, whichever provider verifies (`DecidesOnlyVerified`); the panel read
from files agrees with the one read from the database wherever both have a category, and
without a sale is one of zeros (`BuildersAgree`); a refused request is told to wait for no
longer than a window (`RefusalWaits`).

Deadlock is checked in the two queue runs. The others stop where their request
or session bound is reached.

`JobReopened.cfg`, `Unannounced.cfg` and so on use the specification without
fairness, since what they violate is safety. Symmetry is used only for the two
sessions of `reconciliation` and the workers and uploads of `document_intake`,
where no liveness is checked.

Fairness. `DatabaseQueue` asks that every process takes its next step or is
restarted (`run_forever` loops and the service restarts a stopped task, see
`src/infra/modules/ecs`) and that leases and delays pass. `SqsQueue` adds that a
request which began its transaction ends it and that a hidden message reappears.
No submission and no fault is promised, every fault is counted by `MaxFaults`,
and weak fairness is enough: no action waits for a state that comes and goes.
The other modules check safety only.

## Where code and documentation differ

Each is a run that TLC must find violated, with the quotation in `PROJECT.json`.

* `job_reopened`: "a terminal job is never reopened" (`jobs/store.py:3`). A
  worker whose lease ran out still writes its outcome, because `succeed` checks
  the lease on the copy its session loaded before the work.
* `unannounced_job`: "An existing one already has a message in flight"
  (`jobs/sqs.py:56`). The message can be received, and discarded, before the row
  it names is committed.
* `review_overwritten`: "Terminal statuses do not leave those states"
  (`review/cases.py:4`). Start, assign and cancel update by primary key on a
  status read earlier.
* `registration_wedged`: "Registration always records a candidate version"
  (`forecasting/train.py:90`). A training killed between making its directory and
  saving the index blocks the next version for good.

Also met while modelling, and written into the properties as what they leave
out rather than run: a line wrong both in quantity and in price counts its price
difference twice (`procurement/rules.py:208` and `277`); a run's fingerprint
leaves out the catalog and the order a document is linked to
(`procurement/persist.py:25`); a receipt line counts for the order line it cites
whatever product it names (`procurement/match.py:83`); a lost update of the
registry index drops a version's row and then blocks the next registration
(`forecasting/registry.py:200`); two trainings given one output directory mix
their artifacts; the panel read from the database has a row of zeros for a
category without products, the one read from files has none; sales of a store or a
category committed after the codes were read and before the sales are left out of the panel
without a word (`forecasting/database_frame.py:77`); a message can
reach the dead-letter queue by receives that only left it for another worker; a
store that cannot be read for a moment fails an intake job for good
(`documents/process.py:104`), and since the same bytes map to the same job, sending
the file again answers with the failed job and leaves one more object behind; a
cost of `NaN` fails the whole job, where `documents/parse.py:6` says that problems
of a cell "do not abort the rest of the sheet"; an infinite cost passes every rule when
no term matches its row, and fails the job when one does. Two of them contradict
a document and have no run of their own: a job that kills its worker is released
and attempted for ever, as neither `release_expired` nor `claim` looks at
`max_attempts` (ADR-013 has "Retries are bounded"); and a workbook whose reading
raises the library's own exception fails the job and leaves no document, where
`domain/models/document.py:25` has "`parse_failed` is terminal when the bytes
cannot be turned into rows".

Around the core, likewise:

* Review. A confidence of `NaN` passes both bounds (`review/schemas.py:56`) and the
  threshold (`review/routing.py:106`), so it may skip the queue. A valid answer
  about a category stands in for a summary that failed (`review/supplier.py:98`). An
  exception is routed without a count of errors. Prose before the tool's object
  hides it (`review/bedrock.py:275`).
* Registry. A listing is one page, so a champion or a version beyond it is not
  seen (`forecasting/sagemaker_registry.py:176`); approvals that overlap may leave
  two champions.
* Identity. A failed fetch of the keys does not count against the refresh period,
  and holds the lock. A key document with an entry that is no key is an error of
  the server, not of the token. A withdrawn key is accepted as long as no miss
  replaces the copy.
* Hosted workflow. The object takes no lock and nothing in the repository shares it
  between threads; calls that overlap can end a token twice, and two starts can issue
  one token over another. An answer given no `now` is checked against one reading of the
  clock and recorded with a second (`review/cloud_workflow.py:162`, `:192`), which may be at or
  after the token's expiry. `OutcomesInOrder` says what is true all the same.
* Limits. A request that read the clock before the edge of a window discards the
  younger window's counters when it takes the lock late (`core/ratelimit.py:32`);
  two first requests build a limiter each (`api/deps.py:62`).
* Migrations. A whole upgrade is one transaction. `attempts` and `max_attempts` of a
  job have a server default in the migration only; alembic's comparison looks at
  neither checks nor server defaults, which is why `HeadServesModels` does. The
  deployment never registers a task definition with the new image, so the release
  that meets the new schema stays.
* Datasets. The checks have no upper bounds: a text longer or a number larger than
  its column is refused by the database. So is a barcode that moves to a product
  with an earlier id, or away from a product that the file leaves out. A writer
  that dies leaves files of two datasets beside the old manifest, whose checksum
  the next load copies into its report unread (`ingestion/cli.py:134`).
* Ingestion. Two loads at once can leave a mixture of their catalogs, and even a
  cycle of categories although each file is free of one: each writes only the
  parents that differ from its copy (`ingestion/catalog.py:114`). ADR-002 has
  "Deeper cycles are not enforced in the database; the seed data and ingestion code own
  that invariant". `LoadTellsTables` is therefore about loads no other
  overlapped, which close no cycle of their own; one that two others left may stay.

## Proofs

All theorems hold for every value of the constants that satisfies the modules'
`ASSUME`s, and `tlapm` checks them to the last leaf.

* **Jobs** (`JobWorkerProofs` for the worker loop, `DocumentIntakeProofs` for the
  database queue, whose module `DocumentIntake` extends). The inductive invariant
  is `WorkerInv == WorkerTypeOK /\ JobInHand /\ LeaseBudget`. `LeaseBudget` is a
  counting argument: commits of a job's work, workers executing it, an offer
  outstanding and a final failure never exceed one plus its lapsed leases. Every
  action moves one unit from one term to another, and a lapse adds the unit the
  release will spend; `JobInHand` is needed so that a settling worker's job is a
  job. From it: `TypeCorrect`, `Budget`, and with `HistoryInv` (a lapsed lease
  has been counted, a worker never holds a job that was not stored)
  `ResultsMatch` and `Refinement`, the step simulation of `JobLifecycle`.
  `AttemptsBound` (`AttemptsPaidFor`) needs a second account, `AttemptBudget`:
  attempts made, an outstanding offer and the *young* holders, those whose failure
  would still be retried, stay within the attempts allowed plus the lapses. `RowTokens` and
  `CopyTokens` make it go through: no token is of an attempt after the row's, and the
  copy by which a failure is judged is of the holder's own attempt, which is why a
  worker that trusts a stale copy still cannot earn a retry too many.
* **Hosted queue** (`SqsQueueProofs`). Every step is one of the table and its
  workers (`NextIsTableStep`), so the invariants of `JobWorkerProofs` carry over and
  give `TypeCorrect`, `Budget`, `AttemptsBound` and `Refinement`. About the messages:
  `SentNames` (what was sent names a job), `Handed` (who was given a message has its
  job in hand), `Unstored` (no row before its request commits). `WaitingJobsHaveMessages`
  rests on `Over`, a condition on a job that is never undone (it was missed, a lease
  ran out, or it is settled), and on two invariants: a message is being discarded
  only when its job is `Over`, and an announced job has a message until it is. `MessagesBound` counts
  the copies of a job together with every worker, and the request, that may yet
  announce it.
* **Review cases** (`ServiceProofs`). `ReviewInv` is the type invariant,
  `FeedbackAgrees` and `AuditTellsStatus` (an overwriting request appends the
  status it writes, which is why the history survives a race) and `SeenStored`:
  a session that read a case read one that is still stored. From it: `CasesTypeCorrect`, `DecidedOnce`
  (`FeedbackAgrees`), `AuditCorrect` (`AuditTellsStatus`), `CasesFollowLifecycle`, the refinement of
  `ReviewLifecycle`, and `ReviewerActs` (`ReviewerActedLast`), which is inductive beside it: an update
  of a row that is still the copy that was read writes name and subject of one
  actor (`UpdateNames`), and the event it appends is the last (`LastAfter`).
* **Reconciliation** (`ReconciliationProofs`). `VersionsCorrect`: `VersionsInv` adds that what
  a session about to decide holds as the latest run is still in the table and of
  the scope it reconciles. `AnswersAreCurrent`: `AnswerInv` says that the copies of
  a session nothing disturbed are the tables', statement by statement (`Fresh`), and
  that every stored run is the evaluation of what it was stored with (`RunSound`);
  what makes a reused run current is that an equal fingerprint and equal links pin
  down every field the rules read (`FingerprintCovers`), so the evaluation is the same.
  `TypeCorrect` (`HeldInv`) gives the finiteness and the ranges the other three
  need. `WiderIsQuieter`: each check is monotone in its bound. `CleanMeansAgreed` and `ImpactsAddUp`
  sum over the lines: a run without tolerance that silenced the matching splits the bill and the
  deliveries into one part per order line (`SumLemmas` on sums over a split), each part's
  exceptions are worth the part's value less the line's, and the parts add up. That no two
  exceptions of different lines coincide, and so none is lost from the set, is what the lines'
  own ids are for.
* **Forecasting** (`ForecastProofs`). `GateImplied`: on equal actuals and equal
  numbers of points a strictly lower weighted error implies a mean absolute error
  that is not higher. `SecondGateIdle` (`SecondGateNeverDecides`) supplies the rest: all models of a training are
  scored on the same cells, so the sums of actuals and the counts are equal. `IndexAlwaysAgrees`
  and `RowsAlwaysLoad` are the two consistency properties of the registry for any
  number of sessions, versions and kills. `RegistryInv` is types
  plus `KnownFine` (the file, and every copy a session read of it, agrees with
  itself and lists only versions whose directory is there), `SessionsReady`, and
  `ClaimsHeld` (who made a directory is the only one about to fill it, and nobody
  knows of its version yet, which is what lets it add the row with no lock). `RowsAlwaysLoad` assumes that no
  two sessions share an output directory, which the command line leaves to its
  caller. `PromotionsAreEarned` (`PromotionEarned`) adds `PromotionInv`: `crowned` is
  the champion of the index whenever it can be read, and a session that nobody
  overtook still competes with it. Of an evaluation, `EvaluationInv` says that the
  weeks it holds are an interval covered by sales, which stays so because rows are
  added and corrected but never deleted. `FoldsAreScored` (`EveryFoldScored`) turns the interval into
  the set of origins; `Covered` says that a store or a
  category the catalog has beyond those read was ingested since; with it `SalesAreCounted` (`PanelCountsSales`) splits
  the sales by week, store and category; `NothingLeaks` (`NoLeakage`) shows that each baseline, feature and training
  row is the same function of two panels that agree up to the cutoff. `TypeCorrect` is
  both type invariants.
* **Document intake** (`DocumentIntakeProofs`). `IntakeImplementsQueue`: each
  step of an upload, a handler, a fault or a catalog edit is a step of
  `DatabaseQueue` or leaves its variables alone, so the theorems about jobs hold
  here. `FileProcessedOnce` is about a document, not a lease: after a lapse two
  holders may both pass the check of `succeed`, and only the unique storage key
  stops the second. `OnceInv` counts for it: `StagesInv` ties a handler's stage
  to its worker's state, `RequestsInv` says that a stored job names an object
  and that no two jobs name one, `DocumentsInv` that a document's key belongs to a
  job, and `InsertsInv` that whoever has inserted is alone with its key, which is in no
  committed document. It stands on `WorkerInv` and `HistoryInv` of the queue.
  `ObjectJobAndDocumentAgree` is `JobTellsDocument`, from the same invariants and
  `StatusInv`: a handler at its end holds a final status, and so does every document.
  `FindingsAreExact` (`FindingsExact`) first shows, for one sheet, that the
  parser's issues and the rules' findings together are the wrong cells, each number
  blamed once; `JudgedInv` carries that from the draft to the document: the catalog's
  findings are never errors, and the object under a key never changes. `CostsAreJudged` (`CostJudgedByTermsInForce`) needs
  `PricedInv`: when no edit came in between, the products a handler read are the
  live ones of the catalog in which it now reads the terms.
* **Around the core** (`ServiceProofs`). `CallbacksEndOnce` is `OutcomesInOrder` for
  any callers, cases, tokens and clock. `OneClaim` (a token was issued to one start, recorded,
  installed or under way) ties an end to its case, `CallsInTime` and `EndsInTime` carry the times of the
  check to the record, `EndsMeet` says that two ends of a token, recorded or about to be, overlap,
  and `StartsAccounted` that a start whose handle is gone was used up or overtaken. `RefusalsHaveReason` is `RefusalsExplained` for
  any keys, threads and refresh period: `LockHeld` says that one thread
  at most is fetching, `CopyIsOlder` that a key the copy
  lacks was published after it, `ThreadsRely` that a thread relies on a copy no
  younger and fresh when it chose it, `AnswerStands` keeps the answer true while the
  provider withdraws and publishes again. `LimitHolds` (`AdmissionsPaidFor`) counts *places*: a limiter
  has for a caller and a window as many places as its bucket leaves, all of them
  while the bucket is of an earlier window, none once it is of a later one; admissions
  plus places never exceed `Limit` for each limiter built and each late request. `ChampionsTold` (`ChampionTold`):
  while approvals do not overlap, `Knows` says that every package marked champion
  beside the one being promoted is still to be seen or is on the list to demote, and
  `CrownTold` that who is marked is the one crowned. `CallsArePaid` (`CallsPaidFor`): the requests
  made, and those pending, are the subject's, in order (`InOrder`), and every
  attempt is `Sound`. `RoutesAreEarned` (`RouteIsEarned`) takes from the same invariant
  what a route was decided on; that the prompt shows the findings in order needs
  `PlacesApart`: the place of a finding counts those that precede it by severity, code and, as Python's
  sort is stable, by where they stood, so every finding has a place of its own and
  the first of them fill the prompt (`AllPrioritized`, `SheetTellsFindings`).
* **Catalog loading** (`CatalogProofs`, first part). `CatalogInv`: the files are of datasets or of
  a writer that died between or within them (`FilesInv`, `WriterInv`); stored rows have every
  column and a category's key is its code (`TablesInv`, with `CountsInv` for the counters). `LoaderInv` is what holds of
  a loader whatever others commit: its dataset passed the checks, it has written nothing to the
  tables it has not come to, and what it writes and the table lacks is a whole row; `AloneInv` what
  holds besides as long as none did: its copy is the table, its pending writes bring every
  table it has passed in line with its file (`ChangesSync`, `BroughtInLine`), and its report counts
  just those writes. `LoadsTellTables` (`LoadTellsTables`) follows, with
  `NoLoopInFile` for the tree of categories: a file that the checks pass has no cycle, since climbing
  through parents would visit more codes than there are rows, and rows outside the file keep
  their parents, so a load closes no cycle that was not there (`NoLoopClosed`). `RefusalsAreKnown`
  (`OnlyKnownRefusals`) goes through the constraints one by one: the checks give keys that differ
  (`KeysApart`), references that resolve to a row of the file (`AllResolve`) and values within the checks of
  the tables (`ChecksHold`), which leaves a value that is too large and a barcode that moves.
* **Schema** (`CatalogProofs`, second part). `MigrationInv`: the tables are those the chain
  makes in as many statements as the revisions up to `revision` hold (`Level`,
  `Height`), and nothing is `broken`. A command is a fold over the concatenation of its migrations; `FoldRuns` and
  `FlattenRuns` turn it into a run of states, one for each statement, and `UpgradeClimbs` and
  `DowngradeDescends` say which statement comes when. The two step lemmas do the rest: the k-th statement is
  possible where the first k - 1 have run (`StepUp`), its downgrade where k have (`StepDown`), because
  what a table refers to was created before it (`ParentsStand`), its keys and indexes are on columns it has
  and its downgrade drops indexes it has (a `...Fits` and a `...Steps` lemma for each table). `HeadAlwaysServes`
  (`HeadServesModels`) adds a comparison of each table with its model (`...Serve`), `UpgradesAdd`
  (`UpgradesOnlyAdd`) that a later form of a table gives what an earlier one gave (`FormsGrow`). The chain is
  no parameter; what the theorems add to the run is that processes, targets and tables with
  rows are any, and an argument that says which property of a migration each step needs.
* **Sums** (`SumLemmas`). Least elements, induction over a finite set in the form of a set
  of subsets closed under adding an element, and the sums of the community
  modules: additivity, equality of summands, linear combinations, sums over a split, sums of sums. The sum operators of
  the library are folds, a choice of a function satisfying an equation; the lemmas first
  show that such a function exists (on the finite subsets) and that two of them agree.

What the theorems assume of the constants, beyond counts being natural numbers and
sets finite where a table or a process list is: what an upload may hold are rows with one number each and cells of
the kinds the parser makes (`SheetsAssumption`); the catalog and the documents obey the
unique keys, references and checks of their tables (`CatalogsAssumption`, `RowsAssumption`, `BooksAssumption`,
`SalesAssumption`, which the database enforces and `DomainTables` models); tolerances are not negative, or
`procurement/types.py:67` raises (`TolerancesAssumption`); a reconciliation asks for an order or an invoice (`RequestsAssumption`); the holdout has
weeks and a training enough of them, or `split_holdout` raises (`HoldoutAssumption`, `TrainingAssumption`); an answer,
a row and a finding have the fields the schemas declare (`ReviewedTyped`); a blank cell is not
a value that is missing (`CellsAssumption`), the rows of a file or of a generated dataset are a list and text cells are
never missing from it (`DirectoriesAssumption`, `GeneratedAssumption`), and migration targets are revisions of the chain (`MigrationBounds`). Each is evaluated by the runs.

Only model-checked: the liveness properties `StoredJobsSettle` and
`StoredJobsSettleOrStrand` and anything else that needs `ENABLED` (the prover does neither under fairness),
and the four runs that must fail. Every invariant and action property of a passing run is a theorem. The type
invariants that no run lists are theorems or parts of the inductive
invariants above, or hold in the same instances.

## Plan

Done: jobs and their two queues, document intake, review cases, reconciliation,
forecasting with the local registry, each with its theorems where listed; the
model's reviews, the hosted registry and workflow, identity and request limits;
tables, migrations, datasets and the ingestion of the catalog.

Left, in this order:

1. A model of what two overlapping loads may leave, as a relation on tables that
   `CatalogLoading` would implement.
2. The text recognition adapters (`documents/textract.py`): how a page of blocks
   becomes a sheet.

## Not modelled

The seeded generator and the demonstration (sample data through the modelled
services); command lines, read-only queries and dashboards (no state of their
own); offline scoring of recorded answers; the fitted model and the column
contract (numeric code of a library); text recognition and object storage (pure
translations of an answer); settings and the choice of an implementation, read
once at a process's start; deployment declarations beyond the constants `SqsQueue`
takes from them. `cancel` and `extend` of the job store and
`bulk_insert_sales_records` have no caller outside the tests.

## Running

From this directory: `tlc -workers 2 -config DatabaseQueue.cfg MCDatabaseQueue`
(likewise the other pairs listed in `PROJECT.json`), and `tlapm
SqsQueueProofs.tla` for a proof module. `document_intake` and `reconciliation` take about three minutes, `database_queue`,
`forecasting`, `services`, `review_cases` and `hosted_queue` one to two, the rest less.
