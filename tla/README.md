# Formal models of dropsort

dropsort classifies scanned documents. A scanner drops TIFF files into an SFTP
folder (or a user uploads one in the browser), a worker classifies them, and
reviewers look at the predictions and correct the uncertain ones. This directory
holds TLA+ models of that system, TLC configurations that check them on small
instances, and proofs of their main theorems that TLAPS (`tlapm`) checks for every
value of the constants. Paths below are relative to the repository root.

Contents: [1 the system](#1-the-system), [2 what is hard](#2-what-is-hard-in-it),
[3 the modules](#3-the-modules-and-the-code), [4 the runs](#4-the-runs),
[5 the proofs](#5-the-proofs), [6 what the models found](#6-where-code-and-documents-disagree),
[7 what is left out](#7-what-is-not-modelled), [8 plan](#8-plan).

## 1 The system

Four kinds of process share four services.

| Process | Code | Talks to |
| --- | --- | --- |
| `api` (FastAPI, one event loop) | `app/main.py`, `app/api`, `app/services`, `app/repositories` | Postgres, Redis (queue, cache, limiter), MinIO, Vault |
| `worker` (RQ worker, one work-horse process per job) | `app/workers/inference_worker.py`, `app/workers/jobs.py` | Redis, MinIO, Postgres, Vault |
| `sftp-ingest` (one polling loop) | `app/workers/sftp_ingest.py` | SFTP folder, MinIO, Redis queue |
| browser (single page application) | `frontend/src` | `api` |

Inventory: state, operations, and what makes each component correct.

| Component | State | Operations | Correct when |
| --- | --- | --- | --- |
| SFTP ingest | the folder; where the loop is | list, read, validate, quarantine or store, enqueue, delete | no file leaves the folder before its bytes are safe; invalid files never reach the worker |
| Browser upload | a request in flight; a `received` batch row | validate, quarantine or store, insert row, enqueue, clear caches | every row it announces gets an outcome |
| Job queue (RQ) | job status, retries left, scheduled retries | enqueue, start, retry, fail, finish, call the exception handler | every job settles; retries are counted |
| Inference worker | the attempt in progress; handler calls | download, classify, overlay, record, clear caches, mark failed | a finished job's document is predicted; a permanent failure is marked and audited |
| Prediction service | tables `predictions`, `batches`, `audit_log` | record_prediction, mark_batch_failed, relabel | a document is predicted once; batch state and prediction are committed together |
| Object storage | objects under `incoming/`, `overlays/`, `failed/` | put, get | every prediction row has its input and overlay |
| Requests | which step each request is at, the connections it holds, the limiter's count | arrive, limit, authenticate, authorize, handle, commit, answer, close the sessions | each is answered, nobody gets past the guards, the answer tells what was committed |
| User administration | table `users`, audit rows | invite, change role, (de)activate, remove | administrators and removed accounts cannot be changed; audit log and rows agree |
| Authentication, role policies | JWT, `casbin_rule`, the enforcer's copy of it | login, `current_user`, `require_permission`, migrate up and down, reload | authority is that of the actor when it acts; the rules are those of the revision and grant no more than meant |
| Audit log | table `audit_log`, the page's window | append, list a window, name actors and targets, page through | the auditor misses no entry and does not take one account for another |
| Read caches | Redis entries of `/me`, `/batches`, `/batches/{id}`, `/predictions/recent` | look up, load, store, expire, clear | a finished write is seen by the next read |
| Deployment | compose's services, Vault's secrets, the schema revision, the image | seed, migrate, boot checks, health, restart, operate by hand | no process serves without its preconditions; what compose starts becomes ready |
| Training notebook | model, best epoch, checkpoint, scores, golden set, artifacts | train, evaluate, save, reload, score, export | what is exported is what was measured |
| Frontend session | token in `localStorage`, `me` | login, logout, refresh | the page shows the user of the token |
| Review page | list of predictions, open dialog with its selection | load, open, close, select, save | it shows what is stored and sends what was chosen for the document shown |
| Other pages | data of the page, polling timer | load, poll | a batch that settles is shown settled |
| Classifier | model weights | classify | (numeric, outside these models) |

Interactions: intake and worker meet in MinIO (the object), in Redis (the job) and
in Postgres (the batch row and the UNIQUE column `content_sha256`). The worker and
the API meet in Postgres and in the read caches: both commit first and clear cache
namespaces afterwards. Administrators meet each other in table `users`, without
row locks. Nothing spans two services atomically: every crash window between a
MinIO put, a commit, an enqueue, a delete and a cache clear is real.

## 2 What is hard in it

`PROJECT.json` lists the hazards with file and line. The main ones:

* **Crash windows.** The ingest process and upload requests write to three services one
  after the other; the process may die or a call may fail in between.
* **Retries of work already done.** An attempt that fails after its commit is retried
  and meets its own row as a duplicate.
* **RQ's order of failure handling.** RQ takes and schedules the retry *before* it calls
  the exception handler; a work horse that dies gets no handler call at all.
* **A late handler.** `mark_batch_failed` may run beside the retry that succeeds.
* **Look up, then insert.** `upsert_external` SELECTs the batch row and INSERTs one if there is none. Handler and retry
  may both find none; the INSERT that comes second raises, outside the `try` that catches duplicate documents.
* **A delete by name.** The file that `delete_file` takes is what the name holds then, not what was read.
* **Rollback of a duplicate.** The UNIQUE violation undoes the batch upsert with it.
* **Guards read earlier than the write.** User administration reads its target twice
  and locks nothing; authority is read in another session.
* **Overlapping relabels.** A relabel reads the row without a lock and writes only the columns
  that differ from what it read.
* **A login that outlives its form.** `setToken` runs when the login is answered, in whatever session it finds.
* **A save that outlives its dialog.** The reviewer may close the dialog, open another and
  reload the list before the answer arrives.
* **Commit, then clear.** A cached endpoint may store what it loaded before a commit
  after that commit's clear.
* **Two connections per request.** A guarded request keeps the connection that read its user and
  waits for a second one of the same pool; the pool's timeout is what ends a ring of waiters.
* **Paging through a growing log.** Rows are ordered by the start of their transaction and appear at its
  commit, and a page is an offset into whatever is there by then; actors and targets of the page are named
  by two statements with different snapshots.
* **Training in place.** The model trains on after its best epoch, cells fail and are run again, kernels are
  lost, and the state that is evaluated, checkpointed and exported has to be the same one.
* **A cursor beside a stream.** The scoring pass skips a failed batch and must go on recording positions.
* **A release is many files.** Weights and model card are exported, copied and built into an image one by one.
* **Seeds that undo each other.** Upgrades and downgrades insert and delete rule rows by value.
* **Starting order.** The api's health says nothing of the schema or of Vault's secrets; compose's
  gates have to. Vault in dev mode forgets its secrets when it restarts.

## 3 The modules and the code

```
DocumentRegistry          what readers of the tables may rely on (abstract)
      ^ implemented by
Pipeline  --- extends --> Inference        folder, ingest, uploads | queue, jobs, tables
   |                                       PipelineProofs, MCPipeline
AccountBook               operations on accounts, each at one moment (abstract)
      ^ implemented by
UserAdmin                 user administration    UserAdminProofs, MCUserAdmin
ReadCache                 read caches            ReadCacheProofs, MCReadCache
Session                   browser session        SessionProofs, MCSession
Review --- extends --> Relabel    review page | PATCH /predictions/{id}    ReviewProofs, MCReview
Release --- extends --> Notebook, Access    from training to serving       ReleaseProofs, MCRelease
   |  --- instance --> Deployment --- extends --> Access    the stack | who may call what
Requests --- extends --> Access    life of a request in the api    RequestsProofs, MCRequests
AuditLog                  audit log, GET /audit, its page    AuditLogProofs, MCAuditLog
```

Operators whose comment calls them mutants are alternative forms of an action with
a typical bug in it. No specification uses them: they show, one per property, that
the property would notice (see `mutants` in `PROJECT.json`).

### Inference.tla — queue, worker, tables

| Model | Code |
| --- | --- |
| `incoming`, `overlays` | objects of MinIO by batch id (`minio_storage.py`) |
| `status`, `retries`, `carries` | the RQ job of a batch: status, `retries_left`, the `content_sha256` argument |
| `attempt` | where `run_classification_job` (`workers/jobs.py`) is |
| `handlers` | calls of `handle_worker_exception` that will still reach `mark_batch_failed` |
| `batch`, `prediction`, `audit` | tables `batches`, `predictions`, `audit_log` (rows `batch_state_changed`) |
| `EnqueueJob` | `QueueClient.enqueue_classification_job` |
| `inserting` | calls of `mark_batch_failed` whose `upsert_external` found no row |
| `MakeOverlay`, `RecordPrediction` / `SkipDuplicate`, `ClearCaches`, `FinishJob` | the job, call by call; `record_prediction` is one transaction |
| `SelectNoBatch`, `InsertRaises`; `MarkSelectsNone`, `MarkInsertRaises` | the SELECT of `upsert_external` without a row, and the INSERT that loses the race, in the job and in the handler |
| `ClassifyRaises`, `AttemptFaults`, `WorkHorseDies` | the three ways an attempt ends badly |
| `HandleJobFailure`, `CallHandler`, `RequeueRetry` | RQ (external): account, schedule, call handlers, requeue |
| `MarkBatchFailed`, `MarkFaults` | `handle_worker_exception` and `mark_batch_failed`, and its failure |

A document *is* its content: two files with the same bytes have the same SHA-256 and
are the same value. A batch *is* its external id; intake draws it with `uuid4`, so one
batch holds one document and one job. A transaction is one step, since no other session
sees its intermediate states (`processing` is written and overwritten inside
`record_prediction` and is never visible), but for what it has read before it writes: between the SELECT of
`upsert_external` that finds no row and the INSERT another session may commit the row, and UNIQUE `external_id`
then ends the transaction. (Found rows are never removed, so the other case needs no step of its own.)
`mark_batch_failed` signs its audit row as the seeded administrator and would leave it out without one; that there is
one is `SeedKept` of UserAdmin. A validator's verdict depends on content and
file name; both are folded into the set `Invalid`. `Poison` is the set of contents on
which `classify` raises every time.

The statuses of a job follow RQ: on a failed attempt `HandleJobFailure` decrements
`retries_left` and schedules the retry, then the handlers are called and read the decremented
count. A work horse that is killed is reaped by its parent, which does
the accounting and calls no handler.

### Pipeline.tla — intake and composition

`ingest` is the polling loop (`ingest_once` called by `main`): `IngestList` takes one listing,
then for each file `IngestRead`, then `IngestQuarantine` or `IngestStore` and
`IngestEnqueue`, then `IngestDelete`. `ValidTiff` is `validate_tiff`. Each arrow can break: `IngestReadFaults` and
`IngestCallFaults` are the `except` of the loop body (log, next file, the file stays),
`IngestDies` an exception of `list_files` or a kill, `IngestRestart` the operator.
`UploadStore`, `UploadReceive`, `UploadEnqueue`, `UploadAccept` are the calls of
`enqueue_browser_tiff` in order, `UploadNameless` its refusal of a missing or odd file name,
`UploadReject` its quarantine branch, `UploadFaults` a
failure or death at any point. `ScannerPut` is the environment; `Overwrites` says
whether it may write a name that is already in the folder (a second document of that name, or the next part of an upload
still running), and `overwritten`, which is history, that it did so to the name being worked on.

Every fault draws on one budget (`MaxFaults`); `MaxScans` bounds the scanner and the set
`Batch` the number of ids drawn. They bound behaviours for TLC and appear in no property.

### DocumentRegistry.tla — the abstract specification

The two tables alone, with three operations: announce a batch, register a document
under a batch that holds no other *in the step that completes the batch*, and report a
failure, which overwrites any state. `Pipeline!ImplementsRegistry` says that the whole
pipeline does nothing else to the tables (refinement mapping `rows <- batch`,
`docs <- prediction`).

### UserAdmin.tla — the /admin/users endpoints

| Model | Code |
| --- | --- |
| `exists`, `role`, `active`, `deleted`, `email` | the rows of `users` |
| `auditedRole`, `auditedActive`, `auditedDeleted` | what replaying the audit log yields |
| `Authorize` | `current_user(active=True)` and `require_permission`, in their own session |
| `Check` / `Refuse` | `_require_manageable_target` and the first `get_by_id` in `user_service.py` |
| `Load` / `RemovedMeanwhile` | the second SELECT, in `user_repository.py` |
| `ChangeRole`, `SetUserActive`, `RemoveUserAccount` | flush, audit row and commit |
| `CheckEmail` / `RefuseEmail`, `CreateUser` | `invite_user` |
| `Rollback` | any exception before the commit |

The steps of a request are its statements: Postgres runs READ COMMITTED and nothing is
locked before the flush. SQLAlchemy writes only the columns whose value differs from the
loaded one, hence `seenRole` and `seenActive`. `contended` is a history variable: accounts
on which two transactions were open at once. The passing properties speak of all other
accounts; section 6 says what can happen to these.

### AccountBook.tla — the abstract specification of user administration

Invite, change the role, (de)activate and remove, each as if it took place at one moment: its guard
(`Manageable`, or a free address) speaks of the account as it is in that very step, and it writes what it
names and nothing else. `UserAdmin!ImplementsBook` says that requests which check in one statement, load
in another and write only the columns they saw differ amount to that, under `book <- Book`: an account without a
row is `absent`, a contended one `disputed`, every other its row. In particular an
administrator or a removed account never changes and never becomes disputed, and no two accounts outside a
dispute share an address.

### ReadCache.tla — the cached endpoints

A datum (`user`, `batch`, `prediction`) is the number of commits that changed it; one
user and one batch are followed, since entries of other ids hold other data. A writer
commits (`Commit`) and clears its namespaces one by one (`ClearNext`), and may die in
between (`WriterDies`). A read looks up (`Hit`, `Miss`), loads in one or two SELECTs (`Load`,
`LoadMore`: `get_batch` reads the batch and its predictions in two snapshots) and stores
(`Store`, `StoreFails`). For `/me` the value is loaded *before* the lookup, by the
dependencies. The keys of `/me` and `/batches/{id}` name an id and have one entry; the
other two come from the default key builder and a namespace may hold several, one per
argument list. History: `floor` is what finished writes had set when the read began,
`suspect` marks the namespaces with an entry stored out of date or left by a lost clear,
`excused` an answer from such an entry.

### Session.tla — the browser's session

| Model | Code |
| --- | --- |
| `token` | `localStorage` and the provider's state, which `setToken` and `logout` set together |
| `me`, `loading` | `me` and `meLoading` of `AuthProvider` |
| `rerun`, `RunEffect`, `Cancelled` | the effect on `[token, logout, navigate]`, due and run; its cleanup |
| `request` | fetches under way: of the effect, of `refreshMe`, of a page |
| `SubmitLogin`, `LoginAnswer`, `LoginFails` | `onSubmit` of `LoginPage`: up to its first await, and what follows the second |
| `FormShown` | the form is on screen: no token, or the token has not been rendered yet |
| `SignOut`, `RefreshMe`, `Navigate`, `PageRequest` | the menu, the account page and `AdminUsersPage`, links, pages |
| `Answer`, `Unauthorized`, `Unanswered`, `PageAnswer` | 200, 401, any other answer of `/me`; an answer to a page |

`useNavigate` (react-router 6 under `BrowserRouter`) returns another function when the path
changes, so the effect runs on every navigation. A cancelled fetch of the effect does nothing
when it is answered; it is taken out of its slot. The two awaits of a fetch (response, JSON) are
one step, since nothing is done between them but a check that is made again after the second. A login takes
effect when it is answered, whatever the session is by then and whether or not its form is still there: the button is
disabled while its own login is under way, but another path and back is another form. Two histories say in which cases
nothing protects the profile: `stray` (`me` was set by the answer of a `refreshMe` of another session, or while logins
were crossed) and `crossed` (a login was submitted before an earlier one had been answered and the effect had run).

### Relabel.tla — PATCH /predictions/{id}

| Model | Code |
| --- | --- |
| `versions` | the committed states of `relabel_label` and `relabel_actor_id`, per prediction; the last is the row |
| `audit` | the rows `prediction_relabeled`, in order of commit |
| `holder` | the row lock the UPDATE takes |
| `request` | a call of `prediction_service.relabel`: what was asked, loaded and flushed |
| `Begin` | the threshold, and both SELECTs (the first decides with columns that never change) |
| `Flush`, `Written` | the UPDATE and the `refresh` of `prediction_repository.relabel` |
| `Commit`, `Logged` | `audit_repository.append`, the commit, the clears and the answer |
| `RollBack` | any failure before the commit |

SQLAlchemy leaves a column out of the UPDATE when the value set equals the loaded one, and Postgres
applies the UPDATE to the row as last committed. When two relabels overlap, one may therefore keep the other's
label under its own reviewer: the row says form, corrected by Bob, although Bob asked for memo, got a
200 with form in it, and the log says memo. `UndisturbedRelabelStands` says how far a relabel can be relied
on: exactly when no other commit falls between its read and its own. `from` in the audit row
is always the classifier's label, also for the second correction of a document.
`relabel_at` is left out: it always differs, so it only makes sure that there is an UPDATE.

### Review.tla — PredictionsRecentPage

| Model | Code |
| --- | --- |
| `rows`, `pending`, `openId` | the states of the page |
| `modal`, `Rendered` | the state of the mounted dialog, or `None`; `opened`, and React's mounting and unmounting |
| `sent` | saves of this page that are not answered |
| `Refresh`, `ListAnswer`, `ListError` | `load` |
| `OpenRow`, `Close`, `Select`, `ClearSelection`, `Apply`, `Cancel`, `Save` | what the user may do in each state of the dialog |
| `OnSaved`, `NotSaved` | the rest of `doSave` once the answer is there, whether or not its dialog is |
| `OthersRelabel` | every other client of the endpoint, with any label |

A list answer may be a cached one; how old is ReadCache's subject, so here each row of it is any state
the row has had. The page may show an old label after a save (the list was on its way), but
never one that was not stored.

### Notebook.tla — classifier_training.ipynb

| Model | Code |
| --- | --- |
| `cell` | the cell the kernel is in; the operator runs them in order, may begin at the reload cell, skip it, or lose the kernel |
| `model`, `history`, `best`, `bestState`, `noImprove` | `model`, `history`, `best_val_top1`, `best_state`, `epochs_no_improve` |
| `stream`, `seen`, `measured`, `scored`, `cursor` | the test loader's iterator, `evaluate`'s count and result, `score_test_set`'s rows and cursor |
| `checkpoint`, `upload`, `kept`, `weightsFile`, `exported` | the checkpoint and the artifacts, in the kernel and in the operator's hands |
| `TrainEpoch`, `TrainFails`, `TrainEnds` | an epoch, an exception in it, the reload of the best state |
| `EvaluateBatch`, `EvaluateEnds`, `LoadFails` | `evaluate` over the stream of `safe_loader_iter` |
| `SaveCheckpoint`, `UploadStarts`, `UploadEnds`, `Reload`, `SkipReload` | the checkpoint cells |
| `ScoreBatch`, `ScoreBatchFails`, `ScoreEnds` | `score_test_set`, with its cursor |
| `SelectGolden`, `ExtractGolden` | the golden set |
| `ExportWeights`, `WriteCard` | the artifacts |

A tensor state is the number of the training pass that made it; what the optimiser computes is any
accuracy. The notebook file has 8,420 lines, of which 905 are source and the rest recorded outputs.

### Access.tla — routes, rules, matcher

Routes with what `require_permission` hands to the enforcer, the rows each migration inserts and deletes,
`keyMatch` and the matcher of `model.conf`, all as operators. A route's parameter is a segment of its own:
the code passes the pattern, not the path.

### Deployment.tla — the stack

| Model | Code |
| --- | --- |
| `tree`, `image` | `app/classifier/models` in the repository and in the image |
| `up`, `secrets`, `bucket` | the infrastructure, what Vault and MinIO hold |
| `revision`, `rules` | `alembic_version`, `casbin_rule` |
| `seed`, `migrate`, `started` | the one-shot services and compose's gates |
| `proc` | stage, files and loaded policy of api and worker |
| `ResolveSecrets`, `InitLimiter`, `CountPolicy`, `LoadPolicy`, `CheckClassifier` | the lifespan, in its order |
| `BootChecks`, `StartWorker` | the boot checks and the worker |
| `Healthy` | `/health` answers 200 |
| `InfraStops`, `InfraRestarts`, `ProcessDies`, `ComposeDown`, `StartByHand`, `SeedByHand`, `TruncateRules`, `Downgrade` | what befalls the stack, and what the runbook lets an operator do |

### Release.tla — from training to serving

Notebook, tree, image and stack in one: `UnzipWeights` and `UnzipCard` copy the two artifacts one
after the other, `FetchWeights` is `git lfs pull`, `BuildImage` takes what the tree holds. A release is
prepared while the stack is down, and no notebook runs once a file has been unzipped.

### Requests.tla — a request in the api

| Model | Code |
| --- | --- |
| `pc`, `endpoint`, `sender`, `answer` | a request, its route, the account of its token, its status |
| `userHolds`, `dataHolds` | connections of `get_user_db`'s and of the other session |
| `BodyError`, `ValidationError` | 400 and 422, before and after the dependencies |
| `Limit`, `WindowEnds` | `RateLimiter(times=10, seconds=60)` |
| `ReadToken`, `Connect`, `Authorize`, `Login` | `current_user(active=True)`, the pool, `require_permission`, `/auth/jwt/login` |
| `AnswerAtOnce`, `Enter`, `Read`, `FetchOverlay`, `Health` | handlers that read |
| `RejectUpload`, `Refuse`, `Commit`, `Finish` | handlers that write: guards, transaction, what follows it |
| `Unhandled`, `PoolTimesOut`, `Fail`, `Succeed`, `End` | exception handlers, the answer, the end of the sessions |

A result is sent before the sessions are closed, an exception closes them first; the difference is
`Succeed` against `Fail`. What is written is the matter of the other modules: here a commit
matters because a request under `/admin/users` may change the standing of an account that has
requests of its own in flight. `entitled` is history: whether the sender could call the endpoint, at
each moment since the request arrived. The writes under `/admin/users` are one endpoint; the limiter of
`invite` works like that of the login.

### AuditLog.tla — the log, GET /audit and Activity history

| Model | Code |
| --- | --- |
| `work`, `at`, `log` | open transactions with their row, `created_at`, the committed rows |
| `account` | the rows of `users` as the labels see them |
| `List`, `NameActors`, `NameTargets` | the statements of `audit_service.list_paginated`, each with its snapshot |
| `Windows` | ORDER BY `created_at` DESC with OFFSET and LIMIT; equal times come in any order |
| `offset`, `limit`, `phase`, `rows` | the state of `AuditPage` |
| `Refresh`, `Previous`, `NextPage`, `ChangeLimit`, `LoadFails` | its controls, disabled during a load, and a failed load |

`created_at` is `now()`, the start of the transaction, so a row may appear below rows the auditor has
read. `baseline` and `seen` are history: the log when the first window was read, and what has been shown.

## 4 The runs

| Run | Instance | Shows |
| --- | --- | --- |
| `pipeline_safety` | 2 contents (good, invalid), 5 ids, 1 file name put twice, also over itself, 1 upload, 2 retries, 2 faults | type, `PredictionBacked`, `CompleteHasPrediction`, `FinishedIsPredicted`, `FailureAudited`, `NoFileLost`, `ImplementsRegistry` |
| `pipeline_liveness` | good and poison, 3 ids, 2 files, 2 retries, 1 fault, fair | `JobsSettle`, `ScannedIsPredicted` |
| `pipeline_marked_early` | poison, 3 retries as in the code | violates `FailedAfterRetries` |
| `pipeline_received_forever` | one scan and one upload of the same content, no fault, fair | violates `ReceivedCompletes` |
| `user_admin` | 3 accounts, 2 roles, 2 addresses, 2 requests | type, `SeedKept`, `AuditReplays`, `ActorsStayAdministrators`, `EmailsDistinct`, `ImplementsBook` |
| `read_cache` | batch detail and recent predictions, 2 reads, 2 writers, 1 commit per datum | type, `StaleOnlyWhileClearing`, `AnswersShowFinishedWrites` |
| `session` | 2 users, 4 requests under way (logins, fetches of `/me`, pages) | type, `ShownProfileIsSessions` |
| `review` | 2 predictions (one at the threshold), 2 labels, 2 reviewers, 3 relabels | type, `UndisturbedRelabelStands`, `ShownWasStored`, `SavesAreCandidates` |
| `release` | 6 images in batches of 2, one of them corrupt, 2 epochs, 3 training passes, a volume of revision 0 or 6, 3 faults, fair | type, `BestEpochKept`, `GoldenWasScored`, `ServedModelWasMeasured`, `SeedsFollowRevision`, `LeastPrivilege`, `HealthyStackIsReady`, `StackComesUp` |
| `evaluation_full_split` | the same | violates `EvaluationCoversSplit` |
| `api_requests` | 2 requests, a pool of 2, 2 accounts, 2 roles, 6 endpoints, a limit of 1 login, fair | type, `ConnectionsSuffice`, `AnswersFollowAuthority`, `AnswersTellCommit`, `EveryRequestAnswered` |
| `audit_reader` | 3 entries, 3 accounts, 2 addresses, windows of 1 and 2 | type, `NoEntrySkipped`, `OneLabelOneAccount` |

Some invariants are proved (section 5) and no longer part of a run, since other properties of the run
fail with them or the proof says more: the `IInv`s, `WaitingRowsAreUploads`, `QuarantineIsFinal`,
`RemovedIsInactive`, `GuardedRowsKept`, `LoadingIsWaiting`, `ConfidentKept`, `RowIsAudited`, `PoolNotExceeded`,
`OneDocumentPerBatch`, `RowsSettle`, `JobsDescend`, `ReportedAtMostTwice`, `RequestsDescend`. Each was first checked by
TLC on the instance of its module.

Why the bounds are enough to be interesting. In `pipeline_safety` file and
upload may carry the same content, so two jobs race for one `content_sha256`; a second put of the same name may come
before the read, between read and delete, or after the delete; two faults
let a first fault cause the re-ingestion of a file under a second id and another hit the
retry of either job, or both hit one job. Two retries are the fewest with which the handler sees a failure it must not
report, one it reports too early (the last retry is scheduled, and may succeed beside the handler, fail on the row the
handler has inserted, or make the handler's own insert fail)
and one it reports rightly; five ids are as many as that can draw, so that the ingest loop
is never starved by the bound. Poisoned contents, which reach all three without a fault, are in the liveness run. There
one fault is the most that is fewer than the retries; two files may hold the same content. Ids are drawn in one order
(`OrderedFairSpec`): any other behaviour is a renaming of one that does, and TLC cannot use symmetry under liveness.
`pipeline_marked_early` uses the three retries of the code. In `user_admin` two
requests suffice for every overlap of two transactions on one account, three accounts for
an administrator, an invited peer and a target of both. In `read_cache` detail and recent
cover both key shapes, the torn second SELECT, and all writers but the account ones;
`record_prediction` and `relabel` change the same datum. In `session` four requests
hold one of the effect, late ones of two earlier sessions and a page's, or two logins beside the fetches they lead to. In `review` three relabels are
the fewest that mix (one to label the row, two that overlap); the confident prediction is at the threshold
itself, and dialogs of both predictions may follow one another while a save is under way. In `release` six
images in batches of two have a batch before, at and after the corrupt image; three training passes
are the shipped one and two more, so that a checkpoint, a reload and an export may each be of another; three
faults let a Vault restart, a crash and a hand-started container follow one another; volumes of
revision 0 and 6 run all migrations or only the last. In `api_requests` two requests with a pool of
two can each hold one connection and wait for the other's (that is the ring the timeout ends), or one that holds
the connection of its account waits for the one a login or `/health` holds (that is the case `ConnectionsSuffice`
speaks of, whose general form is proved), and one changes the standing of the other's sender
at any point of its life. The six endpoints have every shape of handler: none of them differs from a
seventh in its steps. In `audit_reader` three entries and windows of one and two have an entry commit below,
between and above those already shown, and the four transactions of `MCDone` remove an account and
invite another with the address that is free again. The proofs remove all of these bounds.
Ids, request slots and ordinary accounts are symmetric in the safety runs (no liveness
property is checked under symmetry).

Fairness (`FairSpec` of Pipeline). Weak fairness of the ingest loop's own steps: it polls
until it dies. Of `IngestRestart`: an operator starts a dead process again; compose has no
restart policy for it, so without this assumption a single SFTP outage ends ingestion. Of
each job's worker steps, of RQ's scheduler (`with_scheduler=True`) and of the exception
handler: workers run. Nothing is assumed of the scanner, of users or of faults. Without a
bound on faults nothing could be promised: `ScannedIsPredicted` is checked with fewer faults
than retries. With as many, a good document may stay unpredicted (section 6): the handler that comes too early, after
the last but one attempt, may insert the batch row while the last attempt is about to.

Fairness of `Release`: weak fairness of compose's steps and of the boot steps of the processes it has
started. Compose and processes run by themselves; nothing is assumed of the operator, of faults or of the notebook.

Fairness of `Requests`: weak fairness of each request's steps. The event loop resumes a coroutine whose await is
over; Postgres, Redis and MinIO answer or fail; and a wait for a connection ends in a connection or in the
pool's timeout of 30 seconds (SQLAlchemy's default, which `make_engine` leaves alone). Nothing is assumed of
clients. Without the timeout `EveryRequestAnswered` is false: its mutant shows the ring.

## 5 The proofs

`tlapm` proves, without any bound on the constants (see `theorems` in `PROJECT.json`):

* **PipelineProofs** — `TypeOK`, all state properties of `pipeline_safety`, `NoFileLost`
  for any scanner, and the refinement `ImplementsRegistry`; further `OneDocumentPerBatch`,
  `RowsSettle`, `ReportedAtMostTwice`, and `JobsDescend`, the variant behind `JobsSettle`.
* **ReleaseProofs** — all state properties of `release`: the rules first, then the notebook, then the stack.
* **RequestsProofs** — `TypeOK`, `PoolNotExceeded`, `ConnectionsSuffice`, `AnswersFollowAuthority`, `AnswersTellCommit`,
  and `RequestsDescend`, the variant behind `EveryRequestAnswered`.
* **UserAdminProofs** — `TypeOK`, `SeedKept`, `RemovedIsInactive`, `AuditReplays`,
  `ActorsStayAdministrators`, `EmailsDistinct`, `GuardedRowsKept`, and the refinement `ImplementsBook`.
* **AuditLogProofs** — `TypeOK`, `NoEntrySkipped`, `OneLabelOneAccount`.
* **ReadCacheProofs** — `TypeOK`, `StaleOnlyWhileClearing`, `AnswersShowFinishedWrites`.
* **SessionProofs** — `TypeOK`, `ShownProfileIsSessions`, `LoadingIsWaiting`.
* **ReviewProofs** — for page and server together `TypeOK`, `ConfidentKept`, `RowIsAudited`,
  `UndisturbedRelabelStands`, `ShownWasStored`, `SavesAreCandidates`, and that they implement
  Relabel (`PageIsAClient`).

Assumptions are those of the modules: the null values differ from the ordinary ones, the
bounds are natural numbers, `Invalid` is a set of contents, the seeded account exists,
`"admin"` is a role, there is a connection in the pool. TLC evaluates each of them in the runs.

*Pipeline.* The properties are not inductive: that a prediction row has its objects needs
to know that an attempt past `MakeOverlay` has stored the overlay and that a job's
object is the one it `carries`. `IInv` adds, for each id, what is true at each point
of its life (`BatchInv`: nothing happened under an id not yet issued; the attempt runs exactly
while the job is `started`; an attempt past the record step has its content predicted; audit rows
and handler calls imply that no retry is left), and what the ingest process (`IngestInv`) and
each upload (`UploadInv`) know about the id they work on, in particular that no two of them
share one. The proof treats worker steps on one id by a frame lemma (a step on `b`
keeps `BatchInv` of every other id), intake steps that write nothing shared by another, and then
the writing steps one by one. That the handler's reading `retries_left = 0` stays true until the
handler has written relies on ids being drawn afresh: no step raises the count of a job that exists. `NoFileLost` needs
that the file read still is what its name holds unless `overwritten` (`IngestInv`).
`RowsSettle` is proved from the operations of DocumentRegistry and carried over by the refinement. `JobsDescend`
counts the steps a job has left, eight for each retry and those of its present attempt: each step of the job lowers
that number and no step of the intake or of another job touches it. What remains for `JobsSettle` is that such a step is
possible and taken, which is fairness and stays with TLC. `ReportedAtMostTwice` counts reports written and
under way together (`ReportsCounted`): at most one while the job may still run, two once it has failed.

*UserAdmin.* The inductive invariant says that on an account that is not `contended` at most one
transaction is open (`Exclusive`), that open transactions concern existing accounts that are still
manageable (`OpenExists`, `OpenManageable`), that what the repository loaded is still what
the row says (`LoadedFresh`) and that ids without a row have the initial values
(`FreshRows`). Because only columns that differ are written, `LoadedFresh` is exactly what makes
the audit row true; it fails on contended accounts, and so does the property. `ImplementsBook` follows action by
action: a first check of a second transaction is a `Dispute` (which needs `OpenManageable`: the account is one that may
be managed), a commit is the abstract operation at that moment (`LoadedFresh` turns the columns written into the
row the abstract operation enters), an insert is `Invite` (`FreshRows`), and only accounts that exist are
contended (`ContendedExist`).

*ReadCache.* The invariant covers reads in flight: no floor is ahead of the database
(`FloorBehind`), what a read may find under its key unless that is `suspect` is at least its floor
(`LookupsCovered`), and so is what it has loaded (`LoadsCovered`). The second needs
`StaleOnlyWhileClearing`: an entry behind the floor would have a writer still clearing, and such a
writer keeps the datum out of every floor set meanwhile. The step lemmas follow `Next` action by action.

*Session.* The missing pieces are `EffectIsSessions` (unless logins have crossed, a fetch of the effect that is not
cancelled carries the token of the session, or the session has just ended and the effect is due) and
`LoginFindsNoSession` (unless they have crossed, a login under way is the only one, and there is neither a token nor
an uncancelled fetch of the effect beside it). A login's answer keeps the first because of the second; and a login
is only submitted when the effect of the last logout has run, or counts as crossed.

*Review.* `UndisturbedRelabelStands` needs `FlushedIsCurrent`: what a transaction has flushed is still what
its UPDATE makes of the current row, since it holds the lock. `AuditedIsOver` keeps the local variables of
logged requests fixed. For the page, `SavedIsStored` says that the row of an answer 200 is in `versions`, and
`ChosenIsCandidate` ties a selection to the open prediction; it holds because no step replaces the open
prediction by another without unmounting the dialog.

*Release.* `NotebookInv` says what the kernel knows: whose weights the model holds at each cell (`ModelKnown`),
that best state and history agree (`BestTracked`), that the cursor of the scoring pass is the position of the
image (`IndexIsPosition`), that picks are correct ones (`PicksAreCorrect`), that a checkpoint's metrics are of its own
weights (`CheckpointsOfThemselves`, `CheckpointOfModel`) and so are exported files (`ExportSound`). `StackInv` carries that on:
every model card anywhere is sound (`CardsSound`), a process past its checks has a matching pair (`CheckedModel`), and
what compose has started is behind its gates (`ComposeOrder`). Digests are injective: a digest stands for the
tensor state it was computed from.

*Requests.* `IInv` adds who may hold a connection at which step (`HoldersKnown`), that the pool is not exceeded, that
a request's present authority is always part of its history and that one past `Authorize` had it once
(`EntitledIsHistory`), and that only a write commits, once it is past its session (`CommittedWrote`). `ConnectionsSuffice`
then follows by counting: if every holder waited, each would hold one connection and wait for its second, so
each would be one of the requests that may need two, and fewer than the pool has would be in use.

*AuditLog.* `NoEntrySkipped` holds although the log grows while it is read: an entry that was there when
the first window was read and has not been shown has at least `offset` newer ones in the log (`PagedSoFar`), and if the
window being read does not show it either, at least `limit` more (`WindowContinues`); so the page after that
cannot have begun below it. Counting the newer ones (`Newer`) makes the invariant independent of how ties are ordered
and of what commits meanwhile, which can only add newer ones. `OneLabelOneAccount` needs that live addresses are
distinct (`AddressesDistinct`), that every account the log names exists (`NamedExist`), and `ActorsNamed`: after
the first of the two statements that name accounts, no other account that the window names can take over a label that has been
given; it could only if it were invited with a freed address, and then it would not have existed when the window was read.

Only model-checked: the liveness properties (`JobsSettle`, `ScannedIsPredicted`, `StackComesUp`,
`EveryRequestAnswered`: liveness under fairness is outside the prover's reach), and the violations. Every invariant and
every action property or refinement of a passing run is stated by a theorem.

## 6 Where code and documents disagree

Three runs end in a counterexample to something a docstring or a text says; the quotes are
under `findings` in `PROJECT.json`.

1. A batch is marked failed, with an audit row, while one attempt is still scheduled:
   the handler reads `retries_left` after RQ has taken the retry. The last attempt may still
   complete the batch; a page that has seen `failed` no longer polls and does not show it.
2. A browser upload of a document that is already predicted stays `received` for
   ever, and its page promises to refresh "until the run completes".
3. One image that cannot be decoded ends the test stream, so that the "full 40k test split" is a prefix:
   33,664 scores in the committed file.

Without a run of their own, seen while modelling:

* `sftp_ingest.py:94`: a file rewritten between `read_file` and `delete_file` is deleted unread (`overwritten`, the one
  exception in `NoFileLost`).
* `batch_repository.py:62`: after the last but one failure of a scanned document the handler (which comes too early, 1.
  above) and the last attempt may both find no batch row. If the handler's INSERT is first, the attempt's raises
  `IntegrityError` outside the `try` of `create`, the last retry is spent without any service having failed, and a
  readable document stays unpredicted although an attempt met no fault. If the attempt's is first, the report is lost.
* A removed account can be active: a reactivation that passed its guards commits after the removal
  (`RemovedIsInactive` excludes contended accounts).
* `user_service.py:58` promises the new role to "the very next /me call"; a `/me` under way during the change
  may store the old one after the clear.
* `AuthContext.tsx:38-40` drops the profile with new credentials "so Layout never shows the last user's role until the
  next /me completes". It may: a `refreshMe` under way when the session changes (`AuthContext.tsx:76`) sets the last
  user's profile under the next user's token; and of two logins under way the second answer (`LoginPage.tsx:85`)
  replaces the token while the fetch of `/me` for the first is not yet cancelled, and its answer comes before
  the effect's cleanup (`stray` and `crossed` in Session).
* `tests/test_rbac.py:43-50` (`test_admin_cannot_relabel`: "admin has no PATCH policy on /predictions/*") expects 403 from
  `PATCH /predictions/{prediction_id}`; migration 0007 inserts that policy "so admins can also relabel", and with it
  the administrator is admitted. `HealthyStackIsReady` leaves that route out (`RelabelRoute`).
* Of two overlapping relabels one may answer 200 with the other's label (`tests/test_relabel.py:70` expects the label
  that was asked for).
* `README.md:39-43` has the worker check Vault and the policy; `run_boot_checks` looks at the classifier only.
  A missing or unreachable Vault shows when a job resolves its secrets.
* `RUNBOOK.md:88-101`: `docker compose up api` starts a stopped Vault again, and a Vault that is not there raises a
  connection error, not `VaultUnreachable`; removing `classifier.pt` from the tree has no effect on a built
  image; `MIN_MODEL_TOP1` is not passed on by compose.
* `golden.py` and the notebook say that CI replays the golden set; the workflow runs `pytest` only.
* The notebook run from top to bottom in a fresh kernel reaches the reload cell, which only prints when no
  checkpoint was uploaded: untrained weights can be exported beside the metrics of the trained ones (the exception in
  `ServedModelWasMeasured`).
* `errors.py:3` promises the envelope for "every error response on every endpoint"; the 404 and 405 of the router and
  the 503 of `/health` have another shape. A 500 is answered outside `RequestIdMiddleware` and lacks the header
  `X-Request-ID`.
* `audit_repository.py:43` orders by `created_at` alone: entries of one instant have no order, and one of them may be
  shown on two pages and the other on none (`Unique` in `NoEntrySkipped`).

## 7 What is not modelled

* The arithmetic of the classifier, image decoding, overlays as images: data without control.
* Postgres, Redis, MinIO, RQ, fastapi-cache and SQLAlchemy themselves. They are modelled by what
  the code relies on; such definitions are marked external.
* Loss of data in a service, and loss of a job when Redis restarts.
* Several tabs of one browser sharing a token.
* Password hashes and token signatures (fastapi-users): a token names an account or none.
* The text of errors and labels, request ids, log lines, configuration values that no check reads, rendering.
* `golden.py`: the replay compares confidences within 1e-6, which is arithmetic; nothing runs it.
* Undoing migration 0002, which drops the tables under everything else.
* Pages that only fetch and render (batches, users), and the polling of `BatchDetailPage`: an old answer that comes
  last makes it poll again.
* The overlay images of the review page, and lists longer than its limit.
* A save that closes the dialog of another document (`OnSaved` of Review has the step; no document promises otherwise).

The share of mapped lines is bounded by the notebook: 7,515 of its 8,420 lines are recorded outputs (images, logs,
metadata), more than half of all implementation lines, and stand for no behaviour. Of its source cells those left
out install packages, clean disks, plot and explore the data. Of the Python code what is left out is mostly imports,
docstrings, schemas and the items above.

## 8 Plan

Done, in this order because intake and worker carry the documents: Inference, Pipeline,
DocumentRegistry; UserAdmin and AccountBook; ReadCache; Session; Relabel and Review; Notebook, Access, Deployment and
Release; Requests; AuditLog; each with its proofs.

What could follow:

1. A composition of UserAdmin's requests with ReadCache's `/me` (an answer's role against the
   authority of the next request), and an abstract specification of the cache
   (a register with bounded staleness) with a refinement proof.
2. Requests over UserAdmin's transactions instead of its own abstract commit.
3. A variant for the start of the stack like those of jobs and requests, as the step behind `StackComesUp`.
