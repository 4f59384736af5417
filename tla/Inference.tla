----------------------------- MODULE Inference -----------------------------
(***************************************************************************)
(* The worker side of dropsort: an RQ job carries one document from MinIO   *)
(* to Postgres.  Models app/workers/jobs.py, app/workers/inference_worker,  *)
(* record_prediction and mark_batch_failed of prediction_service.py and the *)
(* repository functions they call, over the queue of app/infra/queue.py.    *)
(* The module declares the state and the actions; Pipeline.tla composes     *)
(* them with the intake and gives the specification.                        *)
(*                                                                         *)
(* A batch is its external id, which SFTP ingest and the browser upload     *)
(* both draw with uuid4: a batch holds one document and has at most one     *)
(* job.  A document is its content, that is its SHA-256.                    *)
(***************************************************************************)
EXTENDS Naturals

CONSTANTS Content,      \* file contents, told apart by their SHA-256
          Poison,       \* contents on which classify raises every time
          Batch,        \* batch external ids
          NoContent, NoBatch,
          MaxRetries,   \* Retry(max=...) of the queue adapter
          MaxFaults     \* bound: faults of the environment in a behaviour

ASSUME NoContentAssumption == NoContent \notin Content
ASSUME NoBatchAssumption == NoBatch \notin Batch
ASSUME RetriesAssumption == MaxRetries \in Nat
ASSUME FaultsAssumption == MaxFaults \in Nat

VARIABLES
    incoming,    \* MinIO: incoming/{batch}/..., batch id -> content
    overlays,    \* MinIO: ids with an object overlays/{batch}/....png
    status,      \* RQ: batch id -> status of the job that carries it
    retries,     \* RQ: batch id -> retries_left of the job
    carries,     \* RQ: batch id -> document of the job (content_sha256)
    attempt,     \* batch id -> where the running attempt of its job is
    handlers,    \* batch id -> calls of mark_batch_failed still to be made
    inserting,   \* batch id -> those calls whose SELECT found no batch row
    batch,       \* table batches: external id -> state
    prediction,  \* table predictions: content_sha256 -> batch id
    audit,       \* table audit_log: batch id -> "batch_state_changed" rows
    faults       \* faults so far

jobVars == <<status, retries, carries>>
tableVars == <<batch, prediction, audit>>
handlerVars == <<handlers, inserting>>
workerVars == <<overlays, jobVars, attempt, handlerVars, tableVars>>
inferenceVars == <<incoming, workerVars, faults>>

JobStatus == {"none", "queued", "started", "scheduled", "finished", "failed"}
AttemptStep == {"idle", "classify", "persist", "insert", "clear", "return"}
BatchState == {"absent", "received", "complete", "failed"}

InferenceTypeOK ==
    /\ incoming \in [Batch -> Content \cup {NoContent}]
    /\ overlays \subseteq Batch
    /\ status \in [Batch -> JobStatus]
    /\ retries \in [Batch -> 0 .. MaxRetries]
    /\ carries \in [Batch -> Content \cup {NoContent}]
    /\ attempt \in [Batch -> AttemptStep]
    /\ handlers \in [Batch -> Nat]
    /\ inserting \in [Batch -> Nat]
    /\ batch \in [Batch -> BatchState]
    /\ prediction \in [Content -> Batch \cup {NoBatch}]
    /\ audit \in [Batch -> Nat]
    /\ faults \in 0 .. MaxFaults

InferenceInit ==
    /\ incoming = [b \in Batch |-> NoContent]
    /\ overlays = {}
    /\ status = [b \in Batch |-> "none"]
    /\ retries = [b \in Batch |-> 0]
    /\ carries = [b \in Batch |-> NoContent]
    /\ attempt = [b \in Batch |-> "idle"]
    /\ handlers = [b \in Batch |-> 0]
    /\ inserting = [b \in Batch |-> 0]
    /\ batch = [b \in Batch |-> "absent"]
    /\ prediction = [c \in Content |-> NoBatch]
    /\ audit = [b \in Batch |-> 0]
    /\ faults = 0

(* A fault of a service, the network or the host; the budget bounds them.   *)
Fault == faults < MaxFaults /\ faults' = faults + 1

-----------------------------------------------------------------------------
(* The queue.                                                               *)

(* QueueClient.enqueue_classification_job.                                  *)
EnqueueJob(b, c) ==
    /\ status' = [status EXCEPT ![b] = "queued"]
    /\ retries' = [retries EXCEPT ![b] = MaxRetries]
    /\ carries' = [carries EXCEPT ![b] = c]

(* A worker takes the job off the queue and calls run_classification_job.   *)
StartAttempt(b) ==
    /\ status[b] = "queued"
    /\ status' = [status EXCEPT ![b] = "started"]
    /\ attempt' = [attempt EXCEPT ![b] = "classify"]
    /\ UNCHANGED <<incoming, overlays, retries, carries, handlerVars, tableVars,
                   faults>>

(* The RQ scheduler (with_scheduler=True) requeues a retry when it is due.  *)
RequeueRetry(b) ==
    /\ status[b] = "scheduled"
    /\ status' = [status EXCEPT ![b] = "queued"]
    /\ UNCHANGED <<incoming, overlays, retries, carries, attempt, handlerVars,
                   tableVars, faults>>

(* Mutants of HandleJobFailure: the count is not floored, not decremented,  *)
(* or the retry is dropped.                                                 *)
HandleJobFailureNoFloor(b) ==
    /\ status' = [status EXCEPT ![b] = "scheduled"]
    /\ retries' = [retries EXCEPT ![b] = @ - 1]
    /\ UNCHANGED carries

HandleJobFailureNoCount(b) ==
    /\ status' = [status EXCEPT
                    ![b] = IF retries[b] > 0 THEN "scheduled" ELSE "failed"]
    /\ UNCHANGED <<retries, carries>>

HandleJobFailureNoRetry(b) ==
    /\ status' = [status EXCEPT ![b] = "failed"]
    /\ UNCHANGED <<retries, carries>>

(* RQ records a failed attempt: a retry is taken and scheduled if any is    *)
(* left, otherwise the job is moved to the failed registry.                 *)
HandleJobFailure(b) ==
    /\ status' = [status EXCEPT
                    ![b] = IF retries[b] > 0 THEN "scheduled" ELSE "failed"]
    /\ retries' = [retries EXCEPT ![b] = IF @ > 0 THEN @ - 1 ELSE 0]
    /\ UNCHANGED carries

-----------------------------------------------------------------------------
(* One attempt of a job, in the order of run_classification_job.            *)

(* Mutant of MakeOverlay: the overlay is left for later.                    *)
MakeOverlayDeferred(b) ==
    /\ attempt[b] = "classify"
    /\ incoming[b] \in Content \ Poison
    /\ attempt' = [attempt EXCEPT ![b] = "persist"]
    /\ UNCHANGED <<incoming, overlays, jobVars, handlerVars, tableVars, faults>>

(* download_bytes, classify, make_overlay and the upload of the overlay.    *)
MakeOverlay(b) ==
    /\ attempt[b] = "classify"
    /\ incoming[b] \in Content \ Poison
    /\ overlays' = overlays \cup {b}
    /\ attempt' = [attempt EXCEPT ![b] = "persist"]
    /\ UNCHANGED <<incoming, jobVars, handlerVars, tableVars, faults>>

(* upsert_external SELECTs the batch row and INSERTs one if there is none;  *)
(* a call of mark_batch_failed may insert it in between.                    *)
SelectNoBatch(b) ==
    /\ attempt[b] = "persist"
    /\ batch[b] = "absent"
    /\ attempt' = [attempt EXCEPT ![b] = "insert"]
    /\ UNCHANGED <<incoming, overlays, jobVars, handlerVars, tableVars, faults>>

(* The transaction of the attempt goes on: the SELECT finds the row, or the *)
(* INSERT of it is the first.                                               *)
HasBatchRow(b) ==
    \/ attempt[b] = "persist" /\ batch[b] # "absent"
    \/ attempt[b] = "insert" /\ batch[b] = "absent"

(* Mutant of RecordPrediction: no UNIQUE constraint on content_sha256.      *)
RecordPredictionUpsert(b) ==
    /\ HasBatchRow(b)
    /\ prediction' = [prediction EXCEPT ![carries[b]] = b]
    /\ batch' = [batch EXCEPT ![b] = "complete"]
    /\ attempt' = [attempt EXCEPT ![b] = "clear"]
    /\ UNCHANGED <<incoming, overlays, jobVars, handlerVars, audit, faults>>

(* record_prediction, first document with this content.  Its transaction    *)
(* upserts the batch, sets "processing" and then "complete": only the last  *)
(* state is ever visible to another session.                                *)
RecordPrediction(b) ==
    /\ HasBatchRow(b)
    /\ prediction[carries[b]] = NoBatch
    /\ prediction' = [prediction EXCEPT ![carries[b]] = b]
    /\ batch' = [batch EXCEPT ![b] = "complete"]
    /\ attempt' = [attempt EXCEPT ![b] = "clear"]
    /\ UNCHANGED <<incoming, overlays, jobVars, handlerVars, audit, faults>>

(* Mutants of SkipDuplicate: the early return is missing, so that the batch *)
(* is completed; the rollback is missing, so that the upsert is committed.  *)
SkipDuplicateCompletes(b) ==
    /\ HasBatchRow(b)
    /\ prediction[carries[b]] # NoBatch
    /\ batch' = [batch EXCEPT ![b] = "complete"]
    /\ attempt' = [attempt EXCEPT ![b] = "clear"]
    /\ UNCHANGED <<incoming, overlays, jobVars, handlerVars, prediction, audit,
                   faults>>

(* record_prediction, content_sha256 already taken: create rolls the whole  *)
(* transaction back, the upsert of the batch row with it, and the job skips *)
(* the completion of the batch and the clearing of the caches.              *)
SkipDuplicate(b) ==
    /\ HasBatchRow(b)
    /\ prediction[carries[b]] # NoBatch
    /\ attempt' = [attempt EXCEPT ![b] = "return"]
    /\ UNCHANGED <<incoming, overlays, jobVars, handlerVars, tableVars, faults>>

(* The three FastAPICache.clear calls after the commit.                     *)
ClearCaches(b) ==
    /\ attempt[b] = "clear"
    /\ attempt' = [attempt EXCEPT ![b] = "return"]
    /\ UNCHANGED <<incoming, overlays, jobVars, handlerVars, tableVars, faults>>

(* The function returns; RQ marks the job finished.                         *)
FinishJob(b) ==
    /\ attempt[b] = "return"
    /\ status' = [status EXCEPT ![b] = "finished"]
    /\ attempt' = [attempt EXCEPT ![b] = "idle"]
    /\ UNCHANGED <<incoming, overlays, retries, carries, handlerVars, tableVars,
                   faults>>

-----------------------------------------------------------------------------
(* Failures of an attempt.                                                  *)

(* Mutant of CallHandler: the handler does not look at retries_left.        *)
CallHandlerAlways(b) == handlers' = [handlers EXCEPT ![b] = @ + 1]

(* RQ has accounted for the failure before it calls handle_worker_exception,*)
(* so the handler reads the retries that are left after this attempt.       *)
CallHandler(b) ==
    handlers' = IF retries'[b] > 0
                THEN handlers
                ELSE [handlers EXCEPT ![b] = @ + 1]

AttemptRaises(b) ==
    /\ HandleJobFailure(b)
    /\ CallHandler(b)
    /\ attempt' = [attempt EXCEPT ![b] = "idle"]
    /\ UNCHANGED <<incoming, overlays, inserting, tableVars>>

(* classify raises on this content, whatever the attempt.                   *)
ClassifyRaises(b) ==
    /\ attempt[b] = "classify"
    /\ incoming[b] \in Poison
    /\ AttemptRaises(b)
    /\ UNCHANGED faults

(* Mutant of AttemptFaults: the job catches the exception and returns.      *)
AttemptFaultsSwallowed(b) ==
    /\ attempt[b] # "idle"
    /\ Fault
    /\ attempt' = [attempt EXCEPT ![b] = "return"]
    /\ UNCHANGED <<incoming, overlays, jobVars, handlerVars, tableVars>>

(* MinIO, Postgres, Redis or Vault fails, or the 60 s job timeout strikes:  *)
(* an exception at any point of the attempt, after the commit included.     *)
AttemptFaults(b) ==
    /\ attempt[b] # "idle"
    /\ Fault
    /\ AttemptRaises(b)

(* The work-horse process dies: RQ's parent accounts for the failure, and   *)
(* no exception handler runs.                                               *)
WorkHorseDies(b) ==
    /\ attempt[b] # "idle"
    /\ Fault
    /\ HandleJobFailure(b)
    /\ attempt' = [attempt EXCEPT ![b] = "idle"]
    /\ UNCHANGED <<incoming, overlays, handlerVars, tableVars>>

(* The INSERT meets a row that mark_batch_failed has committed since the    *)
(* SELECT: UNIQUE external_id raises before create is reached, which only   *)
(* catches the duplicate document, and the attempt fails.                   *)
InsertRaises(b) ==
    /\ attempt[b] = "insert"
    /\ batch[b] # "absent"
    /\ AttemptRaises(b)
    /\ UNCHANGED faults

-----------------------------------------------------------------------------
(* handle_worker_exception with no retry left: mark_batch_failed, whose     *)
(* system actor is the seeded administrator.                                *)

(* Its upsert of the batch finds no row.                                    *)
MarkSelectsNone(b) ==
    /\ handlers[b] > 0
    /\ batch[b] = "absent"
    /\ handlers' = [handlers EXCEPT ![b] = @ - 1]
    /\ inserting' = [inserting EXCEPT ![b] = @ + 1]
    /\ UNCHANGED <<incoming, overlays, jobVars, attempt, tableVars, faults>>

(* It finds the row or is the first to insert it, overwrites the state and  *)
(* writes the audit row, in one transaction.                                *)
MarkBatchFailed(b) ==
    /\ \/ /\ handlers[b] > 0 /\ batch[b] # "absent"
          /\ handlers' = [handlers EXCEPT ![b] = @ - 1]
          /\ UNCHANGED inserting
       \/ /\ inserting[b] > 0 /\ batch[b] = "absent"
          /\ inserting' = [inserting EXCEPT ![b] = @ - 1]
          /\ UNCHANGED handlers
    /\ batch' = [batch EXCEPT ![b] = "failed"]
    /\ audit' = [audit EXCEPT ![b] = @ + 1]
    /\ UNCHANGED <<incoming, overlays, jobVars, attempt, prediction, faults>>

(* Its INSERT comes second: an attempt, or another handler, has committed   *)
(* the row since the SELECT.  The error ends the call as a fault does.      *)
MarkInsertRaises(b) ==
    /\ inserting[b] > 0
    /\ batch[b] # "absent"
    /\ inserting' = [inserting EXCEPT ![b] = @ - 1]
    /\ UNCHANGED <<incoming, overlays, jobVars, attempt, handlers, tableVars,
                   faults>>

(* mark_batch_failed raises: its transaction is rolled back, RQ logs the    *)
(* error of the handler and nobody calls it again.                          *)
MarkFaults(b) ==
    /\ Fault
    /\ \/ /\ handlers[b] > 0
          /\ handlers' = [handlers EXCEPT ![b] = @ - 1]
          /\ UNCHANGED inserting
       \/ /\ inserting[b] > 0
          /\ inserting' = [inserting EXCEPT ![b] = @ - 1]
          /\ UNCHANGED handlers
    /\ UNCHANGED <<incoming, overlays, jobVars, attempt, tableVars>>

WorkerStep(b) ==
    \/ StartAttempt(b) \/ MakeOverlay(b) \/ SelectNoBatch(b)
    \/ RecordPrediction(b) \/ SkipDuplicate(b) \/ ClearCaches(b)
    \/ FinishJob(b) \/ ClassifyRaises(b) \/ InsertRaises(b)

HandlerStep(b) ==
    MarkSelectsNone(b) \/ MarkBatchFailed(b) \/ MarkInsertRaises(b)

(* A step of the worker side on the job of b, faults included.              *)
InferenceStep(b) ==
    \/ WorkerStep(b)
    \/ RequeueRetry(b)
    \/ HandlerStep(b)
    \/ AttemptFaults(b) \/ WorkHorseDies(b) \/ MarkFaults(b)

InferenceNext == \E b \in Batch : InferenceStep(b)
=============================================================================
