----------------------------- MODULE Pipeline ------------------------------
(***************************************************************************)
(* dropsort's document pipeline: the intake (SFTP polling of                *)
(* app/workers/sftp_ingest.py and the browser upload of                     *)
(* app/services/batch_upload_service.py) composed with the worker side of   *)
(* Inference.tla.  Ingest process, upload requests, job attempts and        *)
(* exception handlers interleave; any call of a service may fail and the    *)
(* ingest process may die between two steps.                                *)
(***************************************************************************)
EXTENDS Inference

CONSTANTS Invalid,      \* contents that validate_tiff rejects
          File,         \* names in the watched SFTP folder
          Upload,       \* browser upload requests
          NoFile,
          MaxScans,     \* bound: files the scanner puts into the folder
          Overwrites    \* may the scanner write a file that is already there

ASSUME InvalidAssumption == Invalid \subseteq Content
ASSUME NoFileAssumption == NoFile \notin File
ASSUME ScansAssumption == MaxScans \in Nat
ASSUME OverwritesAssumption == Overwrites \in BOOLEAN

VARIABLES
    folder,      \* the SFTP folder: name -> content
    scans,       \* files put so far
    quarantine,  \* MinIO: failed/{batch}/..., batch id -> content
    issued,      \* batch ids drawn so far
    ingest,      \* the ingest process
    upload,      \* browser request -> where it is
    uploadBatch, \* browser request -> the id it drew
    uploadContent, \* browser request -> its document
    overwritten  \* history: the scanner has put the name that the ingest
                 \* process works on again since it was read

uploadVars == <<upload, uploadBatch, uploadContent>>
intakeVars == <<folder, scans, quarantine, issued, ingest, uploadVars,
                overwritten>>
vars == <<inferenceVars, intakeVars>>

(* Where the ingest process is: sleeping between polls, between two files,  *)
(* after one of the calls it makes for a file, or not running.              *)
IngestStep == {"sleep", "loop", "read", "quarantined", "stored", "queued",
               "down"}
UploadStep == {"new", "stored", "received", "queued", "accepted", "rejected",
               "error"}

IntakeTypeOK ==
    /\ folder \in [File -> Content \cup {NoContent}]
    /\ scans \in 0 .. MaxScans
    /\ quarantine \in [Batch -> Content \cup {NoContent}]
    /\ issued \subseteq Batch
    /\ ingest \in [step : IngestStep, todo : SUBSET File,
                   file : File \cup {NoFile}, batch : Batch \cup {NoBatch},
                   content : Content \cup {NoContent}]
    /\ upload \in [Upload -> UploadStep]
    /\ uploadBatch \in [Upload -> Batch \cup {NoBatch}]
    /\ uploadContent \in [Upload -> Content \cup {NoContent}]
    /\ overwritten \in BOOLEAN

(* Type correctness of the whole pipeline.                                  *)
TypeOK == InferenceTypeOK /\ IntakeTypeOK

(* The ingest process while it works on no file.                            *)
NoWork(step, todo) == [step |-> step, todo |-> todo, file |-> NoFile,
                       batch |-> NoBatch, content |-> NoContent]

Init ==
    /\ InferenceInit
    /\ folder = [f \in File |-> NoContent]
    /\ scans = 0
    /\ quarantine = [b \in Batch |-> NoContent]
    /\ issued = {}
    /\ ingest = NoWork("sleep", {})
    /\ upload = [u \in Upload |-> "new"]
    /\ uploadBatch = [u \in Upload |-> NoBatch]
    /\ uploadContent = [u \in Upload |-> NoContent]
    /\ overwritten = FALSE

Put(area, b, c) == [area EXCEPT ![b] = c]

-----------------------------------------------------------------------------
(* The scanner: external.  A put on a name that is already there is a second*)
(* document of the same name, or the next chunk of an upload still running. *)
ScannerPut(f, c) ==
    /\ scans < MaxScans
    /\ folder[f] = NoContent \/ Overwrites
    /\ folder' = [folder EXCEPT ![f] = c]
    /\ scans' = scans + 1
    /\ overwritten' = (overwritten \/ f = ingest.file)
    /\ UNCHANGED <<inferenceVars, quarantine, issued, ingest, uploadVars>>

-----------------------------------------------------------------------------
(* The SFTP ingest process: ingest_once called in a loop by main.           *)

(* list_files; the listing is not taken again until the loop over it ends.  *)
IngestList ==
    /\ ingest.step = "sleep"
    /\ ingest' = NoWork("loop", {f \in File : folder[f] # NoContent})
    /\ UNCHANGED <<inferenceVars, folder, scans, quarantine, issued,
                   uploadVars, overwritten>>

(* The loop over the listing has ended: sleep until the next poll.          *)
IngestSleep ==
    /\ ingest.step = "loop"
    /\ ingest.todo = {}
    /\ ingest' = NoWork("sleep", {})
    /\ UNCHANGED <<inferenceVars, folder, scans, quarantine, issued,
                   uploadVars, overwritten>>

(* new_batch_id and read_file.                                              *)
IngestRead(f, b) ==
    /\ ingest.step = "loop"
    /\ f \in ingest.todo
    /\ folder[f] # NoContent
    /\ b \notin issued
    /\ issued' = issued \cup {b}
    /\ ingest' = [step |-> "read", todo |-> ingest.todo, file |-> f,
                   batch |-> b, content |-> folder[f]]
    /\ overwritten' = FALSE
    /\ UNCHANGED <<inferenceVars, folder, scans, quarantine, uploadVars>>

(* validate_tiff: empty, too large, not named like a TIFF, not an image.    *)
ValidTiff(c) == c \notin Invalid

(* validate_tiff says no: the bytes go under failed/.                       *)
IngestQuarantine ==
    /\ ingest.step = "read"
    /\ ~ValidTiff(ingest.content)
    /\ quarantine' = Put(quarantine, ingest.batch, ingest.content)
    /\ ingest' = [ingest EXCEPT !.step = "quarantined"]
    /\ UNCHANGED <<inferenceVars, folder, scans, issued, uploadVars,
                   overwritten>>

(* validate_tiff says yes: the bytes go under incoming/.                    *)
IngestStore ==
    /\ ingest.step = "read"
    /\ ValidTiff(ingest.content)
    /\ incoming' = Put(incoming, ingest.batch, ingest.content)
    /\ ingest' = [ingest EXCEPT !.step = "stored"]
    /\ UNCHANGED <<workerVars, faults, folder, scans, quarantine, issued,
                   uploadVars, overwritten>>

IngestEnqueue ==
    /\ ingest.step = "stored"
    /\ EnqueueJob(ingest.batch, ingest.content)
    /\ ingest' = [ingest EXCEPT !.step = "queued"]
    /\ UNCHANGED <<incoming, overlays, attempt, handlerVars, tableVars, faults,
                   folder, scans, quarantine, issued, uploadVars, overwritten>>

NextFile ==
    /\ ingest' = NoWork("loop", ingest.todo \ {ingest.file})
    /\ overwritten' = FALSE

(* Mutant of IngestDelete: the file is deleted as soon as it is stored.     *)
IngestDeleteEarly ==
    /\ ingest.step \in {"quarantined", "stored", "queued"}
    /\ folder' = [folder EXCEPT ![ingest.file] = NoContent]
    /\ NextFile
    /\ UNCHANGED <<inferenceVars, scans, quarantine, issued, uploadVars>>

(* delete_file removes whatever has that name now.                          *)
IngestDelete ==
    /\ ingest.step \in {"quarantined", "queued"}
    /\ folder' = [folder EXCEPT ![ingest.file] = NoContent]
    /\ NextFile
    /\ UNCHANGED <<inferenceVars, scans, quarantine, issued, uploadVars>>

(* read_file raises: logged, on to the next file of the listing.            *)
IngestReadFaults(f) ==
    /\ ingest.step = "loop"
    /\ f \in ingest.todo
    /\ Fault
    /\ ingest' = NoWork("loop", ingest.todo \ {f})
    /\ UNCHANGED <<incoming, workerVars, folder, scans, quarantine, issued,
                   uploadVars, overwritten>>

(* The next call for this file raises: logged, on to the next file; the     *)
(* file stays in the folder and later polls ingest it under another id.     *)
IngestCallFaults ==
    /\ ingest.step \in {"read", "quarantined", "stored", "queued"}
    /\ Fault
    /\ NextFile
    /\ UNCHANGED <<incoming, workerVars, folder, scans, quarantine, issued,
                   uploadVars>>

(* list_files raises, which nothing catches, or the process is killed.      *)
IngestDies ==
    /\ ingest.step # "down"
    /\ Fault
    /\ ingest' = NoWork("down", {})
    /\ overwritten' = FALSE
    /\ UNCHANGED <<incoming, workerVars, folder, scans, quarantine, issued,
                   uploadVars>>

(* The operator starts it again: the compose service has no restart policy. *)
IngestRestart ==
    /\ ingest.step = "down"
    /\ ingest' = NoWork("sleep", {})
    /\ UNCHANGED <<inferenceVars, folder, scans, quarantine, issued,
                   uploadVars, overwritten>>

-----------------------------------------------------------------------------
(* enqueue_browser_tiff, one step per call it makes.                        *)

SetUpload(u, step) ==
    /\ upload' = [upload EXCEPT ![u] = step]
    /\ UNCHANGED <<uploadBatch, uploadContent>>

(* Without a usable file name the upload is refused before anything else.   *)
UploadNameless(u) ==
    /\ upload[u] = "new"
    /\ SetUpload(u, "rejected")
    /\ UNCHANGED <<inferenceVars, folder, scans, quarantine, issued, ingest,
                   overwritten>>

(* Rejected by validate_tiff: quarantined under an id of its own, 400.      *)
UploadReject(u, b, c) ==
    /\ upload[u] = "new"
    /\ ~ValidTiff(c)
    /\ b \notin issued
    /\ issued' = issued \cup {b}
    /\ quarantine' = Put(quarantine, b, c)
    /\ SetUpload(u, "rejected")
    /\ UNCHANGED <<inferenceVars, folder, scans, ingest, overwritten>>

UploadStore(u, b, c) ==
    /\ upload[u] = "new"
    /\ ValidTiff(c)
    /\ b \notin issued
    /\ issued' = issued \cup {b}
    /\ incoming' = Put(incoming, b, c)
    /\ upload' = [upload EXCEPT ![u] = "stored"]
    /\ uploadBatch' = [uploadBatch EXCEPT ![u] = b]
    /\ uploadContent' = [uploadContent EXCEPT ![u] = c]
    /\ UNCHANGED <<workerVars, faults, folder, scans, quarantine, ingest,
                   overwritten>>

(* The batch row is committed before the job exists.                        *)
UploadReceive(u) ==
    /\ upload[u] = "stored"
    /\ batch' = [batch EXCEPT ![uploadBatch[u]] = "received"]
    /\ SetUpload(u, "received")
    /\ UNCHANGED <<incoming, overlays, jobVars, attempt, handlerVars,
                   prediction, audit, faults, folder, scans, quarantine,
                   issued, ingest, overwritten>>

UploadEnqueue(u) ==
    /\ upload[u] = "received"
    /\ EnqueueJob(uploadBatch[u], uploadContent[u])
    /\ SetUpload(u, "queued")
    /\ UNCHANGED <<incoming, overlays, attempt, handlerVars, tableVars, faults,
                   folder, scans, quarantine, issued, ingest, overwritten>>

(* invalidate_batch_caches and the 201 response.                            *)
UploadAccept(u) ==
    /\ upload[u] = "queued"
    /\ SetUpload(u, "accepted")
    /\ UNCHANGED <<inferenceVars, folder, scans, quarantine, issued, ingest,
                   overwritten>>

(* The next call raises, or the API process dies: what is done stays done.  *)
UploadFaults(u) ==
    /\ upload[u] \in {"new", "stored", "received", "queued"}
    /\ Fault
    /\ SetUpload(u, "error")
    /\ UNCHANGED <<incoming, workerVars, folder, scans, quarantine, issued,
                   ingest, overwritten>>

-----------------------------------------------------------------------------
IngestProgress ==
    \/ IngestList \/ IngestSleep
    \/ \E f \in File, b \in Batch : IngestRead(f, b)
    \/ IngestQuarantine \/ IngestStore \/ IngestEnqueue \/ IngestDelete

IngestNext ==
    \/ IngestProgress \/ IngestRestart
    \/ \E f \in File : IngestReadFaults(f)
    \/ IngestCallFaults \/ IngestDies

UploadNext ==
    \E u \in Upload :
        \/ \E b \in Batch, c \in Content :
             UploadReject(u, b, c) \/ UploadStore(u, b, c)
        \/ UploadReceive(u) \/ UploadEnqueue(u) \/ UploadAccept(u)
        \/ UploadNameless(u) \/ UploadFaults(u)

WorkerNext == InferenceNext /\ UNCHANGED intakeVars

Next ==
    \/ \E f \in File, c \in Content : ScannerPut(f, c)
    \/ IngestNext
    \/ UploadNext
    \/ WorkerNext

Spec == Init /\ [][Next]_vars

(* The polling loop never stops by itself, workers take queued jobs and RQ's*)
(* scheduler releases retries; an operator brings a dead ingest process     *)
(* back.  Nothing obliges the scanner, a user or a fault.                   *)
Fairness ==
    /\ WF_vars(IngestProgress)
    /\ WF_vars(IngestRestart)
    /\ \A b \in Batch :
         /\ WF_vars(WorkerStep(b) /\ UNCHANGED intakeVars)
         /\ WF_vars(RequeueRetry(b) /\ UNCHANGED intakeVars)
         /\ WF_vars(HandlerStep(b) /\ UNCHANGED intakeVars)

FairSpec == Spec /\ Fairness
-----------------------------------------------------------------------------
(* Safety.                                                                  *)

(* A prediction row points at objects that exist and at the batch of the    *)
(* very document it classifies, and that batch has left "received":         *)
(* record_prediction runs after both uploads and completes the batch in the *)
(* transaction that inserts the row, through retries and late handlers.     *)
PredictionBacked ==
    \A c \in Content : prediction[c] # NoBatch =>
        /\ incoming[prediction[c]] = c
        /\ prediction[c] \in overlays
        /\ batch[prediction[c]] \in {"complete", "failed"}

(* "mark complete on first successful prediction": a batch is complete only *)
(* if a prediction row names it; a duplicate, which stores no row, must not *)
(* complete its batch.                                                      *)
CompleteHasPrediction ==
    \A b \in Batch : batch[b] = "complete" => \E c \in Content : prediction[c] = b

(* A job that RQ counts as finished has not lost its document: the content  *)
(* is in the predictions table, through this job or an earlier one (PIPE-05).*)
FinishedIsPredicted ==
    \A b \in Batch :
        status[b] = "finished" => prediction[carries[b]] # NoBatch

(* mark_batch_failed runs only for a job with no retry to give, and the     *)
(* failed state and its audit row are committed together.                   *)
FailureAudited ==
    \A b \in Batch :
        /\ batch[b] = "failed" => audit[b] > 0
        /\ audit[b] > 0 => status[b] # "none" /\ retries[b] = 0

(* A row that still waits for its outcome was put there by a browser        *)
(* request: the worker's upsert never leaves a row behind without a         *)
(* prediction or a failure, because a skipped duplicate rolls it back.      *)
WaitingRowsAreUploads ==
    \A b \in Batch :
        batch[b] = "received" => \E u \in Upload : uploadBatch[u] = b

(* Quarantine is final: what validate_tiff rejects gets no job, no row and  *)
(* no incoming object, and no accepted document is ever quarantined.        *)
QuarantineIsFinal ==
    \A b \in Batch : quarantine[b] # NoContent =>
        /\ quarantine[b] \in Invalid
        /\ incoming[b] = NoContent
        /\ status[b] = "none"
        /\ batch[b] = "absent"

(* What the folder holds is taken over by the pipeline.                     *)
TakenOver(c, quar, inc, stat) ==
    IF c \in Invalid
    THEN \E b \in Batch : quar[b] = c
    ELSE \E b \in Batch : inc[b] = c /\ stat[b] # "none"

(* Whatever leaves the folder, the bytes that the ingest process has read   *)
(* under that name are quarantined, or stored with a job to classify them: a*)
(* fault or a death between two calls may ingest a file twice but never     *)
(* loses it.  They are what the name holds, but for bytes that the scanner  *)
(* has put under it since the read, which delete_file takes unread.         *)
NoFileLost ==
    [][\A f \in File :
         folder[f] # NoContent /\ folder'[f] = NoContent =>
             /\ f = ingest.file
             /\ overwritten \/ folder[f] = ingest.content
             /\ TakenOver(ingest.content, quarantine', incoming', status')]_vars

(* The tables, seen alone, behave as DocumentRegistry: a document is        *)
(* registered once, with the completion of its batch, and never moves.      *)
Registry == INSTANCE DocumentRegistry
              WITH Document <- Content, rows <- batch, docs <- prediction

ImplementsRegistry == Registry!RegistrySpec

-----------------------------------------------------------------------------
(* The inductive invariant behind the safety properties.                    *)

(* Nothing was done under this id that concerns a job.                      *)
NotStarted(b) ==
    /\ attempt[b] = "idle"
    /\ handlers[b] = 0
    /\ inserting[b] = 0
    /\ audit[b] = 0
    /\ b \notin overlays
    /\ batch[b] \in {"absent", "received"}
    /\ \A c \in Content : prediction[c] # b

(* The document c is stored under b and waits for its job.                  *)
Waiting(b, c) ==
    /\ b \in issued
    /\ c \in Content \ Invalid
    /\ incoming[b] = c
    /\ quarantine[b] = NoContent
    /\ status[b] = "none"

(* One id: its job, the attempt of it that runs and what it left behind.    *)
BatchInv(b) ==
    /\ b \notin issued => /\ incoming[b] = NoContent
                          /\ quarantine[b] = NoContent
                          /\ status[b] = "none"
                          /\ batch[b] = "absent"
    /\ status[b] = "none" => NotStarted(b)
    /\ status[b] # "none" => /\ carries[b] \in Content \ Invalid
                                 /\ incoming[b] = carries[b]
    /\ attempt[b] # "idle" <=> status[b] = "started"
    /\ attempt[b] \in {"persist", "insert", "clear", "return"} => b \in overlays
    /\ attempt[b] \in {"clear", "return"} \/ status[b] = "finished"
         => prediction[carries[b]] # NoBatch
    /\ handlers[b] > 0 \/ inserting[b] > 0 \/ audit[b] > 0
         => status[b] # "none" /\ retries[b] = 0
    /\ batch[b] = "failed" => audit[b] > 0
    /\ batch[b] = "complete" => \E c \in Content : prediction[c] = b
    /\ quarantine[b] # NoContent => /\ quarantine[b] \in Invalid
                                    /\ incoming[b] = NoContent
                                    /\ batch[b] = "absent"

(* What the ingest process knows of the file it works on.                   *)
IngestInv ==
    /\ ingest.step \in {"read", "quarantined", "stored", "queued"} =>
         /\ ingest.file \in File
         /\ ingest.content \in Content
         /\ ingest.batch \in issued
         /\ \A u \in Upload : uploadBatch[u] # ingest.batch
         /\ ~overwritten => folder[ingest.file] = ingest.content
    /\ ingest.step = "read" => /\ incoming[ingest.batch] = NoContent
                               /\ quarantine[ingest.batch] = NoContent
                               /\ status[ingest.batch] = "none"
                               /\ batch[ingest.batch] = "absent"
    /\ ingest.step = "quarantined" =>
         /\ ingest.content \in Invalid
         /\ quarantine[ingest.batch] = ingest.content
    /\ ingest.step = "stored" => /\ Waiting(ingest.batch, ingest.content)
                                 /\ batch[ingest.batch] = "absent"
    /\ ingest.step = "queued" => /\ ingest.content \notin Invalid
                                 /\ incoming[ingest.batch] = ingest.content
                                 /\ status[ingest.batch] # "none"

(* What a browser request knows of its document.                            *)
UploadInv(u) ==
    /\ upload[u] = "new" => uploadBatch[u] = NoBatch
    /\ uploadBatch[u] # NoBatch => uploadBatch[u] \in issued
    /\ upload[u] \in {"stored", "received"} =>
         /\ uploadBatch[u] \in Batch
         /\ Waiting(uploadBatch[u], uploadContent[u])
         /\ batch[uploadBatch[u]] =
              IF upload[u] = "stored" THEN "absent" ELSE "received"
    /\ \A v \in Upload :
         uploadBatch[v] = uploadBatch[u] /\ uploadBatch[u] # NoBatch => u = v

IInv ==
    /\ TypeOK
    /\ \A b \in Batch : BatchInv(b)
    /\ PredictionBacked
    /\ \A c \in Content : prediction[c] # NoBatch => status[prediction[c]] # "none"
    /\ WaitingRowsAreUploads
    /\ IngestInv
    /\ \A u \in Upload : UploadInv(u)

-----------------------------------------------------------------------------
(* Liveness.                                                                *)

(* No job is retried for ever: every job that is queued is finished or moved*)
(* to the failed registry, a document that classify cannot read included.   *)
JobsSettle ==
    \A b \in Batch :
        status[b] = "queued" ~> status[b] \in {"finished", "failed"}

(* With fewer faults than a job has retries, every valid document that      *)
(* classify can read and the scanner puts into the folder is predicted.     *)
(* With as many, mark_batch_failed is called before the last attempt, may   *)
(* win the INSERT of the batch row against it and so make it fail.          *)
ScannedIsPredicted ==
    \A c \in Content \ (Invalid \cup Poison) :
        (\E f \in File : folder[f] = c) ~> prediction[c] # NoBatch

-----------------------------------------------------------------------------
(* What the code's comments say and the code does not do.                   *)

(* prediction_service.py: "Mark a batch as failed after PIPE-06 retries are *)
(* exhausted": no attempt is still to come.                                 *)
FailedAfterRetries ==
    \A b \in Batch : batch[b] = "failed" => status[b] = "failed"

(* BatchDetailPage.tsx: a batch shown as still processing is refreshed      *)
(* "until the run completes": the run of a received batch does complete.    *)
ReceivedCompletes ==
    \A b \in Batch : batch[b] = "received" ~> batch[b] \in {"complete", "failed"}
=============================================================================
