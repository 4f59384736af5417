--------------------------- MODULE PipelineProofs ---------------------------
(***************************************************************************)
(* Proofs about Pipeline for every value of its constants: IInv is          *)
(* inductive, the safety properties follow from it, and the tables implement*)
(* DocumentRegistry.                                                        *)
(***************************************************************************)
EXTENDS Pipeline, TLAPS

USE NoContentAssumption, NoBatchAssumption, RetriesAssumption,
    FaultsAssumption, InvalidAssumption, NoFileAssumption, ScansAssumption,
    OverwritesAssumption
    DEF ValidTiff, handlerVars

-----------------------------------------------------------------------------
(* The frame of a step: what it leaves alone keeps its invariant.           *)

(* Nothing about the id x changes, except that predictions of other ids may *)
(* have been added.                                                         *)
SameAt(x) ==
    /\ incoming'[x] = incoming[x]
    /\ quarantine'[x] = quarantine[x]
    /\ status'[x] = status[x]
    /\ retries'[x] = retries[x]
    /\ carries'[x] = carries[x]
    /\ attempt'[x] = attempt[x]
    /\ handlers'[x] = handlers[x]
    /\ inserting'[x] = inserting[x]
    /\ batch'[x] = batch[x]
    /\ audit'[x] = audit[x]
    /\ x \in overlays' <=> x \in overlays
    /\ x \in issued' <=> x \in issued
    /\ \A c \in Content :
         \/ prediction'[c] = prediction[c]
         \/ prediction[c] = NoBatch /\ prediction'[c] \notin {x, NoBatch}

(* An id that a step does not concern keeps BatchInv.                       *)
LEMMA SameAtKeepsBatchInv ==
    ASSUME TypeOK, NEW x \in Batch, BatchInv(x), SameAt(x)
    PROVE  BatchInv(x)'
<1>1. (status[x] # "none" => carries[x] \in Content)
    BY DEF BatchInv
<1>2. attempt[x] \in {"clear", "return"} => status[x] # "none"
    BY DEF BatchInv
<1>3. NotStarted(x) => NotStarted(x)'
    BY DEF NotStarted, SameAt
<1>4. (batch[x] = "complete" => \E c \in Content : prediction[c] = x)'
    BY DEF BatchInv, SameAt
<1>5. (attempt[x] \in {"clear", "return"} \/ status[x] = "finished"
         => prediction[carries[x]] # NoBatch)'
    BY <1>1, <1>2 DEF BatchInv, SameAt
<1> QED
    BY <1>3, <1>4, <1>5 DEF BatchInv, SameAt

(* A step of the worker side on one job that exists before and after it.    *)
JobStep(b) ==
    /\ UNCHANGED <<incoming, intakeVars>>
    /\ status[b] # "none"
    /\ status'[b] # "none"
    /\ batch'[b] = batch[b] \/ batch'[b] \in {"complete", "failed"}
    /\ \A x \in Batch \ {b} : status'[x] = status[x] /\ batch'[x] = batch[x]

(* The intake's invariants speak of ids whose job does not exist yet, so a  *)
(* worker step cannot disturb them.                                         *)
LEMMA JobStepKeepsIntake ==
    ASSUME IInv, NEW b \in Batch, JobStep(b)
    PROVE  /\ WaitingRowsAreUploads'
           /\ IngestInv'
           /\ \A u \in Upload : UploadInv(u)'
<1>0. issued \subseteq Batch
    BY DEF IInv, TypeOK, IntakeTypeOK
<1>1. WaitingRowsAreUploads'
    BY DEF IInv, WaitingRowsAreUploads, JobStep, intakeVars, uploadVars
<1>2. IngestInv'
  <2>1. ingest.step \in {"read", "quarantined", "stored", "queued"}
          => ingest.batch \in Batch
      BY <1>0 DEF IInv, IngestInv
  <2>2. CASE ingest.batch = b
      BY <2>2 DEF IInv, IngestInv, Waiting, JobStep, intakeVars, uploadVars
  <2>3. CASE ingest.batch # b
      BY <2>1, <2>3 DEF IInv, IngestInv, Waiting, JobStep, intakeVars, uploadVars
  <2> QED  BY <2>2, <2>3
<1>3. ASSUME NEW u \in Upload PROVE UploadInv(u)'
  <2>1. UploadInv(u)
      BY DEF IInv
  <2>2. CASE uploadBatch[u] = b
      BY <2>1, <2>2 DEF UploadInv, Waiting, JobStep, intakeVars, uploadVars
  <2>3. CASE uploadBatch[u] # b
      BY <2>1, <2>3 DEF UploadInv, Waiting, JobStep, intakeVars, uploadVars
  <2> QED  BY <2>2, <2>3
<1> QED  BY <1>1, <1>2, <1>3

-----------------------------------------------------------------------------
(* Type correctness.                                                        *)

LEMMA TypeInit == Init => TypeOK
<1> SUFFICES ASSUME Init PROVE TypeOK
    OBVIOUS
<1>1. InferenceTypeOK
    BY DEF Init, InferenceInit, InferenceTypeOK, JobStatus, AttemptStep,
           BatchState
<1>2. ingest \in [step : IngestStep, todo : SUBSET File,
                  file : File \cup {NoFile}, batch : Batch \cup {NoBatch},
                  content : Content \cup {NoContent}]
    BY DEF Init, IngestStep, NoWork
<1>3. /\ folder \in [File -> Content \cup {NoContent}]
      /\ quarantine \in [Batch -> Content \cup {NoContent}]
      /\ uploadBatch \in [Upload -> Batch \cup {NoBatch}]
      /\ uploadContent \in [Upload -> Content \cup {NoContent}]
      /\ upload \in [Upload -> UploadStep]
    BY DEF Init, UploadStep
<1>4. scans \in 0 .. MaxScans /\ issued \subseteq Batch
    BY DEF Init
<1>5. overwritten \in BOOLEAN
    BY Zenon DEF Init
<1>6. IntakeTypeOK
    BY <1>2, <1>3, <1>4, <1>5 DEF IntakeTypeOK
<1> QED  BY <1>1, <1>6 DEF TypeOK

LEMMA FaultType ==
    ASSUME faults \in 0 .. MaxFaults, Fault
    PROVE  faults' \in 0 .. MaxFaults
  BY DEF Fault

LEMMA HandleJobFailureType ==
    ASSUME InferenceTypeOK, NEW b \in Batch, HandleJobFailure(b)
    PROVE  /\ status' \in [Batch -> JobStatus]
           /\ retries' \in [Batch -> 0 .. MaxRetries]
           /\ carries' = carries
           /\ retries'[b] < MaxRetries \/ retries'[b] = 0
  BY DEF InferenceTypeOK, HandleJobFailure, JobStatus

LEMMA InferenceTypeStep ==
    ASSUME InferenceTypeOK, NEW b \in Batch, InferenceStep(b)
    PROVE  InferenceTypeOK'
<1> USE DEF InferenceTypeOK, JobStatus, AttemptStep, BatchState
<1>1. CASE StartAttempt(b)      BY <1>1 DEF StartAttempt, tableVars
<1>2. CASE MakeOverlay(b)       BY <1>2 DEF MakeOverlay, jobVars, tableVars
<1>3. CASE SelectNoBatch(b)     BY <1>3 DEF SelectNoBatch, jobVars, tableVars
<1>4. CASE RecordPrediction(b)  BY <1>4 DEF RecordPrediction, jobVars
<1>5. CASE SkipDuplicate(b)     BY <1>5 DEF SkipDuplicate, jobVars, tableVars
<1>6. CASE ClearCaches(b)       BY <1>6 DEF ClearCaches, jobVars, tableVars
<1>7. CASE FinishJob(b)         BY <1>7 DEF FinishJob, tableVars
<1>8. ASSUME AttemptRaises(b), faults' \in 0 .. MaxFaults
      PROVE  InferenceTypeOK'
    BY <1>8, HandleJobFailureType DEF AttemptRaises, CallHandler, tableVars
<1>9. CASE ClassifyRaises(b)    BY <1>8, <1>9 DEF ClassifyRaises
<1>10. CASE InsertRaises(b)     BY <1>8, <1>10 DEF InsertRaises
<1>11. CASE AttemptFaults(b)    BY <1>8, <1>11, FaultType DEF AttemptFaults
<1>12. CASE RequeueRetry(b)     BY <1>12 DEF RequeueRetry, tableVars
<1>13. CASE MarkSelectsNone(b)
    BY <1>13 DEF MarkSelectsNone, jobVars, tableVars
<1>14. CASE MarkBatchFailed(b)  BY <1>14 DEF MarkBatchFailed, jobVars
<1>15. CASE MarkInsertRaises(b)
    BY <1>15 DEF MarkInsertRaises, jobVars, tableVars
<1>16. CASE WorkHorseDies(b)
    BY <1>16, HandleJobFailureType, FaultType DEF WorkHorseDies, tableVars
<1>17. CASE MarkFaults(b)
    BY <1>17, FaultType DEF MarkFaults, jobVars, tableVars
<1> QED
    BY <1>1, <1>2, <1>3, <1>4, <1>5, <1>6, <1>7, <1>9, <1>10, <1>11, <1>12,
       <1>13, <1>14, <1>15, <1>16, <1>17
       DEF WorkerStep, HandlerStep, InferenceStep

(* One step of the intake.                                                  *)
IntakeStep ==
    \/ \E f \in File, c \in Content : ScannerPut(f, c)
    \/ IngestNext
    \/ UploadNext

LEMMA EnqueueJobType ==
    ASSUME InferenceTypeOK, NEW b \in Batch, NEW c \in Content, EnqueueJob(b, c)
    PROVE  /\ status' \in [Batch -> JobStatus]
           /\ retries' \in [Batch -> 0 .. MaxRetries]
           /\ carries' \in [Batch -> Content \cup {NoContent}]
  BY DEF InferenceTypeOK, EnqueueJob, JobStatus

LEMMA IntakeTypeStep ==
    ASSUME IInv, IntakeStep
    PROVE  TypeOK'
<1> USE DEF TypeOK, InferenceTypeOK, IntakeTypeOK, IngestStep, UploadStep,
            inferenceVars, workerVars, jobVars, tableVars, uploadVars
<1>0. TypeOK /\ IngestInv /\ (\A u \in Upload : UploadInv(u))
    BY DEF IInv
<1>1. ingest.step \in {"read", "quarantined", "stored", "queued"} =>
        ingest.batch \in Batch /\ ingest.content \in Content
    BY <1>0 DEF IngestInv
<1>2. \A u \in Upload : upload[u] \in {"stored", "received"} =>
        uploadBatch[u] \in Batch /\ uploadContent[u] \in Content
    BY <1>0 DEF UploadInv, Waiting
<1>3. CASE \E f \in File, c \in Content : ScannerPut(f, c)
    BY <1>0, <1>3 DEF ScannerPut
<1>4. CASE IngestList   BY <1>0, <1>4 DEF IngestList, NoWork
<1>5. CASE IngestSleep  BY <1>0, <1>5 DEF IngestSleep, NoWork
<1>6. ASSUME NEW f \in File, NEW b \in Batch, IngestRead(f, b)
      PROVE  TypeOK'
  <2>1. ingest' \in [step : IngestStep, todo : SUBSET File,
                     file : File \cup {NoFile}, batch : Batch \cup {NoBatch},
                     content : Content \cup {NoContent}]
      BY <1>0, <1>6 DEF IngestRead
  <2> QED
      BY <1>0, <1>6, <2>1 DEF IngestRead
<1>7. CASE IngestQuarantine
    BY <1>0, <1>1, <1>7 DEF IngestQuarantine, Put
<1>8. CASE IngestStore  BY <1>0, <1>1, <1>8 DEF IngestStore, Put
<1>9. CASE IngestEnqueue
    BY <1>0, <1>1, <1>9, EnqueueJobType DEF IngestEnqueue
<1>10. CASE IngestDelete
    BY <1>0, <1>10 DEF IngestDelete, NextFile, NoWork
<1>11. CASE IngestRestart  BY <1>0, <1>11 DEF IngestRestart, NoWork
<1>12. CASE \E f \in File : IngestReadFaults(f)
    BY <1>0, <1>12, FaultType DEF IngestReadFaults, NoWork
<1>13. CASE IngestCallFaults
    BY <1>0, <1>13, FaultType DEF IngestCallFaults, NextFile, NoWork
<1>14. CASE IngestDies  BY <1>0, <1>14, FaultType DEF IngestDies, NoWork
<1>15. ASSUME NEW u \in Upload, NEW b \in Batch, NEW c \in Content,
              UploadReject(u, b, c)
       PROVE  TypeOK'
    BY <1>0, <1>15 DEF UploadReject, SetUpload, Put
<1>16. ASSUME NEW u \in Upload, NEW b \in Batch, NEW c \in Content,
              UploadStore(u, b, c)
       PROVE  TypeOK'
    BY <1>0, <1>16 DEF UploadStore, Put
<1>17. ASSUME NEW u \in Upload, UploadReceive(u) PROVE TypeOK'
    BY <1>0, <1>2, <1>17 DEF UploadReceive, SetUpload, BatchState
<1>18. ASSUME NEW u \in Upload, UploadEnqueue(u) PROVE TypeOK'
    BY <1>0, <1>2, <1>18, EnqueueJobType DEF UploadEnqueue, SetUpload
<1>19. ASSUME NEW u \in Upload, UploadAccept(u) \/ UploadNameless(u) PROVE TypeOK'
    BY <1>0, <1>19 DEF UploadAccept, UploadNameless, SetUpload
<1>20. ASSUME NEW u \in Upload, UploadFaults(u) PROVE TypeOK'
    BY <1>0, <1>20, FaultType DEF UploadFaults, SetUpload
<1> QED
    BY <1>3, <1>4, <1>5, <1>6, <1>7, <1>8, <1>9, <1>10, <1>11, <1>12, <1>13,
       <1>14, <1>15, <1>16, <1>17, <1>18, <1>19, <1>20
       DEF IntakeStep, IngestNext, IngestProgress, UploadNext

-----------------------------------------------------------------------------
(* Steps of the worker side preserve the invariant.                         *)

(* What a worker step does at other ids, and that it needs a job.           *)
LEMMA InferenceFrame ==
    ASSUME IInv, NEW b \in Batch, InferenceStep(b), UNCHANGED intakeVars
    PROVE  /\ JobStep(b)
           /\ carries'[b] = carries[b]
           /\ \A x \in Batch \ {b} : SameAt(x)
<1> USE DEF JobStep, SameAt, tableVars, jobVars, intakeVars
<1>0. /\ TypeOK
      /\ BatchInv(b)
    BY DEF IInv
<1>1. /\ attempt[b] # "idle" => status[b] = "started"
      /\ handlers[b] > 0 \/ inserting[b] > 0 => status[b] # "none"
    BY <1>0 DEF BatchInv
<1> USE <1>0, <1>1 DEF TypeOK, InferenceTypeOK
<1>2. CASE StartAttempt(b)      BY <1>2 DEF StartAttempt
<1>3. CASE MakeOverlay(b)       BY <1>3 DEF MakeOverlay
<1>4. CASE SelectNoBatch(b)     BY <1>4 DEF SelectNoBatch
<1>5. CASE RecordPrediction(b)
    BY <1>5 DEF RecordPrediction, HasBatchRow
<1>6. CASE SkipDuplicate(b)     BY <1>6 DEF SkipDuplicate, HasBatchRow
<1>7. CASE ClearCaches(b)       BY <1>7 DEF ClearCaches
<1>8. CASE FinishJob(b)         BY <1>8 DEF FinishJob
<1>9. CASE ClassifyRaises(b) \/ InsertRaises(b)
    BY <1>9 DEF ClassifyRaises, InsertRaises, AttemptRaises,
                HandleJobFailure, CallHandler
<1>10. CASE AttemptFaults(b)
    BY <1>10 DEF AttemptFaults, AttemptRaises, HandleJobFailure, CallHandler
<1>11. CASE WorkHorseDies(b)
    BY <1>11 DEF WorkHorseDies, HandleJobFailure
<1>12. CASE RequeueRetry(b)     BY <1>12 DEF RequeueRetry
<1>13. CASE MarkSelectsNone(b)  BY <1>13 DEF MarkSelectsNone
<1>14. CASE MarkBatchFailed(b)  BY <1>14 DEF MarkBatchFailed
<1>15. CASE MarkInsertRaises(b) BY <1>15 DEF MarkInsertRaises
<1>16. CASE MarkFaults(b)       BY <1>16 DEF MarkFaults
<1> QED
    BY <1>2, <1>3, <1>4, <1>5, <1>6, <1>7, <1>8, <1>9, <1>10, <1>11, <1>12,
       <1>13, <1>14, <1>15, <1>16 DEF InferenceStep, WorkerStep, HandlerStep

(* The id the step works on.                                                *)
LEMMA InferenceKeepsBatchInv ==
    ASSUME IInv, NEW b \in Batch, InferenceStep(b), UNCHANGED intakeVars
    PROVE  BatchInv(b)'
<1> USE DEF BatchInv, NotStarted, tableVars, jobVars, intakeVars
<1>0. /\ TypeOK
      /\ BatchInv(b)
      /\ JobStep(b)
      /\ carries'[b] = carries[b]
    BY InferenceFrame DEF IInv
<1> USE <1>0 DEF TypeOK, InferenceTypeOK, JobStep
<1>2. CASE StartAttempt(b)      BY <1>2 DEF StartAttempt
<1>3. CASE MakeOverlay(b)       BY <1>3 DEF MakeOverlay
<1>4. CASE SelectNoBatch(b)     BY <1>4 DEF SelectNoBatch
<1>5. CASE RecordPrediction(b)
    BY <1>5 DEF RecordPrediction, HasBatchRow
<1>6. CASE SkipDuplicate(b)     BY <1>6 DEF SkipDuplicate, HasBatchRow
<1>7. CASE ClearCaches(b)       BY <1>7 DEF ClearCaches
<1>8. CASE FinishJob(b)         BY <1>8 DEF FinishJob
<1>9. ASSUME AttemptRaises(b), attempt[b] # "idle" PROVE BatchInv(b)'
    BY <1>9 DEF AttemptRaises, HandleJobFailure, CallHandler
<1>10. CASE ClassifyRaises(b) \/ InsertRaises(b)
    BY <1>9, <1>10 DEF ClassifyRaises, InsertRaises
<1>11. CASE AttemptFaults(b)    BY <1>9, <1>11 DEF AttemptFaults
<1>12. CASE WorkHorseDies(b)
    BY <1>12 DEF WorkHorseDies, HandleJobFailure
<1>13. CASE RequeueRetry(b)     BY <1>13 DEF RequeueRetry
<1>14. CASE MarkSelectsNone(b)  BY <1>14 DEF MarkSelectsNone
<1>15. CASE MarkBatchFailed(b)  BY <1>15 DEF MarkBatchFailed
<1>16. CASE MarkInsertRaises(b) BY <1>16 DEF MarkInsertRaises
<1>17. CASE MarkFaults(b)       BY <1>17 DEF MarkFaults
<1> QED
    BY <1>2, <1>3, <1>4, <1>5, <1>6, <1>7, <1>8, <1>10, <1>11, <1>12, <1>13,
       <1>14, <1>15, <1>16, <1>17 DEF InferenceStep, WorkerStep, HandlerStep

(* The predictions: all but RecordPrediction leave the table alone, no step *)
(* removes an object, and no step takes a settled batch back.               *)
LEMMA InferenceKeepsPredictions ==
    ASSUME IInv, NEW b \in Batch, InferenceStep(b), UNCHANGED intakeVars
    PROVE  /\ PredictionBacked'
           /\ (\A c \in Content : prediction[c] # NoBatch => status[prediction[c]] # "none")'
<1>0. /\ TypeOK
      /\ BatchInv(b)
      /\ JobStep(b)
      /\ PredictionBacked
      /\ \A c \in Content : prediction[c] # NoBatch => status[prediction[c]] # "none"
    BY InferenceFrame DEF IInv
<1> USE <1>0 DEF TypeOK, InferenceTypeOK, JobStep
<1>1. overlays \subseteq overlays'
    BY DEF InferenceStep, WorkerStep, HandlerStep, StartAttempt, MakeOverlay,
           SelectNoBatch, RecordPrediction, SkipDuplicate, ClearCaches,
           FinishJob, ClassifyRaises, InsertRaises, AttemptFaults,
           AttemptRaises, WorkHorseDies, RequeueRetry, MarkSelectsNone,
           MarkBatchFailed, MarkInsertRaises, MarkFaults
<1>2. CASE RecordPrediction(b)
  <2>1. /\ carries[b] \in Content
        /\ incoming[b] = carries[b]
        /\ b \in overlays
      BY <1>2 DEF RecordPrediction, HasBatchRow, BatchInv
  <2> QED
      BY <1>1, <1>2, <2>1 DEF RecordPrediction, PredictionBacked
<1>3. CASE prediction' = prediction
  <2>1. \A x \in Batch : batch[x] \in {"complete", "failed"}
                           => batch'[x] \in {"complete", "failed"}
      BY DEF JobStep
  <2> QED
      BY <1>1, <1>3, <2>1 DEF PredictionBacked
<1>4. RecordPrediction(b) \/ prediction' = prediction
    BY DEF InferenceStep, WorkerStep, HandlerStep, StartAttempt, MakeOverlay,
           SelectNoBatch, SkipDuplicate, ClearCaches, FinishJob,
           ClassifyRaises, InsertRaises, AttemptFaults, AttemptRaises,
           WorkHorseDies, RequeueRetry, MarkSelectsNone, MarkBatchFailed,
           MarkInsertRaises, MarkFaults, tableVars
<1> QED
    BY <1>2, <1>3, <1>4

LEMMA InferenceKeepsIInv ==
    ASSUME IInv, NEW b \in Batch, InferenceStep(b), UNCHANGED intakeVars
    PROVE  IInv'
<1>1. TypeOK'
    BY InferenceTypeStep DEF IInv, TypeOK, IntakeTypeOK, intakeVars, uploadVars
<1>2. ASSUME NEW x \in Batch PROVE BatchInv(x)'
  <2>1. CASE x = b  BY <2>1, InferenceKeepsBatchInv
  <2>2. CASE x # b  BY <2>2, InferenceFrame, SameAtKeepsBatchInv DEF IInv
  <2> QED  BY <2>1, <2>2
<1>3. JobStep(b)
    BY InferenceFrame
<1> QED
    BY <1>1, <1>2, <1>3, InferenceKeepsPredictions, JobStepKeepsIntake DEF IInv

-----------------------------------------------------------------------------
(* Steps of the intake preserve the invariant.                              *)

(* Steps that touch neither MinIO, the queue, the tables nor an id.         *)
LEMMA QuietStepKeepsIInv ==
    ASSUME IInv, IntakeStep,
           UNCHANGED <<incoming, workerVars, quarantine, issued>>,
           UNCHANGED uploadBatch,
           UNCHANGED uploadContent,
           \A u \in Upload : \/ upload'[u] = upload[u]
                             \/ upload'[u] \in {"accepted", "rejected", "error"},
           IngestInv'
    PROVE  IInv'
<1> USE DEF workerVars, jobVars, tableVars
<1>1. TypeOK'
    BY IntakeTypeStep
<1>2. ASSUME NEW x \in Batch PROVE BatchInv(x)'
    BY SameAtKeepsBatchInv DEF IInv, SameAt
<1>3. ASSUME NEW u \in Upload PROVE UploadInv(u)'
  <2>1. UploadInv(u)
      BY DEF IInv
  <2> QED  BY <2>1 DEF UploadInv, Waiting
<1>4. PredictionBacked' /\ WaitingRowsAreUploads'
    BY DEF IInv, PredictionBacked, WaitingRowsAreUploads
<1> QED
    BY <1>1, <1>2, <1>3, <1>4 DEF IInv

LEMMA QuietIntake ==
    ASSUME IInv, IntakeStep,
           \/ \E f \in File, c \in Content : ScannerPut(f, c)
           \/ IngestList \/ IngestSleep \/ IngestDelete \/ IngestRestart
           \/ \E f \in File : IngestReadFaults(f)
           \/ IngestCallFaults \/ IngestDies
           \/ \E u \in Upload : UploadAccept(u) \/ UploadNameless(u) \/ UploadFaults(u)
    PROVE  IInv'
<1> USE DEF inferenceVars, uploadVars
<1>0. TypeOK /\ IngestInv
    BY DEF IInv
<1>1. CASE \E f \in File, c \in Content : ScannerPut(f, c)
  <2>1. IngestInv'
      BY <1>0, <1>1 DEF ScannerPut, IngestInv, Waiting, workerVars, jobVars,
                        tableVars, TypeOK, IntakeTypeOK
  <2> QED  BY <1>1, <2>1, QuietStepKeepsIInv DEF ScannerPut
<1>2. ASSUME ingest'.step \in {"loop", "sleep", "down"} PROVE IngestInv'
    BY <1>2 DEF IngestInv
<1>3. CASE IngestList
    BY <1>2, <1>3, QuietStepKeepsIInv DEF IngestList, NoWork
<1>4. CASE IngestSleep
    BY <1>2, <1>4, QuietStepKeepsIInv DEF IngestSleep, NoWork
<1>5. CASE IngestDelete
    BY <1>2, <1>5, QuietStepKeepsIInv DEF IngestDelete, NextFile, NoWork
<1>6. CASE IngestRestart
    BY <1>2, <1>6, QuietStepKeepsIInv DEF IngestRestart, NoWork
<1>7. CASE \E f \in File : IngestReadFaults(f)
    BY <1>2, <1>7, QuietStepKeepsIInv DEF IngestReadFaults, NoWork
<1>8. CASE IngestCallFaults
    BY <1>2, <1>8, QuietStepKeepsIInv DEF IngestCallFaults, NextFile, NoWork
<1>9. CASE IngestDies
    BY <1>2, <1>9, QuietStepKeepsIInv DEF IngestDies, NoWork
<1>10. ASSUME NEW u \in Upload, UploadAccept(u) \/ UploadNameless(u) \/ UploadFaults(u)
       PROVE  IInv'
  <2>1. /\ UNCHANGED <<incoming, workerVars, quarantine, issued, folder, ingest,
                       overwritten>>
        /\ UNCHANGED uploadBatch
        /\ UNCHANGED uploadContent
        /\ \A v \in Upload : \/ upload'[v] = upload[v]
                             \/ upload'[v] \in {"accepted", "rejected", "error"}
      BY <1>0, <1>10 DEF UploadAccept, UploadNameless, UploadFaults, SetUpload,
                         TypeOK, IntakeTypeOK
  <2>2. IngestInv'
      BY <1>0, <2>1 DEF IngestInv, Waiting, workerVars, jobVars, tableVars
  <2> QED  BY <2>1, <2>2, QuietStepKeepsIInv
<1> QED
    BY <1>1, <1>3, <1>4, <1>5, <1>6, <1>7, <1>8, <1>9, <1>10

(* The steps of the ingest process that write, at the id it has drawn.      *)
LEMMA IngestReadKeepsIInv ==
    ASSUME IInv, IntakeStep, NEW f \in File, NEW b \in Batch, IngestRead(f, b)
    PROVE  IInv'
<1> USE DEF IngestRead, inferenceVars, workerVars, jobVars, tableVars,
            uploadVars
<1>0. TypeOK' /\ TypeOK
    BY IntakeTypeStep DEF IInv
<1>1. ASSUME NEW x \in Batch PROVE BatchInv(x)'
    BY DEF IInv, BatchInv, NotStarted
<1>2. IngestInv'
  <2>1. BatchInv(b)
      BY DEF IInv
  <2>2. \A u \in Upload : uploadBatch[u] # b
      BY DEF IInv, UploadInv, TypeOK, IntakeTypeOK
  <2> QED
      BY <1>0, <2>1, <2>2 DEF IngestInv, BatchInv, TypeOK, IntakeTypeOK
<1>3. ASSUME NEW u \in Upload PROVE UploadInv(u)'
  <2>1. UploadInv(u)
      BY DEF IInv
  <2> QED  BY <2>1 DEF UploadInv, Waiting
<1>4. PredictionBacked' /\ WaitingRowsAreUploads'
    BY DEF IInv, PredictionBacked, WaitingRowsAreUploads
<1> QED
    BY <1>0, <1>1, <1>2, <1>3, <1>4 DEF IInv

(* An intake step that writes at the id b, which no request but u uses.     *)
LEMMA WriteKeepsOthers ==
    ASSUME IInv, NEW b \in Batch, status[b] = "none",
           \A x \in Batch \ {b} : SameAt(x),
           incoming[b] # NoContent => incoming'[b] = incoming[b],
           UNCHANGED <<overlays, prediction>>, UNCHANGED uploadBatch,
           batch'[b] = "received" => \E u \in Upload : uploadBatch[u] = b
    PROVE  /\ \A x \in Batch \ {b} : BatchInv(x)'
           /\ PredictionBacked'
           /\ (\A c \in Content : prediction[c] # NoBatch => status[prediction[c]] # "none")'
           /\ WaitingRowsAreUploads'
<1>0. /\ TypeOK
      /\ PredictionBacked
      /\ WaitingRowsAreUploads
      /\ \A c \in Content : prediction[c] # NoBatch => status[prediction[c]] # "none"
      /\ \A x \in Batch : BatchInv(x)
    BY DEF IInv
<1>1. \A c \in Content : prediction[c] # NoBatch =>
        prediction[c] \in Batch \ {b}
    BY <1>0 DEF TypeOK, InferenceTypeOK
<1>2. PredictionBacked'
    BY <1>0, <1>1 DEF PredictionBacked, SameAt
<1>3. WaitingRowsAreUploads'
    BY <1>0 DEF WaitingRowsAreUploads, SameAt
<1> QED
    BY <1>0, <1>1, <1>2, <1>3, SameAtKeepsBatchInv DEF SameAt

LEMMA IngestWriteKeepsIInv ==
    ASSUME IInv, IntakeStep, IngestQuarantine \/ IngestStore \/ IngestEnqueue
    PROVE  IInv'
<1> USE DEF inferenceVars, workerVars, jobVars, tableVars, uploadVars
<1>0. TypeOK' /\ TypeOK /\ IngestInv
    BY IntakeTypeStep DEF IInv
<1>b. PICK b \in Batch : b = ingest.batch
    BY <1>0 DEF IngestInv, IngestQuarantine, IngestStore, IngestEnqueue,
                TypeOK, IntakeTypeOK
<1> USE <1>b
<1>1. /\ b \in issued
      /\ ingest.content \in Content
      /\ status[b] = "none"
      /\ batch[b] = "absent"
      /\ \A u \in Upload : uploadBatch[u] # b
      /\ incoming[b] # NoContent => incoming'[b] = incoming[b]
    BY <1>0 DEF IngestInv, IngestQuarantine, IngestStore, IngestEnqueue,
                Waiting, TypeOK, IntakeTypeOK
<1>2. \A x \in Batch \ {b} : SameAt(x)
    BY <1>0, <1>1 DEF SameAt, IngestQuarantine, IngestStore, IngestEnqueue,
                EnqueueJob, Put, TypeOK, InferenceTypeOK, IntakeTypeOK
<1>3. /\ UNCHANGED <<overlays, attempt, handlerVars, tableVars, folder, issued,
                     overwritten>>
      /\ UNCHANGED uploadVars
    BY DEF IngestQuarantine, IngestStore, IngestEnqueue
<1>4. BatchInv(b)
    BY <1>1 DEF IInv
<1>5. BatchInv(b)' /\ IngestInv'
  <2> USE <1>0, <1>1, <1>3, <1>4
      DEF BatchInv, NotStarted, TypeOK, InferenceTypeOK, IntakeTypeOK, Put
  <2>1. CASE IngestQuarantine
      BY <2>1 DEF IngestQuarantine, IngestInv
  <2>2. CASE IngestStore
      BY <2>2 DEF IngestStore, IngestInv, Waiting
  <2>3. CASE IngestEnqueue
      BY <2>3 DEF IngestEnqueue, EnqueueJob, IngestInv, Waiting
  <2> QED  BY <2>1, <2>2, <2>3
<1>6. ASSUME NEW u \in Upload PROVE UploadInv(u)'
  <2>1. UploadInv(u)
      BY DEF IInv
  <2> QED  BY <1>1, <1>2, <1>3, <2>1 DEF UploadInv, Waiting, SameAt
<1>7. /\ \A x \in Batch \ {b} : BatchInv(x)'
      /\ PredictionBacked'
      /\ (\A c \in Content : prediction[c] # NoBatch => status[prediction[c]] # "none")'
      /\ WaitingRowsAreUploads'
    BY <1>1, <1>2, <1>3, WriteKeepsOthers
<1> QED
    BY <1>0, <1>5, <1>6, <1>7 DEF IInv

(* The steps of a browser request that write, at the id it has drawn.       *)
LEMMA UploadDrawKeepsIInv ==
    ASSUME IInv, IntakeStep, NEW u \in Upload, NEW b \in Batch,
           NEW c \in Content, UploadReject(u, b, c) \/ UploadStore(u, b, c)
    PROVE  IInv'
<1> USE DEF inferenceVars, workerVars, jobVars, tableVars
<1>0. /\ TypeOK' /\ TypeOK /\ IngestInv
      /\ BatchInv(b)
      /\ \A v \in Upload : UploadInv(v)
    BY IntakeTypeStep DEF IInv
<1>1. /\ b \notin issued
      /\ incoming[b] = NoContent /\ quarantine[b] = NoContent
      /\ status[b] = "none" /\ batch[b] = "absent"
      /\ upload[u] = "new" /\ uploadBatch[u] = NoBatch
      /\ issued' = issued \cup {b}
    BY <1>0 DEF UploadReject, UploadStore, BatchInv, UploadInv
<1>2. /\ UNCHANGED <<workerVars, folder, ingest, overwritten>>
      /\ \A x \in Batch \ {b} : /\ incoming'[x] = incoming[x]
                                /\ quarantine'[x] = quarantine[x]
      /\ \A v \in Upload \ {u} : /\ upload'[v] = upload[v]
                                 /\ uploadBatch'[v] = uploadBatch[v]
                                 /\ uploadContent'[v] = uploadContent[v]
    BY <1>0 DEF UploadReject, UploadStore, SetUpload, Put, TypeOK,
                InferenceTypeOK, IntakeTypeOK
<1>3. \/ /\ uploadBatch'[u] = NoBatch /\ upload'[u] = "rejected"
         /\ incoming' = incoming /\ quarantine'[b] = c /\ c \in Invalid
      \/ /\ uploadBatch'[u] = b /\ upload'[u] = "stored"
         /\ uploadContent'[u] = c /\ c \notin Invalid
         /\ incoming'[b] = c /\ quarantine' = quarantine
    BY <1>0, <1>1 DEF UploadReject, UploadStore, SetUpload, Put, TypeOK,
                InferenceTypeOK, IntakeTypeOK
<1>4. ASSUME NEW x \in Batch PROVE BatchInv(x)'
  <2>0. BatchInv(x)
      BY DEF IInv
  <2>1. CASE x = b
      BY <1>0, <1>1, <1>2, <1>3, <2>1 DEF BatchInv, NotStarted
  <2>2. CASE x # b
      BY <1>1, <1>2, <2>0, <2>2 DEF BatchInv, NotStarted
  <2> QED  BY <2>1, <2>2
<1>5. IngestInv'
  <2>1. ingest.step \in {"read", "quarantined", "stored", "queued"} =>
          ingest.batch \in Batch \ {b}
      BY <1>0, <1>1 DEF IngestInv, TypeOK, IntakeTypeOK
  <2>2. ingest.step \in {"read", "quarantined", "stored", "queued"} =>
          \A v \in Upload : uploadBatch'[v] # ingest.batch
      BY <1>0, <1>2, <1>3, <2>1 DEF IngestInv
  <2> QED
      BY <1>0, <1>1, <1>2, <2>1, <2>2 DEF IngestInv, Waiting
<1>6. ASSUME NEW v \in Upload PROVE UploadInv(v)'
  <2>1. \A w \in Upload : uploadBatch[w] # b
      BY <1>0, <1>1 DEF UploadInv
  <2>2. \A w \in Upload : uploadBatch'[w] = uploadBatch'[v]
                            /\ uploadBatch'[v] # NoBatch => v = w
      BY <1>0, <1>2, <1>3, <2>1 DEF UploadInv
  <2>3. CASE v = u
      BY <1>0, <1>1, <1>2, <1>3, <2>2, <2>3 DEF UploadInv, Waiting
  <2>4. CASE v # u
      BY <1>0, <1>1, <1>2, <2>1, <2>2, <2>4 DEF UploadInv, Waiting
  <2> QED  BY <2>3, <2>4
<1>7. PredictionBacked'
  <2>1. \A d \in Content : prediction[d] # NoBatch =>
          prediction[d] \in Batch \ {b}
      BY <1>0, <1>1 DEF IInv, PredictionBacked, TypeOK, InferenceTypeOK
  <2> QED  BY <1>2, <2>1 DEF IInv, PredictionBacked
<1>8. WaitingRowsAreUploads'
    BY <1>1, <1>2, <1>3 DEF IInv, WaitingRowsAreUploads
<1> QED
    BY <1>0, <1>2, <1>4, <1>5, <1>6, <1>7, <1>8 DEF IInv

LEMMA UploadWriteKeepsIInv ==
    ASSUME IInv, IntakeStep, NEW u \in Upload,
           UploadReceive(u) \/ UploadEnqueue(u)
    PROVE  IInv'
<1> USE DEF jobVars, tableVars
<1>0. TypeOK' /\ TypeOK /\ IngestInv /\ (\A v \in Upload : UploadInv(v))
    BY IntakeTypeStep DEF IInv
<1>b. PICK b \in Batch : b = uploadBatch[u]
    BY <1>0 DEF UploadInv, UploadReceive, UploadEnqueue
<1>1. /\ b \in issued
      /\ status[b] = "none"
      /\ upload[u] \in {"stored", "received"}
      /\ Waiting(b, uploadContent[u])
      /\ BatchInv(b)
      /\ batch[b] = IF upload[u] = "stored" THEN "absent" ELSE "received"
    BY <1>0, <1>b DEF UploadInv, UploadReceive, UploadEnqueue, Waiting, IInv
<1>2. /\ UNCHANGED <<incoming, overlays, attempt, handlerVars, prediction,
                     audit, folder, quarantine, issued, ingest, overwritten>>
      /\ UNCHANGED uploadBatch /\ UNCHANGED uploadContent
      /\ \A v \in Upload \ {u} : upload'[v] = upload[v]
    BY <1>0 DEF UploadReceive, UploadEnqueue, SetUpload, TypeOK, IntakeTypeOK
<1>3. \A x \in Batch \ {b} : SameAt(x)
    BY <1>0, <1>b, <1>2 DEF SameAt, UploadReceive, UploadEnqueue, EnqueueJob,
                            TypeOK, InferenceTypeOK
<1>4. \/ /\ upload'[u] = "received" /\ batch'[b] = "received"
         /\ upload[u] = "stored" /\ UNCHANGED <<status, retries, carries>>
      \/ /\ upload'[u] = "queued" /\ batch' = batch
         /\ status'[b] = "queued" /\ carries'[b] = uploadContent[u]
    BY <1>0, <1>b DEF UploadReceive, UploadEnqueue, SetUpload, EnqueueJob,
                      TypeOK, InferenceTypeOK, IntakeTypeOK
<1>5. BatchInv(b)'
    BY <1>0, <1>1, <1>2, <1>4 DEF BatchInv, NotStarted, Waiting
<1>6. /\ \A x \in Batch \ {b} : BatchInv(x)'
      /\ PredictionBacked'
      /\ (\A c \in Content : prediction[c] # NoBatch => status[prediction[c]] # "none")'
      /\ WaitingRowsAreUploads'
    BY <1>b, <1>1, <1>2, <1>3, WriteKeepsOthers
<1>7. IngestInv'
  <2>1. ingest.step \in {"read", "quarantined", "stored", "queued"} =>
          ingest.batch \in Batch \ {b}
      BY <1>0, <1>b DEF IngestInv, TypeOK, IntakeTypeOK
  <2> QED
      BY <1>0, <1>2, <1>3, <2>1 DEF IngestInv, Waiting, SameAt
<1>8. ASSUME NEW v \in Upload PROVE UploadInv(v)'
  <2>1. CASE v = u
      BY <1>0, <1>b, <1>1, <1>2, <1>4, <2>1 DEF UploadInv, Waiting
  <2>2. CASE v # u
    <3>1. uploadBatch[v] # b
        BY <1>0, <1>b, <2>2 DEF UploadInv
    <3> QED
        BY <1>0, <1>2, <1>3, <2>2, <3>1 DEF UploadInv, Waiting, SameAt
  <2> QED  BY <2>1, <2>2
<1> QED
    BY <1>0, <1>5, <1>6, <1>7, <1>8 DEF IInv

-----------------------------------------------------------------------------
(* The inductive invariant and what follows from it.                        *)

LEMMA InitIInv == Init => IInv
<1> SUFFICES ASSUME Init PROVE IInv
    OBVIOUS
<1>1. TypeOK
    BY TypeInit
<1> QED
    BY <1>1 DEF Init, InferenceInit, NoWork, IInv, BatchInv, NotStarted,
                PredictionBacked, WaitingRowsAreUploads, IngestInv, UploadInv

LEMMA StepIInv == IInv /\ [Next]_vars => IInv'
<1> SUFFICES ASSUME IInv, [Next]_vars PROVE IInv'
    OBVIOUS
<1>1. CASE WorkerNext
    BY <1>1, InferenceKeepsIInv DEF WorkerNext, InferenceNext
<1>2. CASE IntakeStep
  <2>1. CASE \/ \E f \in File, c \in Content : ScannerPut(f, c)
             \/ IngestList \/ IngestSleep \/ IngestDelete \/ IngestRestart
             \/ \E f \in File : IngestReadFaults(f)
             \/ IngestCallFaults \/ IngestDies
             \/ \E u \in Upload : UploadAccept(u) \/ UploadNameless(u) \/ UploadFaults(u)
      BY <1>2, <2>1, QuietIntake
  <2>2. CASE \E f \in File, b \in Batch : IngestRead(f, b)
      BY <1>2, <2>2, IngestReadKeepsIInv
  <2>3. CASE IngestQuarantine \/ IngestStore \/ IngestEnqueue
      BY <1>2, <2>3, IngestWriteKeepsIInv
  <2>4. CASE \E u \in Upload, b \in Batch, c \in Content :
               UploadReject(u, b, c) \/ UploadStore(u, b, c)
      BY <1>2, <2>4, UploadDrawKeepsIInv
  <2>5. CASE \E u \in Upload : UploadReceive(u) \/ UploadEnqueue(u)
      BY <1>2, <2>5, UploadWriteKeepsIInv
  <2> QED
      BY <1>2, <2>1, <2>2, <2>3, <2>4, <2>5
         DEF IntakeStep, IngestNext, IngestProgress, UploadNext
<1>3. CASE UNCHANGED vars
  <2>1. UNCHANGED <<incoming, overlays, status, retries, carries, attempt,
                    handlers, inserting, batch, prediction, audit, faults,
                    folder, scans, quarantine, issued, ingest, upload,
                    uploadBatch, uploadContent, overwritten>>
      BY <1>3 DEF vars, inferenceVars, intakeVars, workerVars, jobVars,
                  tableVars, uploadVars
  <2> QED
      BY <2>1 DEF IInv, TypeOK, InferenceTypeOK, IntakeTypeOK, BatchInv,
                  NotStarted, PredictionBacked, WaitingRowsAreUploads,
                  IngestInv, UploadInv, Waiting
<1> QED
    BY <1>1, <1>2, <1>3 DEF Next, IntakeStep

(* The invariant of the pipeline, for any number of documents, ids, files,  *)
(* requests, retries and faults.                                            *)
THEOREM Invariance == Spec => []IInv
  BY InitIInv, StepIInv, PTL DEF Spec

(* Type correctness.                                                        *)
THEOREM TypeCorrect == Spec => []TypeOK
<1>1. IInv => TypeOK
    BY DEF IInv
<1> QED  BY <1>1, Invariance, PTL

(* Every prediction row has its objects and a settled batch.                *)
THEOREM PredictionsAreBacked == Spec => []PredictionBacked
<1>1. IInv => PredictionBacked
    BY DEF IInv
<1> QED  BY <1>1, Invariance, PTL

(* A batch is complete only through a prediction of its own.                *)
THEOREM CompleteMeansPredicted == Spec => []CompleteHasPrediction
<1>1. IInv => CompleteHasPrediction
    BY DEF IInv, BatchInv, CompleteHasPrediction
<1> QED  BY <1>1, Invariance, PTL

(* A finished job's document is in the predictions table.                   *)
THEOREM FinishedMeansPredicted == Spec => []FinishedIsPredicted
<1>1. IInv => FinishedIsPredicted
    BY DEF IInv, BatchInv, FinishedIsPredicted
<1> QED  BY <1>1, Invariance, PTL

(* A failed batch has its audit row, and a job with no retry left.          *)
THEOREM FailuresAreAudited == Spec => []FailureAudited
<1>1. IInv => FailureAudited
    BY DEF IInv, BatchInv, FailureAudited, TypeOK, InferenceTypeOK
<1> QED  BY <1>1, Invariance, PTL

(* A rejected document is quarantined and goes no further.                  *)
THEOREM QuarantineHolds == Spec => []QuarantineIsFinal
<1>1. IInv => QuarantineIsFinal
  <2> SUFFICES ASSUME IInv, NEW b \in Batch, quarantine[b] # NoContent
               PROVE  /\ quarantine[b] \in Invalid
                      /\ incoming[b] = NoContent
                      /\ status[b] = "none"
                      /\ batch[b] = "absent"
      BY DEF QuarantineIsFinal
  <2>1. BatchInv(b)
      BY DEF IInv
  <2> QED  BY <2>1 DEF BatchInv
<1> QED  BY <1>1, Invariance, PTL

(* Rows that wait for an outcome are those of browser requests.             *)
THEOREM WaitingRowsTheorem == Spec => []WaitingRowsAreUploads
<1>1. IInv => WaitingRowsAreUploads
    BY DEF IInv
<1> QED  BY <1>1, Invariance, PTL

-----------------------------------------------------------------------------
(* No file is lost.                                                         *)

LEMMA NoFileLostStep ==
    ASSUME IInv, Next, NEW f \in File,
           folder[f] # NoContent, folder'[f] = NoContent
    PROVE  /\ f = ingest.file
           /\ overwritten \/ folder[f] = ingest.content
           /\ TakenOver(ingest.content, quarantine', incoming', status')
<1>0. TypeOK /\ IngestInv
    BY DEF IInv
<1>1. IngestDelete \/ folder' = folder
      \/ \E g \in File, c \in Content : ScannerPut(g, c)
    BY DEF Next, WorkerNext, IngestNext, IngestProgress, UploadNext,
           IngestList, IngestSleep, IngestRead, IngestQuarantine, IngestStore,
           IngestEnqueue, IngestRestart, IngestReadFaults, IngestCallFaults,
           IngestDies, UploadReject, UploadStore, UploadReceive,
           UploadEnqueue, UploadAccept, UploadNameless, UploadFaults, intakeVars
<1>2. CASE IngestDelete
  <2>1. /\ f = ingest.file
        /\ ingest.batch \in Batch
        /\ overwritten \/ folder[f] = ingest.content
        /\ UNCHANGED <<quarantine, incoming, status>>
      BY <1>0, <1>2 DEF IngestDelete, IngestInv, TypeOK, IntakeTypeOK,
                        inferenceVars, workerVars, jobVars
  <2> QED
      BY <1>0, <1>2, <2>1 DEF IngestDelete, IngestInv, TakenOver
<1>3. CASE \E g \in File, c \in Content : ScannerPut(g, c)
    BY <1>0, <1>3 DEF ScannerPut, TypeOK, IntakeTypeOK
<1> QED
    BY <1>1, <1>2, <1>3

(* Whatever the scanner does, a name leaves the folder only once the bytes  *)
(* read under it are quarantined, or stored with a job; other bytes leave   *)
(* with it only if the scanner has put them there since the read.           *)
THEOREM NoFileIsLost == Spec => NoFileLost
<1>1. IInv /\ [Next]_vars =>
        [\A f \in File :
           folder[f] # NoContent /\ folder'[f] = NoContent =>
             /\ f = ingest.file
             /\ overwritten \/ folder[f] = ingest.content
             /\ TakenOver(ingest.content, quarantine', incoming', status')]_vars
    BY NoFileLostStep
<1> QED
    BY <1>1, Invariance, PTL DEF Spec, NoFileLost

-----------------------------------------------------------------------------
(* The tables implement DocumentRegistry.                                   *)

LEMMA RegistryInitHolds == Init => Registry!RegistryInit
  BY DEF Init, InferenceInit, Registry!RegistryInit

LEMMA RegistryStepHolds ==
    IInv /\ [Next]_vars => [Registry!RegistryNext]_<<batch, prediction>>
<1> SUFFICES ASSUME IInv, [Next]_vars
             PROVE  \/ Registry!RegistryNext
                    \/ UNCHANGED <<batch, prediction>>
    BY DEF vars
<1>0. TypeOK /\ PredictionBacked
    BY DEF IInv
<1>1. CASE WorkerNext
  <2>1. PICK b \in Batch : InferenceStep(b)
      BY <1>1 DEF WorkerNext, InferenceNext
  <2>2. CASE RecordPrediction(b)
    <3>1. BatchInv(b)
        BY DEF IInv
    <3>2. /\ carries[b] \in Content
          /\ incoming[b] = carries[b]
        BY <2>2, <3>1 DEF RecordPrediction, HasBatchRow, BatchInv
    <3>3. \A other \in Content : prediction[other] # b
        BY <1>0, <2>2, <3>2 DEF PredictionBacked, RecordPrediction
    <3>4. Registry!Register(b, carries[b])
        BY <2>2, <3>2, <3>3 DEF RecordPrediction, Registry!Register
    <3> QED  BY <3>2, <3>4 DEF Registry!RegistryNext
  <2>3. CASE MarkBatchFailed(b)
    <3>1. Registry!Fail(b)
        BY <2>3 DEF MarkBatchFailed, Registry!Fail
    <3> QED  BY <3>1 DEF Registry!RegistryNext
  <2>4. RecordPrediction(b) \/ MarkBatchFailed(b)
        \/ UNCHANGED <<batch, prediction>>
      BY <2>1 DEF InferenceStep, WorkerStep, HandlerStep, StartAttempt,
           MakeOverlay, SelectNoBatch, SkipDuplicate, ClearCaches, FinishJob,
           ClassifyRaises, InsertRaises, AttemptFaults, AttemptRaises,
           WorkHorseDies, RequeueRetry, MarkSelectsNone, MarkInsertRaises,
           MarkFaults, tableVars
  <2> QED  BY <2>2, <2>3, <2>4
<1>2. CASE \E u \in Upload : UploadReceive(u)
  <2>1. PICK u \in Upload : UploadReceive(u)
      BY <1>2
  <2>2. /\ uploadBatch[u] \in Batch
        /\ batch[uploadBatch[u]] = "absent"
      BY <2>1 DEF IInv, UploadInv, UploadReceive
  <2>3. Registry!Announce(uploadBatch[u])
      BY <2>1, <2>2 DEF UploadReceive, Registry!Announce
  <2> QED  BY <2>2, <2>3 DEF Registry!RegistryNext
<1> USE DEF vars, inferenceVars, workerVars, tableVars
<1>3. CASE (\E f \in File, c \in Content : ScannerPut(f, c)) \/ UNCHANGED vars
    BY <1>3 DEF ScannerPut
<1>4. CASE IngestNext
    BY <1>4 DEF IngestNext, IngestProgress, IngestList, IngestSleep,
         IngestRead, IngestQuarantine, IngestStore, IngestEnqueue,
         IngestDelete, IngestRestart, IngestReadFaults, IngestCallFaults,
         IngestDies
<1>5. CASE UploadNext
    BY <1>2, <1>5 DEF UploadNext, UploadReject, UploadStore, UploadEnqueue,
         UploadAccept, UploadNameless, UploadFaults
<1> QED
    BY <1>1, <1>3, <1>4, <1>5 DEF Next

(* Every behaviour of the pipeline is, for a reader of the tables, one of   *)
(* DocumentRegistry.                                                        *)
THEOREM PipelineImplementsRegistry == Spec => ImplementsRegistry
  BY RegistryInitHolds, RegistryStepHolds, Invariance, PTL
     DEF Spec, ImplementsRegistry, Registry!RegistrySpec

(* Two documents are never registered under the same batch, so the one      *)
(* document that a batch's page shows is that of its job.                   *)
OneDocumentPerBatch ==
    \A c, d \in Content :
        prediction[c] # NoBatch /\ prediction[c] = prediction[d] => c = d

THEOREM BatchesHoldOneDocument == Spec => []OneDocumentPerBatch
<1>1. PredictionBacked => OneDocumentPerBatch
    BY DEF PredictionBacked, OneDocumentPerBatch
<1> QED  BY <1>1, PredictionsAreBacked, PTL

(* A row never goes back to an earlier state, and the row of a batch whose  *)
(* document is registered can only be overwritten as failed, after which it *)
(* stays so: no retry, no handler and no other batch completes it again.    *)
RowsSettle ==
    [][\A b \in Batch :
         /\ batch[b] # "absent" => batch'[b] \in {batch[b], "complete", "failed"}
         /\ (\E c \in Content : prediction[c] = b)
              => batch'[b] \in {batch[b], "failed"}]_vars

(* The registry's operations guarantee it, given that the row of a          *)
(* registered document exists.                                              *)
LEMMA RegistryRowsSettle ==
    ASSUME batch \in [Batch -> BatchState],
           [Registry!RegistryNext]_<<batch, prediction>>, NEW b \in Batch,
           \A c \in Content : prediction[c] = b => batch[b] # "absent"
    PROVE  /\ batch[b] # "absent" => batch'[b] \in {batch[b], "complete", "failed"}
           /\ (\E c \in Content : prediction[c] = b)
                => batch'[b] \in {batch[b], "failed"}
<1>1. ASSUME NEW x \in Batch, Registry!Announce(x)
      PROVE  batch'[b] = batch[b] \/ batch[b] = "absent"
    BY <1>1 DEF Registry!Announce
<1>2. ASSUME NEW x \in Batch, Registry!Fail(x)
      PROVE  batch'[b] \in {batch[b], "failed"}
    BY <1>2 DEF Registry!Fail
<1>3. ASSUME NEW x \in Batch, NEW d \in Content, Registry!Register(x, d)
      PROVE  \/ batch'[b] = batch[b]
             \/ /\ batch'[b] = "complete"
                /\ \A c \in Content : prediction[c] # b
    BY <1>3 DEF Registry!Register
<1> QED
    BY <1>1, <1>2, <1>3 DEF Registry!RegistryNext

THEOREM SettledRowsStay == Spec => RowsSettle
<1>1. IInv /\ [Next]_vars =>
        [\A b \in Batch :
           /\ batch[b] # "absent" => batch'[b] \in {batch[b], "complete", "failed"}
           /\ (\E c \in Content : prediction[c] = b)
                => batch'[b] \in {batch[b], "failed"}]_vars
  <2> SUFFICES ASSUME IInv, [Next]_vars, NEW b \in Batch
               PROVE  /\ batch[b] # "absent" =>
                           batch'[b] \in {batch[b], "complete", "failed"}
                      /\ (\E c \in Content : prediction[c] = b)
                           => batch'[b] \in {batch[b], "failed"}
      OBVIOUS
  <2>1. \A c \in Content : prediction[c] = b => batch[b] # "absent"
      BY DEF IInv, PredictionBacked
  <2> QED
      BY <2>1, RegistryStepHolds, RegistryRowsSettle
         DEF IInv, TypeOK, InferenceTypeOK
<1> QED  BY <1>1, Invariance, PTL DEF Spec, RowsSettle

-----------------------------------------------------------------------------
(* Jobs come to an end.                                                     *)

StatusStage == [none |-> 0, queued |-> 6, started |-> 0, scheduled |-> 7,
                finished |-> 0, failed |-> 0]
AttemptStage == [idle |-> 0, classify |-> 5, persist |-> 4, insert |-> 3,
                 clear |-> 2, return |-> 1]

(* The steps that a job has before it at most: those of the attempt that    *)
(* runs or waits, and eight for each retry.                                 *)
StepsLeft(b) ==
    8 * retries[b] + StatusStage[status[b]] + AttemptStage[attempt[b]]

(* What a step does to the job of b: nothing, or it brings the job nearer   *)
(* to its end, which is final.                                              *)
JobDescends(b) ==
    /\ status'[b] # "none"
    /\ carries'[b] = carries[b]
    /\ \/ UNCHANGED <<status[b], retries[b], attempt[b]>>
       \/ /\ status[b] \notin {"finished", "failed"}
          /\ StepsLeft(b)' < StepsLeft(b)

(* A job is never carried on with another document, started over, given a   *)
(* retry or taken out of the registry it ended in: each step it takes, a    *)
(* fault included, leaves it fewer.  That is why every job settles.         *)
JobsDescend == [][\A b \in Batch : status[b] # "none" => JobDescends(b)]_vars

(* A failed attempt uses up a retry, or is the last.                        *)
LEMMA FailureDescends ==
    ASSUME IInv, NEW b \in Batch, attempt[b] # "idle", HandleJobFailure(b),
           attempt' = [attempt EXCEPT ![b] = "idle"]
    PROVE  JobDescends(b)
<1>1. /\ status[b] = "started"
      /\ attempt[b] \in {"classify", "persist", "insert", "clear", "return"}
      /\ status \in [Batch -> JobStatus]
      /\ attempt \in [Batch -> AttemptStep]
      /\ retries \in [Batch -> 0 .. MaxRetries]
    BY DEF IInv, BatchInv, TypeOK, InferenceTypeOK, AttemptStep
<1>2. AttemptStage[attempt[b]] >= 1 /\ AttemptStage[attempt[b]] \in Nat
    BY <1>1 DEF AttemptStage
<1>3. CASE retries[b] > 0
    BY <1>1, <1>2, <1>3
       DEF HandleJobFailure, JobDescends, StepsLeft, StatusStage, AttemptStage
<1>4. CASE retries[b] = 0
    BY <1>1, <1>2, <1>4
       DEF HandleJobFailure, JobDescends, StepsLeft, StatusStage, AttemptStage
<1> QED  BY <1>1, <1>3, <1>4

LEMMA WorkerDescends ==
    ASSUME IInv, NEW b \in Batch, InferenceStep(b)
    PROVE  JobDescends(b)
<1>0. /\ status \in [Batch -> JobStatus]
      /\ attempt \in [Batch -> AttemptStep]
      /\ retries \in [Batch -> 0 .. MaxRetries]
      /\ attempt[b] # "idle" <=> status[b] = "started"
      /\ handlers[b] > 0 \/ inserting[b] > 0 => status[b] # "none"
    BY DEF IInv, BatchInv, TypeOK, InferenceTypeOK
<1> USE DEF JobDescends, StepsLeft, StatusStage, AttemptStage
<1>1. CASE StartAttempt(b)
    BY <1>0, <1>1 DEF StartAttempt
<1>2. CASE MakeOverlay(b)
    BY <1>0, <1>2 DEF MakeOverlay, jobVars
<1>3. CASE SelectNoBatch(b)
    BY <1>0, <1>3 DEF SelectNoBatch, jobVars
<1>4. CASE RecordPrediction(b)
    BY <1>0, <1>4 DEF RecordPrediction, HasBatchRow, jobVars
<1>5. CASE SkipDuplicate(b)
    BY <1>0, <1>5 DEF SkipDuplicate, HasBatchRow, jobVars
<1>6. CASE ClearCaches(b)
    BY <1>0, <1>6 DEF ClearCaches, jobVars
<1>7. CASE FinishJob(b)
    BY <1>0, <1>7 DEF FinishJob
<1>8. CASE RequeueRetry(b)
    BY <1>0, <1>8 DEF RequeueRetry
<1>9. CASE ClassifyRaises(b) \/ InsertRaises(b) \/ AttemptFaults(b)
           \/ WorkHorseDies(b)
    BY <1>9, FailureDescends
       DEF ClassifyRaises, InsertRaises, AttemptFaults, WorkHorseDies,
           AttemptRaises
<1>10. CASE HandlerStep(b) \/ MarkFaults(b)
    BY <1>0, <1>10 DEF HandlerStep, MarkSelectsNone, MarkBatchFailed,
                       MarkInsertRaises, MarkFaults, jobVars
<1> QED
    BY <1>1, <1>2, <1>3, <1>4, <1>5, <1>6, <1>7, <1>8, <1>9, <1>10
       DEF InferenceStep, WorkerStep

(* The intake touches no job that exists, and neither attempts nor reports. *)
LEMMA IntakeKeepsJobs ==
    ASSUME IInv, IntakeStep, NEW b \in Batch
    PROVE  /\ UNCHANGED <<attempt, handlerVars, audit>>
           /\ status[b] = "none" \/ UNCHANGED <<status[b], retries[b], carries[b]>>
<1> USE DEF inferenceVars, workerVars, jobVars, tableVars
<1>1. CASE \E f \in File, c \in Content : ScannerPut(f, c)
    BY <1>1 DEF ScannerPut
<1>2. CASE IngestNext /\ ~IngestEnqueue
  <2>1. CASE IngestList \/ IngestSleep \/ IngestQuarantine \/ IngestStore
             \/ \E f \in File, x \in Batch : IngestRead(f, x)
      BY <2>1 DEF IngestList, IngestSleep, IngestQuarantine, IngestStore, IngestRead
  <2>2. CASE IngestDelete \/ IngestRestart \/ IngestCallFaults \/ IngestDies
             \/ \E f \in File : IngestReadFaults(f)
      BY <2>2 DEF IngestDelete, IngestRestart, IngestCallFaults, IngestDies,
                  IngestReadFaults
  <2> QED
      BY <1>2, <2>1, <2>2 DEF IngestNext, IngestProgress
<1>3. CASE IngestEnqueue
  <2>1. status[ingest.batch] = "none"
      BY <1>3 DEF IInv, IngestInv, Waiting, IngestEnqueue
  <2> QED
      BY <1>3, <2>1 DEF IngestEnqueue, EnqueueJob, IInv, TypeOK, InferenceTypeOK
<1>4. ASSUME NEW u \in Upload, UploadEnqueue(u)
      PROVE  /\ UNCHANGED <<attempt, handlerVars, audit>>
             /\ status[b] = "none" \/ UNCHANGED <<status[b], retries[b], carries[b]>>
  <2>1. status[uploadBatch[u]] = "none"
      BY <1>4 DEF IInv, UploadInv, Waiting, UploadEnqueue
  <2> QED
      BY <1>4, <2>1 DEF UploadEnqueue, EnqueueJob, IInv, TypeOK, InferenceTypeOK
<1>5. ASSUME NEW u \in Upload, NEW x \in Batch, NEW c \in Content,
             UploadReject(u, x, c) \/ UploadStore(u, x, c)
      PROVE  UNCHANGED <<attempt, handlerVars, audit, status, retries, carries>>
    BY <1>5 DEF UploadReject, UploadStore
<1>6. ASSUME NEW u \in Upload,
             \/ UploadReceive(u) \/ UploadAccept(u) \/ UploadNameless(u)
             \/ UploadFaults(u)
      PROVE  UNCHANGED <<attempt, handlerVars, audit, status, retries, carries>>
    BY <1>6 DEF UploadReceive, UploadAccept, UploadNameless, UploadFaults
<1> QED
    BY <1>1, <1>2, <1>3, <1>4, <1>5, <1>6 DEF IntakeStep, UploadNext

THEOREM JobsComeToAnEnd == Spec => JobsDescend
<1>1. IInv /\ [Next]_vars =>
        [\A b \in Batch : status[b] # "none" => JobDescends(b)]_vars
  <2> SUFFICES ASSUME IInv, [Next]_vars, NEW b \in Batch, status[b] # "none"
               PROVE  JobDescends(b)
      OBVIOUS
  <2>1. CASE WorkerNext
    <3>1. PICK x \in Batch : InferenceStep(x)
        BY <2>1 DEF WorkerNext, InferenceNext
    <3>2. CASE x = b
        BY <3>1, <3>2, WorkerDescends
    <3>3. CASE x # b
      <4>1. SameAt(b)
          BY <3>1, <3>3, <2>1, InferenceFrame DEF IInv, WorkerNext
      <4> QED  BY <4>1 DEF SameAt, JobDescends
    <3> QED  BY <3>2, <3>3
  <2>2. CASE IntakeStep
      BY <2>2, IntakeKeepsJobs DEF JobDescends
  <2>3. CASE UNCHANGED vars
      BY <2>3 DEF JobDescends, vars, inferenceVars, workerVars, jobVars
  <2> QED  BY <2>1, <2>2, <2>3 DEF Next, IntakeStep
<1> QED  BY <1>1, Invariance, PTL DEF Spec, JobsDescend

-----------------------------------------------------------------------------
(* A job's failure is reported at most twice: once too early, when the last *)
(* retry is taken, and once when that has failed.                           *)
ReportedAtMostTwice == \A b \in Batch : audit[b] <= 2

(* Reports written and under way, by what has become of the job.            *)
ReportsCounted ==
    \A b \in Batch :
        handlers[b] + inserting[b] + audit[b]
            <= IF status[b] = "failed" THEN 2 ELSE 1

LEMMA ReportsStep ==
    ASSUME IInv, ReportsCounted, [Next]_vars
    PROVE  ReportsCounted'
<1> SUFFICES ASSUME NEW b \in Batch
             PROVE  (handlers[b] + inserting[b] + audit[b]
                        <= IF status[b] = "failed" THEN 2 ELSE 1)'
    BY DEF ReportsCounted
<1>0. /\ status \in [Batch -> JobStatus]
      /\ retries \in [Batch -> 0 .. MaxRetries]
      /\ handlers \in [Batch -> Nat]
      /\ inserting \in [Batch -> Nat]
      /\ audit \in [Batch -> Nat]
      /\ status[b] = "none" =>
           handlers[b] = 0 /\ inserting[b] = 0 /\ audit[b] = 0
      /\ attempt[b] # "idle" => status[b] = "started"
      /\ handlers[b] > 0 \/ inserting[b] > 0 \/ audit[b] > 0
           => retries[b] = 0
      /\ handlers[b] + inserting[b] + audit[b]
           <= IF status[b] = "failed" THEN 2 ELSE 1
    BY DEF IInv, BatchInv, NotStarted, TypeOK, InferenceTypeOK, ReportsCounted
<1>1. CASE InferenceStep(b)
  <2>1. CASE ClassifyRaises(b) \/ InsertRaises(b) \/ AttemptFaults(b)
    <3>1. /\ attempt[b] # "idle"
          /\ HandleJobFailure(b)
          /\ CallHandler(b)
          /\ UNCHANGED <<inserting, audit>>
        BY <2>1 DEF ClassifyRaises, InsertRaises, AttemptFaults, AttemptRaises,
                    tableVars
    <3> QED  BY <1>0, <3>1 DEF HandleJobFailure, CallHandler
  <2>2. CASE WorkHorseDies(b)
      BY <1>0, <2>2 DEF WorkHorseDies, HandleJobFailure, tableVars
  <2>3. CASE HandlerStep(b)
      BY <1>0, <2>3 DEF HandlerStep, MarkSelectsNone, MarkBatchFailed,
                        MarkInsertRaises, jobVars, tableVars
  <2>4. CASE MarkFaults(b)
      BY <1>0, <2>4 DEF MarkFaults, jobVars, tableVars
  <2>5. CASE \/ StartAttempt(b) \/ MakeOverlay(b) \/ SelectNoBatch(b)
             \/ RecordPrediction(b) \/ SkipDuplicate(b) \/ ClearCaches(b)
             \/ FinishJob(b) \/ RequeueRetry(b)
    <3>1. /\ UNCHANGED <<handlerVars, audit>>
          /\ status[b] # "failed"
        BY <1>0, <2>5 DEF StartAttempt, MakeOverlay, SelectNoBatch,
             RecordPrediction, HasBatchRow, SkipDuplicate, ClearCaches,
             FinishJob, RequeueRetry, tableVars
    <3> QED  BY <1>0, <3>1
  <2> QED
      BY <1>1, <2>1, <2>2, <2>3, <2>4, <2>5 DEF InferenceStep, WorkerStep
<1>2. CASE UNCHANGED <<handlers[b], inserting[b], audit[b], status[b]>>
    BY <1>0, <1>2
<1>3. CASE status[b] = "none" /\ UNCHANGED <<handlers[b], inserting[b], audit[b]>>
    BY <1>0, <1>3
<1>4. CASE \E x \in Batch \ {b} : InferenceStep(x) /\ WorkerNext
    BY <1>2, <1>4, InferenceFrame DEF IInv, WorkerNext, SameAt
<1>5. CASE IntakeStep
    BY <1>2, <1>3, <1>5, IntakeKeepsJobs
<1>6. CASE UNCHANGED vars
    BY <1>2, <1>6 DEF vars, inferenceVars, workerVars, jobVars, tableVars
<1> QED
    BY <1>1, <1>4, <1>5, <1>6 DEF Next, IntakeStep, WorkerNext, InferenceNext

THEOREM FailuresReportedAtMostTwice == Spec => []ReportedAtMostTwice
<1>1. Init => ReportsCounted
    BY DEF Init, InferenceInit, ReportsCounted
<1>2. IInv /\ ReportsCounted => ReportedAtMostTwice
    BY DEF IInv, TypeOK, InferenceTypeOK, ReportsCounted, ReportedAtMostTwice
<1> QED  BY <1>1, <1>2, ReportsStep, Invariance, PTL DEF Spec
=============================================================================
