------------------------------ MODULE Notebook ------------------------------
(***************************************************************************)
(* The training notebook (notebook/classifier_training.ipynb), run by an   *)
(* operator in a Colab kernel: training with early stopping, evaluation on *)
(* the test stream, the checkpoint that outlives the kernel, the scoring   *)
(* pass, the golden set picked from it, and the exported artifacts.        *)
(*                                                                         *)
(* A tensor state is known by the training pass that produced it, 0 for    *)
(* the untrained head of build_model(); pass 1 produced the weights that   *)
(* are in the repository.  The test split is the positions 0..SplitSize-1, *)
(* read in batches; an image of Corrupt raises when it is decoded.         *)
(*                                                                         *)
(* The kernel runs the cells in the order of the notebook; the operator    *)
(* may begin at the reload cell, skip it, or lose the kernel.  A name is   *)
(* reset once no later cell reads it: what evaluate() and score_test_set() *)
(* keep in locals when they return, best_state and the history after the   *)
(* save cell, scored and the picks after the golden set.                   *)
(***************************************************************************)
EXTENDS Naturals, Sequences, FiniteSets

CONSTANTS
  Epochs,       \* EPOCHS: epochs of the training loop
  Patience,     \* PATIENCE: epochs without improvement that stop it
  Accuracy,     \* the values a top-1 accuracy takes; 0 when nothing was seen
  SplitSize,    \* images of the test split
  BatchSize,    \* BATCH_SIZE
  Corrupt,      \* positions whose image cannot be decoded
  Class,        \* Class[p]: the true label of position p
  Memo,         \* the class the replacement of an excluded pick comes from
  Excluded,     \* the position excluded by hand (12211)
  Easy,         \* confident picks per class
  Extras,       \* low-margin picks over all classes
  DeviceFaults, \* cells in which a batch may raise on the device (out of memory)
  MaxPasses,    \* bound: training passes, of the shipped weights and all sessions
  Missing,      \* an absent file, or a name the kernel does not define
  Partial       \* a file whose upload is still in progress

Positions == 0..(SplitSize - 1)

ASSUME EpochsAssumption   == Epochs \in Nat \ {0} /\ Patience \in Nat \ {0}
ASSUME AccuracyAssumption == Accuracy \subseteq Nat /\ 0 \in Accuracy
ASSUME SplitAssumption    == /\ SplitSize \in Nat /\ BatchSize \in Nat \ {0}
                             /\ Corrupt \subseteq Positions
                             /\ Memo \in {Class[p] : p \in Positions}
                             /\ Excluded \in Nat /\ Easy \in Nat /\ Extras \in Nat
ASSUME BoundAssumption    == /\ DeviceFaults \subseteq {"evaluate", "score"}
                             /\ MaxPasses \in Nat \ {0}

Weights   == 0..MaxPasses
Untrained == 0
Shipped   == 1

(* What evaluate() reports: whose accuracy, its value, over which images.  *)
Metrics == [of : Weights, top1 : Accuracy, over : SUBSET Positions]

(* final_evaluated_checkpoint.pt, and the variable checkpoint.             *)
Checkpoint == [weights : Weights, metrics : Metrics]

(* model_card.json: the digest of the weights file and the metrics.  A     *)
(* digest is the tensor state it was computed from.                        *)
Card == [sha : Weights, metrics : Metrics]

Epoch == [weights : Weights, top1 : Accuracy]

(* One entry of test_set_scores.json: idx is what the code records, pos    *)
(* the position of the image it scored.                                    *)
Score == [idx : Nat, pos : Positions, right : BOOLEAN]

ASSUME MissingAssumption ==
  /\ Missing \notin Weights \cup Metrics \cup Checkpoint \cup Card
  /\ Partial \notin Weights \cup Metrics \cup Checkpoint \cup Card
  /\ Partial # Missing

VARIABLES
  cell,        \* the cell the kernel is in; "closed" without a kernel
  passes,      \* training passes so far
  model,       \* the state of `model`
  history,     \* history
  best,        \* best_val_top1
  bestState,   \* best_state
  noImprove,   \* epochs_no_improve
  stream,      \* test_loader's iterator: where it is, and whether it still yields
  seen,        \* images evaluate() counted
  measured,    \* test_top1 and the set it is about
  checkpoint,  \* checkpoint
  upload,      \* /content/final_evaluated_checkpoint.pt
  scored,      \* scored
  cursor,      \* cursor of score_test_set
  picks,       \* golden_picks: its indices and its length
  golden,      \* the extracted golden images
  weightsFile, \* classifier.pt under /content/artifacts
  kept,        \* the checkpoint the operator downloaded
  exported     \* the artifacts the operator downloaded

trainVars  == <<history, best, bestState, noImprove>>
loaderVars == <<stream, seen, scored, cursor>>
goldenVars == <<picks, golden>>
diskVars   == <<kept, exported>>
notebookVars == <<cell, passes, model, trainVars, loaderVars, measured,
                  checkpoint, upload, goldenVars, weightsFile, diskVars>>

Cells == {"closed", "train", "evaluate", "save", "reload", "score", "select",
          "extract", "weights", "card"}

NoPicks   == [targets |-> {}, count |-> 0]
NewStream == [at |-> 0, open |-> TRUE]

ResetTraining == history' = <<>> /\ best' = 0 /\ bestState' = Missing /\ noImprove' = 0
ResetLoader   == stream' = NewStream /\ seen' = {} /\ scored' = {} /\ cursor' = 0
ResetGolden   == picks' = NoPicks /\ golden' = {}

NotebookTypeOK ==
  /\ cell \in Cells
  /\ passes \in 1..MaxPasses
  /\ model \in Weights \cup {Missing}
  /\ history \in Seq(Epoch) /\ best \in Accuracy
  /\ bestState \in Weights \cup {Missing} /\ noImprove \in Nat
  /\ stream \in [at : Nat, open : BOOLEAN]
  /\ seen \subseteq Positions
  /\ measured \in Metrics \cup {Missing}
  /\ checkpoint \in Checkpoint \cup {Missing}
  /\ upload \in Checkpoint \cup {Missing, Partial}
  /\ scored \subseteq Score /\ cursor \in Nat
  /\ picks \in [targets : SUBSET Nat, count : Nat]
  /\ golden \subseteq Nat
  /\ weightsFile \in Weights \cup {Missing}
  /\ kept \in Checkpoint \cup {Missing}
  /\ exported \in [weights : Weights, card : Card] \cup {Missing}

NotebookInit ==
  /\ cell = "closed" /\ passes = Shipped /\ model = Missing
  /\ history = <<>> /\ best = 0 /\ bestState = Missing /\ noImprove = 0
  /\ stream = NewStream /\ seen = {} /\ scored = {} /\ cursor = 0
  /\ measured = Missing /\ checkpoint = Missing /\ upload = Missing
  /\ picks = NoPicks /\ golden = {} /\ weightsFile = Missing
  /\ kept = Missing /\ exported = Missing

------------------------------------------------------------------------------
(* The set-up cells define the loaders and build_model() a model with the  *)
(* pretrained backbone and nothing of an earlier one.  The operator        *)
(* goes on with the training cell, or with the reload cell when a          *)
(* checkpoint of an earlier session is at hand.                            *)
OpenSession(first) ==
  /\ cell = "closed"
  /\ first = "train" \/ (first = "reload" /\ kept # Missing)
  /\ model' = Untrained
  /\ cell' = first
  /\ UNCHANGED <<passes, trainVars, loaderVars, measured, checkpoint, upload,
                 goldenVars, weightsFile, diskVars>>

(* Mutant of TrainEpoch: best_state is not cloned, and shares the tensors  *)
(* that later epochs change.                                               *)
TrainEpochAliased(v) ==
  /\ cell = "train" /\ passes < MaxPasses
  /\ Len(history) < Epochs /\ noImprove < Patience
  /\ passes' = passes + 1
  /\ model' = passes'
  /\ history' = Append(history, [weights |-> model', top1 |-> v])
  /\ IF v > best
       THEN best' = v /\ bestState' = model' /\ noImprove' = 0
       ELSE /\ noImprove' = noImprove + 1 /\ UNCHANGED best
            /\ bestState' = IF bestState = Missing THEN Missing ELSE model'
  /\ UNCHANGED <<cell, loaderVars, measured, checkpoint, upload,
                 goldenVars, weightsFile, diskVars>>

(* One epoch: the passes over train_loader change model in place, then     *)
(* evaluate() on the validation split gives val_top1 = v.                  *)
TrainEpoch(v) ==
  /\ cell = "train" /\ passes < MaxPasses
  /\ Len(history) < Epochs /\ noImprove < Patience
  /\ passes' = passes + 1
  /\ model' = passes'
  /\ history' = Append(history, [weights |-> model', top1 |-> v])
  /\ IF v > best
       THEN best' = v /\ bestState' = model' /\ noImprove' = 0
       ELSE noImprove' = noImprove + 1 /\ UNCHANGED <<best, bestState>>
  /\ UNCHANGED <<cell, loaderVars, measured, checkpoint, upload,
                 goldenVars, weightsFile, diskVars>>

(* The training or the validation stream raises outside every try: the     *)
(* cell stops with model part of the way into an epoch, and is run again,  *)
(* which clears the record of the best epoch but not the model.            *)
TrainFails ==
  /\ cell = "train" /\ passes < MaxPasses
  /\ Len(history) < Epochs /\ noImprove < Patience
  /\ passes' = passes + 1
  /\ model' = passes'
  /\ ResetTraining
  /\ UNCHANGED <<cell, loaderVars, measured, checkpoint, upload,
                 goldenVars, weightsFile, diskVars>>

(* The loop is over: the best state is loaded back when there is one.      *)
TrainEnds ==
  /\ cell = "train"
  /\ Len(history) = Epochs \/ noImprove >= Patience
  /\ model' = IF bestState = Missing THEN model ELSE bestState
  /\ cell' = "evaluate" /\ ResetLoader
  /\ UNCHANGED <<passes, trainVars, measured, checkpoint, upload,
                 goldenVars, weightsFile, diskVars>>

------------------------------------------------------------------------------
(* test_loader, behind safe_loader_iter.                                   *)

Batch == {p \in Positions : stream.at <= p /\ p < stream.at + BatchSize}

Exhausted == ~stream.open \/ Batch = {}
Loadable  == ~Exhausted /\ Batch \cap Corrupt = {}

Advance == stream' = [stream EXCEPT !.at = @ + BatchSize]

(* next() meets an image that cannot be decoded.  safe_loader_iter goes on *)
(* to ask for the next batch, but the exception has ended the generator    *)
(* under the loader: it yields nothing any more, and the images of the     *)
(* batch that were already read are lost with it.                          *)
LoadFails ==
  /\ cell \in {"evaluate", "score"}
  /\ ~Exhausted /\ Batch \cap Corrupt # {}
  /\ stream' = [stream EXCEPT !.open = FALSE]
  /\ UNCHANGED <<cell, passes, model, trainVars, seen, scored, cursor,
                 measured, checkpoint, upload, goldenVars, weightsFile, diskVars>>

(* evaluate(): a batch is counted, or raises in the body and is skipped.   *)
EvaluateBatch(counted) ==
  /\ cell = "evaluate" /\ Loadable
  /\ counted \/ "evaluate" \in DeviceFaults
  /\ Advance
  /\ seen' = IF counted THEN seen \cup Batch ELSE seen
  /\ UNCHANGED <<cell, passes, model, trainVars, scored, cursor, measured,
                 checkpoint, upload, goldenVars, weightsFile, diskVars>>

EvaluateEnds(v) ==
  /\ cell = "evaluate" /\ Exhausted
  /\ seen = {} => v = 0
  /\ measured' = [of |-> model, top1 |-> v, over |-> seen]
  /\ cell' = "save" /\ ResetLoader
  /\ UNCHANGED <<passes, model, trainVars, checkpoint, upload, goldenVars,
                 weightsFile, diskVars>>

(* torch.save(checkpoint), and the browser download of the file, which the *)
(* operator may miss.                                                      *)
SaveCheckpoint(downloaded) ==
  /\ cell = "save"
  /\ checkpoint' = [weights |-> model, metrics |-> measured]
  /\ kept' = IF downloaded THEN checkpoint' ELSE kept
  /\ cell' = "reload" /\ ResetTraining /\ measured' = Missing
  /\ UNCHANGED <<passes, model, loaderVars, upload, goldenVars, weightsFile,
                 exported>>

------------------------------------------------------------------------------
(* "import the saved model": the operator uploads the kept file while the  *)
(* kernel waits at the cell that reads it.                                 *)
UploadStarts ==
  /\ cell = "reload" /\ kept # Missing /\ upload = Missing
  /\ upload' = Partial
  /\ UNCHANGED <<cell, passes, model, trainVars, loaderVars, measured,
                 checkpoint, goldenVars, weightsFile, diskVars>>

UploadEnds ==
  /\ cell = "reload" /\ upload = Partial
  /\ upload' = kept
  /\ UNCHANGED <<cell, passes, model, trainVars, loaderVars, measured,
                 checkpoint, goldenVars, weightsFile, diskVars>>

(* The scoring cell starts on a new loader.                                *)
StartScoring == cell' = "score" /\ ResetLoader

(* The reload cell rebuilds the model first.  A missing or truncated file  *)
(* is only printed: the kernel goes on with the untrained model, and with  *)
(* the variable checkpoint as it was.                                      *)
Reload ==
  /\ cell = "reload"
  /\ IF upload \in {Missing, Partial}
       THEN model' = Untrained /\ UNCHANGED checkpoint
       ELSE model' = upload.weights /\ checkpoint' = upload
  /\ StartScoring
  /\ UNCHANGED <<passes, trainVars, measured, upload, goldenVars, weightsFile,
                 diskVars>>

(* The operator who has just trained may go straight to the scoring cell.  *)
SkipReload ==
  /\ cell = "reload"
  /\ StartScoring
  /\ UNCHANGED <<passes, model, trainVars, measured, checkpoint, upload,
                 goldenVars, weightsFile, diskVars>>

------------------------------------------------------------------------------
(* score_test_set(): the batch is scored, with the positions of `right`    *)
(* classified correctly, or raises and is skipped.                         *)
ScoreBatch(right) ==
  /\ cell = "score" /\ Loadable /\ right \subseteq Batch
  /\ Advance
  /\ scored' = scored \cup {[idx |-> cursor + (p - stream.at), pos |-> p,
                             right |-> p \in right] : p \in Batch}
  /\ cursor' = cursor + Cardinality(Batch)
  /\ UNCHANGED <<cell, passes, model, trainVars, seen, measured, checkpoint,
                 upload, goldenVars, weightsFile, diskVars>>

(* Mutant of ScoreBatchFails: the cursor stays where it was.               *)
ScoreBatchFailsInPlace ==
  /\ cell = "score" /\ Loadable /\ "score" \in DeviceFaults
  /\ Advance
  /\ UNCHANGED <<cell, passes, model, trainVars, seen, scored, cursor, measured,
                 checkpoint, upload, goldenVars, weightsFile, diskVars>>

ScoreBatchFails ==
  /\ cell = "score" /\ Loadable /\ "score" \in DeviceFaults
  /\ Advance
  /\ cursor' = cursor + BatchSize
  /\ UNCHANGED <<cell, passes, model, trainVars, seen, scored, measured,
                 checkpoint, upload, goldenVars, weightsFile, diskVars>>

ScoreEnds ==
  /\ cell = "score" /\ Exhausted
  /\ cell' = "select" /\ stream' = NewStream /\ cursor' = 0
  /\ UNCHANGED <<passes, model, trainVars, seen, scored, measured, checkpoint,
                 upload, goldenVars, weightsFile, diskVars>>

------------------------------------------------------------------------------
Classes  == {Class[p] : p \in Positions}
Correct  == {s \in scored : s.right}
Of(S, c) == {s \in S : Class[s.pos] = c}
Idx(S)   == {s.idx : s \in S}

(* The first n of a sorted list of the members of S: any n of them, or all *)
(* when there are fewer.                                                   *)
FirstOf(S, n) == {T \in SUBSET S : \/ Cardinality(T) = n
                                   \/ T = S /\ Cardinality(S) < n}

GoldenSize == Cardinality(Classes) * (Easy + 1) + Extras

(* Per class the most confident and the least certain correct entries,     *)
(* which may be the same ones, and extras among the rest; a list of        *)
(* another length than GoldenSize fails the assertion.                     *)
SelectGolden ==
  /\ cell = "select"
  /\ \E easy, ambig \in SUBSET Correct :
       /\ \A c \in Classes : /\ Of(easy, c) \in FirstOf(Of(Correct, c), Easy)
                             /\ Of(ambig, c) \in FirstOf(Of(Correct, c), 1)
       /\ \E extras \in FirstOf(Correct \ (easy \cup ambig), Extras) :
            /\ Cardinality(easy) + Cardinality(ambig) + Cardinality(extras) = GoldenSize
            /\ picks' = [targets |-> Idx(easy \cup ambig \cup extras),
                         count |-> GoldenSize
                                     - Cardinality({s \in easy : s.idx = Excluded})
                                     - Cardinality({s \in ambig : s.idx = Excluded})
                                     - Cardinality({s \in extras : s.idx = Excluded})]
  /\ cell' = "extract"
  /\ UNCHANGED <<passes, model, trainVars, loaderVars, measured, checkpoint,
                 upload, golden, weightsFile, diskVars>>

(* The positions a pass over ds['test'] reaches before it raises.          *)
Readable == {p \in Positions : \A q \in Corrupt : p < q}

(* The indices extracted: without the excluded one, and with one correct   *)
(* entry of class Memo in its place when there is one.                     *)
Targets ==
  LET filtered   == picks.targets \ {Excluded}
      candidates == Idx(Of(Correct, Memo)) \ (filtered \cup {Excluded})
  IN  IF picks.count < GoldenSize /\ candidates # {}
        THEN {[at |-> filtered \cup {i}, count |-> picks.count + 1] : i \in candidates}
        ELSE {[at |-> filtered, count |-> picks.count]}

(* One pass over the test stream saves the images at the target positions. *)
(* It stops early when it has found as many as the list is long; an entry  *)
(* that is in the list twice keeps it from ever stopping, and a corrupt    *)
(* image then ends the cell with an exception.  A saved image the model    *)
(* now gets wrong fails the assertion.  A cell that failed leaves no       *)
(* golden set, and the kernel does not get past it.                        *)
ExtractGolden ==
  /\ cell = "extract"
  /\ \E t \in Targets :
       /\ \/ Corrupt = {}
          \/ t.at \subseteq Readable /\ Cardinality(t.at) = t.count
       /\ golden' = t.at \cap Readable
  /\ cell' = "weights"
  /\ UNCHANGED <<passes, model, trainVars, loaderVars, measured, checkpoint,
                 upload, picks, weightsFile, diskVars>>

------------------------------------------------------------------------------
ExportWeights ==
  /\ cell = "weights"
  /\ weightsFile' = model
  /\ cell' = "card" /\ ResetLoader /\ ResetGolden
  /\ UNCHANGED <<passes, model, trainVars, measured, checkpoint, upload,
                 diskVars>>

(* The model card takes the digest of the exported file and the metrics of *)
(* whatever the name checkpoint holds; without one the cell raises.  The   *)
(* artifacts are then zipped and downloaded.                               *)
WriteCard ==
  /\ cell = "card" /\ checkpoint # Missing
  /\ exported' = [weights |-> weightsFile,
                  card |-> [sha |-> weightsFile, metrics |-> checkpoint.metrics]]
  /\ UNCHANGED <<cell, passes, model, trainVars, loaderVars, measured,
                 checkpoint, upload, goldenVars, weightsFile, kept>>

(* The kernel is stopped or reclaimed in any cell; what was downloaded is  *)
(* left.                                                                   *)
SessionEnds ==
  /\ cell # "closed"
  /\ cell' = "closed" /\ model' = Missing
  /\ ResetTraining /\ ResetLoader /\ ResetGolden
  /\ measured' = Missing /\ checkpoint' = Missing /\ upload' = Missing
  /\ weightsFile' = Missing
  /\ UNCHANGED <<passes, diskVars>>

NotebookNext ==
  \/ \E first \in {"train", "reload"} : OpenSession(first)
  \/ \E v \in Accuracy : TrainEpoch(v) \/ EvaluateEnds(v)
  \/ TrainFails \/ TrainEnds
  \/ LoadFails
  \/ \E counted \in BOOLEAN : EvaluateBatch(counted)
  \/ \E downloaded \in BOOLEAN : SaveCheckpoint(downloaded)
  \/ UploadStarts \/ UploadEnds \/ Reload \/ SkipReload
  \/ \E right \in SUBSET Batch : ScoreBatch(right)
  \/ ScoreBatchFails \/ ScoreEnds
  \/ SelectGolden \/ ExtractGolden
  \/ ExportWeights \/ WriteCard
  \/ SessionEnds

------------------------------------------------------------------------------
(* Epoch i is the best one of the history, and no earlier one equals it.   *)
FirstBest(i) ==
  /\ history[i].top1 > 0
  /\ \A j \in 1..Len(history) : history[j].top1 <= history[i].top1
  /\ \A j \in 1..(i - 1) : history[j].top1 < history[i].top1

(* The model that is evaluated and checkpointed after training is the one  *)
(* of the best epoch of the history (the first, when several are equal),   *)
(* although training changes the model in place after that epoch.          *)
BestEpochKept ==
  cell \in {"evaluate", "save"} =>
    \A i \in 1..Len(history) : FirstBest(i) => model = history[i].weights

(* Every golden image is one the exported model classified correctly in    *)
(* the scoring pass: the index a score was recorded under is the position  *)
(* the image is fetched from later, whatever batches failed in between.    *)
GoldenWasScored ==
  golden \subseteq {s.pos : s \in Correct}

(* The test metrics of a checkpoint are over every image of the split that *)
(* can be decoded ("evaluate on the full 40k test split").                 *)
EvaluationCoversSplit ==
  kept # Missing => Positions \ Corrupt \subseteq kept.metrics.over

==============================================================================
