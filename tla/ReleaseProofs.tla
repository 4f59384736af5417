---------------------------- MODULE ReleaseProofs ----------------------------
(***************************************************************************)
(* Theorems about Release, for any number of epochs, split, threshold and  *)
(* set of revisions to begin with: what is measured and exported, what is  *)
(* served, what the rule table holds, what each role may call, and what    *)
(* /health says of a fresh stack.                                          *)
(*                                                                         *)
(* The first part is about the rules; the second about the notebook alone: *)
(* every step of it keeps NotebookInv, for any split, batch size, set of   *)
(* corrupt images and number of epochs.  The third carries that on to what *)
(* is served.                                                              *)
(***************************************************************************)
EXTENDS Release, FiniteSetTheorems, TLAPS

------------------------------------------------------------------------------
(* The rules and who they admit.                                           *)

(* A rule that names its first segment admits no path with another.        *)
LEMMA FirstSegment ==
  ASSUME NEW path, NEW pattern, KeyMatch(path, pattern),
         Len(pattern) \in Nat, pattern[1] # "*"
  PROVE  path[1] = pattern[1]
<1>1. CASE path = pattern
  BY <1>1
<1>2. ASSUME NEW n \in 1..Len(pattern), pattern[n] = "*",
             \A k \in 1..(n - 1) : path[k] = pattern[k]
      PROVE  path[1] = pattern[1]
  <2>1. n # 1
    BY <1>2
  <2>2. 1 \in 1..(n - 1)
    BY <1>2, <2>1
  <2> QED
    BY <1>2, <2>2
<1> QED
  BY <1>1, <1>2 DEF KeyMatch

LEMMA AuditorRules ==
  ASSUME NEW p \in Rule, p.sub = "auditor"
  PROVE  p.act = "GET" /\ p.obj \in {<<"me">>, <<"batches">>, <<"batches", "*">>, <<"audit">>}
<1>1. p \in Rules0002
  BY DEF Rule, Rules0005, Rules0006, Rules0007, P
<1> QED
  BY <1>1 DEF Rules0002, P

LEMMA ReviewerRules ==
  ASSUME NEW p \in Rule, p.sub = "reviewer"
  PROVE  p.obj \in {<<"me">>, <<"batches">>, <<"batches", "*">>, <<"predictions", "recent">>,
                    <<"predictions", "*">>, <<"batches", "upload">>,
                    <<"predictions", "*", "overlay">>}
<1>1. CASE p \in Rules0002
  BY <1>1 DEF Rules0002, P
<1>2. CASE p \in Rules0005 \cup Rules0006
  BY <1>2 DEF Rules0005, Rules0006, P
<1>3. p \notin Rules0007
  BY DEF Rules0007, P
<1> QED
  BY <1>1, <1>2, <1>3 DEF Rule

LEMMA AuditorReads ==
  ASSUME NEW policy \in SUBSET Rule, NEW call, Allowed(policy, "auditor", call)
  PROVE  call.act = "GET" /\ call.obj[1] \notin {"admin", "predictions"}
<1>1. PICK p \in policy : p.sub = "auditor" /\ KeyMatch(call.obj, p.obj) /\ p.act = call.act
  BY DEF Allowed
<1>2. p.act = "GET" /\ p.obj \in {<<"me">>, <<"batches">>, <<"batches", "*">>, <<"audit">>}
  BY <1>1, AuditorRules
<1>3. Len(p.obj) \in Nat /\ p.obj[1] \in {"me", "batches", "audit"}
  BY <1>2
<1> QED
  BY <1>1, <1>2, <1>3, FirstSegment

LEMMA ReviewerReviews ==
  ASSUME NEW policy \in SUBSET Rule, NEW call, Allowed(policy, "reviewer", call)
  PROVE  call.obj[1] \notin {"admin", "audit"}
<1>1. PICK p \in policy : p.sub = "reviewer" /\ KeyMatch(call.obj, p.obj)
  BY DEF Allowed
<1>2. p.obj \in {<<"me">>, <<"batches">>, <<"batches", "*">>, <<"predictions", "recent">>,
                 <<"predictions", "*">>, <<"batches", "upload">>,
                 <<"predictions", "*", "overlay">>}
  BY <1>1, ReviewerRules
<1>3. Len(p.obj) \in Nat /\ p.obj[1] \in {"me", "batches", "predictions"}
  BY <1>2
<1> QED
  BY <1>1, <1>3, FirstSegment

------------------------------------------------------------------------------
(* The rule table and its revision.                                        *)

LEMMA InsertedRules == \A r \in Nat : Inserted(r) \subseteq Rule
  BY DEF Inserted, Rule

LEMMA SeededRules == \A r \in Nat : SeededBy(r) \subseteq Rule
  BY InsertedRules DEF SeededBy

(* Going up by any number of revisions.                                    *)
LEMMA UpgradeSeeds ==
  ASSUME NEW r \in Revision
  PROVE  SeededBy(r) \cup UNION {Inserted(k) : k \in (r + 1)..HeadRevision}
           = SeededBy(HeadRevision)
<1>1. /\ \A k \in 1..r : k \in 1..HeadRevision
      /\ \A k \in (r + 1)..HeadRevision : k \in 1..HeadRevision
      /\ \A k \in 1..HeadRevision : k \in 1..r \/ k \in (r + 1)..HeadRevision
  BY DEF Revision, HeadRevision
<1> QED
  BY <1>1 DEF SeededBy

LEMMA SeededStep ==
  ASSUME NEW r \in Nat \ {0}
  PROVE  SeededBy(r) = SeededBy(r - 1) \cup Inserted(r)
<1>1. 1..r = (1..(r - 1)) \cup {r}
  OBVIOUS
<1> QED
  BY <1>1 DEF SeededBy

(* The tables of the revisions, one by one.                                *)
LEMMA SeededTables ==
  /\ SeededBy(2) = Rules0002 /\ SeededBy(3) = Rules0002 /\ SeededBy(4) = Rules0002
  /\ SeededBy(5) = Rules0002 \cup Rules0005
  /\ SeededBy(6) = Rules0002 \cup Rules0005 \cup Rules0006
  /\ SeededBy(7) = Rules0002 \cup Rules0005 \cup Rules0006 \cup Rules0007
<1>1. SeededBy(0) = {}
  BY DEF SeededBy
<1>2. Inserted(1) = {} /\ Inserted(2) = Rules0002 /\ Inserted(3) = {} /\ Inserted(4) = {}
      /\ Inserted(5) = Rules0005 /\ Inserted(6) = Rules0006 /\ Inserted(7) = Rules0007
  BY DEF Inserted
<1>3. SeededBy(1) = {}
  BY <1>1, <1>2, SeededStep
<1>4. SeededBy(2) = Rules0002
  BY <1>2, <1>3, SeededStep
<1>5. SeededBy(3) = Rules0002
  BY <1>2, <1>4, SeededStep
<1>6. SeededBy(4) = Rules0002
  BY <1>2, <1>5, SeededStep
<1>7. SeededBy(5) = Rules0002 \cup Rules0005
  BY <1>2, <1>6, SeededStep
<1>8. SeededBy(6) = Rules0002 \cup Rules0005 \cup Rules0006
  BY <1>2, <1>7, SeededStep
<1>9. SeededBy(7) = Rules0002 \cup Rules0005 \cup Rules0006 \cup Rules0007
  BY <1>2, <1>8, SeededStep
<1> QED
  BY <1>4, <1>5, <1>6, <1>7, <1>8, <1>9

(* A downgrade takes the rows of its revision and no other.                *)
LEMMA DowngradeSeeds ==
  ASSUME NEW r \in Revision, r > 2
  PROVE  SeededBy(r) \ Deleted(r, SeededBy(r)) = SeededBy(r - 1)
<1>1. CASE r \in {3, 4}
  BY <1>1, SeededTables DEF Deleted
<1>2. CASE r = 5
  <2>1. \A p \in Rules0005 : p \in Deleted(5, SeededBy(5))
    BY SeededTables DEF Deleted, Rules0005, P
  <2>2. \A p \in Rules0002 : p.act = "POST" => p.obj = <<"admin", "*">>
    BY DEF Rules0002, P
  <2>3. <<"admin", "*">> # <<"batches", "upload">>
    OBVIOUS
  <2>4. \A p \in Rules0002 : p \notin Deleted(5, SeededBy(5))
    BY <2>2, <2>3 DEF Deleted
  <2> QED
    BY <1>2, <2>1, <2>4, SeededTables
<1>3. CASE r = 6
  <2>1. \A p \in Rules0006 : p \in Deleted(6, SeededBy(6))
    BY SeededTables DEF Deleted, Rules0006, P
  <2> DEFINE overlay == <<"predictions", "*", "overlay">>
  <2>2. /\ <<"admin", "*">> # overlay /\ <<"audit">> # overlay /\ <<"batches">> # overlay
        /\ <<"batches", "*">> # overlay /\ <<"predictions", "*">> # overlay
        /\ <<"me">> # overlay /\ <<"predictions", "recent">> # overlay
        /\ <<"batches", "upload">> # overlay
    OBVIOUS
  <2>3. \A p \in Rules0002 \cup Rules0005 : p.obj # overlay
    <3> HIDE DEF overlay
    <3>1. \A p \in Rules0002 : p.obj # overlay
      BY <2>2 DEF Rules0002, P
    <3>2. \A p \in Rules0005 : p.obj # overlay
      BY <2>2 DEF Rules0005, P
    <3> QED
      BY <3>1, <3>2
  <2>4. \A p \in Rules0002 \cup Rules0005 : p \notin Deleted(6, SeededBy(6))
    BY <2>3 DEF Deleted
  <2> QED
    BY <1>3, <2>1, <2>4, SeededTables
<1>4. CASE r = 7
  <2>1. \A p \in Rules0007 : p \in Deleted(7, SeededBy(7))
    BY SeededTables DEF Deleted, Rules0007, P
  <2>2. \A p \in Rules0002 : p.sub = "admin" /\ p.act = "PATCH" => p.obj = <<"admin", "*">>
    BY DEF Rules0002, P
  <2>3. <<"admin", "*">> # <<"predictions", "*">>
    OBVIOUS
  <2>4. \A p \in Rules0005 \cup Rules0006 : p.act # "PATCH"
    BY DEF Rules0005, Rules0006, P
  <2>5. \A p \in Rules0002 \cup Rules0005 \cup Rules0006 : p \notin Deleted(7, SeededBy(7))
    BY <2>2, <2>3, <2>4 DEF Deleted
  <2> QED
    BY <1>4, <2>1, <2>5, SeededTables
<1> QED
  BY <1>1, <1>2, <1>3, <1>4 DEF Revision, HeadRevision

------------------------------------------------------------------------------
(* The administrator under the table of the head revision.                 *)

LEMMA BelowFirstSegment ==
  ASSUME NEW path, NEW pattern, Len(pattern) = 2, pattern[2] = "*", pattern[1] # "*",
         path[1] = pattern[1], Len(path) \in Nat, Len(path) >= 2
  PROVE  KeyMatch(path, pattern)
<1>1. \A k \in 1..(2 - 1) : k = 1
  OBVIOUS
<1>2. 2 \in 1..Len(pattern)
  OBVIOUS
<1>3. \E n \in 1..Len(pattern) :
        /\ pattern[n] = "*" /\ \A k \in 1..(n - 1) : pattern[k] # "*"
        /\ Len(path) >= n
        /\ \A k \in 1..(n - 1) : path[k] = pattern[k]
  BY <1>1, <1>2
<1> QED
  BY <1>3 DEF KeyMatch

LEMMA AdminRules ==
  LET head == SeededBy(HeadRevision) IN
  /\ \A act \in {"GET", "POST", "PATCH", "DELETE"} : P("admin", <<"admin", "*">>, act) \in head
  /\ P("admin", <<"audit">>, "GET") \in head /\ P("admin", <<"batches">>, "GET") \in head
  /\ P("admin", <<"batches", "*">>, "GET") \in head
  /\ P("admin", <<"predictions", "*">>, "GET") \in head
  /\ P("admin", <<"me">>, "GET") \in head
  /\ P("admin", <<"batches", "upload">>, "POST") \in head
  /\ P("admin", <<"predictions", "*">>, "PATCH") \in head
<1>1. Rules0002 \cup Rules0005 \cup Rules0007 \subseteq SeededBy(HeadRevision)
  BY SeededTables DEF HeadRevision
<1> QED
  BY <1>1 DEF Rules0002, Rules0005, Rules0007

(* The routes below admin, predictions and batches, and the others.        *)
LEMMA RouteShapes ==
  ASSUME NEW call \in Route
  PROVE  \/ /\ call.obj[1] = "admin" /\ Len(call.obj) \in Nat /\ Len(call.obj) >= 2
            /\ call.act \in {"GET", "POST", "PATCH", "DELETE"}
         \/ /\ call.obj[1] = "predictions" /\ Len(call.obj) \in Nat /\ Len(call.obj) >= 2
            /\ call.act \in {"GET", "PATCH"}
         \/ /\ call.obj[1] = "batches" /\ Len(call.obj) \in Nat /\ Len(call.obj) >= 2
            /\ call.act = "GET"
         \/ call.obj \in {<<"audit">>, <<"batches">>, <<"me">>} /\ call.act = "GET"
         \/ call.obj = <<"batches", "upload">> /\ call.act = "POST"
<1>1. CASE call \in {Call(<<"audit">>, "GET"), Call(<<"batches">>, "GET"), Call(<<"me">>, "GET"),
                     Call(<<"batches", "upload">>, "POST")}
  BY <1>1 DEF Call
<1>2. CASE call = Call(<<"admin", "users">>, "GET")
  BY <1>2 DEF Call
<1>3. CASE call = Call(<<"admin", "users", "invite">>, "POST")
  BY <1>3 DEF Call
<1>4. CASE call = Call(<<"admin", "users", "target_user_id", "role">>, "POST")
  BY <1>4 DEF Call
<1>5. CASE call = Call(<<"admin", "users", "target_user_id", "active">>, "PATCH")
  BY <1>5 DEF Call
<1>6. CASE call = Call(<<"admin", "users", "target_user_id">>, "DELETE")
  BY <1>6 DEF Call
<1>7. CASE call = Call(<<"batches", "batch_id">>, "GET")
  BY <1>7 DEF Call
<1>8. CASE call = Call(<<"predictions", "recent">>, "GET")
  BY <1>8 DEF Call
<1>9. CASE call = Call(<<"predictions", "prediction_id">>, "PATCH")
  BY <1>9 DEF Call
<1>10. CASE call = Call(<<"predictions", "prediction_id", "overlay">>, "GET")
  BY <1>10 DEF Call
<1> QED
  BY <1>1, <1>2, <1>3, <1>4, <1>5, <1>6, <1>7, <1>8, <1>9, <1>10 DEF Route

LEMMA AdminAdmitted ==
  \A call \in Route : Allowed(SeededBy(HeadRevision), "admin", call)
<1> DEFINE head == SeededBy(HeadRevision)
           adminStar == <<"admin", "*">>
           predictionsStar == <<"predictions", "*">>
           batchesStar == <<"batches", "*">>
<1>1. /\ \A act \in {"GET", "POST", "PATCH", "DELETE"} : P("admin", adminStar, act) \in head
      /\ \A act \in {"GET", "PATCH"} : P("admin", predictionsStar, act) \in head
      /\ P("admin", batchesStar, "GET") \in head
      /\ \A obj \in {<<"audit">>, <<"batches">>, <<"me">>} : P("admin", obj, "GET") \in head
      /\ P("admin", <<"batches", "upload">>, "POST") \in head
  BY AdminRules
<1>2. /\ Len(adminStar) = 2 /\ adminStar[1] = "admin" /\ adminStar[2] = "*"
      /\ Len(predictionsStar) = 2 /\ predictionsStar[1] = "predictions"
      /\ predictionsStar[2] = "*"
      /\ Len(batchesStar) = 2 /\ batchesStar[1] = "batches" /\ batchesStar[2] = "*"
  OBVIOUS
<1> HIDE DEF head, adminStar, predictionsStar, batchesStar
<1>3. ASSUME NEW call, NEW rule, P("admin", rule, call.act) \in head, KeyMatch(call.obj, rule)
      PROVE  Allowed(head, "admin", call)
  BY <1>3 DEF Allowed, P
<1>4. ASSUME NEW call \in Route PROVE Allowed(head, "admin", call)
  <2>1. CASE /\ call.obj[1] = "admin" /\ Len(call.obj) \in Nat /\ Len(call.obj) >= 2
             /\ call.act \in {"GET", "POST", "PATCH", "DELETE"}
    <3>1. KeyMatch(call.obj, adminStar)
      BY <2>1, <1>2, BelowFirstSegment
    <3> QED
      BY <2>1, <3>1, <1>1, <1>3
  <2>2. CASE /\ call.obj[1] = "predictions" /\ Len(call.obj) \in Nat /\ Len(call.obj) >= 2
             /\ call.act \in {"GET", "PATCH"}
    <3>1. KeyMatch(call.obj, predictionsStar)
      BY <2>2, <1>2, BelowFirstSegment
    <3> QED
      BY <2>2, <3>1, <1>1, <1>3
  <2>3. CASE /\ call.obj[1] = "batches" /\ Len(call.obj) \in Nat /\ Len(call.obj) >= 2
             /\ call.act = "GET"
    <3>1. KeyMatch(call.obj, batchesStar)
      BY <2>3, <1>2, BelowFirstSegment
    <3> QED
      BY <2>3, <3>1, <1>1, <1>3
  <2>4. CASE call.obj \in {<<"audit">>, <<"batches">>, <<"me">>} /\ call.act = "GET"
    <3>1. P("admin", call.obj, call.act) \in head
      BY <2>4, <1>1
    <3> QED
      BY <3>1, <1>3 DEF KeyMatch
  <2>5. CASE call.obj = <<"batches", "upload">> /\ call.act = "POST"
    <3>1. P("admin", call.obj, call.act) \in head
      BY <2>5, <1>1
    <3> QED
      BY <3>1, <1>3 DEF KeyMatch
  <2> QED
    BY <2>1, <2>2, <2>3, <2>4, <2>5, RouteShapes
<1> QED
  BY <1>4 DEF head

------------------------------------------------------------------------------
(* The notebook.                                                           *)

Training == {"train", "evaluate", "save"}

(* An open kernel has a model, measured when it is saved, exported when    *)
(* the card is written.                                                    *)
ModelKnown ==
  /\ cell # "closed" => model \in Weights
  /\ cell = "save" => measured # Missing /\ measured.of = model
  /\ cell = "card" => weightsFile = model

(* best is the largest accuracy of the history and best_state the weights  *)
(* of its first occurrence.                                                *)
BestTracked ==
  /\ \A j \in 1..Len(history) : history[j].top1 <= best
  /\ best = 0 \/ \E j \in 1..Len(history) : history[j].top1 = best
  /\ \A i \in 1..Len(history) : FirstBest(i) => bestState = history[i].weights
  /\ cell \notin Training => history = <<>> /\ best = 0 /\ bestState = Missing

(* The cursor is where the stream is, until the stream has ended, so what  *)
(* is recorded under an index was read at that position.                   *)
IndexIsPosition ==
  /\ IsFiniteSet(scored)
  /\ \A s \in scored : s.idx = s.pos
  /\ cell = "score" => cursor = stream.at \/ stream.at >= SplitSize

PicksAreCorrect ==
  /\ picks.targets \subseteq Idx(Correct)
  /\ cell \notin {"extract", "weights"} => picks = NoPicks /\ golden = {}

(* A checkpoint holds the metrics of its own weights, wherever it is kept. *)
OfItself(c) == c.weights = c.metrics.of

CheckpointsOfThemselves ==
  /\ checkpoint # Missing => OfItself(checkpoint)
  /\ kept # Missing => OfItself(kept)
  /\ upload \notin {Missing, Partial} => OfItself(upload)

(* The variable checkpoint is about the model of the kernel, or the model  *)
(* is the untrained one.                                                   *)
CheckpointOfModel ==
  /\ cell \in Training \cup {"closed"} => checkpoint = Missing
  /\ model # Untrained /\ checkpoint # Missing => checkpoint.metrics.of = model

(* A card whose weights are trained holds their metrics.                   *)
Sound(card) == card.sha # Untrained => card.metrics.of = card.sha

ExportSound ==
  exported # Missing => exported.card.sha = exported.weights /\ Sound(exported.card)

NotebookInv ==
  /\ NotebookTypeOK
  /\ ModelKnown
  /\ BestTracked
  /\ BestEpochKept
  /\ IndexIsPosition
  /\ PicksAreCorrect
  /\ GoldenWasScored
  /\ CheckpointsOfThemselves
  /\ CheckpointOfModel
  /\ ExportSound

------------------------------------------------------------------------------
(* Facts about the data.                                                   *)

USE EpochsAssumption, AccuracyAssumption, SplitAssumption, BoundAssumption,
    MissingAssumption

LEMMA PositionsFinite == IsFiniteSet(Positions) /\ Positions \subseteq Nat
  BY FS_Interval DEF Positions

LEMMA WeightsNumbers == Weights \subseteq Nat /\ Untrained \in Weights /\ Shipped \in Weights
  BY DEF Weights, Untrained, Shipped

(* The image of a finite set, as a set of values of a function.            *)
LEMMA ImageFinite ==
  ASSUME NEW S, IsFiniteSet(S), NEW f, DOMAIN f = S, f = [x \in S |-> f[x]]
  PROVE  IsFiniteSet({f[x] : x \in S})
<1> DEFINE T == {f[x] : x \in S}
<1>1. f \in [S -> T]
  OBVIOUS
<1>2. \A t \in T : \E x \in S : f[x] = t
  OBVIOUS
<1>3. f \in Surjection(S, T)
  BY <1>1, <1>2 DEF Surjection
<1> QED
  BY <1>3, FS_Surjection

LEMMA ClassesFinite == IsFiniteSet(Classes) /\ Cardinality(Classes) \in Nat
<1> DEFINE f == [p \in Positions |-> Class[p]]
<1>1. DOMAIN f = Positions /\ f = [p \in Positions |-> f[p]]
  OBVIOUS
<1>2. Classes = {f[p] : p \in Positions}
  BY DEF Classes
<1>3. IsFiniteSet({f[p] : p \in Positions})
  <2> HIDE DEF f
  <2> QED
    BY <1>1, PositionsFinite, ImageFinite
<1> QED
  BY <1>2, <1>3, FS_CardinalityType

LEMMA GoldenSizeNat == GoldenSize \in Nat
  BY ClassesFinite DEF GoldenSize

(* A batch is finite, and full unless it reaches the end of the split.     *)
LEMMA BatchFacts ==
  ASSUME NotebookTypeOK
  PROVE  /\ Batch \subseteq Positions
         /\ IsFiniteSet(Batch)
         /\ Cardinality(Batch) \in Nat
         /\ stream.at + BatchSize <= SplitSize => Cardinality(Batch) = BatchSize
<1> stream.at \in Nat
  BY DEF NotebookTypeOK
<1>1. Batch \subseteq Positions
  BY DEF Batch
<1>2. IsFiniteSet(Batch)
  BY <1>1, PositionsFinite, FS_Subset
<1>3. ASSUME stream.at + BatchSize <= SplitSize
      PROVE  Cardinality(Batch) = BatchSize
  <2>1. Batch = stream.at .. (stream.at + BatchSize - 1)
    BY <1>3 DEF Batch, Positions
  <2> QED
    BY <2>1, FS_Interval, SMTT(30)
<1> QED
  BY <1>1, <1>2, <1>3, FS_CardinalityType

(* A subset of the scores has a number of members; two never have fewer    *)
(* than part of them.                                                      *)
LEMMA PartOfScores ==
  ASSUME IsFiniteSet(scored), NEW S \in SUBSET scored, NEW T \in SUBSET S
  PROVE  /\ Cardinality(S) \in Nat /\ Cardinality(T) \in Nat
         /\ Cardinality(T) <= Cardinality(S)
<1>1. IsFiniteSet(S)
  BY FS_Subset
<1> QED
  BY <1>1, FS_Subset, FS_CardinalityType

------------------------------------------------------------------------------
(* The steps of the notebook.                                              *)

LEMMA NotebookInitInv == NotebookInit => NotebookInv
<1> SUFFICES ASSUME NotebookInit PROVE NotebookInv
  OBVIOUS
<1> USE DEF NotebookInit
<1>1. NotebookTypeOK
  BY WeightsNumbers DEF NotebookTypeOK, Cells, NewStream, NoPicks, Shipped
<1>2. ModelKnown /\ BestTracked /\ BestEpochKept
  BY DEF ModelKnown, BestTracked, BestEpochKept, Training
<1>3. IndexIsPosition
  BY FS_EmptySet DEF IndexIsPosition
<1>4. PicksAreCorrect /\ GoldenWasScored
  BY DEF PicksAreCorrect, NoPicks, GoldenWasScored
<1>5. CheckpointsOfThemselves /\ CheckpointOfModel /\ ExportSound
  BY DEF CheckpointsOfThemselves, CheckpointOfModel, ExportSound
<1> QED
  BY <1>1, <1>2, <1>3, <1>4, <1>5 DEF NotebookInv

(* Types.                                                                  *)
LEMMA SelectTypes ==
  ASSUME NotebookInv, SelectGolden
  PROVE  picks' \in [targets : SUBSET Nat, count : Nat] /\ picks'.targets \subseteq Idx(Correct)
<1> USE DEF NotebookInv
<1>1. PICK easy \in SUBSET Correct, ambig \in SUBSET Correct :
        \E extras \in FirstOf(Correct \ (easy \cup ambig), Extras) :
          /\ Cardinality(easy) + Cardinality(ambig) + Cardinality(extras) = GoldenSize
          /\ picks' = [targets |-> Idx(easy \cup ambig \cup extras),
                       count |-> GoldenSize
                                   - Cardinality({s \in easy : s.idx = Excluded})
                                   - Cardinality({s \in ambig : s.idx = Excluded})
                                   - Cardinality({s \in extras : s.idx = Excluded})]
  BY DEF SelectGolden
<1>2. PICK extras \in SUBSET Correct :
          /\ Cardinality(easy) + Cardinality(ambig) + Cardinality(extras) = GoldenSize
          /\ picks' = [targets |-> Idx(easy \cup ambig \cup extras),
                       count |-> GoldenSize
                                   - Cardinality({s \in easy : s.idx = Excluded})
                                   - Cardinality({s \in ambig : s.idx = Excluded})
                                   - Cardinality({s \in extras : s.idx = Excluded})]
  BY <1>1 DEF FirstOf
<1> DEFINE E == {s \in easy : s.idx = Excluded}
           A == {s \in ambig : s.idx = Excluded}
           X == {s \in extras : s.idx = Excluded}
<1>3. Correct \subseteq scored /\ IsFiniteSet(scored) /\ scored \subseteq Score
  BY DEF Correct, IndexIsPosition, NotebookTypeOK
<1>4. /\ Cardinality(easy) \in Nat /\ Cardinality(E) \in Nat
      /\ Cardinality(E) <= Cardinality(easy)
  BY <1>3, PartOfScores
<1>5. /\ Cardinality(ambig) \in Nat /\ Cardinality(A) \in Nat
      /\ Cardinality(A) <= Cardinality(ambig)
  BY <1>3, PartOfScores
<1>6. /\ Cardinality(extras) \in Nat /\ Cardinality(X) \in Nat
      /\ Cardinality(X) <= Cardinality(extras)
  BY <1>3, PartOfScores
<1>7. picks'.count \in Nat
  BY <1>2, <1>4, <1>5, <1>6, GoldenSizeNat
<1>8. picks'.targets \subseteq Idx(Correct) /\ Idx(Correct) \subseteq Nat
  BY <1>2, <1>3 DEF Idx, Score
<1> QED
  BY <1>2, <1>7, <1>8

LEMMA ExtractTargets ==
  ASSUME NotebookInv, NEW t \in Targets
  PROVE  t.at \subseteq Idx(Correct)
  BY DEF NotebookInv, PicksAreCorrect, Targets, Idx, Of

LEMMA AdvanceTypes ==
  ASSUME NotebookTypeOK, Advance
  PROVE  stream' \in [at : Nat, open : BOOLEAN] /\ stream'.at = stream.at + BatchSize
<1>1. stream \in [at : Nat, open : BOOLEAN]
  BY DEF NotebookTypeOK
<1>2. stream.at + BatchSize \in Nat
  BY <1>1
<1> QED
  BY <1>1, <1>2 DEF Advance

LEMMA ScoredTypes ==
  ASSUME NotebookTypeOK, NEW right \in SUBSET Batch, ScoreBatch(right)
  PROVE  scored' \subseteq Score /\ cursor' \in Nat
<1>1. cursor \in Nat /\ stream.at \in Nat /\ scored \subseteq Score
  BY DEF NotebookTypeOK
<1>2. ASSUME NEW p \in Batch
      PROVE  [idx |-> cursor + (p - stream.at), pos |-> p, right |-> p \in right] \in Score
  <2>1. p \in Positions /\ cursor + (p - stream.at) \in Nat
    BY <1>1 DEF Batch, Positions
  <2> QED
    BY <2>1 DEF Score
<1> DEFINE new == {[idx |-> cursor + (p - stream.at), pos |-> p, right |-> p \in right]
                     : p \in Batch}
<1>3. new \subseteq Score
  BY <1>2
<1>4. scored' = scored \cup new /\ cursor' = cursor + Cardinality(Batch)
  BY DEF ScoreBatch
<1> HIDE DEF new
<1> QED
  BY <1>1, <1>3, <1>4, BatchFacts

LEMMA NotebookTypes ==
  ASSUME NotebookInv, NotebookNext
  PROVE  NotebookTypeOK'
<1> USE WeightsNumbers DEF NotebookInv, NotebookTypeOK, Cells
<1>1. ASSUME NEW first \in {"train", "reload"}, OpenSession(first) PROVE NotebookTypeOK'
  BY <1>1 DEF OpenSession, trainVars, loaderVars, goldenVars, diskVars
<1>2. ASSUME NEW v \in Accuracy, TrainEpoch(v) PROVE NotebookTypeOK'
  <2>1. passes' \in 1..MaxPasses /\ model' \in Weights
    BY <1>2 DEF TrainEpoch, Weights
  <2>2. history' \in Seq(Epoch)
    BY <1>2, <2>1 DEF TrainEpoch, Epoch
  <2>3. best' \in Accuracy /\ bestState' \in Weights \cup {Missing} /\ noImprove' \in Nat
    BY <1>2, <2>1, SMTT(30) DEF TrainEpoch
  <2> QED
    BY <1>2, <2>1, <2>2, <2>3 DEF TrainEpoch, loaderVars, goldenVars, diskVars
<1>3. CASE TrainFails
  <2>1. passes' \in 1..MaxPasses /\ model' \in Weights
    BY <1>3 DEF TrainFails, Weights
  <2> QED
    BY <1>3, <2>1 DEF TrainFails, ResetTraining, loaderVars, goldenVars, diskVars
<1>4. CASE TrainEnds
  BY <1>4 DEF TrainEnds, ResetLoader, NewStream, trainVars, goldenVars, diskVars
<1>5. CASE LoadFails
  BY <1>5, ZenonT(30) DEF LoadFails, trainVars, goldenVars, diskVars
<1>6. ASSUME NEW counted \in BOOLEAN, EvaluateBatch(counted) PROVE NotebookTypeOK'
  <2>1. stream' \in [at : Nat, open : BOOLEAN]
    BY <1>6, AdvanceTypes DEF EvaluateBatch
  <2>2. seen' \subseteq Positions
    BY <1>6, BatchFacts DEF EvaluateBatch
  <2> QED
    BY <1>6, <2>1, <2>2 DEF EvaluateBatch, trainVars, goldenVars, diskVars
<1>7. ASSUME NEW v \in Accuracy, EvaluateEnds(v) PROVE NotebookTypeOK'
  <2>1. measured' \in Metrics
    BY <1>7 DEF EvaluateEnds, Metrics, ModelKnown
  <2> QED
    BY <1>7, <2>1 DEF EvaluateEnds, ResetLoader, NewStream, trainVars, goldenVars, diskVars
<1>8. ASSUME NEW downloaded \in BOOLEAN, SaveCheckpoint(downloaded) PROVE NotebookTypeOK'
  <2>1. checkpoint' \in Checkpoint /\ kept' \in Checkpoint \cup {Missing}
    BY <1>8 DEF SaveCheckpoint, Checkpoint, ModelKnown
  <2> QED
    BY <1>8, <2>1 DEF SaveCheckpoint, ResetTraining, loaderVars, goldenVars
<1>9. CASE UploadStarts \/ UploadEnds
  BY <1>9 DEF UploadStarts, UploadEnds, trainVars, loaderVars, goldenVars, diskVars
<1>10. CASE Reload
  <2>1. model' \in Weights \cup {Missing} /\ checkpoint' \in Checkpoint \cup {Missing}
    BY <1>10 DEF Reload, Checkpoint
  <2> QED
    BY <1>10, <2>1 DEF Reload, StartScoring, ResetLoader, NewStream, trainVars,
                       goldenVars, diskVars
<1>11. CASE SkipReload
  BY <1>11 DEF SkipReload, StartScoring, ResetLoader, NewStream, trainVars,
               goldenVars, diskVars
<1>12. ASSUME NEW right \in SUBSET Batch, ScoreBatch(right) PROVE NotebookTypeOK'
  <2>1. stream' \in [at : Nat, open : BOOLEAN]
    BY <1>12, AdvanceTypes DEF ScoreBatch
  <2>2. scored' \subseteq Score /\ cursor' \in Nat
    BY <1>12, ScoredTypes
  <2> QED
    BY <1>12, <2>1, <2>2 DEF ScoreBatch, trainVars, goldenVars, diskVars
<1>13. CASE ScoreBatchFails
  <2>1. stream' \in [at : Nat, open : BOOLEAN]
    BY <1>13, AdvanceTypes DEF ScoreBatchFails
  <2>2. cursor' \in Nat
    BY <1>13 DEF ScoreBatchFails
  <2> QED
    BY <1>13, <2>1, <2>2 DEF ScoreBatchFails, trainVars, goldenVars, diskVars
<1>14. CASE ScoreEnds
  BY <1>14 DEF ScoreEnds, NewStream, trainVars, goldenVars, diskVars
<1>15. CASE SelectGolden
  <2>1. picks' \in [targets : SUBSET Nat, count : Nat]
    BY <1>15, SelectTypes
  <2>2. /\ cell' = "extract"
        /\ UNCHANGED <<passes, model, trainVars, loaderVars, measured, checkpoint,
                       upload, golden, weightsFile, diskVars>>
    BY <1>15 DEF SelectGolden
  <2> QED
    BY <2>1, <2>2 DEF trainVars, loaderVars, diskVars
<1>16. CASE ExtractGolden
  <2>1. golden' \subseteq Nat
    <3>1. PICK t \in Targets : golden' = t.at \cap Readable
      BY <1>16 DEF ExtractGolden
    <3> QED
      BY <3>1, PositionsFinite DEF Readable
  <2> QED
    BY <1>16, <2>1 DEF ExtractGolden, trainVars, loaderVars, diskVars
<1>17. CASE ExportWeights
  BY <1>17 DEF ExportWeights, ResetLoader, ResetGolden, NewStream, NoPicks, trainVars, diskVars
<1>18. CASE WriteCard
  <2>1. exported' \in [weights : Weights, card : Card]
    BY <1>18 DEF WriteCard, Card, Checkpoint, ModelKnown
  <2> QED
    BY <1>18, <2>1 DEF WriteCard, trainVars, loaderVars, goldenVars
<1>19. CASE SessionEnds
  BY <1>19 DEF SessionEnds, ResetTraining, ResetLoader, ResetGolden, NewStream, NoPicks,
               diskVars
<1> QED
  BY <1>1, <1>2, <1>3, <1>4, <1>5, <1>6, <1>7, <1>8, <1>9, <1>10, <1>11, <1>12, <1>13, <1>14,
     <1>15, <1>16, <1>17, <1>18, <1>19 DEF NotebookNext

(* The model of the kernel and what is measured and exported of it.        *)
LEMMA ModelKnownKept ==
  ASSUME NotebookInv, NotebookNext
  PROVE  ModelKnown'
<1>1. /\ ModelKnown
      /\ passes \in 1..MaxPasses /\ model \in Weights \cup {Missing}
      /\ bestState \in Weights \cup {Missing}
      /\ upload \in Checkpoint \cup {Missing, Partial}
      /\ cell \in Cells
  BY DEF NotebookInv, NotebookTypeOK
<1> USE <1>1, WeightsNumbers DEF ModelKnown, Cells
<1>2. ASSUME NEW first \in {"train", "reload"}, OpenSession(first) PROVE ModelKnown'
  BY <1>2 DEF OpenSession
<1>3. ASSUME NEW v \in Accuracy, TrainEpoch(v) \/ TrainFails PROVE ModelKnown'
  BY <1>3 DEF TrainEpoch, TrainFails, Weights
<1>4. CASE TrainEnds
  BY <1>4 DEF TrainEnds
<1>5. ASSUME NEW v \in Accuracy, EvaluateEnds(v) PROVE ModelKnown'
  <2>1. measured' # Missing /\ measured'.of = model
    <3>1. seen \subseteq Positions
      BY DEF NotebookInv, NotebookTypeOK
    <3>2. measured' \in Metrics
      BY <1>5, <3>1 DEF EvaluateEnds, Metrics
    <3> QED
      BY <1>5, <3>2 DEF EvaluateEnds
  <2> QED
    BY <1>5, <2>1 DEF EvaluateEnds
<1>6. ASSUME NEW downloaded \in BOOLEAN, SaveCheckpoint(downloaded) PROVE ModelKnown'
  BY <1>6 DEF SaveCheckpoint
<1>7. CASE LoadFails \/ UploadStarts \/ UploadEnds
  BY <1>7 DEF LoadFails, UploadStarts, UploadEnds
<1>8. ASSUME NEW counted \in BOOLEAN, EvaluateBatch(counted) PROVE ModelKnown'
  BY <1>8 DEF EvaluateBatch
<1>9. CASE Reload \/ SkipReload
  BY <1>9 DEF Reload, SkipReload, StartScoring, Checkpoint
<1>10. ASSUME NEW right \in SUBSET Batch, ScoreBatch(right) PROVE ModelKnown'
  BY <1>10 DEF ScoreBatch
<1>11. CASE ScoreBatchFails \/ ScoreEnds
  BY <1>11 DEF ScoreBatchFails, ScoreEnds
<1>12. CASE SelectGolden
  <2>1. /\ cell = "select" /\ cell' = "extract"
        /\ UNCHANGED model
    BY <1>12 DEF SelectGolden
  <2> QED
    BY <2>1
<1>13. CASE ExtractGolden \/ ExportWeights \/ WriteCard \/ SessionEnds
  BY <1>13 DEF ExtractGolden, ExportWeights, WriteCard, SessionEnds
<1> QED
  BY <1>2, <1>3, <1>4, <1>5, <1>6, <1>7, <1>8, <1>9, <1>10, <1>11, <1>12, <1>13
     DEF NotebookNext

------------------------------------------------------------------------------
(* Training.                                                               *)

(* A step outside the training cell leaves the history alone or clears it. *)
LEMMA TrainingLeft ==
  ASSUME NotebookNext, \A v \in Accuracy : ~TrainEpoch(v)
  PROVE  \/ history' = <<>> /\ best' = 0 /\ bestState' = Missing
         \/ UNCHANGED <<history, best, bestState>> /\ (cell' \in Training \/ cell \notin Training)
<1> USE DEF trainVars, Training
<1>1. ASSUME NEW first \in {"train", "reload"}, OpenSession(first)
      PROVE  UNCHANGED <<history, best, bestState>> /\ cell \notin Training
  BY <1>1 DEF OpenSession
<1>2. CASE TrainFails \/ SessionEnds
  BY <1>2 DEF TrainFails, SessionEnds, ResetTraining
<1>3. CASE TrainEnds
  BY <1>3 DEF TrainEnds
<1>4. ASSUME NEW v \in Accuracy, EvaluateEnds(v)
      PROVE  UNCHANGED <<history, best, bestState>> /\ cell' \in Training
  BY <1>4 DEF EvaluateEnds
<1>5. ASSUME NEW downloaded \in BOOLEAN, SaveCheckpoint(downloaded)
      PROVE  history' = <<>> /\ best' = 0 /\ bestState' = Missing
  BY <1>5 DEF SaveCheckpoint, ResetTraining
<1>6. ASSUME NEW counted \in BOOLEAN, EvaluateBatch(counted)
      PROVE  UNCHANGED <<history, best, bestState>> /\ cell' \in Training
  BY <1>6 DEF EvaluateBatch
<1>7. CASE LoadFails \/ UploadStarts \/ UploadEnds
  BY <1>7 DEF LoadFails, UploadStarts, UploadEnds
<1>8. CASE Reload \/ SkipReload \/ ScoreBatchFails \/ ScoreEnds
  BY <1>8 DEF Reload, SkipReload, StartScoring, ScoreBatchFails, ScoreEnds
<1>9. ASSUME NEW right \in SUBSET Batch, ScoreBatch(right)
      PROVE  UNCHANGED <<history, best, bestState>> /\ cell \notin Training
  BY <1>9 DEF ScoreBatch
<1>10. CASE SelectGolden
  BY <1>10 DEF SelectGolden
<1>11. CASE ExtractGolden \/ ExportWeights \/ WriteCard
  BY <1>11 DEF ExtractGolden, ExportWeights, WriteCard
<1> QED
  BY <1>1, <1>2, <1>3, <1>4, <1>5, <1>6, <1>7, <1>8, <1>9, <1>10, <1>11
     DEF NotebookNext

LEMMA EpochOfHistory ==
  ASSUME NotebookTypeOK, NEW i \in 1..Len(history)
  PROVE  history[i].weights \in Weights /\ history[i].top1 \in Nat
<1>1. history[i] \in Epoch
  BY DEF NotebookTypeOK
<1>2. history[i].weights \in Weights /\ history[i].top1 \in Accuracy
  BY <1>1 DEF Epoch
<1> QED
  BY <1>2

(* An epoch appended to the history.                                       *)
LEMMA EpochTracked ==
  ASSUME NotebookInv, NEW v \in Accuracy, TrainEpoch(v)
  PROVE  BestTracked'
<1> DEFINE n == Len(history)
<1>1. /\ history \in Seq(Epoch) /\ best \in Nat /\ v \in Nat
      /\ n \in Nat /\ BestTracked /\ cell = "train"
  BY DEF NotebookInv, NotebookTypeOK, TrainEpoch
<1>2. /\ Len(history') = n + 1 /\ cell' = "train"
      /\ \A i \in 1..n : history'[i] = history[i]
      /\ history'[n + 1] = [weights |-> model', top1 |-> v]
      /\ 1..(n + 1) = (1..n) \cup {n + 1}
  BY <1>1 DEF TrainEpoch
<1>3. \A j \in 1..n : history[j].top1 \in Nat /\ history[j].top1 <= best
  BY <1>1, EpochOfHistory DEF BestTracked, NotebookInv
<1>4. \/ v > best /\ best' = v /\ bestState' = model'
      \/ v <= best /\ best' = best /\ bestState' = bestState
  BY <1>1 DEF TrainEpoch
<1>5. best = 0 \/ \E j \in 1..n : history[j].top1 = best
  BY <1>1 DEF BestTracked
<1>6. \A i \in 1..n : FirstBest(i) => bestState = history[i].weights
  BY <1>1 DEF BestTracked
<1> HIDE DEF n
<1>7. \A j \in 1..(n + 1) : history'[j].top1 <= best'
  BY <1>1, <1>2, <1>3, <1>4
<1>8. best' = 0 \/ \E j \in 1..(n + 1) : history'[j].top1 = best'
  <2>1. CASE best' = v
    BY <2>1, <1>1, <1>2
  <2>2. CASE best' = best
    BY <2>2, <1>1, <1>2, <1>5
  <2> QED
    BY <2>1, <2>2, <1>4
<1>9. ASSUME NEW i \in 1..(n + 1), FirstBest(i)'
      PROVE  bestState' = history'[i].weights
  <2>1. /\ history'[i].top1 > 0
        /\ \A j \in 1..(n + 1) : history'[j].top1 <= history'[i].top1
        /\ \A j \in 1..(i - 1) : history'[j].top1 < history'[i].top1
    BY <1>9, <1>2 DEF FirstBest
  <2>2. CASE i = n + 1
    <3>1. v > 0 /\ \A j \in 1..n : history[j].top1 < v
      BY <2>1, <2>2, <1>1, <1>2
    <3>2. v > best
      BY <3>1, <1>1, <1>3, <1>5
    <3> QED
      BY <3>2, <2>2, <1>1, <1>2, <1>4
  <2>3. CASE i \in 1..n
    <3>1. v <= history[i].top1 /\ history[i].top1 <= best
      BY <2>1, <2>3, <1>1, <1>2, <1>3
    <3>2. v <= best
      BY <3>1, <1>1, <1>3, <2>3
    <3>3. FirstBest(i)
      <4>1. history[i].top1 > 0
        BY <2>1, <2>3, <1>2
      <4>2. \A j \in 1..n : history[j].top1 <= history[i].top1
        BY <2>1, <2>3, <1>2
      <4>3. \A j \in 1..(i - 1) : history[j].top1 < history[i].top1
        <5>1. \A j \in 1..(i - 1) : j \in 1..n
          BY <2>3, <1>1
        <5> QED
          BY <5>1, <2>1, <2>3, <1>2
      <4> QED
        BY <4>1, <4>2, <4>3 DEF FirstBest, n
    <3>4. bestState' = bestState
      BY <3>2, <1>1, <1>4
    <3> QED
      BY <3>3, <3>4, <2>3, <1>2, <1>6
  <2> QED
    BY <2>2, <2>3, <1>2
<1>10. cell' \in Training
  BY <1>2 DEF Training
<1> QED
  BY <1>2, <1>7, <1>8, <1>9, <1>10 DEF BestTracked

LEMMA BestTrackedKept ==
  ASSUME NotebookInv, NotebookNext
  PROVE  BestTracked'
<1>1. ASSUME NEW v \in Accuracy, TrainEpoch(v) PROVE BestTracked'
  BY <1>1, EpochTracked
<1>2. CASE history' = <<>> /\ best' = 0 /\ bestState' = Missing
  BY <1>2 DEF BestTracked
<1>3. CASE /\ UNCHANGED <<history, best, bestState>>
           /\ cell' \in Training \/ cell \notin Training
  BY <1>3 DEF BestTracked, NotebookInv, FirstBest
<1> QED
  BY <1>1, <1>2, <1>3, TrainingLeft

(* The model when training has ended is the best of its history, and no    *)
(* cell before the save changes it.                                        *)
LEMMA BestEpochKeptByEvaluation ==
  ASSUME NotebookInv, cell = "evaluate", UNCHANGED <<model, history>>
  PROVE  BestEpochKept'
  BY DEF NotebookInv, BestEpochKept, FirstBest

LEMMA BestEpochKeptKept ==
  ASSUME NotebookInv, NotebookNext
  PROVE  BestEpochKept'
<1> USE DEF trainVars, BestEpochKept
<1>1. CASE cell' \notin {"evaluate", "save"}
  BY <1>1
<1>2. CASE TrainEnds
  <2>1. UNCHANGED <<history, bestState>>
    BY <1>2 DEF TrainEnds
  <2>2. ASSUME NEW i \in 1..Len(history), FirstBest(i)
        PROVE  model' = history[i].weights
    <3>1. bestState = history[i].weights
      BY <2>2 DEF NotebookInv, BestTracked
    <3>2. history[i].weights \in Weights
      BY EpochOfHistory DEF NotebookInv
    <3>3. bestState # Missing
      BY <3>1, <3>2
    <3> QED
      BY <1>2, <3>1, <3>3 DEF TrainEnds
  <2> QED
    BY <2>1, <2>2 DEF FirstBest
<1>3. ASSUME NEW counted \in BOOLEAN, EvaluateBatch(counted) PROVE BestEpochKept'
  BY <1>3, BestEpochKeptByEvaluation DEF EvaluateBatch
<1>4. ASSUME NEW v \in Accuracy, EvaluateEnds(v) PROVE BestEpochKept'
  BY <1>4, BestEpochKeptByEvaluation DEF EvaluateEnds
<1>5. CASE LoadFails
  <2>1. CASE cell = "evaluate"
    BY <1>5, <2>1, BestEpochKeptByEvaluation DEF LoadFails
  <2>2. CASE cell = "score"
    BY <1>5, <2>2 DEF LoadFails
  <2> QED
    BY <1>5, <2>1, <2>2 DEF LoadFails
<1>6. ASSUME NEW first \in {"train", "reload"}, OpenSession(first) PROVE BestEpochKept'
  BY <1>6 DEF OpenSession
<1>7. ASSUME NEW v \in Accuracy, TrainEpoch(v) \/ TrainFails PROVE BestEpochKept'
  BY <1>7 DEF TrainEpoch, TrainFails
<1>8. ASSUME NEW downloaded \in BOOLEAN, SaveCheckpoint(downloaded) PROVE BestEpochKept'
  BY <1>8 DEF SaveCheckpoint
<1>9. CASE UploadStarts \/ UploadEnds \/ Reload \/ SkipReload
  BY <1>9 DEF UploadStarts, UploadEnds, Reload, SkipReload, StartScoring
<1>10. ASSUME NEW right \in SUBSET Batch, ScoreBatch(right) PROVE BestEpochKept'
  BY <1>10 DEF ScoreBatch
<1>11. CASE ScoreBatchFails \/ ScoreEnds
  BY <1>11 DEF ScoreBatchFails, ScoreEnds
<1>12. CASE SelectGolden
  BY <1>12 DEF SelectGolden
<1>13. CASE ExtractGolden \/ ExportWeights \/ WriteCard \/ SessionEnds
  BY <1>13 DEF ExtractGolden, ExportWeights, WriteCard, SessionEnds
<1> QED
  BY <1>2, <1>3, <1>4, <1>5, <1>6, <1>7, <1>8, <1>9, <1>10, <1>11, <1>12, <1>13
     DEF NotebookNext

------------------------------------------------------------------------------
(* Scoring and the golden set.                                             *)

LEMMA BatchScored ==
  ASSUME NotebookInv, NEW right \in SUBSET Batch, ScoreBatch(right)
  PROVE  IndexIsPosition'
<1> DEFINE entry == [p \in Batch |-> [idx |-> cursor + (p - stream.at), pos |-> p,
                                      right |-> p \in right]]
           new == {entry[p] : p \in Batch}
<1>1. /\ NotebookTypeOK /\ IndexIsPosition
      /\ cursor \in Nat /\ stream.at \in Nat
      /\ cell = "score" /\ cell' = "score" /\ Batch # {} /\ Advance
  BY DEF NotebookInv, NotebookTypeOK, ScoreBatch, Loadable, Exhausted
<1>2. Batch \subseteq Positions /\ Batch \subseteq Nat /\ \A p \in Batch : p < SplitSize
  BY DEF Batch, Positions
<1>3. cursor = stream.at
  <2>1. stream.at < SplitSize
    BY <1>1, <1>2 DEF Batch
  <2> QED
    BY <2>1, <1>1 DEF IndexIsPosition
<1>4. IsFiniteSet(new)
  <2>1. DOMAIN entry = Batch /\ entry = [p \in Batch |-> entry[p]] /\ IsFiniteSet(Batch)
    BY <1>1, BatchFacts
  <2> HIDE DEF entry
  <2> QED
    BY <2>1, ImageFinite
<1>5. scored' = scored \cup new /\ cursor' = cursor + Cardinality(Batch)
  <2>1. new = {[idx |-> cursor + (p - stream.at), pos |-> p, right |-> p \in right]
                 : p \in Batch}
    OBVIOUS
  <2> HIDE DEF new
  <2> QED
    BY <2>1 DEF ScoreBatch
<1>6. \A s \in new : s.idx = s.pos
  <2>1. ASSUME NEW p \in Batch PROVE entry[p].idx = entry[p].pos
    BY <1>1, <1>2, <1>3
  <2> QED
    BY <2>1
<1>7. cursor' = stream'.at \/ stream'.at >= SplitSize
  <2>1. stream'.at = stream.at + BatchSize
    BY <1>1, AdvanceTypes
  <2>2. stream.at + BatchSize <= SplitSize => Cardinality(Batch) = BatchSize
    BY <1>1, BatchFacts
  <2> QED
    BY <2>1, <2>2, <1>1, <1>3, <1>5
<1> HIDE DEF new
<1>8. IsFiniteSet(scored') /\ \A s \in scored' : s.idx = s.pos
  BY <1>1, <1>4, <1>5, <1>6, FS_Union DEF IndexIsPosition
<1> QED
  BY <1>7, <1>8 DEF IndexIsPosition

LEMMA IndexIsPositionKept ==
  ASSUME NotebookInv, NotebookNext
  PROVE  IndexIsPosition'
<1>1. /\ IndexIsPosition /\ NotebookTypeOK
      /\ cursor \in Nat /\ stream \in [at : Nat, open : BOOLEAN]
  BY DEF NotebookInv, NotebookTypeOK
<1> USE DEF IndexIsPosition, loaderVars
<1>2. ASSUME NEW right \in SUBSET Batch, ScoreBatch(right) PROVE IndexIsPosition'
  BY <1>2, BatchScored
<1>3. CASE ScoreBatchFails
  <2>1. stream'.at = stream.at + BatchSize
    BY <1>1, <1>3, AdvanceTypes DEF ScoreBatchFails
  <2>2. Batch # {} /\ Batch \subseteq Nat /\ \A p \in Batch : p < SplitSize
    BY <1>3 DEF ScoreBatchFails, Loadable, Exhausted, Batch, Positions
  <2>3. stream.at < SplitSize
    BY <1>1, <2>2 DEF Batch
  <2>4. cursor = stream.at
    BY <1>1, <1>3, <2>3 DEF ScoreBatchFails
  <2> QED
    BY <1>1, <1>3, <2>1, <2>4 DEF ScoreBatchFails
<1>4. CASE LoadFails
  <2>1. stream'.at = stream.at
    BY <1>1, <1>4 DEF LoadFails
  <2> QED
    BY <1>1, <1>4, <2>1 DEF LoadFails
<1>5. ASSUME ResetLoader PROVE IndexIsPosition'
  BY <1>5, FS_EmptySet DEF ResetLoader, NewStream
<1>6. CASE TrainEnds \/ Reload \/ SkipReload \/ ExportWeights \/ SessionEnds
  BY <1>5, <1>6 DEF TrainEnds, Reload, SkipReload, StartScoring, ExportWeights, SessionEnds
<1>7. ASSUME NEW v \in Accuracy, EvaluateEnds(v) PROVE IndexIsPosition'
  BY <1>5, <1>7 DEF EvaluateEnds
<1>8. ASSUME UNCHANGED scored, cell' # "score" PROVE IndexIsPosition'
  BY <1>1, <1>8
<1>9. ASSUME NEW first \in {"train", "reload"}, OpenSession(first) PROVE IndexIsPosition'
  BY <1>8, <1>9 DEF OpenSession
<1>10. ASSUME NEW v \in Accuracy, TrainEpoch(v) \/ TrainFails PROVE IndexIsPosition'
  BY <1>8, <1>10 DEF TrainEpoch, TrainFails
<1>11. ASSUME NEW counted \in BOOLEAN, EvaluateBatch(counted) PROVE IndexIsPosition'
  BY <1>8, <1>11 DEF EvaluateBatch
<1>12. ASSUME NEW downloaded \in BOOLEAN, SaveCheckpoint(downloaded) PROVE IndexIsPosition'
  BY <1>8, <1>12 DEF SaveCheckpoint
<1>13. CASE UploadStarts \/ UploadEnds \/ ScoreEnds
  BY <1>8, <1>13 DEF UploadStarts, UploadEnds, ScoreEnds
<1>14. CASE SelectGolden
  BY <1>8, <1>14 DEF SelectGolden
<1>15. CASE ExtractGolden \/ WriteCard
  BY <1>8, <1>15 DEF ExtractGolden, WriteCard
<1> QED
  BY <1>2, <1>3, <1>4, <1>6, <1>7, <1>9, <1>10, <1>11, <1>12, <1>13, <1>14, <1>15
     DEF NotebookNext

(* Picks and golden images stay with the scores they were made from.       *)
LEMMA PicksLeft ==
  ASSUME NotebookInv, UNCHANGED <<picks, golden>>,
         \/ UNCHANGED scored /\ cell' \in {"extract", "weights"}
         \/ cell \notin {"extract", "weights"}
  PROVE  PicksAreCorrect' /\ GoldenWasScored'
<1>1. PicksAreCorrect /\ GoldenWasScored
  BY DEF NotebookInv
<1>2. CASE UNCHANGED scored /\ cell' \in {"extract", "weights"}
  BY <1>1, <1>2 DEF PicksAreCorrect, GoldenWasScored, Correct, Idx
<1>3. CASE cell \notin {"extract", "weights"}
  BY <1>1, <1>3 DEF PicksAreCorrect, GoldenWasScored, NoPicks
<1> QED
  BY <1>2, <1>3

LEMMA GoldenKept ==
  ASSUME NotebookInv, NotebookNext
  PROVE  PicksAreCorrect' /\ GoldenWasScored'
<1>1. CASE SelectGolden
  <2>1. /\ picks'.targets \subseteq Idx(Correct)
        /\ UNCHANGED <<scored, golden>> /\ cell = "select" /\ cell' = "extract"
    BY <1>1, SelectTypes DEF SelectGolden, loaderVars
  <2>2. golden = {}
    BY <2>1 DEF NotebookInv, PicksAreCorrect
  <2> QED
    BY <2>1, <2>2 DEF PicksAreCorrect, GoldenWasScored, Idx, Correct
<1>2. CASE ExtractGolden
  <2>1. PICK t \in Targets : golden' = t.at \cap Readable
    BY <1>2 DEF ExtractGolden
  <2>2. UNCHANGED <<scored, picks>> /\ cell = "extract" /\ cell' = "weights"
    BY <1>2 DEF ExtractGolden, loaderVars
  <2>3. golden' \subseteq Idx(Correct)
    BY <2>1, ExtractTargets
  <2>4. Idx(Correct) = {s.pos : s \in Correct}
    BY DEF NotebookInv, IndexIsPosition, Idx, Correct
  <2>5. GoldenWasScored'
    BY <2>2, <2>3, <2>4 DEF GoldenWasScored, Correct
  <2> QED
    BY <2>2, <2>5 DEF NotebookInv, PicksAreCorrect, Idx, Correct
<1>3. ASSUME ResetGolden PROVE PicksAreCorrect' /\ GoldenWasScored'
  BY <1>3 DEF ResetGolden, PicksAreCorrect, GoldenWasScored, NoPicks
<1>4. CASE ExportWeights \/ SessionEnds
  BY <1>3, <1>4 DEF ExportWeights, SessionEnds
<1> USE DEF goldenVars
<1>5. ASSUME NEW first \in {"train", "reload"}, OpenSession(first)
      PROVE  PicksAreCorrect' /\ GoldenWasScored'
  BY <1>5, PicksLeft DEF OpenSession
<1>6. ASSUME NEW v \in Accuracy, TrainEpoch(v) \/ TrainFails
      PROVE  PicksAreCorrect' /\ GoldenWasScored'
  BY <1>6, PicksLeft DEF TrainEpoch, TrainFails
<1>7. ASSUME NEW v \in Accuracy, EvaluateEnds(v)
      PROVE  PicksAreCorrect' /\ GoldenWasScored'
  BY <1>7, PicksLeft DEF EvaluateEnds
<1>8. ASSUME NEW counted \in BOOLEAN, EvaluateBatch(counted)
      PROVE  PicksAreCorrect' /\ GoldenWasScored'
  BY <1>8, PicksLeft DEF EvaluateBatch
<1>9. ASSUME NEW downloaded \in BOOLEAN, SaveCheckpoint(downloaded)
      PROVE  PicksAreCorrect' /\ GoldenWasScored'
  BY <1>9, PicksLeft DEF SaveCheckpoint
<1>10. CASE TrainEnds \/ LoadFails \/ UploadStarts \/ UploadEnds
  BY <1>10, PicksLeft DEF TrainEnds, LoadFails, UploadStarts, UploadEnds
<1>11. CASE Reload \/ SkipReload \/ ScoreBatchFails \/ ScoreEnds
  BY <1>11, PicksLeft DEF Reload, SkipReload, ScoreBatchFails, ScoreEnds
<1>12. ASSUME NEW right \in SUBSET Batch, ScoreBatch(right)
       PROVE  PicksAreCorrect' /\ GoldenWasScored'
  BY <1>12, PicksLeft DEF ScoreBatch
<1>13. CASE WriteCard
  BY <1>13, PicksLeft DEF WriteCard
<1> QED
  BY <1>1, <1>2, <1>4, <1>5, <1>6, <1>7, <1>8, <1>9, <1>10, <1>11, <1>12, <1>13
     DEF NotebookNext

------------------------------------------------------------------------------
(* Checkpoints and what is exported.                                       *)

(* A step that stores no checkpoint and exports nothing.                   *)
LEMMA CheckpointsLeft ==
  ASSUME NotebookInv, UNCHANGED <<checkpoint, upload, kept, exported>>
  PROVE  CheckpointsOfThemselves' /\ ExportSound'
  BY DEF NotebookInv, CheckpointsOfThemselves, ExportSound, OfItself, Sound

(* The checkpoint goes with the model as long as neither changes, and      *)
(* there is none in training.                                              *)
LEMMA CheckpointWithModel ==
  ASSUME NotebookInv,
         \/ cell' \in Training \cup {"closed"} /\ checkpoint' = Missing
         \/ /\ cell' \notin Training \cup {"closed"} /\ UNCHANGED checkpoint
            /\ model' = model \/ model' = Untrained
  PROVE  CheckpointOfModel'
  BY DEF NotebookInv, CheckpointOfModel

LEMMA CheckpointsKept ==
  ASSUME NotebookInv, NotebookNext
  PROVE  CheckpointsOfThemselves' /\ CheckpointOfModel' /\ ExportSound'
<1> DEFINE Kept == CheckpointsOfThemselves' /\ CheckpointOfModel' /\ ExportSound'
<1>1. /\ ModelKnown /\ CheckpointsOfThemselves /\ CheckpointOfModel /\ ExportSound
      /\ cell \in Training \cup {"closed"} => checkpoint = Missing
      /\ upload \in Checkpoint \cup {Missing, Partial}
  BY DEF NotebookInv, CheckpointOfModel, NotebookTypeOK
<1> USE DEF diskVars
<1>2. ASSUME NEW first \in {"train", "reload"}, OpenSession(first) PROVE Kept
  <2>1. cell' \in {"train", "reload"} /\ checkpoint = Missing /\ model' = Untrained
    BY <1>1, <1>2 DEF OpenSession
  <2> QED
    BY <1>2, <2>1, CheckpointsLeft, CheckpointWithModel DEF OpenSession, Training
<1>3. ASSUME NEW v \in Accuracy, TrainEpoch(v) \/ TrainFails PROVE Kept
  <2>1. cell = "train" /\ cell' = "train" /\ checkpoint = Missing
    BY <1>1, <1>3 DEF TrainEpoch, TrainFails, Training
  <2> QED
    BY <1>3, <2>1, CheckpointsLeft, CheckpointWithModel DEF TrainEpoch, TrainFails, Training
<1>4. CASE TrainEnds
  <2>1. cell' = "evaluate" /\ checkpoint = Missing
    BY <1>1, <1>4 DEF TrainEnds, Training
  <2> QED
    BY <1>4, <2>1, CheckpointsLeft, CheckpointWithModel DEF TrainEnds, Training
<1>5. ASSUME NEW counted \in BOOLEAN, EvaluateBatch(counted) PROVE Kept
  <2>1. cell' = "evaluate" /\ checkpoint = Missing
    BY <1>1, <1>5 DEF EvaluateBatch, Training
  <2> QED
    BY <1>5, <2>1, CheckpointsLeft, CheckpointWithModel DEF EvaluateBatch, Training
<1>6. ASSUME NEW v \in Accuracy, EvaluateEnds(v) PROVE Kept
  <2>1. cell' = "save" /\ checkpoint = Missing
    BY <1>1, <1>6 DEF EvaluateEnds, Training
  <2> QED
    BY <1>6, <2>1, CheckpointsLeft, CheckpointWithModel DEF EvaluateEnds, Training
<1>7. ASSUME NEW downloaded \in BOOLEAN, SaveCheckpoint(downloaded) PROVE Kept
  <2>1. /\ checkpoint' = [weights |-> model, metrics |-> measured]
        /\ measured.of = model /\ cell' = "reload"
        /\ UNCHANGED <<model, upload, exported>>
        /\ kept' = checkpoint' \/ kept' = kept
    BY <1>1, <1>7 DEF SaveCheckpoint, ModelKnown
  <2>2. OfItself(checkpoint') /\ checkpoint'.metrics.of = model
    BY <2>1 DEF OfItself
  <2>3. CheckpointsOfThemselves'
    BY <1>1, <2>1, <2>2 DEF CheckpointsOfThemselves, OfItself
  <2>4. CheckpointOfModel'
    BY <2>1, <2>2 DEF CheckpointOfModel, Training
  <2>5. ExportSound'
    BY <1>1, <2>1 DEF ExportSound, Sound
  <2> QED
    BY <2>3, <2>4, <2>5
<1>8. CASE UploadStarts \/ UploadEnds
  <2>1. /\ cell = "reload" /\ UNCHANGED <<cell, model, checkpoint, kept, exported>>
        /\ upload' = Partial \/ upload' = kept
    BY <1>8 DEF UploadStarts, UploadEnds
  <2>2. CheckpointsOfThemselves'
    BY <1>1, <2>1 DEF CheckpointsOfThemselves, OfItself
  <2>3. CheckpointOfModel'
    BY <2>1, CheckpointWithModel DEF Training
  <2>4. ExportSound'
    BY <1>1, <2>1 DEF ExportSound, Sound
  <2> QED
    BY <2>2, <2>3, <2>4
<1>9. CASE Reload
  <2>1. CASE upload \in {Missing, Partial}
    <3>1. /\ UNCHANGED <<checkpoint, upload, kept, exported>> /\ model' = Untrained
          /\ cell' = "score"
      BY <1>9, <2>1 DEF Reload, StartScoring
    <3> QED
      BY <3>1, CheckpointsLeft, CheckpointWithModel DEF Training
  <2>2. CASE upload \notin {Missing, Partial}
    <3>1. /\ model' = upload.weights /\ checkpoint' = upload /\ cell' = "score"
          /\ UNCHANGED <<upload, kept, exported>>
      BY <1>9, <2>2 DEF Reload, StartScoring
    <3>2. OfItself(upload)
      BY <1>1, <2>2 DEF CheckpointsOfThemselves
    <3>3. CheckpointsOfThemselves'
      BY <1>1, <3>1, <3>2 DEF CheckpointsOfThemselves, OfItself
    <3>4. CheckpointOfModel'
      BY <3>1, <3>2 DEF CheckpointOfModel, OfItself, Training
    <3>5. ExportSound'
      BY <1>1, <3>1 DEF ExportSound, Sound
    <3> QED
      BY <3>3, <3>4, <3>5
  <2> QED
    BY <2>1, <2>2
<1>10. CASE SkipReload
  BY <1>10, CheckpointsLeft, CheckpointWithModel DEF SkipReload, StartScoring, Training
<1>11. CASE LoadFails
  <2>1. CASE cell = "evaluate"
    <3>1. cell' = "evaluate" /\ checkpoint = Missing
      BY <1>1, <1>11, <2>1 DEF LoadFails, Training
    <3> QED
      BY <1>11, <3>1, CheckpointsLeft, CheckpointWithModel DEF LoadFails, Training
  <2>2. CASE cell = "score"
    BY <1>11, <2>2, CheckpointsLeft, CheckpointWithModel DEF LoadFails, Training
  <2> QED
    BY <1>11, <2>1, <2>2 DEF LoadFails
<1>12. ASSUME NEW right \in SUBSET Batch, ScoreBatch(right) PROVE Kept
  BY <1>12, CheckpointsLeft, CheckpointWithModel DEF ScoreBatch, Training
<1>13. CASE ScoreBatchFails \/ ScoreEnds
  BY <1>13, CheckpointsLeft, CheckpointWithModel DEF ScoreBatchFails, ScoreEnds, Training
<1>14. CASE SelectGolden
  BY <1>14, CheckpointsLeft, CheckpointWithModel DEF SelectGolden, Training
<1>15. CASE ExtractGolden \/ ExportWeights
  BY <1>15, CheckpointsLeft, CheckpointWithModel DEF ExtractGolden, ExportWeights, Training
<1>16. CASE WriteCard
  <2>1. /\ checkpoint # Missing /\ weightsFile = model /\ cell = "card"
        /\ exported' = [weights |-> weightsFile,
                        card |-> [sha |-> weightsFile, metrics |-> checkpoint.metrics]]
        /\ UNCHANGED <<cell, model, checkpoint, upload, kept>>
    BY <1>1, <1>16 DEF WriteCard, ModelKnown
  <2>2. model # Untrained => checkpoint.metrics.of = model
    BY <1>1, <2>1 DEF CheckpointOfModel
  <2>3. ExportSound'
    BY <2>1, <2>2 DEF ExportSound, Sound
  <2>4. CheckpointsOfThemselves'
    BY <1>1, <2>1 DEF CheckpointsOfThemselves, OfItself
  <2>5. CheckpointOfModel'
    BY <2>1, CheckpointWithModel DEF Training
  <2> QED
    BY <2>3, <2>4, <2>5
<1>17. CASE SessionEnds
  <2>1. /\ checkpoint' = Missing /\ upload' = Missing /\ cell' = "closed"
        /\ UNCHANGED <<kept, exported>>
    BY <1>17 DEF SessionEnds
  <2>2. CheckpointsOfThemselves' /\ ExportSound'
    BY <1>1, <2>1 DEF CheckpointsOfThemselves, ExportSound, OfItself, Sound
  <2> QED
    BY <2>1, <2>2, CheckpointWithModel
<1> QED
  BY <1>2, <1>3, <1>4, <1>5, <1>6, <1>7, <1>8, <1>9, <1>10, <1>11, <1>12, <1>13,
     <1>14, <1>15, <1>16, <1>17 DEF NotebookNext

------------------------------------------------------------------------------
LEMMA NotebookStep ==
  ASSUME NotebookInv, NotebookNext
  PROVE  NotebookInv'
  BY NotebookTypes, ModelKnownKept, BestTrackedKept, BestEpochKeptKept,
     IndexIsPositionKept, GoldenKept, CheckpointsKept DEF NotebookInv

(* A step of the rest of the system: nothing of the notebook changes, or   *)
(* what only it reads is forgotten.                                        *)
LEMMA NotebookRests ==
  ASSUME NotebookInv, UNCHANGED notebookVars
  PROVE  NotebookInv'
<1> USE DEF NotebookInv, notebookVars, trainVars, loaderVars, goldenVars, diskVars
<1>1. NotebookTypeOK' /\ ModelKnown' /\ BestTracked' /\ BestEpochKept'
  BY DEF NotebookTypeOK, ModelKnown, BestTracked, BestEpochKept, FirstBest
<1>2. IndexIsPosition' /\ PicksAreCorrect' /\ GoldenWasScored'
  BY DEF IndexIsPosition, PicksAreCorrect, GoldenWasScored, Idx, Correct
<1>3. CheckpointsOfThemselves' /\ CheckpointOfModel' /\ ExportSound'
  BY DEF CheckpointsOfThemselves, CheckpointOfModel, ExportSound, OfItself, Sound
<1> QED
  BY <1>1, <1>2, <1>3

------------------------------------------------------------------------------
(* The inductive invariant.                                                *)

(* A card of trained weights holds their metrics, wherever it was copied.  *)
FilesSound(f) == f.card # Missing => Sound(f.card)

CardsSound == /\ FilesSound(tree) /\ FilesSound(image)
              /\ \A p \in D!Proc : FilesSound(proc[p].files)

(* Who is past the boot checks still has the files they looked at.         *)
CheckedModel ==
  \A p \in D!Proc : proc[p].stage \in {"queue", "serving"} => D!BootChecks(proc[p].files)

(* While nothing but compose acts, the one-shot services have done what    *)
(* the gates rely on, and the table is as the api loaded it.               *)
ComposeOrder ==
  undisturbed =>
    /\ seed = "done" => secrets
    /\ migrate \in {"running", "done"} => seed = "done"
    /\ migrate = "done" => revision = HeadRevision
    /\ proc["api"].stage # "down" => migrate = "done"
    /\ proc["api"].stage \in {"classifier", "serving"} => proc["api"].policy = rules

StackInv ==
  /\ D!DeploymentTypeOK
  /\ CardsSound
  /\ CheckedModel
  /\ SeedsFollowRevision
  /\ ComposeOrder

ReleaseInv == NotebookInv /\ StackInv

USE ReleaseAssumption

(* Deployment brings its own copy of the definitions of Access.            *)
LEMMA SameAccess ==
  /\ D!HeadRevision = HeadRevision /\ D!Revision = Revision /\ D!Rule = Rule
  /\ \A r : D!Inserted(r) = Inserted(r) /\ D!SeededBy(r) = SeededBy(r)
  /\ \A r, S : D!Deleted(r, S) = Deleted(r, S)
<1>1. D!HeadRevision = HeadRevision /\ D!Revision = Revision
  BY DEF D!HeadRevision, HeadRevision, D!Revision, Revision
<1>2. D!Rules0002 = Rules0002 /\ D!Rules0005 = Rules0005 /\ D!Rules0006 = Rules0006
      /\ D!Rules0007 = Rules0007
  BY DEF D!Rules0002, Rules0002, D!Rules0005, Rules0005, D!Rules0006, Rules0006,
         D!Rules0007, Rules0007, D!P, P
<1>3. \A r : D!Inserted(r) = Inserted(r)
  BY <1>2 DEF D!Inserted, Inserted
<1>4. \A r : D!SeededBy(r) = SeededBy(r)
  BY <1>3 DEF D!SeededBy, SeededBy
<1>5. \A r, S : D!Deleted(r, S) = Deleted(r, S)
  BY DEF D!Deleted, Deleted
<1> QED
  BY <1>1, <1>2, <1>3, <1>4, <1>5 DEF D!Rule, Rule

LEMMA ShippedSound == ShippedCard \in Card /\ Sound(ShippedCard) /\ ShippedCard.sha = Shipped
<1>1. Readable \subseteq Positions
  BY DEF Readable
<1> QED
  BY <1>1, WeightsNumbers DEF ShippedCard, Card, Metrics, Sound

LEMMA ReleaseInitInv == Init => ReleaseInv
<1> SUFFICES ASSUME Init PROVE ReleaseInv
  OBVIOUS
<1>1. NotebookInv
  BY NotebookInitInv DEF Init
<1>2. /\ tree \in [weights : {Pointer, ShippedCard.sha}, card : {ShippedCard}]
      /\ image = D!NoFiles /\ up = {} /\ secrets = FALSE /\ bucket = FALSE
      /\ revision \in Volumes /\ rules = SeededBy(revision) /\ intact = TRUE
      /\ seed = "idle" /\ migrate = "idle" /\ started = {} /\ undisturbed = FALSE
      /\ proc = [p \in D!Proc |-> D!NoProc]
      /\ faults = 0
  BY SameAccess DEF Init, D!DeploymentInit
<1>3. Volumes \subseteq Revision /\ MaxFaults \in Nat
  BY SameAccess DEF D!Parameters
<1>4. D!DeploymentTypeOK
  <2>1. rules \subseteq Rule
    BY <1>2, <1>3, SeededRules DEF Revision
  <2>2. tree \in D!Files /\ image \in D!Files
    BY <1>2, ShippedSound, WeightsNumbers DEF D!Files, D!WeightsFile, D!CardFile, D!NoFiles, Card
  <2>3. D!NoProc \in [stage : D!Stage, files : D!Files, policy : SUBSET Rule]
    BY <1>2, <2>2 DEF D!NoProc, D!Stage
  <2>4. proc \in [D!Proc -> [stage : D!Stage, files : D!Files, policy : SUBSET Rule]]
    BY <1>2, <2>3
  <2>5. faults \in 0..MaxFaults
    BY <1>2, <1>3
  <2>6. revision \in D!Revision /\ rules \subseteq D!Rule
    BY <1>2, <1>3, <2>1, SameAccess
  <2>7. /\ up \subseteq D!Infra /\ secrets \in BOOLEAN /\ bucket \in BOOLEAN
        /\ intact \in BOOLEAN /\ seed \in D!OneShot /\ migrate \in D!OneShot
        /\ started \subseteq D!Proc /\ undisturbed \in BOOLEAN
    BY <1>2 DEF D!OneShot
  <2>8. proc \in [D!Proc -> [stage : D!Stage, files : D!Files, policy : SUBSET D!Rule]]
    BY <2>4, SameAccess
  <2> QED
    BY <2>2, <2>5, <2>6, <2>7, <2>8 DEF D!DeploymentTypeOK
<1>5. CardsSound
  BY <1>2, ShippedSound DEF CardsSound, FilesSound, D!NoFiles, D!NoProc
<1>6. CheckedModel /\ SeedsFollowRevision /\ ComposeOrder
  BY <1>2 DEF CheckedModel, SeedsFollowRevision, ComposeOrder, D!NoProc
<1> QED
  BY <1>1, <1>4, <1>5, <1>6 DEF ReleaseInv, StackInv

------------------------------------------------------------------------------
(* The steps of the stack.                                                 *)

ProcState == [stage : D!Stage, files : D!Files, policy : SUBSET Rule]

(* The types, with the definitions of Access under their own names.        *)
LEMMA StackTypes ==
  ASSUME StackInv
  PROVE  /\ tree \in D!Files /\ image \in D!Files
         /\ up \subseteq D!Infra /\ secrets \in BOOLEAN /\ bucket \in BOOLEAN
         /\ revision \in Revision /\ rules \subseteq Rule /\ intact \in BOOLEAN
         /\ seed \in D!OneShot /\ migrate \in D!OneShot
         /\ proc \in [D!Proc -> ProcState]
         /\ started \subseteq D!Proc /\ undisturbed \in BOOLEAN /\ faults \in 0..MaxFaults
  BY SameAccess DEF StackInv, D!DeploymentTypeOK, ProcState

LEMMA StackTypesAfter ==
  ASSUME tree' \in D!Files, image' \in D!Files,
         up' \subseteq D!Infra, secrets' \in BOOLEAN, bucket' \in BOOLEAN,
         revision' \in Revision, rules' \subseteq Rule, intact' \in BOOLEAN,
         seed' \in D!OneShot, migrate' \in D!OneShot,
         proc' \in [D!Proc -> ProcState],
         started' \subseteq D!Proc, undisturbed' \in BOOLEAN, faults' \in 0..MaxFaults
  PROVE  D!DeploymentTypeOK'
  BY SameAccess DEF D!DeploymentTypeOK, ProcState

LEMMA FilesLeft ==
  ASSUME StackInv, UNCHANGED <<tree, image, proc>>
  PROVE  CardsSound' /\ CheckedModel'
  BY DEF StackInv, CardsSound, CheckedModel

LEMMA TableLeft ==
  ASSUME StackInv, UNCHANGED <<revision, rules, intact>>
  PROVE  SeedsFollowRevision'
  BY DEF StackInv, SeedsFollowRevision

(* One process goes to another state.                                      *)
LEMMA ProcessMoves ==
  ASSUME StackInv, UNCHANGED <<tree, image>>,
         NEW p \in D!Proc, NEW state \in ProcState, FilesSound(state.files),
         state.stage \in {"queue", "serving"} => D!BootChecks(state.files),
         proc' = [proc EXCEPT ![p] = state]
  PROVE  /\ proc' \in [D!Proc -> ProcState] /\ CardsSound' /\ CheckedModel'
         /\ proc'[p] = state /\ \A q \in D!Proc : q # p => proc'[q] = proc[q]
<1>1. /\ proc' \in [D!Proc -> ProcState]
      /\ proc'[p] = state /\ \A q \in D!Proc : q # p => proc'[q] = proc[q]
  BY StackTypes
<1>2. CardsSound /\ CheckedModel
  BY DEF StackInv
<1>3. CardsSound'
  <2>1. \A q \in D!Proc : FilesSound(proc'[q].files)
    BY <1>1, <1>2 DEF CardsSound
  <2> QED
    BY <1>2, <2>1 DEF CardsSound
<1>4. CheckedModel'
  BY <1>1, <1>2 DEF CheckedModel
<1> QED
  BY <1>1, <1>3, <1>4

(* A check of a start-up passes or ends the process.  (The order of the    *)
(* stages of the api is what the last two premises are about.)             *)
LEMMA CheckSteps ==
  ASSUME StackInv, NEW p \in D!Proc, NEW here \in D!Stage, NEW ok \in BOOLEAN,
         NEW next \in D!Stage, D!Check(p, here, ok, next), here # "down",
         ok /\ next \in {"queue", "serving"} => D!BootChecks(proc[p].files),
         p = "api" /\ next \in {"classifier", "serving"} => here = "classifier"
  PROVE  StackInv'
<1> DEFINE state == IF ok THEN [proc[p] EXCEPT !.stage = next]
                          ELSE [proc[p] EXCEPT !.stage = "down", !.policy = {}]
<1>1. /\ proc[p].stage = here
      /\ proc' = [proc EXCEPT ![p] = state]
      /\ UNCHANGED <<tree, image, up, secrets, bucket, revision, rules, intact, seed,
                     migrate, started, undisturbed, faults>>
  BY DEF D!Check, D!Exit, D!infraVars, D!dbVars, D!composeVars
<1>2. proc[p] \in ProcState /\ FilesSound(proc[p].files) /\ ComposeOrder
  BY StackTypes DEF StackInv, CardsSound
<1>3. /\ state \in ProcState /\ state.files = proc[p].files
      /\ ok => state.stage = next /\ state.policy = proc[p].policy
      /\ ~ok => state.stage = "down"
  BY <1>2 DEF ProcState, D!Stage
<1> HIDE DEF state
<1>4. /\ proc' \in [D!Proc -> ProcState] /\ CardsSound' /\ CheckedModel'
      /\ proc'[p] = state /\ \A q \in D!Proc : q # p => proc'[q] = proc[q]
  BY <1>1, <1>2, <1>3, ProcessMoves
<1>5. D!DeploymentTypeOK'
  BY <1>1, <1>4, StackTypes, StackTypesAfter
<1>6. SeedsFollowRevision'
  BY <1>1, TableLeft
<1>7. ComposeOrder'
  <2>1. CASE p = "api"
    BY <2>1, <1>1, <1>2, <1>3, <1>4 DEF ComposeOrder
  <2>2. CASE p # "api"
    <3>1. proc'["api"] = proc["api"]
      BY <2>2, <1>4 DEF D!Proc
    <3> QED
      BY <3>1, <1>1, <1>2 DEF ComposeOrder
  <2> QED
    BY <2>1, <2>2
<1> QED
  BY <1>4, <1>5, <1>6, <1>7 DEF StackInv

LEMMA BootKeeps == StackInv /\ D!BootSteps => StackInv'
<1> SUFFICES ASSUME StackInv, D!BootSteps PROVE StackInv'
  OBVIOUS
<1>1. /\ "api" \in D!Proc /\ "worker" \in D!Proc
      /\ {"secrets", "limiter", "count", "policy", "classifier", "queue", "serving"}
           \subseteq D!Stage
      /\ secrets \in BOOLEAN
  BY StackTypes DEF D!Proc, D!Stage
<1>2. CASE D!ResolveSecrets
  BY <1>1, <1>2, CheckSteps DEF D!ResolveSecrets
<1>3. CASE D!InitLimiter
  <2> DEFINE ok == "redis" \in up
  <2>1. D!Check("api", "limiter", ok, "count") /\ ok \in BOOLEAN
    BY <1>3 DEF D!InitLimiter
  <2> HIDE DEF ok
  <2> QED
    BY <1>1, <2>1, CheckSteps
<1>4. CASE D!CountPolicy
  BY <1>1, <1>4, CheckSteps DEF D!CountPolicy
<1>5. CASE D!LoadPolicy
  <2> DEFINE state == IF "db" \in up THEN [proc["api"] EXCEPT !.stage = "classifier",
                                                              !.policy = rules]
                        ELSE [proc["api"] EXCEPT !.stage = "down", !.policy = {}]
  <2>1. /\ proc["api"].stage = "policy" /\ proc' = [proc EXCEPT !["api"] = state]
        /\ UNCHANGED <<tree, image, up, secrets, bucket, revision, rules, intact, seed,
                       migrate, started, undisturbed, faults>>
    BY <1>5 DEF D!LoadPolicy, D!Exit, D!infraVars, D!dbVars, D!composeVars
  <2>2. proc["api"] \in ProcState /\ FilesSound(proc["api"].files) /\ ComposeOrder
        /\ rules \subseteq Rule
    BY <1>1, StackTypes DEF StackInv, CardsSound
  <2>3. /\ state \in ProcState /\ state.files = proc["api"].files
        /\ \/ state.stage = "classifier" /\ state.policy = rules
           \/ state.stage = "down"
    BY <2>2, SameAccess DEF ProcState, D!Stage
  <2> HIDE DEF state
  <2>4. /\ proc' \in [D!Proc -> ProcState] /\ CardsSound' /\ CheckedModel'
        /\ proc'["api"] = state
    BY <1>1, <2>1, <2>2, <2>3, ProcessMoves
  <2>5. D!DeploymentTypeOK'
    BY <2>1, <2>4, StackTypes, StackTypesAfter
  <2>6. SeedsFollowRevision'
    BY <2>1, TableLeft
  <2>7. ComposeOrder'
    BY <2>1, <2>2, <2>3, <2>4 DEF ComposeOrder
  <2> QED
    BY <2>4, <2>5, <2>6, <2>7 DEF StackInv
<1>6. CASE D!StartWorker
  <2>1. proc["worker"].stage = "queue" => D!BootChecks(proc["worker"].files)
    BY <1>1 DEF StackInv, CheckedModel
  <2> DEFINE ok == "redis" \in up
  <2>2. /\ D!Check("worker", "queue", ok, "serving") /\ ok \in BOOLEAN
        /\ proc["worker"].stage = "queue"
    BY <1>6 DEF D!StartWorker, D!Check
  <2> HIDE DEF ok
  <2> QED
    BY <1>1, <2>1, <2>2, CheckSteps
<1>7. ASSUME NEW p \in D!Proc, D!CheckClassifier(p) PROVE StackInv'
  <2> DEFINE next == IF p = "api" THEN "serving" ELSE "queue"
             ok   == D!BootChecks(proc[p].files)
  <2>1. D!Check(p, "classifier", ok, next)
    BY <1>7 DEF D!CheckClassifier
  <2>2. ok \in BOOLEAN
    BY DEF D!BootChecks, D!ClassifierPresent, D!ClassifierSha, D!ClassifierTop1
  <2>3. next \in D!Stage
    BY <1>1
  <2> HIDE DEF ok, next
  <2>4. ok => D!BootChecks(proc[p].files)
    BY DEF ok
  <2> QED
    BY <1>1, <2>1, <2>2, <2>3, <2>4, CheckSteps
<1> QED
  BY <1>2, <1>3, <1>4, <1>5, <1>6, <1>7 DEF D!BootSteps

LEMMA ComposeKeeps == StackInv /\ D!ComposeSteps => StackInv'
<1> SUFFICES ASSUME StackInv, D!ComposeSteps PROVE StackInv'
  OBVIOUS
<1> USE DEF D!infraVars, D!dbVars, D!composeVars
<1>1. ComposeOrder /\ SeedsFollowRevision
  BY DEF StackInv
<1>2. CASE D!SeedRuns
  <2>1. CardsSound' /\ CheckedModel'
    BY <1>2, FilesLeft DEF D!SeedRuns
  <2>2. SeedsFollowRevision'
    BY <1>2, TableLeft DEF D!SeedRuns
  <2>3. D!DeploymentTypeOK'
    BY <1>2, StackTypes, StackTypesAfter DEF D!SeedRuns, D!OneShot
  <2>4. ComposeOrder'
    BY <1>1, <1>2 DEF D!SeedRuns, ComposeOrder
  <2> QED
    BY <2>1, <2>2, <2>3, <2>4 DEF StackInv
<1>3. CASE D!MigrateStarts
  <2>1. CardsSound' /\ CheckedModel'
    BY <1>3, FilesLeft DEF D!MigrateStarts
  <2>2. SeedsFollowRevision'
    BY <1>3, TableLeft DEF D!MigrateStarts
  <2>3. D!DeploymentTypeOK'
    BY <1>3, StackTypes, StackTypesAfter DEF D!MigrateStarts, D!OneShot
  <2>4. ComposeOrder'
    BY <1>1, <1>3 DEF D!MigrateStarts, ComposeOrder
  <2> QED
    BY <2>1, <2>2, <2>3, <2>4 DEF StackInv
<1>4. CASE D!MigrateEnds
  <2>1. /\ UNCHANGED <<tree, image, up, secrets, bucket, intact, seed, started,
                       undisturbed, proc, faults>>
        /\ migrate = "running"
        /\ \/ /\ migrate' = "done" /\ revision' = HeadRevision
              /\ rules' = rules \cup UNION {Inserted(r) : r \in (revision + 1)..HeadRevision}
           \/ migrate' = "failed" /\ UNCHANGED <<revision, rules>>
    BY <1>4, SameAccess DEF D!MigrateEnds
  <2>2. revision \in Revision /\ rules \subseteq Rule
    BY StackTypes
  <2>3. CardsSound' /\ CheckedModel'
    BY <2>1, FilesLeft
  <2>4. rules' \subseteq Rule /\ revision' \in Revision
    <3>1. \A r \in (revision + 1)..HeadRevision : Inserted(r) \subseteq Rule
      BY <2>2, InsertedRules DEF Revision, HeadRevision
    <3> QED
      BY <2>1, <2>2, <3>1 DEF Revision, HeadRevision
  <2>5. SeedsFollowRevision'
    <3>1. CASE migrate' = "done"
      <4>1. ASSUME intact PROVE rules' = SeededBy(HeadRevision)
        BY <4>1, <1>1, <2>1, <2>2, <3>1, UpgradeSeeds DEF SeedsFollowRevision
      <4> QED
        BY <4>1, <2>1, <3>1 DEF SeedsFollowRevision
    <3>2. CASE migrate' = "failed"
      BY <2>1, <3>2, TableLeft
    <3> QED
      BY <2>1, <3>1, <3>2
  <2>6. D!DeploymentTypeOK'
    BY <2>1, <2>4, StackTypes, StackTypesAfter DEF D!OneShot
  <2>7. ComposeOrder'
    BY <1>1, <2>1 DEF ComposeOrder
  <2> QED
    BY <2>3, <2>5, <2>6, <2>7 DEF StackInv
<1>5. ASSUME NEW p \in D!Proc, D!ComposeStarts(p) PROVE StackInv'
  <2> DEFINE state == [proc[p] EXCEPT !.stage = D!FirstStage(p)]
  <2>1. /\ proc' = [proc EXCEPT ![p] = state]
        /\ started' = started \cup {p}
        /\ p = "api" => migrate = "done"
        /\ UNCHANGED <<tree, image, up, secrets, bucket, revision, rules, intact, seed,
                       migrate, undisturbed, faults>>
    BY <1>5 DEF D!ComposeStarts, D!Gate
  <2>2. D!FirstStage(p) \in {"secrets", "classifier"} /\ (p = "api" => D!FirstStage(p) = "secrets")
    BY DEF D!FirstStage
  <2>3. /\ state \in ProcState /\ state.stage = D!FirstStage(p)
        /\ FilesSound(state.files)
    <3>1. proc[p] \in ProcState /\ FilesSound(proc[p].files)
      BY StackTypes DEF StackInv, CardsSound
    <3> QED
      BY <2>2, <3>1 DEF ProcState, D!Stage
  <2> HIDE DEF state
  <2>4. /\ proc' \in [D!Proc -> ProcState] /\ CardsSound' /\ CheckedModel'
        /\ proc'[p] = state /\ \A q \in D!Proc : q # p => proc'[q] = proc[q]
    BY <2>1, <2>2, <2>3, ProcessMoves
  <2>5. D!DeploymentTypeOK'
    BY <2>1, <2>4, StackTypes, StackTypesAfter
  <2>6. SeedsFollowRevision'
    BY <2>1, TableLeft
  <2>7. ComposeOrder'
    <3>1. CASE p = "api"
      BY <3>1, <1>1, <2>1, <2>2, <2>3, <2>4 DEF ComposeOrder
    <3>2. CASE p # "api"
      <4>1. proc'["api"] = proc["api"]
        BY <3>2, <2>4 DEF D!Proc
      <4> QED
        BY <4>1, <1>1, <2>1 DEF ComposeOrder
    <3> QED
      BY <3>1, <3>2
  <2> QED
    BY <2>4, <2>5, <2>6, <2>7 DEF StackInv
<1> QED
  BY <1>2, <1>3, <1>4, <1>5 DEF D!ComposeSteps

(* Faults and the hand of the operator.                                    *)
LEMMA OperateKeeps == StackInv /\ D!OperateSteps => StackInv'
<1> SUFFICES ASSUME StackInv, D!OperateSteps PROVE StackInv'
  OBVIOUS
<1> USE DEF D!infraVars, D!dbVars, D!composeVars
<1>1. /\ ComposeOrder /\ SeedsFollowRevision /\ CardsSound
      /\ image \in D!Files /\ rules \subseteq Rule /\ revision \in Revision
  BY StackTypes DEF StackInv
<1>2. D!Happens => faults' \in 0..MaxFaults
  BY StackTypes, SameAccess DEF D!Happens, D!Parameters
<1>3. CASE D!ComposeUp
  <2>1. /\ UNCHANGED <<tree, image, secrets, bucket, revision, rules, intact>>
        /\ up' = D!Infra /\ seed' = "waiting" /\ migrate' = "waiting" /\ started' = {}
        /\ undisturbed' = TRUE /\ faults' \in 0..MaxFaults
        /\ proc' = [p \in D!Proc |-> [D!NoProc EXCEPT !.files = image]]
    BY <1>2, <1>3 DEF D!ComposeUp
  <2>2. [D!NoProc EXCEPT !.files = image] \in ProcState
    BY <1>1 DEF D!NoProc, D!Stage, ProcState
  <2>3. \A p \in D!Proc : proc'[p].files = image /\ proc'[p].stage = "down"
    BY <2>1 DEF D!NoProc
  <2>4. proc' \in [D!Proc -> ProcState]
    BY <2>1, <2>2
  <2>5. CardsSound' /\ CheckedModel'
    BY <1>1, <2>1, <2>3 DEF CardsSound, CheckedModel
  <2>6. D!DeploymentTypeOK'
    BY <2>1, <2>4, StackTypes, StackTypesAfter DEF D!OneShot
  <2>7. SeedsFollowRevision' /\ ComposeOrder'
    BY <2>1, <2>3, TableLeft DEF ComposeOrder, D!Proc
  <2> QED
    BY <2>5, <2>6, <2>7 DEF StackInv
<1>4. CASE D!EnsureBucket
  <2>1. CardsSound' /\ CheckedModel'
    BY <1>4, FilesLeft DEF D!EnsureBucket
  <2>2. SeedsFollowRevision'
    BY <1>4, TableLeft DEF D!EnsureBucket
  <2>3. D!DeploymentTypeOK'
    BY <1>4, StackTypes, StackTypesAfter DEF D!EnsureBucket
  <2>4. ComposeOrder'
    BY <1>1, <1>4 DEF D!EnsureBucket, ComposeOrder
  <2> QED
    BY <2>1, <2>2, <2>3, <2>4 DEF StackInv
<1>5. CASE D!ReloadPolicy
  <2> DEFINE state == [proc["api"] EXCEPT !.policy = rules]
  <2>1. /\ proc["api"].stage = "serving" /\ proc' = [proc EXCEPT !["api"] = state]
        /\ UNCHANGED <<tree, image, up, secrets, bucket, revision, rules, intact, seed,
                       migrate, started, undisturbed, faults>>
    BY <1>5 DEF D!ReloadPolicy
  <2>2. /\ "api" \in D!Proc /\ proc["api"] \in ProcState /\ FilesSound(proc["api"].files)
        /\ D!BootChecks(proc["api"].files)
    BY <1>1, <2>1, StackTypes DEF StackInv, CardsSound, CheckedModel, D!Proc
  <2>3. /\ state \in ProcState /\ state.files = proc["api"].files
        /\ state.stage = "serving" /\ state.policy = rules
    BY <1>1, <2>1, <2>2, SameAccess DEF ProcState
  <2> HIDE DEF state
  <2>4. /\ proc' \in [D!Proc -> ProcState] /\ CardsSound' /\ CheckedModel'
        /\ proc'["api"] = state
    BY <2>1, <2>2, <2>3, ProcessMoves
  <2>5. D!DeploymentTypeOK'
    BY <2>1, <2>4, StackTypes, StackTypesAfter
  <2>6. SeedsFollowRevision' /\ ComposeOrder'
    BY <1>1, <2>1, <2>3, <2>4, TableLeft DEF ComposeOrder
  <2> QED
    BY <2>4, <2>5, <2>6 DEF StackInv
<1>6. ASSUME NEW s \in D!Infra, D!InfraStops(s) PROVE StackInv'
  <2>1. /\ UNCHANGED <<tree, image, bucket, revision, rules, intact, seed, migrate, started,
                       proc>>
        /\ up' = up \ {s} /\ faults' \in 0..MaxFaults
        /\ secrets' = (secrets /\ s # "vault")
        /\ undisturbed' = (undisturbed /\ s # "vault")
    BY <1>2, <1>6 DEF D!InfraStops
  <2>2. CardsSound' /\ CheckedModel' /\ SeedsFollowRevision'
    BY <2>1, FilesLeft, TableLeft
  <2>3. D!DeploymentTypeOK'
    BY <2>1, StackTypes, StackTypesAfter
  <2>4. ComposeOrder'
    BY <1>1, <2>1 DEF ComposeOrder
  <2> QED
    BY <2>2, <2>3, <2>4 DEF StackInv
<1>7. ASSUME NEW s \in D!Infra, D!InfraRestarts(s) PROVE StackInv'
  <2>1. CardsSound' /\ CheckedModel' /\ SeedsFollowRevision'
    BY <1>7, FilesLeft, TableLeft DEF D!InfraRestarts
  <2>2. D!DeploymentTypeOK'
    BY <1>7, StackTypes, StackTypesAfter DEF D!InfraRestarts
  <2>3. ComposeOrder'
    BY <1>1, <1>7 DEF D!InfraRestarts, ComposeOrder
  <2> QED
    BY <2>1, <2>2, <2>3 DEF StackInv
(* What disturbs the stack: compose's order is not claimed of it any more. *)
<1>8. ~undisturbed' => ComposeOrder'
  BY DEF ComposeOrder
<1>9. ASSUME NEW p \in D!Proc, D!ProcessDies(p) PROVE StackInv'
  <2> DEFINE state == [proc[p] EXCEPT !.stage = "down", !.policy = {}]
  <2>1. /\ proc' = [proc EXCEPT ![p] = state] /\ undisturbed' = FALSE
        /\ faults' \in 0..MaxFaults
        /\ UNCHANGED <<tree, image, up, secrets, bucket, revision, rules, intact, seed,
                       migrate, started>>
    BY <1>2, <1>9 DEF D!ProcessDies, D!Exit
  <2>2. proc[p] \in ProcState /\ FilesSound(proc[p].files)
    BY <1>1, StackTypes DEF CardsSound
  <2>3. state \in ProcState /\ state.stage = "down" /\ state.files = proc[p].files
    BY <2>2 DEF ProcState, D!Stage
  <2> HIDE DEF state
  <2>4. proc' \in [D!Proc -> ProcState] /\ CardsSound' /\ CheckedModel'
    BY <2>1, <2>2, <2>3, ProcessMoves
  <2>5. D!DeploymentTypeOK' /\ SeedsFollowRevision'
    BY <2>1, <2>4, StackTypes, StackTypesAfter, TableLeft
  <2> QED
    BY <1>8, <2>1, <2>4, <2>5 DEF StackInv
<1>10. ASSUME NEW p \in D!Proc, D!StartByHand(p) PROVE StackInv'
  <2> DEFINE state == [stage |-> D!FirstStage(p), files |-> image, policy |-> {}]
  <2>1. /\ proc' = [proc EXCEPT ![p] = state] /\ undisturbed' = FALSE
        /\ faults' \in 0..MaxFaults
        /\ UNCHANGED <<tree, image, up, secrets, bucket, revision, rules, intact, seed,
                       migrate, started>>
    BY <1>2, <1>10 DEF D!StartByHand
  <2>2. /\ state \in ProcState /\ state.stage \in {"secrets", "classifier"}
        /\ FilesSound(state.files)
    BY <1>1 DEF ProcState, D!Stage, D!FirstStage, CardsSound
  <2> HIDE DEF state
  <2>3. proc' \in [D!Proc -> ProcState] /\ CardsSound' /\ CheckedModel'
    BY <2>1, <2>2, ProcessMoves
  <2>4. D!DeploymentTypeOK' /\ SeedsFollowRevision'
    BY <2>1, <2>3, StackTypes, StackTypesAfter, TableLeft
  <2> QED
    BY <1>8, <2>1, <2>3, <2>4 DEF StackInv
<1>11. CASE D!ComposeDown
  <2>1. /\ UNCHANGED <<tree, image, bucket, revision, rules, intact>>
        /\ up' = {} /\ secrets' = FALSE /\ seed' = "idle" /\ migrate' = "idle"
        /\ started' = {} /\ undisturbed' = FALSE /\ faults' \in 0..MaxFaults
        /\ proc' = [p \in D!Proc |-> D!NoProc]
    BY <1>2, <1>11 DEF D!ComposeDown
  <2>2. D!NoFiles \in D!Files
    BY DEF D!NoFiles, D!Files, D!WeightsFile, D!CardFile
  <2>3. D!NoProc \in ProcState /\ FilesSound(D!NoProc.files) /\ D!NoProc.stage = "down"
    BY <2>2 DEF D!NoProc, D!Stage, ProcState, FilesSound, D!NoFiles
  <2>4. proc' \in [D!Proc -> ProcState] /\ CardsSound' /\ CheckedModel'
    BY <1>1, <2>1, <2>3 DEF CardsSound, CheckedModel
  <2>5. D!DeploymentTypeOK' /\ SeedsFollowRevision'
    BY <2>1, <2>4, StackTypes, StackTypesAfter, TableLeft DEF D!OneShot
  <2> QED
    BY <1>8, <2>1, <2>4, <2>5 DEF StackInv
<1>12. CASE D!SeedByHand
  <2>1. /\ UNCHANGED <<tree, image, up, bucket, revision, rules, intact, seed, migrate,
                       started, proc>>
        /\ secrets' = TRUE /\ undisturbed' = FALSE /\ faults' \in 0..MaxFaults
    BY <1>2, <1>12 DEF D!SeedByHand
  <2>2. CardsSound' /\ CheckedModel' /\ SeedsFollowRevision'
    BY <2>1, FilesLeft, TableLeft
  <2>3. D!DeploymentTypeOK'
    BY <2>1, StackTypes, StackTypesAfter
  <2> QED
    BY <1>8, <2>1, <2>2, <2>3 DEF StackInv
<1>13. CASE D!TruncateRules
  <2>1. /\ UNCHANGED <<tree, image, up, secrets, bucket, revision, seed, migrate, started,
                       proc>>
        /\ rules' = {} /\ intact' = FALSE /\ undisturbed' = FALSE
        /\ faults' \in 0..MaxFaults
    BY <1>2, <1>13 DEF D!TruncateRules
  <2>2. CardsSound' /\ CheckedModel' /\ SeedsFollowRevision'
    BY <2>1, FilesLeft DEF SeedsFollowRevision
  <2>3. D!DeploymentTypeOK'
    BY <2>1, StackTypes, StackTypesAfter
  <2> QED
    BY <1>8, <2>1, <2>2, <2>3 DEF StackInv
<1>14. CASE D!Downgrade
  <2>1. /\ UNCHANGED <<tree, image, up, secrets, bucket, intact, seed, migrate, started,
                       proc>>
        /\ rules' = rules \ Deleted(revision, rules) /\ revision' = revision - 1
        /\ revision > 2 /\ undisturbed' = FALSE /\ faults' \in 0..MaxFaults
    BY <1>2, <1>14, SameAccess DEF D!Downgrade
  <2>2. CardsSound' /\ CheckedModel'
    BY <2>1, FilesLeft
  <2>3. SeedsFollowRevision'
    BY <1>1, <2>1, DowngradeSeeds DEF SeedsFollowRevision
  <2>4. rules' \subseteq Rule /\ revision' \in Revision
    BY <1>1, <2>1 DEF Revision, HeadRevision
  <2>5. D!DeploymentTypeOK'
    BY <2>1, <2>4, StackTypes, StackTypesAfter
  <2> QED
    BY <1>8, <2>1, <2>2, <2>3, <2>5 DEF StackInv
<1> QED
  BY <1>3, <1>4, <1>5, <1>6, <1>7, <1>9, <1>10, <1>11, <1>12, <1>13, <1>14
     DEF D!OperateSteps, D!Disturbances

(* Files reach the tree and the image.                                     *)
LEMMA TreeKeeps ==
  ASSUME StackInv, tree' \in D!Files, image' \in {image, tree}, FilesSound(tree'),
         UNCHANGED <<up, secrets, bucket, revision, rules, intact, seed, migrate, started,
                     undisturbed, proc, faults>>
  PROVE  StackInv'
<1>1. CardsSound' /\ CheckedModel'
  BY DEF StackInv, CardsSound, CheckedModel
<1>2. SeedsFollowRevision'
  BY TableLeft
<1>3. D!DeploymentTypeOK'
  BY StackTypes, StackTypesAfter
<1>4. ComposeOrder'
  BY DEF StackInv, ComposeOrder
<1> QED
  BY <1>1, <1>2, <1>3, <1>4 DEF StackInv

LEMMA WeightsReachTree ==
  ASSUME StackInv, NEW w \in Weights, D!CopyWeights(w)
  PROVE  StackInv'
<1>1. tree \in D!Files /\ FilesSound(tree)
  BY StackTypes DEF StackInv, CardsSound
<1>2. tree' = [tree EXCEPT !.weights = w]
  BY DEF D!CopyWeights
<1>3. tree' \in D!Files /\ tree'.card = tree.card
  BY <1>1, <1>2 DEF D!Files, D!WeightsFile
<1>4. FilesSound(tree')
  BY <1>1, <1>3 DEF FilesSound
<1> QED
  BY <1>3, <1>4, TreeKeeps DEF D!CopyWeights, D!infraVars, D!dbVars, D!composeVars

LEMMA CardReachesTree ==
  ASSUME StackInv, NEW c \in Card, Sound(c), D!CopyCard(c)
  PROVE  StackInv'
<1>1. tree \in D!Files
  BY StackTypes
<1>2. tree' = [tree EXCEPT !.card = c]
  BY DEF D!CopyCard
<1>3. tree' \in D!Files /\ tree'.card = c
  BY <1>1, <1>2 DEF D!Files, D!CardFile, Card
<1>4. FilesSound(tree')
  BY <1>3 DEF FilesSound
<1> QED
  BY <1>3, <1>4, TreeKeeps DEF D!CopyCard, D!infraVars, D!dbVars, D!composeVars

(* What the notebook forgets when the operator leaves it.                  *)
LEMMA LeaveKeeps == NotebookInv /\ Leave => NotebookInv'
<1> SUFFICES ASSUME NotebookInv, Leave PROVE NotebookInv'
  OBVIOUS
<1>1. NotebookTypeOK'
  <2>1. NotebookTypeOK /\ kept' = Missing /\ passes' = 1
        /\ UNCHANGED <<cell, model, history, best, bestState, noImprove, stream, seen, scored,
                       cursor, measured, checkpoint, upload, picks, golden, weightsFile,
                       exported>>
    BY DEF NotebookInv, Leave, trainVars, loaderVars, goldenVars, Shipped
  <2> QED
    BY <2>1, BoundAssumption DEF NotebookTypeOK
<1> USE DEF NotebookInv, Leave, trainVars, loaderVars, goldenVars
<1>2. ModelKnown' /\ BestTracked' /\ BestEpochKept'
  BY DEF ModelKnown, BestTracked, BestEpochKept, FirstBest
<1>3. IndexIsPosition' /\ PicksAreCorrect' /\ GoldenWasScored'
  BY DEF IndexIsPosition, PicksAreCorrect, GoldenWasScored, Idx, Correct
<1>4. CheckpointsOfThemselves' /\ CheckpointOfModel' /\ ExportSound'
  BY DEF CheckpointsOfThemselves, CheckpointOfModel, ExportSound, OfItself, Sound
<1> QED
  BY <1>1, <1>2, <1>3, <1>4

LEMMA ReleaseStep == ReleaseInv /\ [Next]_releaseVars => ReleaseInv'
<1> SUFFICES ASSUME ReleaseInv, [Next]_releaseVars PROVE ReleaseInv'
  OBVIOUS
<1>1. NotebookInv /\ StackInv
  BY DEF ReleaseInv
<1>2. UNCHANGED notebookVars => NotebookInv'
  BY <1>1, NotebookRests
<1>3. UNCHANGED deploymentVars => StackInv'
  <2> SUFFICES ASSUME UNCHANGED deploymentVars PROVE StackInv'
    OBVIOUS
  <2>1. tree \in D!Files /\ FilesSound(tree)
    BY <1>1, StackTypes DEF StackInv, CardsSound
  <2> QED
    BY <1>1, <2>1, TreeKeeps DEF deploymentVars
<1>4. CASE Train
  BY <1>1, <1>3, <1>4, NotebookStep DEF Train, ReleaseInv
<1>5. exported # Missing => /\ exported.weights \in Weights /\ exported.card \in Card
                            /\ Sound(exported.card)
  BY <1>1 DEF NotebookInv, NotebookTypeOK, ExportSound
<1>6. CASE UnzipWeights
  BY <1>1, <1>5, <1>6, WeightsReachTree, LeaveKeeps DEF UnzipWeights, ReleaseInv
<1>7. CASE UnzipCard
  BY <1>1, <1>5, <1>7, CardReachesTree, LeaveKeeps DEF UnzipCard, ReleaseInv
<1>8. CASE FetchWeights
  BY <1>1, <1>2, <1>8, WeightsReachTree, WeightsNumbers DEF FetchWeights, ReleaseInv
<1>9. CASE BuildImage
  <2>1. tree \in D!Files /\ FilesSound(tree)
    BY <1>1, StackTypes DEF StackInv, CardsSound
  <2>2. /\ tree' = tree /\ image' = tree
        /\ UNCHANGED <<up, secrets, bucket, revision, rules, intact, seed, migrate, started,
                       undisturbed, proc, faults>>
    BY <1>9 DEF BuildImage, D!BuildImage, D!infraVars, D!dbVars, D!composeVars
  <2>3. StackInv'
    BY <1>1, <2>1, <2>2, TreeKeeps
  <2> QED
    BY <1>1, <1>9, <2>3, LeaveKeeps DEF BuildImage, ReleaseInv
<1>10. CASE Compose
  BY <1>1, <1>2, <1>10, ComposeKeeps DEF Compose, ReleaseInv
<1>11. CASE Boot
  BY <1>1, <1>2, <1>11, BootKeeps DEF Boot, ReleaseInv
<1>12. CASE Operate
  BY <1>1, <1>2, <1>12, OperateKeeps DEF Operate, ReleaseInv
<1>13. CASE UNCHANGED releaseVars
  BY <1>2, <1>3, <1>13 DEF releaseVars, ReleaseInv
<1> QED
  BY <1>4, <1>6, <1>7, <1>8, <1>9, <1>10, <1>11, <1>12, <1>13 DEF Next

------------------------------------------------------------------------------
(* What the invariant says.                                                *)

LEMMA ServedByInv == ReleaseInv => ServedModelWasMeasured
<1> SUFFICES ASSUME ReleaseInv, NEW p \in D!Proc, proc[p].stage = "serving"
             PROVE  LET f == proc[p].files IN
                      /\ f.weights \in Weights /\ f.card.sha = f.weights
                      /\ f.card.metrics.top1 >= MinTop1
                      /\ f.weights # Untrained => f.card.metrics.of = f.weights
  BY DEF ServedModelWasMeasured
<1> DEFINE f == proc[p].files
<1>1. /\ f \in D!Files /\ FilesSound(f) /\ D!BootChecks(f)
  BY StackTypes DEF ReleaseInv, StackInv, CardsSound, CheckedModel, ProcState
<1> HIDE DEF f
<1>2. f.card # Missing /\ f.weights # Missing /\ f.weights = f.card.sha
  BY <1>1 DEF D!BootChecks, D!ClassifierPresent, D!ClassifierSha
<1>3. f.card.sha \in Weights /\ f.card.metrics \in Metrics
  BY <1>1, <1>2 DEF D!Files, D!CardFile
<1>4. f.card.metrics.top1 >= MinTop1
  BY <1>1, <1>3 DEF D!BootChecks, D!ClassifierTop1
<1>5. f.weights # Untrained => f.card.metrics.of = f.weights
  BY <1>1, <1>2 DEF FilesSound, Sound
<1> QED
  BY <1>2, <1>3, <1>4, <1>5 DEF f

LEMMA PrivilegeByInv == ReleaseInv => LeastPrivilege
<1> SUFFICES ASSUME ReleaseInv PROVE LeastPrivilege
  OBVIOUS
<1>1. proc["api"].policy \in SUBSET Rule
  BY StackTypes, SameAccess DEF ReleaseInv, ProcState, D!Proc
<1> QED
  BY <1>1, AuditorReads, ReviewerReviews DEF LeastPrivilege

LEMMA ReadyByInv == ReleaseInv => HealthyStackIsReady
<1> SUFFICES ASSUME ReleaseInv, D!Healthy, undisturbed
             PROVE  /\ secrets /\ revision = HeadRevision
                    /\ intact => \A call \in Route \ {RelabelRoute} :
                                   Allowed(proc["api"].policy, "admin", call)
  BY DEF HealthyStackIsReady
<1>1. ComposeOrder /\ SeedsFollowRevision /\ proc["api"].stage = "serving"
  BY DEF ReleaseInv, StackInv, D!Healthy
<1>2. secrets /\ revision = HeadRevision /\ proc["api"].policy = rules
  BY <1>1 DEF ComposeOrder
<1>3. intact => rules = SeededBy(HeadRevision)
  BY <1>1, <1>2 DEF SeedsFollowRevision
<1> QED
  BY <1>2, <1>3, AdminAdmitted

------------------------------------------------------------------------------
THEOREM ReleaseInvariant == Spec => []ReleaseInv
<1>1. Init => ReleaseInv
  BY ReleaseInitInv
<1>2. ReleaseInv /\ [Next]_releaseVars => ReleaseInv'
  BY ReleaseStep
<1> QED
  BY <1>1, <1>2, PTL DEF Spec

(* Every variable of the notebook and of the stack keeps its type.         *)
THEOREM TypeCorrect == Spec => []TypeOK
<1>1. ReleaseInv => TypeOK
  BY DEF ReleaseInv, StackInv, NotebookInv, TypeOK
<1> QED
  BY <1>1, ReleaseInvariant, PTL

(* The weights that are evaluated and checkpointed are those of the best   *)
(* epoch, however long training runs and how often it fails.               *)
THEOREM BestEpoch == Spec => []BestEpochKept
<1>1. ReleaseInv => BestEpochKept
  BY DEF ReleaseInv, NotebookInv
<1> QED
  BY <1>1, ReleaseInvariant, PTL

(* The golden images are images the exported model got right when it was   *)
(* scored, for any split, batch size and pattern of failed batches.        *)
THEOREM GoldenScored == Spec => []GoldenWasScored
<1>1. ReleaseInv => GoldenWasScored
  BY DEF ReleaseInv, NotebookInv
<1> QED
  BY <1>1, ReleaseInvariant, PTL

(* What serves has passed the boot checks, and trained weights are served  *)
(* with the accuracy measured on them.                                     *)
THEOREM ServedMeasured == Spec => []ServedModelWasMeasured
<1>1. ReleaseInv => ServedModelWasMeasured
  BY ServedByInv
<1> QED
  BY <1>1, ReleaseInvariant, PTL

(* The table of rules is that of its revision after any upgrades and       *)
(* downgrades.                                                             *)
THEOREM SeedsFollow == Spec => []SeedsFollowRevision
<1>1. ReleaseInv => SeedsFollowRevision
  BY DEF ReleaseInv, StackInv
<1> QED
  BY <1>1, ReleaseInvariant, PTL

(* No role exceeds its part under any policy an api can have loaded.       *)
THEOREM LeastPrivileged == Spec => []LeastPrivilege
<1>1. ReleaseInv => LeastPrivilege
  BY PrivilegeByInv
<1> QED
  BY <1>1, ReleaseInvariant, PTL

(* A healthy stack nobody interfered with is the one compose was to bring  *)
(* up, from any revision of the database.                                  *)
THEOREM HealthyIsReady == Spec => []HealthyStackIsReady
<1>1. ReleaseInv => HealthyStackIsReady
  BY ReadyByInv
<1> QED
  BY <1>1, ReleaseInvariant, PTL
==============================================================================
