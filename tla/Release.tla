------------------------------- MODULE Release -------------------------------
(***************************************************************************)
(* From training to serving: the notebook produces artifacts, an operator  *)
(* copies them into the repository one file at a time, the image is built  *)
(* from whatever the tree holds, and the stack starts from the image.      *)
(*                                                                         *)
(* Simplifications: no notebook runs once a file has been unzipped or the  *)
(* first image built (what only the notebook reads is then forgotten), and *)
(* a release is prepared while the stack is down.                          *)
(***************************************************************************)
EXTENDS Notebook, Access

CONSTANTS
  ShippedTop1,  \* test_top1 of the model card committed to the repository
  MinTop1, Pointer, Volumes, MaxFaults

VARIABLES tree, image, up, secrets, bucket, revision, rules, intact, seed,
          migrate, started, proc, undisturbed, faults

ShippedCard == [sha |-> Shipped,
                metrics |-> [of |-> Shipped, top1 |-> ShippedTop1, over |-> Readable]]

(* A digest stands for the tensor state it was computed from.              *)
D == INSTANCE Deployment WITH
       Sha <- Weights, MetricsOf <- Metrics, Shipped <- ShippedCard,
       Absent <- Missing, Top1 <- [m \in Metrics |-> m.top1]

ASSUME ReleaseAssumption == ShippedTop1 \in Accuracy /\ D!Parameters

deploymentVars == <<tree, image, up, secrets, bucket, revision, rules, intact, seed,
                    migrate, started, proc, undisturbed, faults>>
releaseVars    == <<notebookVars, deploymentVars>>

TypeOK == NotebookTypeOK /\ D!DeploymentTypeOK

Init == NotebookInit /\ D!DeploymentInit

------------------------------------------------------------------------------
(* The repository is as it was cloned, its LFS files fetched.              *)
Untouched == image = D!NoFiles /\ tree = [weights |-> Shipped, card |-> ShippedCard]

Train ==
  /\ Untouched
  /\ NotebookNext
  /\ UNCHANGED deploymentVars

Leave ==
  /\ cell = "closed" /\ up = {}
  /\ kept' = Missing /\ passes' = Shipped
  /\ UNCHANGED <<cell, model, trainVars, loaderVars, measured, checkpoint, upload,
                 goldenVars, weightsFile, exported>>

(* "Unzip dropsort_classifier_artifacts.zip into app/classifier/": the two *)
(* files arrive one after the other.                                       *)
UnzipWeights ==
  /\ exported # Missing /\ tree.weights # exported.weights
  /\ D!CopyWeights(exported.weights)
  /\ Leave

UnzipCard ==
  /\ exported # Missing /\ tree.card # exported.card
  /\ D!CopyCard(exported.card)
  /\ Leave

(* git lfs pull puts the committed weights in the place of their pointer.  *)
FetchWeights ==
  /\ tree.weights = Pointer
  /\ D!CopyWeights(Shipped)
  /\ UNCHANGED notebookVars

BuildImage == D!BuildImage /\ Leave

(* docker compose, the processes it starts, and what befalls them.         *)
Compose == cell = "closed" /\ D!ComposeSteps /\ UNCHANGED notebookVars
Boot    == cell = "closed" /\ D!BootSteps /\ UNCHANGED notebookVars
Operate == cell = "closed" /\ D!OperateSteps /\ UNCHANGED notebookVars

Next == Train \/ UnzipWeights \/ UnzipCard \/ FetchWeights \/ BuildImage
        \/ Compose \/ Boot \/ Operate

(* docker compose and the processes it starts go on by themselves.         *)
Fairness == WF_deploymentVars(Compose) /\ WF_deploymentVars(Boot)

Spec == Init /\ [][Next]_releaseVars /\ Fairness

------------------------------------------------------------------------------
(* A process that serves runs weights whose digest the model card of the   *)
(* same image names, and whose recorded accuracy reaches the threshold;    *)
(* and that accuracy was measured on these very weights.  (Except for an   *)
(* untrained head: a reload cell that found no complete upload only says   *)
(* so, and the weights of its model are exported beside the metrics of the *)
(* one trained before.)  No order of training, reloading, unzipping and    *)
(* building brings another pair of files past the boot checks.             *)
ServedModelWasMeasured ==
  \A p \in D!Proc : proc[p].stage = "serving" =>
    LET f == proc[p].files IN
      /\ f.weights \in Weights /\ f.card.sha = f.weights
      /\ f.card.metrics.top1 >= MinTop1
      /\ f.weights # Untrained => f.card.metrics.of = f.weights

(* Whatever upgrades, downgrades and restarts of the migration have run,   *)
(* the rule table is the one of its revision, unless it was emptied by     *)
(* hand: no downgrade takes a row another revision inserted.               *)
SeedsFollowRevision == intact => rules = SeededBy(revision)

(* Under every policy an api can have loaded, of whatever revision or of a *)
(* table that was emptied and migrated again: an auditor only reads, and   *)
(* neither predictions nor the administration; a reviewer reaches neither  *)
(* the audit log nor the administration.  keyMatch, which ignores what     *)
(* follows the first star, grants no more than that.                       *)
LeastPrivilege ==
  \A call \in Route :
    /\ Allowed(proc["api"].policy, "auditor", call) =>
         call.act = "GET" /\ call.obj[1] \notin {"admin", "predictions"}
    /\ Allowed(proc["api"].policy, "reviewer", call) =>
         call.obj[1] \notin {"admin", "audit"}

(* PATCH /predictions/{prediction_id}: migration 0007 gives it to the      *)
(* administrator, and tests/test_rbac.py (test_admin_cannot_relabel)       *)
(* expects it to be refused.                                               *)
RelabelRoute == Call(<<"predictions", "prediction_id">>, "PATCH")

(* When compose brought the stack up, and no Vault restart, crash or hand  *)
(* of the operator came between, an api whose /health answers 200 stands   *)
(* on the schema of the present code, with the secrets its workers still   *)
(* have to read, and admits the administrator to every route but that one: *)
(* the health check itself looks at none of these.                         *)
HealthyStackIsReady ==
  D!Healthy /\ undisturbed =>
    /\ secrets /\ revision = HeadRevision
    /\ intact => \A call \in Route \ {RelabelRoute} :
                   Allowed(proc["api"].policy, "admin", call)

(* docker compose up ends with the api and the worker serving, from every  *)
(* revision of the database, when the image holds a model that passes the  *)
(* checks, unless a service of the infrastructure stops, someone           *)
(* interferes, or the rule table had been emptied.                         *)
StackComesUp ==
  (undisturbed /\ seed = "waiting") ~>
    \/ \A p \in D!Proc : proc[p].stage = "serving"
    \/ ~undisturbed \/ ~intact \/ up # D!Infra
    \/ \E p \in D!Proc : ~D!BootChecks(proc[p].files)
==============================================================================
