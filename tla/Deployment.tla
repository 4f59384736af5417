----------------------------- MODULE Deployment -----------------------------
(***************************************************************************)
(* The stack of docker-compose.yml from the repository tree to a serving   *)
(* api and worker: the image built from the tree, the infrastructure with  *)
(* what it remembers, the one-shot services vault-seed and migrate, the    *)
(* lifespan of the api with its refuse-to-start checks, the boot checks of *)
(* the worker, /health, and what an operator does by hand.                 *)
(*                                                                         *)
(* The api and the worker have no restart policy; the infrastructure has   *)
(* one, and Vault in dev mode forgets its secrets when it restarts.        *)
(***************************************************************************)
EXTENDS Access

CONSTANTS
  Sha,          \* the digests of weights files; a file is known by its digest
  MetricsOf,    \* what a model card says of the weights beside their digest
  Top1,         \* Top1[m]: the test accuracy of metrics m
  MinTop1,      \* min_model_top1
  Shipped,      \* the model card committed to the repository
  Absent,       \* a file that is not there
  Pointer,      \* the Git LFS pointer of a file that was not fetched
  Volumes,      \* revisions the database volume may be at to begin with
  MaxFaults     \* bound: faults and steps of the operator beside compose's

(* What a module that instantiates this one assumes of them.               *)
Parameters ==
  /\ Absent \notin Sha \cup [sha : Sha, metrics : MetricsOf] \cup {Pointer}
  /\ Pointer \notin Sha
  /\ Shipped \in [sha : Sha, metrics : MetricsOf]
  /\ \A m \in MetricsOf : Top1[m] \in Nat
  /\ Volumes \subseteq Revision
  /\ MinTop1 \in Nat /\ MaxFaults \in Nat

WeightsFile == Sha \cup {Absent, Pointer}
CardFile    == [sha : Sha, metrics : MetricsOf] \cup {Absent}
Files       == [weights : WeightsFile, card : CardFile]

NoFiles == [weights |-> Absent, card |-> Absent]

Infra   == {"db", "redis", "minio", "vault"}
Proc    == {"api", "worker"}
OneShot == {"idle", "waiting", "running", "done", "failed"}

(* How far the lifespan of the api has come, in the order of main.py; the  *)
(* worker has the stages "classifier" and "queue".                         *)
Stage == {"down", "secrets", "limiter", "count", "policy", "classifier",
          "queue", "serving"}

VARIABLES
  tree,         \* app/classifier/models in the repository
  image,        \* the same directory in dropsort-backend:dev
  up,           \* the infrastructure that runs
  secrets,      \* whether Vault holds the seeded secrets
  bucket,       \* whether MinIO has the documents bucket
  revision,     \* alembic_version
  rules,        \* the table casbin_rule
  intact,       \* no one has emptied that table by hand
  seed,         \* vault-seed
  migrate,      \* migrate
  proc,         \* stage, files and loaded policy of the api and the worker
  started,      \* those of them compose has started since `docker compose up`
  undisturbed,  \* nothing since `docker compose up` but what compose does
  faults        \* faults and steps of the operator so far

infraVars      == <<up, secrets, bucket>>
dbVars         == <<revision, rules, intact>>
composeVars    == <<seed, migrate, started, undisturbed>>
deploymentVars == <<tree, image, infraVars, dbVars, composeVars, proc, faults>>

NoProc == [stage |-> "down", files |-> NoFiles, policy |-> {}]

DeploymentTypeOK ==
  /\ tree \in Files /\ image \in Files
  /\ up \subseteq Infra /\ secrets \in BOOLEAN /\ bucket \in BOOLEAN
  /\ revision \in Revision /\ rules \subseteq Rule /\ intact \in BOOLEAN
  /\ seed \in OneShot /\ migrate \in OneShot
  /\ proc \in [Proc -> [stage : Stage, files : Files, policy : SUBSET Rule]]
  /\ started \subseteq Proc /\ undisturbed \in BOOLEAN /\ faults \in 0..MaxFaults

(* A clone of the repository, its weights fetched from LFS or not, and a   *)
(* database volume of this or of an earlier version of it.                 *)
DeploymentInit ==
  /\ tree \in [weights : {Pointer, Shipped.sha}, card : {Shipped}]
  /\ image = NoFiles
  /\ up = {} /\ secrets = FALSE /\ bucket = FALSE
  /\ revision \in Volumes /\ rules = SeededBy(revision) /\ intact = TRUE
  /\ seed = "idle" /\ migrate = "idle" /\ started = {} /\ undisturbed = FALSE
  /\ proc = [p \in Proc |-> NoProc]
  /\ faults = 0

Running(p) == proc[p].stage # "down"
(* Mutant of Exit: a stage the others do not know.                         *)
ExitUnknown(c) == [c EXCEPT !.stage = "exited", !.policy = {}]
Exit(c)    == [c EXCEPT !.stage = "down", !.policy = {}]

(* A step of the operator, or a fault.                                     *)
Happens == faults < MaxFaults /\ faults' = faults + 1

------------------------------------------------------------------------------
(* The tree: files are copied into it one at a time, or fetched from LFS.  *)

CopyWeights(w) ==
  /\ tree' = [tree EXCEPT !.weights = w]
  /\ UNCHANGED <<image, infraVars, dbVars, composeVars, proc, faults>>

CopyCard(c) ==
  /\ tree' = [tree EXCEPT !.card = c]
  /\ UNCHANGED <<image, infraVars, dbVars, composeVars, proc, faults>>

(* COPY app/ ./app/.                                                       *)
BuildImage ==
  /\ image # tree
  /\ image' = tree
  /\ UNCHANGED <<tree, infraVars, dbVars, composeVars, proc, faults>>

------------------------------------------------------------------------------
(* docker compose up, with its gates.                                      *)

(* The containers are created from the image of this moment.               *)
ComposeUp ==
  /\ image # NoFiles /\ \A p \in Proc : ~Running(p)
  /\ Happens
  /\ up' = Infra
  /\ proc' = [p \in Proc |-> [NoProc EXCEPT !.files = image]]
  /\ seed' = "waiting" /\ migrate' = "waiting" /\ started' = {} /\ undisturbed' = TRUE
  /\ UNCHANGED <<tree, image, secrets, bucket, dbVars>>

(* vault-seed: six `vault kv put` under set -e.                            *)
SeedRuns ==
  /\ seed = "waiting" /\ "vault" \in up
  /\ seed' = "done" /\ secrets' = TRUE
  /\ UNCHANGED <<tree, image, up, bucket, dbVars, migrate, started, undisturbed, proc,
                 faults>>

(* Mutant of MigrateStarts: migrate does not wait for vault-seed.          *)
MigrateStartsUnseeded ==
  /\ migrate = "waiting" /\ {"db", "vault"} \subseteq up
  /\ migrate' = "running"
  /\ UNCHANGED <<tree, image, infraVars, dbVars, seed, started, undisturbed, proc, faults>>

MigrateStarts ==
  /\ migrate = "waiting" /\ seed = "done" /\ {"db", "vault"} \subseteq up
  /\ migrate' = "running"
  /\ UNCHANGED <<tree, image, infraVars, dbVars, seed, started, undisturbed, proc, faults>>

(* alembic upgrade head: every pending revision in one transaction.  0002  *)
(* reads the administrator's first password from Vault.                    *)
Upgradable == "db" \in up /\ (revision < 2 => "vault" \in up /\ secrets)

MigrateEnds ==
  /\ migrate = "running"
  /\ IF Upgradable
       THEN /\ migrate' = "done" /\ revision' = HeadRevision
            /\ rules' = rules \cup UNION {Inserted(r) : r \in (revision + 1)..HeadRevision}
       ELSE migrate' = "failed" /\ UNCHANGED <<revision, rules>>
  /\ UNCHANGED <<tree, image, infraVars, intact, seed, started, undisturbed, proc, faults>>

(* Mutant of Gate: the api does not wait for migrate.                      *)
GateUnmigrated(p) == up = Infra /\ seed = "done"

(* depends_on: both wait for the infrastructure and vault-seed, the api    *)
(* also for migrate.                                                       *)
Gate(p) == up = Infra /\ seed = "done" /\ (p = "api" => migrate = "done")

FirstStage(p) == IF p = "api" THEN "secrets" ELSE "classifier"

ComposeStarts(p) ==
  /\ undisturbed /\ p \notin started /\ ~Running(p) /\ Gate(p)
  /\ started' = started \cup {p}
  /\ proc' = [proc EXCEPT ![p].stage = FirstStage(p)]
  /\ UNCHANGED <<tree, image, infraVars, dbVars, seed, migrate, undisturbed, faults>>

------------------------------------------------------------------------------
(* Start-up of the two processes: a check passes on to the next one, or    *)
(* raises and ends the process for good.                                   *)
Check(p, here, ok, next) ==
  /\ proc[p].stage = here
  /\ proc' = [proc EXCEPT ![p] = IF ok THEN [@ EXCEPT !.stage = next] ELSE Exit(@)]
  /\ UNCHANGED <<tree, image, infraVars, dbVars, composeVars, faults>>

(* resolve_secrets: Vault authenticates the token and has every path.      *)
ResolveSecrets == Check("api", "secrets", "vault" \in up /\ secrets, "limiter")

(* FastAPILimiter.init loads its script into Redis.                        *)
InitLimiter == Check("api", "limiter", "redis" \in up, "count")

(* BOOT-02: the table exists and has a row.                                *)
CountPolicy == Check("api", "count", "db" \in up /\ revision >= 2 /\ rules # {}, "policy")

(* enforcer.load_policy() reads the table in a transaction of its own.     *)
LoadPolicy ==
  /\ proc["api"].stage = "policy"
  /\ proc' = [proc EXCEPT !["api"] = IF "db" \in up
                 THEN [@ EXCEPT !.stage = "classifier", !.policy = rules] ELSE Exit(@)]
  /\ UNCHANGED <<tree, image, infraVars, dbVars, composeVars, faults>>

(* BOOT-03 and BOOT-04, of the api and of the worker.                      *)
ClassifierPresent(f) == f.weights # Absent
(* Mutant of ClassifierSha: the digest is not compared.                    *)
ClassifierShaUnchecked(f) == f.card # Absent
ClassifierSha(f)     == f.card # Absent /\ f.weights = f.card.sha
ClassifierTop1(f)    == f.card # Absent /\ Top1[f.card.metrics] >= MinTop1

BootChecks(f) == ClassifierPresent(f) /\ ClassifierSha(f) /\ ClassifierTop1(f)

CheckClassifier(p) ==
  Check(p, "classifier", BootChecks(proc[p].files), IF p = "api" THEN "serving" ELSE "queue")

(* The worker registers with Redis and listens to its queue.               *)
StartWorker == Check("worker", "queue", "redis" \in up, "serving")

------------------------------------------------------------------------------
(* What happens to a running stack.                                        *)

(* The first file that is stored creates the bucket.                       *)
EnsureBucket ==
  /\ proc["api"].stage = "serving" /\ "minio" \in up /\ ~bucket
  /\ bucket' = TRUE
  /\ UNCHANGED <<tree, image, up, secrets, dbVars, composeVars, proc, faults>>

(* change_role reloads the policy after its commit.                        *)
ReloadPolicy ==
  /\ proc["api"].stage = "serving" /\ "db" \in up /\ SchemaServes(revision)
  /\ proc["api"].policy # rules
  /\ proc' = [proc EXCEPT !["api"].policy = rules]
  /\ UNCHANGED <<tree, image, infraVars, dbVars, composeVars, faults>>

(* A service of the infrastructure stops, and is restarted; dev-mode Vault *)
(* comes back empty.                                                       *)
InfraStops(s) ==
  /\ s \in up /\ Happens
  /\ up' = up \ {s}
  /\ secrets' = (secrets /\ s # "vault")
  /\ undisturbed' = (undisturbed /\ s # "vault")
  /\ UNCHANGED <<tree, image, bucket, dbVars, seed, migrate, started, proc>>

InfraRestarts(s) ==
  /\ up # {} /\ s \in Infra \ up
  /\ up' = up \cup {s}
  /\ UNCHANGED <<tree, image, secrets, bucket, dbVars, composeVars, proc, faults>>

ProcessDies(p) ==
  /\ Running(p) /\ Happens
  /\ proc' = [proc EXCEPT ![p] = Exit(@)]
  /\ undisturbed' = FALSE
  /\ UNCHANGED <<tree, image, infraVars, dbVars, seed, migrate, started>>

------------------------------------------------------------------------------
(* What the operator does by hand.                                         *)

ComposeDown ==
  /\ up # {} /\ Happens
  /\ up' = {} /\ secrets' = FALSE
  /\ proc' = [p \in Proc |-> NoProc]
  /\ seed' = "idle" /\ migrate' = "idle" /\ started' = {} /\ undisturbed' = FALSE
  /\ UNCHANGED <<tree, image, bucket, dbVars>>

(* A container started on its own, without the services it depends on.     *)
StartByHand(p) ==
  /\ up # {} /\ image # NoFiles /\ ~Running(p) /\ Happens
  /\ proc' = [proc EXCEPT ![p] = [stage |-> FirstStage(p), files |-> image, policy |-> {}]]
  /\ undisturbed' = FALSE
  /\ UNCHANGED <<tree, image, infraVars, dbVars, seed, migrate, started>>

SeedByHand ==
  /\ "vault" \in up /\ ~secrets /\ Happens
  /\ secrets' = TRUE /\ undisturbed' = FALSE
  /\ UNCHANGED <<tree, image, up, bucket, dbVars, seed, migrate, started, proc>>

(* The BOOT-02 demonstration of the runbook: TRUNCATE casbin_rule.         *)
TruncateRules ==
  /\ "db" \in up /\ revision >= 2 /\ Happens
  /\ rules' = {} /\ intact' = FALSE /\ undisturbed' = FALSE
  /\ UNCHANGED <<tree, image, infraVars, revision, seed, migrate, started, proc>>

(* alembic downgrade -1.  (Bound: 0002 is not undone, which would drop     *)
(* every table.)                                                           *)
Downgrade ==
  /\ "db" \in up /\ revision > 2 /\ Happens
  /\ rules' = rules \ Deleted(revision, rules)
  /\ revision' = revision - 1 /\ undisturbed' = FALSE
  /\ UNCHANGED <<tree, image, infraVars, intact, seed, migrate, started, proc>>

------------------------------------------------------------------------------
ComposeSteps == \/ SeedRuns \/ MigrateStarts \/ MigrateEnds
                \/ \E p \in Proc : ComposeStarts(p)

BootSteps == \/ ResolveSecrets \/ InitLimiter \/ CountPolicy \/ LoadPolicy
             \/ StartWorker
             \/ \E p \in Proc : CheckClassifier(p)

Disturbances == \/ \E s \in Infra : InfraStops(s)
                \/ \E p \in Proc : ProcessDies(p) \/ StartByHand(p)
                \/ ComposeDown \/ SeedByHand \/ TruncateRules \/ Downgrade

OperateSteps == \/ ComposeUp \/ EnsureBucket \/ ReloadPolicy
                \/ \E s \in Infra : InfraRestarts(s)
                \/ Disturbances

------------------------------------------------------------------------------
(* /health answers 200.                                                    *)
Healthy ==
  /\ proc["api"].stage = "serving"
  /\ {"db", "redis", "vault", "minio"} \subseteq up /\ bucket
  /\ proc["api"].policy # {}
  /\ ClassifierPresent(proc["api"].files)
==============================================================================
