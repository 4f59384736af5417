-------------------------- MODULE DocumentRegistry --------------------------
(***************************************************************************)
(* What the pipeline promises to whoever reads its tables, whatever happens *)
(* to jobs, processes and services in between: a document is registered     *)
(* once, under a batch that holds no other document, and the batch becomes  *)
(* complete in that very step and in no other.  Pipeline implements it with *)
(* rows <- batch (table batches) and docs <- prediction (predictions).      *)
(***************************************************************************)
CONSTANTS Document, Batch, NoBatch

VARIABLES rows,  \* batch -> state of its row
          docs   \* document -> the batch it is registered under

RegistryInit ==
    /\ rows = [b \in Batch |-> "absent"]
    /\ docs = [d \in Document |-> NoBatch]

(* A browser request announces its batch before anything is known of it.    *)
Announce(b) ==
    /\ rows[b] = "absent"
    /\ rows' = [rows EXCEPT ![b] = "received"]
    /\ UNCHANGED docs

Register(b, d) ==
    /\ docs[d] = NoBatch
    /\ \A other \in Document : docs[other] # b
    /\ docs' = [docs EXCEPT ![d] = b]
    /\ rows' = [rows EXCEPT ![b] = "complete"]

(* A failure report overwrites any state, "complete" included.              *)
Fail(b) ==
    /\ rows' = [rows EXCEPT ![b] = "failed"]
    /\ UNCHANGED docs

RegistryNext ==
    \E b \in Batch :
        \/ Announce(b)
        \/ Fail(b)
        \/ \E d \in Document : Register(b, d)

RegistrySpec == RegistryInit /\ [][RegistryNext]_<<rows, docs>>
=============================================================================
