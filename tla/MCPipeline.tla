---------------------------- MODULE MCPipeline -----------------------------
(* Small instances of Pipeline for TLC.                                     *)
EXTENDS Pipeline, TLC

CONSTANTS good, bad, poison

(* Batch ids are drawn at random and never compared but for equality.       *)
Symmetry == Permutations(Batch)

(* For liveness, where TLC cannot use that symmetry: the behaviours that    *)
(* draw the ids in one order, of which all others are renamings.            *)
NextInOrder ==
    /\ Next
    /\ \A b \in issued' \ issued : b = CHOOSE x \in Batch : x \notin issued

OrderedFairSpec == Init /\ [][NextInOrder]_vars /\ Fairness
=============================================================================
