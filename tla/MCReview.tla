------------------------------ MODULE MCReview ------------------------------
(* Small instances of Review for TLC.                                       *)
EXTENDS Review

CONSTANTS doubtful, confident, \* predictions below and at the threshold
          memo, form           \* labels

MCTop1 == (doubtful :> 4) @@ (confident :> 7)
MCModelLabel == [p \in Prediction |-> memo]
MCTop5 == (doubtful :> {memo, form}) @@ (confident :> {memo, form})

(* Requests are only compared for equality.                                 *)
Symmetry == Permutations(Request)
=============================================================================
