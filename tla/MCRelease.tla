------------------------------ MODULE MCRelease ------------------------------
EXTENDS Release

CONSTANTS memo

(* One class: the golden set is one confident pick, one uncertain pick and *)
(* one extra out of it.                                                    *)
MCClass == [p \in Positions |-> memo]
==============================================================================
