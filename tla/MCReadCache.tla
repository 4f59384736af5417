---------------------------- MODULE MCReadCache ----------------------------
(* Bounds: two reads and two writers in flight, which is what an entry      *)
(* needs to be stored by one, missed by the other and changed in between.   *)
EXTENDS ReadCache, TLC

Symmetry == Permutations(Read) \cup Permutations(Writer)
=============================================================================
