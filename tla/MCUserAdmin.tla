---------------------------- MODULE MCUserAdmin ----------------------------
(* Bounds: three account ids, two of them invited and removed at will, and  *)
(* two requests in flight.                                                  *)
EXTENDS UserAdmin, TLC

Symmetry == Permutations(Request)
=============================================================================
