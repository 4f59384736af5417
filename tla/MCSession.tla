----------------------------- MODULE MCSession -----------------------------
(* Small instances of Session for TLC.                                      *)
EXTENDS Session, TLC

(* Users and slots are only compared for equality.                          *)
Symmetry == Permutations(User) \cup Permutations(Slot)
=============================================================================
