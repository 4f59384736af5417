----------------------------- MODULE MCAuditLog -----------------------------
EXTENDS AuditLog, TLC

CONSTANTS u1, u2, a1

(* An address passes from one account to another, and both are on the log. *)
MCDone == {
  [kind |-> "remove", actor |-> Seed, target |-> u1],
  [kind |-> "invite", actor |-> Seed, target |-> u2, address |-> a1],
  [kind |-> "change", actor |-> Seed, target |-> u1],
  [kind |-> "change", actor |-> u1, target |-> Document]}

(* Rows of the log are interchangeable.                                    *)
Rows == Permutations(Entry)
=============================================================================
