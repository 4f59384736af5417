------------------------------- MODULE Access -------------------------------
(***************************************************************************)
(* Who may call what: the routes guarded by require_permission, the casbin *)
(* rules the migrations insert and delete, and the matcher of model.conf.  *)
(* A path is the sequence of its segments; a parameter of a route, as in   *)
(* /batches/{batch_id}, is the segment with its name, because              *)
(* require_permission hands the route's pattern to the enforcer and not    *)
(* the requested path.                                                     *)
(***************************************************************************)
EXTENDS Naturals, Sequences

Role == {"admin", "reviewer", "auditor"}

(* A rule row with its v0, v1 and v2, and what a route asks of the         *)
(* enforcer.                                                               *)
P(sub, obj, act) == [sub |-> sub, obj |-> obj, act |-> act]
Call(obj, act)   == [obj |-> obj, act |-> act]

Route == {
  Call(<<"admin", "users">>, "GET"),
  Call(<<"admin", "users", "invite">>, "POST"),
  Call(<<"admin", "users", "target_user_id", "role">>, "POST"),
  Call(<<"admin", "users", "target_user_id", "active">>, "PATCH"),
  Call(<<"admin", "users", "target_user_id">>, "DELETE"),
  Call(<<"audit">>, "GET"),
  Call(<<"batches", "upload">>, "POST"),
  Call(<<"batches">>, "GET"),
  Call(<<"batches", "batch_id">>, "GET"),
  Call(<<"predictions", "recent">>, "GET"),
  Call(<<"predictions", "prediction_id">>, "PATCH"),
  Call(<<"predictions", "prediction_id", "overlay">>, "GET"),
  Call(<<"me">>, "GET")}

------------------------------------------------------------------------------
(* keyMatch: everything from the first star on is ignored, so a star in    *)
(* the middle of a pattern grants all that lies below what stands before   *)
(* it.                                                                     *)
KeyMatch(path, pattern) ==
  \/ path = pattern
  \/ \E n \in 1..Len(pattern) :
       /\ pattern[n] = "*" /\ \A k \in 1..(n - 1) : pattern[k] # "*"
       /\ Len(path) >= n
       /\ \A k \in 1..(n - 1) : path[k] = pattern[k]

(* enforce(): some rule of the loaded policy matches.  There are no        *)
(* grouping rows, so g(r.sub, p.sub) is equality.                          *)
Allowed(policy, role, call) ==
  \E p \in policy : p.sub = role /\ KeyMatch(call.obj, p.obj) /\ p.act = call.act

------------------------------------------------------------------------------
(* alembic: the revisions and the rows each of them inserts.               *)
HeadRevision == 7
Revision     == 0..HeadRevision

Rules0002 ==
  {P("admin", <<"admin", "*">>, act) : act \in {"GET", "POST", "PATCH", "DELETE"}}
  \cup {P("admin", obj, "GET") : obj \in {<<"audit">>, <<"batches">>, <<"batches", "*">>,
                                          <<"predictions", "*">>, <<"me">>}}
  \cup {P("reviewer", obj, "GET") : obj \in {<<"me">>, <<"batches">>, <<"batches", "*">>,
                                             <<"predictions", "recent">>}}
  \cup {P("reviewer", <<"predictions", "*">>, "PATCH")}
  \cup {P("auditor", obj, "GET") : obj \in {<<"me">>, <<"batches">>, <<"batches", "*">>,
                                            <<"audit">>}}
Rules0005 == {P(sub, <<"batches", "upload">>, "POST") : sub \in {"admin", "reviewer"}}
(* Mutant of Rules0006: the star stands for the whole path.                *)
Rules0006Wide == {P(sub, <<"*", "overlay">>, "GET") : sub \in {"admin", "reviewer"}}

Rules0006 == {P(sub, <<"predictions", "*", "overlay">>, "GET") : sub \in {"admin", "reviewer"}}
Rules0007 == {P("admin", <<"predictions", "*">>, "PATCH")}

Rule == Rules0002 \cup Rules0005 \cup Rules0006 \cup Rules0007

Inserted(r) == CASE r = 2 -> Rules0002 [] r = 5 -> Rules0005 [] r = 6 -> Rules0006
                 [] r = 7 -> Rules0007 [] OTHER -> {}

(* Mutant of Deleted: 0007 forgets whose rows it takes.                    *)
DeletedForAll(r, rules) ==
  CASE r = 5 -> {p \in rules : p.obj = <<"batches", "upload">>}
    [] r = 6 -> {p \in rules : p.obj = <<"predictions", "*", "overlay">>}
    [] r = 7 -> {p \in rules : p.obj = <<"predictions", "*">> /\ p.act = "PATCH"}
    [] OTHER -> {}

(* The rows downgrade() of revision r deletes from a table of rules.  (0002 *)
(* would drop the table.)                                                  *)
Deleted(r, rules) ==
  CASE r = 5 -> {p \in rules : /\ p.obj = <<"batches", "upload">> /\ p.act = "POST"
                               /\ p.sub \in {"admin", "reviewer"}}
    [] r = 6 -> {p \in rules : /\ p.obj = <<"predictions", "*", "overlay">>
                               /\ p.act = "GET" /\ p.sub \in {"admin", "reviewer"}}
    [] r = 7 -> {p \in rules : /\ p.sub = "admin" /\ p.obj = <<"predictions", "*">>
                               /\ p.act = "PATCH"}
    [] OTHER -> {}

(* The rows an upgrade from below the first revision to r leaves.          *)
SeededBy(r) == UNION {Inserted(k) : k \in 1..r}

(* users.deleted_at and users.original_email exist from 0003 and 0004 on;  *)
(* the queries of the present code name both.                              *)
SchemaServes(r) == r >= 4
=============================================================================
