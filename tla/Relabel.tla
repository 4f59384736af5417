------------------------------ MODULE Relabel ------------------------------
(***************************************************************************)
(* PATCH /predictions/{id}: prediction_service.relabel and the repositories *)
(* it calls, for requests that overlap.  A relabel is a transaction at READ *)
(* COMMITTED.  It reads the row, sets two columns on the object it loaded   *)
(* (and relabel_at, which no page shows), and flushes: the UPDATE names only*)
(* the columns whose value differs from the loaded one, waits for the row's *)
(* lock, and applies to the row as last committed.  The audit row is part of*)
(* the same transaction.  The caches are cleared after the commit.          *)
(*                                                                         *)
(* The first read of relabel (get_by_id) decides with columns no statement  *)
(* ever updates, so it is one step with the second one, the repository's.   *)
(* That the caller may relabel at all is in UserAdmin; what the clears do to*)
(* readers is in ReadCache.                                                 *)
(***************************************************************************)
EXTENDS Naturals, Sequences

CONSTANTS Prediction, \* recorded predictions
          Label,
          Reviewer,   \* users with the PATCH policy
          Request,    \* bound: relabels in a behaviour
          None,       \* SQL NULL, no holder, not loaded yet
          Top1,       \* prediction -> top1_confidence, in tenths
          ModelLabel  \* prediction -> label, the classifier's

ASSUME RelabelAssumption ==
    /\ Top1 \in [Prediction -> Nat]
    /\ ModelLabel \in [Prediction -> Label]
    /\ None \notin Prediction \cup Label \cup Reviewer \cup Request

VARIABLES
    versions, \* prediction -> the committed states of its row, the last is current
    audit,    \* prediction -> its prediction_relabeled rows, in order of commit
    holder,   \* prediction -> the request whose transaction has locked the row
    request   \* request -> its progress and its local variables

server == <<versions, audit, holder, request>>

RELABEL_CONFIDENCE_THRESHOLD == 7

Version == [label : Label \cup {None}, actor : Reviewer \cup {None}]
Unlabelled == [label |-> None, actor |-> None]

(* What a request is about, before and after it arrives.                    *)
NotSent == [phase |-> "free", target |-> None, label |-> None, actor |-> None,
            loaded |-> Unlabelled, flushed |-> Unlabelled]

Running == {"loaded", "flushed"}
Answered == {"saved", "conflict", "error"}

Requests ==
    [phase : Running \cup Answered, target : Prediction,
     label : Label, actor : Reviewer, loaded : Version, flushed : Version]
        \cup {NotSent}

AuditRow == [request : Request, actor : Reviewer, from : Label, to : Label]

RelabelTypeOK ==
    /\ versions \in [Prediction -> Seq(Version)]
    /\ audit \in [Prediction -> Seq(AuditRow)]
    /\ holder \in [Prediction -> Request \cup {None}]
    /\ request \in [Request -> Requests]

Current(p) == versions[p][Len(versions[p])]

RelabelInit ==
    /\ versions = [p \in Prediction |-> <<Unlabelled>>]
    /\ audit = [p \in Prediction |-> <<>>]
    /\ holder = [p \in Prediction |-> None]
    /\ request = [r \in Request |-> NotSent]

-----------------------------------------------------------------------------
InPhase(r, phase) == request[r].phase = phase

TooConfident(p) == Top1[p] >= RELABEL_CONFIDENCE_THRESHOLD

(* The endpoint takes any string for a label.  A confident prediction gets a*)
(* 409; otherwise the repository has read the row as committed, unlocked.   *)
Begin(r, u, p, l) ==
    /\ InPhase(r, "free")
    /\ request' = [request EXCEPT ![r] =
           [phase |-> IF TooConfident(p) THEN "conflict" ELSE "loaded",
            target |-> p, label |-> l, actor |-> u,
            loaded |-> Current(p), flushed |-> Unlabelled]]
    /\ UNCHANGED <<versions, audit, holder>>

(* Nothing to do for a label that is there already.                         *)
Written_by_label(q, row) ==
    IF q.loaded.label = q.label THEN row ELSE [label |-> q.label, actor |-> q.actor]

(* The row after the UPDATE of q: a column that has the wanted value in the *)
(* loaded object is not in the statement and stays as it is.                *)
Written(q, row) ==
    [label |-> IF q.loaded.label = q.label THEN row.label ELSE q.label,
     actor |-> IF q.loaded.actor = q.actor THEN row.actor ELSE q.actor]

(* flush waits for the lock; refresh reads back the row for the answer.     *)
Flush(r) ==
    LET p == request[r].target IN
    /\ InPhase(r, "loaded")
    /\ holder[p] = None
    /\ holder' = [holder EXCEPT ![p] = r]
    /\ request' = [request EXCEPT ![r].phase = "flushed",
                                  ![r].flushed = Written(request[r], Current(p))]
    /\ UNCHANGED <<versions, audit>>

(* The log with the audit row of r: "from" is the classifier's label also   *)
(* when the row has been relabelled before.                                 *)
Logged(r) ==
    LET q == request[r] IN
    [audit EXCEPT ![q.target] = Append(@,
        [request |-> r, actor |-> q.actor, from |-> ModelLabel[q.target], to |-> q.label])]

(* The audit row is inserted and the transaction commits.  Then the caches  *)
(* are cleared and the row is answered; the client is told of a failure when*)
(* a clear fails or the answer is lost.                                     *)
Commit(r) ==
    LET q == request[r] IN
    /\ InPhase(r, "flushed")
    /\ versions' = [versions EXCEPT ![q.target] = Append(@, q.flushed)]
    /\ audit' = Logged(r)
    /\ holder' = [holder EXCEPT ![q.target] = None]
    /\ \E answer \in {"saved", "error"} :
           request' = [request EXCEPT ![r].phase = answer]

(* The connection to the database fails, or the client is lost, before the  *)
(* commit: the transaction is rolled back.                                  *)
RollBack(r) ==
    /\ request[r].phase \in Running
    /\ request' = [request EXCEPT ![r].phase = "error"]
    /\ holder' = [p \in Prediction |-> IF holder[p] = r THEN None ELSE holder[p]]
    /\ UNCHANGED <<versions, audit>>

RelabelStep(r) == Flush(r) \/ Commit(r) \/ RollBack(r)

RelabelNext ==
    \E r \in Request :
        RelabelStep(r) \/ \E u \in Reviewer, p \in Prediction, l \in Label : Begin(r, u, p, l)

RelabelSpec == RelabelInit /\ [][RelabelNext]_server

-----------------------------------------------------------------------------
(* AUTH-05: a prediction with a confidence of 0.7 or more is never          *)
(* relabelled, whichever client asks and whatever overlaps.                 *)
ConfidentKept ==
    \A p \in Prediction :
        Top1[p] >= RELABEL_CONFIDENCE_THRESHOLD => versions[p] = <<Unlabelled>>

(* The log and the table agree in number: each committed state of a row but *)
(* the first has its audit row, and the other way round, so that the label  *)
(* and the reviewer a row shows are each of some relabel in the log.        *)
RowIsAudited ==
    \A p \in Prediction :
        /\ Len(versions[p]) = Len(audit[p]) + 1
        /\ Current(p).label # None => \E i \in DOMAIN audit[p] : audit[p][i].to = Current(p).label
        /\ Current(p).actor # None => \E i \in DOMAIN audit[p] : audit[p][i].actor = Current(p).actor

(* A relabel that loaded the state it then overwrote left in the row what   *)
(* its audit row says.  With another commit in between it need not: a column*)
(* that already had the wanted value when it was loaded is left to the other*)
(* relabel, and the row may join one's label with the other's reviewer.     *)
UndisturbedRelabelStands ==
    \A p \in Prediction : \A i \in DOMAIN audit[p] :
        LET entry == audit[p][i] IN
        request[entry.request].loaded = versions[p][i] =>
            versions[p][i + 1] = [label |-> entry.to, actor |-> entry.actor]
=============================================================================
