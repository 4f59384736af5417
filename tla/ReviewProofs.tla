---------------------------- MODULE ReviewProofs ----------------------------
(***************************************************************************)
(* Theorems about Relabel, for any predictions, labels, reviewers and       *)
(* number of requests, and about Review, which implements it: what holds of *)
(* the server whatever clients do holds with the page among them.           *)
(*                                                                         *)
(* UndisturbedRelabelStands needs to know that what a transaction flushed   *)
(* is still what its UPDATE makes of the current row when it commits        *)
(* (FlushedIsCurrent), which is what the row lock is for, and that the      *)
(* audit rows are of requests that are over (AuditedIsOver).                *)
(***************************************************************************)
EXTENDS Review, TLAPS

FlushedIsCurrent ==
    \A r \in Request : InPhase(r, "flushed") =>
        /\ holder[request[r].target] = r
        /\ request[r].flushed = Written(request[r], Current(request[r].target))

AuditedIsOver ==
    \A p \in Prediction : \A i \in DOMAIN audit[p] :
        request[audit[p][i].request].phase \in {"saved", "error"}

RunningIsDoubtful ==
    \A r \in Request : request[r].phase \in Running =>
        Top1[request[r].target] < RELABEL_CONFIDENCE_THRESHOLD

RInv ==
    /\ RelabelTypeOK
    /\ FlushedIsCurrent
    /\ AuditedIsOver
    /\ RunningIsDoubtful
    /\ ConfidentKept
    /\ RowIsAudited
    /\ UndisturbedRelabelStands

(* A request that has begun has a prediction, a label and a reviewer.       *)
LEMMA RunningTyped ==
  ASSUME RelabelTypeOK, NEW r \in Request, request[r].phase \in Running
  PROVE  /\ request[r].target \in Prediction
         /\ request[r].label \in Label
         /\ request[r].actor \in Reviewer
         /\ request[r].loaded \in Version
         /\ request[r].flushed \in Version
         /\ request[r] \in [phase : Running \cup Answered, target : Prediction,
                            label : Label, actor : Reviewer, loaded : Version, flushed : Version]
<1>1. request[r] \in Requests
  BY DEF RelabelTypeOK
<1> QED
  BY <1>1 DEF Requests, NotSent, Running

(* The current state of a row is a version.                                 *)
LEMMA CurrentTyped ==
  ASSUME RelabelTypeOK, RowIsAudited, NEW p \in Prediction
  PROVE  Current(p) \in Version /\ Len(versions[p]) \in Nat \ {0}
<1>1. versions[p] \in Seq(Version) /\ audit[p] \in Seq(AuditRow)
  BY DEF RelabelTypeOK
<1>2. Len(versions[p]) = Len(audit[p]) + 1
  BY DEF RowIsAudited
<1> QED
  BY <1>1, <1>2 DEF Current

(* An UPDATE writes a version.                                              *)
LEMMA WrittenTyped ==
  ASSUME NEW q, q.label \in Label, q.actor \in Reviewer, NEW row \in Version
  PROVE  Written(q, row) \in Version
BY DEF Written, Version

LEMMA InitInvariant == RelabelInit => RInv
<1> SUFFICES ASSUME RelabelInit PROVE RInv
  OBVIOUS
<1>1. Unlabelled \in Version /\ NotSent \in Requests
  BY DEF Unlabelled, Version, NotSent, Requests
<1>2. \A p \in Prediction : /\ versions[p] = <<Unlabelled>> /\ audit[p] = <<>>
                            /\ Current(p) = Unlabelled
  BY DEF RelabelInit, Current
<1>3. RelabelTypeOK
  BY <1>1 DEF RelabelInit, RelabelTypeOK
<1>4. \A r \in Request : request[r].phase = "free"
  BY DEF RelabelInit, NotSent
<1>5. FlushedIsCurrent /\ AuditedIsOver /\ RunningIsDoubtful
  BY <1>2, <1>4 DEF FlushedIsCurrent, AuditedIsOver, RunningIsDoubtful, InPhase, Running
<1>6. ConfidentKept /\ RowIsAudited
  <2> SUFFICES ASSUME NEW p \in Prediction
               PROVE  /\ versions[p] = <<Unlabelled>> /\ Len(versions[p]) = Len(audit[p]) + 1
                      /\ Current(p).label = None /\ Current(p).actor = None
    BY DEF ConfidentKept, RowIsAudited
  <2>1. versions[p] = <<Unlabelled>> /\ audit[p] = <<>> /\ Current(p) = Unlabelled
    BY <1>2
  <2>2. Len(<<Unlabelled>>) = 1 /\ Len(<<>>) = 0
    OBVIOUS
  <2>3. Unlabelled.label = None /\ Unlabelled.actor = None
    BY DEF Unlabelled
  <2> QED
    BY <2>1, <2>2, <2>3
<1>7. UndisturbedRelabelStands
  BY <1>2 DEF UndisturbedRelabelStands
<1> QED
  BY <1>3, <1>5, <1>6, <1>7 DEF RInv

(* An audit row names a request that is over.                               *)
LEMMA AuditTyped ==
  ASSUME RelabelTypeOK, AuditedIsOver, NEW p \in Prediction, NEW i \in DOMAIN audit[p]
  PROVE  /\ audit[p][i] \in AuditRow
         /\ audit[p][i].request \in Request
         /\ request[audit[p][i].request].phase \in {"saved", "error"}
<1>1. audit[p] \in Seq(AuditRow)
  BY DEF RelabelTypeOK
<1>2. audit[p][i] \in AuditRow
  BY <1>1
<1> QED
  BY <1>2 DEF AuditRow, AuditedIsOver

(* A new request loads the row; nothing else moves.                         *)
LEMMA BeginStep ==
  ASSUME RInv, NEW r \in Request, NEW u \in Reviewer, NEW p \in Prediction, NEW l \in Label,
         Begin(r, u, p, l)
  PROVE  RInv'
<1> USE DEF RInv
<1> DEFINE q == [phase |-> IF Top1[p] >= RELABEL_CONFIDENCE_THRESHOLD THEN "conflict" ELSE "loaded",
                 target |-> p, label |-> l, actor |-> u,
                 loaded |-> Current(p), flushed |-> Unlabelled]
<1>1. /\ request[r].phase = "free" /\ UNCHANGED <<versions, audit, holder>>
      /\ request' = [request EXCEPT ![r] = q]
  BY DEF Begin, InPhase, TooConfident
<1>2. /\ request'[r] = q
      /\ \A x \in Request : x # r => request'[x] = request[x]
  BY <1>1 DEF RelabelTypeOK
<1>3. /\ q \in Requests /\ q.target = p
      /\ q.phase = IF Top1[p] >= RELABEL_CONFIDENCE_THRESHOLD THEN "conflict" ELSE "loaded"
  <2>1. Current(p) \in Version /\ Unlabelled \in Version
    BY CurrentTyped DEF Unlabelled, Version
  <2> QED
    BY <2>1 DEF Requests, Running, Answered
<1> HIDE DEF q
<1>4. RelabelTypeOK'
  BY <1>1, <1>3 DEF RelabelTypeOK
<1>5. \A x \in Prediction : Current(x)' = Current(x)
  BY <1>1 DEF Current
<1>6. FlushedIsCurrent'
  <2> SUFFICES ASSUME NEW x \in Request, request'[x].phase = "flushed"
               PROVE  /\ holder'[request'[x].target] = x
                      /\ request'[x].flushed = Written(request'[x], Current(request[x].target)')
    BY DEF FlushedIsCurrent, InPhase
  <2>1. x # r
    BY <1>2, <1>3
  <2>2. request'[x] = request[x] /\ request[x].target \in Prediction
    BY <1>2, <2>1, RunningTyped DEF Running
  <2> QED
    BY <1>1, <1>5, <2>2 DEF FlushedIsCurrent, InPhase
<1>7. \A x \in Prediction : \A i \in DOMAIN audit[x] :
        audit[x][i].request \in Request /\ audit[x][i].request # r
  BY <1>1, AuditTyped
<1>8. AuditedIsOver' /\ UndisturbedRelabelStands'
  BY <1>1, <1>2, <1>7 DEF AuditedIsOver, UndisturbedRelabelStands
<1>9. RunningIsDoubtful'
  <2>1. q.phase \in Running => Top1[p] < RELABEL_CONFIDENCE_THRESHOLD
    BY <1>3, RelabelAssumption DEF Running, RELABEL_CONFIDENCE_THRESHOLD
  <2> QED
    BY <1>2, <1>3, <2>1 DEF RunningIsDoubtful
<1>10. ConfidentKept' /\ RowIsAudited'
  BY <1>1, <1>5 DEF ConfidentKept, RowIsAudited
<1> QED
  BY <1>4, <1>6, <1>8, <1>9, <1>10

(* A transaction takes the lock and makes its new row of the current one.   *)
LEMMA FlushStep ==
  ASSUME RInv, NEW r \in Request, Flush(r)
  PROVE  RInv'
<1> USE DEF RInv
<1> DEFINE p == request[r].target
           q == [request[r] EXCEPT !.phase = "flushed", !.flushed = Written(request[r], Current(p))]
<1>1. /\ request[r].phase = "loaded" /\ holder[p] = None
      /\ holder' = [holder EXCEPT ![p] = r]
      /\ UNCHANGED <<versions, audit>>
  BY DEF Flush, InPhase
<1>2. /\ p \in Prediction /\ request[r].label \in Label /\ request[r].actor \in Reviewer
      /\ request[r] \in [phase : Running \cup Answered, target : Prediction,
                         label : Label, actor : Reviewer, loaded : Version, flushed : Version]
  BY <1>1, RunningTyped DEF Running
<1>3. Written(request[r], Current(p)) \in Version
  BY <1>2, CurrentTyped, WrittenTyped
<1>4. request' = [request EXCEPT ![r] = q]
  BY DEF Flush, RelabelTypeOK
<1>5. /\ q \in Requests /\ q.phase = "flushed" /\ q.target = p
      /\ q.loaded = request[r].loaded /\ q.flushed = Written(request[r], Current(p))
      /\ q.label = request[r].label /\ q.actor = request[r].actor
  BY <1>2, <1>3 DEF Requests, Running
<1>6. Written(q, Current(p)) = Written(request[r], Current(p))
  BY <1>5 DEF Written
<1> HIDE DEF q
<1>7. /\ request'[r] = q
      /\ \A x \in Request : x # r => request'[x] = request[x]
  BY <1>4 DEF RelabelTypeOK
<1>8. RelabelTypeOK'
  BY <1>1, <1>4, <1>5 DEF RelabelTypeOK
<1>9. \A x \in Prediction : Current(x)' = Current(x)
  BY <1>1 DEF Current
<1>10. FlushedIsCurrent'
  <2> SUFFICES ASSUME NEW x \in Request, request'[x].phase = "flushed"
               PROVE  /\ holder'[request'[x].target] = x
                      /\ request'[x].flushed = Written(request'[x], Current(request[x].target)')
    BY DEF FlushedIsCurrent, InPhase
  <2>1. CASE x = r
    BY <1>1, <1>2, <1>5, <1>6, <1>7, <1>9, <2>1 DEF RelabelTypeOK
  <2>2. CASE x # r
    <3>1. request'[x] = request[x] /\ request[x].target \in Prediction
      BY <1>7, <2>2, RunningTyped DEF Running
    <3>2. holder[request[x].target] = x
      BY <3>1 DEF FlushedIsCurrent, InPhase
    <3>3. request[x].target # p
      BY <1>1, <3>2, RelabelAssumption
    <3> QED
      BY <1>1, <1>9, <3>1, <3>2, <3>3 DEF FlushedIsCurrent, InPhase, RelabelTypeOK
  <2> QED
    BY <2>1, <2>2
<1>11. \A x \in Prediction : \A i \in DOMAIN audit[x] :
        audit[x][i].request \in Request /\ audit[x][i].request # r
  BY <1>1, AuditTyped
<1>12. AuditedIsOver' /\ UndisturbedRelabelStands'
  BY <1>1, <1>7, <1>11 DEF AuditedIsOver, UndisturbedRelabelStands
<1>13. RunningIsDoubtful'
  BY <1>1, <1>5, <1>7 DEF RunningIsDoubtful, Running
<1>14. ConfidentKept' /\ RowIsAudited'
  BY <1>1, <1>9 DEF ConfidentKept, RowIsAudited
<1> QED
  BY <1>8, <1>10, <1>12, <1>13, <1>14

(* The row and the log grow together; the lock has kept other commits off   *)
(* the row since it was flushed.                                            *)
LEMMA CommitStep ==
  ASSUME RInv, NEW r \in Request, Commit(r)
  PROVE  RInv'
<1> USE DEF RInv
<1> DEFINE q == request[r]
<1>0. PICK p \in Prediction : p = q.target
  BY RunningTyped DEF Commit, InPhase, Running
<1> DEFINE entry == [request |-> r, actor |-> q.actor, from |-> ModelLabel[p], to |-> q.label]
<1>1. /\ q.phase = "flushed"
      /\ versions' = [versions EXCEPT ![p] = Append(@, q.flushed)]
      /\ audit' = [audit EXCEPT ![p] = Append(@, entry)]
      /\ holder' = [holder EXCEPT ![p] = None]
  BY <1>0 DEF Commit, Logged, InPhase
<1>2. PICK answer \in {"saved", "error"} : request' = [request EXCEPT ![r].phase = answer]
  BY DEF Commit
<1>3. /\ q.label \in Label /\ q.actor \in Reviewer
      /\ q.loaded \in Version /\ q.flushed \in Version
      /\ q \in [phase : Running \cup Answered, target : Prediction,
               label : Label, actor : Reviewer, loaded : Version, flushed : Version]
  BY <1>1, RunningTyped DEF Running
<1>4. /\ holder[p] = r /\ q.flushed = Written(q, Current(p))
      /\ Top1[p] < RELABEL_CONFIDENCE_THRESHOLD
  BY <1>0, <1>1 DEF FlushedIsCurrent, InPhase, RunningIsDoubtful, Running
<1>5. entry \in AuditRow /\ entry.request = r /\ entry.to = q.label /\ entry.actor = q.actor
  BY <1>3, RelabelAssumption DEF AuditRow
<1> HIDE DEF entry
<1>6. /\ request'[r] = [q EXCEPT !.phase = answer]
      /\ request'[r].phase = answer /\ request'[r].loaded = q.loaded
      /\ request'[r] \in Requests
      /\ \A x \in Request : x # r => request'[x] = request[x]
  BY <1>2, <1>3 DEF RelabelTypeOK, Requests, Answered
<1> DEFINE n == Len(audit[p])
<1>7. /\ versions[p] \in Seq(Version) /\ audit[p] \in Seq(AuditRow)
      /\ n \in Nat /\ Len(versions[p]) = n + 1 /\ Current(p) = versions[p][n + 1]
      /\ Current(p) \in Version
  BY <1>3, CurrentTyped DEF RelabelTypeOK, RowIsAudited, Current
<1>8. /\ versions'[p] = Append(versions[p], q.flushed) /\ versions'[p] \in Seq(Version)
      /\ audit'[p] = Append(audit[p], entry) /\ audit'[p] \in Seq(AuditRow)
      /\ \A x \in Prediction : x # p => versions'[x] = versions[x] /\ audit'[x] = audit[x]
  BY <1>1, <1>3, <1>5, <1>7 DEF RelabelTypeOK
<1>9. /\ Len(versions'[p]) = n + 2 /\ versions'[p][n + 2] = q.flushed
      /\ \A i \in 1..(n + 1) : versions'[p][i] = versions[p][i]
      /\ Len(audit'[p]) = n + 1 /\ audit'[p][n + 1] = entry
      /\ \A i \in 1..n : audit'[p][i] = audit[p][i]
      /\ DOMAIN audit[p] = 1..n /\ DOMAIN audit'[p] = 1..(n + 1)
  BY <1>3, <1>5, <1>7, <1>8
<1>10. /\ (Current(p))' = q.flushed
       /\ \A x \in Prediction : x # p => (Current(x))' = Current(x)
  BY <1>8, <1>9 DEF Current
<1>11. RelabelTypeOK'
  <2>1. versions' \in [Prediction -> Seq(Version)] /\ audit' \in [Prediction -> Seq(AuditRow)]
    BY <1>1, <1>8 DEF RelabelTypeOK
  <2>2. holder' \in [Prediction -> Request \cup {None}]
    BY <1>1 DEF RelabelTypeOK
  <2>3. request' \in [Request -> Requests]
    BY <1>2, <1>6 DEF RelabelTypeOK
  <2> QED
    BY <2>1, <2>2, <2>3 DEF RelabelTypeOK
<1>12. FlushedIsCurrent'
  <2> SUFFICES ASSUME NEW x \in Request, request'[x].phase = "flushed"
               PROVE  /\ holder'[request'[x].target] = x
                      /\ request'[x].flushed = Written(request'[x], (Current(request[x].target))')
    BY <1>6 DEF FlushedIsCurrent, InPhase
  <2>1. x # r
    BY <1>6
  <2>2. request'[x] = request[x] /\ request[x].target \in Prediction
    BY <1>6, <2>1, RunningTyped DEF Running
  <2>3. holder[request[x].target] = x
    BY <2>2 DEF FlushedIsCurrent, InPhase
  <2>4. request[x].target # p
    BY <1>4, <2>1, <2>3
  <2> QED
    BY <1>1, <1>10, <2>2, <2>3, <2>4 DEF FlushedIsCurrent, InPhase, RelabelTypeOK
<1>13. \A x \in Prediction : \A i \in DOMAIN audit[x] :
        audit[x][i].request \in Request /\ audit[x][i].request # r
  BY <1>1, AuditTyped
<1>14. AuditedIsOver'
  <2> SUFFICES ASSUME NEW x \in Prediction, NEW i \in DOMAIN audit'[x]
               PROVE  request'[audit'[x][i].request].phase \in {"saved", "error"}
    BY DEF AuditedIsOver
  <2>1. CASE x = p /\ i = n + 1
    BY <1>5, <1>6, <1>9, <2>1
  <2>2. CASE ~(x = p /\ i = n + 1)
    <3>1. i \in DOMAIN audit[x] /\ audit'[x][i] = audit[x][i]
      <4>1. CASE x = p
        <5>1. i \in 1..n
          BY <1>7, <1>9, <2>2, <4>1
        <5> QED
          BY <1>9, <4>1, <5>1
      <4>2. CASE x # p
        BY <1>8, <4>2
      <4> QED
        BY <4>1, <4>2
    <3> QED
      BY <1>6, <1>13, <3>1 DEF AuditedIsOver
  <2> QED
    BY <2>1, <2>2
<1>15. RunningIsDoubtful'
  BY <1>6 DEF RunningIsDoubtful, Running
<1>16. ConfidentKept'
  <2> SUFFICES ASSUME NEW x \in Prediction, Top1[x] >= RELABEL_CONFIDENCE_THRESHOLD
               PROVE  versions'[x] = <<Unlabelled>>
    BY DEF ConfidentKept
  <2>1. x # p
    BY <1>4, RelabelAssumption DEF RELABEL_CONFIDENCE_THRESHOLD
  <2> QED
    BY <1>8, <2>1 DEF ConfidentKept
<1>17. RowIsAudited'
  <2> SUFFICES ASSUME NEW x \in Prediction
               PROVE  /\ Len(versions'[x]) = Len(audit'[x]) + 1
                      /\ (Current(x))'.label # None =>
                            \E i \in DOMAIN audit'[x] : audit'[x][i].to = (Current(x))'.label
                      /\ (Current(x))'.actor # None =>
                            \E i \in DOMAIN audit'[x] : audit'[x][i].actor = (Current(x))'.actor
    BY DEF RowIsAudited
  <2>1. CASE x # p
    BY <1>8, <1>10, <2>1 DEF RowIsAudited
  <2>2. CASE x = p
    <3>1. Len(versions'[p]) = Len(audit'[p]) + 1
      BY <1>7, <1>9
    <3>2. /\ q.flushed.label \in {Current(p).label, q.label}
          /\ q.flushed.actor \in {Current(p).actor, q.actor}
      BY <1>4 DEF Written
    <3>3. n + 1 \in DOMAIN audit'[p] /\ audit'[p][n + 1].to = q.label /\ audit'[p][n + 1].actor = q.actor
      BY <1>5, <1>7, <1>9
    <3>4. \A i \in DOMAIN audit[p] : i \in DOMAIN audit'[p] /\ audit'[p][i] = audit[p][i]
      BY <1>7, <1>9
    <3>5. /\ Current(p).label # None => \E i \in DOMAIN audit'[p] : audit'[p][i].to = Current(p).label
          /\ Current(p).actor # None => \E i \in DOMAIN audit'[p] : audit'[p][i].actor = Current(p).actor
      BY <1>3, <3>4 DEF RowIsAudited
    <3> HIDE DEF n
    <3> QED
      BY <1>10, <2>2, <3>1, <3>2, <3>3, <3>5
  <2> QED
    BY <2>1, <2>2
<1>18. UndisturbedRelabelStands'
  <2> SUFFICES ASSUME NEW x \in Prediction, NEW i \in DOMAIN audit'[x],
                      request'[audit'[x][i].request].loaded = versions'[x][i]
               PROVE  versions'[x][i + 1] = [label |-> audit'[x][i].to, actor |-> audit'[x][i].actor]
    BY DEF UndisturbedRelabelStands
  <2>1. CASE x = p /\ i = n + 1
    <3>1. q.loaded = Current(p)
      BY <1>5, <1>6, <1>7, <1>9, <2>1
    <3>2. q.flushed = [label |-> q.label, actor |-> q.actor]
      BY <1>4, <3>1 DEF Written
    <3>3. versions'[x][i + 1] = q.flushed
      <4>1. i + 1 = n + 2
        BY <1>7, <2>1
      <4> QED
        BY <1>9, <2>1, <4>1
    <3>4. audit'[x][i] = entry
      BY <1>9, <2>1
    <3> QED
      BY <1>5, <3>2, <3>3, <3>4
  <2>2. CASE ~(x = p /\ i = n + 1)
    <3>1. i \in DOMAIN audit[x] /\ audit'[x][i] = audit[x][i]
      <4>1. CASE x = p
        <5>1. i \in 1..n
          BY <1>7, <1>9, <2>2, <4>1
        <5> QED
          BY <1>9, <4>1, <5>1
      <4>2. CASE x # p
        BY <1>8, <4>2
      <4> QED
        BY <4>1, <4>2
    <3>2. versions'[x][i] = versions[x][i] /\ versions'[x][i + 1] = versions[x][i + 1]
      <4>1. CASE x = p
        <5>1. i \in 1..(n + 1) /\ i + 1 \in 1..(n + 1)
          BY <1>7, <1>9, <3>1, <4>1
        <5> QED
          BY <1>9, <4>1, <5>1
      <4>2. CASE x # p
        BY <1>8, <4>2
      <4> QED
        BY <4>1, <4>2
    <3>3. request'[audit[x][i].request] = request[audit[x][i].request]
      BY <1>6, <1>13, <3>1
    <3> QED
      BY <3>1, <3>2, <3>3 DEF UndisturbedRelabelStands
  <2> QED
    BY <2>1, <2>2
<1> QED
  BY <1>11, <1>12, <1>14, <1>15, <1>16, <1>17, <1>18

(* The row is as it was, and free if the transaction had locked it.         *)
LEMMA RollBackStep ==
  ASSUME RInv, NEW r \in Request, RollBack(r)
  PROVE  RInv'
<1> USE DEF RInv
<1>1. /\ request[r].phase \in Running
      /\ request' = [request EXCEPT ![r].phase = "error"]
      /\ holder' = [p \in Prediction |-> IF holder[p] = r THEN None ELSE holder[p]]
      /\ UNCHANGED <<versions, audit>>
  BY DEF RollBack
<1>2. /\ request'[r].phase = "error" /\ request'[r] \in Requests
      /\ \A x \in Request : x # r => request'[x] = request[x]
  BY <1>1, RunningTyped DEF RelabelTypeOK, Requests, Answered
<1>3. RelabelTypeOK'
  BY <1>1, <1>2 DEF RelabelTypeOK
<1>4. \A x \in Prediction : Current(x)' = Current(x)
  BY <1>1 DEF Current
<1>5. FlushedIsCurrent'
  <2> SUFFICES ASSUME NEW x \in Request, request'[x].phase = "flushed"
               PROVE  /\ holder'[request'[x].target] = x
                      /\ request'[x].flushed = Written(request'[x], (Current(request[x].target))')
    BY <1>1 DEF FlushedIsCurrent, InPhase, RelabelTypeOK
  <2>1. x # r
    BY <1>2
  <2>2. request'[x] = request[x] /\ request[x].target \in Prediction
    BY <1>2, <2>1, RunningTyped DEF Running
  <2> QED
    BY <1>1, <1>4, <2>1, <2>2 DEF FlushedIsCurrent, InPhase
<1>6. \A x \in Prediction : \A i \in DOMAIN audit[x] :
        audit[x][i].request \in Request /\ audit[x][i].request # r
  BY <1>1, AuditTyped DEF Running
<1>7. AuditedIsOver' /\ UndisturbedRelabelStands'
  BY <1>1, <1>2, <1>6 DEF AuditedIsOver, UndisturbedRelabelStands
<1>8. RunningIsDoubtful'
  BY <1>2 DEF RunningIsDoubtful, Running
<1>9. ConfidentKept' /\ RowIsAudited'
  BY <1>1, <1>4 DEF ConfidentKept, RowIsAudited
<1> QED
  BY <1>3, <1>5, <1>7, <1>8, <1>9

(* Every step of the server, or none, keeps the invariant.                  *)
LEMMA NextInvariant == RInv /\ [RelabelNext]_server => RInv'
<1> SUFFICES ASSUME RInv, [RelabelNext]_server PROVE RInv'
  OBVIOUS
<1>1. CASE UNCHANGED server
  BY <1>1 DEF server, RInv, RelabelTypeOK, FlushedIsCurrent, AuditedIsOver, RunningIsDoubtful,
              ConfidentKept, RowIsAudited, UndisturbedRelabelStands, InPhase, Current
<1>2. CASE RelabelNext
  BY <1>2, BeginStep, FlushStep, CommitStep, RollBackStep DEF RelabelNext, RelabelStep
<1> QED
  BY <1>1, <1>2

(* What relabel guarantees, whoever calls it: the inductive invariant holds *)
(* of every behaviour of the server.                                        *)
THEOREM Invariance == RelabelSpec => []RInv
<1> QED
  BY InitInvariant, NextInvariant, PTL DEF RelabelSpec

-----------------------------------------------------------------------------
(* With the page: the answer that onSaved stores is a state the row has had *)
(* (SavedIsStored), and what is chosen in the open dialog is a candidate of *)
(* the open prediction (ChosenIsCandidate).                                 *)
SavedIsStored ==
    \A r \in Request : InPhase(r, "saved") =>
        request[r].flushed \in ToSet(versions[request[r].target])

ChosenIsCandidate ==
    modal # None /\ modal.selected # None =>
        /\ modal.selected \in Top5[openId] \ {ModelLabel[openId]}
        /\ Top1[openId] < RELABEL_CONFIDENCE_THRESHOLD

SentHasBegun == \A r \in sent : ~InPhase(r, "free")

PInv ==
    /\ RInv
    /\ TypeOK
    /\ SavedIsStored
    /\ ChosenIsCandidate
    /\ SentHasBegun
    /\ ShownWasStored
    /\ SavesAreCandidates

(* A request that is not free has a prediction.                             *)
LEMMA BegunTyped ==
  ASSUME RelabelTypeOK, NEW r \in Request, request[r].phase # "free"
  PROVE  request[r].target \in Prediction /\ request[r].flushed \in Version
<1>1. request[r] \in Requests
  BY DEF RelabelTypeOK
<1> QED
  BY <1>1 DEF Requests, NotSent

(* No step of the server forgets a state of a row or what a request asked.  *)
LEMMA ServerKeeps ==
  ASSUME RInv, SavedIsStored, RelabelNext
  PROVE  /\ \A p \in Prediction : ToSet(versions[p]) \subseteq ToSet(versions'[p])
         /\ \A r \in Request : request[r].phase # "free" =>
              /\ request'[r].phase # "free"
              /\ request'[r].target = request[r].target
              /\ request'[r].label = request[r].label
         /\ SavedIsStored'
<1> USE DEF RInv
<1>1. CASE \E r \in Request, u \in Reviewer, p \in Prediction, l \in Label : Begin(r, u, p, l)
  <2>1. PICK r \in Request, u \in Reviewer, p \in Prediction, l \in Label : Begin(r, u, p, l)
    BY <1>1
  <2>2. /\ versions' = versions /\ request[r].phase = "free"
        /\ request'[r].phase \in {"conflict", "loaded"}
        /\ \A x \in Request : x # r => request'[x] = request[x]
    BY <2>1 DEF Begin, InPhase, RelabelTypeOK
  <2> QED
    BY <2>2 DEF SavedIsStored, InPhase
<1>2. CASE \E r \in Request : Flush(r) \/ RollBack(r)
  <2>1. PICK r \in Request : Flush(r) \/ RollBack(r)
    BY <1>2
  <2>2. /\ versions' = versions
        /\ request'[r].phase \in {"flushed", "error"}
        /\ request'[r].target = request[r].target /\ request'[r].label = request[r].label
        /\ \A x \in Request : x # r => request'[x] = request[x]
    <3>1. request[r].phase \in Running
      BY <2>1 DEF Flush, RollBack, InPhase, Running
    <3> QED
      BY <2>1, <3>1, RunningTyped DEF Flush, RollBack, InPhase, RelabelTypeOK
  <2> QED
    BY <2>2 DEF SavedIsStored, InPhase
<1>3. CASE \E r \in Request : Commit(r)
  <2>1. PICK r \in Request : Commit(r)
    BY <1>3
  <2>2. PICK p \in Prediction : p = request[r].target
    BY <2>1, RunningTyped DEF Commit, InPhase, Running
  <2>3. request[r].flushed \in Version /\ versions[p] \in Seq(Version)
    BY <2>1, RunningTyped DEF Commit, InPhase, Running, RelabelTypeOK
  <2>4. /\ versions'[p] = Append(versions[p], request[r].flushed)
        /\ \A x \in Prediction : x # p => versions'[x] = versions[x]
    BY <2>1, <2>2 DEF Commit, RelabelTypeOK
  <2>5. /\ request'[r].phase \in {"saved", "error"}
        /\ request'[r].target = p /\ request'[r].label = request[r].label
        /\ request'[r].flushed = request[r].flushed
        /\ \A x \in Request : x # r => request'[x] = request[x]
    BY <2>1, <2>2, RunningTyped DEF Commit, InPhase, Running, RelabelTypeOK
  <2>6. ToSet(versions'[p]) = ToSet(versions[p]) \cup {request[r].flushed}
    BY <2>3, <2>4 DEF ToSet
  <2>7. \A x \in Prediction : ToSet(versions[x]) \subseteq ToSet(versions'[x])
    BY <2>4, <2>6
  <2>8. SavedIsStored'
    <3> SUFFICES ASSUME NEW x \in Request, request'[x].phase = "saved"
                 PROVE  request'[x].flushed \in ToSet(versions'[request'[x].target])
      BY DEF SavedIsStored, InPhase
    <3>1. CASE x = r
      BY <2>5, <2>6, <3>1
    <3>2. CASE x # r
      BY <2>5, <2>7, <3>2, BegunTyped DEF SavedIsStored, InPhase
    <3> QED
      BY <3>1, <3>2
  <2> QED
    BY <2>2, <2>5, <2>7, <2>8
<1> QED
  BY <1>1, <1>2, <1>3 DEF RelabelNext, RelabelStep

LEMMA PageInit == Init => PInv
<1> SUFFICES ASSUME Init PROVE PInv
  OBVIOUS
<1>1. RInv
  BY InitInvariant DEF Init
<1>2. TypeOK
  BY <1>1 DEF Init, TypeOK, RInv
<1>3. SavedIsStored
  BY DEF Init, RelabelInit, SavedIsStored, InPhase, NotSent
<1>4. ChosenIsCandidate /\ SentHasBegun /\ ShownWasStored /\ SavesAreCandidates
  BY DEF Init, ChosenIsCandidate, SentHasBegun, ShownWasStored, SavesAreCandidates
<1> QED
  BY <1>1, <1>2, <1>3, <1>4 DEF PInv

(* Steps of the server for other clients, and for the page's requests.      *)
LEMMA ServerStep ==
  ASSUME PInv, RelabelNext, UNCHANGED page
  PROVE  PInv'
<1> USE DEF PInv
<1>1. RInv'
  BY NextInvariant
<1>2. /\ \A p \in Prediction : ToSet(versions[p]) \subseteq ToSet(versions'[p])
      /\ \A r \in Request : request[r].phase # "free" =>
              /\ request'[r].phase # "free"
              /\ request'[r].target = request[r].target
              /\ request'[r].label = request[r].label
      /\ SavedIsStored'
  BY ServerKeeps
<1>3. /\ rows' = rows /\ pending' = pending /\ openId' = openId
      /\ modal' = modal /\ sent' = sent
  BY DEF page
<1>4. TypeOK'
  BY <1>1, <1>3 DEF TypeOK, RInv
<1>5. ChosenIsCandidate'
  BY <1>3 DEF ChosenIsCandidate
<1>6. SentHasBegun' /\ SavesAreCandidates'
  BY <1>2, <1>3 DEF SentHasBegun, SavesAreCandidates, InPhase, TypeOK
<1>7. ShownWasStored'
  BY <1>2, <1>3 DEF ShownWasStored
<1> QED
  BY <1>1, <1>2, <1>4, <1>5, <1>6, <1>7

(* The list and the dialog, while no request moves: what is chosen is       *)
(* chosen for the prediction that is open.                                  *)
LEMMA DialogStep ==
  ASSUME PInv,
         \/ Refresh \/ ListAnswer \/ ListError \/ Close \/ ClearSelection \/ Apply \/ Cancel
         \/ \E p \in Prediction : OpenRow(p)
         \/ \E l \in Label : Select(l)
  PROVE  PInv'
<1> USE DEF PInv
<1>1. server' = server /\ sent' = sent
  BY DEF Refresh, ListAnswer, ListError, Close, ClearSelection, Apply, Cancel, OpenRow, Select, SetModal
<1>2. /\ RInv' /\ SavedIsStored' /\ SentHasBegun' /\ SavesAreCandidates' /\ RelabelTypeOK'
  BY <1>1, NextInvariant
     DEF server, RInv, SavedIsStored, SentHasBegun, SavesAreCandidates, InPhase
<1>3. FreshModal \in Modal /\ FreshModal.selected = None /\ FreshModal # None
  <2>1. FreshModal \in Modal /\ FreshModal.selected = None
    BY DEF FreshModal, Modal
  <2> QED
    BY <2>1, ReviewAssumption
<1>4. CASE Refresh
  BY <1>1, <1>2, <1>4 DEF Refresh, server, TypeOK, ChosenIsCandidate, ShownWasStored
<1>5. CASE ListAnswer
  <2>1. PICK shown : /\ DOMAIN shown = Prediction /\ shown = [p \in Prediction |-> shown[p]]
                     /\ \A p \in Prediction : shown[p] \in ToSet(versions[p])
                     /\ rows' = shown /\ modal' = Rendered(shown, openId)
    BY <1>5 DEF ListAnswer
  <2>2. shown \in [Prediction -> Version]
    <3>1. \A p \in Prediction : ToSet(versions[p]) \subseteq Version
      <4>1. \A p \in Prediction : versions[p] \in Seq(Version)
        BY DEF TypeOK, RelabelTypeOK
      <4>2. ASSUME NEW p \in Prediction, NEW i \in DOMAIN versions[p]
            PROVE  versions[p][i] \in Version
        BY <4>1
      <4> QED
        BY <4>2 DEF ToSet
    <3> QED
      BY <2>1, <3>1
  <2>3. shown # None
    BY <2>2, ReviewAssumption
  <2>4. pending' = FALSE /\ openId' = openId
    BY <1>5 DEF ListAnswer
  <2>5. TypeOK'
    BY <1>1, <1>2, <1>3, <2>1, <2>2, <2>3, <2>4 DEF TypeOK, Rendered
  <2>6. ChosenIsCandidate'
    BY <1>3, <2>1, <2>3, <2>4 DEF ChosenIsCandidate, Rendered
  <2>7. ShownWasStored'
    BY <1>1, <2>1 DEF ShownWasStored, server
  <2> QED
    BY <1>2, <2>5, <2>6, <2>7
<1>6. CASE ListError
  BY <1>1, <1>2, <1>6 DEF ListError, Rendered, TypeOK, ChosenIsCandidate, ShownWasStored
<1>7. CASE Close
  BY <1>1, <1>2, <1>7 DEF Close, Rendered, server, TypeOK, ChosenIsCandidate, ShownWasStored
<1>8. CASE ClearSelection \/ Apply \/ Cancel
  <2>1. PICK state : /\ modal' = state /\ state \in Modal
                     /\ state.selected \in {modal.selected, None}
    <3>1. modal \in Modal
      BY <1>8 DEF ClearSelection, Apply, Cancel, Confirmable, RelabelEnabled, TypeOK
    <3> QED
      BY <1>8, <3>1 DEF ClearSelection, Apply, Cancel, SetModal, Modal
  <2>2. /\ modal # None /\ modal' # None
        /\ rows' = rows /\ openId' = openId /\ pending' = pending
    BY <1>8, <2>1, ReviewAssumption
       DEF ClearSelection, Apply, Cancel, Confirmable, RelabelEnabled, SetModal
  <2> QED
    BY <1>1, <1>2, <2>1, <2>2 DEF server, TypeOK, ChosenIsCandidate, ShownWasStored
<1>9. ASSUME NEW p \in Prediction, OpenRow(p) PROVE PInv'
  <2>1. p # None
    BY RelabelAssumption
  <2>2. /\ modal' = FreshModal /\ openId' = p /\ rows' = rows /\ rows # None
        /\ pending' = pending
    BY <1>9, <2>1 DEF OpenRow, Rendered
  <2> QED
    BY <1>1, <1>2, <1>3, <2>1, <2>2 DEF server, TypeOK, ChosenIsCandidate, ShownWasStored
<1>10. ASSUME NEW l \in Label, Select(l) PROVE PInv'
  <2>1. /\ modal' = [modal EXCEPT !.selected = l] /\ modal # None /\ modal \in Modal
        /\ rows' = rows /\ openId' = openId /\ pending' = pending
        /\ l \in Top5[openId] \ {ModelLabel[openId]}
        /\ Top1[openId] < RELABEL_CONFIDENCE_THRESHOLD
    BY <1>10 DEF Select, SetModal, RelabelEnabled, TypeOK
  <2>2. modal' \in Modal /\ modal'.selected = l /\ modal' # None
    BY <2>1, ReviewAssumption DEF Modal
  <2> QED
    BY <1>1, <1>2, <2>1, <2>2 DEF server, TypeOK, ChosenIsCandidate, ShownWasStored
<1> QED
  BY <1>4, <1>5, <1>6, <1>7, <1>8, <1>9, <1>10

(* A save asks for what the open dialog shows.                              *)
LEMMA SaveStep ==
  ASSUME PInv, NEW r \in Request, Save(r)
  PROVE  PInv' /\ RelabelNext
<1> USE DEF PInv
<1>1. /\ modal # None /\ modal \in Modal /\ modal.selected # None
      /\ openId \in Prediction /\ modal.selected \in Label
  BY DEF Save, Confirmable, TypeOK, Modal
<1>2. PICK p \in Prediction, l \in Label : p = openId /\ l = modal.selected
  BY <1>1
<1>3. Begin(r, Me, p, l)
  BY <1>2 DEF Save
<1>4. RelabelNext
  BY <1>3, ReviewAssumption DEF RelabelNext
<1>5. RInv' /\ SavedIsStored'
  BY <1>4, NextInvariant, ServerKeeps
<1>6. /\ versions' = versions /\ request[r].phase = "free"
      /\ request'[r].phase \in {"conflict", "loaded"}
      /\ request'[r].target = p /\ request'[r].label = l
      /\ \A x \in Request : x # r => request'[x] = request[x]
  BY <1>3 DEF Begin, InPhase, TypeOK, RelabelTypeOK
<1>7. /\ modal' = [modal EXCEPT !.saving = r] /\ sent' = sent \cup {r}
      /\ rows' = rows /\ pending' = pending /\ openId' = openId
  BY DEF Save
<1>8. modal' \in Modal /\ modal'.selected = l /\ modal' # None
  BY <1>1, <1>2, <1>7, ReviewAssumption DEF Modal
<1>9. TypeOK'
  BY <1>1, <1>5, <1>7, <1>8 DEF TypeOK, RInv
<1>10. ChosenIsCandidate'
  BY <1>1, <1>2, <1>7, <1>8 DEF ChosenIsCandidate
<1>11. SentHasBegun' /\ SavesAreCandidates'
  BY <1>1, <1>2, <1>6, <1>7 DEF SentHasBegun, SavesAreCandidates, ChosenIsCandidate, InPhase, TypeOK
<1>12. ShownWasStored'
  BY <1>6, <1>7 DEF ShownWasStored
<1> QED
  BY <1>4, <1>5, <1>9, <1>10, <1>11, <1>12

(* An answer: the list takes a state that the row has had.                  *)
LEMMA ArriveStep ==
  ASSUME PInv, NEW r \in Request, Arrive(r)
  PROVE  PInv'
<1> USE DEF PInv
<1>1. server' = server /\ pending' = pending /\ sent' = sent \ {r}
  BY DEF Arrive, OnSaved, NotSaved
<1>2. /\ RInv' /\ SavedIsStored' /\ SentHasBegun' /\ SavesAreCandidates' /\ RelabelTypeOK'
  BY <1>1, NextInvariant
     DEF server, RInv, SavedIsStored, SentHasBegun, SavesAreCandidates, InPhase
<1>3. CASE OnSaved(r)
  <2>1. /\ request[r].phase = "saved" /\ openId' = None /\ modal' = None
        /\ rows' = IF rows = None THEN None
                   ELSE [rows EXCEPT ![request[r].target] = request[r].flushed]
    BY <1>3 DEF OnSaved, Updated, InPhase
  <2>2. /\ request[r].target \in Prediction /\ request[r].flushed \in Version
        /\ request[r].flushed \in ToSet(versions[request[r].target])
    BY <2>1, BegunTyped DEF TypeOK, SavedIsStored, InPhase
  <2>3. TypeOK' /\ ChosenIsCandidate'
    BY <1>1, <1>2, <2>1, <2>2 DEF TypeOK, ChosenIsCandidate
  <2>4. ShownWasStored'
    BY <1>1, <2>1, <2>2 DEF ShownWasStored, TypeOK, server
  <2> QED
    BY <1>2, <2>3, <2>4
<1>4. CASE NotSaved(r)
  <2>1. /\ rows' = rows /\ openId' = openId
        /\ modal' = IF modal # None /\ modal.saving = r
                    THEN [modal EXCEPT !.saving = None] ELSE modal
    BY <1>4 DEF NotSaved
  <2>2. /\ modal' \in Modal \cup {None} /\ (modal' = None <=> modal = None)
        /\ modal # None => modal'.selected = modal.selected
    BY <2>1, ReviewAssumption DEF TypeOK, Modal
  <2>3. TypeOK' /\ ChosenIsCandidate'
    BY <1>1, <1>2, <2>1, <2>2 DEF TypeOK, ChosenIsCandidate
  <2>4. ShownWasStored'
    BY <1>1, <2>1 DEF ShownWasStored, server
  <2> QED
    BY <1>2, <2>3, <2>4
<1> QED
  BY <1>3, <1>4 DEF Arrive

(* Every step of the page and the server together.                          *)
LEMMA PageNextInvariant == PInv /\ [Next]_vars => PInv'
<1> SUFFICES ASSUME PInv, [Next]_vars PROVE PInv'
  OBVIOUS
<1>1. CASE UNCHANGED vars
  <2>1. server' = server /\ page' = page
    BY <1>1 DEF vars
  <2>2. RInv'
    BY <2>1, NextInvariant DEF PInv
  <2> QED
    BY <2>1, <2>2 DEF server, page, PInv, RInv, TypeOK, SavedIsStored, ChosenIsCandidate,
                      SentHasBegun, ShownWasStored, SavesAreCandidates, InPhase
<1>2. CASE \E r \in Request : OthersRelabel(r) \/ (RelabelStep(r) /\ UNCHANGED page)
  BY <1>2, ServerStep DEF OthersRelabel, RelabelNext
<1>3. CASE PageNext
  BY <1>3, DialogStep, SaveStep, ArriveStep DEF PageNext
<1> QED
  BY <1>1, <1>2, <1>3 DEF Next

(* The inductive invariant of the review page and the server together.      *)
THEOREM PageInvariance == Spec => []PInv
<1> QED
  BY PageInit, PageNextInvariant, PTL DEF Spec

(* Type correctness; a dialog is mounted exactly when openId names a row.   *)
THEOREM TypeCorrect == Spec => []TypeOK
<1>1. PInv => TypeOK
  BY DEF PInv
<1> QED
  BY <1>1, PageInvariance, PTL

(* AUTH-05: no prediction at or above the threshold is ever relabelled.     *)
THEOREM ConfidentTheorem == Spec => []ConfidentKept
<1>1. PInv => ConfidentKept
  BY DEF PInv, RInv
<1> QED
  BY <1>1, PageInvariance, PTL

(* Table and audit log agree, whatever overlaps, fails or is rolled back.   *)
THEOREM AuditTheorem == Spec => []RowIsAudited
<1>1. PInv => RowIsAudited
  BY DEF PInv, RInv
<1> QED
  BY <1>1, PageInvariance, PTL

(* A relabel without another commit between its read and its own leaves     *)
(* exactly the label and the reviewer its audit row names.                  *)
THEOREM UndisturbedTheorem == Spec => []UndisturbedRelabelStands
<1>1. PInv => UndisturbedRelabelStands
  BY DEF PInv, RInv
<1> QED
  BY <1>1, PageInvariance, PTL

(* The list shows only corrections that were stored.                        *)
THEOREM ShownTheorem == Spec => []ShownWasStored
<1>1. PInv => ShownWasStored
  BY DEF PInv
<1> QED
  BY <1>1, PageInvariance, PTL

(* No label chosen for one document is ever sent for another.               *)
THEOREM CandidatesTheorem == Spec => []SavesAreCandidates
<1>1. PInv => SavesAreCandidates
  BY DEF PInv
<1> QED
  BY <1>1, PageInvariance, PTL

(* The page is one of the server's clients: every step of page and server   *)
(* together is a step of Relabel or leaves the server alone.                *)
THEOREM PageIsAClient == Spec => RelabelSpec
<1>1. Init => RelabelInit
  BY DEF Init
<1>2. PInv /\ [Next]_vars => [RelabelNext]_server
  <2> SUFFICES ASSUME PInv, [Next]_vars PROVE [RelabelNext]_server
    OBVIOUS
  <2>1. CASE UNCHANGED vars
    BY <2>1 DEF vars
  <2>2. CASE \E r \in Request : OthersRelabel(r) \/ (RelabelStep(r) /\ UNCHANGED page)
    BY <2>2 DEF OthersRelabel, RelabelNext
  <2>3. CASE \/ Refresh \/ ListAnswer \/ ListError \/ Close \/ ClearSelection \/ Apply \/ Cancel
             \/ \E p \in Prediction : OpenRow(p)
             \/ \E l \in Label : Select(l)
             \/ \E r \in Request : Arrive(r)
    BY <2>3 DEF Refresh, ListAnswer, ListError, Close, ClearSelection, Apply, Cancel, OpenRow,
                Select, SetModal, Arrive, OnSaved, NotSaved
  <2>4. CASE \E r \in Request : Save(r)
    BY <2>4, SaveStep
  <2> QED
    BY <2>1, <2>2, <2>3, <2>4 DEF Next, PageNext
<1> QED
  BY <1>1, <1>2, PageInvariance, PTL DEF Spec, RelabelSpec
=============================================================================
