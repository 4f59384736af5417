--------------------------- MODULE RequestsProofs ---------------------------
(***************************************************************************)
(* Theorems about Requests, for any finite set of requests, any pool and   *)
(* any policy.  The inductive invariant adds to the properties             *)
(*   - where a request may hold a connection: a request that waits holds   *)
(*     none of the kind it waits for, and an idle one none at all, and one *)
(*     that waits for a second connection is behind a guard;               *)
(*   - that the pool is never overdrawn;                                   *)
(*   - that the history of a guarded request begins with the present, and  *)
(*     that one past its dependencies was entitled;                        *)
(*   - that only a request that has written is committed.                  *)
(***************************************************************************)
EXTENDS Requests, FiniteSetTheorems, TLAPS

HoldersKnown ==
  \A r \in Request :
    /\ r \in userHolds => pc[r] \notin {"idle", "arrived", "wantsUser"}
    /\ r \in userHolds /\ pc[r] = "entered" => endpoint[r] # "login"
    /\ pc[r] = "entered" => endpoint[r] # "health"
    /\ r \in userHolds /\ pc[r] = "wantsSession" => endpoint[r] \in Guarded \ {"me"}
    /\ r \in dataHolds => pc[r] \in {"session", "fetching", "answered"}

(* The connections checked out are never more than the pool opens, which   *)
(* Postgres counts against its own limit.                                  *)
PoolNotExceeded == InUse <= PoolSize

Past == {"entered", "wantsSession", "session", "fetching", "written"}

EntitledIsHistory ==
  \A r \in Request : pc[r] # "idle" /\ endpoint[r] \in Guarded =>
    /\ MayCall(sender[r], endpoint[r]) \in entitled[r]
    /\ pc[r] \in Past => TRUE \in entitled[r]

CommittedWrote ==
  \A r \in Request :
    /\ r \in committed => pc[r] \in {"written", "answered"} /\ endpoint[r] \in Writing
    /\ pc[r] = "written" => r \in committed
    /\ pc[r] = "fetching" => endpoint[r] = "overlay"

IInv ==
  /\ TypeOK
  /\ HoldersKnown
  /\ PoolNotExceeded
  /\ EntitledIsHistory
  /\ CommittedWrote
  /\ AnswersFollowAuthority
  /\ AnswersTellCommit

-----------------------------------------------------------------------------
(* A verdict is a Boolean, whoever asks.                                   *)
LEMMA MayCallIsBoolean ==
  \A a, e : MayCall(a, e) \in BOOLEAN
  BY DEF MayCall

(* Who has no valid token, is inactive or lacks the permission may not.    *)
LEMMA Barred ==
  \A a, e : a = Nobody \/ ~active[a] \/ ~Allowed(Policy, role[a], CallOf[e])
               => MayCall(a, e) = FALSE
  BY RequestsAssumption DEF MayCall

LEMMA NextMayCallIsBoolean ==
  \A a, e : MayCall(a, e)' \in BOOLEAN
  BY DEF MayCall

(* Every step keeps the types.                                             *)
LEMMA TypeStep ==
  ASSUME TypeOK, [Next]_vars
  PROVE  TypeOK'
<1>1. CASE UNCHANGED vars
  BY <1>1, MayCallIsBoolean, RequestsAssumption DEF vars, accountVars,
     poolVars, TypeOK, Step, Status, Endpoint, Guarded, Writing, Refusals
<1>2. CASE WindowEnds
  BY <1>2, MayCallIsBoolean, RequestsAssumption DEF WindowEnds, accountVars,
     poolVars, TypeOK, Step, Status, Endpoint, Guarded, Writing, Refusals
<1>3. ASSUME NEW r \in Request, NEW e \in Called,
   NEW a \in Account \cup {Nobody}, Arrive(r, e, a)
     PROVE  TypeOK'
  BY <1>3, MayCallIsBoolean, RequestsAssumption,
     RequestsAssumption DEF Arrive, Goto, accountVars, poolVars, TypeOK, Step,
        Status, Endpoint, Guarded, Writing, Refusals
<1>4. ASSUME NEW r \in Request, Proceed(r)
     PROVE  TypeOK'
  <2>1. CASE BodyError(r)
    BY <2>1, MayCallIsBoolean, RequestsAssumption DEF BodyError, Goto, Fail,
       Sent, Quiet, poolVars, accountVars, TypeOK, Step, Status, Endpoint,
          Guarded, Writing, Refusals
  <2>2. CASE ValidationError(r)
    BY <2>2, MayCallIsBoolean, RequestsAssumption DEF ValidationError, Goto,
       Fail, Sent, Quiet, poolVars, accountVars, TypeOK, Step, Status,
          Endpoint, Guarded, Writing, Refusals
  <2>3. CASE Limit(r)
    BY <2>3, MayCallIsBoolean, RequestsAssumption DEF Limit, Goto, Fail, Sent,
       poolVars, accountVars, TypeOK, Step, Status, Endpoint, Guarded,
          Writing, Refusals
  <2>4. CASE ReadToken(r)
    BY <2>4, MayCallIsBoolean, RequestsAssumption DEF ReadToken, Goto, Fail,
       Sent, Quiet, poolVars, accountVars, TypeOK, Step, Status, Endpoint,
          Guarded, Writing, Refusals
  <2>5. CASE Connect(r)
    BY <2>5, MayCallIsBoolean, RequestsAssumption DEF Connect, Goto, Sent,
       Quiet, poolVars, accountVars, TypeOK, Step, Status, Endpoint, Guarded,
          Writing, Refusals
  <2>6. CASE PoolTimesOut(r)
    BY <2>6, MayCallIsBoolean, RequestsAssumption DEF PoolTimesOut, Goto,
       Fail, Sent, Quiet, poolVars, accountVars, TypeOK, Step, Status,
          Endpoint, Guarded, Writing, Refusals
  <2>7. CASE Authorize(r)
    BY <2>7, MayCallIsBoolean, RequestsAssumption DEF Authorize, Goto, Fail,
       Sent, Quiet, poolVars, accountVars, TypeOK, Step, Status, Endpoint,
          Guarded, Writing, Refusals
  <2>8. CASE Login(r)
    BY <2>8, MayCallIsBoolean, RequestsAssumption DEF Login, Goto, Fail,
       Succeed, Sent, Quiet, poolVars, accountVars, TypeOK, Step, Status,
          Endpoint, Guarded, Writing, Refusals
  <2>9. CASE AnswerAtOnce(r)
    BY <2>9, MayCallIsBoolean, RequestsAssumption DEF AnswerAtOnce, Goto,
       Succeed, Sent, Quiet, poolVars, accountVars, TypeOK, Step, Status,
          Endpoint, Guarded, Writing, Refusals
  <2>10. CASE Enter(r)
    BY <2>10, MayCallIsBoolean, RequestsAssumption DEF Enter, Goto, Sent,
       Quiet, poolVars, accountVars, TypeOK, Step, Status, Endpoint, Guarded,
          Writing, Refusals
  <2>11. CASE RejectUpload(r)
    BY <2>11, MayCallIsBoolean, RequestsAssumption DEF RejectUpload, Goto,
       Fail, Sent, Quiet, poolVars, accountVars, TypeOK, Step, Status,
          Endpoint, Guarded, Writing, Refusals
  <2>12. CASE Health(r)
    BY <2>12, MayCallIsBoolean, RequestsAssumption DEF Health, Goto, Fail,
       Sent, Quiet, poolVars, accountVars, TypeOK, Step, Status, Endpoint,
          Guarded, Writing, Refusals
  <2>13. CASE Read(r)
    BY <2>13, MayCallIsBoolean, RequestsAssumption DEF Read, Goto, Fail,
       Succeed, Sent, Quiet, poolVars, accountVars, TypeOK, Step, Status,
          Endpoint, Guarded, Writing, Refusals
  <2>14. CASE FetchOverlay(r)
    BY <2>14, MayCallIsBoolean, RequestsAssumption DEF FetchOverlay, Goto,
       Fail, Succeed, Sent, Quiet, poolVars, accountVars, TypeOK, Step,
          Status, Endpoint, Guarded, Writing, Refusals
  <2>15. CASE Refuse(r)
    BY <2>15, MayCallIsBoolean, RequestsAssumption DEF Refuse, Goto, Fail,
       Sent, Quiet, poolVars, accountVars, TypeOK, Step, Status, Endpoint,
          Guarded, Writing, Refusals
  <2>16. CASE Commit(r)
    BY <2>16, MayCallIsBoolean, RequestsAssumption,
       NextMayCallIsBoolean DEF Commit, Goto, Sent, poolVars, accountVars,
          TypeOK, Step, Status, Endpoint, Guarded, Writing, Refusals
  <2>17. CASE Finish(r)
    BY <2>17, MayCallIsBoolean, RequestsAssumption DEF Finish, Goto, Succeed,
       Sent, Quiet, poolVars, accountVars, TypeOK, Step, Status, Endpoint,
          Guarded, Writing, Refusals
  <2>18. CASE Unhandled(r)
    BY <2>18, MayCallIsBoolean, RequestsAssumption DEF Unhandled, Goto, Fail,
       Sent, Quiet, poolVars, accountVars, TypeOK, Step, Status, Endpoint,
          Guarded, Writing, Refusals
  <2>19. CASE End(r)
    BY <2>19, MayCallIsBoolean, RequestsAssumption DEF End, Goto, poolVars,
       accountVars, TypeOK, Step, Status, Endpoint, Guarded, Writing, Refusals
  <2> QED
    BY <1>4, <2>1, <2>2, <2>3, <2>4, <2>5, <2>6, <2>7, <2>8, <2>9, <2>10,
       <2>11, <2>12, <2>13, <2>14, <2>15, <2>16, <2>17, <2>18,
          <2>19 DEF Proceed
<1> QED
  BY <1>1, <1>2, <1>3, <1>4 DEF Next

(* No request gets or keeps a connection at a place where it has none.     *)
LEMMA HoldersStep ==
  ASSUME TypeOK, HoldersKnown, [Next]_vars
  PROVE  HoldersKnown'
<1>1. CASE UNCHANGED vars
  BY <1>1 DEF vars, accountVars, poolVars, TypeOK, HoldersKnown, Guarded
<1>2. CASE WindowEnds
  BY <1>2 DEF WindowEnds, accountVars, poolVars, TypeOK, HoldersKnown, Guarded
<1>3. ASSUME NEW r \in Request, NEW e \in Called,
   NEW a \in Account \cup {Nobody}, Arrive(r, e, a)
     PROVE  HoldersKnown'
  BY <1>3, RequestsAssumption DEF Arrive, Goto, accountVars, poolVars, TypeOK,
     HoldersKnown, Guarded
<1>4. ASSUME NEW r \in Request, Proceed(r)
     PROVE  HoldersKnown'
  <2>1. CASE BodyError(r)
    BY <2>1 DEF BodyError, Goto, Fail, Sent, Quiet, poolVars, accountVars,
       TypeOK, HoldersKnown, Guarded
  <2>2. CASE ValidationError(r)
    BY <2>2 DEF ValidationError, Goto, Fail, Sent, Quiet, poolVars,
       accountVars, TypeOK, HoldersKnown, Guarded
  <2>3. CASE Limit(r)
    BY <2>3 DEF Limit, Goto, Fail, Sent, poolVars, accountVars, TypeOK,
       HoldersKnown, Guarded
  <2>4. CASE ReadToken(r)
    BY <2>4 DEF ReadToken, Goto, Fail, Sent, Quiet, poolVars, accountVars,
       TypeOK, HoldersKnown, Guarded
  <2>5. CASE Connect(r)
    BY <2>5 DEF Connect, Goto, Sent, Quiet, poolVars, accountVars, TypeOK,
       HoldersKnown, Guarded
  <2>6. CASE PoolTimesOut(r)
    BY <2>6 DEF PoolTimesOut, Goto, Fail, Sent, Quiet, poolVars, accountVars,
       TypeOK, HoldersKnown, Guarded
  <2>7. CASE Authorize(r)
    BY <2>7 DEF Authorize, Goto, Fail, Sent, Quiet, poolVars, accountVars,
       TypeOK, HoldersKnown, Guarded
  <2>8. CASE Login(r)
    BY <2>8 DEF Login, Goto, Fail, Succeed, Sent, Quiet, poolVars,
       accountVars, TypeOK, HoldersKnown, Guarded
  <2>9. CASE AnswerAtOnce(r)
    BY <2>9 DEF AnswerAtOnce, Goto, Succeed, Sent, Quiet, poolVars,
       accountVars, TypeOK, HoldersKnown, Guarded
  <2>10. CASE Enter(r)
    BY <2>10 DEF Enter, Goto, Sent, Quiet, poolVars, accountVars, TypeOK,
       HoldersKnown, Guarded
  <2>11. CASE RejectUpload(r)
    BY <2>11 DEF RejectUpload, Goto, Fail, Sent, Quiet, poolVars, accountVars,
       TypeOK, HoldersKnown, Guarded
  <2>12. CASE Health(r)
    BY <2>12 DEF Health, Goto, Fail, Sent, Quiet, poolVars, accountVars,
       TypeOK, HoldersKnown, Guarded
  <2>13. CASE Read(r)
    BY <2>13 DEF Read, Goto, Fail, Succeed, Sent, Quiet, poolVars,
       accountVars, TypeOK, HoldersKnown, Guarded
  <2>14. CASE FetchOverlay(r)
    BY <2>14 DEF FetchOverlay, Goto, Fail, Succeed, Sent, Quiet, poolVars,
       accountVars, TypeOK, HoldersKnown, Guarded
  <2>15. CASE Refuse(r)
    BY <2>15 DEF Refuse, Goto, Fail, Sent, Quiet, poolVars, accountVars,
       TypeOK, HoldersKnown, Guarded
  <2>16. CASE Commit(r)
    BY <2>16 DEF Commit, Goto, Sent, poolVars, accountVars, TypeOK,
       HoldersKnown, Guarded
  <2>17. CASE Finish(r)
    BY <2>17 DEF Finish, Goto, Succeed, Sent, Quiet, poolVars, accountVars,
       TypeOK, HoldersKnown, Guarded
  <2>18. CASE Unhandled(r)
    BY <2>18 DEF Unhandled, Goto, Fail, Sent, Quiet, poolVars, accountVars,
       TypeOK, HoldersKnown, Guarded
  <2>19. CASE End(r)
    BY <2>19 DEF End, Goto, poolVars, accountVars, TypeOK, HoldersKnown,
       Guarded
  <2> QED
    BY <1>4, <2>1, <2>2, <2>3, <2>4, <2>5, <2>6, <2>7, <2>8, <2>9, <2>10,
       <2>11, <2>12, <2>13, <2>14, <2>15, <2>16, <2>17, <2>18,
          <2>19 DEF Proceed
<1> QED
  BY <1>1, <1>2, <1>3, <1>4 DEF Next

(* Only a commit makes a request committed, and it stays so until it ends.  *)
LEMMA CommittedStep ==
  ASSUME TypeOK, CommittedWrote, [Next]_vars
  PROVE  CommittedWrote'
<1>1. CASE UNCHANGED vars
  BY <1>1 DEF vars, accountVars, poolVars, TypeOK, CommittedWrote
<1>2. CASE WindowEnds
  BY <1>2 DEF WindowEnds, accountVars, poolVars, TypeOK, CommittedWrote
<1>3. ASSUME NEW r \in Request, NEW e \in Called,
   NEW a \in Account \cup {Nobody}, Arrive(r, e, a)
     PROVE  CommittedWrote'
  BY <1>3, RequestsAssumption DEF Arrive, Goto, accountVars, poolVars, TypeOK,
     CommittedWrote
<1>4. ASSUME NEW r \in Request, Proceed(r)
     PROVE  CommittedWrote'
  <2>1. CASE BodyError(r)
    BY <2>1 DEF BodyError, Goto, Fail, Sent, Quiet, poolVars, accountVars,
       TypeOK, CommittedWrote
  <2>2. CASE ValidationError(r)
    BY <2>2 DEF ValidationError, Goto, Fail, Sent, Quiet, poolVars,
       accountVars, TypeOK, CommittedWrote
  <2>3. CASE Limit(r)
    BY <2>3 DEF Limit, Goto, Fail, Sent, poolVars, accountVars, TypeOK,
       CommittedWrote
  <2>4. CASE ReadToken(r)
    BY <2>4 DEF ReadToken, Goto, Fail, Sent, Quiet, poolVars, accountVars,
       TypeOK, CommittedWrote
  <2>5. CASE Connect(r)
    BY <2>5 DEF Connect, Goto, Sent, Quiet, poolVars, accountVars, TypeOK,
       CommittedWrote
  <2>6. CASE PoolTimesOut(r)
    BY <2>6 DEF PoolTimesOut, Goto, Fail, Sent, Quiet, poolVars, accountVars,
       TypeOK, CommittedWrote
  <2>7. CASE Authorize(r)
    BY <2>7 DEF Authorize, Goto, Fail, Sent, Quiet, poolVars, accountVars,
       TypeOK, CommittedWrote
  <2>8. CASE Login(r)
    BY <2>8 DEF Login, Goto, Fail, Succeed, Sent, Quiet, poolVars,
       accountVars, TypeOK, CommittedWrote
  <2>9. CASE AnswerAtOnce(r)
    BY <2>9 DEF AnswerAtOnce, Goto, Succeed, Sent, Quiet, poolVars,
       accountVars, TypeOK, CommittedWrote
  <2>10. CASE Enter(r)
    BY <2>10 DEF Enter, Goto, Sent, Quiet, poolVars, accountVars, TypeOK,
       CommittedWrote
  <2>11. CASE RejectUpload(r)
    BY <2>11 DEF RejectUpload, Goto, Fail, Sent, Quiet, poolVars, accountVars,
       TypeOK, CommittedWrote
  <2>12. CASE Health(r)
    BY <2>12 DEF Health, Goto, Fail, Sent, Quiet, poolVars, accountVars,
       TypeOK, CommittedWrote
  <2>13. CASE Read(r)
    BY <2>13 DEF Read, Goto, Fail, Succeed, Sent, Quiet, poolVars,
       accountVars, TypeOK, CommittedWrote
  <2>14. CASE FetchOverlay(r)
    BY <2>14 DEF FetchOverlay, Goto, Fail, Succeed, Sent, Quiet, poolVars,
       accountVars, TypeOK, CommittedWrote
  <2>15. CASE Refuse(r)
    BY <2>15 DEF Refuse, Goto, Fail, Sent, Quiet, poolVars, accountVars,
       TypeOK, CommittedWrote
  <2>16. CASE Commit(r)
    BY <2>16 DEF Commit, Goto, Sent, poolVars, accountVars, TypeOK,
       CommittedWrote
  <2>17. CASE Finish(r)
    BY <2>17 DEF Finish, Goto, Succeed, Sent, Quiet, poolVars, accountVars,
       TypeOK, CommittedWrote
  <2>18. CASE Unhandled(r)
    BY <2>18 DEF Unhandled, Goto, Fail, Sent, Quiet, poolVars, accountVars,
       TypeOK, CommittedWrote
  <2>19. CASE End(r)
    BY <2>19 DEF End, Goto, poolVars, accountVars, TypeOK, CommittedWrote
  <2> QED
    BY <1>4, <2>1, <2>2, <2>3, <2>4, <2>5, <2>6, <2>7, <2>8, <2>9, <2>10,
       <2>11, <2>12, <2>13, <2>14, <2>15, <2>16, <2>17, <2>18,
          <2>19 DEF Proceed
<1> QED
  BY <1>1, <1>2, <1>3, <1>4 DEF Next

(* Answers given before a commit and after it tell the difference.          *)
LEMMA TellStep ==
  ASSUME TypeOK, CommittedWrote, AnswersTellCommit, [Next]_vars
  PROVE  AnswersTellCommit'
<1>1. CASE UNCHANGED vars
  BY <1>1 DEF vars, accountVars, poolVars, TypeOK, CommittedWrote,
     AnswersTellCommit, Guarded, Writing, Cached, Refusals
<1>2. CASE WindowEnds
  BY <1>2 DEF WindowEnds, accountVars, poolVars, TypeOK, CommittedWrote,
     AnswersTellCommit, Guarded, Writing, Cached, Refusals
<1>3. ASSUME NEW r \in Request, NEW e \in Called,
   NEW a \in Account \cup {Nobody}, Arrive(r, e, a)
     PROVE  AnswersTellCommit'
  BY <1>3, RequestsAssumption DEF Arrive, Goto, accountVars, poolVars, TypeOK,
     CommittedWrote, AnswersTellCommit, Guarded, Writing, Cached, Refusals
<1>4. ASSUME NEW r \in Request, Proceed(r)
     PROVE  AnswersTellCommit'
  <2>1. CASE BodyError(r)
    BY <2>1 DEF BodyError, Goto, Fail, Sent, Quiet, poolVars, accountVars,
       TypeOK, CommittedWrote, AnswersTellCommit, Guarded, Writing, Cached,
          Refusals
  <2>2. CASE ValidationError(r)
    BY <2>2 DEF ValidationError, Goto, Fail, Sent, Quiet, poolVars,
       accountVars, TypeOK, CommittedWrote, AnswersTellCommit, Guarded,
          Writing, Cached, Refusals
  <2>3. CASE Limit(r)
    BY <2>3 DEF Limit, Goto, Fail, Sent, poolVars, accountVars, TypeOK,
       CommittedWrote, AnswersTellCommit, Guarded, Writing, Cached, Refusals
  <2>4. CASE ReadToken(r)
    BY <2>4 DEF ReadToken, Goto, Fail, Sent, Quiet, poolVars, accountVars,
       TypeOK, CommittedWrote, AnswersTellCommit, Guarded, Writing, Cached,
          Refusals
  <2>5. CASE Connect(r)
    BY <2>5 DEF Connect, Goto, Sent, Quiet, poolVars, accountVars, TypeOK,
       CommittedWrote, AnswersTellCommit, Guarded, Writing, Cached, Refusals
  <2>6. CASE PoolTimesOut(r)
    BY <2>6 DEF PoolTimesOut, Goto, Fail, Sent, Quiet, poolVars, accountVars,
       TypeOK, CommittedWrote, AnswersTellCommit, Guarded, Writing, Cached,
          Refusals
  <2>7. CASE Authorize(r)
    BY <2>7 DEF Authorize, Goto, Fail, Sent, Quiet, poolVars, accountVars,
       TypeOK, CommittedWrote, AnswersTellCommit, Guarded, Writing, Cached,
          Refusals
  <2>8. CASE Login(r)
    BY <2>8 DEF Login, Goto, Fail, Succeed, Sent, Quiet, poolVars,
       accountVars, TypeOK, CommittedWrote, AnswersTellCommit, Guarded,
          Writing, Cached, Refusals
  <2>9. CASE AnswerAtOnce(r)
    BY <2>9 DEF AnswerAtOnce, Goto, Succeed, Sent, Quiet, poolVars,
       accountVars, TypeOK, CommittedWrote, AnswersTellCommit, Guarded,
          Writing, Cached, Refusals
  <2>10. CASE Enter(r)
    BY <2>10 DEF Enter, Goto, Sent, Quiet, poolVars, accountVars, TypeOK,
       CommittedWrote, AnswersTellCommit, Guarded, Writing, Cached, Refusals
  <2>11. CASE RejectUpload(r)
    BY <2>11 DEF RejectUpload, Goto, Fail, Sent, Quiet, poolVars, accountVars,
       TypeOK, CommittedWrote, AnswersTellCommit, Guarded, Writing, Cached,
          Refusals
  <2>12. CASE Health(r)
    BY <2>12 DEF Health, Goto, Fail, Sent, Quiet, poolVars, accountVars,
       TypeOK, CommittedWrote, AnswersTellCommit, Guarded, Writing, Cached,
          Refusals
  <2>13. CASE Read(r)
    BY <2>13 DEF Read, Goto, Fail, Succeed, Sent, Quiet, poolVars,
       accountVars, TypeOK, CommittedWrote, AnswersTellCommit, Guarded,
          Writing, Cached, Refusals
  <2>14. CASE FetchOverlay(r)
    BY <2>14 DEF FetchOverlay, Goto, Fail, Succeed, Sent, Quiet, poolVars,
       accountVars, TypeOK, CommittedWrote, AnswersTellCommit, Guarded,
          Writing, Cached, Refusals
  <2>15. CASE Refuse(r)
    BY <2>15 DEF Refuse, Goto, Fail, Sent, Quiet, poolVars, accountVars,
       TypeOK, CommittedWrote, AnswersTellCommit, Guarded, Writing, Cached,
          Refusals
  <2>16. CASE Commit(r)
    BY <2>16 DEF Commit, Goto, Sent, poolVars, accountVars, TypeOK,
       CommittedWrote, AnswersTellCommit, Guarded, Writing, Cached, Refusals
  <2>17. CASE Finish(r)
    BY <2>17 DEF Finish, Goto, Succeed, Sent, Quiet, poolVars, accountVars,
       TypeOK, CommittedWrote, AnswersTellCommit, Guarded, Writing, Cached,
          Refusals
  <2>18. CASE Unhandled(r)
    BY <2>18 DEF Unhandled, Goto, Fail, Sent, Quiet, poolVars, accountVars,
       TypeOK, CommittedWrote, AnswersTellCommit, Guarded, Writing, Cached,
          Refusals
  <2>19. CASE End(r)
    BY <2>19 DEF End, Goto, poolVars, accountVars, TypeOK, CommittedWrote,
       AnswersTellCommit, Guarded, Writing, Cached, Refusals
  <2> QED
    BY <1>4, <2>1, <2>2, <2>3, <2>4, <2>5, <2>6, <2>7, <2>8, <2>9, <2>10,
       <2>11, <2>12, <2>13, <2>14, <2>15, <2>16, <2>17, <2>18,
          <2>19 DEF Proceed
<1> QED
  BY <1>1, <1>2, <1>3, <1>4 DEF Next

(* The present is always part of the history.                              *)
LEMMA HistoryStep ==
  ASSUME TypeOK, EntitledIsHistory, [Next]_vars
  PROVE  EntitledIsHistory'
<1>1. CASE UNCHANGED vars
  BY <1>1, MayCallIsBoolean DEF vars, accountVars, poolVars, TypeOK,
     EntitledIsHistory, Past, MayCall, Guarded
<1>2. CASE WindowEnds
  BY <1>2, MayCallIsBoolean DEF WindowEnds, accountVars, poolVars, TypeOK,
     EntitledIsHistory, Past, MayCall, Guarded
<1>3. ASSUME NEW r \in Request, NEW e \in Called,
   NEW a \in Account \cup {Nobody}, Arrive(r, e, a)
     PROVE  EntitledIsHistory'
  BY <1>3, MayCallIsBoolean, RequestsAssumption DEF Arrive, Goto, accountVars,
     poolVars, TypeOK, EntitledIsHistory, Past, MayCall, Guarded
<1>4. ASSUME NEW r \in Request, Proceed(r)
     PROVE  EntitledIsHistory'
  <2>1. CASE BodyError(r)
    BY <2>1, MayCallIsBoolean DEF BodyError, Goto, Fail, Sent, Quiet,
       poolVars, accountVars, TypeOK, EntitledIsHistory, Past, MayCall, Guarded
  <2>2. CASE ValidationError(r)
    BY <2>2, MayCallIsBoolean DEF ValidationError, Goto, Fail, Sent, Quiet,
       poolVars, accountVars, TypeOK, EntitledIsHistory, Past, MayCall, Guarded
  <2>3. CASE Limit(r)
    BY <2>3, MayCallIsBoolean DEF Limit, Goto, Fail, Sent, poolVars,
       accountVars, TypeOK, EntitledIsHistory, Past, MayCall, Guarded
  <2>4. CASE ReadToken(r)
    BY <2>4, MayCallIsBoolean, ZenonT(30) DEF ReadToken, Goto, Fail, Sent, Quiet,
       poolVars, accountVars, TypeOK, EntitledIsHistory, Past, MayCall, Guarded
  <2>5. CASE Connect(r)
    BY <2>5, MayCallIsBoolean, ZenonT(30) DEF Connect, Goto, Sent, Quiet, poolVars,
       accountVars, TypeOK, EntitledIsHistory, Past, MayCall, Guarded
  <2>6. CASE PoolTimesOut(r)
    BY <2>6, MayCallIsBoolean DEF PoolTimesOut, Goto, Fail, Sent, Quiet,
       poolVars, accountVars, TypeOK, EntitledIsHistory, Past, MayCall, Guarded
  <2>7. CASE Authorize(r)
    BY <2>7, MayCallIsBoolean, ZenonT(30) DEF Authorize, Goto, Fail, Sent, Quiet,
       poolVars, accountVars, TypeOK, EntitledIsHistory, Past, MayCall, Guarded
  <2>8. CASE Login(r)
    BY <2>8, MayCallIsBoolean DEF Login, Goto, Fail, Succeed, Sent, Quiet,
       poolVars, accountVars, TypeOK, EntitledIsHistory, Past, MayCall, Guarded
  <2>9. CASE AnswerAtOnce(r)
    BY <2>9, MayCallIsBoolean DEF AnswerAtOnce, Goto, Succeed, Sent, Quiet,
       poolVars, accountVars, TypeOK, EntitledIsHistory, Past, MayCall, Guarded
  <2>10. CASE Enter(r)
    BY <2>10, MayCallIsBoolean DEF Enter, Goto, Sent, Quiet, poolVars,
       accountVars, TypeOK, EntitledIsHistory, Past, MayCall, Guarded
  <2>11. CASE RejectUpload(r)
    BY <2>11, MayCallIsBoolean DEF RejectUpload, Goto, Fail, Sent, Quiet,
       poolVars, accountVars, TypeOK, EntitledIsHistory, Past, MayCall, Guarded
  <2>12. CASE Health(r)
    BY <2>12, MayCallIsBoolean DEF Health, Goto, Fail, Sent, Quiet, poolVars,
       accountVars, TypeOK, EntitledIsHistory, Past, MayCall, Guarded
  <2>13. CASE Read(r)
    BY <2>13, MayCallIsBoolean DEF Read, Goto, Fail, Succeed, Sent, Quiet,
       poolVars, accountVars, TypeOK, EntitledIsHistory, Past, MayCall, Guarded
  <2>14. CASE FetchOverlay(r)
    BY <2>14, MayCallIsBoolean DEF FetchOverlay, Goto, Fail, Succeed, Sent,
       Quiet, poolVars, accountVars, TypeOK, EntitledIsHistory, Past, MayCall,
          Guarded
  <2>15. CASE Refuse(r)
    BY <2>15, MayCallIsBoolean DEF Refuse, Goto, Fail, Sent, Quiet, poolVars,
       accountVars, TypeOK, EntitledIsHistory, Past, MayCall, Guarded
  <2>16. CASE Commit(r)
    BY <2>16, MayCallIsBoolean DEF Commit, Goto, Sent, poolVars, accountVars,
       TypeOK, EntitledIsHistory, Past, MayCall, Guarded
  <2>17. CASE Finish(r)
    BY <2>17, MayCallIsBoolean DEF Finish, Goto, Succeed, Sent, Quiet,
       poolVars, accountVars, TypeOK, EntitledIsHistory, Past, MayCall, Guarded
  <2>18. CASE Unhandled(r)
    BY <2>18, MayCallIsBoolean DEF Unhandled, Goto, Fail, Sent, Quiet,
       poolVars, accountVars, TypeOK, EntitledIsHistory, Past, MayCall, Guarded
  <2>19. CASE End(r)
    BY <2>19, MayCallIsBoolean DEF End, Goto, poolVars, accountVars, TypeOK,
       EntitledIsHistory, Past, MayCall, Guarded
  <2> QED
    BY <1>4, <2>1, <2>2, <2>3, <2>4, <2>5, <2>6, <2>7, <2>8, <2>9, <2>10,
       <2>11, <2>12, <2>13, <2>14, <2>15, <2>16, <2>17, <2>18,
          <2>19 DEF Proceed
<1> QED
  BY <1>1, <1>2, <1>3, <1>4 DEF Next

(* A refusal that commits nothing, and that has the history on its side    *)
(* where it speaks of the sender, keeps answers true to it.                *)
LEMMA RefusalFollows ==
  ASSUME TypeOK, AnswersFollowAuthority, NEW r \in Request, NEW status \in Status,
         Fail(r, status), Sent, Quiet, r \notin committed, status # "ok",
         status = "401" \/ (status = "403" /\ endpoint[r] # "manage") =>
           FALSE \in entitled[r]
  PROVE  AnswersFollowAuthority'
<1>1. /\ endpoint' = endpoint /\ committed' = committed /\ entitled' = entitled
      /\ pc' = [pc EXCEPT ![r] = "answered"]
      /\ answer' = [answer EXCEPT ![r] = status]
  BY DEF Sent, Quiet, Fail, Goto
<1>2. ASSUME NEW q \in Request, q # r
      PROVE  pc'[q] = pc[q] /\ answer'[q] = answer[q]
  BY <1>1, <1>2 DEF TypeOK
<1>3. answer'[r] = status
  BY <1>1 DEF TypeOK
<1> QED
  BY <1>1, <1>2, <1>3 DEF AnswersFollowAuthority

(* Answers with data come from past the dependencies, refusals from them.  *)
LEMMA AuthorityStep ==
  ASSUME TypeOK, EntitledIsHistory, CommittedWrote, AnswersFollowAuthority,
     [Next]_vars
  PROVE  AnswersFollowAuthority'
<1>1. CASE UNCHANGED vars
  BY <1>1 DEF vars, accountVars, poolVars, TypeOK, EntitledIsHistory,
     CommittedWrote, AnswersFollowAuthority, Past, Guarded, Writing, Refusals
<1>2. CASE WindowEnds
  BY <1>2 DEF WindowEnds, accountVars, poolVars, TypeOK, EntitledIsHistory,
     CommittedWrote, AnswersFollowAuthority, Past, Guarded, Writing, Refusals
<1>3. ASSUME NEW r \in Request, NEW e \in Called,
   NEW a \in Account \cup {Nobody}, Arrive(r, e, a)
     PROVE  AnswersFollowAuthority'
  BY <1>3, RequestsAssumption DEF Arrive, Goto, accountVars, poolVars, TypeOK,
     EntitledIsHistory, CommittedWrote, AnswersFollowAuthority, Past, Guarded,
        Writing, Refusals
<1>4. ASSUME NEW r \in Request, Proceed(r)
     PROVE  AnswersFollowAuthority'
  <2>1. CASE BodyError(r)
    BY <2>1 DEF BodyError, Goto, Fail, Sent, Quiet, poolVars, accountVars,
       TypeOK, EntitledIsHistory, CommittedWrote, AnswersFollowAuthority,
          Past, Guarded, Writing, Refusals
  <2>2. CASE ValidationError(r)
    BY <2>2 DEF ValidationError, Goto, Fail, Sent, Quiet, poolVars,
       accountVars, TypeOK, EntitledIsHistory, CommittedWrote,
          AnswersFollowAuthority, Past, Guarded, Writing, Refusals
  <2>3. CASE Limit(r)
    BY <2>3 DEF Limit, Goto, Fail, Sent, poolVars, accountVars, TypeOK,
       EntitledIsHistory, CommittedWrote, AnswersFollowAuthority, Past,
          Guarded, Writing, Refusals
  <2>4. CASE ReadToken(r)
    <3>1. CASE sender[r] = Nobody
      <4>1. FALSE \in entitled[r]
        BY <2>4, <3>1, Barred DEF EntitledIsHistory, ReadToken
      <4>2. r \notin committed /\ Fail(r, "401") /\ Sent /\ Quiet
        BY <2>4, <3>1 DEF CommittedWrote, ReadToken
      <4> QED
        BY <4>1, <4>2, RefusalFollows DEF Status
    <3>2. CASE sender[r] # Nobody
      BY <2>4, <3>2 DEF ReadToken, Goto, Sent, Quiet, TypeOK, AnswersFollowAuthority
    <3> QED
      BY <3>1, <3>2
  <2>5. CASE Connect(r)
    BY <2>5 DEF Connect, Goto, Sent, Quiet, poolVars, accountVars, TypeOK,
       EntitledIsHistory, CommittedWrote, AnswersFollowAuthority, Past,
          Guarded, Writing, Refusals
  <2>6. CASE PoolTimesOut(r)
    BY <2>6 DEF PoolTimesOut, Goto, Fail, Sent, Quiet, poolVars, accountVars,
       TypeOK, EntitledIsHistory, CommittedWrote, AnswersFollowAuthority,
          Past, Guarded, Writing, Refusals
  <2>7. CASE Authorize(r)
    <3>1. CASE MayCall(sender[r], endpoint[r])
      <4>1. Goto(r, "entered") /\ Sent /\ Quiet /\ UNCHANGED answer
        BY <2>7, <3>1 DEF Authorize, MayCall
      <4> QED
        BY <4>1 DEF Goto, Sent, Quiet, TypeOK, AnswersFollowAuthority
    <3>2. CASE ~MayCall(sender[r], endpoint[r])
      <4>1. PICK status \in {"401", "403"} : Fail(r, status) /\ Sent /\ Quiet
        BY <2>7, <3>2 DEF Authorize
      <4>2. FALSE \in entitled[r]
        BY <2>7, <3>2, MayCallIsBoolean DEF EntitledIsHistory, Authorize
      <4>3. r \notin committed
        BY <2>7 DEF CommittedWrote, Authorize
      <4> QED
        BY <4>1, <4>2, <4>3, RefusalFollows DEF Status
    <3> QED
      BY <3>1, <3>2
  <2>8. CASE Login(r)
    BY <2>8 DEF Login, Goto, Fail, Succeed, Sent, Quiet, poolVars,
       accountVars, TypeOK, EntitledIsHistory, CommittedWrote,
          AnswersFollowAuthority, Past, Guarded, Writing, Refusals
  <2>9. CASE AnswerAtOnce(r)
    BY <2>9 DEF AnswerAtOnce, Goto, Succeed, Sent, Quiet, poolVars,
       accountVars, TypeOK, EntitledIsHistory, CommittedWrote,
          AnswersFollowAuthority, Past, Guarded, Writing, Refusals
  <2>10. CASE Enter(r)
    BY <2>10 DEF Enter, Goto, Sent, Quiet, poolVars, accountVars, TypeOK,
       EntitledIsHistory, CommittedWrote, AnswersFollowAuthority, Past,
          Guarded, Writing, Refusals
  <2>11. CASE RejectUpload(r)
    BY <2>11 DEF RejectUpload, Goto, Fail, Sent, Quiet, poolVars, accountVars,
       TypeOK, EntitledIsHistory, CommittedWrote, AnswersFollowAuthority,
          Past, Guarded, Writing, Refusals
  <2>12. CASE Health(r)
    BY <2>12 DEF Health, Goto, Fail, Sent, Quiet, poolVars, accountVars,
       TypeOK, EntitledIsHistory, CommittedWrote, AnswersFollowAuthority,
          Past, Guarded, Writing, Refusals
  <2>13. CASE Read(r)
    BY <2>13, ZenonT(30) DEF Read, Goto, Fail, Succeed, Sent, Quiet, poolVars,
       accountVars, TypeOK, EntitledIsHistory, CommittedWrote,
          AnswersFollowAuthority, Past, Guarded, Writing, Refusals
  <2>14. CASE FetchOverlay(r)
    BY <2>14 DEF FetchOverlay, Goto, Fail, Succeed, Sent, Quiet, poolVars,
       accountVars, TypeOK, EntitledIsHistory, CommittedWrote,
          AnswersFollowAuthority, Past, Guarded, Writing, Refusals
  <2>15. CASE Refuse(r)
    <3>1. PICK status \in Refusals[endpoint[r]] : Fail(r, status) /\ Sent /\ Quiet
      BY <2>15 DEF Refuse
    <3>2. /\ status \in {"400", "403", "404", "409"}
          /\ status = "403" => endpoint[r] = "manage"
      BY <2>15 DEF Refuse, Refusals, Writing
    <3>3. r \notin committed
      BY <2>15 DEF CommittedWrote, Refuse
    <3> QED
      BY <3>1, <3>2, <3>3, RefusalFollows DEF Status
  <2>16. CASE Commit(r)
    BY <2>16 DEF Commit, Goto, Sent, poolVars, accountVars, TypeOK,
       EntitledIsHistory, CommittedWrote, AnswersFollowAuthority, Past,
          Guarded, Writing, Refusals
  <2>17. CASE Finish(r)
    BY <2>17 DEF Finish, Goto, Succeed, Sent, Quiet, poolVars, accountVars,
       TypeOK, EntitledIsHistory, CommittedWrote, AnswersFollowAuthority,
          Past, Guarded, Writing, Refusals
  <2>18. CASE Unhandled(r)
    BY <2>18 DEF Unhandled, Goto, Fail, Sent, Quiet, poolVars, accountVars,
       TypeOK, EntitledIsHistory, CommittedWrote, AnswersFollowAuthority,
          Past, Guarded, Writing, Refusals
  <2>19. CASE End(r)
    BY <2>19 DEF End, Goto, poolVars, accountVars, TypeOK, EntitledIsHistory,
       CommittedWrote, AnswersFollowAuthority, Past, Guarded, Writing, Refusals
  <2> QED
    BY <1>4, <2>1, <2>2, <2>3, <2>4, <2>5, <2>6, <2>7, <2>8, <2>9, <2>10,
       <2>11, <2>12, <2>13, <2>14, <2>15, <2>16, <2>17, <2>18,
          <2>19 DEF Proceed
<1> QED
  BY <1>1, <1>2, <1>3, <1>4 DEF Next

-----------------------------------------------------------------------------
(* Connections are counted in natural numbers.                             *)
LEMMA HeldIsCounted ==
  \A S \in SUBSET Request : IsFiniteSet(S) /\ Cardinality(S) \in Nat
  BY RequestsAssumption, FS_Subset, FS_CardinalityType

(* Connect alone takes a connection out of the pool.                       *)
LEMMA OthersTakeNone ==
  ASSUME [Next]_vars, ~\E r \in Request : Connect(r)
  PROVE  userHolds' \subseteq userHolds /\ dataHolds' \subseteq dataHolds
<1>1. CASE UNCHANGED vars
  BY <1>1 DEF vars, poolVars
<1>2. CASE WindowEnds
  BY <1>2 DEF WindowEnds, poolVars
<1>3. CASE \E r \in Request, e \in Called, a \in Account \cup {Nobody} : Arrive(r, e, a)
  BY <1>3 DEF Arrive, poolVars
<1>4. ASSUME NEW r \in Request, Proceed(r), ~Connect(r)
      PROVE  userHolds' \subseteq userHolds /\ dataHolds' \subseteq dataHolds
  <2>1. CASE \/ BodyError(r) \/ ValidationError(r) \/ Limit(r) \/ ReadToken(r)
             \/ PoolTimesOut(r) \/ Authorize(r) \/ RejectUpload(r) \/ Health(r)
             \/ Refuse(r) \/ Unhandled(r)
    BY <2>1 DEF BodyError, ValidationError, Limit, ReadToken, PoolTimesOut, Authorize,
         RejectUpload, Health, Refuse, Unhandled, Fail, poolVars
  <2>2. CASE Login(r) \/ AnswerAtOnce(r) \/ Enter(r) \/ Read(r) \/ FetchOverlay(r) \/ Finish(r)
    BY <2>2 DEF Login, AnswerAtOnce, Enter, Read, FetchOverlay, Finish, Succeed, Fail, poolVars
  <2>3. CASE Commit(r) \/ End(r)
    BY <2>3 DEF Commit, End
  <2> QED
    BY <1>4, <2>1, <2>2, <2>3 DEF Proceed
<1> QED
  BY <1>1, <1>2, <1>3, <1>4 DEF Next

(* No step overdraws the pool.                                             *)
LEMMA PoolStep ==
  ASSUME TypeOK, TypeOK', PoolNotExceeded, [Next]_vars
  PROVE  PoolNotExceeded'
<1>1. /\ userHolds \in SUBSET Request /\ dataHolds \in SUBSET Request
      /\ IsFiniteSet(userHolds) /\ IsFiniteSet(dataHolds)
      /\ Cardinality(userHolds) \in Nat /\ Cardinality(dataHolds) \in Nat
      /\ Cardinality(userHolds') \in Nat /\ Cardinality(dataHolds') \in Nat
      /\ PoolSize \in Nat
  BY HeldIsCounted, RequestsAssumption DEF TypeOK
<1>2. ASSUME NEW r \in Request, Connect(r)
      PROVE  PoolNotExceeded'
  <2>1. InUse < PoolSize
    BY <1>2 DEF Connect
  <2>2. CASE userHolds' = userHolds \cup {r} /\ dataHolds' = dataHolds
    <3>0. Cardinality(userHolds \cup {r}) = IF r \in userHolds THEN Cardinality(userHolds)
                                     ELSE Cardinality(userHolds) + 1
      BY <1>1, FS_AddElement
    <3>1. Cardinality(userHolds') <= Cardinality(userHolds) + 1
      BY <1>1, <2>2, <3>0
    <3> QED
      BY <1>1, <2>1, <2>2, <3>1 DEF PoolNotExceeded, InUse
  <2>3. CASE dataHolds' = dataHolds \cup {r} /\ userHolds' = userHolds
    <3>0. Cardinality(dataHolds \cup {r}) = IF r \in dataHolds THEN Cardinality(dataHolds)
                                     ELSE Cardinality(dataHolds) + 1
      BY <1>1, FS_AddElement
    <3>1. Cardinality(dataHolds') <= Cardinality(dataHolds) + 1
      BY <1>1, <2>3, <3>0
    <3> QED
      BY <1>1, <2>1, <2>3, <3>1 DEF PoolNotExceeded, InUse
  <2> QED
    BY <1>2, <2>2, <2>3 DEF Connect
<1>3. CASE ~\E r \in Request : Connect(r)
  <2>1. userHolds' \subseteq userHolds /\ dataHolds' \subseteq dataHolds
    BY <1>3, OthersTakeNone
  <2>2. Cardinality(userHolds') <= Cardinality(userHolds)
    BY <1>1, <2>1, FS_Subset
  <2>3. Cardinality(dataHolds') <= Cardinality(dataHolds)
    BY <1>1, <2>1, FS_Subset
  <2> QED
    BY <1>1, <2>2, <2>3 DEF PoolNotExceeded, InUse
<1> QED
  BY <1>2, <1>3

(* The invariant holds when the api starts.                                *)
LEMMA InitInvariant == Init => IInv
<1> SUFFICES ASSUME Init PROVE IInv
  OBVIOUS
<1>1. TypeOK
  BY RequestsAssumption DEF Init, TypeOK, Step, Status, Endpoint
<1>2. PoolNotExceeded
  BY RequestsAssumption, FS_EmptySet DEF Init, PoolNotExceeded, InUse
<1> QED
  BY <1>1, <1>2 DEF Init, IInv, TypeOK, HoldersKnown, EntitledIsHistory, CommittedWrote,
       AnswersFollowAuthority, AnswersTellCommit

(* Every step keeps it.                                                    *)
LEMMA StepInvariant == IInv /\ [Next]_vars => IInv'
<1> SUFFICES ASSUME IInv, [Next]_vars PROVE IInv'
  OBVIOUS
<1>1. TypeOK'
  BY TypeStep DEF IInv
<1> QED
  BY <1>1, HoldersStep, PoolStep, HistoryStep, CommittedStep, AuthorityStep, TellStep
  DEF IInv

(* If no request in flight holds a connection without waiting, those that  *)
(* hold one wait for a second, and each of them holds one only.            *)
LEMMA HoldersLeaveOne ==
  ASSUME TypeOK, HoldersKnown
  PROVE  ConnectionsSuffice
<1> SUFFICES ASSUME Cardinality(Nesting) < PoolSize,
                    \A r \in InFlight \ Waiting : r \notin userHolds \cup dataHolds
             PROVE  InUse < PoolSize
  BY DEF ConnectionsSuffice
<1>1. dataHolds = {}
  BY DEF TypeOK, HoldersKnown, InFlight, Waiting
<1>2. userHolds \subseteq Nesting /\ Nesting \subseteq Request
  BY DEF TypeOK, HoldersKnown, InFlight, Waiting, Nesting
<1>3. Cardinality(dataHolds) = 0
  BY <1>1, FS_EmptySet
<1>4. /\ Cardinality(userHolds) <= Cardinality(Nesting)
      /\ Cardinality(userHolds) \in Nat /\ Cardinality(Nesting) \in Nat
  BY <1>2, HeldIsCounted, FS_Subset
<1> QED
  BY <1>3, <1>4, RequestsAssumption DEF InUse

-----------------------------------------------------------------------------
(* The inductive invariant holds in every state of every behaviour.        *)
THEOREM RequestsInvariant == Spec => []IInv
  BY InitInvariant, StepInvariant, PTL DEF Spec

(* Every variable has its type, for any policy and any pool.               *)
THEOREM RequestsTypeCorrect == Spec => []TypeOK
<1>1. IInv => TypeOK
  BY DEF IInv
<1> QED
  BY <1>1, RequestsInvariant, PTL

(* The api never has more connections out than the pool opens.             *)
THEOREM PoolHolds == Spec => []PoolNotExceeded
<1>1. IInv => PoolNotExceeded
  BY DEF IInv
<1> QED
  BY <1>1, RequestsInvariant, PTL

(* Any number of requests in flight never all wait for one another, while  *)
(* fewer than the pool has connections may need two of them.               *)
THEOREM FewRequestsNeverStarve == Spec => []ConnectionsSuffice
<1>1. IInv => ConnectionsSuffice
  BY HoldersLeaveOne DEF IInv
<1> QED
  BY <1>1, RequestsInvariant, PTL

(* Every answer and every commit has a moment of the request's life that   *)
(* justifies it, whatever other requests do to the sender's account.       *)
THEOREM AuthorityFollowed == Spec => []AnswersFollowAuthority
<1>1. IInv => AnswersFollowAuthority
  BY DEF IInv
<1> QED
  BY <1>1, RequestsInvariant, PTL

(* Success means committed, and a refusal means nothing was written.       *)
THEOREM AnswersTruthful == Spec => []AnswersTellCommit
<1>1. IInv => AnswersTellCommit
  BY DEF IInv
<1> QED
  BY <1>1, RequestsInvariant, PTL

-----------------------------------------------------------------------------
(* The steps a request has before it at most, its End included.  A login   *)
(* meets the limiter before it waits for a connection, every other request *)
(* that has a session of its own after.                                    *)
StepsLeft(r) ==
  IF pc[r] = "entered" /\ endpoint[r] = "login" THEN 8
  ELSE [idle |-> 0, arrived |-> 9, wantsUser |-> 7, user |-> 6, entered |-> 5,
        wantsSession |-> 4, session |-> 3, fetching |-> 2, written |-> 2,
        answered |-> 1][pc[r]]

(* Whatever a step does, a request in flight is left as it is or comes     *)
(* nearer to its end: it never asks the limiter, the enforcer or the pool  *)
(* a second time for the same thing, commits twice or is answered twice.   *)
(* With the timeout of the pool that is why every request is answered.     *)
RequestsDescend ==
  [][\A r \in Request : pc[r] # "idle" =>
       \/ UNCHANGED <<pc[r], endpoint[r], sender[r], answer[r]>>
       \/ StepsLeft(r)' < StepsLeft(r)]_vars

(* Each step of a request brings it nearer to its end, and no other's.     *)
LEMMA ProceedDescends ==
  ASSUME TypeOK, NEW r \in Request, Proceed(r)
  PROVE  /\ StepsLeft(r)' < StepsLeft(r)
         /\ \A q \in Request \ {r} : UNCHANGED <<pc[q], endpoint[q], sender[q], answer[q]>>
<1>0. pc \in [Request -> Step] /\ endpoint \in [Request -> Endpoint]
      /\ sender \in [Request -> Account \cup {Nobody}] /\ answer \in [Request -> Status]
  BY DEF TypeOK
<1> USE <1>0 DEF StepsLeft, Goto, Fail, Succeed, Sent, Step, Endpoint, Guarded, Writing, WithBody
<1>1. CASE BodyError(r)
  BY <1>1 DEF BodyError
<1>2. CASE ValidationError(r)
  BY <1>2 DEF ValidationError
<1>3. CASE Limit(r)
  BY <1>3 DEF Limit
<1>4. CASE ReadToken(r)
  BY <1>4 DEF ReadToken
<1>5. CASE Connect(r)
  BY <1>5 DEF Connect
<1>6. CASE PoolTimesOut(r)
  BY <1>6 DEF PoolTimesOut
<1>7. CASE Authorize(r)
  BY <1>7 DEF Authorize
<1>8. CASE Login(r)
  BY <1>8 DEF Login
<1>9. CASE AnswerAtOnce(r)
  BY <1>9 DEF AnswerAtOnce
<1>10. CASE Enter(r)
  BY <1>10 DEF Enter
<1>11. CASE RejectUpload(r)
  BY <1>11 DEF RejectUpload
<1>12. CASE Health(r)
  BY <1>12 DEF Health
<1>13. CASE Read(r)
  BY <1>13 DEF Read
<1>14. CASE FetchOverlay(r)
  BY <1>14 DEF FetchOverlay
<1>15. CASE Refuse(r)
  BY <1>15 DEF Refuse
<1>16. CASE Commit(r)
  BY <1>16 DEF Commit
<1>17. CASE Finish(r)
  BY <1>17 DEF Finish
<1>18. CASE Unhandled(r)
  BY <1>18 DEF Unhandled
<1>19. CASE End(r)
  BY <1>19 DEF End
<1> QED
  BY <1>1, <1>2, <1>3, <1>4, <1>5, <1>6, <1>7, <1>8, <1>9, <1>10,
     <1>11, <1>12, <1>13, <1>14, <1>15, <1>16, <1>17, <1>18, <1>19 DEF Proceed

THEOREM RequestsComeToAnEnd == Spec => RequestsDescend
<1>1. IInv /\ [Next]_vars =>
        [\A r \in Request : pc[r] # "idle" =>
           \/ UNCHANGED <<pc[r], endpoint[r], sender[r], answer[r]>>
           \/ StepsLeft(r)' < StepsLeft(r)]_vars
  <2> SUFFICES ASSUME IInv, Next, NEW r \in Request, pc[r] # "idle"
               PROVE  \/ UNCHANGED <<pc[r], endpoint[r], sender[r], answer[r]>>
                      \/ StepsLeft(r)' < StepsLeft(r)
    OBVIOUS
  <2>1. CASE WindowEnds
    BY <2>1 DEF WindowEnds
  <2>2. CASE \E q \in Request, e \in Called, a \in Account \cup {Nobody} : Arrive(q, e, a)
    BY <2>2 DEF Arrive, Goto, IInv, TypeOK
  <2>3. CASE \E q \in Request : Proceed(q)
    BY <2>3, ProceedDescends DEF IInv
  <2> QED
    BY <2>1, <2>2, <2>3 DEF Next
<1> QED
  BY <1>1, RequestsInvariant, PTL DEF Spec, RequestsDescend
=============================================================================
