--------------------------- MODULE SessionProofs ---------------------------
(***************************************************************************)
(* Theorems about Session, for any users and any number of requests under   *)
(* way.  The inductive invariant adds two facts about a tab whose logins do *)
(* not cross.  EffectIsSessions: a fetch of the effect that is not cancelled*)
(* carries the token of the session, or the effect is about to cancel it.   *)
(* LoginFindsNoSession: a login under way is the only one, and its answer   *)
(* will find neither a token nor a fetch of the effect.                     *)
(***************************************************************************)
EXTENDS Session, TLAPS

EffectIsSessions ==
    ~crossed => \A s \in Slot : request[s].kind = "effect" =>
        request[s].bearer = token \/ (token = Nobody /\ rerun)

LoginFindsNoSession ==
    ~crossed => \A s \in LoginsUnderWay :
        /\ token = Nobody
        /\ \A t \in Slot : request[t].kind # "effect"
        /\ LoginsUnderWay = {s}

SInv ==
    /\ TypeOK
    /\ EffectIsSessions
    /\ LoginFindsNoSession
    /\ ShownProfileIsSessions
    /\ LoadingIsWaiting

(* A slot is free exactly when its kind says so.                            *)
LEMMA Freed == Free.kind = "none" /\ Free.kind \notin Kind
  BY DEF Free, Kind

(* Every fetch carries the token of a user.                                 *)
LEMMA EffectBearer ==
  ASSUME TypeOK, NEW s \in Slot, request[s].kind = "effect"
  PROVE  request[s].bearer \in User
<1>1. request[s] \in Requests
  BY DEF TypeOK
<1> QED
  BY <1>1, Freed DEF Requests, Kind

(* The loaded page satisfies the invariant.                                 *)
LEMMA InitInvariant == Init => SInv
<1> SUFFICES ASSUME Init PROVE SInv
  OBVIOUS
<1>1. TypeOK
  BY DEF Init, TypeOK, Requests
<1>2. EffectIsSessions /\ LoginFindsNoSession
  BY Freed DEF Init, EffectIsSessions, LoginFindsNoSession, LoginsUnderWay
<1>3. ShownProfileIsSessions /\ LoadingIsWaiting
  BY DEF Init, ShownProfileIsSessions, LoadingIsWaiting
<1> QED
  BY <1>1, <1>2, <1>3 DEF SInv

(* A logout or another path: the requests under way stay.                   *)
LEMMA UserStep ==
  ASSUME SInv, SignOut \/ Navigate
  PROVE  SInv'
<1> USE DEF SInv
<1>1. UNCHANGED <<request, crossed>> /\ LoginsUnderWay' = LoginsUnderWay
  BY DEF SignOut, Navigate, LoginsUnderWay
<1>2. TypeOK'
  BY DEF TypeOK, SignOut, Logout, Navigate
<1>3. EffectIsSessions'
  BY <1>1 DEF EffectIsSessions, SignOut, Logout, Navigate
<1>4. LoginFindsNoSession'
  BY <1>1 DEF LoginFindsNoSession, SignOut, Logout, Navigate
<1>5. ShownProfileIsSessions'
  BY DEF ShownProfileIsSessions, SignOut, Logout, Navigate
<1>6. LoadingIsWaiting'
  BY <1>1 DEF LoadingIsWaiting, SignOut, Logout, Navigate
<1> QED
  BY <1>2, <1>3, <1>4, <1>5, <1>6

(* The effect runs: what it cancels was all that could carry another token. *)
LEMMA RunEffectStep ==
  ASSUME SInv, RunEffect
  PROVE  SInv'
<1> USE DEF SInv
<1>1. /\ Cancelled \in [Slot -> Requests]
      /\ \A s \in Slot : Cancelled[s].kind # "effect"
      /\ \A s \in Slot : Cancelled[s].kind = "login" <=> s \in LoginsUnderWay
  BY DEF TypeOK, Cancelled, Requests, Free, LoginsUnderWay
<1>2. rerun' = FALSE /\ token' = token
  BY DEF RunEffect
<1>3. crossed' = (crossed /\ LoginsUnderWay # {})
  BY DEF RunEffect
<1>4. crossed' \in BOOLEAN
  BY <1>3
<1>5. CASE token = Nobody
  <2>1. request' = Cancelled /\ me' = Nobody /\ loading' = FALSE /\ stray' = FALSE
    BY <1>5 DEF RunEffect
  <2>2. LoginsUnderWay' = LoginsUnderWay
    BY <1>1, <2>1 DEF LoginsUnderWay
  <2>3. LoginFindsNoSession'
    BY <1>1, <1>2, <1>3, <1>5, <2>1, <2>2 DEF LoginFindsNoSession
  <2> QED
    BY <1>1, <1>2, <1>4, <2>1, <2>3
       DEF TypeOK, EffectIsSessions, ShownProfileIsSessions, LoadingIsWaiting
<1>6. CASE token # Nobody
  <2>1. PICK s \in Slot : /\ Cancelled[s] = Free
                          /\ request' = [Cancelled EXCEPT ![s] = Fetch("effect")]
    BY <1>6 DEF RunEffect
  <2>2. loading' = TRUE /\ UNCHANGED <<me, stray>>
    BY <1>6 DEF RunEffect
  <2>3. Fetch("effect") \in Requests /\ Fetch("effect").kind = "effect"
        /\ Fetch("effect").bearer = token
    BY <1>6 DEF TypeOK, Fetch, Requests, Kind
  <2>4. /\ request'[s] = Fetch("effect")
        /\ \A x \in Slot : x # s => request'[x] = Cancelled[x]
        /\ request' \in [Slot -> Requests]
    BY <1>1, <2>1, <2>3
  <2>5. LoginsUnderWay' = LoginsUnderWay
    BY <1>1, <2>1, <2>3, <2>4, Freed DEF LoginsUnderWay
  <2>6. TypeOK'
    BY <1>2, <1>4, <2>2, <2>4 DEF TypeOK
  <2>7. EffectIsSessions'
    BY <1>1, <1>2, <2>3, <2>4 DEF EffectIsSessions
  <2>8. LoginFindsNoSession'
    BY <1>3, <1>6, <2>5 DEF LoginFindsNoSession
  <2>9. ShownProfileIsSessions'
    BY <1>2, <1>6, <2>2 DEF ShownProfileIsSessions
  <2>10. LoadingIsWaiting'
    BY <2>3, <2>4 DEF LoadingIsWaiting
  <2> QED
    BY <2>6, <2>7, <2>8, <2>9, <2>10
<1> QED
  BY <1>5, <1>6

(* A login is submitted: the first of its kind finds no session, any other  *)
(* is marked as crossing.                                                   *)
LEMMA SubmitStep ==
  ASSUME SInv, NEW s \in Slot, NEW u \in User, SubmitLogin(s, u)
  PROVE  SInv'
<1> USE DEF SInv
<1>0. /\ request[s] = Free
      /\ request' = [request EXCEPT ![s] = [kind |-> "login", bearer |-> u]]
      /\ UNCHANGED <<token, me, loading, rerun, stray>>
      /\ FormShown
  BY DEF SubmitLogin
<1>1. crossed' = (crossed \/ LoginsUnderWay # {} \/ token # Nobody)
  BY DEF SubmitLogin
<1>2. crossed' \in BOOLEAN
  BY <1>1
<1>3. [kind |-> "login", bearer |-> u] \in Requests
  BY DEF Requests, Kind
<1>4. /\ request' \in [Slot -> Requests]
      /\ request'[s].kind = "login"
      /\ \A x \in Slot : x # s => request'[x] = request[x]
      /\ request[s].kind = "none"
  BY <1>0, <1>3, Freed DEF TypeOK
<1>5. TypeOK'
  BY <1>0, <1>2, <1>4 DEF TypeOK
<1>6. EffectIsSessions'
  BY <1>0, <1>1, <1>4 DEF EffectIsSessions
<1>7. LoginFindsNoSession'
  <2> SUFFICES ASSUME ~crossed'
               PROVE  /\ token' = Nobody
                      /\ \A t \in Slot : request'[t].kind # "effect"
                      /\ LoginsUnderWay' = {s}
    BY <1>4 DEF LoginFindsNoSession
  <2>1. ~crossed /\ LoginsUnderWay = {} /\ token = Nobody /\ ~rerun
    BY <1>0, <1>1 DEF FormShown
  <2>2. \A t \in Slot : request[t].kind # "effect"
    BY <2>1, EffectBearer, NobodyAssumption DEF EffectIsSessions
  <2>3. \A t \in Slot : request[t].kind # "login"
    BY <2>1 DEF LoginsUnderWay
  <2> QED
    BY <1>0, <1>4, <2>1, <2>2, <2>3 DEF LoginsUnderWay
<1>8. ShownProfileIsSessions'
  BY <1>0 DEF ShownProfileIsSessions
<1>9. LoadingIsWaiting'
  BY <1>0, <1>4 DEF LoadingIsWaiting
<1> QED
  BY <1>5, <1>6, <1>7, <1>8, <1>9

(* A request of a session is sent from a free slot.                         *)
LEMMA SendStep ==
  ASSUME SInv, NEW s \in Slot, NEW k \in {"refresh", "page"},
         token # Nobody, request[s] = Free,
         request' = [request EXCEPT ![s] = Fetch(k)],
         loading' = (IF k = "refresh" THEN TRUE ELSE loading),
         UNCHANGED <<token, me, rerun, crossed, stray>>
  PROVE  SInv'
<1> USE DEF SInv
<1>1. Fetch(k) \in Requests /\ Fetch(k).kind = k
  BY DEF TypeOK, Fetch, Requests, Kind
<1>2. /\ request' \in [Slot -> Requests]
      /\ request'[s].kind = k
      /\ \A x \in Slot : x # s => request'[x] = request[x]
      /\ request[s].kind = "none"
  BY <1>1, Freed DEF TypeOK
<1>3. LoginsUnderWay' = LoginsUnderWay
  BY <1>2 DEF LoginsUnderWay
<1>4. TypeOK'
  BY <1>2 DEF TypeOK
<1>5. EffectIsSessions' /\ LoginFindsNoSession'
  BY <1>2, <1>3 DEF EffectIsSessions, LoginFindsNoSession
<1>6. ShownProfileIsSessions'
  BY DEF ShownProfileIsSessions
<1>7. LoadingIsWaiting'
  BY <1>2 DEF LoadingIsWaiting
<1> QED
  BY <1>4, <1>5, <1>6, <1>7

LEMMA RequestStep ==
  ASSUME SInv, NEW s \in Slot, RefreshMe(s) \/ PageRequest(s)
  PROVE  SInv'
<1>1. CASE RefreshMe(s) /\ token # Nobody
  BY <1>1, SendStep DEF RefreshMe
<1>2. CASE PageRequest(s)
  BY <1>2, SendStep DEF PageRequest
<1>3. CASE RefreshMe(s) /\ token = Nobody
  <2>1. /\ me' = Nobody /\ stray' = FALSE
        /\ UNCHANGED <<token, loading, rerun, request, crossed>>
        /\ LoginsUnderWay' = LoginsUnderWay
    BY <1>3 DEF RefreshMe, LoginsUnderWay
  <2> QED
    BY <2>1 DEF SInv, TypeOK, EffectIsSessions, LoginFindsNoSession,
                ShownProfileIsSessions, LoadingIsWaiting
<1> QED
  BY <1>1, <1>2, <1>3

(* A slot is freed.                                                         *)
LEMMA DoneFacts ==
  ASSUME SInv, NEW s \in Slot, Done(s)
  PROVE  /\ request' \in [Slot -> Requests]
         /\ request'[s].kind = "none"
         /\ \A x \in Slot : x # s => request'[x] = request[x]
         /\ LoginsUnderWay' = LoginsUnderWay \ {s}
<1>1. /\ request' = [request EXCEPT ![s] = Free]
      /\ Free \in Requests
  BY DEF Done, Requests
<1>2. /\ request' \in [Slot -> Requests]
      /\ request'[s].kind = "none"
      /\ \A x \in Slot : x # s => request'[x] = request[x]
  BY <1>1, Freed DEF SInv, TypeOK
<1> QED
  BY <1>2 DEF LoginsUnderWay

(* A login that does not cross another is answered when there is no token   *)
(* and no fetch of the effect.                                              *)
LEMMA LoginStep ==
  ASSUME SInv, NEW s \in Slot, LoginAnswer(s) \/ LoginFails(s)
  PROVE  SInv'
<1> USE DEF SInv
<1>1. /\ request' \in [Slot -> Requests]
      /\ request'[s].kind = "none"
      /\ \A x \in Slot : x # s => request'[x] = request[x]
      /\ LoginsUnderWay' = LoginsUnderWay \ {s}
      /\ request[s].kind = "login" /\ s \in LoginsUnderWay
      /\ UNCHANGED <<loading, crossed>>
  BY DoneFacts DEF LoginAnswer, LoginFails, LoginsUnderWay
<1>2. request[s].bearer \in User
  BY <1>1, Freed DEF TypeOK, Requests
<1>3. LoadingIsWaiting'
  BY <1>1 DEF LoadingIsWaiting
<1>4. CASE LoginAnswer(s)
  <2>1. token' = request[s].bearer /\ me' = Nobody /\ stray' = FALSE
    BY <1>4 DEF LoginAnswer
  <2>2. rerun' \in BOOLEAN
    BY <1>4 DEF LoginAnswer, TypeOK
  <2>3. TypeOK'
    BY <1>1, <1>2, <2>1, <2>2 DEF TypeOK
  <2>4. EffectIsSessions' /\ LoginFindsNoSession'
    BY <1>1 DEF EffectIsSessions, LoginFindsNoSession
  <2>5. ShownProfileIsSessions'
    BY <2>1 DEF ShownProfileIsSessions
  <2> QED
    BY <1>3, <2>3, <2>4, <2>5
<1>5. CASE LoginFails(s)
  <2>1. UNCHANGED <<token, me, rerun, stray>>
    BY <1>5 DEF LoginFails
  <2> QED
    BY <1>1, <1>3, <2>1 DEF TypeOK, EffectIsSessions, LoginFindsNoSession,
                            ShownProfileIsSessions
<1> QED
  BY <1>4, <1>5

(* An answer arrives, in whatever order.                                    *)
LEMMA AnswerStep ==
  ASSUME SInv, NEW s \in Slot,
         Answer(s) \/ PageAnswer(s) \/ Unauthorized(s) \/ Unanswered(s)
  PROVE  SInv'
<1> USE DEF SInv
<1>1. /\ request' \in [Slot -> Requests]
      /\ request'[s].kind = "none"
      /\ \A x \in Slot : x # s => request'[x] = request[x]
      /\ crossed' = crossed
      /\ request[s].kind \in {"effect", "refresh", "page"}
  BY DoneFacts DEF Answer, PageAnswer, Unauthorized, Unanswered
<1>2. LoginsUnderWay' = LoginsUnderWay
  BY <1>1 DEF LoginsUnderWay
<1>3. CASE Answer(s)
  <2>1. request[s].kind \in {"effect", "refresh"} /\ request[s].bearer \in User
    BY <1>3, Freed DEF Answer, TypeOK, Requests
  <2>2. me' = request[s].bearer /\ loading' = FALSE /\ UNCHANGED <<token, rerun>>
    BY <1>3 DEF Answer
  <2>3. stray' = /\ request[s].bearer # token
                 /\ request[s].kind = "refresh" \/ crossed
    BY <1>3 DEF Answer
  <2>4. stray' \in BOOLEAN
    BY <2>3
  <2>5. TypeOK'
    BY <1>1, <2>1, <2>2, <2>4 DEF TypeOK
  <2>6. EffectIsSessions' /\ LoginFindsNoSession'
    BY <1>1, <1>2, <2>2 DEF EffectIsSessions, LoginFindsNoSession
  <2>7. ShownProfileIsSessions'
    BY <2>1, <2>2, <2>3 DEF EffectIsSessions, ShownProfileIsSessions
  <2> QED
    BY <2>2, <2>5, <2>6, <2>7 DEF LoadingIsWaiting
<1>4. CASE PageAnswer(s)
  <2>1. /\ UNCHANGED <<token, me, loading, stray>>
        /\ rerun' \in {rerun, TRUE}
        /\ request[s].kind = "page"
    BY <1>4 DEF PageAnswer
  <2> QED
    BY <1>1, <1>2, <2>1 DEF TypeOK, EffectIsSessions, LoginFindsNoSession,
                            ShownProfileIsSessions, LoadingIsWaiting
<1>5. CASE Unauthorized(s)
  <2>1. TypeOK'
    BY <1>1, <1>5 DEF Unauthorized, Logout, TypeOK
  <2>2. EffectIsSessions'
    <3>1. token' = Nobody /\ rerun' = (rerun \/ token # Nobody)
      BY <1>5 DEF Unauthorized, Logout
    <3> QED
      BY <1>1, <3>1 DEF EffectIsSessions
  <2>3. LoginFindsNoSession'
    BY <1>1, <1>2, <1>5 DEF Unauthorized, Logout, LoginFindsNoSession
  <2> QED
    BY <1>5, <2>1, <2>2, <2>3
       DEF Unauthorized, Logout, ShownProfileIsSessions, LoadingIsWaiting
<1>6. CASE Unanswered(s)
  <2>1. TypeOK'
    BY <1>1, <1>6 DEF Unanswered, TypeOK
  <2>2. token' = token /\ (rerun' = rerun \/ rerun' = TRUE)
    BY <1>6 DEF Unanswered
  <2>3. EffectIsSessions' /\ LoginFindsNoSession'
    BY <1>1, <1>2, <2>2 DEF EffectIsSessions, LoginFindsNoSession
  <2> QED
    BY <1>6, <2>1, <2>3 DEF Unanswered, ShownProfileIsSessions, LoadingIsWaiting
<1> QED
  BY <1>3, <1>4, <1>5, <1>6

LEMMA NextInvariant == SInv /\ [Next]_vars => SInv'
<1> SUFFICES ASSUME SInv, [Next]_vars PROVE SInv'
  OBVIOUS
<1>1. CASE UNCHANGED vars
  BY <1>1 DEF SInv, vars, TypeOK, EffectIsSessions, LoginFindsNoSession,
              LoginsUnderWay, ShownProfileIsSessions, LoadingIsWaiting
<1>2. CASE Next
  BY <1>2, UserStep, RunEffectStep, SubmitStep, RequestStep, LoginStep,
     AnswerStep DEF Next
<1> QED
  BY <1>1, <1>2

-----------------------------------------------------------------------------
(* The inductive invariant holds in every reachable state.                  *)
THEOREM Invariance == Spec => []SInv
  BY InitInvariant, NextInvariant, PTL DEF Spec

(* Tokens, profiles and requests keep their types: no fetch of /me is ever  *)
(* sent without a token.                                                    *)
THEOREM TypeCorrect == Spec => []TypeOK
<1>1. SInv => TypeOK
  BY DEF SInv
<1> QED
  BY <1>1, Invariance, PTL

(* Whatever the order of logins, logouts and answers, the profile on screen *)
(* is that of the session, unless a refreshMe of an earlier session or the  *)
(* fetch of an earlier session has set it, the latter only where logins     *)
(* cross.                                                                   *)
THEOREM ShownProfileTheorem == Spec => []ShownProfileIsSessions
<1>1. SInv => ShownProfileIsSessions
  BY DEF SInv
<1> QED
  BY <1>1, Invariance, PTL

(* meLoading is true only while a fetch that will clear it is under way.    *)
THEOREM LoadingTheorem == Spec => []LoadingIsWaiting
<1>1. SInv => LoadingIsWaiting
  BY DEF SInv
<1> QED
  BY <1>1, Invariance, PTL
=============================================================================
