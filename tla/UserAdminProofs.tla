-------------------------- MODULE UserAdminProofs --------------------------
(***************************************************************************)
(* Theorems about UserAdmin, for any set of accounts, roles, addresses and  *)
(* requests.  IInv is the inductive invariant.  What carries it: the guards *)
(* read a row that, on an account without overlapping transactions, nobody  *)
(* writes before this transaction does (Exclusive), so what the guards and  *)
(* the load saw still holds at the commit (OpenManageable, LoadedFresh).    *)
(***************************************************************************)
EXTENDS UserAdmin, TLAPS

Exclusive ==
    \A u \in User \ contended : \A r, s \in Request :
        Open(r, u) /\ Open(s, u) => r = s

(* Overlap or not, a transaction is only open on an account other than the  *)
(* seeded administrator.                                                    *)
OpenExists ==
    \A r \in Request : \A u \in User : Open(r, u) => u \in exists /\ u # Seed

OpenManageable ==
    \A r \in Request : \A u \in User \ contended :
        Open(r, u) => ~deleted[u] /\ role[u] # "admin"

LoadedFresh ==
    \A r \in Request : \A u \in User \ contended :
        Open(r, u) /\ pc[r] = "loaded" =>
            seenRole[r] = role[u] /\ seenActive[r] = active[u]

(* Ids that no row has yet carry the column defaults.                       *)
FreshRows ==
    \A u \in User \ exists :
        /\ active[u] /\ ~deleted[u]
        /\ auditedActive[u] /\ ~auditedDeleted[u]

IInv ==
    /\ TypeOK
    /\ SeedKept
    /\ Exclusive
    /\ OpenExists
    /\ OpenManageable
    /\ LoadedFresh
    /\ FreshRows
    /\ RemovedIsInactive
    /\ AuditReplays
    /\ ActorsStayAdministrators
    /\ EmailsDistinct

(* What is left when a request returns and writes nothing.                  *)
Release(r) == Return(r) /\ UNCHANGED <<rowVars, auditVars, contended>>

-----------------------------------------------------------------------------
(* The state the migration leaves satisfies the invariant.                  *)
LEMMA InitInvariant == Init => IInv
  BY SeedAssumption, RoleAssumption, EmailAssumption
  DEF Init, IInv, TypeOK, Step, SeedKept, Exclusive, OpenExists, OpenManageable,
      LoadedFresh, FreshRows, RemovedIsInactive, AuditReplays,
      ActorsStayAdministrators, EmailsDistinct, Open

(* A request that returns leaves the other open transactions as they were.  *)
LEMMA ReturnKeepsOthers ==
  ASSUME TypeOK, NEW r \in Request, Return(r),
         NEW s \in Request, NEW u \in User, Open(s, u)'
  PROVE  /\ s # r /\ Open(s, u) /\ pc'[s] = pc[s]
         /\ seenRole'[s] = seenRole[s] /\ seenActive'[s] = seenActive[s]
  BY DEF TypeOK, Return, Open, ManagesOf

(* No other transaction is open on an account without overlaps.             *)
LEMMA OthersElsewhere ==
  ASSUME IInv, NEW r \in Request, NEW t \in User, Open(r, t), t \notin contended,
         NEW s \in Request \ {r}, NEW u \in User, Open(s, u)
  PROVE  u # t
  BY DEF IInv, Exclusive

(* A request comes in with an active administrator behind it.               *)
LEMMA AuthorizeStep ==
  ASSUME IInv, NEW r \in Request, NEW u \in User, NEW c \in Command, Authorize(r, u, c)
  PROVE  IInv'
<1>1. TypeOK'
  BY DEF IInv, TypeOK, Step, Authorize, rowVars, auditVars
<1>2. SeedKept'
  BY DEF Authorize, IInv, rowVars, SeedKept
<1>3. Exclusive'
  BY DEF Authorize, IInv, ManagesOf, Open, Exclusive
<1>4. OpenExists'
  BY DEF Authorize, IInv, rowVars, ManagesOf, Open, OpenExists
<1>5. OpenManageable'
  BY DEF Authorize, IInv, rowVars, ManagesOf, Open, OpenManageable, LoadedFresh
<1>6. LoadedFresh'
  BY DEF Authorize, IInv, rowVars, ManagesOf, Open, LoadedFresh
<1>7. FreshRows'
  BY DEF Authorize, IInv, rowVars, auditVars, FreshRows
<1>8. RemovedIsInactive'
  BY DEF Authorize, IInv, rowVars, RemovedIsInactive
<1>9. AuditReplays'
  BY DEF Authorize, IInv, rowVars, auditVars, AuditReplays
<1>10. ActorsStayAdministrators'
  BY DEF Authorize, IInv, TypeOK, rowVars, ActorsStayAdministrators
<1>11. EmailsDistinct'
  BY DEF Authorize, IInv, rowVars, EmailsDistinct
<1> QED
  BY <1>1, <1>2, <1>3, <1>4, <1>5, <1>6, <1>7, <1>8, <1>9, <1>10, <1>11 DEF IInv

(* The guards pass: the target is an account that may be managed.           *)
LEMMA CheckStep ==
  ASSUME IInv, NEW r \in Request, Check(r)
  PROVE  IInv'
<1>a. command[r] \in Command /\ command[r].target \in User
  BY DEF IInv, TypeOK, Check
<1>1. TypeOK'
  BY DEF IInv, TypeOK, Step, Check, rowVars, auditVars
<1>2. SeedKept'
  BY DEF Check, IInv, rowVars, SeedKept
<1>3. Exclusive'
  BY DEF Check, IInv, ManagesOf, Open, Exclusive
<1>4. OpenExists'
  BY DEF Check, IInv, rowVars, ManagesOf, Open, RequireManageableTarget, SeedKept,
     OpenExists
<1>5. OpenManageable'
  BY DEF Check, IInv, rowVars, ManagesOf, Open, RequireManageableTarget, OpenManageable
<1>6. LoadedFresh'
  BY DEF Check, IInv, rowVars, ManagesOf, Open, LoadedFresh
<1>7. FreshRows'
  BY DEF Check, IInv, rowVars, auditVars, FreshRows
<1>8. RemovedIsInactive'
  BY DEF Check, IInv, rowVars, RemovedIsInactive
<1>9. AuditReplays'
  BY DEF Check, IInv, rowVars, auditVars, AuditReplays
<1>10. ActorsStayAdministrators'
  BY DEF Check, IInv, rowVars, ActorsStayAdministrators
<1>11. EmailsDistinct'
  BY DEF Check, IInv, rowVars, EmailsDistinct
<1> QED
  BY <1>1, <1>2, <1>3, <1>4, <1>5, <1>6, <1>7, <1>8, <1>9, <1>10, <1>11 DEF IInv

(* The repository reads the target again.                                   *)
LEMMA LoadStep ==
  ASSUME IInv, NEW r \in Request, Load(r)
  PROVE  IInv'
<1>a. command[r] \in Command /\ command[r].target \in User
  BY DEF IInv, TypeOK, Command, Load
<1>1. TypeOK'
  BY DEF IInv, TypeOK, Step, Load, rowVars, auditVars, Command
<1>2. SeedKept'
  BY DEF Load, IInv, rowVars, SeedKept
<1>3. Exclusive'
  BY DEF Load, IInv, ManagesOf, Open, Exclusive
<1>4. OpenExists'
  BY DEF Load, IInv, rowVars, ManagesOf, Open, OpenExists
<1>5. OpenManageable'
  BY <1>a DEF Load, IInv, TypeOK, Step, rowVars, ManagesOf, Open, OpenManageable
<1>6. LoadedFresh'
  BY DEF Load, IInv, TypeOK, rowVars, ManagesOf, Open, LoadedFresh
<1>7. FreshRows'
  BY DEF Load, IInv, rowVars, auditVars, FreshRows
<1>8. RemovedIsInactive'
  BY DEF Load, IInv, rowVars, RemovedIsInactive
<1>9. AuditReplays'
  BY DEF Load, IInv, rowVars, auditVars, AuditReplays
<1>10. ActorsStayAdministrators'
  BY DEF Load, IInv, rowVars, ActorsStayAdministrators
<1>11. EmailsDistinct'
  BY DEF Load, IInv, rowVars, EmailsDistinct
<1> QED
  BY <1>1, <1>2, <1>3, <1>4, <1>5, <1>6, <1>7, <1>8, <1>9, <1>10, <1>11 DEF IInv

(* An address is found free.                                                *)
LEMMA CheckEmailStep ==
  ASSUME IInv, NEW r \in Request, CheckEmail(r)
  PROVE  IInv'
<1>a. command[r] \in Command /\ command[r].target \in User
  BY DEF IInv, TypeOK, Command, CheckEmail
<1>1. TypeOK'
  BY DEF IInv, TypeOK, Step, CheckEmail, rowVars, auditVars
<1>2. SeedKept'
  BY DEF CheckEmail, IInv, rowVars, SeedKept
<1>3. Exclusive'
  BY DEF CheckEmail, IInv, ManagesOf, Open, Exclusive
<1>4. OpenExists'
  BY DEF CheckEmail, IInv, rowVars, ManagesOf, Open, OpenExists
<1>5. OpenManageable'
  BY DEF CheckEmail, IInv, rowVars, ManagesOf, Open, OpenManageable
<1>6. LoadedFresh'
  BY DEF CheckEmail, IInv, rowVars, ManagesOf, Open, LoadedFresh
<1>7. FreshRows'
  BY DEF CheckEmail, IInv, rowVars, auditVars, FreshRows
<1>8. RemovedIsInactive'
  BY DEF CheckEmail, IInv, rowVars, RemovedIsInactive
<1>9. AuditReplays'
  BY DEF CheckEmail, IInv, rowVars, auditVars, AuditReplays
<1>10. ActorsStayAdministrators'
  BY DEF CheckEmail, IInv, rowVars, ActorsStayAdministrators
<1>11. EmailsDistinct'
  BY DEF CheckEmail, IInv, rowVars, EmailsDistinct
<1> QED
  BY <1>1, <1>2, <1>3, <1>4, <1>5, <1>6, <1>7, <1>8, <1>9, <1>10, <1>11 DEF IInv

(* A role change commits.                                                   *)
LEMMA ChangeRoleStep ==
  ASSUME IInv, NEW r \in Request, ChangeRole(r)
  PROVE  IInv'
<1> DEFINE t == command[r].target
<1>a. /\ t \in User /\ Open(r, t) /\ pc[r] = "loaded"
      /\ command[r] \in Command
  BY DEF IInv, TypeOK, Command, ChangeRole, Open, ManagesOf
<1>b. /\ t \in exists /\ t # Seed
      /\ t \notin contended =>
            /\ ~deleted[t] /\ role[t] # "admin"
            /\ seenRole[r] = role[t] /\ seenActive[r] = active[t]
  BY <1>a DEF IInv, OpenExists, OpenManageable, LoadedFresh
<1>1. TypeOK'
  BY SeedAssumption, RoleAssumption DEF IInv, TypeOK, Step, ChangeRole, Return, Command
<1>2. SeedKept'
  BY DEF ChangeRole, IInv, TypeOK, ManagesOf, Open, SeedKept, OpenExists
<1>3. Exclusive'
  BY ReturnKeepsOthers DEF IInv, ChangeRole, Exclusive
<1>4. OpenExists'
  BY ReturnKeepsOthers DEF IInv, ChangeRole, OpenExists
<1>5. OpenManageable'
  BY <1>a, ReturnKeepsOthers DEF IInv, ChangeRole, Exclusive, OpenManageable
<1>6. LoadedFresh'
  <2> SUFFICES ASSUME NEW s \in Request, NEW u \in User \ contended',
                      Open(s, u)', pc'[s] = "loaded"
               PROVE  seenRole'[s] = role'[u] /\ seenActive'[s] = active'[u]
    BY DEF LoadedFresh
  <2>1. /\ s # r /\ Open(s, u) /\ pc[s] = "loaded" /\ u \notin contended
        /\ seenRole'[s] = seenRole[s] /\ seenActive'[s] = seenActive[s]
    BY ReturnKeepsOthers DEF IInv, ChangeRole
  <2>2. u # t
    BY <1>a, <2>1 DEF IInv, Exclusive
  <2> QED
    BY <2>1, <2>2 DEF IInv, LoadedFresh, ChangeRole
<1>7. FreshRows'
  BY DEF ChangeRole, IInv, FreshRows
<1>8. RemovedIsInactive'
  BY DEF ChangeRole, IInv, RemovedIsInactive
<1>9. AuditReplays'
  BY DEF ChangeRole, IInv, TypeOK, ManagesOf, Open, LoadedFresh, AuditReplays
<1>10. ActorsStayAdministrators'
  BY DEF ChangeRole, IInv, TypeOK, Return, ManagesOf, Open, OpenManageable,
     ActorsStayAdministrators
<1>11. EmailsDistinct'
  BY DEF ChangeRole, IInv, EmailsDistinct
<1> QED
  BY <1>1, <1>2, <1>3, <1>4, <1>5, <1>6, <1>7, <1>8, <1>9, <1>10, <1>11 DEF IInv

(* A deactivation or reactivation commits.                                  *)
LEMMA SetUserActiveStep ==
  ASSUME IInv, NEW r \in Request, SetUserActive(r)
  PROVE  IInv'
<1> DEFINE t == command[r].target
<1>a. /\ t \in User /\ Open(r, t) /\ pc[r] = "loaded"
      /\ command[r] \in Command
  BY DEF IInv, TypeOK, Command, SetUserActive, Open, ManagesOf
<1>b. /\ t \in exists /\ t # Seed
      /\ t \notin contended =>
            /\ ~deleted[t] /\ role[t] # "admin"
            /\ seenRole[r] = role[t] /\ seenActive[r] = active[t]
  BY <1>a DEF IInv, OpenExists, OpenManageable, LoadedFresh
<1>1. TypeOK'
  BY SeedAssumption, RoleAssumption DEF IInv, TypeOK, Step, SetUserActive, Return,
     Command
<1>2. SeedKept'
  BY DEF SetUserActive, IInv, TypeOK, ManagesOf, Open, SeedKept, OpenExists
<1>3. Exclusive'
  BY ReturnKeepsOthers DEF IInv, SetUserActive, Exclusive
<1>4. OpenExists'
  BY ReturnKeepsOthers DEF IInv, SetUserActive, OpenExists
<1>5. OpenManageable'
  BY ReturnKeepsOthers DEF IInv, SetUserActive, OpenManageable
<1>6. LoadedFresh'
  <2> SUFFICES ASSUME NEW s \in Request, NEW u \in User \ contended',
                      Open(s, u)', pc'[s] = "loaded"
               PROVE  seenRole'[s] = role'[u] /\ seenActive'[s] = active'[u]
    BY DEF LoadedFresh
  <2>1. /\ s # r /\ Open(s, u) /\ pc[s] = "loaded" /\ u \notin contended
        /\ seenRole'[s] = seenRole[s] /\ seenActive'[s] = seenActive[s]
    BY ReturnKeepsOthers DEF IInv, SetUserActive
  <2>2. u # t
    BY <1>a, <2>1 DEF IInv, Exclusive
  <2> QED
    BY <2>1, <2>2 DEF IInv, LoadedFresh, SetUserActive
<1>7. FreshRows'
  BY DEF SetUserActive, IInv, ManagesOf, Open, OpenExists, FreshRows
<1>8. RemovedIsInactive'
  BY DEF SetUserActive, IInv, ManagesOf, Open, OpenManageable, RemovedIsInactive
<1>9. AuditReplays'
  BY DEF SetUserActive, IInv, TypeOK, ManagesOf, Open, LoadedFresh, AuditReplays
<1>10. ActorsStayAdministrators'
  BY DEF SetUserActive, IInv, TypeOK, Return, ManagesOf, Open, OpenManageable,
     ActorsStayAdministrators
<1>11. EmailsDistinct'
  BY DEF SetUserActive, IInv, EmailsDistinct
<1> QED
  BY <1>1, <1>2, <1>3, <1>4, <1>5, <1>6, <1>7, <1>8, <1>9, <1>10, <1>11 DEF IInv

(* A removal commits.                                                       *)
LEMMA RemoveUserAccountStep ==
  ASSUME IInv, NEW r \in Request, RemoveUserAccount(r)
  PROVE  IInv'
<1> DEFINE t == command[r].target
<1>a. /\ t \in User /\ Open(r, t) /\ pc[r] = "loaded"
      /\ command[r] \in Command
  BY DEF IInv, TypeOK, Command, RemoveUserAccount, Open, ManagesOf
<1>b. /\ t \in exists /\ t # Seed
      /\ t \notin contended =>
            /\ ~deleted[t] /\ role[t] # "admin"
            /\ seenRole[r] = role[t] /\ seenActive[r] = active[t]
  BY <1>a DEF IInv, OpenExists, OpenManageable, LoadedFresh
<1>1. TypeOK'
  BY SeedAssumption, RoleAssumption DEF IInv, TypeOK, Step, RemoveUserAccount, Return,
     Command
<1>2. SeedKept'
  BY DEF RemoveUserAccount, IInv, TypeOK, ManagesOf, Open, SeedKept, OpenExists
<1>3. Exclusive'
  BY ReturnKeepsOthers DEF IInv, RemoveUserAccount, Exclusive
<1>4. OpenExists'
  BY ReturnKeepsOthers DEF IInv, RemoveUserAccount, OpenExists
<1>5. OpenManageable'
  BY <1>a, ReturnKeepsOthers DEF IInv, RemoveUserAccount, Exclusive, OpenManageable
<1>6. LoadedFresh'
  <2> SUFFICES ASSUME NEW s \in Request, NEW u \in User \ contended',
                      Open(s, u)', pc'[s] = "loaded"
               PROVE  seenRole'[s] = role'[u] /\ seenActive'[s] = active'[u]
    BY DEF LoadedFresh
  <2>1. /\ s # r /\ Open(s, u) /\ pc[s] = "loaded" /\ u \notin contended
        /\ seenRole'[s] = seenRole[s] /\ seenActive'[s] = seenActive[s]
    BY ReturnKeepsOthers DEF IInv, RemoveUserAccount
  <2>2. u # t
    BY <1>a, <2>1 DEF IInv, Exclusive
  <2> QED
    BY <2>1, <2>2 DEF IInv, LoadedFresh, RemoveUserAccount
<1>7. FreshRows'
  BY DEF RemoveUserAccount, IInv, ManagesOf, Open, OpenExists, FreshRows
<1>8. RemovedIsInactive'
  BY DEF RemoveUserAccount, IInv, TypeOK, ManagesOf, Open, LoadedFresh,
     RemovedIsInactive
<1>9. AuditReplays'
  BY <1>a, <1>b, SeedAssumption DEF RemoveUserAccount, IInv, TypeOK, AuditReplays
<1>10. ActorsStayAdministrators'
  BY DEF RemoveUserAccount, IInv, TypeOK, Return, ManagesOf, Open, OpenManageable,
     ActorsStayAdministrators
<1>11. EmailsDistinct'
  BY DEF RemoveUserAccount, IInv, TypeOK, EmailsDistinct
<1> QED
  BY <1>1, <1>2, <1>3, <1>4, <1>5, <1>6, <1>7, <1>8, <1>9, <1>10, <1>11 DEF IInv

(* An invited account is created.                                           *)
LEMMA CreateUserStep ==
  ASSUME IInv, NEW r \in Request, CreateUser(r)
  PROVE  IInv'
<1>a. command[r] \in Command /\ command[r].target \in User
  BY DEF IInv, TypeOK, Command, CreateUser
<1>1. TypeOK'
  BY SeedAssumption, RoleAssumption DEF IInv, TypeOK, Step, CreateUser, Return, Command
<1>2. SeedKept'
  BY DEF CreateUser, IInv, SeedKept
<1>3. Exclusive'
  BY ReturnKeepsOthers DEF IInv, CreateUser, Exclusive
<1>4. OpenExists'
  BY ReturnKeepsOthers DEF IInv, CreateUser, OpenExists
<1>5. OpenManageable'
  BY ReturnKeepsOthers DEF IInv, CreateUser, OpenExists, OpenManageable
<1>6. LoadedFresh'
  <2> SUFFICES ASSUME NEW s \in Request, NEW u \in User \ contended',
                      Open(s, u)', pc'[s] = "loaded"
               PROVE  seenRole'[s] = role'[u] /\ seenActive'[s] = active'[u]
    BY DEF LoadedFresh
  <2>1. /\ s # r /\ Open(s, u) /\ pc[s] = "loaded" /\ u \notin contended
        /\ seenRole'[s] = seenRole[s] /\ seenActive'[s] = seenActive[s]
    BY ReturnKeepsOthers DEF IInv, CreateUser
  <2>2. u # command[r].target
    BY <2>1 DEF IInv, OpenExists, CreateUser
  <2> QED
    BY <2>1, <2>2 DEF IInv, LoadedFresh, CreateUser
<1>7. FreshRows'
  BY DEF CreateUser, IInv, FreshRows
<1>8. RemovedIsInactive'
  BY DEF CreateUser, IInv, RemovedIsInactive
<1>9. AuditReplays'
  BY DEF CreateUser, IInv, TypeOK, Command, FreshRows, AuditReplays
<1>10. ActorsStayAdministrators'
  BY DEF CreateUser, IInv, TypeOK, Return, ActorsStayAdministrators
<1>11. EmailsDistinct'
  BY EmailAssumption DEF CreateUser, IInv, TypeOK, Command, Held, RemovedIsInactive,
     EmailsDistinct
<1> QED
  BY <1>1, <1>2, <1>3, <1>4, <1>5, <1>6, <1>7, <1>8, <1>9, <1>10, <1>11 DEF IInv

(* A request returns without having written anything.                       *)
LEMMA ReleaseStep ==
  ASSUME IInv, NEW r \in Request, Release(r)
  PROVE  IInv'
<1>1. TypeOK'
  BY SeedAssumption, RoleAssumption DEF IInv, TypeOK, Step, Release, Return, rowVars,
     auditVars
<1>2. SeedKept'
  BY DEF Release, IInv, rowVars, SeedKept
<1>3. Exclusive'
  BY ReturnKeepsOthers DEF IInv, Release, Exclusive
<1>4. OpenExists'
  BY ReturnKeepsOthers DEF IInv, Release, rowVars, OpenExists
<1>5. OpenManageable'
  BY ReturnKeepsOthers DEF IInv, Release, rowVars, OpenManageable
<1>6. LoadedFresh'
  <2> SUFFICES ASSUME NEW s \in Request, NEW u \in User \ contended',
                      Open(s, u)', pc'[s] = "loaded"
               PROVE  seenRole'[s] = role'[u] /\ seenActive'[s] = active'[u]
    BY DEF LoadedFresh
  <2>1. /\ s # r /\ Open(s, u) /\ pc[s] = "loaded" /\ u \notin contended
        /\ seenRole'[s] = seenRole[s] /\ seenActive'[s] = seenActive[s]
    BY ReturnKeepsOthers DEF IInv, Release
  <2>2. role' = role /\ active' = active
    BY DEF Release, rowVars
  <2> QED
    BY <2>1, <2>2 DEF IInv, LoadedFresh
<1>7. FreshRows'
  BY DEF Release, IInv, rowVars, auditVars, FreshRows
<1>8. RemovedIsInactive'
  BY DEF Release, IInv, rowVars, RemovedIsInactive
<1>9. AuditReplays'
  BY DEF Release, IInv, rowVars, auditVars, AuditReplays
<1>10. ActorsStayAdministrators'
  BY DEF Release, IInv, TypeOK, Return, rowVars, ActorsStayAdministrators
<1>11. EmailsDistinct'
  BY DEF Release, IInv, rowVars, EmailsDistinct
<1> QED
  BY <1>1, <1>2, <1>3, <1>4, <1>5, <1>6, <1>7, <1>8, <1>9, <1>10, <1>11 DEF IInv

(* Every step keeps the invariant.                                          *)
LEMMA NextInvariant == IInv /\ [Next]_vars => IInv'
<1> SUFFICES ASSUME IInv, [Next]_vars PROVE IInv'
  OBVIOUS
<1>1. CASE \E r \in Request, u \in User, c \in Command : Authorize(r, u, c)
  BY <1>1, AuthorizeStep
<1>2. CASE \E r \in Request : Check(r) \/ Load(r) \/ CheckEmail(r)
  BY <1>2, CheckStep, LoadStep, CheckEmailStep
<1>3. CASE \E r \in Request : ChangeRole(r) \/ SetUserActive(r) \/ RemoveUserAccount(r)
  BY <1>3, ChangeRoleStep, SetUserActiveStep, RemoveUserAccountStep
<1>4. CASE \E r \in Request : CreateUser(r)
  BY <1>4, CreateUserStep
<1>5. CASE \E r \in Request :
          Refuse(r) \/ RemovedMeanwhile(r) \/ RefuseEmail(r) \/ Rollback(r)
  <2>1. PICK r \in Request : Release(r)
    BY <1>5 DEF Refuse, RemovedMeanwhile, RefuseEmail, Rollback, Release
  <2> QED
    BY <2>1, ReleaseStep
<1>6. CASE UNCHANGED vars
  BY <1>6 DEF vars, rowVars, auditVars, requestVars, IInv, TypeOK, SeedKept, Exclusive,
              OpenExists, OpenManageable, LoadedFresh, FreshRows, RemovedIsInactive,
              AuditReplays, ActorsStayAdministrators, EmailsDistinct, Open, ManagesOf
<1> QED
  BY <1>1, <1>2, <1>3, <1>4, <1>5, <1>6 DEF Next, Manage, Invite

(* The invariant holds throughout.                                          *)
THEOREM Invariance == Spec => []IInv
  BY InitInvariant, NextInvariant, PTL DEF Spec

(* Rows, audit, requests stay well-formed; a request past its arrival has a *)
(* command.                                                                 *)
THEOREM TypeCorrect == Spec => []TypeOK
  BY Invariance, PTL DEF IInv

(* The administrator of migration 0002 outlasts every interleaving of       *)
(* administration requests, the overlapping ones included: mark_batch_failed*)
(* always finds an actor for its audit row.                                 *)
THEOREM SeedKeptTheorem == Spec => []SeedKept
  BY Invariance, PTL DEF IInv

(* soft_delete leaves the account inactive for good, absent overlaps.       *)
THEOREM RemovedIsInactiveTheorem == Spec => []RemovedIsInactive
  BY Invariance, PTL DEF IInv

(* The audit log of an account replays to its row, absent overlaps.         *)
THEOREM AuditReplaysTheorem == Spec => []AuditReplays
  BY Invariance, PTL DEF IInv

(* A request authorized once keeps its authority up to its commit.          *)
THEOREM ActorsStayAdministratorsTheorem == Spec => []ActorsStayAdministrators
  BY Invariance, PTL DEF IInv

(* Addresses are held once and freed by removal alone.                      *)
THEOREM EmailsDistinctTheorem == Spec => []EmailsDistinct
  BY Invariance, PTL DEF IInv

(* No step alters an administrator or a removed account, absent overlaps:   *)
(* a commit writes its open target only, which OpenManageable keeps apart   *)
(* from both.                                                               *)
THEOREM GuardedRowsKeptTheorem == Spec => GuardedRowsKept
<1> DEFINE Kept == \A u \in exists \ contended' :
          role[u] = "admin" \/ deleted[u] =>
              /\ role'[u] = role[u] /\ active'[u] = active[u]
              /\ deleted'[u] = deleted[u] /\ email'[u] = email[u]
<1>1. ASSUME IInv, [Next]_vars PROVE [Kept]_vars
  <2>1. CASE UNCHANGED rowVars
    BY <2>1 DEF rowVars
  <2>2. CASE \E r \in Request : ChangeRole(r) \/ SetUserActive(r) \/ RemoveUserAccount(r)
    <3>1. PICK r \in Request : ChangeRole(r) \/ SetUserActive(r) \/ RemoveUserAccount(r)
      BY <2>2
    <3> DEFINE t == command[r].target
    <3>2. t \in User /\ Open(r, t) /\ contended' = contended
      BY <1>1, <3>1 DEF IInv, TypeOK, Command, Open, ManagesOf, ChangeRole,
         SetUserActive,
                        RemoveUserAccount
    <3>3. t \notin contended => ~deleted[t] /\ role[t] # "admin"
      BY <1>1, <3>2 DEF IInv, OpenManageable
    <3>4. \A u \in User \ {t} : /\ role'[u] = role[u] /\ active'[u] = active[u]
                                 /\ deleted'[u] = deleted[u] /\ email'[u] = email[u]
      BY <1>1, <3>1 DEF IInv, TypeOK, ChangeRole, SetUserActive, RemoveUserAccount
    <3> QED
      BY <1>1, <3>2, <3>3, <3>4 DEF IInv, TypeOK
  <2>3. CASE \E r \in Request : CreateUser(r)
    BY <1>1, <2>3 DEF CreateUser, IInv, TypeOK
  <2> QED
    BY <1>1, <2>1, <2>2, <2>3
    DEF Next, vars, Manage, Invite, Authorize, Check, Refuse, Load, RemovedMeanwhile,
        CheckEmail, RefuseEmail, Rollback
<1> QED
  BY <1>1, Invariance, PTL DEF Spec, GuardedRowsKept

-----------------------------------------------------------------------------
(* The refinement of AccountBook.                                           *)

(* Transactions overlap on accounts only that exist.                        *)
ContendedExist == contended \subseteq exists

LEMMA ContendedInit == Init => ContendedExist
  BY DEF Init, ContendedExist

LEMMA ContendedStep == ContendedExist /\ [Next]_vars => ContendedExist'
  BY DEF ContendedExist, vars, rowVars, Next, Manage, Invite, Authorize, Check, Refuse,
     Load, RemovedMeanwhile, ChangeRole, SetUserActive, RemoveUserAccount, CheckEmail,
     RefuseEmail, CreateUser, Rollback

(* What is said of an account depends on its own columns.                   *)
Untouched(u) ==
    /\ u \in exists' <=> u \in exists
    /\ u \in contended' <=> u \in contended
    /\ role'[u] = role[u] /\ active'[u] = active[u]
    /\ deleted'[u] = deleted[u] /\ email'[u] = email[u]

LEMMA BookUntouched ==
  ASSUME NEW u \in User, Untouched(u)
  PROVE  Book'[u] = Book[u]
  BY DEF Untouched, Book

(* A step that touches one account enters what its row says afterwards.     *)
LEMMA BookEntered ==
  ASSUME NEW t \in User, \A u \in User \ {t} : Untouched(u), NEW row, Book'[t] = row
  PROVE  Accounts!Enter(t, row)
<1>1. Book \in [User -> {Book[u] : u \in User}] /\ DOMAIN Book' = User
  BY DEF Book
<1>2. \A u \in User \ {t} : Book'[u] = Book[u]
  BY BookUntouched
<1>3. Book' = [u \in User |-> Book'[u]]
  BY DEF Book
<1>4. Book' = [Book EXCEPT ![t] = row]
  BY <1>1, <1>2, <1>3
<1> QED
  BY <1>4 DEF Accounts!Enter

LEMMA BookRow ==
  ASSUME NEW u \in User, u \in exists, u \notin contended
  PROVE  Book[u] = Accounts!Row(role[u], active[u], deleted[u], email[u])
  BY DEF Book, Accounts!Row

LEMMA BookRowAfter ==
  ASSUME NEW u \in User, u \in exists', u \notin contended'
  PROVE  Book'[u] = Accounts!Row(role'[u], active'[u], deleted'[u], email'[u])
  BY DEF Book, Accounts!Row

(* Only an account that exists and is not contended is known.               *)
LEMMA BookKnown ==
  ASSUME NEW u \in User
  PROVE  Accounts!Known(u) <=> u \in exists /\ u \notin contended
  BY DEF Book, Accounts!Known

LEMMA BookManageable ==
  ASSUME NEW u \in User, u \in exists, u \notin contended, ~deleted[u], role[u] # "admin"
  PROVE  Accounts!Manageable(u)
  BY BookKnown DEF Accounts!Manageable, Book

LEMMA BookInitMaps == Init => Accounts!BookInit
<1> SUFFICES ASSUME Init PROVE Accounts!BookInit
  OBVIOUS
<1>1. \A u \in User : Book[u] = IF u = Seed THEN Accounts!Row("admin", TRUE, FALSE, SeedEmail)
                                ELSE [status |-> "absent"]
  BY DEF Init, Book, Accounts!Row
<1>2. Book = [u \in User |-> Book[u]]
  BY DEF Book
<1> QED
  BY <1>1, <1>2 DEF Accounts!BookInit

(* Guards, with or without an overlap.                                      *)
LEMMA CheckMaps ==
  ASSUME IInv, NEW r \in Request, Check(r)
  PROVE  Accounts!BookNext \/ UNCHANGED Book
<1> DEFINE t == command[r].target
<1>1. /\ t \in User /\ t \in exists /\ ~deleted[t] /\ role[t] # "admin"
      /\ UNCHANGED rowVars
      /\ contended' \in {contended, contended \cup {t}}
  BY DEF Check, IInv, TypeOK, RequireManageableTarget
<1>2. CASE contended' = contended
  BY <1>1, <1>2 DEF rowVars, Book
<1>3. CASE contended' = contended \cup {t} /\ t \notin contended
  <2>1. \A u \in User \ {t} : Untouched(u)
    BY <1>1, <1>3 DEF Untouched, rowVars
  <2>2. Book'[t] = [status |-> "disputed"]
    BY <1>1, <1>3 DEF Book, rowVars
  <2>3. Accounts!Dispute(t)
    BY <1>1, <1>3, <2>1, <2>2, BookEntered, BookManageable DEF Accounts!Dispute
  <2> QED
    BY <1>1, <2>3 DEF Accounts!BookNext
<1> QED
  BY <1>1, <1>2, <1>3

(* A commit on an account: nothing is entered when it is contended, else    *)
(* what the guards and the load saw still holds.                            *)
LEMMA CommitMaps ==
  ASSUME IInv, NEW r \in Request,
         ChangeRole(r) \/ SetUserActive(r) \/ RemoveUserAccount(r)
  PROVE  Accounts!BookNext \/ UNCHANGED Book
<1> DEFINE c == command[r]
           t == command[r].target
<1>1. c \in Command /\ t \in User /\ Open(r, t) /\ pc[r] = "loaded"
  BY DEF IInv, TypeOK, Command, ChangeRole, SetUserActive, RemoveUserAccount, Open,
     ManagesOf
<1>2. t \in exists /\ (t \notin contended =>
        /\ ~deleted[t] /\ role[t] # "admin"
        /\ seenRole[r] = role[t] /\ seenActive[r] = active[t])
  BY <1>1 DEF IInv, OpenExists, OpenManageable, LoadedFresh
<1>3. exists' = exists /\ contended' = contended
  BY DEF ChangeRole, SetUserActive, RemoveUserAccount
<1>4. \A u \in User \ {t} : Untouched(u)
  BY <1>3 DEF IInv, TypeOK, ChangeRole, SetUserActive, RemoveUserAccount, Untouched
<1>5. CASE t \in contended
  <2>1. Book'[t] = Book[t]
    BY <1>1, <1>2, <1>3, <1>5 DEF Book
  <2>2. \A u \in User : Book'[u] = Book[u]
    BY <1>4, <2>1, BookUntouched
  <2>3. Book = [u \in User |-> Book[u]] /\ Book' = [u \in User |-> Book'[u]]
    BY DEF Book
  <2> QED
    BY <2>2, <2>3
<1>6. CASE t \notin contended
  <2>1. Accounts!Manageable(t)
    BY <1>1, <1>2, <1>6, BookManageable
  <2>2. Book[t] = Accounts!Row(role[t], active[t], FALSE, email[t])
    BY <1>1, <1>2, <1>6, BookRow DEF IInv, TypeOK
  <2>3. /\ Book[t].role = role[t] /\ Book[t].active = active[t]
        /\ Book[t].address = email[t]
    BY <2>2 DEF Accounts!Row
  <2>4. Book'[t] = Accounts!Row(role'[t], active'[t], deleted'[t], email'[t])
    BY <1>1, <1>2, <1>3, <1>6, BookRowAfter
  <2>5. CASE ChangeRole(r)
    <3>1. c.role \in Role
      BY <1>1, <2>5 DEF Command, ChangeRole
    <3>2. /\ role'[t] = c.role /\ active'[t] = active[t]
          /\ deleted'[t] = FALSE /\ email'[t] = email[t]
      BY <1>1, <1>2, <1>6, <2>5 DEF ChangeRole, IInv, TypeOK
    <3>3. Accounts!SetRole(t, c.role)
      BY <1>1, <1>4, <2>1, <2>3, <2>4, <3>2, BookEntered DEF Accounts!SetRole
    <3> QED
      BY <1>1, <3>1, <3>3 DEF Accounts!BookNext
  <2>6. CASE SetUserActive(r)
    <3> DEFINE on == c.kind = "activate"
    <3>1. /\ role'[t] = role[t] /\ active'[t] = on
          /\ deleted'[t] = FALSE /\ email'[t] = email[t]
      BY <1>1, <1>2, <1>6, <2>6 DEF SetUserActive, IInv, TypeOK
    <3>2. Accounts!SetActive(t, on)
      BY <1>1, <1>4, <2>1, <2>3, <2>4, <3>1, BookEntered DEF Accounts!SetActive
    <3> QED
      BY <1>1, <3>2 DEF Accounts!BookNext
  <2>7. CASE RemoveUserAccount(r)
    <3>1. /\ role'[t] = role[t] /\ active'[t] = FALSE
          /\ deleted'[t] = TRUE /\ email'[t] = NoEmail
      BY <1>1, <1>2, <1>6, <2>7 DEF RemoveUserAccount, IInv, TypeOK
    <3>2. Accounts!Remove(t)
      BY <1>1, <1>4, <2>1, <2>3, <2>4, <3>1, BookEntered DEF Accounts!Remove
    <3> QED
      BY <1>1, <3>2 DEF Accounts!BookNext
  <2> QED
    BY <2>5, <2>6, <2>7
<1> QED
  BY <1>5, <1>6

(* An invitation: the address is nobody's, and the row is entered as the    *)
(* column defaults have it.                                                 *)
LEMMA CreateMaps ==
  ASSUME IInv, ContendedExist, NEW r \in Request, CreateUser(r)
  PROVE  Accounts!BookNext
<1> DEFINE c == command[r]
           t == command[r].target
<1>1. /\ t \in User /\ t \notin exists /\ t \notin contended
      /\ c.role \in Role /\ c.email \in Email
  BY DEF CreateUser, IInv, TypeOK, Command, ContendedExist
<1>2. \A u \in User \ {t} : Untouched(u)
  BY DEF CreateUser, IInv, TypeOK, Untouched
<1>3. t \in exists' /\ t \notin contended'
  BY <1>1 DEF CreateUser
<1>4. /\ role'[t] = c.role /\ active'[t] = TRUE
      /\ deleted'[t] = FALSE /\ email'[t] = c.email
  BY <1>1 DEF CreateUser, IInv, TypeOK, FreshRows
<1>5. Book'[t] = Accounts!Row(c.role, TRUE, FALSE, c.email)
  BY <1>1, <1>3, <1>4, BookRowAfter
<1>6. Book[t].status = "absent"
  BY <1>1 DEF Book
<1>7. \A u \in User : Accounts!Known(u) => Book[u].address # c.email
  <2> SUFFICES ASSUME NEW u \in User, Accounts!Known(u) PROVE Book[u].address # c.email
    OBVIOUS
  <2>1. u \in exists /\ u \notin contended
    BY BookKnown
  <2>2. Book[u] = Accounts!Row(role[u], active[u], deleted[u], email[u])
    BY <2>1, BookRow
  <2>3. Book[u].address = email[u]
    BY <2>2 DEF Accounts!Row
  <2> QED
    BY <2>1, <2>3 DEF CreateUser, Held
<1>8. Accounts!Invite(t, c.role, c.email)
  BY <1>1, <1>2, <1>5, <1>6, <1>7, BookEntered DEF Accounts!Invite
<1> QED
  BY <1>1, <1>8 DEF Accounts!BookNext

LEMMA BookStepMaps ==
  IInv /\ ContendedExist /\ [Next]_vars => Accounts!BookNext \/ UNCHANGED Book
<1> SUFFICES ASSUME IInv, ContendedExist, [Next]_vars
             PROVE  Accounts!BookNext \/ UNCHANGED Book
  OBVIOUS
<1>1. CASE \E r \in Request : Check(r)
  BY <1>1, CheckMaps
<1>2. CASE \E r \in Request : ChangeRole(r) \/ SetUserActive(r) \/ RemoveUserAccount(r)
  BY <1>2, CommitMaps
<1>3. CASE \E r \in Request : CreateUser(r)
  BY <1>3, CreateMaps
<1>4. CASE UNCHANGED rowVars /\ UNCHANGED contended
  BY <1>4 DEF rowVars, Book
<1> QED
  BY <1>1, <1>2, <1>3, <1>4
  DEF Next, vars, Manage, Invite, Authorize, Refuse, Load, RemovedMeanwhile,
      CheckEmail, RefuseEmail, Rollback

(* Whatever overlaps, the requests of administrators amount to atomic       *)
(* operations on the accounts that no two of them touched at once.          *)
THEOREM UserAdminImplementsBook == Spec => ImplementsBook
<1>1. Init => Accounts!BookInit
  BY BookInitMaps
<1>2. IInv /\ ContendedExist /\ [Next]_vars => [Accounts!BookNext]_Book
  BY BookStepMaps
<1> QED
  BY <1>1, <1>2, ContendedInit, ContendedStep, Invariance, PTL
  DEF Spec, ImplementsBook, Accounts!BookSpec
=============================================================================
