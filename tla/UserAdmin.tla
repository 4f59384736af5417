----------------------------- MODULE UserAdmin -----------------------------
(***************************************************************************)
(* User administration: the /admin/users endpoints of app/api/admin.py,     *)
(* app/services/user_service.py and app/repositories/user_repository.py.    *)
(* A request is authorized in a session of its own (auth_service.py,        *)
(* get_user_db); its transaction then reads the target for the guards       *)
(* (Check), the repository reads it again (Load), and flush and commit      *)
(* write the columns whose value differs from the one loaded, with the      *)
(* audit row.  Postgres runs READ COMMITTED and no row is locked before the *)
(* flush, so requests interleave between those steps.                       *)
(***************************************************************************)
CONSTANTS User,      \* ids of rows of table users
          Seed,      \* the administrator that migration 0002 inserts
          Role,      \* the roles of ck_users_role
          Email, SeedEmail, NoEmail,
          Request    \* slots of requests in flight

ASSUME SeedAssumption == Seed \in User /\ SeedEmail \in Email
ASSUME RoleAssumption == "admin" \in Role
ASSUME EmailAssumption == NoEmail \notin Email

VARIABLES
    exists,         \* ids of the rows of users
    role, active,   \* columns role, is_active
    deleted,        \* deleted_at IS NOT NULL
    email,          \* column email; NoEmail is "removed.<id>@example.org"
    auditedRole,    \* what a reader who replays audit_log takes for the
    auditedActive,  \*   columns role, is_active and deleted_at
    auditedDeleted,
    pc,             \* request -> how far it is
    actor,          \* request -> the administrator who sent it
    command,        \* request -> what it asks
    seenRole,       \* request -> role and is_active of the target when the
    seenActive,     \*   repository loaded it
    contended       \* history: targets on which two transactions overlapped

rowVars == <<exists, role, active, deleted, email>>
auditVars == <<auditedRole, auditedActive, auditedDeleted>>
requestVars == <<pc, actor, command, seenRole, seenActive>>
vars == <<rowVars, auditVars, requestVars, contended>>

Step == {"idle", "authorized", "checked", "loaded"}
NoCommand == [kind |-> "none"]
Command ==
    [kind : {"set_role"}, target : User, role : Role]
    \cup [kind : {"activate", "deactivate", "remove"}, target : User]
    \cup [kind : {"invite"}, target : User, role : Role, email : Email]

TypeOK ==
    /\ exists \in SUBSET User
    /\ role \in [User -> Role]
    /\ active \in [User -> BOOLEAN]
    /\ deleted \in [User -> BOOLEAN]
    /\ email \in [User -> Email \cup {NoEmail}]
    /\ auditedRole \in [User -> Role]
    /\ auditedActive \in [User -> BOOLEAN]
    /\ auditedDeleted \in [User -> BOOLEAN]
    /\ pc \in [Request -> Step]
    /\ actor \in [Request -> User]
    /\ command \in [Request -> Command \cup {NoCommand}]
    /\ \A r \in Request : pc[r] # "idle" => command[r] \in Command
    /\ seenRole \in [Request -> Role]
    /\ seenActive \in [Request -> BOOLEAN]
    /\ contended \in SUBSET User

Init ==
    /\ exists = {Seed}
    /\ role = [u \in User |-> "admin"]
    /\ active = [u \in User |-> TRUE]
    /\ deleted = [u \in User |-> FALSE]
    /\ email = [u \in User |-> IF u = Seed THEN SeedEmail ELSE NoEmail]
    /\ auditedRole = role
    /\ auditedActive = active
    /\ auditedDeleted = deleted
    /\ pc = [r \in Request |-> "idle"]
    /\ actor = [r \in Request |-> Seed]
    /\ command = [r \in Request |-> NoCommand]
    /\ seenRole = [r \in Request |-> "admin"]
    /\ seenActive = [r \in Request |-> TRUE]
    /\ contended = {}

-----------------------------------------------------------------------------
(* A request ends: its session is closed and its slot is free again.        *)
Return(r) ==
    /\ pc' = [pc EXCEPT ![r] = "idle"]
    /\ actor' = [actor EXCEPT ![r] = Seed]
    /\ command' = [command EXCEPT ![r] = NoCommand]
    /\ seenRole' = [seenRole EXCEPT ![r] = "admin"]
    /\ seenActive' = [seenActive EXCEPT ![r] = TRUE]

(* current_user(active=True) and require_permission: casbin gives /admin/*  *)
(* to the role admin alone.  An invitation will create a row of a fresh id. *)
Authorize(r, u, c) ==
    /\ pc[r] = "idle"
    /\ u \in exists /\ active[u] /\ role[u] = "admin"
    /\ pc' = [pc EXCEPT ![r] = "authorized"]
    /\ actor' = [actor EXCEPT ![r] = u]
    /\ command' = [command EXCEPT ![r] = c]
    /\ UNCHANGED <<rowVars, auditVars, seenRole, seenActive, contended>>

(* Guards that spare the acting administrator only.                         *)
RequireManageableTarget_peers(u, by) ==
    /\ ~deleted[u]
    /\ u # by

(* Guards that let a removed account be managed.                            *)
RequireManageableTarget_removed(u, by) ==
    /\ u # by
    /\ role[u] # "admin"

RequireManageableTarget(u, by) ==
    /\ ~deleted[u]
    /\ u # by
    /\ role[u] # "admin"

ManagesOf(r) == command[r].kind # "invite"

(* The transaction of r on u is open; its guards have passed.               *)
Open(r, u) == pc[r] \in {"checked", "loaded"} /\ ManagesOf(r) /\ command[r].target = u

Check(r) ==
    LET u == command[r].target IN
    /\ pc[r] = "authorized" /\ ManagesOf(r)
    /\ u \in exists
    /\ RequireManageableTarget(u, actor[r])
    /\ pc' = [pc EXCEPT ![r] = "checked"]
    /\ contended' = IF \E other \in Request \ {r} : Open(other, u)
                    THEN contended \cup {u} ELSE contended
    /\ UNCHANGED <<rowVars, auditVars, actor, command, seenRole, seenActive>>

(* A refusal that leaves its transaction open.                              *)
Refuse_stays_open(r) ==
    /\ pc[r] = "authorized"
    /\ command' = [command EXCEPT ![r] = NoCommand]
    /\ UNCHANGED <<rowVars, auditVars, pc, actor, seenRole, seenActive, contended>>

(* 404, 400 or 403: nothing is written.                                     *)
Refuse(r) ==
    LET u == command[r].target IN
    /\ pc[r] = "authorized" /\ ManagesOf(r)
    /\ u \in exists => ~RequireManageableTarget(u, actor[r])
    /\ Return(r)
    /\ UNCHANGED <<rowVars, auditVars, contended>>

(* The second SELECT, in set_role, set_is_active or soft_delete; the row of *)
(* the first is no longer in the session, so this one is read afresh.       *)
Load(r) ==
    LET u == command[r].target IN
    /\ pc[r] = "checked" /\ ManagesOf(r)
    /\ command[r].kind = "remove" => ~deleted[u]
    /\ pc' = [pc EXCEPT ![r] = "loaded"]
    /\ seenRole' = [seenRole EXCEPT ![r] = role[u]]
    /\ seenActive' = [seenActive EXCEPT ![r] = active[u]]
    /\ UNCHANGED <<rowVars, auditVars, actor, command, contended>>

(* soft_delete finds the account removed since the guards: UserNotFound.    *)
RemovedMeanwhile(r) ==
    /\ pc[r] = "checked" /\ command[r].kind = "remove"
    /\ deleted[command[r].target]
    /\ Return(r)
    /\ UNCHANGED <<rowVars, auditVars, contended>>

(* A role change whose audit row names the role the account had.            *)
ChangeRole_audits_from(r) ==
    LET c == command[r] IN
    /\ pc[r] = "loaded" /\ c.kind = "set_role"
    /\ role' = [role EXCEPT ![c.target] = c.role]
    /\ auditedRole' = [auditedRole EXCEPT ![c.target] = seenRole[r]]
    /\ Return(r)
    /\ UNCHANGED <<exists, active, deleted, email, auditedActive,
                   auditedDeleted, contended>>

ChangeRole(r) ==
    LET c == command[r] IN
    /\ pc[r] = "loaded" /\ c.kind = "set_role"
    /\ role' = IF seenRole[r] = c.role THEN role
               ELSE [role EXCEPT ![c.target] = c.role]
    /\ auditedRole' = [auditedRole EXCEPT ![c.target] = c.role]
    /\ Return(r)
    /\ UNCHANGED <<exists, active, deleted, email, auditedActive,
                   auditedDeleted, contended>>

SetUserActive(r) ==
    LET c == command[r]  on == c.kind = "activate" IN
    /\ pc[r] = "loaded" /\ c.kind \in {"activate", "deactivate"}
    /\ active' = IF seenActive[r] = on THEN active
                 ELSE [active EXCEPT ![c.target] = on]
    /\ auditedActive' = [auditedActive EXCEPT ![c.target] = on]
    /\ Return(r)
    /\ UNCHANGED <<exists, role, deleted, email, auditedRole,
                   auditedDeleted, contended>>

RemoveUserAccount(r) ==
    LET u == command[r].target IN
    /\ pc[r] = "loaded" /\ command[r].kind = "remove"
    /\ active' = IF seenActive[r] THEN [active EXCEPT ![u] = FALSE] ELSE active
    /\ deleted' = [deleted EXCEPT ![u] = TRUE]
    /\ email' = [email EXCEPT ![u] = NoEmail]
    /\ auditedActive' = [auditedActive EXCEPT ![u] = FALSE]
    /\ auditedDeleted' = [auditedDeleted EXCEPT ![u] = TRUE]
    /\ Return(r)
    /\ UNCHANGED <<exists, role, auditedRole, contended>>

Held(e) == \E u \in exists : email[u] = e

(* get_by_email finds no holder of the address.                             *)
CheckEmail(r) ==
    /\ pc[r] = "authorized" /\ command[r].kind = "invite"
    /\ ~Held(command[r].email)
    /\ pc' = [pc EXCEPT ![r] = "checked"]
    /\ UNCHANGED <<rowVars, auditVars, actor, command, seenRole, seenActive,
                   contended>>

RefuseEmail(r) ==
    /\ pc[r] = "authorized" /\ command[r].kind = "invite"
    /\ Held(command[r].email)
    /\ Return(r)
    /\ UNCHANGED <<rowVars, auditVars, contended>>
(* Creation that relies on the look-up alone, without the unique column.    *)
CreateUser_unconstrained(r) ==
    LET c == command[r]  u == c.target IN
    /\ pc[r] = "checked" /\ c.kind = "invite" /\ u \notin exists
    /\ exists' = exists \cup {u}
    /\ role' = [role EXCEPT ![u] = c.role]
    /\ email' = [email EXCEPT ![u] = c.email]
    /\ auditedRole' = [auditedRole EXCEPT ![u] = c.role]
    /\ Return(r)
    /\ UNCHANGED <<active, deleted, auditedActive, auditedDeleted, contended>>

(* create and the audit row: is_active defaults to TRUE.  The id is fresh.  *)
CreateUser(r) ==
    LET c == command[r]  u == c.target IN
    /\ pc[r] = "checked" /\ c.kind = "invite"
    /\ u \notin exists
    /\ ~Held(c.email)
    /\ exists' = exists \cup {u}
    /\ role' = [role EXCEPT ![u] = c.role]
    /\ email' = [email EXCEPT ![u] = c.email]
    /\ auditedRole' = [auditedRole EXCEPT ![u] = c.role]
    /\ Return(r)
    /\ UNCHANGED <<active, deleted, auditedActive, auditedDeleted, contended>>

(* The database or the process fails before the commit (the unique column   *)
(* email refuses an address taken since the look-up): the session rolls     *)
(* back, nothing is written.                                                *)
Rollback(r) ==
    /\ pc[r] # "idle"
    /\ Return(r)
    /\ UNCHANGED <<rowVars, auditVars, contended>>

Manage(r) ==
    \/ Check(r) \/ Refuse(r) \/ Load(r) \/ RemovedMeanwhile(r)
    \/ ChangeRole(r) \/ SetUserActive(r) \/ RemoveUserAccount(r)

Invite(r) == CheckEmail(r) \/ RefuseEmail(r) \/ CreateUser(r)

Next ==
    \E r \in Request :
        \/ \E u \in User, c \in Command : Authorize(r, u, c)
        \/ Manage(r)
        \/ Invite(r)
        \/ Rollback(r)

Spec == Init /\ [][Next]_vars

-----------------------------------------------------------------------------
(* The administrator the migration creates stays an active administrator    *)
(* under its own address whatever other administrators do, however their    *)
(* requests overlap: mark_batch_failed looks an administrator up to sign    *)
(* its audit rows (prediction_service.py:171-174), and without one nobody   *)
(* could administer dropsort again.                                         *)
SeedKept ==
    /\ Seed \in exists
    /\ role[Seed] = "admin" /\ active[Seed] /\ ~deleted[Seed]
    /\ email[Seed] = SeedEmail

(* A removed account is inactive (soft_delete, user_repository.py:78), as   *)
(* long as no two transactions on it overlapped.                            *)
RemovedIsInactive == \A u \in User \ contended : deleted[u] => ~active[u]

(* Replaying the audit log gives the account as it is: a role_changed,      *)
(* user_deactivated, ... row tells the truth although the service appends   *)
(* it whether or not the column changed, as long as no two transactions on  *)
(* the account overlapped.                                                  *)
AuditReplays ==
    \A u \in exists \ contended :
        /\ auditedRole[u] = role[u]
        /\ auditedActive[u] = active[u]
        /\ auditedDeleted[u] = deleted[u]

(* Authority is checked once, when a request comes in, and used up to its   *)
(* commit: the actor is an active administrator all that time.              *)
ActorsStayAdministrators ==
    \A r \in Request :
        pc[r] # "idle" /\ actor[r] \notin contended =>
            actor[r] \in exists /\ active[actor[r]] /\ role[actor[r]] = "admin"

(* The e-mail address of a removed account is free for another invitation   *)
(* and no address is ever held twice, although invite looks it up and       *)
(* inserts in two statements.                                               *)
EmailsDistinct ==
    /\ \A u, v \in exists : u # v /\ email[u] = email[v] => email[u] = NoEmail
    /\ \A u \in exists : email[u] = NoEmail => deleted[u]

(* No step alters the row of an administrator or of a removed account, as   *)
(* long as no two transactions on it overlapped: the guards read the row    *)
(* before the repository loads it for the write.                            *)
GuardedRowsKept ==
    [][\A u \in exists \ contended' :
          role[u] = "admin" \/ deleted[u] =>
              /\ role'[u] = role[u] /\ active'[u] = active[u]
              /\ deleted'[u] = deleted[u] /\ email'[u] = email[u]]_vars

(* What the rows say of each account, as long as no two transactions on it *)
(* overlapped.                                                             *)
Book ==
    [u \in User |->
        IF u \notin exists THEN [status |-> "absent"]
        ELSE IF u \in contended THEN [status |-> "disputed"]
        ELSE [status |-> "known", role |-> role[u], active |-> active[u],
              removed |-> deleted[u], address |-> email[u]]]

Accounts == INSTANCE AccountBook
    WITH Account <- User, Founder <- Seed, Role <- Role, Address <- Email,
         FounderAddress <- SeedEmail, NoAddress <- NoEmail, book <- Book

(* The statements of a request (guards, second look, flush and commit, the *)
(* audit row) amount to one atomic operation whose guards hold when it     *)
(* takes effect: no administrator and no removed account is changed, a     *)
(* column the request does not name keeps its value, an address is given   *)
(* away once.                                                              *)
ImplementsBook == Accounts!BookSpec
=============================================================================
