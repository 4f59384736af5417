------------------------------ MODULE Requests ------------------------------
(***************************************************************************)
(* The life of a request inside the api: the dependencies that             *)
(* authenticate it and ask the enforcer, the handler, the answer, and the  *)
(* database connections it holds on the way.                               *)
(*                                                                         *)
(* A guarded request reads its account through a session of its own        *)
(* (get_user_db), whose transaction stays open, and keeps its connection,  *)
(* until the answer is sent.  Most handlers use a second session, and so   *)
(* wait for a second connection of the same pool while they hold the       *)
(* first.  A request that waits longer than the pool's timeout fails.      *)
(*                                                                         *)
(* What the handlers write and cache is the matter of other modules: here  *)
(* a transaction is refused, or commits and may change the standing of an  *)
(* account.                                                                *)
(***************************************************************************)
EXTENDS Access, FiniteSets

CONSTANTS
  Request,      \* slots of requests in flight
  Account,      \* rows of users
  Nobody,       \* a request without a token that names an account
  PoolSize,     \* connections the pool opens: pool_size + max_overflow
  LoginLimit,   \* RateLimiter(times=...)
  Policy,       \* the rules the enforcer has loaded
  Called,       \* bound: the endpoints that are called
  Granted       \* bound: the roles accounts are given

Endpoint == {"health", "login", "me", "batches", "batch", "recent", "users",
             "audit", "overlay", "upload", "relabel", "manage"}

ASSUME RequestsAssumption ==
  /\ IsFiniteSet(Request) /\ Nobody \notin Account
  /\ PoolSize \in Nat \ {0} /\ LoginLimit \in Nat /\ Called \subseteq Endpoint
  /\ Granted \subseteq Role

(* What require_permission hands to the enforcer; the endpoints under      *)
(* /admin/users that write are one, PATCH .../active.                      *)
CallOf ==
  [me      |-> Call(<<"me">>, "GET"),
   batches |-> Call(<<"batches">>, "GET"),
   batch   |-> Call(<<"batches", "batch_id">>, "GET"),
   recent  |-> Call(<<"predictions", "recent">>, "GET"),
   users   |-> Call(<<"admin", "users">>, "GET"),
   audit   |-> Call(<<"audit">>, "GET"),
   overlay |-> Call(<<"predictions", "prediction_id", "overlay">>, "GET"),
   upload  |-> Call(<<"batches", "upload">>, "POST"),
   relabel |-> Call(<<"predictions", "prediction_id">>, "PATCH"),
   manage  |-> Call(<<"admin", "users", "target_user_id", "active">>, "PATCH")]

Guarded  == Endpoint \ {"health", "login"}
Writing  == {"upload", "relabel", "manage"}
WithBody == Writing \cup {"login"}
Cached   == {"me", "batches", "batch", "recent"}
Missable == {"batch", "overlay"}   \* reads that may answer 404

Status == {"none", "ok", "400", "401", "403", "404", "409", "422", "429",
           "500", "502", "503"}

(* How far a request is.  At "user" and "session" it has just got the      *)
(* connection it was waiting for; at "written" its transaction is          *)
(* committed.                                                              *)
Step == {"idle", "arrived", "wantsUser", "user", "entered", "wantsSession",
         "session", "fetching", "written", "answered"}

VARIABLES
  role, active,  \* columns of users
  attempts,      \* logins counted in the limiter's present window
  pc,            \* request -> how far it is
  endpoint,      \* request -> what it asks
  sender,        \* request -> the account its token names
  answer,        \* request -> the status it is answered with
  userHolds,     \* requests whose get_user_db session has a connection
  dataHolds,     \* requests whose other session has one
  committed,     \* requests that have committed a transaction
  entitled       \* history: request -> whether its sender could call the
                 \*   endpoint, at each moment since it arrived

accountVars == <<role, active>>
poolVars    == <<userHolds, dataHolds>>
vars == <<accountVars, attempts, pc, endpoint, sender, answer, poolVars,
          committed, entitled>>

TypeOK ==
  /\ role \in [Account -> Role] /\ active \in [Account -> BOOLEAN]
  /\ attempts \in 0..LoginLimit
  /\ pc \in [Request -> Step]
  /\ endpoint \in [Request -> Endpoint]
  /\ sender \in [Request -> Account \cup {Nobody}]
  /\ answer \in [Request -> Status]
  /\ userHolds \subseteq Request /\ dataHolds \subseteq Request
  /\ committed \subseteq Request
  /\ entitled \in [Request -> SUBSET BOOLEAN]

Init ==
  /\ role \in [Account -> Granted] /\ active = [a \in Account |-> TRUE]
  /\ attempts = 0
  /\ pc = [r \in Request |-> "idle"]
  /\ endpoint = [r \in Request |-> "health"]
  /\ sender = [r \in Request |-> Nobody]
  /\ answer = [r \in Request |-> "none"]
  /\ userHolds = {} /\ dataHolds = {} /\ committed = {}
  /\ entitled = [r \in Request |-> {}]

(* Connections that are checked out.                                       *)
InUse == Cardinality(userHolds) + Cardinality(dataHolds)

MayCall(a, e) == a \in Account /\ active[a] /\ Allowed(Policy, role[a], CallOf[e])

-----------------------------------------------------------------------------
Goto(r, step) == pc' = [pc EXCEPT ![r] = step]

(* An exception: the exit stack of the route closes both sessions, then    *)
(* the handler of the exception makes the answer.                          *)
Fail(r, status) ==
  /\ Goto(r, "answered")
  /\ answer' = [answer EXCEPT ![r] = status]
  /\ userHolds' = userHolds \ {r} /\ dataHolds' = dataHolds \ {r}

(* A result: FastAPI sends the response before it closes the sessions.     *)
Succeed(r) ==
  /\ Goto(r, "answered")
  /\ answer' = [answer EXCEPT ![r] = "ok"]
  /\ UNCHANGED poolVars

Sent == UNCHANGED <<endpoint, sender>>
Quiet == UNCHANGED <<accountVars, attempts, committed, entitled>>

Arrive(r, e, a) ==
  /\ pc[r] = "idle" /\ e \in Called
  /\ Goto(r, "arrived")
  /\ endpoint' = [endpoint EXCEPT ![r] = e]
  /\ sender' = [sender EXCEPT ![r] = IF e \in Guarded THEN a ELSE Nobody]
  /\ entitled' = [entitled EXCEPT ![r] = IF e \in Guarded THEN {MayCall(a, e)} ELSE {}]
  /\ UNCHANGED <<accountVars, attempts, answer, poolVars, committed>>

(* A body that cannot be parsed is refused before any dependency runs.     *)
BodyError(r) ==
  /\ pc[r] = "arrived" /\ endpoint[r] \in WithBody
  /\ Fail(r, IF endpoint[r] \in {"relabel", "manage"} THEN "422" ELSE "400")
  /\ Sent /\ Quiet

(* A parameter or field that is missing or of the wrong form is refused    *)
(* once all dependencies have run.                                         *)
ValidationError(r) ==
  /\ pc[r] = "entered" /\ endpoint[r] \notin {"me", "users"}
  /\ Fail(r, "422")
  /\ Sent /\ Quiet

-----------------------------------------------------------------------------
(* Dependencies.                                                           *)

(* Mutant of Limit: the count is not looked at.                            *)
LimitNever(r) ==
  /\ pc[r] = "arrived" /\ endpoint[r] = "login"
  /\ attempts' = attempts + 1
  /\ Goto(r, "entered")
  /\ Sent /\ UNCHANGED <<accountVars, answer, poolVars, committed, entitled>>

(* RateLimiter counts the call in Redis, or refuses it.                    *)
Limit(r) ==
  /\ pc[r] = "arrived" /\ endpoint[r] = "login"
  /\ IF attempts < LoginLimit
       THEN /\ attempts' = attempts + 1
            /\ Goto(r, "entered") /\ UNCHANGED <<answer, poolVars>>
       ELSE Fail(r, "429") /\ UNCHANGED attempts
  /\ Sent /\ UNCHANGED <<accountVars, committed, entitled>>

(* The limiter's window of 60 seconds is over.                             *)
WindowEnds ==
  /\ attempts > 0 /\ attempts' = 0
  /\ UNCHANGED <<accountVars, pc, endpoint, sender, answer, poolVars, committed,
                 entitled>>

(* read_token: without a valid token there is no query.                    *)
ReadToken(r) ==
  /\ pc[r] = "arrived" /\ endpoint[r] \in Guarded
  /\ IF sender[r] = Nobody
       THEN Fail(r, "401")
       ELSE Goto(r, "wantsUser") /\ UNCHANGED <<answer, poolVars>>
  /\ Sent /\ Quiet

(* The first statement of a session takes a connection out of the pool.    *)
Connect(r) ==
  /\ InUse < PoolSize
  /\ \/ pc[r] = "wantsUser" /\ Goto(r, "user")
        /\ userHolds' = userHolds \cup {r} /\ UNCHANGED dataHolds
     \/ pc[r] = "wantsSession" /\ Goto(r, "session")
        /\ dataHolds' = dataHolds \cup {r} /\ UNCHANGED userHolds
  /\ Sent /\ Quiet /\ UNCHANGED answer

(* Mutant of PoolTimesOut: who already holds a connection waits on.        *)
PoolTimesOutFirstOnly(r) ==
  /\ pc[r] = "wantsUser"
  /\ InUse >= PoolSize
  /\ Fail(r, "500")
  /\ Sent /\ Quiet

(* QueuePool: no connection within its timeout.  /health reports that of   *)
(* Postgres as it does every other failure.                                *)
PoolTimesOut(r) ==
  /\ pc[r] \in {"wantsUser", "wantsSession"}
  /\ InUse >= PoolSize
  /\ Fail(r, IF endpoint[r] = "health" THEN "503" ELSE "500")
  /\ Sent /\ Quiet

(* Mutant of Authorize: current_user() without active=True.                *)
AuthorizeInactive(r) ==
  LET a == sender[r] IN
  /\ pc[r] = "user" /\ endpoint[r] \in Guarded
  /\ \/ ~Allowed(Policy, role[a], CallOf[endpoint[r]]) /\ Fail(r, "403")
     \/ /\ Allowed(Policy, role[a], CallOf[endpoint[r]])
        /\ Goto(r, "entered") /\ UNCHANGED <<answer, poolVars>>
  /\ Sent /\ Quiet

(* current_user(active=True), then enforce with the role of that row.      *)
Authorize(r) ==
  LET a == sender[r] IN
  /\ pc[r] = "user" /\ endpoint[r] \in Guarded
  /\ \/ ~active[a] /\ Fail(r, "401")
     \/ active[a] /\ ~Allowed(Policy, role[a], CallOf[endpoint[r]]) /\ Fail(r, "403")
     \/ MayCall(a, endpoint[r]) /\ Goto(r, "entered") /\ UNCHANGED <<answer, poolVars>>
  /\ Sent /\ Quiet

(* POST /auth/jwt/login: authenticate, with one session.                   *)
Login(r) ==
  /\ pc[r] = "user" /\ endpoint[r] = "login"
  /\ Succeed(r) \/ Fail(r, "400")
  /\ Sent /\ Quiet

-----------------------------------------------------------------------------
(* Handlers.                                                               *)

(* /me answers with the user of the dependency; a cached read may be a     *)
(* hit.  Neither needs the second session.                                 *)
AnswerAtOnce(r) ==
  /\ pc[r] = "entered" /\ endpoint[r] \in Cached
  /\ Succeed(r)
  /\ Sent /\ Quiet

(* The handler comes to its first statement: that of authenticate, the     *)
(* SELECT 1 of /health, the query of an endpoint that is not cached or     *)
(* missed.  (enqueue_browser_tiff has stored the file by then.)            *)
Enter(r) ==
  /\ \/ pc[r] = "entered" /\ endpoint[r] = "login" /\ Goto(r, "wantsUser")
     \/ pc[r] = "arrived" /\ endpoint[r] = "health" /\ Goto(r, "wantsSession")
     \/ pc[r] = "entered" /\ endpoint[r] \notin {"login", "me"} /\ Goto(r, "wantsSession")
  /\ Sent /\ Quiet /\ UNCHANGED <<answer, poolVars>>

(* UploadRejected: the file is stored under failed/ and refused.           *)
RejectUpload(r) ==
  /\ pc[r] = "entered" /\ endpoint[r] = "upload"
  /\ Fail(r, "400")
  /\ Sent /\ Quiet

Health(r) ==
  /\ pc[r] = "session" /\ endpoint[r] = "health"
  /\ \E status \in {"ok", "503"} : Fail(r, status)
  /\ Sent /\ Quiet

Read(r) ==
  /\ pc[r] = "session" /\ endpoint[r] \in Guarded \ Writing
  /\ \/ endpoint[r] \in Missable /\ Fail(r, "404")
     \/ endpoint[r] = "overlay" /\ Goto(r, "fetching") /\ UNCHANGED <<answer, poolVars>>
     \/ endpoint[r] # "overlay" /\ Succeed(r)
  /\ Sent /\ Quiet

(* The overlay comes from MinIO, in a thread, while both sessions stay     *)
(* open.                                                                   *)
FetchOverlay(r) ==
  /\ pc[r] = "fetching"
  /\ Succeed(r) \/ Fail(r, "502")
  /\ Sent /\ Quiet

(* The guards of the services, inside the transaction.                     *)
Refusals == [relabel |-> {"404", "409"}, manage |-> {"400", "403", "404"}, upload |-> {}]

Refuse(r) ==
  /\ pc[r] = "session" /\ endpoint[r] \in Writing
  /\ \E status \in Refusals[endpoint[r]] : Fail(r, status)
  /\ Sent /\ Quiet

(* session.begin() ends: the connection goes back to the pool.  A request  *)
(* under /admin/users changes another account (which ones it may change is *)
(* the matter of UserAdmin).                                               *)
Commit(r) ==
  /\ pc[r] = "session" /\ endpoint[r] \in Writing
  /\ Goto(r, "written")
  /\ committed' = committed \cup {r}
  /\ dataHolds' = dataHolds \ {r}
  /\ IF endpoint[r] = "manage"
       THEN \E a \in Account \ {sender[r]} :
              \/ \E on \in BOOLEAN : active' = [active EXCEPT ![a] = on] /\ UNCHANGED role
              \/ \E new \in Granted : role' = [role EXCEPT ![a] = new] /\ UNCHANGED active
       ELSE UNCHANGED accountVars
  /\ Sent
  /\ entitled' = [q \in Request |->
       IF entitled[q] = {} THEN {}
       ELSE entitled[q] \cup {MayCall(sender[q], endpoint[q])'}]
  /\ UNCHANGED <<attempts, answer, userHolds>>

(* What follows the commit: the clears, the job, the reload of the policy. *)
Finish(r) ==
  /\ pc[r] = "written"
  /\ Succeed(r)
  /\ Sent /\ Quiet

(* Mutant of Unhandled: a job that cannot be enqueued is a rejected upload. *)
UnhandledRejects(r) ==
  /\ pc[r] = "written" /\ endpoint[r] = "upload"
  /\ Fail(r, "400")
  /\ Sent /\ Quiet

(* Postgres, Redis or MinIO fails where nothing catches the exception.     *)
Unhandled(r) ==
  /\ \/ pc[r] \in {"user", "written"}
     \/ pc[r] = "arrived" /\ endpoint[r] = "login"
     \/ pc[r] = "entered" /\ endpoint[r] = "upload"
     \/ pc[r] = "session" /\ endpoint[r] # "health"
  /\ Fail(r, "500")
  /\ Sent /\ Quiet

(* Mutant of End: get_session that does not close its session.             *)
EndOpen(r) ==
  /\ pc[r] = "answered"
  /\ Goto(r, "idle")
  /\ endpoint' = [endpoint EXCEPT ![r] = "health"]
  /\ sender' = [sender EXCEPT ![r] = Nobody]
  /\ answer' = [answer EXCEPT ![r] = "none"]
  /\ userHolds' = userHolds \ {r} /\ UNCHANGED dataHolds
  /\ committed' = committed \ {r}
  /\ entitled' = [entitled EXCEPT ![r] = {}]
  /\ UNCHANGED <<accountVars, attempts>>

(* The answer is sent; what sessions are still open are closed.            *)
End(r) ==
  /\ pc[r] = "answered"
  /\ Goto(r, "idle")
  /\ endpoint' = [endpoint EXCEPT ![r] = "health"]
  /\ sender' = [sender EXCEPT ![r] = Nobody]
  /\ answer' = [answer EXCEPT ![r] = "none"]
  /\ userHolds' = userHolds \ {r} /\ dataHolds' = dataHolds \ {r}
  /\ committed' = committed \ {r}
  /\ entitled' = [entitled EXCEPT ![r] = {}]
  /\ UNCHANGED <<accountVars, attempts>>

Proceed(r) ==
  \/ BodyError(r) \/ ValidationError(r) \/ Limit(r) \/ ReadToken(r) \/ Connect(r) \/ PoolTimesOut(r)
  \/ Authorize(r) \/ Login(r) \/ AnswerAtOnce(r) \/ Enter(r) \/ RejectUpload(r)
  \/ Health(r) \/ Read(r) \/ FetchOverlay(r) \/ Refuse(r) \/ Commit(r) \/ Finish(r)
  \/ Unhandled(r) \/ End(r)

Next ==
  \/ WindowEnds
  \/ \E r \in Request :
       \/ \E e \in Called, a \in Account \cup {Nobody} : Arrive(r, e, a)
       \/ Proceed(r)

Spec == Init /\ [][Next]_vars /\ \A r \in Request : WF_vars(Proceed(r))

-----------------------------------------------------------------------------
InFlight == {r \in Request : pc[r] # "idle"}
Waiting  == {r \in Request : pc[r] \in {"wantsUser", "wantsSession"}}

(* Requests that read their account and may need a second connection.      *)
Nesting  == {r \in InFlight : endpoint[r] \in Guarded \ {"me"}}

(* While fewer of these are in flight than the pool has connections, the   *)
(* requests in flight, however many, never all wait for one another: a     *)
(* connection is free, or some request holds one without waiting for a     *)
(* second.  (When as many are in flight, each may hold one and wait for    *)
(* another, until the pool's timeout.)                                     *)
ConnectionsSuffice ==
  Cardinality(Nesting) < PoolSize =>
    InUse < PoolSize \/ \E r \in InFlight \ Waiting : r \in userHolds \cup dataHolds

(* Authority is checked once, before a wait for a connection, and the      *)
(* account may be changed by another request at any time; still nothing is *)
(* answered or committed unless its sender could call the endpoint at some *)
(* moment since the request came in, and no one is refused who could at    *)
(* every such moment.  (A 403 of /admin/users may also speak of the        *)
(* target.)                                                                *)
AnswersFollowAuthority ==
  \A r \in Request : pc[r] = "answered" /\ endpoint[r] \in Guarded =>
    /\ answer[r] = "ok" \/ r \in committed => TRUE \in entitled[r]
    /\ answer[r] = "401" \/ (answer[r] = "403" /\ endpoint[r] # "manage") =>
         FALSE \in entitled[r]

(* A write that is answered with success is committed, and one that is     *)
(* refused is not, whatever fails before or after the commit and however   *)
(* long the request waits for its connections: only a 500 leaves it open.  *)
AnswersTellCommit ==
  \A r \in Request : pc[r] = "answered" =>
    /\ answer[r] = "ok" /\ endpoint[r] \in Writing => r \in committed
    /\ r \in committed => answer[r] \in {"ok", "500"}

(* Every request is answered, although requests may wait for connections   *)
(* that others hold who wait themselves: the timeout of the pool ends      *)
(* that.                                                                   *)
EveryRequestAnswered ==
  \A r \in Request : pc[r] = "arrived" ~> pc[r] = "answered"
=============================================================================
