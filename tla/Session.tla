------------------------------ MODULE Session ------------------------------
(***************************************************************************)
(* The session of the single page application: AuthProvider of              *)
(* frontend/src/auth/AuthContext.tsx, in one browser tab.  The token is in  *)
(* localStorage and in the state of the provider, which setToken and logout *)
(* always set together.  An effect fetches /me whenever the token or        *)
(* useNavigate's function changes, and the latter changes with the path; its*)
(* cleanup cancels the fetch before it.  refreshMe, called by the account   *)
(* page and after a change of one's own role, fetches /me as well, and      *)
(* nothing cancels that fetch.  LoginPage's login is a request too: what it *)
(* does with its answer it does in whatever session it finds, its form gone *)
(* or not.  The requests of the pages take part with the 401 they may come  *)
(* back with.  Answers come in any order.                                   *)
(***************************************************************************)
CONSTANTS User,   \* who may log in; a token stands for the user it names
          Nobody, \* no token, no profile
          Slot    \* bound: requests under way

ASSUME NobodyAssumption == Nobody \notin User

VARIABLES
    token,   \* localStorage and state token
    me,      \* state me: whose profile Layout and RequireAdmin show
    loading, \* state meLoading
    rerun,   \* the effect has yet to run for the last render
    request, \* slot -> the fetch in it
    crossed, \* history: a login was submitted before one submitted earlier
             \* had been answered and rendered
    stray    \* history: me is the profile of another session, set by an
             \* answer to refreshMe or while logins are crossed

vars == <<token, me, loading, rerun, request, crossed, stray>>

(* The bearer of a login is the user whose password was typed.              *)
Kind == {"effect", "refresh", "page", "login"}
Free == [kind |-> "none", bearer |-> Nobody]
Fetch(kind) == [kind |-> kind, bearer |-> token]
Requests == [kind : Kind, bearer : User] \cup {Free}

TypeOK ==
    /\ token \in User \cup {Nobody}
    /\ me \in User \cup {Nobody}
    /\ loading \in BOOLEAN
    /\ rerun \in BOOLEAN
    /\ request \in [Slot -> Requests]
    /\ crossed \in BOOLEAN
    /\ stray \in BOOLEAN

(* The page is loaded, with or without a token from an earlier visit.       *)
Init ==
    /\ token \in User \cup {Nobody}
    /\ me = Nobody
    /\ loading = FALSE
    /\ rerun = TRUE
    /\ request = [s \in Slot |-> Free]
    /\ crossed = FALSE
    /\ stray = FALSE

-----------------------------------------------------------------------------
LoginsUnderWay == {s \in Slot : request[s].kind = "login"}

(* The form is on screen without a token, and until the render that a token *)
(* leads to.  Typing renders it, before which React runs the effects due.   *)
(* With a token this says more than the code allows: other renders are due  *)
(* as well.  A login that the form cannot send only counts as crossed.      *)
FormShown == IF token = Nobody THEN ~rerun ELSE rerun

(* onSubmit.  The button is disabled while its own login is under way, but  *)
(* another path and back is another form.                                   *)
SubmitLogin(s, u) ==
    /\ FormShown
    /\ request[s] = Free
    /\ request' = [request EXCEPT ![s] = [kind |-> "login", bearer |-> u]]
    /\ crossed' = (crossed \/ LoginsUnderWay # {} \/ token # Nobody)
    /\ UNCHANGED <<token, me, loading, rerun, stray>>

Logout ==
    /\ token' = Nobody
    /\ me' = Nobody
    /\ loading' = FALSE
    /\ rerun' = (rerun \/ token # Nobody)
    /\ stray' = FALSE

SignOut == token # Nobody /\ Logout /\ UNCHANGED <<request, crossed>>

(* Another path: navigate is another function, a dependency of the effect.  *)
Navigate ==
    /\ rerun' = TRUE
    /\ UNCHANGED <<token, me, loading, request, crossed, stray>>

(* No cleanup.                                                              *)
Cancelled_never == request

(* The cleanup of the effect: an answer to a cancelled fetch does nothing.  *)
Cancelled == [s \in Slot |-> IF request[s].kind = "effect" THEN Free ELSE request[s]]

RunEffect ==
    /\ rerun
    /\ rerun' = FALSE
    /\ crossed' = (crossed /\ LoginsUnderWay # {})
    /\ IF token = Nobody
       THEN /\ me' = Nobody /\ loading' = FALSE /\ stray' = FALSE
            /\ request' = Cancelled
       ELSE /\ loading' = TRUE
            /\ \E s \in Slot : /\ Cancelled[s] = Free
                               /\ request' = [Cancelled EXCEPT ![s] = Fetch("effect")]
            /\ UNCHANGED <<me, stray>>
    /\ UNCHANGED token

(* refreshMe without its look at the token.                                 *)
RefreshMe_without_token(s) ==
    /\ request[s] = Free
    /\ loading' = TRUE
    /\ request' = [request EXCEPT ![s] = Fetch("refresh")]
    /\ UNCHANGED <<token, me, rerun, crossed, stray>>

(* refreshMe, from a click or from what a page does after a fetch of its    *)
(* own: there may be no token by then.                                      *)
RefreshMe(s) ==
    /\ request[s] = Free
    /\ \/ /\ token # Nobody
          /\ loading' = TRUE
          /\ request' = [request EXCEPT ![s] = Fetch("refresh")]
          /\ UNCHANGED <<me, stray>>
       \/ /\ token = Nobody
          /\ me' = Nobody
          /\ stray' = FALSE
          /\ UNCHANGED <<loading, request>>
    /\ UNCHANGED <<token, rerun, crossed>>

(* A page fetches its data.                                                 *)
PageRequest(s) ==
    /\ token # Nobody
    /\ request[s] = Free
    /\ request' = [request EXCEPT ![s] = Fetch("page")]
    /\ UNCHANGED <<token, me, loading, rerun, crossed, stray>>

-----------------------------------------------------------------------------
Done(s) == request' = [request EXCEPT ![s] = Free]

(* A login is answered with a token: setToken, whatever the session is now. *)
LoginAnswer(s) ==
    /\ request[s].kind = "login"
    /\ token' = request[s].bearer
    /\ me' = Nobody
    /\ rerun' \in {rerun \/ token # token', TRUE}
    /\ stray' = FALSE
    /\ Done(s)
    /\ UNCHANGED <<loading, crossed>>

(* Any other answer to it, or none: an error in the form, if it is there.   *)
LoginFails(s) ==
    /\ request[s].kind = "login"
    /\ Done(s)
    /\ UNCHANGED <<token, me, loading, rerun, crossed, stray>>

(* 200 and its JSON.                                                        *)
Answer(s) ==
    /\ request[s].kind \in {"effect", "refresh"}
    /\ me' = request[s].bearer
    /\ loading' = FALSE
    /\ stray' = /\ request[s].bearer # token
                /\ request[s].kind = "refresh" \/ crossed
    /\ Done(s)
    /\ UNCHANGED <<token, rerun, crossed>>

(* Of the other answers to a page, a 403 navigates to /forbidden.           *)
PageAnswer(s) ==
    /\ request[s].kind = "page"
    /\ rerun' \in {rerun, TRUE}
    /\ Done(s)
    /\ UNCHANGED <<token, me, loading, crossed, stray>>

(* 401: the account was deactivated or the token is too old.  A page goes   *)
(* through useApiErrorHandler, with the same effect.                        *)
Unauthorized(s) ==
    /\ request[s].kind \in {"effect", "refresh", "page"}
    /\ Logout
    /\ Done(s)
    /\ UNCHANGED crossed

(* 403, which navigates to /forbidden, another status, or a network error.  *)
Unanswered(s) ==
    /\ request[s].kind \in {"effect", "refresh"}
    /\ me' = Nobody
    /\ loading' = FALSE
    /\ stray' = FALSE
    /\ rerun' \in {rerun, TRUE}
    /\ Done(s)
    /\ UNCHANGED <<token, crossed>>

Next ==
    \/ SignOut \/ Navigate \/ RunEffect
    \/ \E s \in Slot : \/ \E u \in User : SubmitLogin(s, u)
                       \/ LoginAnswer(s) \/ LoginFails(s)
                       \/ RefreshMe(s) \/ PageRequest(s)
                       \/ Answer(s) \/ PageAnswer(s)
                       \/ Unauthorized(s) \/ Unanswered(s)

Spec == Init /\ [][Next]_vars

-----------------------------------------------------------------------------
(* The profile on screen is that of the session, through logins that are    *)
(* answered in a session of their own or in none, logouts, navigations and  *)
(* late answers: cancelled fetches, setMe(null) and the effect leave two    *)
(* ways for another one, a refreshMe that began in an earlier session and   *)
(* logins that cross, where the second token replaces the first before the  *)
(* effect has cancelled the first's fetch.  With no token it is gone once   *)
(* the effect has run.                                                      *)
ShownProfileIsSessions ==
    me # Nobody /\ ~stray => me = token \/ (token = Nobody /\ rerun)

(* A spinner waits for something: some fetch of /me that can end it is under*)
(* way, through cancellations and the 401s of pages.                        *)
LoadingIsWaiting ==
    loading => \E s \in Slot : request[s].kind \in {"effect", "refresh"}
=============================================================================
