--------------------------- MODULE ConsoleSession ---------------------------
(***************************************************************************)
(* Signing in to the web console: the login form and its TOTP step, single *)
(* sign-on, the AuthGuard and the `me` query it decides by, the 401 of any *)
(* other request, sign-out, the TOTP and password cards, and the sessions  *)
(* of the API they run against.  One tab of one browser.                   *)
(***************************************************************************)
EXTENDS Naturals

CONSTANTS MaxLogins,    \* bound on sessions created
          LockAfter,    \* wrong passwords that lock the master admin
          SessionFaults \* bound on requests that get no answer

ASSUME SessionAssumption ==
    MaxLogins \in Nat /\ LockAfter \in Nat \ {0} /\ SessionFaults \in Nat

VARIABLES route,     \* "/login", or the console page on show
          returnTo,  \* the return_to parameter of the login page
          leftAt,    \* history: the page the guard last sent to the login
          sessions,  \* state.sessions: the user of every session identifier
          cookie,    \* the browser's session cookie, 0 when there is none
          me,        \* the `me` query
          cache,     \* for every page, whose session its cached data is of
          pageReq,   \* the request of the page on show
          seen401,   \* history: a 401 not yet followed by an answer of me
          form,      \* the login form
          account,   \* the master admin's row: password, TOTP, failures, lock
          card,      \* the TOTP card's enrollment
          lost       \* requests that got no answer

sessVars == <<route, returnTo, leftAt, sessions, cookie, me, cache, pageReq,
              seen401, form, account, card, lost>>

None == "none"
Users == {"admin", "ada"}
Pages == {"/", "/users"}
Sids == 1..MaxLogins
Idle == [busy |-> FALSE, sid |-> 0]
Sent(sid) == [busy |-> TRUE, sid |-> sid]

EmptyForm == [step |-> "password", busy |-> FALSE,
              body |-> [password |-> 0, code |-> None]]

(* permissionsOf: ada is a restore operator, without user.read.             *)
hasPermission(user, page) == page = "/users" => user = "admin"

(* visibleNav: the pages the navigation offers.                             *)
visibleNav(user) == {p \in Pages : hasPermission(user, p)}

(* sanitizeReturnTo, for a page of the console or the login page itself.    *)
sanitizeReturnTo(path) == IF path \in Pages THEN path ELSE "/"

loginPathFor(path) == sanitizeReturnTo(path)

------------------------------------------------------------------------------
(* The API: sessions and the answers to requests.                           *)

sessionUser(sid) == IF sid = 0 THEN None ELSE sessions[sid]
NextSid == {sid \in Sids : sessions[sid] = "unused"
                /\ \A s \in 1..(sid - 1) : sessions[s] # "unused"}

Unauthorized(sid) == sessionUser(sid) \notin Users

(* A session ends: it expires, or the user signs out in another tab.        *)
SessionEnds ==
    /\ cookie # 0 /\ sessionUser(cookie) \in Users
    /\ sessions' = [sessions EXCEPT ![cookie] = None]
    /\ UNCHANGED <<route, returnTo, leftAt, cookie, me, cache, pageReq, seen401,
                   form, account, card, lost>>

LockEnds ==
    /\ account.locked
    /\ account' = [account EXCEPT !.locked = FALSE]
    /\ UNCHANGED <<route, returnTo, leftAt, sessions, cookie, me, cache, pageReq,
                   seen401, form, card, lost>>

(* POST /auth/login: the answer, and what it leaves in the account.         *)
LoginAnswer(body) ==
    CASE account.locked -> "account_locked"
      [] ~account.locked /\ body.password # account.password ->
            IF account.failures + 1 >= LockAfter THEN "account_locked"
            ELSE "invalid_credentials"
      [] ~account.locked /\ body.password = account.password ->
            IF ~account.totp \/ body.code = "right" THEN "ok"
            ELSE IF body.code = None THEN "totp_required" ELSE "invalid_totp"

LoginFailures(body) ==
    CASE account.locked -> account
      [] ~account.locked /\ body.password # account.password ->
            IF account.failures + 1 >= LockAfter
            THEN [account EXCEPT !.failures = 0, !.locked = TRUE]
            ELSE [account EXCEPT !.failures = @ + 1]
      [] OTHER -> IF LoginAnswer(body) = "ok" THEN [account EXCEPT !.failures = 0]
                  ELSE account

------------------------------------------------------------------------------
(* The me query (useMe) and the console's reactions to it.                  *)

NewMe == [user |-> None, totp |-> FALSE, status |-> "pending", inval |-> FALSE,
          req |-> Idle]

FetchMe(m, sid) == IF m.req.busy THEN m ELSE [m EXCEPT !.req = Sent(sid)]

(* invalidateQueries(me) while the guard or the login page watches it.      *)
InvalidateMe(m, sid) ==
    IF m.user = None THEN [FetchMe(m, sid) EXCEPT !.inval = TRUE]
    ELSE [m EXCEPT !.inval = TRUE, !.req = Sent(sid)]

(* A page with useMe mounts: it fetches without data, or invalid or old.    *)
MountMe(m, sid, old) ==
    IF m.user = None \/ m.inval \/ old THEN FetchMe(m, sid) ELSE m

SetMe(m, user, totp) == [m EXCEPT !.user = user, !.totp = totp,
                                  !.status = "success", !.inval = FALSE]

Rendered == route \in Pages /\ me.status = "success"

(* A full page load discards every cached query and all state in memory.    *)
PageLoad(path, sid) ==
    /\ route' = path /\ leftAt' = None
    /\ me' = FetchMe(NewMe, sid)
    /\ cache' = [p \in Pages |-> None] /\ pageReq' = Idle /\ seen401' = FALSE
    /\ form' = EmptyForm
    /\ card' = FALSE

(* GET /auth/me is answered.                                                *)
MeAnswered ==
    /\ me.req.busy
    /\ me' = IF Unauthorized(me.req.sid)
             THEN [me EXCEPT !.status = "unauth", !.inval = TRUE, !.req = Idle]
             ELSE [SetMe(me, sessionUser(me.req.sid),
                         account.totp /\ sessionUser(me.req.sid) = "admin")
                      EXCEPT !.req = Idle]
    /\ seen401' = FALSE
    /\ UNCHANGED <<route, returnTo, leftAt, sessions, cookie, cache, pageReq,
                   form, account, card, lost>>

(* It is not, or by a server error: no retry, and the guard offers one.     *)
MeFails ==
    /\ me.req.busy /\ lost < SessionFaults
    /\ lost' = lost + 1
    /\ me' = [me EXCEPT !.status = "error", !.inval = TRUE, !.req = Idle]
    /\ UNCHANGED <<route, returnTo, leftAt, sessions, cookie, cache, pageReq,
                   seen401, form, account, card>>

(* The Retry button of the guard, the refetch on focus, a failed stream.    *)
RecheckMe ==
    /\ ~me.req.busy
    /\ me' = FetchMe(me, cookie)
    /\ UNCHANGED <<route, returnTo, leftAt, sessions, cookie, cache, pageReq,
                   seen401, form, account, card, lost>>

\* Mutant: the guard redirects only when no user was ever read.
GuardRedirects_NoDataOnly ==
    /\ route \in Pages /\ me.status = "unauth" /\ me.user = None
    /\ route' = "/login" /\ returnTo' = loginPathFor(route) /\ leftAt' = route
    /\ pageReq' = Idle /\ card' = FALSE
    /\ form' = EmptyForm
    /\ \E old \in BOOLEAN : me' = MountMe(me, cookie, old)
    /\ UNCHANGED <<sessions, cookie, cache, seen401, account, lost>>

(* AuthGuard: a 401 of me goes to the login page, which mounts useMe again. *)
GuardRedirects ==
    /\ route \in Pages /\ me.status = "unauth"
    /\ route' = "/login" /\ returnTo' = loginPathFor(route) /\ leftAt' = route
    /\ pageReq' = Idle /\ card' = FALSE
    /\ form' = EmptyForm
    /\ \E old \in BOOLEAN : me' = MountMe(me, cookie, old)
    /\ UNCHANGED <<sessions, cookie, cache, seen401, account, lost>>

(* To the target of the login page, whose return_to is then gone.           *)
ToTarget == route' = sanitizeReturnTo(returnTo) /\ returnTo' = "/" /\ leftAt' = None

(* LoginView: already signed in, go straight to the target.                 *)
LoginViewRedirects ==
    /\ route = "/login" /\ me.status = "success"
    /\ ToTarget
    /\ \E old \in BOOLEAN : me' = MountMe(me, cookie, old)
    /\ UNCHANGED <<sessions, cookie, cache, pageReq, seen401, form, account, card, lost>>

------------------------------------------------------------------------------
(* The login page.                                                          *)

(* submit: the password, and the code in the second step.                   *)
SubmitLogin(password, code) ==
    /\ route = "/login" /\ ~form.busy
    /\ form.step = "totp" <=> code # None
    /\ form' = [form EXCEPT !.busy = TRUE,
                    !.body = [password |-> IF form.step = "totp" THEN @.password
                                           ELSE password, code |-> code]]
    /\ UNCHANGED <<route, returnTo, leftAt, sessions, cookie, me, cache, pageReq,
                   seen401, account, card, lost>>

LoginSucceeds ==
    /\ form.busy /\ LoginAnswer(form.body) = "ok"
    /\ \E sid \in NextSid :
        /\ sessions' = [sessions EXCEPT ![sid] = "admin"]
        /\ cookie' = sid
    /\ account' = LoginFailures(form.body)
    /\ me' = SetMe(me, "admin", account.totp)
    /\ form' = EmptyForm
    /\ ToTarget
    /\ seen401' = FALSE
    /\ UNCHANGED <<cache, pageReq, card, lost>>

LoginFails ==
    /\ form.busy /\ LoginAnswer(form.body) # "ok"
    /\ account' = LoginFailures(form.body)
    /\ form' = CASE LoginAnswer(form.body) = "totp_required"
                        -> [form EXCEPT !.busy = FALSE, !.step = "totp"]
                 [] LoginAnswer(form.body) = "invalid_credentials" -> EmptyForm
                 [] OTHER -> [form EXCEPT !.busy = FALSE, !.body.code = None]
    /\ UNCHANGED <<route, returnTo, leftAt, sessions, cookie, me, cache, pageReq,
                   seen401, card, lost>>

(* No answer: the form can be sent again.  The server may have counted the  *)
(* attempt; a session whose cookie never arrives is nobody's.               *)
LoginLost ==
    /\ form.busy /\ lost < SessionFaults
    /\ lost' = lost + 1
    /\ account' \in {account, LoginFailures(form.body)}
    /\ form' = [form EXCEPT !.busy = FALSE, !.body.code = None]
    /\ UNCHANGED <<route, returnTo, leftAt, sessions, cookie, me, cache, pageReq,
                   seen401, card>>

(* The Back button of the code step.                                        *)
BackToPassword ==
    /\ route = "/login" /\ form.step = "totp" /\ ~form.busy
    /\ form' = [form EXCEPT !.step = "password", !.body.code = None]
    /\ UNCHANGED <<route, returnTo, leftAt, sessions, cookie, me, cache, pageReq,
                   seen401, account, card, lost>>

\* Mutant: single sign-on comes back by a navigation that keeps the cache.
OidcLogin_KeepsCache ==
    /\ route = "/login"
    /\ \E sid \in NextSid :
        /\ sessions' = [sessions EXCEPT ![sid] = "ada"]
        /\ cookie' = sid
        /\ ToTarget
        /\ me' = FetchMe(NewMe, sid)
    /\ pageReq' = Idle /\ seen401' = FALSE /\ form' = EmptyForm /\ card' = FALSE
    /\ UNCHANGED <<cache, account, lost>>

(* Single sign-on: a full-page navigation that comes back with a session,   *)
(* or with an error and without the return_to.                              *)
OidcLogin ==
    /\ route = "/login"
    /\ \E sid \in NextSid :
        /\ sessions' = [sessions EXCEPT ![sid] = "ada"]
        /\ cookie' = sid
        /\ PageLoad(sanitizeReturnTo(returnTo), sid) /\ returnTo' = "/"
    /\ UNCHANGED <<account, lost>>

OidcRefused ==
    /\ route = "/login" /\ returnTo # "/"
    /\ PageLoad("/login", cookie) /\ returnTo' = "/"
    /\ UNCHANGED <<sessions, cookie, account, lost>>

------------------------------------------------------------------------------
(* A page of the console.                                                   *)

Navigate(p) ==
    /\ Rendered /\ p \in visibleNav(me.user) \ {route}
    /\ route' = p /\ pageReq' = Idle /\ card' = FALSE
    /\ UNCHANGED <<returnTo, leftAt, sessions, cookie, me, cache, seen401, form,
                   account, lost>>

(* The queries on show: the page's, for a user who may see it, and the      *)
(* alerts badge of the shell, which polls on every page.                    *)
PageFetch ==
    /\ Rendered /\ ~pageReq.busy
    /\ pageReq' = Sent(cookie)
    /\ UNCHANGED <<route, returnTo, leftAt, sessions, cookie, me, cache, seen401,
                   form, account, card, lost>>

(* onUnauthorized: a 401 outside of me has me checked again.                *)
onUnauthorized == me' = InvalidateMe(me, cookie) /\ seen401' = TRUE

PageAnswered ==
    /\ pageReq.busy
    /\ pageReq' = Idle
    /\ IF Unauthorized(pageReq.sid)
       THEN onUnauthorized /\ UNCHANGED cache
       ELSE /\ cache' = IF /\ hasPermission(me.user, route)
                           /\ hasPermission(sessionUser(pageReq.sid), route)
                        THEN [cache EXCEPT ![route] = sessionUser(pageReq.sid)]
                        ELSE cache
            /\ UNCHANGED <<me, seen401>>
    /\ UNCHANGED <<route, returnTo, leftAt, sessions, cookie, form, account,
                   card, lost>>

(* Sign out: a full page load of the login page, whatever the outcome.      *)
Logout ==
    /\ Rendered
    /\ \/ /\ sessions' = IF cookie = 0 THEN sessions
                         ELSE [sessions EXCEPT ![cookie] = None]
          /\ cookie' = 0 /\ UNCHANGED lost
       \/ /\ lost < SessionFaults /\ lost' = lost + 1
          /\ UNCHANGED <<sessions, cookie>>
    /\ PageLoad("/login", cookie') /\ returnTo' = "/"
    /\ UNCHANGED account

(* The security cards of the master admin: a mutation and its answer.       *)
CardMutation(change, enrollment, refresh) ==
    /\ Rendered /\ me.user = "admin"
    /\ IF Unauthorized(cookie)
       THEN onUnauthorized /\ UNCHANGED <<account, card>>
       ELSE /\ account' = change /\ card' = enrollment
            /\ me' = IF refresh THEN InvalidateMe(me, cookie) ELSE me
            /\ UNCHANGED seen401
    /\ UNCHANGED <<route, returnTo, leftAt, sessions, cookie, cache, pageReq,
                   form, lost>>

EnrollTotp ==
    /\ ~me.totp /\ ~card
    /\ IF account.totp THEN CardMutation(account, FALSE, FALSE)
       ELSE CardMutation([account EXCEPT !.enrolling = TRUE], TRUE, FALSE)

(* The Cancel button: the server keeps its pending secret.                  *)
CancelEnroll ==
    /\ Rendered /\ ~me.totp /\ card
    /\ card' = FALSE
    /\ UNCHANGED <<route, returnTo, leftAt, sessions, cookie, me, cache, pageReq,
                   seen401, form, account, lost>>

ConfirmTotp(code) ==
    /\ ~me.totp /\ card
    /\ IF account.enrolling /\ code = "right"
       THEN CardMutation([account EXCEPT !.enrolling = FALSE, !.totp = TRUE],
                         FALSE, TRUE)
       ELSE CardMutation(account, TRUE, FALSE)

DisableTotp(code) ==
    /\ me.totp
    /\ IF code = "right"
       THEN CardMutation([account EXCEPT !.totp = FALSE], card, TRUE)
       ELSE CardMutation(account, card, FALSE)

ChangePassword(current, next) ==
    /\ next # current
    /\ CardMutation(IF current = account.password
                    THEN [account EXCEPT !.password = next] ELSE account,
                    card, FALSE)

------------------------------------------------------------------------------
SessInit ==
    /\ route \in Pages /\ returnTo = "/" /\ leftAt = None
    /\ sessions = [s \in Sids |-> "unused"] /\ cookie = 0
    /\ me = FetchMe(NewMe, 0)
    /\ cache = [p \in Pages |-> None] /\ pageReq = Idle /\ seen401 = FALSE
    /\ form = EmptyForm
    /\ account = [password |-> 0, totp |-> FALSE, enrolling |-> FALSE,
                  failures |-> 0, locked |-> FALSE]
    /\ card = FALSE /\ lost = 0

SessNext ==
    \/ SessionEnds \/ LockEnds
    \/ MeAnswered \/ MeFails \/ RecheckMe \/ GuardRedirects \/ LoginViewRedirects
    \/ \E pw \in {0, 1}, code \in {None, "right", "wrong"} : SubmitLogin(pw, code)
    \/ LoginSucceeds \/ LoginFails \/ LoginLost \/ BackToPassword
    \/ OidcLogin \/ OidcRefused
    \/ \E p \in Pages : Navigate(p)
    \/ PageFetch \/ PageAnswered \/ Logout
    \/ EnrollTotp \/ CancelEnroll
    \/ \E code \in {"right", "wrong"} : ConfirmTotp(code) \/ DisableTotp(code)
    \/ \E a, b \in {0, 1} : ChangePassword(a, b)

(***************************************************************************)
(* Requests are answered, effects run and a page polls; an operator does   *)
(* not leave every page before its request is answered.                    *)
(***************************************************************************)
SessFairness ==
    /\ WF_sessVars(MeAnswered) /\ WF_sessVars(GuardRedirects)
    /\ WF_sessVars(LoginViewRedirects) /\ WF_sessVars(PageFetch)
    /\ SF_sessVars(PageAnswered)

SessSpec == SessInit /\ [][SessNext]_sessVars /\ SessFairness

------------------------------------------------------------------------------
(* Every variable has its type.                                             *)
SessTypeOK ==
    /\ route \in Pages \cup {"/login"} /\ returnTo \in Pages
    /\ leftAt \in Pages \cup {None}
    /\ sessions \in [Sids -> Users \cup {"unused", None}] /\ cookie \in 0..MaxLogins
    /\ me \in [user : Users \cup {None}, totp : BOOLEAN, inval : BOOLEAN,
               status : {"pending", "success", "unauth", "error"},
               req : [busy : BOOLEAN, sid : 0..MaxLogins]]
    /\ cache \in [Pages -> Users \cup {None}]
    /\ pageReq \in [busy : BOOLEAN, sid : 0..MaxLogins]
    /\ form.step \in {"password", "totp"}
    /\ account \in [password : {0, 1}, totp : BOOLEAN, enrolling : BOOLEAN,
                    failures : 0..(LockAfter - 1), locked : BOOLEAN]
    /\ card \in BOOLEAN /\ seen401 \in BOOLEAN /\ lost \in 0..SessionFaults

(***************************************************************************)
(* The data a page shows was read with a session of the user it is shown   *)
(* to, or that user is the master admin.  Only the password form signs in  *)
(* without a page load, so what an expired session left in the cache can   *)
(* only meet the master admin, who may read everything.                    *)
(***************************************************************************)
NoForeignCache ==
    Rendered /\ cache[route] # None /\ cookie # 0 /\ sessionUser(cookie) = me.user
        => cache[route] = me.user \/ me.user = "admin"

(***************************************************************************)
(* A 401 of any request is followed up: the console is not shown to a user *)
(* whose session was refused unless me is being checked again.             *)
(***************************************************************************)
Seen401IsFollowed == Rendered /\ seen401 => me.req.busy

(***************************************************************************)
(* A user whom the guard sent to the login page comes back to the page     *)
(* they were on, whichever way they sign in.                               *)
(***************************************************************************)
ReturnsToTheirPage ==
    [][route = "/login" /\ route' \in Pages /\ leftAt # None => route' = leftAt]_sessVars

(***************************************************************************)
(* A page whose session has ended does not stay: its polling finds out, me *)
(* is checked and the guard leads to the login page, unless me could not   *)
(* be read at all.                                                         *)
(***************************************************************************)
ExpiredLeadsToLogin == []<>(route = "/login" \/ ~Unauthorized(cookie) \/ me.status = "error")

(***************************************************************************)
(* A user with a session comes to see a page and does not stay on the      *)
(* login page, even when an answer to an older request of me arrives after *)
(* they signed in (useMe; the guards of the routes).                       *)
(***************************************************************************)
SignedInArrives == []<>(Rendered \/ Unauthorized(cookie) \/ me.status = "error")
=============================================================================
