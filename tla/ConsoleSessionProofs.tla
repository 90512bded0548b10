------------------------ MODULE ConsoleSessionProofs ------------------------
(***************************************************************************)
(* Signing in to the console, for any number of sessions, any limit of     *)
(* wrong passwords and any number of lost requests: no data of another     *)
(* user's session is shown, a refused session is followed up, and a user   *)
(* who signs in again comes back to their page.                            *)
(***************************************************************************)
EXTENDS ConsoleSession, TLAPS

\* The types of the records, by name: the proofs cite them closed.
Forms == [step : {"password", "totp"}, busy : BOOLEAN,
          body : [password : {0, 1}, code : {None, "right", "wrong"}]]
Counts == 0..(LockAfter - 1)
Accounts == [password : {0, 1}, totp : BOOLEAN, enrolling : BOOLEAN,
             failures : Counts, locked : BOOLEAN]
Requests == [busy : BOOLEAN, sid : 0..MaxLogins]
MeQueries == [user : Users \cup {None}, totp : BOOLEAN, inval : BOOLEAN,
              status : {"pending", "success", "unauth", "error"},
              req : Requests]

\* Each change a handler makes to the account leaves an account.
LEMMA AccountChanges ==
    ASSUME NEW a \in Accounts
    PROVE  /\ [a EXCEPT !.failures = 0] \in Accounts
           /\ [a EXCEPT !.failures = 0, !.locked = TRUE] \in Accounts
           /\ [a EXCEPT !.locked = FALSE] \in Accounts
           /\ a.failures + 1 \in Counts => [a EXCEPT !.failures = @ + 1] \in Accounts
           /\ [a EXCEPT !.enrolling = TRUE] \in Accounts
           /\ [a EXCEPT !.enrolling = FALSE, !.totp = TRUE] \in Accounts
           /\ [a EXCEPT !.totp = FALSE] \in Accounts
           /\ \A p \in {0, 1} : [a EXCEPT !.password = p] \in Accounts
<1>1. 0 \in Counts
    BY SessionAssumption DEF Counts
<1> QED
    BY <1>1 DEF Accounts

\* A login attempt never counts past the lock (the failures of mock-api.mjs).
LEMMA LoginLeavesAccount ==
    ASSUME account \in Accounts, NEW body PROVE LoginFailures(body) \in Accounts
<1>1. account.failures + 1 >= LockAfter \/ account.failures + 1 \in Counts
    BY SessionAssumption DEF Accounts, Counts
<1>2. CASE account.locked
    BY <1>2 DEF LoginFailures
<1>3. CASE ~account.locked /\ body.password # account.password
    BY <1>1, <1>3, AccountChanges DEF LoginFailures
<1>4. CASE ~account.locked /\ body.password = account.password
    BY <1>4, AccountChanges DEF LoginFailures
<1> QED
    BY <1>2, <1>3, <1>4

\* Requests, idle and sent.
LEMMA RequestsAre == Idle \in Requests /\ \A sid \in 0..MaxLogins : Sent(sid) \in Requests
BY SessionAssumption DEF Idle, Sent, Requests

\* Each change to the me query leaves one.
LEMMA MeChanges ==
    ASSUME NEW m \in MeQueries, NEW r \in Requests
    PROVE  /\ [m EXCEPT !.req = r] \in MeQueries
           /\ [m EXCEPT !.inval = TRUE] \in MeQueries
           /\ [m EXCEPT !.inval = TRUE, !.req = r] \in MeQueries
           /\ [m EXCEPT !.status = "unauth", !.inval = TRUE, !.req = r] \in MeQueries
           /\ [m EXCEPT !.status = "error", !.inval = TRUE, !.req = r] \in MeQueries
           /\ \A u \in Users, t \in BOOLEAN : [m EXCEPT !.user = u, !.totp = t,
                                  !.status = "success", !.inval = FALSE] \in MeQueries
BY DEF MeQueries

\* The query after a page load.
LEMMA NewMeIs == NewMe \in MeQueries
BY RequestsAre DEF NewMe, MeQueries

\* The operations of the query client on me.
LEMMA MeStays ==
    ASSUME NEW m \in MeQueries, NEW sid \in 0..MaxLogins
    PROVE  /\ FetchMe(m, sid) \in MeQueries /\ InvalidateMe(m, sid) \in MeQueries
           /\ \A old \in BOOLEAN : MountMe(m, sid, old) \in MeQueries
           /\ \A user \in Users, totp \in BOOLEAN : SetMe(m, user, totp) \in MeQueries
<1>1. Sent(sid) \in Requests
    BY RequestsAre
<1>2. FetchMe(m, sid) \in MeQueries
    BY <1>1, MeChanges DEF FetchMe
<1>3. [FetchMe(m, sid) EXCEPT !.inval = TRUE] \in MeQueries
    BY <1>1, <1>2, MeChanges
<1>4. InvalidateMe(m, sid) \in MeQueries
    BY <1>1, <1>3, MeChanges DEF InvalidateMe
<1>5. \A old \in BOOLEAN : MountMe(m, sid, old) \in MeQueries
    BY <1>2 DEF MountMe
<1>6. \A user \in Users, totp \in BOOLEAN : SetMe(m, user, totp) \in MeQueries
    BY <1>1, MeChanges DEF SetMe
<1> QED
    BY <1>2, <1>4, <1>5, <1>6

\* The types of the other variables.
Basics ==
    /\ route \in Pages \cup {"/login"} /\ returnTo \in Pages /\ leftAt \in Pages \cup {None}
    /\ sessions \in [Sids -> Users \cup {"unused", None}] /\ cookie \in 0..MaxLogins
    /\ cache \in [Pages -> Users \cup {None}] /\ pageReq \in Requests
    /\ card \in BOOLEAN /\ seen401 \in BOOLEAN /\ lost \in 0..SessionFaults
SessTypes == Basics /\ me \in MeQueries /\ form \in Forms /\ account \in Accounts

\* A card of the master admin changes the account in one of these ways.
CardStep ==
    \E change \in Accounts, enrollment, refresh \in BOOLEAN : CardMutation(change, enrollment, refresh)

\* A page load, of a page of the console or of the login page.
LoadStep ==
    \E path \in Pages \cup {"/login"}, sid \in 0..MaxLogins : PageLoad(path, sid) /\ cookie' = sid

\* A step of the security cards is a CardStep.
LEMMA CardSteps ==
    ASSUME SessTypes,
           EnrollTotp \/ (\E code \in {"right", "wrong"} : ConfirmTotp(code) \/ DisableTotp(code))
           \/ (\E a, b \in {0, 1} : ChangePassword(a, b))
    PROVE  CardStep
<1> USE AccountChanges DEF SessTypes, Basics
<1>1. CASE EnrollTotp
    BY <1>1 DEF EnrollTotp, CardStep
<1>2. ASSUME NEW code, ConfirmTotp(code) PROVE CardStep
    BY <1>2 DEF ConfirmTotp, CardStep
<1>3. ASSUME NEW code, DisableTotp(code) PROVE CardStep
    BY <1>3 DEF DisableTotp, CardStep
<1>4. ASSUME NEW a \in {0, 1}, NEW b \in {0, 1}, ChangePassword(a, b) PROVE CardStep
    BY <1>4 DEF ChangePassword, CardStep
<1> QED
    BY <1>1, <1>2, <1>3, <1>4

\* Single sign-on and sign-out load the page anew.
LEMMA LoadSteps ==
    ASSUME SessTypes, OidcLogin \/ OidcRefused \/ Logout
    PROVE  LoadStep /\ returnTo' = "/"
<1> USE SessionAssumption DEF SessTypes, Basics, LoadStep
<1>1. CASE OidcLogin
    BY <1>1 DEF OidcLogin, NextSid, Sids, sanitizeReturnTo
<1>2. CASE OidcRefused
    BY <1>2 DEF OidcRefused
<1>3. CASE Logout
    BY <1>3 DEF Logout
<1> QED
    BY <1>1, <1>2, <1>3

\* Every step is one of these.
LEMMA StepCases ==
    ASSUME SessTypes, [SessNext]_sessVars
    PROVE  \/ SessionEnds \/ LockEnds \/ MeAnswered \/ MeFails \/ RecheckMe \/ GuardRedirects
           \/ LoginViewRedirects \/ LoginSucceeds \/ LoginFails \/ LoginLost \/ BackToPassword
           \/ (\E pw \in {0, 1}, code \in {None, "right", "wrong"} : SubmitLogin(pw, code))
           \/ OidcLogin \/ OidcRefused \/ Logout
           \/ (\E p \in Pages : Navigate(p)) \/ PageFetch \/ PageAnswered
           \/ CardStep \/ CancelEnroll \/ UNCHANGED sessVars
BY CardSteps DEF SessNext

\* The me query keeps its type.
LEMMA MeStep == SessTypes /\ [SessNext]_sessVars => me' \in MeQueries
<1> SUFFICES ASSUME SessTypes, [SessNext]_sessVars PROVE me' \in MeQueries
    OBVIOUS
<1>0. cookie \in 0..MaxLogins /\ me \in MeQueries /\ account \in Accounts
    BY DEF SessTypes, Basics
<1>1. CASE MeAnswered
  <2> DEFINE user == sessionUser(me.req.sid)
             totp == account.totp /\ user = "admin"
  <2>1. CASE Unauthorized(me.req.sid)
    BY <1>0, <1>1, <2>1, MeChanges, RequestsAre DEF MeAnswered
  <2>2. CASE ~Unauthorized(me.req.sid)
    <3>1. user \in Users /\ totp \in BOOLEAN
      BY <1>0, <2>2 DEF Unauthorized, Accounts
    <3>2. SetMe(me, user, totp) \in MeQueries
      BY <1>0, <3>1, MeStays
    <3>3. me' = [SetMe(me, user, totp) EXCEPT !.req = Idle]
      BY <1>1, <2>2 DEF MeAnswered
    <3> QED
      BY <3>2, <3>3, MeChanges, RequestsAre
  <2> QED
    BY <2>1, <2>2
<1>2. CASE MeFails
    BY <1>0, <1>2, MeChanges, RequestsAre DEF MeFails
<1>3. CASE RecheckMe
    BY <1>0, <1>3, MeStays DEF RecheckMe
<1>4. CASE GuardRedirects \/ LoginViewRedirects
    BY <1>0, <1>4, MeStays DEF GuardRedirects, LoginViewRedirects
<1>5. CASE LoginSucceeds
    BY <1>0, <1>5, MeStays DEF LoginSucceeds, Accounts, Users
<1>6. CASE OidcLogin \/ OidcRefused \/ Logout
  <2>1. PICK path \in Pages \cup {"/login"}, sid \in 0..MaxLogins : PageLoad(path, sid)
    BY <1>6, LoadSteps DEF LoadStep
  <2> QED
    BY <2>1, NewMeIs, MeStays DEF PageLoad
<1>7. CASE PageAnswered
    BY <1>0, <1>7, MeStays DEF PageAnswered, onUnauthorized
<1>8. CASE CardStep
    BY <1>0, <1>8, MeStays DEF CardStep, CardMutation, onUnauthorized
<1>9. CASE UNCHANGED me
    BY <1>0, <1>9
<1> QED
    BY <1>1, <1>2, <1>3, <1>4, <1>5, <1>6, <1>7, <1>8, <1>9, StepCases
       DEF SessionEnds, LockEnds, SubmitLogin, LoginFails, LoginLost, BackToPassword, Navigate,
           PageFetch, CancelEnroll, sessVars

\* The account keeps its type.
LEMMA AccountStep == SessTypes /\ [SessNext]_sessVars => account' \in Accounts
<1> SUFFICES ASSUME SessTypes, [SessNext]_sessVars PROVE account' \in Accounts
    OBVIOUS
<1>0. account \in Accounts
    BY DEF SessTypes
<1>1. CASE LockEnds
    BY <1>0, <1>1, AccountChanges DEF LockEnds
<1>2. CASE LoginSucceeds \/ LoginFails \/ LoginLost
    BY <1>0, <1>2, LoginLeavesAccount DEF LoginSucceeds, LoginFails, LoginLost
<1>3. CASE CardStep
    BY <1>0, <1>3 DEF CardStep, CardMutation
<1>4. CASE UNCHANGED account
    BY <1>0, <1>4
<1> QED
    BY <1>1, <1>2, <1>3, <1>4, StepCases
       DEF SessionEnds, MeAnswered, MeFails, RecheckMe, GuardRedirects, LoginViewRedirects,
           SubmitLogin, BackToPassword, OidcLogin, OidcRefused, Logout, Navigate, PageFetch,
           PageAnswered, CancelEnroll, sessVars

\* Each change to the login form leaves one.
LEMMA FormChanges ==
    ASSUME NEW f \in Forms
    PROVE  /\ EmptyForm \in Forms
           /\ [f EXCEPT !.busy = FALSE, !.step = "totp"] \in Forms
           /\ [f EXCEPT !.busy = FALSE, !.body.code = None] \in Forms
           /\ [f EXCEPT !.step = "password", !.body.code = None] \in Forms
           /\ \A pw \in {0, 1}, code \in {None, "right", "wrong"} :
                 [f EXCEPT !.busy = TRUE,
                    !.body = [password |-> IF f.step = "totp" THEN @.password ELSE pw,
                              code |-> code]] \in Forms
BY DEF Forms, EmptyForm

\* The login form keeps its type.
LEMMA FormStep == SessTypes /\ [SessNext]_sessVars => form' \in Forms
<1> SUFFICES ASSUME SessTypes, [SessNext]_sessVars PROVE form' \in Forms
    OBVIOUS
<1>0. form \in Forms
    BY DEF SessTypes
<1>1. ASSUME NEW pw \in {0, 1}, NEW code \in {None, "right", "wrong"}, SubmitLogin(pw, code)
      PROVE  form' \in Forms
    BY <1>0, <1>1, FormChanges DEF SubmitLogin
<1>2. CASE LoginFails
    BY <1>0, <1>2, FormChanges DEF LoginFails
<1>3. CASE LoginLost \/ BackToPassword
    BY <1>0, <1>3, FormChanges DEF LoginLost, BackToPassword
<1>4. CASE form' = EmptyForm \/ UNCHANGED form
    BY <1>0, <1>4, FormChanges
<1> QED
    BY <1>1, <1>2, <1>3, <1>4, StepCases
       DEF SessionEnds, LockEnds, MeAnswered, MeFails, RecheckMe, GuardRedirects,
           LoginViewRedirects, LoginSucceeds, OidcLogin, OidcRefused, Logout, PageLoad, Navigate,
           PageFetch, PageAnswered, CardStep, CardMutation, CancelEnroll, sessVars

\* What becomes of the table of sessions.
LEMMA SessionChanges ==
    ASSUME SessTypes, NEW sid \in Sids, NEW user \in Users \cup {None}
    PROVE  [sessions EXCEPT ![sid] = user] \in [Sids -> Users \cup {"unused", None}]
BY DEF SessTypes, Basics

\* The variables that are not records keep their types.
LEMMA BasicsStep == SessTypes /\ [SessNext]_sessVars => Basics'
<1> SUFFICES ASSUME SessTypes, [SessNext]_sessVars PROVE Basics'
    OBVIOUS
<1> USE SessionAssumption, RequestsAre DEF SessTypes, Basics, Pages, Users, Sids
<1>1. CASE SessionEnds \/ LockEnds
    BY <1>1 DEF SessionEnds, LockEnds, Unauthorized, sessionUser
<1>2. CASE MeAnswered \/ RecheckMe
    BY <1>2 DEF MeAnswered, RecheckMe
<1>17. CASE MeFails
  <2>1. lost' \in 0..SessionFaults
    BY <1>17 DEF MeFails
  <2> QED
    BY <1>17, <2>1 DEF MeFails
<1>3. CASE GuardRedirects
    BY <1>3 DEF GuardRedirects, loginPathFor, sanitizeReturnTo
<1>4. CASE LoginViewRedirects
    BY <1>4 DEF LoginViewRedirects, ToTarget, sanitizeReturnTo
<1>5. CASE LoginSucceeds
  <2>1. PICK sid \in Sids : sessions' = [sessions EXCEPT ![sid] = "admin"] /\ cookie' = sid
    BY <1>5 DEF LoginSucceeds, NextSid
  <2>2. sessions' \in [Sids -> Users \cup {"unused", None}] /\ cookie' \in 0..MaxLogins
    BY <2>1, SessionChanges
  <2> QED
    BY <1>5, <2>2 DEF LoginSucceeds, ToTarget, sanitizeReturnTo
<1>6. CASE LoginFails \/ LoginLost \/ BackToPassword
    BY <1>6 DEF LoginFails, LoginLost, BackToPassword
<1>7. CASE \E pw \in {0, 1}, code \in {None, "right", "wrong"} : SubmitLogin(pw, code)
    BY <1>7 DEF SubmitLogin
<1>8. CASE OidcLogin
  <2>1. PICK sid \in Sids : /\ sessions' = [sessions EXCEPT ![sid] = "ada"] /\ cookie' = sid
                           /\ PageLoad(sanitizeReturnTo(returnTo), sid) /\ returnTo' = "/"
    BY <1>8 DEF OidcLogin, NextSid
  <2>2. sessions' \in [Sids -> Users \cup {"unused", None}] /\ cookie' \in 0..MaxLogins
    BY <2>1, SessionChanges
  <2>3. cache' \in [Pages -> Users \cup {None}]
    BY <2>1 DEF PageLoad
  <2> QED
    BY <1>8, <2>1, <2>2, <2>3 DEF OidcLogin, PageLoad, sanitizeReturnTo
<1>9. CASE OidcRefused
    BY <1>9 DEF OidcRefused, PageLoad
<1>10. CASE Logout
  <2>1. sessions' \in [Sids -> Users \cup {"unused", None}] /\ cookie' \in 0..MaxLogins
    BY <1>10, SessionChanges DEF Logout
  <2>2. lost' \in 0..SessionFaults
    BY <1>10 DEF Logout
  <2>3. cache' \in [Pages -> Users \cup {None}]
    BY <1>10 DEF Logout, PageLoad
  <2> QED
    BY <1>10, <2>1, <2>2, <2>3 DEF Logout, PageLoad
<1>11. CASE \E p \in Pages : Navigate(p)
    BY <1>11 DEF Navigate
<1>12. CASE PageFetch
    BY <1>12 DEF PageFetch
<1>13. CASE PageAnswered
    BY <1>13 DEF PageAnswered, onUnauthorized, Unauthorized, sessionUser
<1>14. CASE CardStep
    BY <1>14 DEF CardStep, CardMutation, onUnauthorized
<1>15. CASE CancelEnroll
    BY <1>15 DEF CancelEnroll
<1>16. CASE UNCHANGED sessVars
    BY <1>16 DEF sessVars
<1> QED
    BY <1>1, <1>2, <1>3, <1>4, <1>5, <1>6, <1>7, <1>8, <1>9, <1>10, <1>11, <1>12, <1>13,
       <1>14, <1>15, <1>16, <1>17, StepCases

\* Every variable keeps its type.
LEMMA TypesStep == SessTypes /\ [SessNext]_sessVars => SessTypes'
BY BasicsStep, MeStep, FormStep, AccountStep DEF SessTypes

\* The types hold at the start.
LEMMA TypesInit == SessInit => SessTypes
<1> SUFFICES ASSUME SessInit PROVE SessTypes
    OBVIOUS
<1>1. me \in MeQueries
    BY NewMeIs, MeStays, SessionAssumption DEF SessInit
<1>2. account \in Accounts
  <2>1. 0 \in Counts
    BY SessionAssumption DEF Counts
  <2> QED
    BY <2>1 DEF SessInit, Accounts
<1>3. form \in Forms
    BY DEF SessInit, Forms, EmptyForm
<1>4. Basics
  <2>1. cache \in [Pages -> Users \cup {None}]
    BY DEF SessInit
  <2>2. sessions \in [Sids -> Users \cup {"unused", None}]
    BY DEF SessInit
  <2>3. route \in Pages /\ returnTo \in Pages
    BY DEF SessInit, Pages
  <2>4. cookie \in 0..MaxLogins /\ lost \in 0..SessionFaults
    BY SessionAssumption DEF SessInit
  <2>5. pageReq \in Requests
    BY RequestsAre DEF SessInit
  <2> QED
    BY <2>1, <2>2, <2>3, <2>4, <2>5 DEF SessInit, Basics
<1> QED
    BY <1>1, <1>2, <1>3, <1>4 DEF SessTypes

\* They are the types the runs check.
LEMMA TypesOK == SessTypes => SessTypeOK
BY DEF SessTypes, Basics, SessTypeOK, MeQueries, Requests, Forms, Accounts, Counts

\* While the browser's session is ada's, every page holds ada's data or none,
\* and the request on its way was sent with that session: it began with a page load.
OwnCache ==
    cookie # 0 /\ sessions[cookie] = "ada"
        => /\ \A p \in Pages : cache[p] \in {None, "ada"}
           /\ pageReq.busy => pageReq.sid = cookie

\* A 401 nobody has answered for is followed by a check, on whatever page.
Followed == seen401 /\ me.status = "success" => me.req.busy

\* A check that succeeded has read a user.
Known == me.status = "success" => me.user \in Users

\* The login page keeps the page its user was sent from.
Remembered == route = "/login" /\ leftAt # None => returnTo = leftAt

\* Every step keeps OwnCache: only a page load gives the browser a session of ada.
LEMMA OwnCacheStep == SessTypes /\ OwnCache /\ [SessNext]_sessVars => OwnCache'
<1> SUFFICES ASSUME SessTypes, OwnCache, [SessNext]_sessVars PROVE OwnCache'
    OBVIOUS
<1> USE SessionAssumption DEF SessTypes, Basics, OwnCache, Users, Sids, Requests, Idle, Sent, None
<1>1. CASE SessionEnds \/ LockEnds
    BY <1>1 DEF SessionEnds, LockEnds, Unauthorized, sessionUser
<1>2. CASE MeAnswered \/ MeFails \/ RecheckMe
    BY <1>2 DEF MeAnswered, MeFails, RecheckMe
<1>3. CASE GuardRedirects
    BY <1>3 DEF GuardRedirects, loginPathFor, sanitizeReturnTo
<1>4. CASE LoginViewRedirects
    BY <1>4 DEF LoginViewRedirects, ToTarget, sanitizeReturnTo
<1>5. CASE LoginSucceeds
    BY <1>5 DEF LoginSucceeds, ToTarget, sanitizeReturnTo, NextSid
<1>6. CASE LoginFails \/ LoginLost \/ BackToPassword
    BY <1>6 DEF LoginFails, LoginLost, BackToPassword
<1>7. CASE \E pw \in {0, 1}, code \in {None, "right", "wrong"} : SubmitLogin(pw, code)
    BY <1>7 DEF SubmitLogin
<1>8. CASE OidcLogin
    BY <1>8 DEF OidcLogin, PageLoad, sanitizeReturnTo, NextSid
<1>9. CASE OidcRefused
    BY <1>9 DEF OidcRefused, PageLoad
<1>10. CASE Logout
    BY <1>10 DEF Logout, PageLoad
<1>11. CASE \E p \in Pages : Navigate(p)
    BY <1>11 DEF Navigate
<1>12. CASE PageFetch
    BY <1>12 DEF PageFetch
<1>13. CASE PageAnswered
    BY <1>13 DEF PageAnswered, onUnauthorized, Unauthorized, sessionUser
<1>14. CASE CardStep
    BY <1>14 DEF CardStep, CardMutation, onUnauthorized
<1>15. CASE CancelEnroll
    BY <1>15 DEF CancelEnroll
<1>16. CASE UNCHANGED sessVars
    BY <1>16 DEF sessVars
<1> QED
    BY <1>1, <1>2, <1>3, <1>4, <1>5, <1>6, <1>7, <1>8, <1>9, <1>10, <1>11, <1>12, <1>13,
       <1>14, <1>15, <1>16, StepCases

\* A check that follows an invalidation is on its way.
LEMMA CheckIsSent ==
    ASSUME SessTypes
    PROVE  InvalidateMe(me, cookie).req.busy
BY DEF SessTypes, MeQueries, Requests, InvalidateMe, FetchMe, Sent

\* Every step keeps Followed.
LEMMA FollowedStep == SessTypes /\ Followed /\ [SessNext]_sessVars => Followed'
<1> SUFFICES ASSUME SessTypes, Followed, [SessNext]_sessVars PROVE Followed'
    OBVIOUS
<1> USE DEF SessTypes, MeQueries, Followed, FetchMe, MountMe, SetMe, Sent, Idle
<1>1. CASE SessionEnds \/ LockEnds
    BY <1>1 DEF SessionEnds, LockEnds, Unauthorized, sessionUser
<1>2. CASE MeAnswered \/ MeFails \/ RecheckMe
    BY <1>2 DEF MeAnswered, MeFails, RecheckMe
<1>3. CASE GuardRedirects
    BY <1>3 DEF GuardRedirects, loginPathFor, sanitizeReturnTo
<1>4. CASE LoginViewRedirects
    BY <1>4 DEF LoginViewRedirects, ToTarget, sanitizeReturnTo
<1>5. CASE LoginSucceeds
    BY <1>5 DEF LoginSucceeds, ToTarget, sanitizeReturnTo, NextSid
<1>6. CASE LoginFails \/ LoginLost \/ BackToPassword
    BY <1>6 DEF LoginFails, LoginLost, BackToPassword
<1>7. CASE \E pw \in {0, 1}, code \in {None, "right", "wrong"} : SubmitLogin(pw, code)
    BY <1>7 DEF SubmitLogin
<1>8. CASE OidcLogin
    BY <1>8 DEF OidcLogin, PageLoad, sanitizeReturnTo, NextSid
<1>9. CASE OidcRefused
    BY <1>9 DEF OidcRefused, PageLoad
<1>10. CASE Logout
    BY <1>10 DEF Logout, PageLoad
<1>11. CASE \E p \in Pages : Navigate(p)
    BY <1>11 DEF Navigate
<1>12. CASE PageFetch
    BY <1>12 DEF PageFetch
<1>13. CASE PageAnswered
    BY <1>13, CheckIsSent DEF PageAnswered, onUnauthorized, Unauthorized, sessionUser
<1>14. CASE CardStep
    BY <1>14, CheckIsSent DEF CardStep, CardMutation, onUnauthorized
<1>15. CASE CancelEnroll
    BY <1>15 DEF CancelEnroll
<1>16. CASE UNCHANGED sessVars
    BY <1>16 DEF sessVars
<1> QED
    BY <1>1, <1>2, <1>3, <1>4, <1>5, <1>6, <1>7, <1>8, <1>9, <1>10, <1>11, <1>12, <1>13,
       <1>14, <1>15, <1>16, StepCases

\* A check leaves what is known until it is answered.
LEMMA CheckKeepsUser ==
    ASSUME SessTypes
    PROVE  InvalidateMe(me, cookie).user = me.user /\ InvalidateMe(me, cookie).status = me.status
BY DEF SessTypes, MeQueries, InvalidateMe, FetchMe

\* Every step keeps Known.
LEMMA KnownStep == SessTypes /\ Known /\ [SessNext]_sessVars => Known'
<1> SUFFICES ASSUME SessTypes, Known, [SessNext]_sessVars PROVE Known'
    OBVIOUS
<1> USE DEF SessTypes, Basics, MeQueries, Known, FetchMe, MountMe, SetMe, NewMe, Sent, Idle
<1>1. CASE SessionEnds \/ LockEnds
    BY <1>1 DEF SessionEnds, LockEnds, Unauthorized, sessionUser
<1>2. CASE MeAnswered \/ MeFails \/ RecheckMe
    BY <1>2 DEF Unauthorized, MeAnswered, MeFails, RecheckMe
<1>3. CASE GuardRedirects
    BY <1>3 DEF GuardRedirects, loginPathFor, sanitizeReturnTo
<1>4. CASE LoginViewRedirects
    BY <1>4 DEF LoginViewRedirects, ToTarget, sanitizeReturnTo
<1>5. CASE LoginSucceeds
    BY <1>5 DEF Users, LoginSucceeds, ToTarget, sanitizeReturnTo, NextSid
<1>6. CASE LoginFails \/ LoginLost \/ BackToPassword
    BY <1>6 DEF LoginFails, LoginLost, BackToPassword
<1>7. CASE \E pw \in {0, 1}, code \in {None, "right", "wrong"} : SubmitLogin(pw, code)
    BY <1>7 DEF SubmitLogin
<1>8. CASE OidcLogin
    BY <1>8 DEF OidcLogin, PageLoad, sanitizeReturnTo, NextSid
<1>9. CASE OidcRefused
    BY <1>9 DEF OidcRefused, PageLoad
<1>10. CASE Logout
    BY <1>10 DEF Logout, PageLoad
<1>11. CASE \E p \in Pages : Navigate(p)
    BY <1>11 DEF Navigate
<1>12. CASE PageFetch
    BY <1>12 DEF PageFetch
<1>13. CASE PageAnswered
    BY <1>13, CheckKeepsUser DEF PageAnswered, onUnauthorized, Unauthorized, sessionUser
<1>14. CASE CardStep
    BY <1>14, CheckKeepsUser DEF CardStep, CardMutation, onUnauthorized
<1>15. CASE CancelEnroll
    BY <1>15 DEF CancelEnroll
<1>16. CASE UNCHANGED sessVars
    BY <1>16 DEF sessVars
<1> QED
    BY <1>1, <1>2, <1>3, <1>4, <1>5, <1>6, <1>7, <1>8, <1>9, <1>10, <1>11, <1>12, <1>13,
       <1>14, <1>15, <1>16, StepCases

\* Every step keeps Remembered: only the guard sets leftAt, with return_to.
LEMMA RememberedStep == SessTypes /\ Remembered /\ [SessNext]_sessVars => Remembered'
<1> SUFFICES ASSUME SessTypes, Remembered, [SessNext]_sessVars PROVE Remembered'
    OBVIOUS
<1> USE DEF SessTypes, Basics, Remembered, Pages
<1>1. CASE SessionEnds \/ LockEnds
    BY <1>1 DEF SessionEnds, LockEnds, Unauthorized, sessionUser
<1>2. CASE MeAnswered \/ MeFails \/ RecheckMe
    BY <1>2 DEF MeAnswered, MeFails, RecheckMe
<1>3. CASE GuardRedirects
    BY <1>3 DEF GuardRedirects, loginPathFor, sanitizeReturnTo
<1>4. CASE LoginViewRedirects
    BY <1>4 DEF LoginViewRedirects, ToTarget, sanitizeReturnTo
<1>5. CASE LoginSucceeds
    BY <1>5 DEF LoginSucceeds, ToTarget, sanitizeReturnTo, NextSid
<1>6. CASE LoginFails \/ LoginLost \/ BackToPassword
    BY <1>6 DEF LoginFails, LoginLost, BackToPassword
<1>7. CASE \E pw \in {0, 1}, code \in {None, "right", "wrong"} : SubmitLogin(pw, code)
    BY <1>7 DEF SubmitLogin
<1>8. CASE OidcLogin
    BY <1>8 DEF OidcLogin, PageLoad, sanitizeReturnTo, NextSid
<1>9. CASE OidcRefused
    BY <1>9 DEF OidcRefused, PageLoad
<1>10. CASE Logout
    BY <1>10 DEF Logout, PageLoad
<1>11. CASE \E p \in Pages : Navigate(p)
    BY <1>11 DEF Navigate
<1>12. CASE PageFetch
    BY <1>12 DEF PageFetch
<1>13. CASE PageAnswered
    BY <1>13 DEF PageAnswered, onUnauthorized, Unauthorized, sessionUser
<1>14. CASE CardStep
    BY <1>14 DEF CardStep, CardMutation, onUnauthorized
<1>15. CASE CancelEnroll
    BY <1>15 DEF CancelEnroll
<1>16. CASE UNCHANGED sessVars
    BY <1>16 DEF sessVars
<1> QED
    BY <1>1, <1>2, <1>3, <1>4, <1>5, <1>6, <1>7, <1>8, <1>9, <1>10, <1>11, <1>12, <1>13,
       <1>14, <1>15, <1>16, StepCases

------------------------------------------------------------------------------
\* The inductive invariant.
SessInv == SessTypes /\ OwnCache /\ Followed /\ Known /\ Remembered

\* The inductive invariant holds at the start ...
LEMMA InitSessInv == SessInit => SessInv
<1> SUFFICES ASSUME SessInit PROVE SessInv
    OBVIOUS
<1>1. OwnCache /\ Followed /\ Known /\ Remembered
    BY DEF SessInit, FetchMe, NewMe, Idle, OwnCache, Followed, Known, Remembered
<1> QED
    BY <1>1, TypesInit DEF SessInv

\* ... and every step keeps it.
LEMMA SessInductive == SessInv /\ [SessNext]_sessVars => SessInv'
BY TypesStep, OwnCacheStep, FollowedStep, KnownStep, RememberedStep DEF SessInv

\* The inductive invariant holds of every execution of the sign-in.
THEOREM SessionInvariant == SessSpec => []SessInv
BY InitSessInv, SessInductive, PTL DEF SessSpec

(***************************************************************************)
(* Every variable of the sign-in keeps its type: no session beyond the     *)
(* table, no count of failures past the lock (mock-api.mjs).               *)
(***************************************************************************)
THEOREM SessionTypeCorrect == SessSpec => []SessTypeOK
<1>1. SessInv => SessTypeOK
    BY TypesOK DEF SessInv
<1> QED
    BY <1>1, SessionInvariant, PTL

(***************************************************************************)
(* No page shows the data of another user's session, except to the master  *)
(* admin (auth-guard.tsx; the page load of single sign-on and sign-out).   *)
(***************************************************************************)
THEOREM CacheNeverForeign == SessSpec => []NoForeignCache
<1>1. SessInv => NoForeignCache
  <2> SUFFICES ASSUME SessInv, route \in Pages, me.status = "success", cache[route] # None,
                      cookie # 0, sessions[cookie] = me.user, me.user # "admin"
               PROVE  cache[route] = me.user
    BY DEF NoForeignCache, Rendered, sessionUser
  <2>1. me.user = "ada"
    BY DEF SessInv, Known, Users
  <2>2. cache[route] \in Users
    BY DEF SessInv, SessTypes, Basics
  <2> QED
    BY <2>1, <2>2 DEF SessInv, OwnCache, Users
<1> QED
    BY <1>1, SessionInvariant, PTL

(***************************************************************************)
(* A 401 that any request met is followed up before the page is trusted    *)
(* again (onUnauthorized).                                                 *)
(***************************************************************************)
THEOREM RefusalsAlwaysFollowed == SessSpec => []Seen401IsFollowed
<1>1. SessInv => Seen401IsFollowed
    BY DEF SessInv, Followed, Seen401IsFollowed, Rendered
<1> QED
    BY <1>1, SessionInvariant, PTL

(***************************************************************************)
(* A user whom the guard sent to the login page comes back to the page     *)
(* they left, by password, by single sign-on, or already signed in         *)
(* (return-to.ts, login-view.tsx).                                         *)
(***************************************************************************)
THEOREM UsersComeBack == SessSpec => ReturnsToTheirPage
<1> DEFINE Back == route = "/login" /\ route' \in Pages /\ leftAt # None => route' = leftAt
<1>1. SessInv /\ [SessNext]_sessVars => [Back]_sessVars
  <2> SUFFICES ASSUME SessInv, SessNext, route = "/login", route' \in Pages, leftAt # None
               PROVE  route' = leftAt
    BY DEF Back
  <2>1. sanitizeReturnTo(returnTo) = leftAt
    BY DEF SessInv, SessTypes, Basics, Remembered, sanitizeReturnTo
  <2>2. route # route'
    BY DEF Pages
  <2>3. route \notin Pages /\ "/login" \notin Pages
    BY DEF Pages
  <2>4. LoginViewRedirects \/ LoginSucceeds \/ OidcLogin
    BY <2>2, <2>3, StepCases
       DEF SessInv, SessionEnds, LockEnds, MeAnswered, MeFails, RecheckMe, GuardRedirects,
           SubmitLogin, LoginFails, LoginLost, BackToPassword, OidcRefused, Logout, PageLoad,
           Navigate, Rendered, PageFetch, PageAnswered, CardStep, CardMutation, CancelEnroll,
           sessVars
  <2> QED
    BY <2>1, <2>4 DEF LoginViewRedirects, LoginSucceeds, ToTarget, OidcLogin, PageLoad
<1> HIDE DEF Back
<1>3. SessSpec => [][Back]_sessVars
    BY <1>1, SessionInvariant, PTL DEF SessSpec
<1> QED
    BY <1>3 DEF ReturnsToTheirPage, Back
=============================================================================
