--------------------------- MODULE MCConsoleWork ----------------------------
(***************************************************************************)
(* Instances of the parts of the console about sessions, hosts,            *)
(* applications and restores: the login, the live updates, the hosts, the  *)
(* applications and the page of one, the restore wizard and the restore    *)
(* runs.  The parts that are not on show rest in a state in which nothing  *)
(* that is fair can happen.                                                *)
(***************************************************************************)
EXTENDS Scene, ConsoleSession, LiveEvents, AgentsConsole, AppsConsole, AppPage, RestoreWizard,
        RestoreRuns

\* A host that has not enrolled, or one in each other status.
MCFirstHosts == [Hosts -> {"absent", "pending", "active", "suspended"}]

C(name, kind, result, path) ==
    [name |-> name, kind |-> kind, status |-> result, path |-> path]

\* A bind mount below the project directory, the project files, a database, and
\* components that cannot be selected.
MCManifest ==
    << C("bind:uploads", "bind_mount", "succeeded", <<<<"srv">>, <<"shop">>, <<"uploads">>>>),
       C("config", "config", "succeeded", <<>>),
       C("db", "database", "succeeded", <<>>),
       C("volume:data", "volume", "succeeded", <<>>),
       C("volume:old", "volume", "failed", <<>>),
       C("fsmeta:uploads", "fsmeta", "succeeded", <<>>),
       C("image:web", "image", "succeeded", <<>>) >>
MCWorkingDir == <<<<"srv">>, <<"shop">>>>

-----------------------------------------------------------------------------
\* Nobody is signed in.
SessRests ==
    /\ route = "/login" /\ returnTo = "/" /\ leftAt = None
    /\ sessions = [s \in Sids |-> "unused"] /\ cookie = 0
    /\ me = [NewMe EXCEPT !.status = "unauth"]
    /\ cache = [p \in Pages |-> None] /\ pageReq = Idle /\ seen401 = FALSE
    /\ form = EmptyForm
    /\ account = [password |-> 0, totp |-> FALSE, enrolling |-> FALSE,
                  failures |-> 0, locked |-> FALSE]
    /\ card = FALSE /\ lost = 0

\* A hidden tab without a stream.
LiveRests ==
    /\ key = "jobs" /\ query = NewQuery
    /\ bus = <<>> /\ conn = "none" /\ status = "paused"
    /\ retryTimer = FALSE /\ hiddenTimer = FALSE /\ visible = FALSE
    /\ pending = {} /\ job = [id |-> 0, running |-> FALSE]
    /\ progress = NoProgress /\ missed = {} /\ changes = 0 /\ faults = 0

AgentsRest == AgentsInit /\ asrv.status = [h \in Hosts |-> "absent"]

WizardRests ==
    /\ WizardInit /\ "restore.production" \in perms
    /\ wizardWorld = [env |-> "production", running |-> TRUE, dr |-> "active", rp |-> "committed"]

\* The page of a restore that has ended.
RunsRest ==
    /\ runs = <<Seeded("dr", "succeeded", Nil, "ok")>>
    /\ mayExecute = TRUE /\ runView = "detail" /\ shownRun = 1
    /\ data = [i \in {1} |-> Snapshot(runs[1])] /\ dataReq = FALSE
    /\ cancelDialog = "closed" /\ cancelling = NoCancel /\ lostCancels = 0

WorkScenes == {"session", "live", "agents", "apps", "app", "wizard", "runs"}
workVars == <<sessVars, liveVars, agentsVars, appsVars, appPageVars, wizardVars, runsVars>>

WorkInit ==
    /\ IF scene = "session" THEN SessInit ELSE SessRests
    /\ IF scene = "live" THEN LiveInit ELSE LiveRests
    /\ IF scene = "agents" THEN AgentsInit ELSE AgentsRest
    /\ AppsInit /\ AppPageInit
    /\ IF scene = "wizard" THEN WizardInit ELSE WizardRests
    /\ IF scene = "runs" THEN RunsInit ELSE RunsRest

WorkNext ==
    /\ UNCHANGED scene
    /\ IF scene = "session" THEN SessNext ELSE UNCHANGED sessVars
    /\ IF scene = "live" THEN LiveNext ELSE UNCHANGED liveVars
    /\ IF scene = "agents" THEN AgentsNext ELSE UNCHANGED agentsVars
    /\ IF scene = "apps" THEN AppsNext ELSE UNCHANGED appsVars
    /\ IF scene = "app" THEN AppPageNext ELSE UNCHANGED appPageVars
    /\ IF scene = "wizard" THEN WizardNext ELSE UNCHANGED wizardVars
    /\ IF scene = "runs" THEN RunsNext ELSE UNCHANGED runsVars

WorkFairness ==
    /\ SessFairness /\ LiveFairness /\ AgentsFairness /\ RunsFairness

WorkStart == scene \in WorkScenes /\ WorkInit

WorkSpec == WorkStart /\ [][WorkNext]_<<scene, workVars>>

-----------------------------------------------------------------------------
\* The part on show stays in a well-formed state in which what is shown agrees with what
\* the part knows: a 401 that was seen is acted on (auth-guard.tsx) and a
\* stream that broke has a timer to come back (live-events.tsx); progress is of the
\* job it is shown for; only active hosts have a session, an offered agent action
\* is one the API accepts, and a token is spent at most once (host-actions.tsx); a
\* container is in one application; hidden secret values leave the cache; the
\* wizard and the API refuse the same starts, and its suggestions move every path
\* (start-restore.tsx, restore.ts); a refused cancellation is refused for a state
\* the restore is really in, and the steps shown are the ones a run takes
\* (cancel-restore.tsx, restore.ts).
WorkStateOK ==
    CASE scene = "session" -> SessTypeOK /\ Seen401IsFollowed
      [] scene = "live" -> LiveTypeOK /\ StreamComesBack /\ ProgressIsOfTheJob
      [] scene = "agents" -> AgentsTypeOK /\ ConnectedIsActive /\ OfferedIsAccepted /\ TokenSpentOnce
      [] scene = "apps" -> AppsTypeOK /\ ListedOnce
      [] scene = "app" -> AppPageTypeOK /\ HiddenIsForgotten
      [] scene = "wizard" -> WizardTypeOK /\ StartChecksAgree /\ SuggestionsMoveEveryPath
      [] scene = "runs" -> RunsTypeOK /\ RefusalIsTrue /\ StepsShownAreTheRuns

\* What was announced is what happens: the restore that starts is the one the
\* wizard showed when the user confirmed (restore-wizard.tsx), a user the guard
\* sent to sign in comes back to the page they left (return-to.ts), and an agent
\* revoked by a dialog that says it cannot be undone stays revoked
\* (host-actions.tsx).
AnnouncedHappens == StartsAsAnnounced /\ ReturnsToTheirPage /\ RevokedIsFinal
=============================================================================
