--------------------------- MODULE MCConsolePlans ---------------------------
(***************************************************************************)
(* Instances of the parts of the console about protection: the backup      *)
(* settings and a backup now, the recovery points, the Repositories, the   *)
(* schedules, the policies, the contracts, the notifications, the users    *)
(* and the limits of a host.  The parts that are not on show rest in a     *)
(* state in which nothing that is fair can happen.                         *)
(***************************************************************************)
EXTENDS Scene, BackupSettings, BackupNow, PointsConsole, MCRepositoryConsole, PolicySchedule,
        PolicyConsole, ContractConsole, NotifyConsole, UsersConsole, HostLimits, TLC

MCSettings(mode, secs, hooks, opt, exc) ==
    [mode |-> mode, seconds |-> secs, hooks |-> hooks, optional |-> opt, excluded |-> exc,
     at |-> 0]

\* Seconds that are no whole minutes, the limits, and names an API client has
\* listed twice.
MCFirstSettings ==
    {MCSettings(AUTO, 89, FALSE, {}, {}),
     MCSettings("live", 86399, TRUE, {"data"}, {"data"})}

MCNowSettings == {MCSettings(AUTO, 1800, TRUE, {}, {})}
MCPoint(st, status, plan) ==
    [state |-> st, status |-> status, mode |-> "live", planned |-> TRUE, plan |-> plan]
MCFirstPoints ==
    {<<>>, <<MCPoint("failed", "none", {})>>, <<MCPoint("committed", "partial", {"config"})>>}

\* The older point committed, missing or failed; the newer one committed, with or
\* without a deletion that was scheduled before.
MCPointRow(st, due, verif) ==
    [state |-> st, due |-> due, verif |-> verif, manifest |-> st # "failed", details |-> FALSE]
MCFirstStates ==
    {(1 :> MCPointRow(x[1], "none", "unverified")) @@ (2 :> MCPointRow("committed", x[2], "unverified")) :
        x \in {<<"committed", "none">>, <<"missing", "scheduled">>, <<"failed", "none">>}}

\* Stars, single values, steps, lists of a step and a value, ranges backwards and
\* beyond the maximum.
Part(k, a, b, s) == [kind |-> k, a |-> a, b |-> b, step |-> s]
EveryNth(n) == <<Part("star", 0, 0, n)>>
FromTo(a, b) == <<Part("range", a, b, NoStep)>>
MCTokens ==
    << {Star, EveryNth(15), EveryNth(30) \o One(45), <<Part("one", 50, 50, 5)>>, EveryNth(0), One(60)},
       {Star, One(1), EveryNth(6), FromTo(8, 18), FromTo(18, 8)},
       {Star, One(1), EveryNth(10), FromTo(30, 32)},
       {Star, One(2) \o One(4)},
       {Star, One(0), FromTo(1, 5)} >>

MCFirstNames == <<"x", "y">>
MCFirstAssigned == {[a |-> 1, b |-> 2]}
MCTours ==
    {[pages |-> {"app"}, writes |-> 1], [pages |-> {"policy"}, writes |-> 2],
     [pages |-> {"list"}, writes |-> 1]}

MCDrafts == {<<0, "hours">>, <<90, "minutes">>}

MCCatalogue == {<<"backup", "failed">>, <<"backup", "late">>, <<"agent", "offline">>}
MCOtherEvents == {<<"repository", "full">>}
MCCustom == {<<"repository", "*">>}
V(t, p, n, ks) == [tab |-> t, picks |-> p, calls |-> n, kinds |-> ks]
MCVisits == {V("channels", 3, 0, {"update"}), V("channels", 1, 1, {"create", "update"}),
             V("channels", 0, 2, {"update", "delete"}),
             V("channels", 0, 2, {"create", "test"}), V("smtp", 0, 2, {"smtp"})}
MCFirstEvents == {{}, {<<"backup", "failed">>, <<"agent", "offline">>}}

\* Too many jobs; a window that ends at midnight, one that wraps it, one all day.
MCLimDrafts ==
    {[jobs |-> 17, noWindow |-> TRUE, start |-> NoTime, end |-> NoTime, zone |-> "UTC"],
     [jobs |-> 16, noWindow |-> FALSE, start |-> [h |-> 22, m |-> 0], end |-> [h |-> 0, m |-> 0],
      zone |-> "UTC"]}
MCOtherLimits ==
    {[jobs |-> 2, start |-> 1380, end |-> 330, zone |-> "Chicago"],
     [jobs |-> 1, start |-> 360, end |-> 360, zone |-> "UTC"]}
MCLimMinutes == {0, 329, 330, 1319, 1320, 1439}

-----------------------------------------------------------------------------
PlansScenes == {"settings", "now", "points", "repositories", "schedule", "policies", "contract",
                "notify", "users", "limits"}
plansVars == <<setVars, nowVars, ptsVars, repoVars, scheduleVars, polVars, conVars, notVars,
               usersVars, limVars>>

\* A form whose expression is refused, its policy stored as daily.
ScheduleRests ==
    /\ stored = SCHEDULE_PRESETS["daily"] /\ edits = MaxEdits
    /\ draft = [schedule |-> "custom", cron |-> [i \in 1..5 |-> One(60)]]

\* Of the several states a part may begin in, one.
PlansInit ==
    /\ SetInit /\ (scene # "settings" => bsrv.settings.mode = AUTO)
    /\ NowInit /\ (scene # "now" => nsrv.points = <<>>)
    /\ PtsInit /\ (scene # "points" => psrv.pts[1].state = "committed" /\ psrv.pts[2].due = "none")
    /\ RepoInit /\ (scene # "repositories" => srv.repos["lab"] = Absent /\ srv.lastDrill = "old")
    /\ IF scene = "schedule" THEN ScheduleInit ELSE ScheduleRests
    /\ PolInit /\ (scene # "policies" => tour.pages = {"app"})
    /\ ConInit /\ (scene # "contract" => ~con.has)
    /\ NotInit /\ (scene # "notify" => visit.tab = "smtp" /\ chans[1].events = {})
    /\ UsersInit
    /\ LimInit /\ (scene # "limits" => limits.jobs = 1)

\* Bound: requests of this console and changes elsewhere (or lost answers), together.
MaxTogether == 2
WithinBound ==
    /\ userAsked' + elses' <= MaxTogether
    /\ sent' + others' <= MaxTogether
    /\ called' + otherEdits' <= MaxTogether

PlansNext ==
    /\ UNCHANGED scene
    /\ IF scene = "settings" THEN SetNext ELSE UNCHANGED setVars
    /\ IF scene = "now" THEN NowNext ELSE UNCHANGED nowVars
    /\ IF scene = "points" THEN PtsNext ELSE UNCHANGED ptsVars
    /\ IF scene = "repositories" THEN RepoNext ELSE UNCHANGED repoVars
    /\ IF scene = "schedule" THEN ScheduleNext ELSE UNCHANGED scheduleVars
    /\ IF scene = "policies" THEN PolNext ELSE UNCHANGED polVars
    /\ IF scene = "contract" THEN ConNext ELSE UNCHANGED conVars
    /\ IF scene = "notify" THEN NotNext ELSE UNCHANGED notVars
    /\ IF scene = "users" THEN UsersNext ELSE UNCHANGED usersVars
    /\ IF scene = "limits" THEN LimNext ELSE UNCHANGED limVars
    /\ WithinBound

PlansFairness ==
    /\ NowFairness /\ PtsFairness /\ RepoFairness /\ PolFairness /\ ConFairness
    /\ NotFairness

PlansStart == scene \in PlansScenes /\ PlansInit

PlansSpec == PlansStart /\ [][PlansNext]_<<scene, plansVars>>

-----------------------------------------------------------------------------
\* The part on show stays in a well-formed state in which forms, views and the API
\* agree: a settings request does not both keep and replace a list, and one backup
\* of an application runs at a time; the buttons of a recovery point are the ones
\* the API accepts and a failed verification raises an alert; one Repository at
\* most is the default and one the system's, and a confirmed package is of the
\* recipients it was sealed for; both parsers accept the same schedules; policy
\* names are unique and an assigned policy exists; an RPO violation ends when it
\* is over; a saved channel is shown with what was saved; roles given by hand were
\* granted and a group is mapped once; what a host's limits form sends is what it
\* showed, is accepted, and is described truly.
PlansStateOK ==
    CASE scene = "settings" -> SetTypeOK /\ SaveIsUnambiguous
      [] scene = "now" -> NowTypeOK /\ OneBackupAtATime
      [] scene = "points" -> PtsTypeOK /\ ButtonsAgree /\ FailureIsAlerted
      [] scene = "repositories" -> RepoTypeOK /\ OneDefaultOneSystem /\ ConfirmedIsHeld
      [] scene = "schedule" -> ScheduleTypeOK /\ ParsersAgree
      [] scene = "policies" -> PolTypeOK /\ PolicyNamesUnique /\ AssignedExists
      [] scene = "contract" -> ConTypeOK /\ ViolationEnds /\ CaptureAgrees
      [] scene = "notify" -> NotTypeOK /\ SavedIsShown
      [] scene = "users" -> /\ UsersTypeOK /\ ManualWereGranted
                            /\ MappingsListedOnce /\ OwnChangesAreShown
      [] scene = "limits" -> LimTypeOK /\ SentIsShown /\ LimitsAccepted /\ SummaryIsTrue

\* Saving a form nobody edited changes nothing: the conversions from what is
\* stored to a draft and back (backup-settings-card.tsx, contract-card.tsx,
\* host-limits-card.tsx) lose nothing.
UneditedFormsKeep ==
    /\ scene = "settings" => UneditedSaveKeeps
    /\ scene = "contract" => UneditedContractKeeps
    /\ scene = "limits" => UneditedLimitsKeep

\* No step loses what was stored or chosen before: the plan a backup was started
\* with, a deletion, a manifest once shown, a schedule that was previewed, the
\* events a wildcard stands for, the secret of a channel saved without a new one,
\* the roles a user has from groups.
NothingStoredIsLost ==
    /\ PlanIsFixed /\ DeletedStaysDeleted /\ ManifestStaysShown /\ PreviewIsStored
    /\ WildcardLosesNothing /\ SecretsAreKept /\ GroupRolesAreTheGroups
=============================================================================
