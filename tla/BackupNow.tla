------------------------------ MODULE BackupNow -----------------------------
(***************************************************************************)
(* Starting backups of an application, and how they end.                   *)
(*                                                                         *)
(* web/src/components/backups/back-up-now.tsx: the dialog; web/scripts/    *)
(* mock-protection.mjs: advance, the backup route; protection-card.tsx.    *)
(***************************************************************************)
EXTENDS BackupPlan

CONSTANTS
    NowSettings,   \* the saved settings to start from
    FirstPoints,   \* the sequences of recovery points to start from
    NowModes,      \* the consistency modes a user chooses for one run
    MaxPoints,     \* bound: recovery points ever
    MaxEvents      \* bound: saves, inventories, restores and lost answers

ASSUME BackupNowAssumption == NowModes \subseteq Modes /\ MaxPoints \in Nat /\ MaxEvents \in Nat

VARIABLES
    nsrv,     \* the server: [settings, points, inventory, restoring]
    running,  \* the operation the application page shows as running
    bdlg,     \* the "Back up now" dialog
    starts,   \* the starts under way: [mode, own]
    bevents   \* the events that have happened

nowVars == <<nsrv, running, bdlg, starts, bevents>>

(* advance: the first tick of a pending backup plans it and announces it;  *)
(* a tick after its time commits it with a manifest of that plan.          *)
PlanPoint(s, i) ==
    [s.points[i] EXCEPT !.plan = IF s.points[i].planned THEN @ ELSE planFor(s),
                        !.planned = TRUE]

BackupTick(i) ==
    /\ i \in Pending(nsrv)
    /\ ~nsrv.points[i].planned
    /\ nsrv' = [nsrv EXCEPT !.points[i] = PlanPoint(nsrv, i)]
    /\ UNCHANGED <<running, bdlg, starts, bevents>>

Commit(i) ==
    /\ i \in Pending(nsrv)
    /\ nsrv' = [nsrv EXCEPT !.points[i] = [PlanPoint(nsrv, i) EXCEPT !.state = "committed",
                                                                     !.status = "complete"]]
    /\ UNCHANGED <<running, bdlg, starts, bevents>>

-----------------------------------------------------------------------------
(* "Back up now".                                                          *)

ClosedDialog == [open |-> FALSE, mode |-> "setting", error |-> "none", workflow |-> FALSE,
                 busy |-> FALSE]

showProgress == bdlg.workflow \/ running = "backup"

(* Opening resets the dialog and its mutation; a start under way then is   *)
(* no longer the dialog's own, and its callbacks still run.                *)
OpenBackup ==
    /\ ~bdlg.open
    /\ bdlg' = [ClosedDialog EXCEPT !.open = TRUE]
    /\ starts' = [k \in DOMAIN starts |-> [starts[k] EXCEPT !.own = FALSE]]
    /\ UNCHANGED <<nsrv, running, bevents>>

CloseBackup ==
    /\ bdlg.open
    /\ bdlg' = ClosedDialog
    /\ UNCHANGED <<nsrv, running, starts, bevents>>

ChooseMode(m) ==
    /\ bdlg.open /\ ~showProgress /\ ~bdlg.busy /\ bdlg.mode # m
    /\ bdlg' = [bdlg EXCEPT !.mode = m]
    /\ UNCHANGED <<nsrv, running, starts, bevents>>

ClickBackup ==
    /\ bdlg.open /\ ~showProgress /\ ~bdlg.busy
    /\ Len(nsrv.points) + Len(starts) < MaxPoints
    /\ bdlg' = [bdlg EXCEPT !.busy = TRUE]
    /\ starts' = Append(starts, [mode |-> bdlg.mode, own |-> TRUE])
    /\ UNCHANGED <<nsrv, running, bevents>>

Settled(k, d) ==
    /\ starts' = SubSeq(starts, 1, k - 1) \o SubSeq(starts, k + 1, Len(starts))
    /\ bdlg' = IF bdlg.open THEN [d EXCEPT !.busy = @ /\ ~starts[k].own] ELSE bdlg

(* onSuccess shows the progress and reads the application again.           *)
BackupOnSuccess(k) ==
    /\ backupAnswer(nsrv) = "ok"
    /\ nsrv' = startBackup(nsrv, starts[k].mode)
    /\ running' = protectionFor(nsrv').running
    /\ Settled(k, [bdlg EXCEPT !.workflow = TRUE])
    /\ UNCHANGED bevents

(* startBackupErrorMessage: every 409 is said to be an operation running.  *)
startBackupErrorMessage(answer) == IF answer \in {"busy", "no_inventory"} THEN "running" ELSE "other"

BackupOnError(k) ==
    /\ backupAnswer(nsrv) # "ok"
    /\ Settled(k, [bdlg EXCEPT !.error = startBackupErrorMessage(backupAnswer(nsrv))])
    /\ UNCHANGED <<nsrv, running, bevents>>

(* The connection is lost before the server has the request, or after.     *)
BackupLost(k) ==
    /\ bevents < MaxEvents
    /\ bevents' = bevents + 1
    /\ nsrv' \in {nsrv, startBackup(nsrv, starts[k].mode)}
    /\ Settled(k, [bdlg EXCEPT !.error = startBackupErrorMessage("lost")])
    /\ UNCHANGED running

(* The application is read again: an event, the focus, a visit.            *)
ReadApplication ==
    /\ running # protectionFor(nsrv).running
    /\ running' = protectionFor(nsrv).running
    /\ UNCHANGED <<nsrv, bdlg, starts, bevents>>

-----------------------------------------------------------------------------
(* The others: another user starts a backup or saves settings, a restore   *)
(* starts or ends, an inventory arrives.                                   *)

OtherBackup ==
    /\ Len(nsrv.points) + Len(starts) < MaxPoints
    /\ backupAnswer(nsrv) = "ok"
    /\ nsrv' = startBackup(nsrv, "setting")
    /\ UNCHANGED <<running, bdlg, starts, bevents>>

AnalysisChanges ==
    /\ bevents < MaxEvents /\ bevents' = bevents + 1
    /\ \/ nsrv' = [nsrv EXCEPT !.restoring = ~@]
       \/ \E inv \in [known : BOOLEAN, data : {{}, Data}] :
              inv # nsrv.inventory /\ nsrv' = [nsrv EXCEPT !.inventory = inv]
       \/ \E c \in Names :
              LET d == [settingsToDraft(nsrv.settings) EXCEPT !.excluded = Flip(@, c)]
              IN  nsrv' = updateSettings(nsrv, draftToRequest(d, nsrv.settings))
    /\ UNCHANGED <<running, bdlg, starts>>

-----------------------------------------------------------------------------
NowInit ==
    /\ nsrv \in [settings : NowSettings, points : FirstPoints,
                 inventory : {[known |-> TRUE, data |-> Data]}, restoring : {FALSE}]
    /\ running = protectionFor(nsrv).running
    /\ bdlg = ClosedDialog
    /\ starts = <<>>
    /\ bevents = 0

StartSteps == \E k \in DOMAIN starts : BackupOnSuccess(k) \/ BackupOnError(k) \/ BackupLost(k)

PointCommits == \E i \in DOMAIN nsrv.points : Commit(i)

NowNext ==
    \/ \E i \in DOMAIN nsrv.points : BackupTick(i)
    \/ PointCommits
    \/ OpenBackup \/ CloseBackup \/ ClickBackup \/ StartSteps
    \/ \E m \in NowModes \cup {"setting"} : ChooseMode(m)
    \/ ReadApplication
    \/ OtherBackup \/ AnalysisChanges

(* Requests are answered, and advance runs on a timer.                     *)
NowFairness == WF_nowVars(StartSteps) /\ WF_nowVars(PointCommits)

NowSpec == NowInit /\ [][NowNext]_nowVars /\ NowFairness

-----------------------------------------------------------------------------
(* The shapes of the recovery points and of the dialog, which is busy only *)
(* while a start of its own is out.                                        *)
NowTypeOK ==
    /\ Len(nsrv.points) <= MaxPoints
    /\ \A i \in DOMAIN nsrv.points :
           /\ nsrv.points[i].state \in {"pending", "committed", "failed"}
           /\ nsrv.points[i].plan \subseteq Names
    /\ bdlg.busy => \E k \in DOMAIN starts : starts[k].own

(* At most one backup of the application is pending, however often "Start  *)
(* backup" is clicked again after a lost answer, here and by others.       *)
OneBackupAtATime == Cardinality(Pending(nsrv)) <= 1

(* The badge says Protected only if the newest committed recovery point is *)
(* complete, holds every component that would be captured now, and no      *)
(* later attempt failed.                                                   *)
ProtectedIsTrue ==
    protectionFor(nsrv).status = "protected" =>
        \E i \in DOMAIN nsrv.points :
            /\ nsrv.points[i].state = "committed" /\ nsrv.points[i].status = "complete"
            /\ planFor(nsrv) \subseteq nsrv.points[i].plan
            /\ \A j \in DOMAIN nsrv.points : j > i => nsrv.points[j].state = "pending"

(* A recovery point captures what was planned on its first tick: settings  *)
(* saved and inventories found during the backup do not change it, nor     *)
(* does anything change a committed one.                                   *)
PlanIsFixed ==
    [][\A i \in DOMAIN nsrv.points :
           /\ nsrv.points[i].planned => nsrv'.points[i].plan = nsrv.points[i].plan
           /\ nsrv.points[i].state # "pending" => nsrv'.points[i] = nsrv.points[i]]_nowVars

(* Every backup that was accepted is committed in the end.                 *)
EveryBackupEnds == []<>(Pending(nsrv) = {})
=============================================================================
