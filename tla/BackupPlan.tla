----------------------------- MODULE BackupPlan -----------------------------
(***************************************************************************)
(* What a backup of an application captures, and what its protection says. *)
(*                                                                         *)
(* web/scripts/mock-protection.mjs: settingsOut, planFor, the backup and   *)
(* backup-settings routes; mock-live.mjs: protectionFor;                   *)
(* web/src/components/backups/backup-settings-card.tsx: the conversions    *)
(* between the saved settings and the form's draft.                        *)
(*                                                                         *)
(* One application.  Its settings are edited in minutes and stored in      *)
(* seconds; its hooks are there or not, and in a draft may be incomplete.  *)
(* A server state is [settings, points, inventory, restoring].             *)
(***************************************************************************)
EXTENDS Naturals, Sequences, FiniteSets

CONSTANT Data    \* the data components of the application (volumes, binds)

ASSUME BackupPlanAssumption == "config" \notin Data

AUTO == "auto"
Modes == {"live", "quiesced", "offline"}
Names == {"config"} \cup Data

-----------------------------------------------------------------------------
(* The server.                                                             *)

(* settingsOut's effective_mode.                                           *)
effectiveMode(set) ==
    IF set.mode # AUTO THEN set.mode ELSE IF set.hooks THEN "quiesced" ELSE "live"

(* The components a backup captures: none without an analysis; else the    *)
(* configuration and the data found, without the excluded ones.            *)
planFor(s) ==
    IF ~s.inventory.known THEN {}
    ELSE ({"config"} \cup s.inventory.data) \ s.settings.excluded

NewPoint(mode) ==
    [state |-> "pending", status |-> "none", mode |-> mode, planned |-> FALSE, plan |-> {}]

Pending(s) == {i \in DOMAIN s.points : s.points[i].state = "pending"}

(* POST /applications/{id}/backups: 409 for a pending backup and for an    *)
(* application without an analysis.                                        *)
backupAnswer(s) ==
    IF Pending(s) # {} THEN "busy" ELSE IF ~s.inventory.known THEN "no_inventory" ELSE "ok"

startBackup(s, mode) ==
    IF backupAnswer(s) # "ok" THEN s
    ELSE [s EXCEPT !.points = Append(@, NewPoint(IF mode = "setting" THEN effectiveMode(s.settings)
                                                 ELSE mode))]

(* PUT /applications/{id}/backup-settings replaces the whole document.     *)
settingsOk(rq) == rq.seconds \in 60..86400

updateSettings(s, rq) ==
    IF settingsOk(rq)
    THEN [s EXCEPT !.settings = [mode |-> rq.mode, seconds |-> rq.seconds, hooks |-> rq.hooks,
                                 optional |-> rq.optional, excluded |-> rq.excluded,
                                 at |-> @.at + 1]]
    ELSE s

-----------------------------------------------------------------------------
(* protectionFor: recovery points are numbered in the order of creation.   *)

LastOf(s, states) ==
    LET is == {i \in DOMAIN s.points : s.points[i].state \in states}
    IN  IF is = {} THEN 0 ELSE CHOOSE i \in is : \A j \in is : j <= i

\* Mutant: the coverage of the newest recovery point is not looked at.
protectionFor_AnyCoverage(s) ==
    LET ok       == LastOf(s, {"committed"})
        attempt  == LastOf(s, {"pending", "committed", "failed"})
        captured == IF ok = 0 THEN {} ELSE s.points[ok].plan
        covered  == planFor(s) \cap captured
        failed   == attempt # 0 /\ s.points[attempt].state = "failed"
    IN  [status |-> IF ok = 0 THEN (IF failed THEN "failed" ELSE "unprotected")
                    ELSE IF failed /\ attempt > ok THEN "failed"
                    ELSE IF s.points[ok].status = "partial" THEN "at_risk"
                    ELSE "protected",
         running |-> IF s.restoring THEN "restore"
                     ELSE IF attempt # 0 /\ s.points[attempt].state = "pending" THEN "backup"
                     ELSE "none",
         components |-> planFor(s),
         covered |-> covered]

protectionFor(s) ==
    LET ok       == LastOf(s, {"committed"})
        attempt  == LastOf(s, {"pending", "committed", "failed"})
        captured == IF ok = 0 THEN {} ELSE s.points[ok].plan
        covered  == planFor(s) \cap captured
        failed   == attempt # 0 /\ s.points[attempt].state = "failed"
    IN  [status |-> IF ok = 0 THEN (IF failed THEN "failed" ELSE "unprotected")
                    ELSE IF failed /\ attempt > ok THEN "failed"
                    ELSE IF s.points[ok].status = "partial" \/
                            Cardinality(covered) < Cardinality(planFor(s)) THEN "at_risk"
                    ELSE "protected",
         running |-> IF s.restoring THEN "restore"
                     ELSE IF attempt # 0 /\ s.points[attempt].state = "pending" THEN "backup"
                     ELSE "none",
         components |-> planFor(s),
         covered |-> covered]

-----------------------------------------------------------------------------
(* The settings form.                                                      *)

NoSettings == [at |-> 0, mode |-> AUTO, seconds |-> 0, hooks |-> FALSE,
               optional |-> {}, excluded |-> {}]

roundMinutes(seconds) ==
    LET m == (seconds + 30) \div 60 IN IF m < 1 THEN 1 ELSE m

settingsToDraft(set) ==
    [mode |-> set.mode, minutes |-> roundMinutes(set.seconds),
     hooks |-> IF set.hooks THEN "complete" ELSE "none",
     optional |-> set.optional, excluded |-> set.excluded]

(* draftToRequest: minutes left as they were keep the stored seconds.      *)
draftOk(d) == d.minutes \in 1..1440 /\ d.hooks # "incomplete"

\* Mutant: the seconds are always computed from the minutes.
draftToRequest_Minutes(d, initial) ==
    [mode |-> d.mode, seconds |-> d.minutes * 60, hooks |-> d.hooks = "complete",
     optional |-> {c \in d.optional : c \notin d.excluded /\ c # "config"},
     excluded |-> d.excluded]

draftToRequest(d, initial) ==
    [mode |-> d.mode,
     seconds |-> IF d.minutes = roundMinutes(initial.seconds) THEN initial.seconds
                 ELSE d.minutes * 60,
     hooks |-> d.hooks = "complete",
     optional |-> {c \in d.optional : c \notin d.excluded /\ c # "config"},
     excluded |-> d.excluded]

(* componentRows: what the server plans, the configuration, and the names  *)
(* the draft lists as optional or excluded.                                *)
componentRows(components, d) == components \cup {"config"} \cup d.optional \cup d.excluded

Flip(set, x) == IF x \in set THEN set \ {x} ELSE set \cup {x}

(* The settings a form can edit and save again, as a request.              *)
AsRequest(set) == [mode |-> set.mode, seconds |-> set.seconds, hooks |-> set.hooks,
                   optional |-> set.optional, excluded |-> set.excluded]

SettingsRequests == [mode : Modes \cup {AUTO}, seconds : 60..86400, hooks : BOOLEAN,
             optional : SUBSET Names, excluded : SUBSET Names]

=============================================================================
