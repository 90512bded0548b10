--------------------------- MODULE BackupSettings ---------------------------
(***************************************************************************)
(* The settings form of an application, and the saves of several users.    *)
(*                                                                         *)
(* web/src/components/backups/backup-settings-card.tsx: SettingsForm,      *)
(* HooksEditor, ComponentsEditor, BackupSettingsCard.                      *)
(***************************************************************************)
EXTENDS BackupPlan

CONSTANTS
    FirstSettings, \* the saved settings to start from
    FormModes,     \* the consistency modes a user chooses
    Minutes,       \* the numbers of minutes a user types
    MaxDraftEdits,      \* bound: edits of one draft
    MaxSaves,      \* bound: saves of the settings, other users' included
    MaxLostSaves        \* bound: lost answers and other users' saves

ASSUME BackupSettingsAssumption ==
    /\ FormModes \subseteq Modes \cup {AUTO} /\ Minutes \subseteq Nat
    /\ MaxDraftEdits \in Nat /\ MaxSaves \in Nat /\ MaxLostSaves \in Nat

VARIABLES
    bsrv,     \* the server: [settings, points, inventory, restoring]
    setQ,     \* the settings as the page shows them
    planned,  \* the components of the application as the page shows them
    settingsForm,     \* the settings form
    saves,    \* the saves under way: [id, rq, own, st, was]
    lostSaves      \* the answers lost and the saves of others so far

setVars == <<bsrv, setQ, planned, settingsForm, saves, lostSaves>>

ClosedForm == [open |-> FALSE, draft |-> settingsToDraft(NoSettings), edits |-> 0,
               busy |-> FALSE, error |-> FALSE]

(* A form mounts with a draft of the settings it is given.                 *)
SettingsForm(set) == [open |-> TRUE, draft |-> settingsToDraft(set), edits |-> 0,
                      busy |-> FALSE, error |-> FALSE]

(* The saves of a form that is gone: their callbacks still run.            *)
Orphaned(vs) == {[v EXCEPT !.own = FALSE] : v \in vs}

(* The query gets new data: the form f is keyed by updated_at.             *)
BackupSettingsCard(set, f, vs) ==
    LET remounts == f.open /\ set.at # setQ.at
    IN  /\ setQ' = set
        /\ settingsForm' = IF remounts THEN SettingsForm(set) ELSE f
        /\ saves' = IF remounts THEN Orphaned(vs) ELSE vs

(* The settings tab is opened, on the settings read then or read before;   *)
(* or it is left, with its draft.                                          *)
OpenTab ==
    /\ ~settingsForm.open
    /\ setQ' \in {bsrv.settings} \cup ({setQ} \ {NoSettings})
    /\ settingsForm' = SettingsForm(setQ')
    /\ UNCHANGED <<bsrv, saves, planned, lostSaves>>

LeaveTab ==
    /\ settingsForm.open
    /\ settingsForm' = ClosedForm
    /\ saves' = Orphaned(saves)
    /\ UNCHANGED <<bsrv, setQ, planned, lostSaves>>

(* The query refetches when the window gets the focus back.                *)
RefetchSettings ==
    /\ settingsForm.open /\ setQ # bsrv.settings
    /\ BackupSettingsCard(bsrv.settings, settingsForm, saves)
    /\ UNCHANGED <<bsrv, planned, lostSaves>>

Editing(d) ==
    /\ settingsForm.open /\ ~settingsForm.busy /\ settingsForm.draft # d
    /\ settingsForm.edits < MaxDraftEdits
    /\ settingsForm' = [settingsForm EXCEPT !.draft = d, !.edits = @ + 1]
    /\ UNCHANGED <<bsrv, setQ, saves, planned, lostSaves>>

EditFields ==
    \/ \E m \in FormModes : Editing([settingsForm.draft EXCEPT !.mode = m])
    \/ \E n \in Minutes : Editing([settingsForm.draft EXCEPT !.minutes = n])

HooksEditor ==
    \E h \in {"none", "complete", "incomplete"} : Editing([settingsForm.draft EXCEPT !.hooks = h])

ComponentsEditor ==
    \E c \in componentRows(planned, settingsForm.draft) :
        \/ /\ c # "config" /\ c \notin settingsForm.draft.excluded
           /\ Editing([settingsForm.draft EXCEPT !.optional = Flip(@, c)])
        \/ Editing([settingsForm.draft EXCEPT !.excluded = Flip(@, c),
                                      !.optional = IF c \in settingsForm.draft.excluded THEN @
                                                   ELSE @ \ {c}])

Reset ==
    /\ settingsForm.open /\ ~settingsForm.busy /\ settingsForm.edits > 0
    /\ settingsForm' = SettingsForm(setQ)
    /\ UNCHANGED <<bsrv, setQ, saves, planned, lostSaves>>

MaySave == bsrv.settings.at + Cardinality({v \in saves : v.st = "sent"}) < MaxSaves

(* submit                                                                  *)
Submit ==
    /\ settingsForm.open /\ ~settingsForm.busy
    /\ MaySave
    /\ IF draftOk(settingsForm.draft)
       THEN /\ saves' = saves \cup {[id |-> CHOOSE i \in 1..(Cardinality(saves) + 1) :
                                               \A v \in saves : v.id # i,
                                     rq |-> draftToRequest(settingsForm.draft, setQ), own |-> TRUE,
                                     st |-> "sent", was |-> NoSettings]}
            /\ settingsForm' = [settingsForm EXCEPT !.busy = TRUE, !.error = FALSE]
       ELSE /\ ~settingsForm.error
            /\ saves' = saves
            /\ settingsForm' = [settingsForm EXCEPT !.error = TRUE]
    /\ UNCHANGED <<bsrv, setQ, planned, lostSaves>>

(* The server handles the PUT; the answer holds the settings it made.      *)
HandleSave(v) ==
    /\ v.st = "sent"
    /\ bsrv' = updateSettings(bsrv, v.rq)
    /\ saves' = (saves \ {v}) \cup
                {[v EXCEPT !.st = IF settingsOk(v.rq) THEN "saved" ELSE "refused",
                           !.was = IF settingsOk(v.rq) THEN bsrv'.settings ELSE @]}
    /\ UNCHANGED <<setQ, settingsForm, planned, lostSaves>>

Answered(v) == IF v.own THEN [settingsForm EXCEPT !.busy = FALSE] ELSE settingsForm

SaveOnSuccess(v) ==
    /\ v.st = "saved"
    /\ BackupSettingsCard(v.was, Answered(v), saves \ {v})
    /\ UNCHANGED <<bsrv, planned, lostSaves>>

(* Refused, or the connection is lost before the answer.                   *)
SaveOnError(v) ==
    /\ \/ v.st = "refused" /\ lostSaves' = lostSaves
       \/ v.st # "refused" /\ lostSaves < MaxLostSaves /\ lostSaves' = lostSaves + 1
    /\ saves' = saves \ {v}
    /\ settingsForm' = [Answered(v) EXCEPT !.error = @ \/ v.own]
    /\ UNCHANGED <<bsrv, setQ, planned>>

(* Another user saves, from a form of their own.                           *)
OtherSaves ==
    \E c \in Names, n \in Minutes :
        LET d  == settingsToDraft(bsrv.settings)
            d2 == [d EXCEPT !.minutes = n, !.excluded = Flip(@, c), !.optional = @ \ {c}]
        IN  /\ draftOk(d2) /\ MaySave
            /\ lostSaves < MaxLostSaves /\ lostSaves' = lostSaves + 1
            /\ bsrv' = updateSettings(bsrv, draftToRequest(d2, bsrv.settings))
            /\ UNCHANGED <<setQ, planned, settingsForm, saves>>

(* The application is read again.  A save does not ask for it.             *)
ReadComponents ==
    /\ planned # planFor(bsrv)
    /\ planned' = planFor(bsrv)
    /\ UNCHANGED <<bsrv, setQ, settingsForm, saves, lostSaves>>

-----------------------------------------------------------------------------
SetInit ==
    /\ bsrv \in [settings : FirstSettings, points : {<<>>},
                 inventory : {[known |-> TRUE, data |-> Data]}, restoring : {FALSE}]
    /\ planned = planFor(bsrv)
    /\ setQ = NoSettings
    /\ settingsForm = ClosedForm
    /\ saves = {}
    /\ lostSaves = 0

SaveSteps == \E v \in saves : HandleSave(v) \/ SaveOnSuccess(v) \/ SaveOnError(v)

SetNext ==
    \/ OpenTab \/ LeaveTab \/ RefetchSettings
    \/ EditFields \/ HooksEditor \/ ComponentsEditor \/ Reset \/ Submit
    \/ SaveSteps
    \/ OtherSaves \/ ReadComponents

SetSpec == SetInit /\ [][SetNext]_setVars

-----------------------------------------------------------------------------
(* The shapes of the saved settings, the form and the saves under way; a   *)
(* form is busy only while a save of its own is out.                       *)
SetTypeOK ==
    /\ AsRequest(bsrv.settings) \in SettingsRequests /\ bsrv.settings.at \in 0..MaxSaves
    /\ \A v \in saves : v.rq \in SettingsRequests /\ v.st \in {"sent", "saved", "refused"}
    /\ settingsForm.busy <=> \E v \in saves : v.own

(* Saving a form nobody edited changes nothing: the minutes it shows are   *)
(* rounded, and the seconds behind them are kept (draftToRequest).         *)
UneditedSaveKeeps ==
    \A set \in {bsrv.settings} \cup {v.was : v \in {w \in saves : w.st = "saved"}} :
        set.optional \cap (set.excluded \cup {"config"}) = {} =>
            /\ draftOk(settingsToDraft(set))
            /\ draftToRequest(settingsToDraft(set), set) = AsRequest(set)

(* What the console sends never calls a component both optional and        *)
(* excluded, nor the configuration optional, whatever was saved before and *)
(* in whatever order the boxes are ticked.                                 *)
SaveIsUnambiguous ==
    \A v \in saves : v.rq.optional \cap (v.rq.excluded \cup {"config"}) = {}
=============================================================================
