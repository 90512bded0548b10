------------------------------- MODULE AppPage ------------------------------
(***************************************************************************)
(* The page of an application: the dialog that edits its metadata, and the *)
(* tab with the Compose definition, whose secrets are revealed on request. *)
(*                                                                         *)
(* web/scripts/mock-fleet.mjs (PATCH /applications/{id}, compose and its   *)
(* route); web/src/components/applications/edit-metadata-dialog.tsx,       *)
(* compose-view.tsx, application-detail.tsx; queryKeys in                  *)
(* web/src/lib/api/endpoints.ts.                                           *)
(***************************************************************************)
EXTENDS Naturals, FiniteSets

CONSTANTS
    Fields,       \* the fields of the metadata
    Texts,        \* what a field may hold; "" is not set
    MaxPatches,   \* bound: saves of the console
    MaxConfirms,  \* bound: confirmed reveals
    MaxWorld      \* bound: saves and discoveries of others, lost answers

ASSUME AppPageAssumption ==
    "" \in Texts /\ MaxPatches \in Nat /\ MaxConfirms \in Nat /\ MaxWorld \in Nat

VARIABLES
    app,      \* the server: [meta, present (it is in the inventory), reveals (audited)]
    appQ,     \* the cached metadata, as the page shows it
    metaDlg,  \* "Edit metadata": [open, draft, first, busy, error]
    patches,  \* the saves under way: [n, req, edited, here, st]
    tab,      \* the Compose tab is open
    masked,   \* the masked definition: "none", "ok" or "missing"
    reveal,   \* the secrets are to be shown
    confirming, \* the dialog "Reveal secrets?" is open
    revealed, \* the revealed definition: "none", "sent", "ok" or "error"
    confirms, patched, world

pageUi == <<appQ, metaDlg, patches, tab, masked, reveal, confirming, revealed>>
appPageVars == <<app, pageUi, confirms, patched, world>>

-----------------------------------------------------------------------------
(* The server.                                                             *)

(* PATCH: the fields that are given; "" clears one.                        *)
updateApplication(s, req) ==
    [s EXCEPT !.meta = [f \in Fields |-> IF f \in DOMAIN req THEN req[f] ELSE @[f]]]

(* GET .../compose: 409 for an application that is not in the inventory.   *)
composeOut(s) == IF s.present THEN "ok" ELSE "missing"

(* GET .../compose?reveal=true: what is returned is audited.               *)
revealCompose(s) == IF s.present THEN [s EXCEPT !.reveals = @ + 1] ELSE s

(* Another manager saves a field; a discovery finds the application, or    *)
(* does not.                                                               *)
OtherSavesMeta ==
    /\ world < MaxWorld /\ world' = world + 1
    /\ \/ \E f \in Fields, t \in Texts \ {""} :
              t # app.meta[f] /\ app' = [app EXCEPT !.meta[f] = t]
       \/ app' = [app EXCEPT !.present = ~@]
    /\ UNCHANGED <<pageUi, confirms, patched>>

-----------------------------------------------------------------------------
(* The page.                                                               *)

\* Mutant: the revealed definition is one more query of the application.
applicationKeys_Revealed == {"application", "compose", "revealed"}

(* queryKeys: the page's queries under ["applications"].                   *)
applicationKeys == {"application", "compose"}

(* An event, a focus: the queries under that prefix are read again.        *)
InvalidateApplication ==
    /\ appQ # app.meta \/ (tab /\ masked # composeOut(app))
    /\ appQ' = IF "application" \in applicationKeys THEN app.meta ELSE appQ
    /\ masked' = IF tab /\ "compose" \in applicationKeys THEN composeOut(app) ELSE masked
    /\ revealed' = IF revealed = "ok" /\ "revealed" \in applicationKeys THEN "sent" ELSE revealed
    /\ UNCHANGED <<app, metaDlg, patches, tab, reveal, confirming, confirms, patched, world>>

NoMeta == [open |-> FALSE, draft |-> [f \in Fields |-> ""], first |-> [f \in Fields |-> ""],
           busy |-> FALSE, error |-> FALSE]

(* A modal dialog is open; "Reveal secrets?" is one of the definition's.   *)
Covered == metaDlg.open \/ (confirming /\ masked = "ok")

(* onOpenChange(true): the fields are filled from what the page shows.     *)
OpenMeta ==
    /\ ~Covered /\ patched < MaxPatches
    /\ metaDlg' = [NoMeta EXCEPT !.open = TRUE, !.draft = appQ, !.first = appQ]
    /\ patches' = {[p EXCEPT !.here = FALSE] : p \in patches}
    /\ UNCHANGED <<app, appQ, tab, masked, reveal, confirming, revealed, confirms, patched, world>>

CloseMeta ==
    /\ metaDlg.open
    /\ metaDlg' = NoMeta
    /\ patches' = {[p EXCEPT !.here = FALSE] : p \in patches}
    /\ UNCHANGED <<app, appQ, tab, masked, reveal, confirming, revealed, confirms, patched, world>>

(* One field is edited per opening.                                        *)
EditMeta(f, t) ==
    /\ metaDlg.open /\ ~metaDlg.busy /\ metaDlg.draft = metaDlg.first /\ t # metaDlg.draft[f]
    /\ metaDlg' = [metaDlg EXCEPT !.draft[f] = t]
    /\ UNCHANGED <<app, appQ, patches, tab, masked, reveal, confirming, revealed, confirms, patched, world>>

(* submit: the fields that differ from the application as it is cached at  *)
(* this moment.                                                            *)
changed(draft, current) ==
    [f \in {g \in Fields : draft[g] # current[g]} |-> draft[f]]

SubmitMeta ==
    LET req == changed(metaDlg.draft, appQ)
    IN  /\ metaDlg.open /\ ~metaDlg.busy
        /\ IF DOMAIN req = {}
           THEN metaDlg' = NoMeta /\ UNCHANGED <<patches, patched>>
           ELSE /\ patched < MaxPatches /\ patched' = patched + 1
                /\ patches' = patches \cup
                       {[n |-> patched, req |-> req, here |-> TRUE, st |-> "sent",
                         edited |-> {f \in Fields : metaDlg.draft[f] # metaDlg.first[f]}]}
                /\ metaDlg' = [metaDlg EXCEPT !.busy = TRUE, !.error = FALSE]
        /\ UNCHANGED <<app, appQ, tab, masked, reveal, confirming, revealed, confirms, world>>

HandlePatch(p) ==
    /\ p.st = "sent"
    /\ app' = updateApplication(app, p.req)
    /\ patches' = (patches \ {p}) \cup {[p EXCEPT !.st = "ok"]}
    /\ UNCHANGED <<appQ, metaDlg, tab, masked, reveal, confirming, revealed, confirms, patched, world>>

(* The dialog closes, and the application is read again.                   *)
PatchOnSuccess(p) ==
    /\ p.st = "ok"
    /\ metaDlg' = NoMeta
    /\ appQ' = app.meta
    /\ patches' = {[x EXCEPT !.here = FALSE] : x \in patches \ {p}}
    /\ UNCHANGED <<app, tab, masked, reveal, confirming, revealed, confirms, patched, world>>

PatchOnError(p) ==
    /\ world < MaxWorld /\ world' = world + 1
    /\ metaDlg' = IF ~metaDlg.open THEN metaDlg
                  ELSE [metaDlg EXCEPT !.error = TRUE, !.busy = @ /\ ~p.here]
    /\ patches' = patches \ {p}
    /\ UNCHANGED <<app, appQ, tab, masked, reveal, confirming, revealed, confirms, patched>>

-----------------------------------------------------------------------------
(* ComposeView.                                                            *)

OpenCompose ==
    /\ ~tab /\ ~Covered
    /\ tab' = TRUE /\ masked' = composeOut(app)
    /\ UNCHANGED <<app, appQ, metaDlg, patches, reveal, confirming, revealed, confirms, patched, world>>

(* removeQueries: a fetch under way is aborted, before or after the server *)
(* has seen it.                                                            *)
RemoveRevealed ==
    /\ revealed' = "none"
    /\ app' \in {app} \cup (IF revealed = "sent" THEN {revealCompose(app)} ELSE {})

(* The tab's content unmounts.                                             *)
LeaveCompose ==
    /\ tab /\ ~Covered
    /\ tab' = FALSE /\ masked' = "none" /\ reveal' = FALSE /\ confirming' = FALSE
    /\ RemoveRevealed
    /\ UNCHANGED <<appQ, metaDlg, patches, confirms, patched, world>>

AskReveal ==
    /\ tab /\ masked = "ok" /\ ~reveal /\ ~Covered
    /\ confirming' = TRUE
    /\ UNCHANGED <<app, appQ, metaDlg, patches, tab, masked, reveal, revealed, confirms, patched, world>>

CancelReveal ==
    /\ confirming /\ masked = "ok"
    /\ confirming' = FALSE
    /\ UNCHANGED <<app, appQ, metaDlg, patches, tab, masked, reveal, revealed, confirms, patched, world>>

(* setReveal(true) enables the query: it is fetched.                       *)
ConfirmReveal ==
    /\ confirming /\ masked = "ok" /\ confirms < MaxConfirms
    /\ confirming' = FALSE /\ reveal' = TRUE /\ revealed' = "sent"
    /\ confirms' = confirms + 1
    /\ UNCHANGED <<app, appQ, metaDlg, patches, tab, masked, patched, world>>

HideSecrets ==
    /\ tab /\ masked = "ok" /\ reveal /\ ~Covered
    /\ reveal' = FALSE
    /\ RemoveRevealed
    /\ UNCHANGED <<appQ, metaDlg, patches, tab, masked, confirming, confirms, patched, world>>

(* The answer, or its loss, of a query that was not removed; no retry.     *)
RevealAnswer ==
    /\ revealed = "sent"
    /\ app' = revealCompose(app)
    /\ \/ /\ revealed' = IF app.present THEN "ok" ELSE "error"
          /\ world' = world
       \/ world < MaxWorld /\ world' = world + 1 /\ revealed' = "error"
    /\ UNCHANGED <<appQ, metaDlg, patches, tab, masked, reveal, confirming, confirms, patched>>

-----------------------------------------------------------------------------
AppPageInit ==
    /\ app = [meta |-> [f \in Fields |-> ""], present |-> TRUE, reveals |-> 0]
    /\ appQ = app.meta /\ metaDlg = NoMeta /\ patches = {}
    /\ tab = FALSE /\ masked = "none" /\ reveal = FALSE /\ confirming = FALSE /\ revealed = "none"
    /\ confirms = 0 /\ patched = 0 /\ world = 0

PatchSteps(p) == HandlePatch(p) \/ PatchOnSuccess(p) \/ PatchOnError(p)

AppPageNext ==
    \/ OtherSavesMeta \/ InvalidateApplication
    \/ OpenMeta \/ CloseMeta \/ SubmitMeta
    \/ \E f \in Fields, t \in Texts : EditMeta(f, t)
    \/ \E p \in patches : PatchSteps(p)
    \/ OpenCompose \/ LeaveCompose
    \/ AskReveal \/ CancelReveal \/ ConfirmReveal \/ HideSecrets \/ RevealAnswer

AppPageSpec == AppPageInit /\ [][AppPageNext]_appPageVars

-----------------------------------------------------------------------------
(* The values of the variables; a dialog that waits has its save under     *)
(* way.                                                                    *)
AppPageTypeOK ==
    /\ app.meta \in [Fields -> Texts] /\ app.present \in BOOLEAN /\ app.reveals \in Nat
    /\ appQ \in [Fields -> Texts]
    /\ metaDlg.draft \in [Fields -> Texts]
    /\ metaDlg.busy => metaDlg.open /\ \E p \in patches : p.here
    /\ masked \in {"none", "ok", "missing"}
    /\ revealed \in {"none", "sent", "ok", "error"}

(* "each fetch is an audited reveal": the audit log has no reveal the user *)
(* did not confirm, whatever refetches the page's other queries.           *)
RevealsWereConfirmed == app.reveals <= confirms

(* "removed from the cache when hidden or when this view unmounts": there  *)
(* is no revealed definition, nor one under way, once it is hidden.        *)
HiddenIsForgotten == (~reveal \/ ~tab) => revealed = "none"
=============================================================================
