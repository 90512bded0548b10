--------------------------- MODULE RestoreWizard ----------------------------
(***************************************************************************)
(* The restore wizard of the web console and the routes it calls.          *)
(*                                                                         *)
(* web/src/components/restores: the picker of recovery points and the      *)
(* three-step wizard (target, impact preview, confirm);                    *)
(* web/scripts/mock-restore.mjs: the preview and start routes.  What runs  *)
(* of a started restore is in RestoreRuns; here it runs and ends.          *)
(***************************************************************************)
EXTENDS RestorePlan

CONSTANTS
    MaxRuns,         \* bound: restores started
    MaxStarts,       \* bound: start requests in flight at once
    MaxWizardEdits,        \* bound: changes of the wizard's target
    MaxWorldChanges, \* bound: changes of the world
    MaxLostStarts          \* bound: start requests whose answer is lost

ASSUME WizardAssumption ==
    {MaxRuns, MaxStarts, MaxWizardEdits, MaxWorldChanges, MaxLostStarts} \subseteq Nat

VARIABLES
    wizardWorld,      \* what the server computes a preview from
    started,    \* the states of the restores started, oldest first
    perms,      \* the permissions of the user at the console
    page,       \* "home", "picker", "wizard", "refused" (a recovery point that
                \* is not committed) or "detail" (of the run just started)
    wizard,     \* [step, hostId, selected, remaps, touched, edits]
    previews,      \* preview queries with data: key -> [body, world]
    previewing, \* a preview of the wizard's body is being asked for
    starting,   \* start requests in flight: [rq, here]
    worldChanges, lostStarts

wizardVars == <<wizardWorld, started, perms, page, wizard, previews, previewing, starting,
                worldChanges, lostStarts>>

-----------------------------------------------------------------------------
(* The start route: mock-restore.mjs.                                      *)

\* Mutant: a restore already active is not looked for.
StartAnswer_NotBusy(rq, w, rs) ==
    LET production == Production(rq.body, w) IN
    IF "restore.execute" \notin rq.perms THEN "forbidden"
    ELSE IF resolve(rq.body, w) # "ok" THEN resolve(rq.body, w)
    ELSE IF Collisions(rq.body, w) # {} THEN "conflict"
    ELSE IF production /\ "restore.production" \notin rq.perms THEN "forbidden"
    ELSE IF production /\ ~ (rq.confirmed /\ rq.reason) THEN "validation_failed"
    ELSE "started"

(* The checks of POST .../restores, in order.                              *)
StartAnswer(rq, w, rs) ==
    LET production == Production(rq.body, w) IN
    IF "restore.execute" \notin rq.perms THEN "forbidden"
    ELSE IF resolve(rq.body, w) # "ok" THEN resolve(rq.body, w)
    ELSE IF Collisions(rq.body, w) # {} THEN "conflict"
    ELSE IF production /\ "restore.production" \notin rq.perms THEN "forbidden"
    ELSE IF production /\ ~ (rq.confirmed /\ rq.reason) THEN "validation_failed"
    ELSE IF \E i \in DOMAIN rs : isActiveRestore(rs[i]) THEN "conflict"
    ELSE "started"

StartRoute(rq, rs) ==
    IF StartAnswer(rq, wizardWorld, rs) = "started" THEN Append(rs, "requested") ELSE rs

RunEnds ==
    \E i \in DOMAIN started :
       /\ isActiveRestore(started[i])
       /\ started' = [started EXCEPT ![i] = "succeeded"]
       /\ UNCHANGED <<wizardWorld, perms, page, wizard, previews, previewing, starting,
                      worldChanges, lostStarts>>

(* Somebody else starts a restore of the same application.                 *)
OtherStarts ==
    LET rq == [body |-> [host |-> "src", components |-> defaultSelection, remaps |-> {}],
               perms |-> {"restore.execute", "restore.production"},
               reason |-> TRUE, confirmed |-> TRUE, shown |-> <<>>]
    IN  /\ Len(started) + Len(starting) < MaxRuns
        /\ StartAnswer(rq, wizardWorld, started) = "started"
        /\ started' = StartRoute(rq, started)
        /\ UNCHANGED <<wizardWorld, perms, page, wizard, previews, previewing, starting,
                       worldChanges, lostStarts>>

(* The application is tagged or untagged, starts or stops; the DR host is  *)
(* disabled or enabled; the recovery point goes to deletion and back.      *)
WorldChanges ==
    /\ worldChanges < MaxWorldChanges
    /\ wizardWorld' \in Worlds
    /\ \E f \in {"env", "running", "dr", "rp"} :
          wizardWorld' = [wizardWorld EXCEPT ![f] = wizardWorld'[f]] /\ wizardWorld'[f] # wizardWorld[f]
    /\ worldChanges' = worldChanges + 1
    /\ UNCHANGED <<started, perms, page, wizard, previews, previewing, starting, lostStarts>>

-----------------------------------------------------------------------------
(* The wizard: web/src/components/restores/restore-wizard.tsx.             *)

EmptyWizard == [step |-> 1, hostId |-> "src", selected |-> defaultSelection,
                remaps |-> {}, touched |-> FALSE, edits |-> 0]

body == [host |-> wizard.hostId, components |-> wizard.selected,
         remaps |-> IF validateRemaps(wizard.remaps) THEN wizard.remaps ELSE {}]

targetValid == wizard.selected # {} /\ validateRemaps(wizard.remaps)

queryKey(b) == b

(* The data of the preview query of this body: <<>>, or the one entry.     *)
Entry == IF queryKey(body) \in DOMAIN previews THEN <<previews[queryKey(body)]>> ELSE <<>>

canRestore == {"restore.execute", "backup.read"} \subseteq perms

inFlight == \E i \in DOMAIN starting : starting[i].here

LeavePage == /\ previewing' = FALSE
             /\ wizard' = [EmptyWizard EXCEPT !.edits = wizard.edits]

Open(p) ==
    /\ page' = p
    /\ LeavePage
    /\ starting' = [i \in DOMAIN starting |-> [starting[i] EXCEPT !.here = FALSE]]
    /\ UNCHANGED <<wizardWorld, started, perms, previews, worldChanges, lostStarts>>

StartRestoreView == page # "picker" /\ canRestore /\ Open("picker")

(* The picker lists the committed recovery points; the wizard's loader     *)
(* refuses one that is no longer committed.                                *)
WizardLoader ==
    /\ page = "picker"
    /\ wizardWorld.rp = "committed"
    /\ Open("wizard")

(* The recovery point is read again: one that went to deletion takes the   *)
(* wizard off the page with all that was entered, and may come back.       *)
PointRefetched ==
    \/ page = "wizard" /\ wizardWorld.rp # "committed" /\ Open("refused")
    \/ page = "refused" /\ wizardWorld.rp = "committed" /\ Open("wizard")

InStep(s) == page = "wizard" /\ wizard.step = s

SetTarget(w) ==
    /\ InStep(1)
    /\ wizard.edits < MaxWizardEdits
    /\ wizard' = [w EXCEPT !.edits = @ + 1]
    /\ wizard' # wizard
    /\ previewing' = FALSE
    /\ UNCHANGED <<wizardWorld, started, perms, page, previews, starting, worldChanges, lostStarts>>

setHost ==
    \E h \in RestoreHosts \ {wizard.hostId} :
       /\ h = "dr" => wizardWorld.dr = "active"
       /\ SetTarget([wizard EXCEPT !.hostId = h,
             !.remaps = IF wizard.touched THEN @
                        ELSE IF h = "src" THEN {}
                        ELSE suggestRemaps(remappablePaths(wizard.selected))])

toggle ==
    \E n \in defaultSelection :
       SetTarget([wizard EXCEPT !.selected = IF n \in @ THEN @ \ {n} ELSE @ \cup {n}])

RemapEditor ==
    \E rows \in {{}, {BadRow}, suggestRemaps(remappablePaths(wizard.selected))} :
       SetTarget([wizard EXCEPT !.remaps = rows, !.touched = TRUE])

(* Steps 2 and 3 enable the preview query; it is stale at once, so each    *)
(* time it is enabled it is asked again.                                   *)
PreviewImpact ==
    /\ InStep(1)
    /\ targetValid
    /\ wizard' = [wizard EXCEPT !.step = 2]
    /\ previewing' = TRUE
    /\ UNCHANGED <<wizardWorld, started, perms, page, previews, starting, worldChanges, lostStarts>>

RefreshPreview ==
    /\ InStep(2)
    /\ ~ previewing
    /\ previewing' = TRUE
    /\ UNCHANGED <<wizardWorld, started, perms, page, wizard, previews, starting, worldChanges,
                   lostStarts>>

PreviewRoute ==
    /\ previewing
    /\ previews' = IF resolve(body, wizardWorld) # "ok" THEN previews
                ELSE [k \in DOMAIN previews \cup {queryKey(body)} |->
                        IF k = queryKey(body) THEN [body |-> body, world |-> wizardWorld]
                                              ELSE previews[k]]
    /\ previewing' = FALSE
    /\ UNCHANGED <<wizardWorld, started, perms, page, wizard, starting, worldChanges, lostStarts>>

(* gcTime: the data of a preview nobody looks at is dropped after a while. *)
PreviewCollected ==
    /\ \E k \in DOMAIN previews :
          /\ page = "wizard" => k # queryKey(body)
          /\ previews' = [x \in DOMAIN previews \ {k} |-> previews[x]]
    /\ UNCHANGED <<wizardWorld, started, perms, page, wizard, previewing, starting, worldChanges,
                   lostStarts>>

(* What RestorePreviewView puts before the user: the target and its data,  *)
(* and what happens to the containers and the images.                      *)
PreviewedData(p) ==
    [target |-> p.target, components |-> p.components, production |-> p.production,
     collisions |-> p.collisions, blocked |-> p.blocked]
PreviewedContainers(p) == [stop |-> p.stop, create |-> p.create, images |-> p.images]

RestorePreviewView(p) == [data |-> PreviewedData(p), containers |-> PreviewedContainers(p)]

Continue ==
    /\ InStep(2)
    /\ ~ previewing
    /\ Entry # <<>>
    /\ ~ PreviewedData(PreviewOf(Entry[1])).blocked
    /\ wizard' = [wizard EXCEPT !.step = 3]
    /\ UNCHANGED <<wizardWorld, started, perms, page, previews, previewing, starting,
                   worldChanges, lostStarts>>

Back ==
    /\ page = "wizard" /\ wizard.step > 1
    /\ ~ inFlight
    /\ wizard' = [wizard EXCEPT !.step = @ - 1]
    /\ UNCHANGED <<wizardWorld, started, perms, page, previews, previewing, starting,
                   worldChanges, lostStarts>>

checkStart(p, reason, confirmed) ==
    /\ ~ p.blocked
    /\ p.production => "restore.production" \in perms /\ reason /\ confirmed

\* Mutant: the request leaves the selection out, which stands for everything.
ClickStart_NoSelection ==
    \E reason, confirmed \in BOOLEAN :
       /\ InStep(3)
       /\ Entry # <<>>
       /\ ~ previewing
       /\ ~ inFlight
       /\ Len(starting) < MaxStarts /\ Len(started) + Len(starting) < MaxRuns
       /\ confirmed => PreviewOf(Entry[1]).production
       /\ checkStart(PreviewOf(Entry[1]), reason, confirmed)
       /\ starting' = Append(starting,
             [here |-> TRUE,
              rq |-> [body |-> [body EXCEPT !.components = defaultSelection],
                      perms |-> perms, reason |-> reason, confirmed |-> confirmed,
                      shown |-> <<RestorePreviewView(PreviewOf(Entry[1]))>>]])
       /\ UNCHANGED <<wizardWorld, started, perms, page, wizard, previews, previewing,
                      worldChanges, lostStarts>>

(* The Start button; the confirmation field is shown, and sent, only when  *)
(* the preview says production.                                            *)
ClickStart ==
    \E reason, confirmed \in BOOLEAN :
       /\ InStep(3)
       /\ Entry # <<>>
       /\ ~ previewing
       /\ ~ inFlight
       /\ Len(starting) < MaxStarts /\ Len(started) + Len(starting) < MaxRuns
       /\ confirmed => PreviewOf(Entry[1]).production
       /\ checkStart(PreviewOf(Entry[1]), reason, confirmed)
       /\ starting' = Append(starting,
             [here |-> TRUE,
              rq |-> [body |-> body, perms |-> perms, reason |-> reason,
                      confirmed |-> confirmed,
                      shown |-> <<RestorePreviewView(PreviewOf(Entry[1]))>>]])
       /\ UNCHANGED <<wizardWorld, started, perms, page, wizard, previews, previewing,
                      worldChanges, lostStarts>>

Without(i) == SubSeq(starting, 1, i - 1) \o SubSeq(starting, i + 1, Len(starting))

(* The request never reaches the server, or its answer never arrives: the  *)
(* mutation fails, whatever the server did.                                *)
StartLost ==
    /\ lostStarts < MaxLostStarts
    /\ lostStarts' = lostStarts + 1
    /\ \E i \in DOMAIN starting :
          /\ started' \in {started, StartRoute(starting[i].rq, started)}
          /\ starting' = Without(i)
    /\ UNCHANGED <<wizardWorld, perms, page, wizard, previews, previewing, worldChanges>>

StartOnError ==
    \E i \in DOMAIN starting :
       LET answer == StartAnswer(starting[i].rq, wizardWorld, started)
       IN  /\ answer # "started"
           /\ starting' = Without(i)
           /\ previewing' = IF starting[i].here /\ answer = "conflict"
                            THEN TRUE ELSE previewing
           /\ UNCHANGED <<wizardWorld, started, perms, page, wizard, previews, worldChanges,
                          lostStarts>>

(* The router goes to the new run, wherever the user has gone meanwhile.   *)
StartOnSuccess ==
    \E i \in DOMAIN starting :
       /\ StartAnswer(starting[i].rq, wizardWorld, started) = "started"
       /\ started' = StartRoute(starting[i].rq, started)
       /\ page' = "detail"
       /\ LeavePage
       /\ starting' = [j \in DOMAIN Without(i) |-> [Without(i)[j] EXCEPT !.here = FALSE]]
       /\ UNCHANGED <<wizardWorld, perms, previews, worldChanges, lostStarts>>

-----------------------------------------------------------------------------

WizardInit ==
    /\ wizardWorld \in {w \in Worlds : /\ w.dr = "active" /\ w.rp = "committed"
                                       /\ w.running => w.env = "production"}
    /\ started = <<>>
    /\ perms \in {{"restore.read", "backup.read", "restore.execute"},
                  {"restore.read", "backup.read", "restore.execute", "restore.production"}}
    /\ page = "home"
    /\ wizard = EmptyWizard
    /\ previews = <<>>
    /\ previewing = FALSE
    /\ starting = <<>>
    /\ worldChanges = 0
    /\ lostStarts = 0

WizardNext ==
    \/ WorldChanges \/ RunEnds \/ OtherStarts
    \/ StartRestoreView \/ WizardLoader \/ PointRefetched
    \/ setHost \/ toggle \/ RemapEditor
    \/ PreviewImpact \/ RefreshPreview \/ PreviewRoute
    \/ PreviewCollected \/ Continue \/ Back
    \/ ClickStart \/ StartLost \/ StartOnError \/ StartOnSuccess

WizardSpec == WizardInit /\ [][WizardNext]_wizardVars

-----------------------------------------------------------------------------
(* Properties.                                                             *)

(* Types of the wizard, its queries and the requests in flight.            *)
WizardTypeOK ==
    /\ wizardWorld \in Worlds
    /\ page \in {"home", "picker", "wizard", "refused", "detail"}
    /\ wizard.step \in 1..3 /\ wizard.hostId \in RestoreHosts
    /\ wizard.selected \subseteq defaultSelection
    /\ previewing \in BOOLEAN
    /\ \A i \in DOMAIN starting : starting[i].here => page = "wizard"

(* The restore the server, in a world w with the restores rs, would start  *)
(* for a request of sent is the one its user saw.                          *)
Announced(sent, w, rs) ==
    \A i \in DOMAIN sent :
       StartAnswer(sent[i].rq, w, rs) = "started" =>
          LET rq == sent[i].rq
              p == computePreview(rq.body, w)
              shown == rq.shown[1]
          IN  /\ shown.data.target = p.target
              /\ shown.data.components = p.components
              /\ shown.containers.create = p.create
              /\ shown.containers.images = p.images
              /\ p.stop => \/ shown.containers.stop
                           \/ shown.data.production /\ rq.confirmed
              /\ ~ p.blocked
              /\ p.production => shown.data.production /\ rq.confirmed /\ rq.reason

(* A start request that the server accepts, whenever it arrives, starts    *)
(* the restore that was on the screen when Start was pressed: the same     *)
(* target host, the same components to the same paths, the same containers *)
(* and images; and the restore counts as production only if the preview    *)
(* said so, the name was typed and a reason given - although the server    *)
(* classifies the restore anew (the start route of mock-restore.mjs).  A   *)
(* running application is stopped only if the preview said so or was       *)
(* confirmed as production: one tagged production may have been started    *)
(* between the preview and the request.                                    *)
AnnouncedRestore == Announced(starting, wizardWorld, started)

(* No step leads to a request the server would take for another restore    *)
(* than the announced one; nothing is on its way at the start.             *)
StartsAsAnnounced ==
    [][Announced(starting', wizardWorld', started')]_<<wizardWorld, started, starting>>

(* No two restores of the application run at once, whatever is clicked     *)
(* twice, retried after a lost answer or started by somebody else.         *)
OneRestoreAtATime ==
    Cardinality({i \in DOMAIN started : isActiveRestore(started[i])}) <= 1

(* The wizard's checks are the server's: with a preview that is not out of *)
(* date, Start is enabled exactly when the server would accept, unless     *)
(* another operation is running.                                           *)
StartChecksAgree ==
    InStep(3) /\ Entry # <<>> /\ Entry[1].world = wizardWorld =>
       \A reason, confirmed \in BOOLEAN :
          LET p == PreviewOf(Entry[1])
              rq == [body |-> body, perms |-> perms, reason |-> reason,
                     confirmed |-> confirmed]
          IN  checkStart(p, reason, confirmed) <=> StartAnswer(rq, wizardWorld, <<>>) = "started"

(* The suggested remaps pass the validation, move every host path of any   *)
(* selection away from where it was captured, and never merge two paths.   *)
SuggestionsMoveEveryPath ==
    \A selected \in SUBSET defaultSelection :
       LET paths == remappablePaths(selected)
           rows == suggestRemaps(paths)
       IN  /\ validateRemaps(rows)
           /\ \A p \in paths : remap(p, rows) # p
           /\ \A p, q \in paths : p # q => remap(p, rows) # remap(q, rows)
=============================================================================
