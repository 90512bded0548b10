---------------------------- MODULE RestoreRuns -----------------------------
(***************************************************************************)
(* Restores that run, and the pages that show and cancel them.             *)
(*                                                                         *)
(* web/scripts/mock-restore.mjs: the run through its steps, the read and   *)
(* the cancel routes; web/src/components/restores: the list, the detail    *)
(* page with its step indicator and the cancel dialog.                     *)
(***************************************************************************)
EXTENDS RestorePlan

CONSTANTS
    MaxHistory,     \* bound: restores in the history, the seeded one included
    MaxLostCancels  \* bound: cancel requests whose answer is lost

ASSUME RunsAssumption == MaxHistory \in Nat \ {0} /\ MaxLostCancels \in Nat

VARIABLES
    runs,       \* the restores, oldest first; `reached`: the last step one came to
    mayExecute, \* the user holds restore.execute
    runView,       \* "list" or "detail"
    shownRun,   \* the run the detail page is about
    data,       \* what the page's query holds: run -> [state, step, result]
    dataReq,    \* the page's query is being asked
    cancelDialog,     \* the cancel dialog: "closed", "open", "pending" or its error
    cancelling, \* the cancel request in flight: its run, or 0, and whether
                \* the button that sent it is still on the page
    lostCancels

runPageVars == <<mayExecute, runView, shownRun, data, dataReq, cancelDialog, cancelling, lostCancels>>
runsVars == <<runs, runPageVars>>

-----------------------------------------------------------------------------
(* The runs: advanceRuns and the routes of mock-restore.mjs.               *)

RunSteps(r) == stepsFor(r.preview)

Touched(step) == step \notin {Nil, "grant-access", "agent-access"}

(* A run that is not cancelled: where it was, at its next step or its end.  *)
Onward(r) ==
    LET steps == RunSteps(r)
        at == IndexIn(r.step, steps)
    IN  {r} \cup
        (IF at < Len(steps)
         THEN {[r EXCEPT !.state = "running", !.step = steps[at + 1],
                      !.reached = steps[at + 1]]}
         ELSE {[r EXCEPT !.state = "succeeded", !.step = Nil, !.result = "ok"]})

\* Mutant: a cancelled run goes on.
RunLater_NotCancelled(r) == IF isActiveRestore(r.state) THEN Onward(r) ELSE {r}

\* Mutant: a cancelled run stops and is never ended.
RunLater_NeverEnds(r) ==
    IF isActiveRestore(r.state) /\ ~ r.cancelled THEN Onward(r) ELSE {r}

(* Where one run may be after some time: a cancelled run ends, undone when *)
(* it had gone past granting access.                                       *)
RunLater(r) ==
    IF ~ isActiveRestore(r.state) THEN {r}
    ELSE IF r.cancelled
    THEN {[r EXCEPT !.state = IF Touched(r.step) THEN "rolled_back" ELSE "failed",
                    !.result = IF Touched(r.step) THEN "rolled_back" ELSE Nil,
                    !.step = Nil]}
    ELSE Onward(r)

(* What advanceRuns may make of the runs, called at some moment (it goes   *)
(* over all of them; the start route lets one at most be active).          *)
Advances(rs) ==
    LET active == {j \in DOMAIN rs : isActiveRestore(rs[j].state)}
    IN  IF active = {} THEN {rs}
        ELSE UNION {{[rs EXCEPT ![i] = l] : l \in RunLater(rs[i])} : i \in active}

advanceRuns ==
    /\ \E later \in Advances(runs) :
          /\ later # runs
          /\ runs' = later
    /\ UNCHANGED runPageVars

NewRun(preview) ==
    [target |-> preview.target, preview |-> preview, state |-> "requested", step |-> Nil,
     cancelled |-> FALSE, result |-> Nil, reached |-> Nil]

(* A restore is started, here or by somebody else (see RestoreWizard).     *)
RestoreStarts ==
    /\ Len(runs) < MaxHistory
    /\ \E later \in Advances(runs) :
          /\ \A i \in DOMAIN later : ~ isActiveRestore(later[i].state)
          /\ \E h \in {"src", "dr"}, comps \in {defaultSelection, {"config"}}, up \in BOOLEAN :
                runs' = Append(later, NewRun(computePreview(
                   [host |-> h, components |-> comps, remaps |-> {}],
                   [env |-> "test", running |-> up, dr |-> "active", rp |-> "committed"])))
    /\ UNCHANGED runPageVars

-----------------------------------------------------------------------------
(* The list and the detail page: restores-view.tsx, restore-detail.tsx,    *)
(* cancel-restore.tsx.                                                     *)

Snapshot(r) == [state |-> r.state, step |-> r.step, result |-> r.result]

Listed == IF runView = "list" THEN DOMAIN runs ELSE {shownRun}

NoCancel == [run |-> 0, here |-> FALSE]

LeaveView(run) ==
    /\ shownRun' = run
    /\ data' = <<>>
    /\ dataReq' = TRUE
    /\ cancelDialog' = "closed"
    /\ cancelling' = [cancelling EXCEPT !.here = FALSE]
    /\ UNCHANGED <<runs, mayExecute, lostCancels>>

RestoresView ==
    /\ runView' = "list"
    /\ LeaveView(0)

RestoreDetail ==
    /\ runView = "list"
    /\ runView' = "detail"
    /\ \E i \in DOMAIN data : LeaveView(i)

(* The query of the page is asked: first on the page's own, then every few *)
(* seconds: the list always, the detail while it shows an active run.      *)
Polls == CASE runView = "list" -> TRUE
           [] runView = "detail" -> \E i \in DOMAIN data : isActiveRestore(data[i].state)
           [] OTHER -> FALSE

RefetchRun ==
    /\ ~ dataReq
    /\ Polls
    /\ dataReq' = TRUE
    /\ UNCHANGED <<runs, mayExecute, runView, shownRun, data, cancelDialog, cancelling,
                   lostCancels>>

(* What DetailBody shows of the run it has read.                           *)
DetailBody(d) ==
    [steps  |-> restoreSteps(runs[shownRun], d),
     cancel |-> isActiveRestore(d.state) /\ mayExecute,
     alert  |-> IF isActiveRestore(d.state) THEN Nil ELSE d.state]

OnDetail == runView = "detail" /\ shownRun \in DOMAIN data

(* A read of the page's query and its answer.  The cancel button, and the  *)
(* dialog with it, is there only while the page shows an active run.       *)
ReadRoute ==
    \E later \in Advances(runs) :
       /\ dataReq
       /\ runs' = later
       /\ data' = [i \in Listed |-> Snapshot(later[i])]
       /\ dataReq' = FALSE
       /\ LET stays == runView = "detail" /\ DetailBody(data'[shownRun]).cancel
          IN  /\ cancelDialog' = IF stays THEN cancelDialog ELSE "closed"
              /\ cancelling' = [cancelling EXCEPT !.here = @ /\ stays]
       /\ UNCHANGED <<mayExecute, runView, shownRun, lostCancels>>

(* The button opens the dialog, which closes also while it waits; opening  *)
(* it again forgets the request that is still on its way.                  *)
CancelRestoreButton ==
    /\ OnDetail
    /\ DetailBody(data[shownRun]).cancel
    /\ cancelDialog' = IF cancelDialog = "closed" THEN "open" ELSE "closed"
    /\ UNCHANGED <<runs, mayExecute, runView, shownRun, data, dataReq, cancelling, lostCancels>>

ConfirmCancel ==
    /\ cancelDialog \in {"open", "finished", "failed"}
    /\ cancelling = NoCancel
    /\ cancelDialog' = "pending"
    /\ cancelling' = [run |-> shownRun, here |-> TRUE]
    /\ UNCHANGED <<runs, mayExecute, runView, shownRun, data, dataReq, lostCancels>>

cancellable(r) == isActiveRestore(r.state)

(* POST .../cancel: 409 unless the run is active.  An accepted cancel      *)
(* closes the dialog of the button it was asked from and invalidates the   *)
(* run's query; a refusal is shown where the dialog still waits for it.    *)
(* The answer may be lost.                                                 *)
CancelRoute ==
    \E later \in Advances(runs), answered \in BOOLEAN :
       LET run == cancelling.run
           accepted == cancellable(later[run])
       IN  /\ run # 0
           /\ cancelling' = NoCancel
           /\ runs' = IF accepted THEN [later EXCEPT ![run].cancelled = TRUE] ELSE later
           /\ lostCancels' = IF answered THEN lostCancels ELSE lostCancels + 1
           /\ lostCancels' <= MaxLostCancels
           /\ cancelDialog' = IF ~ cancelling.here THEN cancelDialog
                              ELSE IF answered /\ accepted THEN "closed"
                              ELSE IF cancelDialog # "pending" THEN cancelDialog
                              ELSE IF answered THEN "finished" ELSE "failed"
           /\ dataReq' = IF answered /\ accepted /\ run \in DOMAIN data
                         THEN TRUE ELSE dataReq
           /\ UNCHANGED <<mayExecute, runView, shownRun, data>>

-----------------------------------------------------------------------------

(* seed: the finished restores of the history.                             *)
Seeded(host, state, step, result) ==
    LET b == [host |-> host, components |-> defaultSelection, remaps |-> {}]
        w == [env |-> "production", running |-> TRUE, dr |-> "active", rp |-> "committed"]
    IN  [target |-> host, preview |-> computePreview(b, w), state |-> state, step |-> step,
         cancelled |-> FALSE, result |-> result, reached |-> step]

seed == {<<Seeded("dr", "failed", "images", "failed")>>,
         <<Seeded("src", "rolled_back", "health-check", "rolled_back")>>,
         <<Seeded("dr", "succeeded", Nil, "ok")>>}

RunsInit ==
    /\ runs \in seed
    /\ mayExecute \in BOOLEAN
    /\ runView = "list"
    /\ shownRun = 0
    /\ data = <<>>
    /\ dataReq = TRUE
    /\ cancelDialog = "closed"
    /\ cancelling = NoCancel
    /\ lostCancels = 0

RunsNext ==
    \/ advanceRuns \/ RestoreStarts
    \/ RestoresView \/ RestoreDetail \/ RefetchRun \/ ReadRoute
    \/ CancelRestoreButton \/ ConfirmCancel \/ CancelRoute

(* The server's timer, the page's poll timer and the network go on         *)
(* whatever the user does.                                                 *)
RunsFairness ==
    /\ WF_runsVars(advanceRuns)
    /\ WF_runsVars(RefetchRun) /\ WF_runsVars(ReadRoute)

RunsSpec == RunsInit /\ [][RunsNext]_runsVars /\ RunsFairness

-----------------------------------------------------------------------------
(* Properties.                                                             *)

(* Types of the runs, the page and its requests.                           *)
RunsTypeOK ==
    /\ runView \in {"list", "detail"}
    /\ dataReq \in BOOLEAN
    /\ cancelDialog \in {"closed", "open", "pending", "finished", "failed"}
    /\ shownRun \in 0..MaxHistory /\ cancelling.run \in 0..MaxHistory
    /\ \A i \in DOMAIN runs :
          runs[i].state \in {"requested", "running", "succeeded", "failed", "rolled_back"}

(* Once the cancellation of a run is accepted (202) the run ends as        *)
(* "rolled_back" exactly when it had gone past granting access, and never  *)
(* as succeeded.                                                           *)
CancelledIsUndone ==
    \A i \in DOMAIN runs : runs[i].cancelled /\ ~ isActiveRestore(runs[i].state) =>
       runs[i].state = IF Touched(runs[i].reached) THEN "rolled_back" ELSE "failed"

(* The dialog's "it finished in the meantime" is true.                     *)
RefusalIsTrue ==
    cancelDialog = "finished" => ~ isActiveRestore(runs[shownRun].state)

(* The step indicator of the detail page lists the steps the server runs   *)
(* for this restore, and marks as done only steps the run has completed,   *)
(* however old the data on the page is.                                    *)
StepsShownAreTheRuns ==
    OnDetail =>
       LET r == runs[shownRun]
           steps == DetailBody(data[shownRun]).steps
       IN  /\ [i \in DOMAIN steps |-> steps[i].step] = RunSteps(r)
           /\ \A i \in DOMAIN steps : steps[i].status = "done" =>
                 i < IndexIn(r.reached, RunSteps(r)) \/ r.state = "succeeded"

(* Every restore ends.                                                     *)
EveryRestoreEnds == []<>(\A i \in DOMAIN runs : ~ isActiveRestore(runs[i].state))

(* A detail page that shows a running restore comes to show how it ended,  *)
(* unless it is left.                                                      *)
PageShowsTheEnd ==
    []<>(OnDetail => /\ data[shownRun] = Snapshot(runs[shownRun])
                     /\ ~ isActiveRestore(data[shownRun].state))

=============================================================================
