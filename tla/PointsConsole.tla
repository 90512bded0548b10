---------------------------- MODULE PointsConsole ---------------------------
(***************************************************************************)
(* Recovery points in the console: their page, deletion with a grace       *)
(* period, verification, and the alerts.                                   *)
(*                                                                         *)
(* web/scripts/mock-protection.mjs (advance, the recovery point and alert  *)
(* routes), mock-policies.mjs (delete, undelete), mock-platform.mjs        *)
(* (verify); web/src/components/backups/recovery-point-detail.tsx,         *)
(* recovery-point-sections.tsx, alerts.tsx, common/deletion.tsx and        *)
(* repository-actions.tsx (VerifyButton).                                  *)
(*                                                                         *)
(* Recovery points of one application, 1 the oldest.  A date of deletion   *)
(* is none, scheduled (its grace runs) or due.                             *)
(***************************************************************************)
EXTENDS Naturals, Sequences, FiniteSets

CONSTANTS
    Points,        \* the recovery points, 1..n
    Visited,       \* the recovery points whose page is opened
    FirstStates,   \* functions from Points to recovery points, to start from
    Unreadable,    \* the recovery points whose verification fails
    MaxAlerts,     \* bound: alerts ever
    MaxAsked,      \* bound: requests of the console
    MaxOutside     \* bound: requests of others, lost answers

PointStates == {"pending", "committed", "failed", "missing", "deleting", "deleted"}

ASSUME PointsConsoleAssumption ==
    /\ Points \subseteq Nat \ {0} /\ Unreadable \subseteq Points /\ Visited \subseteq Points
    /\ FirstStates \subseteq
          [Points -> [state : PointStates, due : {"none", "scheduled", "due"},
                      verif : {"unverified", "verified", "failed"},
                      manifest : BOOLEAN, details : BOOLEAN]]
    /\ MaxAlerts \in Nat /\ MaxAsked \in Nat /\ MaxOutside \in Nat

VARIABLES
    psrv,     \* the server: [pts, alerts, jobs]
    kept,     \* history: the points whose deletion was last undone
    ptsAt,       \* the recovery point whose page is open, or 0
    onAlerts, \* the alerts are open
    det,      \* the recovery points as the console has them cached
    stale,    \* the cached ones that are invalidated
    alertsQ,  \* the alerts as the page shows them
    gdlg,     \* the delete dialog: [open, pending, error]
    asks,     \* the requests under way: [id, kind, p, here, st, was]
    asked, outside

ptsPageVars == <<ptsAt, onAlerts, det, stale, alertsQ, gdlg, asks, asked>>
ptsVars == <<psrv, kept, ptsPageVars, outside>>

-----------------------------------------------------------------------------
(* The server.                                                             *)

Kept(r) == r.state \in {"committed", "missing"}

(* POST /recovery-points/{id}/delete and .../undelete                      *)
deleteOk(r) == Kept(r) /\ r.due = "none"

\* Mutant: the state is not looked at, only the date.
undeleteOk_AnyState(r) == r.due # "none"

undeleteOk(r) == Kept(r) /\ r.due # "none"

deletePoint(r) == [r EXCEPT !.due = "scheduled"]

undeletePoint(r) == [r EXCEPT !.due = "none"]

(* advance: a point whose grace is over is deleted.                        *)
advancePoint(r) ==
    IF r.due = "due" /\ (Kept(r) \/ r.state = "deleting") THEN [r EXCEPT !.state = "deleted"] ELSE r

advancePoints(s) == [s EXCEPT !.pts = [p \in Points |-> advancePoint(@[p])]]

(* POST /repositories/{id}/verify: one point, or all the committed ones    *)
(* that have not failed before; they are collected now and checked later.  *)
verifyTargets(s, which) ==
    IF which # 0 THEN {which}
    ELSE {p \in Points : s.pts[p].state = "committed" /\ s.pts[p].verif # "failed"}

startVerify(s, which) == [s EXCEPT !.jobs = @ \cup {verifyTargets(s, which)}]

verified(r, p) == IF ~Kept(r) THEN r
                  ELSE [r EXCEPT !.verif = IF p \in Unreadable THEN "failed" ELSE "verified",
                                 !.details = @ \/ p \notin Unreadable]

(* The timer: what is no longer there is passed over; a failure raises an  *)
(* alert.                                                                  *)
VerifyEnds(job) ==
    LET failed == {p \in job \cap Unreadable : Kept(psrv.pts[p])}
        ps     == [i \in 1..Cardinality(failed) |->
                      CHOOSE p \in failed : Cardinality({q \in failed : q <= p}) = i]
    IN  /\ Len(psrv.alerts) + Cardinality(failed) <= MaxAlerts
        /\ psrv' = [psrv EXCEPT
               !.pts = [p \in Points |-> IF p \in job THEN verified(@[p], p) ELSE @[p]],
               !.alerts = @ \o [i \in DOMAIN ps |-> [id |-> Len(psrv.alerts) + i, of |-> ps[i], acked |-> FALSE]],
               !.jobs = @ \ {job}]
        /\ UNCHANGED <<kept, ptsPageVars, outside>>

(* Seven days go by; a tick or a read then deletes.                        *)
PointGraceEnds(p) ==
    /\ psrv.pts[p].due = "scheduled" /\ Kept(psrv.pts[p])
    /\ psrv' = [psrv EXCEPT !.pts[p].due = "due"]
    /\ UNCHANGED <<kept, ptsPageVars, outside>>

PointsTick ==
    /\ psrv # advancePoints(psrv)
    /\ psrv' = advancePoints(psrv)
    /\ UNCHANGED <<kept, ptsPageVars, outside>>

(* GET /recovery-points/{id}: with the manifest, and the details of a      *)
(* verification.                                                           *)
readPoint(s, p) ==
    LET r == s.pts[p]
    IN  [state |-> r.state, due |-> r.due, verif |-> r.verif, manifest |-> r.manifest,
         details |-> r.details /\ r.verif # "unverified", known |-> TRUE]

Unknown == [state |-> "none", due |-> "none", verif |-> "none", manifest |-> FALSE,
            details |-> FALSE, known |-> FALSE]

-----------------------------------------------------------------------------
(* The page of a recovery point.                                           *)

canScheduleDeletion(d) == d.state \in {"committed", "missing"} /\ d.due = "none"

(* RecoveryPointDeletionState: the banner with its Undelete button.        *)
canUndelete(d) == d.state \notin {"deleted", "deleting"} /\ d.due # "none"

canVerify(d) == d.state = "committed"

pointRestorable(d) == d.state = "committed"

NoPointDialog == [open |-> FALSE, pending |-> FALSE, error |-> FALSE]

(* The page with the cached points d: the delete dialog is there only for  *)
(* a point that can be deleted, the banner only for a scheduled one; what  *)
(* they have sent goes on without them.                                    *)
PointRendered(d, as) ==
    /\ gdlg' = IF ptsAt # 0 /\ canScheduleDeletion(d[ptsAt]) THEN gdlg ELSE NoPointDialog
    /\ asks' = {[a EXCEPT !.here = /\ @ /\ ptsAt # 0
                                   /\ IF a.kind = "delete" THEN canScheduleDeletion(d[ptsAt])
                                      ELSE canUndelete(d[ptsAt])] : a \in as}

Reads(p) ==
    /\ psrv' = advancePoints(psrv)
    /\ det' = [det EXCEPT ![p] = readPoint(psrv', p)]
    /\ stale' = stale \ {p}

(* A page is opened: a point that is not cached is read.                   *)
OpenPoint(p) ==
    /\ ptsAt = 0 /\ ~onAlerts
    /\ ptsAt' = p
    /\ IF det[p].known THEN UNCHANGED <<psrv, det, stale>> ELSE Reads(p)
    /\ UNCHANGED <<kept, onAlerts, alertsQ, gdlg, asks, asked, outside>>

(* Leaving unmounts the dialog; its request goes on.  What nobody shows is *)
(* dropped from the cache after a while.                                   *)
LeavePoint ==
    /\ ptsAt # 0 \/ onAlerts
    /\ ptsAt' = 0 /\ onAlerts' = FALSE
    /\ alertsQ' = <<>>
    /\ gdlg' = NoPointDialog
    /\ asks' = {[a EXCEPT !.here = FALSE] : a \in asks}
    /\ det' \in {det, [p \in Points |-> Unknown]}
    /\ stale' = IF det' = det THEN stale ELSE {}
    /\ UNCHANGED <<psrv, kept, asked, outside>>

(* A refetch: after an invalidation, on an event, on a focus.              *)
RefetchPoints ==
    /\ ptsAt # 0
    /\ ptsAt \in stale \/ det[ptsAt] # readPoint(psrv, ptsAt)
    /\ Reads(ptsAt)
    /\ PointRendered(det', asks)
    /\ UNCHANGED <<kept, ptsAt, onAlerts, alertsQ, asked, outside>>

OpenDelete ==
    /\ ptsAt # 0 /\ canScheduleDeletion(det[ptsAt]) /\ ~gdlg.open
    /\ gdlg' = [gdlg EXCEPT !.open = TRUE, !.error = FALSE]
    /\ UNCHANGED <<psrv, kept, ptsAt, onAlerts, det, stale, alertsQ, asks, asked, outside>>

CloseDelete ==
    /\ gdlg.open
    /\ gdlg' = [gdlg EXCEPT !.open = FALSE, !.error = FALSE]
    /\ UNCHANGED <<psrv, kept, ptsAt, onAlerts, det, stale, alertsQ, asks, asked, outside>>

Ask(kind) ==
    /\ asked < MaxAsked /\ asked' = asked + 1
    /\ asks' = asks \cup {[id |-> asked, kind |-> kind, p |-> ptsAt, here |-> TRUE, st |-> "sent",
                           was |-> Unknown]}
    /\ UNCHANGED <<psrv, kept, ptsAt, onAlerts, det, stale, alertsQ, outside>>

(* The button is enabled once the name and a reason are typed.             *)
SubmitDelete ==
    /\ gdlg.open /\ ~gdlg.pending /\ canScheduleDeletion(det[ptsAt])
    /\ gdlg' = [gdlg EXCEPT !.pending = TRUE, !.error = FALSE]
    /\ Ask("delete")

Undeleting == \E a \in asks : a.kind = "undelete" /\ a.here

ClickUndelete ==
    /\ ptsAt # 0 /\ canUndelete(det[ptsAt]) /\ ~gdlg.open /\ ~Undeleting
    /\ Ask("undelete")
    /\ UNCHANGED gdlg

(* The server handles a request; the answer has no manifest and no details *)
HandleAsk(a) ==
    LET r  == psrv.pts[a.p]
        ok == IF a.kind = "delete" THEN deleteOk(r) ELSE undeleteOk(r)
        r2 == IF a.kind = "delete" THEN deletePoint(r) ELSE undeletePoint(r)
    IN  /\ a.st = "sent"
        /\ psrv' = IF ok THEN [psrv EXCEPT !.pts[a.p] = r2] ELSE psrv
        /\ kept' = IF ~ok THEN kept
                   ELSE IF a.kind = "delete" THEN kept \ {a.p} ELSE kept \cup {a.p}
        /\ asks' = (asks \ {a}) \cup
               {[a EXCEPT !.st = IF ok THEN "ok" ELSE "refused",
                          !.was = [readPoint(psrv', a.p) EXCEPT !.manifest = FALSE,
                                                                !.details = FALSE]]}
        /\ UNCHANGED <<ptsAt, onAlerts, det, stale, alertsQ, gdlg, asked, outside>>

(* refresh: the cached manifest and details are kept, and the points are   *)
(* read again.                                                             *)
merged(old, updated) ==
    IF old.known THEN [updated EXCEPT !.manifest = old.manifest, !.details = old.details]
    ELSE updated

AskOnSuccess(a) ==
    /\ a.st = "ok"
    /\ det' = [det EXCEPT ![a.p] = merged(@, a.was)]
    /\ stale' = stale \cup {p \in Points : det'[p].known}
    /\ PointRendered(det', (asks \ {a}) \cup {[a EXCEPT !.st = "refreshing", !.was = Unknown]})
    /\ UNCHANGED <<psrv, kept, ptsAt, onAlerts, alertsQ, asked, outside>>

(* The read is back, or the point is not shown: the dialog closes.         *)
AskDone(a) ==
    /\ a.st = "refreshing" /\ (a.p \notin stale \/ ptsAt # a.p)
    /\ asks' = asks \ {a}
    /\ gdlg' = IF a.here /\ a.kind = "delete" THEN NoPointDialog ELSE gdlg
    /\ UNCHANGED <<psrv, kept, ptsAt, onAlerts, det, stale, alertsQ, asked, outside>>

(* Refused, or the answer is lost.                                         *)
AskOnError(a) ==
    /\ \/ a.st = "refused" /\ outside' = outside
       \/ a.st \in {"sent", "ok"} /\ outside < MaxOutside /\ outside' = outside + 1
    /\ asks' = asks \ {a}
    /\ gdlg' = IF a.here /\ a.kind = "delete"
               THEN [gdlg EXCEPT !.pending = FALSE, !.error = gdlg.open] ELSE gdlg
    /\ UNCHANGED <<psrv, kept, ptsAt, onAlerts, det, stale, alertsQ, asked>>

(* VerifyButton: of the point that is shown.                               *)
ClickVerify ==
    /\ ptsAt # 0 /\ canVerify(det[ptsAt]) /\ ~gdlg.open
    /\ asked < MaxAsked /\ asked' = asked + 1
    /\ psrv' = startVerify(psrv, ptsAt)
    /\ UNCHANGED <<kept, ptsAt, onAlerts, det, stale, alertsQ, gdlg, asks, outside>>

-----------------------------------------------------------------------------
(* The alerts: the open ones, polled.                                      *)

openAlerts(s) == SelectSeq(s.alerts, LAMBDA a : ~a.acked)

AlertsPanel ==
    /\ ptsAt = 0 /\ ~onAlerts
    /\ onAlerts' = TRUE
    /\ alertsQ' = openAlerts(psrv)
    /\ UNCHANGED <<psrv, kept, ptsAt, det, stale, gdlg, asks, asked, outside>>

PollAlerts ==
    /\ onAlerts /\ alertsQ # openAlerts(psrv)
    /\ alertsQ' = openAlerts(psrv)
    /\ UNCHANGED <<psrv, kept, ptsAt, onAlerts, det, stale, gdlg, asks, asked, outside>>

(* An alert is acknowledged; one that was already stays so.                *)
acknowledge(s, i) == [s EXCEPT !.alerts[i].acked = TRUE]

AcknowledgeButton(i) ==
    /\ onAlerts
    /\ \E k \in DOMAIN alertsQ : alertsQ[k].id = i
    /\ psrv' = acknowledge(psrv, i)
    /\ alertsQ' = openAlerts(psrv')
    /\ UNCHANGED <<kept, ptsAt, onAlerts, det, stale, gdlg, asks, asked, outside>>

-----------------------------------------------------------------------------
(* The others: they delete, undelete, verify the whole Repository,         *)
(* acknowledge.                                                            *)

OtherAsks(p) ==
    LET r == psrv.pts[p]
    IN  /\ outside < MaxOutside /\ outside' = outside + 1
        /\ \/ /\ deleteOk(r)
              /\ psrv' = [psrv EXCEPT !.pts[p] = deletePoint(r)]
              /\ kept' = kept \ {p}
           \/ /\ undeleteOk(r)
              /\ psrv' = [psrv EXCEPT !.pts[p] = undeletePoint(r)]
              /\ kept' = kept \cup {p}
           \/ /\ psrv' = startVerify(psrv, 0)
              /\ kept' = kept
           \/ /\ \E i \in DOMAIN psrv.alerts : psrv' = acknowledge(psrv, i)
              /\ kept' = kept
        /\ UNCHANGED ptsPageVars

-----------------------------------------------------------------------------
PtsInit ==
    /\ psrv \in [pts : FirstStates, alerts : {<<>>}, jobs : {{}}]
    /\ kept = {}
    /\ ptsAt = 0 /\ onAlerts = FALSE
    /\ det = [p \in Points |-> Unknown]
    /\ stale = {}
    /\ alertsQ = <<>>
    /\ gdlg = NoPointDialog
    /\ asks = {}
    /\ asked = 0
    /\ outside = 0

AskSteps == \E a \in asks : HandleAsk(a) \/ AskOnSuccess(a) \/ AskDone(a) \/ AskOnError(a)

Jobs == \E j \in psrv.jobs : VerifyEnds(j)

PtsNext ==
    \/ \E p \in Points : PointGraceEnds(p) \/ OtherAsks(p)
    \/ \E p \in Visited : OpenPoint(p)
    \/ Jobs \/ PointsTick
    \/ LeavePoint \/ RefetchPoints \/ OpenDelete \/ CloseDelete \/ SubmitDelete \/ ClickUndelete
    \/ AskSteps \/ ClickVerify
    \/ AlertsPanel \/ PollAlerts \/ \E i \in DOMAIN psrv.alerts : AcknowledgeButton(i)

(* Requests are answered, an invalidated query that is shown is read       *)
(* again, the alerts are polled.                                           *)
PtsFairness ==
    /\ WF_ptsVars(AskSteps)
    /\ WF_ptsVars(ptsAt \in stale /\ RefetchPoints)
    /\ WF_ptsVars(PollAlerts)

PtsSpec == PtsInit /\ [][PtsNext]_ptsVars /\ PtsFairness

-----------------------------------------------------------------------------
(* The shapes of the recovery points, the cache and the requests; the      *)
(* delete dialog is there only over a point that can be deleted, and waits *)
(* only for a request of its own.                                          *)
PtsTypeOK ==
    /\ \A p \in Points : /\ psrv.pts[p].state \in PointStates
                         /\ psrv.pts[p].due \in {"none", "scheduled", "due"}
                         /\ psrv.pts[p].verif \in {"unverified", "verified", "failed"}
    /\ ptsAt \in {0} \cup Points /\ Len(psrv.alerts) <= MaxAlerts
    /\ gdlg.open \/ gdlg.pending => ptsAt # 0 /\ canScheduleDeletion(det[ptsAt])
    /\ gdlg.pending => \E a \in asks : a.here /\ a.kind = "delete"

(* A deleted recovery point stays as it was: no late undelete, no timer of *)
(* a verification that was started before touches it.                      *)
DeletedStaysDeleted ==
    [][\A p \in Points : psrv.pts[p].state = "deleted" => psrv'.pts[p] = psrv.pts[p]]_ptsVars

(* "Deletion cancelled. The recovery point is kept.": whatever the grace   *)
(* period, its timer and the ticks did before, a point whose deletion was  *)
(* undone last is not deleted.                                             *)
UndeletedIsKept ==
    \A p \in kept : psrv.pts[p].due = "none" /\ Kept(psrv.pts[p])

(* An answer without a manifest and details never replaces cached ones     *)
(* that have them (refresh).                                               *)
ManifestStaysShown ==
    [][\A p \in Points : det[p].manifest /\ det'[p].known => det'[p].manifest]_ptsVars

(* On data that is up to date, the page offers exactly what the server     *)
(* would do.                                                               *)
ButtonsAgree ==
    ptsAt # 0 /\ det[ptsAt] = readPoint(psrv, ptsAt) =>
        LET r == psrv.pts[ptsAt]
        IN  /\ canScheduleDeletion(det[ptsAt]) <=> deleteOk(r)
            /\ canUndelete(det[ptsAt]) <=> undeleteOk(r)
            /\ canVerify(det[ptsAt]) => Kept(r)
            /\ pointRestorable(det[ptsAt]) <=> r.state = "committed"

(* A verification that failed has raised an alert for its recovery point.  *)
FailureIsAlerted ==
    \A p \in Points : psrv.pts[p].verif = "failed" =>
        \E i \in DOMAIN psrv.alerts : psrv.alerts[i].of = p

(* The open alerts are shown in the end while the list is open: nobody     *)
(* reloads it, whoever raised or acknowledged them.                        *)
AlertsSettle == []<>(~onAlerts \/ alertsQ = openAlerts(psrv))
=============================================================================
