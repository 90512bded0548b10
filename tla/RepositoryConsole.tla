------------------------- MODULE RepositoryConsole --------------------------
(***************************************************************************)
(* Repositories and their key escrow, as the console manages them.         *)
(*                                                                         *)
(* web/scripts/mock-protection.mjs, mock-policies.mjs, mock-platform.mjs:  *)
(* the routes; web/src/components/repositories and platform: the table,    *)
(* the detail page, the escrow dialogs, drills and the self-backup.        *)
(*                                                                         *)
(* A Repository password leaves the server only inside an escrow package   *)
(* sealed to the recipients.  A package is a number; its confirmation code *)
(* can be read only out of a package that has been downloaded.             *)
(***************************************************************************)
EXTENDS Naturals, Sequences, FiniteSets

CONSTANTS
    Repos,          \* the Repository names
    Keys,           \* the public keys of the escrow recipients
    FirstRecipients,\* the recipients at the start
    InitialRepos,   \* the sets of Repositories to start from
    MaxPackages,    \* bound: packages ever sealed, drills included
    MaxRequests,    \* bound: requests of the console
    MaxOthers       \* bound: requests of other managers

RepoStatus == {"absent", "awaiting_escrow", "ready", "unavailable", "pending_deletion", "retired"}

RepoRows == [status : RepoStatus, isDefault : BOOLEAN, isSystem : BOOLEAN, code : Nat,
             sealed : SUBSET Keys, confirmed : {"no", "fresh", "old"}, due : BOOLEAN]

\* At most one default Repository, in use or about to be, and one System Repository.
SingleRoles(rs) ==
    /\ \A q, r \in Repos : rs[q].isDefault /\ rs[r].isDefault => q = r
    /\ \A q, r \in Repos : rs[q].isSystem /\ rs[r].isSystem => q = r
    /\ \A r \in Repos : rs[r].isDefault =>
          rs[r].status \notin {"absent", "pending_deletion", "retired"}

ASSUME RepositoryAssumption ==
    /\ IsFiniteSet(Repos) /\ Repos # {} /\ IsFiniteSet(Keys)
    /\ FirstRecipients \subseteq Keys
    /\ \A rs \in InitialRepos : rs \in [Repos -> RepoRows] /\ SingleRoles(rs)
    /\ MaxPackages \in Nat /\ MaxRequests \in Nat /\ MaxOthers \in Nat

VARIABLES
    srv,      \* the server's state
    files,    \* the packages that have been downloaded
    cached,   \* the answers the console shows
    dlg,      \* the escrow dialog that is open, if one is
    inflight, \* the console's requests: [id, from, rq, answered, ok, pkg]
    sent, others

userVars == <<files, cached, dlg, inflight, sent>>
repoVars == <<srv, userVars, others>>

-----------------------------------------------------------------------------
(* The server.                                                             *)

MIN_RECIPIENTS == 2

Exists(s) == {r \in Repos : s.repos[r].status # "absent"}

Absent == [status |-> "absent", isDefault |-> FALSE, isSystem |-> FALSE, code |-> 0,
           sealed |-> {}, confirmed |-> "no", due |-> FALSE]

Refused(s) == [ok |-> FALSE, srv |-> s, pkg |-> 0]

Done(s) == [ok |-> TRUE, srv |-> s, pkg |-> 0]

(* POST /repositories                                                      *)
createRepository(s, rq) ==
    IF Cardinality(s.recipients) < MIN_RECIPIENTS \/ rq.repo \in Exists(s) THEN Refused(s)
    ELSE LET others0 == [r \in Repos |-> IF rq.default
                                         THEN [s.repos[r] EXCEPT !.isDefault = FALSE]
                                         ELSE s.repos[r]]
             new == [Absent EXCEPT !.status = "awaiting_escrow",
                                   !.isDefault = rq.default \/ Exists(s) = {},
                                   !.code = s.packages + 1, !.sealed = s.recipients]
         IN  [ok |-> TRUE, pkg |-> s.packages + 1,
              srv |-> [s EXCEPT !.repos = [others0 EXCEPT ![rq.repo] = new],
                                !.packages = @ + 1]]

(* GET /repositories/{id}/escrow-package                                   *)
escrowPackage(s, rq) ==
    IF rq.repo \notin Exists(s) THEN Refused(s)
    ELSE [ok |-> TRUE, srv |-> s, pkg |-> s.repos[rq.repo].code]

(* POST /repositories/{id}/escrow/confirm                                  *)
confirmEscrow(s, rq) ==
    IF rq.repo \notin Exists(s) \/ rq.code # s.repos[rq.repo].code THEN Refused(s)
    ELSE Done([s EXCEPT !.repos[rq.repo].status =
                            IF @ = "awaiting_escrow" THEN "ready" ELSE @,
                        !.repos[rq.repo].confirmed = "fresh"])

(* POST /repositories/{id}/escrow/regenerate                               *)
regenerateEscrow(s, rq) ==
    IF \/ rq.repo \notin Exists(s)
       \/ Cardinality(s.recipients) < MIN_RECIPIENTS
       \/ s.repos[rq.repo].status \in {"unavailable", "retired"}
    THEN Refused(s)
    ELSE [ok |-> TRUE, pkg |-> s.packages + 1,
          srv |-> [s EXCEPT !.packages = @ + 1,
                            !.repos[rq.repo].code = s.packages + 1,
                            !.repos[rq.repo].sealed = s.recipients,
                            !.repos[rq.repo].confirmed = "no"]]

(* POST /repositories/{id}/delete, /undelete                               *)
deleteRepository(s, rq) ==
    IF s.repos[rq.repo].status \notin {"ready", "awaiting_escrow", "unavailable"} THEN Refused(s)
    ELSE Done([s EXCEPT !.repos[rq.repo].status = "pending_deletion",
                        !.repos[rq.repo].isDefault = FALSE,
                        !.repos[rq.repo].due = FALSE])

\* Mutant: an undeleted Repository is ready whatever its escrow.
undeleteRepository_Ready(s, rq) ==
    IF s.repos[rq.repo].status # "pending_deletion" THEN Refused(s)
    ELSE Done([s EXCEPT !.repos[rq.repo].status = "ready", !.repos[rq.repo].due = FALSE])

undeleteRepository(s, rq) ==
    IF s.repos[rq.repo].status # "pending_deletion" THEN Refused(s)
    ELSE Done([s EXCEPT !.repos[rq.repo].status =
                            IF s.repos[rq.repo].confirmed # "no" THEN "ready" ELSE "awaiting_escrow",
                        !.repos[rq.repo].due = FALSE])

(* PUT /repositories/{id}/system                                           *)
designateSystem(s, rq) ==
    IF s.repos[rq.repo].status \in {"absent", "retired", "pending_deletion"} THEN Refused(s)
    ELSE Done([s EXCEPT !.repos = [r \in Repos |-> [@[r] EXCEPT !.isSystem = (r = rq.repo)]]])

(* POST /repositories/{id}/reindex: only the time of it is kept.           *)
reindexRepository(s, rq) ==
    IF s.repos[rq.repo].status \in {"absent", "unavailable"} THEN Refused(s) ELSE Done(s)

(* POST and DELETE /escrow/recipients                                      *)
addRecipient(s, rq) ==
    IF rq.key \in s.recipients THEN Refused(s)
    ELSE Done([s EXCEPT !.recipients = @ \cup {rq.key}])

removeRecipient(s, rq) ==
    IF rq.key \notin s.recipients THEN Refused(s)
    ELSE Done([s EXCEPT !.recipients = @ \ {rq.key}])

(* POST /escrow/drills and /escrow/drills/{id}/complete: a drill is known  *)
(* by its package.                                                         *)
startDrill(s, rq) ==
    IF s.recipients = {} THEN Refused(s)
    ELSE [ok |-> TRUE, pkg |-> s.packages + 1,
          srv |-> [s EXCEPT !.packages = @ + 1, !.drills = @ \cup {s.packages + 1}]]

completeDrill(s, rq) ==
    IF rq.drill \notin s.drills \/ rq.code # rq.drill THEN Refused(s)
    ELSE Done([s EXCEPT !.drills = @ \ {rq.drill}, !.lastDrill = "recent"])

(* POST /platform/backups; finishPlatform, when the timer fires.           *)
startPlatformBackup(s, rq) ==
    IF s.platform = "running" THEN Refused(s)
    ELSE Done([s EXCEPT !.platform = "running"])

finishPlatform(s) ==
    [s EXCEPT !.platform =
        IF \E r \in Repos : s.repos[r].isSystem /\ s.repos[r].status # "retired"
        THEN "succeeded" ELSE "partial"]

HandleRequest(s, rq) ==
    CASE rq.op = "create"     -> createRepository(s, rq)
      [] rq.op = "package"    -> escrowPackage(s, rq)
      [] rq.op = "confirm"    -> confirmEscrow(s, rq)
      [] rq.op = "regenerate" -> regenerateEscrow(s, rq)
      [] rq.op = "delete"     -> deleteRepository(s, rq)
      [] rq.op = "undelete"   -> undeleteRepository(s, rq)
      [] rq.op = "system"     -> designateSystem(s, rq)
      [] rq.op = "add"        -> addRecipient(s, rq)
      [] rq.op = "remove"     -> removeRecipient(s, rq)
      [] rq.op = "drill"      -> startDrill(s, rq)
      [] rq.op = "complete"   -> completeDrill(s, rq)
      [] rq.op = "platform"   -> startPlatformBackup(s, rq)
      [] rq.op = "reindex"    -> reindexRepository(s, rq)

AnyRepo == CHOOSE r \in Repos : TRUE

Rq(op, r, c) ==
    [op |-> op, repo |-> r, code |-> c, default |-> FALSE, drill |-> 0, key |-> ""]

(* The requests somebody who holds these packages can make.                *)
Requests(held, drills) ==
    {[Rq("create", r, 0) EXCEPT !.default = d] : r \in Repos, d \in BOOLEAN}
      \cup {Rq(op, r, 0) :
                op \in {"package", "regenerate", "delete", "undelete", "system"}, r \in Repos}
      \cup {Rq("confirm", r, c) : r \in Repos, c \in held}
      \cup {[Rq(op, AnyRepo, 0) EXCEPT !.key = k] : op \in {"add", "remove"}, k \in Keys}
      \cup {[Rq("complete", AnyRepo, c) EXCEPT !.drill = d] : c \in held, d \in drills}
      \cup {Rq(op, AnyRepo, 0) : op \in {"drill", "platform"}}

Seals(rq) == rq.op \in {"create", "regenerate", "drill"}

\* Mutant: packages sealed to earlier recipients are not reported.
escrowHealth_NotResealing(s) ==
    LET kept == {r \in Exists(s) : s.repos[r].status # "retired"}
    IN  {<<"not_confirmed", r>> : r \in {q \in kept : s.repos[q].confirmed = "no"}}
          \cup {<<"reconfirm_due", r>> : r \in {q \in kept : s.repos[q].confirmed = "old"}}
          \cup (IF Cardinality(s.recipients) < MIN_RECIPIENTS
                THEN {<<"too_few_recipients">>} ELSE {})
          \cup (IF s.lastDrill = "recent" THEN {} ELSE {<<"drill_due">>})

(* escrowHealth: the problems, by Repository.                              *)
escrowHealth(s) ==
    LET kept == {r \in Exists(s) : s.repos[r].status # "retired"}
        unconfirmed == {r \in kept : s.repos[r].confirmed = "no"}
        old == {r \in kept : s.repos[r].confirmed = "old"}
        resealing == {r \in kept : s.repos[r].sealed # s.recipients}
    IN  {<<"not_confirmed", r>> : r \in unconfirmed}
          \cup {<<"reconfirm_due", r>> : r \in old}
          \cup {<<"recipients_changed", r>> : r \in resealing}
          \cup (IF Cardinality(s.recipients) < MIN_RECIPIENTS
                THEN {<<"too_few_recipients">>} ELSE {})
          \cup (IF s.lastDrill = "recent" THEN {} ELSE {<<"drill_due">>})

OtherManager ==
    /\ others < MaxOthers
    /\ others' = others + 1
    /\ \E rq \in Requests(files, srv.drills) :
          LET a == HandleRequest(srv, rq)
          IN  /\ a.ok
              /\ a.srv.packages <= MaxPackages
              /\ srv' = a.srv
              /\ files' \in {files, files \cup ({a.pkg} \ {0})}
    /\ UNCHANGED <<cached, dlg, inflight, sent>>

(* The grace period of a deletion ends; advance retires what is due.  The  *)
(* behaviours are shorter than the 90 days and the year after which        *)
(* confirmations and drills count as old.                                  *)
GraceEnds ==
    \E r \in Repos :
       /\ srv.repos[r].status = "pending_deletion"
       /\ ~ srv.repos[r].due
       /\ srv' = [srv EXCEPT !.repos[r].due = TRUE]
       /\ UNCHANGED <<userVars, others>>

advance ==
    \E r \in Repos :
       /\ srv.repos[r].status = "pending_deletion"
       /\ srv.repos[r].due
       /\ srv' = [srv EXCEPT !.repos[r].status = "retired"]
       /\ UNCHANGED <<userVars, others>>

PlatformRunEnds ==
    /\ srv.platform = "running"
    /\ srv' = finishPlatform(srv)
    /\ UNCHANGED <<userVars, others>>

-----------------------------------------------------------------------------
(* The console.  What it shows was read at some earlier moment.            *)

RepositoriesTable(s) ==
    [r \in Repos |-> [status |-> s.repos[r].status, isSystem |-> s.repos[r].isSystem]]

EscrowRecipients(s) == s.recipients

EscrowDrills(s) == s.drills

BackupsTable(s) == s.platform

Shown(s) == [repos |-> RepositoriesTable(s), health |-> escrowHealth(s),
             recipients |-> EscrowRecipients(s), drills |-> EscrowDrills(s),
             platform |-> BackupsTable(s)]

Dialog(kind, r, place, step) ==
    [kind |-> kind, repo |-> r, place |-> place, step |-> step, pkg |-> 0,
     downloaded |-> FALSE, busy |-> 0]

NoDialog == Dialog("none", AnyRepo, "page", "intro")

(* The part of the page a dialog hangs on is still there: the problem of   *)
(* the health panel, the escrow section or card of the detail page, the    *)
(* row of the drill.                                                       *)
Mounted(d, c) ==
    CASE d.kind \in {"none", "create", "drill"} -> TRUE
      [] d.kind = "complete" -> d.pkg \in c.drills
      [] d.kind = "card" -> c.repos[d.repo].status = "awaiting_escrow"
      [] OTHER -> IF d.place = "page"
                  THEN c.repos[d.repo].status \notin {"awaiting_escrow", "retired"}
                  ELSE <<d.place, d.repo>> \in c.health

DialogRendered(d, c) == IF Mounted(d, c) THEN d ELSE NoDialog

(* The queries of the page are read again: at their intervals, on focus or *)
(* when they are invalidated.  A dialog goes with the part it hangs on     *)
(* (and is taken for the same one should that part come back).             *)
Refetch ==
    /\ cached # Shown(srv)
    /\ cached' = Shown(srv)
    /\ dlg' = DialogRendered(dlg, cached')
    /\ UNCHANGED <<srv, files, inflight, sent, others>>

-----------------------------------------------------------------------------
(* The short dialogs and buttons: what each can ask for, from what the     *)
(* page shows.                                                             *)

Status(r) == cached.repos[r].status

Offer(op, rs) == {Rq(op, r, 0) : r \in rs}

canDeleteRepository(r) == Status(r) \in {"ready", "awaiting_escrow", "unavailable"}

DeleteRepositoryButton == Offer("delete", {r \in Repos : canDeleteRepository(r)})

RepositoryDeletionBanner(r) == Status(r) = "pending_deletion"

RepositoryUndeleteButton == Offer("undelete", {r \in Repos : RepositoryDeletionBanner(r)})

DesignateSystemButton ==
    Offer("system", {r \in Repos : /\ ~ cached.repos[r].isSystem
                                   /\ Status(r) \notin {"absent", "retired", "pending_deletion"}})

ReindexButton == Offer("reindex", {r \in Repos : Status(r) \notin {"absent", "pending_deletion"}})

DownloadEscrowButton == Offer("package", {r \in Repos : Status(r) # "absent"})

AddRecipientDialog == {[Rq("add", AnyRepo, 0) EXCEPT !.key = k] : k \in Keys}

RemoveRecipientButton == {[Rq("remove", AnyRepo, 0) EXCEPT !.key = k] : k \in cached.recipients}

RunNowButton == Offer("platform", {r \in {AnyRepo} : cached.platform # "running"})

(* An open dialog hides the page; the dialog and the card that ask for the *)
(* code of a stored package have a download of their own.                  *)
Clicks ==
    IF dlg # NoDialog
    THEN {rq \in DownloadEscrowButton : rq.repo = dlg.repo /\ dlg.kind \in {"confirm", "card"}}
    ELSE DeleteRepositoryButton \cup RepositoryUndeleteButton \cup DesignateSystemButton
           \cup ReindexButton \cup DownloadEscrowButton \cup AddRecipientDialog
           \cup RemoveRecipientButton \cup RunNowButton

(* The queries the mutations invalidate, and so read again at once.        *)
Invalidates(op) ==
    CASE op \in {"regenerate", "delete", "undelete"} -> {"repos", "health"}
      [] op = "system" -> {"repos", "health", "platform"}
      [] op \in {"create", "confirm", "reindex"} -> {"repos"}
      [] op \in {"add", "remove"} -> {"recipients"}
      [] op = "drill" -> {"drills"}
      [] op = "complete" -> {"drills", "health"}
      [] op = "platform" -> {"platform"}
      [] OTHER -> {}

Reread(parts, s) ==
    [part \in DOMAIN cached |-> IF part \in parts THEN Shown(s)[part] ELSE cached[part]]

(* One click, the server's answer and what the console makes of it.        *)
Click ==
    /\ sent < MaxRequests
    /\ sent' = sent + 1
    /\ \E rq \in Clicks :
          LET a == HandleRequest(srv, rq)
          IN  /\ srv' = a.srv
              /\ files' = files \cup ({a.pkg} \ {0})
              /\ cached' = IF a.ok THEN Reread(Invalidates(rq.op), a.srv) ELSE cached
    /\ UNCHANGED <<dlg, inflight, others>>

-----------------------------------------------------------------------------
(* The dialogs of several steps, and the parts of the page that open them. *)

CreateRepositoryDialog == {Dialog("create", AnyRepo, "page", "intro")}

StartDrillDialog == {Dialog("drill", AnyRepo, "page", "intro")}

CompleteDrillDialog ==
    {[Dialog("complete", AnyRepo, "page", "confirm") EXCEPT !.pkg = d] : d \in cached.drills}

RegenerateEscrowDialog(r, place) == Dialog("regenerate", r, place, "intro")

ReconfirmEscrowDialog(r, place) == Dialog("confirm", r, place, "confirm")

(* EscrowCard and the escrow section of the detail page.                   *)
RepositoryDetailBody ==
    (UNION {{RegenerateEscrowDialog(r, "page"), ReconfirmEscrowDialog(r, "page")} :
              r \in {q \in Repos : Status(q) \notin {"absent", "awaiting_escrow", "retired"}}})
      \cup {Dialog("card", r, "page", "confirm") :
              r \in {q \in Repos : Status(q) = "awaiting_escrow"}}

(* The health panel: a fix for every problem of a Repository.              *)
ProblemFix ==
    {IF p[1] = "recipients_changed" THEN RegenerateEscrowDialog(p[2], p[1])
                                    ELSE ReconfirmEscrowDialog(p[2], p[1]) :
       p \in {q \in cached.health : Len(q) = 2}}

Send(rq, from) ==
    /\ sent < MaxRequests
    /\ sent' = sent + 1
    /\ inflight' = inflight \cup {[id |-> sent + 1, rq |-> rq,
                                   from |-> [kind |-> from.kind, place |-> from.place],
                                   answered |-> FALSE, ok |-> FALSE, pkg |-> 0]}

(* onOpenChange(true): the dialog starts afresh, also when an earlier      *)
(* request of it is still on its way.                                      *)
OpenDialog ==
    /\ dlg = NoDialog
    /\ dlg' \in CreateRepositoryDialog \cup StartDrillDialog \cup CompleteDrillDialog
                  \cup RepositoryDetailBody \cup ProblemFix
    /\ UNCHANGED <<srv, files, cached, inflight, sent, others>>

(* Escape closes a dialog at any time, busy or not.  What a closed dialog  *)
(* still holds is reset before it is shown again.                          *)
CloseDialog ==
    /\ dlg # NoDialog
    /\ dlg' = NoDialog
    /\ UNCHANGED <<srv, files, cached, inflight, sent, others>>

(* The first step's button: create, regenerate or start the drill.  The    *)
(* create form is blocked while too few recipients are known.              *)
SubmitFirst ==
    /\ dlg # NoDialog /\ dlg.step = "intro" /\ dlg.busy = 0
    /\ dlg' = [dlg EXCEPT !.busy = sent + 1]
    /\ CASE dlg.kind = "create" ->
               /\ Cardinality(cached.recipients) >= MIN_RECIPIENTS
               /\ \E r \in Repos, d \in BOOLEAN :
                     Send([Rq("create", r, 0) EXCEPT !.default = d], dlg)
         [] OTHER -> Send(Rq(dlg.kind, dlg.repo, 0), dlg)
    /\ UNCHANGED <<srv, files, cached, others>>

DownloadPackage ==
    /\ dlg.step = "package" /\ dlg.pkg # 0
    /\ files' = files \cup {dlg.pkg}
    /\ dlg' = [dlg EXCEPT !.downloaded = TRUE]
    /\ UNCHANGED <<srv, cached, inflight, sent, others>>

NextOrBack ==
    /\ \/ /\ dlg.step = "package" /\ dlg.downloaded
          /\ dlg' = [dlg EXCEPT !.step = "confirm"]
       \/ /\ dlg.step = "confirm" /\ dlg.kind \in {"create", "regenerate", "drill"}
          /\ dlg' = [dlg EXCEPT !.step = "package", !.busy = 0]
    /\ UNCHANGED <<srv, files, cached, inflight, sent, others>>

(* The two code forms; the code is read out of some package that was       *)
(* downloaded.                                                             *)
EscrowConfirmForm(c) == Rq("confirm", dlg.repo, c)

DrillCodeForm(c) == [Rq("complete", AnyRepo, c) EXCEPT !.drill = dlg.pkg]

EnterCode ==
    /\ dlg.step = "confirm" /\ dlg.busy = 0
    /\ dlg' = [dlg EXCEPT !.busy = sent + 1]
    /\ \E c \in files :
          Send(IF dlg.kind \in {"drill", "complete"} THEN DrillCodeForm(c)
                                                     ELSE EscrowConfirmForm(c), dlg)
    /\ UNCHANGED <<srv, files, cached, others>>

-----------------------------------------------------------------------------
(* Requests and their answers, which may overtake each other.              *)

ServerHandles(x) ==
    LET a == HandleRequest(srv, x.rq)
    IN  /\ ~ x.answered
        /\ a.srv.packages <= MaxPackages
        /\ srv' = a.srv
        /\ inflight' = (inflight \ {x}) \cup
               {[x EXCEPT !.answered = TRUE, !.ok = a.ok, !.pkg = a.pkg]}
        /\ UNCHANGED <<files, cached, dlg, sent, others>>

(* The dialog a request came from is open, still or again.                 *)
FromHere(x) == x.from = [kind |-> dlg.kind, place |-> dlg.place]
                 /\ (dlg.kind \in {"create", "drill"} \/ dlg.repo = x.rq.repo)

(* The dialog takes the answer; of the queries the mutation invalidates,   *)
(* the health is slower to come back (Refetch).                            *)
OnSuccess(x) ==
    /\ x.answered /\ x.ok
    /\ inflight' = inflight \ {x}
    /\ cached' = Reread(Invalidates(x.rq.op) \ {"health"}, srv)
    /\ dlg' = DialogRendered(IF ~ FromHere(x) THEN dlg
                         ELSE IF Seals(x.rq) THEN [dlg EXCEPT !.pkg = x.pkg, !.step = "package",
                                                              !.repo = x.rq.repo, !.busy = 0]
                         ELSE [dlg EXCEPT !.step = "done", !.busy = 0], cached')
    /\ UNCHANGED <<srv, files, sent, others>>

(* Refused, or the request or its answer was lost.                         *)
OnError(x) ==
    /\ inflight' = inflight \ {x}
    /\ dlg' = [dlg EXCEPT !.busy = IF @ = x.id THEN 0 ELSE @]
    /\ UNCHANGED <<srv, files, cached, sent, others>>

-----------------------------------------------------------------------------

RepoInit ==
    /\ srv \in {[repos |-> rs, recipients |-> FirstRecipients, packages |-> Cardinality(Repos),
                  drills |-> {}, lastDrill |-> last, platform |-> "succeeded"] :
                 rs \in InitialRepos, last \in {"old", "recent"}}
    /\ files = {srv.repos[r].code : r \in {q \in Repos : srv.repos[q].confirmed # "no"}}
    /\ cached = Shown(srv)
    /\ dlg = NoDialog
    /\ inflight = {}
    /\ sent = 0
    /\ others = 0

RepoNext ==
    \/ OtherManager
    \/ GraceEnds
    \/ advance
    \/ PlatformRunEnds
    \/ Refetch
    \/ Click
    \/ OpenDialog
    \/ CloseDialog
    \/ SubmitFirst
    \/ DownloadPackage
    \/ NextOrBack
    \/ EnterCode
    \/ \E x \in inflight : ServerHandles(x) \/ OnSuccess(x) \/ OnError(x)

(* The platform run's timer fires; the page is read again at its           *)
(* intervals.                                                              *)
RepoFairness ==
    /\ WF_repoVars(PlatformRunEnds)
    /\ WF_repoVars(Refetch)

RepoSpec == RepoInit /\ [][RepoNext]_repoVars /\ RepoFairness

-----------------------------------------------------------------------------

(* Types; a request counts for the dialog only while it is on its way.     *)
RepoTypeOK ==
    /\ srv.repos \in [Repos -> RepoRows]
    /\ srv.recipients \subseteq Keys
    /\ files \subseteq 1 .. srv.packages
    /\ dlg.step \in {"intro", "package", "confirm", "done"}
    /\ dlg.busy \in {0} \cup {x.id : x \in inflight}

(* The routes that move the two roles around (create with default,         *)
(* designate, delete, undelete) leave at most one default Repository, in   *)
(* use or about to be, and at most one System Repository.                  *)
OneDefaultOneSystem == SingleRoles(srv.repos)

(* An escrow that counts as confirmed is that of the package the server    *)
(* would hand out now, and somebody has downloaded that package: however   *)
(* regenerations and confirmations of several managers overtake each       *)
(* other, nobody confirms with the code of an older package.               *)
ConfirmedIsHeld ==
    \A r \in Repos : srv.repos[r].confirmed # "no" => srv.repos[r].code \in files

(* The health panel's promise: with no problem left, every Repository that *)
(* is not retired can be recovered by every current recipient from a       *)
(* package that was downloaded, and there are two of them at least.        *)
HealthyIsRecoverable ==
    escrowHealth(srv) = {} =>
        /\ \E k, l \in srv.recipients : k # l
        /\ \A r \in Exists(srv) :
              srv.repos[r].status # "retired" =>
                 \A k \in srv.recipients : \E p \in files :
                    p = srv.repos[r].code /\ k \in srv.repos[r].sealed

(* A Repository comes into use only with a confirmed escrow, also when a   *)
(* deletion is undone; it is retired only at the end of a grace period     *)
(* that no undelete has cut short, and stays retired.                      *)
EscrowBeforeUse ==
    [][\A r \in Repos :
         LET old == srv.repos[r]
             new == srv'.repos[r]
         IN  /\ new.status = "ready" /\ old.status # "ready" => new.confirmed # "no"
             /\ new.status = "retired" /\ old.status # "retired" =>
                   old.status = "pending_deletion" /\ old.due
             /\ old.status = "retired" => new.status = "retired"]_repoVars

(* A self-backup ends, and the platform page stops showing it as running.  *)
PlatformRunIsSeen == []<>(cached.platform # "running")

(* The steps of the regenerate dialog: "Regenerate -> download -> confirm".*)
(* Once it has the new package, a read of the page does not take it away   *)
(* before the user is through.                                             *)
PackageStaysShown ==
    [][Refetch /\ dlg.kind = "regenerate" /\ dlg.step \in {"package", "confirm"}
         => dlg' = dlg]_repoVars
=============================================================================
