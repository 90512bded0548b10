----------------------------- MODULE AppsConsole ----------------------------
(***************************************************************************)
(* Grouping standalone containers of a host into a manual application, and *)
(* taking the group apart again.                                           *)
(*                                                                         *)
(* web/scripts/mock-fleet.mjs (the routes POST and DELETE /applications),  *)
(* mock-live.mjs (containers); web/src/components/applications/            *)
(* group-containers-dialog.tsx, delete-application-dialog.tsx,             *)
(* applications-view.tsx, fleet/containers-view.tsx.                       *)
(*                                                                         *)
(* One host.  An application is [id, name, kind, of]: the containers it is *)
(* made of.  A standalone container is an application of its own name.     *)
(***************************************************************************)
EXTENDS Naturals, FiniteSets

CONSTANTS
    Containers,   \* the standalone containers, strings
    GroupNames,   \* the names typed for a group, strings
    MaxPosts,     \* bound: requests, of all
    MaxStrays     \* bound: deletions of others, lost answers

ASSUME AppsConsoleAssumption == MaxPosts \in Nat /\ MaxStrays \in Nat

VARIABLES
    fleet,    \* the applications of the server
    place,    \* the page: "apps", "app" (the one just made) or "else"
    appsQ,    \* the applications as the list has them cached
    grp,      \* the dialog "Group containers": [open, picked, name, busy, error]
    del,      \* the dialog "Delete" of a row: [id, error], id 0 when closed
    posts,    \* the requests under way: [n, kind, name, of, id, st], with here (the page
              \* that sent it is open) and current (so is the dialog, or the row)
    made,     \* how many requests there were
    strays

appUi == <<place, appsQ, grp, del, posts>>
appsVars == <<fleet, appUi, made, strays>>

-----------------------------------------------------------------------------
(* The server.                                                             *)

Standalone(c) == [id |-> 0, name |-> c, kind |-> "container", of |-> {c}]
Named(apps, n) == {a \in apps : a.name = n}
Members(apps, wanted) == {a \in apps : a.kind = "container" /\ a.name \in wanted}

(* POST /applications: every container must be standalone, and the name    *)
(* free, those of the containers included.                                 *)
groupOk(apps, n, wanted) ==
    /\ wanted # {}
    /\ \A c \in wanted : Members(apps, {c}) # {}
    /\ Named(apps, n) = {}

groupContainers(apps, n, wanted, id) ==
    (apps \ Members(apps, wanted)) \cup {[id |-> id, name |-> n, kind |-> "manual", of |-> wanted]}

(* DELETE /applications/{id}: the containers are standalone again.         *)
deleteOkay(apps, id) == \E a \in apps : a.id = id /\ a.kind = "manual"

deleteApplication(apps, id) ==
    LET a == CHOOSE x \in apps : x.id = id
    IN  (apps \ {a}) \cup {Standalone(c) : c \in a.of}

(* GET /containers: every container with the application it belongs to.    *)
containersOut(apps) == {<<c, a>> \in Containers \X apps : c \in a.of}

-----------------------------------------------------------------------------
(* The page.                                                               *)

NoGroup == [open |-> FALSE, picked |-> {}, name |-> "", busy |-> FALSE, error |-> FALSE]
NoDelete == [id |-> 0, error |-> FALSE]
Dialogs == grp.open \/ del.id # 0

standalone(q) == {a.name : a \in {x \in q : x.kind = "container"}}
manual(q) == {a \in q : a.kind = "manual"}

LeftPage == {[p EXCEPT !.here = FALSE, !.current = FALSE] : p \in posts}

GoToApps ==
    /\ place # "apps"
    /\ place' = "apps" /\ appsQ' = fleet
    /\ posts' = LeftPage
    /\ UNCHANGED <<fleet, grp, del, made, strays>>

GoElse ==
    /\ place # "else" /\ ~Dialogs
    /\ place' = "else" /\ appsQ' = {}
    /\ grp' = NoGroup
    /\ posts' = LeftPage
    /\ UNCHANGED <<fleet, del, made, strays>>

(* An event or a focus reads the list again; a row that is gone takes its  *)
(* dialog along.                                                           *)
RowStays(q) == del.id = 0 \/ \E a \in q : a.id = del.id

Shows(q, ps) ==
    /\ appsQ' = q
    /\ del' = IF RowStays(q) THEN del ELSE NoDelete
    /\ posts' = {[p EXCEPT !.current = @ /\ (p.kind = "group" \/ RowStays(q))] : p \in ps}

RefetchApps ==
    /\ place = "apps" /\ appsQ # fleet
    /\ Shows(fleet, posts)
    /\ UNCHANGED <<fleet, place, grp, made, strays>>

(* GroupContainersDialog                                                   *)
OpenGroup ==
    /\ place = "apps" /\ ~Dialogs
    /\ grp' = [grp EXCEPT !.open = TRUE]
    /\ UNCHANGED <<fleet, place, appsQ, del, posts, made, strays>>

CloseGroup ==
    /\ grp.open
    /\ grp' = NoGroup
    /\ posts' = {[p EXCEPT !.current = @ /\ p.kind # "group"] : p \in posts}
    /\ UNCHANGED <<fleet, place, appsQ, del, made, strays>>

EditGroup ==
    /\ grp.open /\ ~grp.busy
    /\ \/ \E c \in standalone(appsQ) :
              grp' = [grp EXCEPT !.picked = IF c \in @ THEN @ \ {c} ELSE @ \cup {c}]
       \/ \E n \in GroupNames \ {grp.name} : grp' = [grp EXCEPT !.name = n]
    /\ UNCHANGED <<fleet, place, appsQ, del, posts, made, strays>>

(* What is picked is sent, also a container that left the list since.      *)
SubmitGroup ==
    /\ grp.open /\ ~grp.busy /\ grp.name # "" /\ grp.picked # {}
    /\ made < MaxPosts /\ made' = made + 1
    /\ posts' = posts \cup {[n |-> made', kind |-> "group", name |-> grp.name, of |-> grp.picked,
                             id |-> made', here |-> TRUE, current |-> TRUE, st |-> "sent"]}
    /\ grp' = [grp EXCEPT !.busy = TRUE, !.error = FALSE]
    /\ UNCHANGED <<fleet, place, appsQ, del, strays>>

(* DeleteApplicationButton: closing it does not reset the mutation.        *)
Deleting(id) == \E p \in posts : p.kind = "delete" /\ p.id = id /\ p.current

OpenDeleteApp(a) ==
    /\ place = "apps" /\ ~Dialogs
    /\ del' = [NoDelete EXCEPT !.id = a.id]
    /\ UNCHANGED <<fleet, place, appsQ, grp, posts, made, strays>>

CloseDeleteApp ==
    /\ del.id # 0
    /\ del' = NoDelete
    /\ UNCHANGED <<fleet, place, appsQ, grp, posts, made, strays>>

SubmitDeleteApp ==
    /\ del.id # 0 /\ ~Deleting(del.id)
    /\ made < MaxPosts /\ made' = made + 1
    /\ posts' = posts \cup {[n |-> made', kind |-> "delete", name |-> "", of |-> {}, id |-> del.id,
                             here |-> TRUE, current |-> TRUE, st |-> "sent"]}
    /\ UNCHANGED <<fleet, place, appsQ, grp, del, strays>>

-----------------------------------------------------------------------------
(* The requests.                                                           *)

HandlePost(p) ==
    LET ok == IF p.kind = "group" THEN groupOk(fleet, p.name, p.of) ELSE deleteOkay(fleet, p.id)
    IN  /\ p.st = "sent"
        /\ fleet' = IF ~ok THEN fleet
                    ELSE IF p.kind = "group" THEN groupContainers(fleet, p.name, p.of, p.id)
                    ELSE deleteApplication(fleet, p.id)
        /\ posts' = (posts \ {p}) \cup {[p EXCEPT !.st = IF ok THEN "ok" ELSE "refused"]}
        /\ UNCHANGED <<place, appsQ, grp, del, made, strays>>

(* The dialog closes, the list is read again, and for a group the page of  *)
(* the new application is opened, from wherever the user went meanwhile.   *)
PostOnSuccess(p) ==
    /\ p.st = "ok"
    /\ grp' = IF p.kind = "group" THEN NoGroup ELSE grp
    /\ \/ /\ p.kind = "group"
          /\ place' = "app" /\ appsQ' = {} /\ del' = NoDelete
          /\ posts' = {[x EXCEPT !.here = FALSE, !.current = FALSE] : x \in posts \ {p}}
       \/ /\ p.kind = "delete" /\ place' = place
          /\ IF place = "apps" THEN Shows(fleet, posts \ {p})
             ELSE posts' = posts \ {p} /\ UNCHANGED <<appsQ, del>>
    /\ UNCHANGED <<fleet, made, strays>>

(* Refused, or lost.                                                       *)
PostOnError(p) ==
    /\ \/ p.st = "refused" /\ strays' = strays
       \/ p.st \in {"sent", "ok"} /\ strays < MaxStrays /\ strays' = strays + 1
    /\ grp' = IF p.kind # "group" \/ ~p.here THEN grp
              ELSE [grp EXCEPT !.error = TRUE, !.busy = @ /\ ~p.current]
    /\ del' = IF p.kind = "delete" /\ p.current /\ del.id = p.id THEN [del EXCEPT !.error = TRUE] ELSE del
    /\ posts' = posts \ {p}
    /\ UNCHANGED <<fleet, place, appsQ, made>>

(* Another manager groups, or deletes a group.                             *)
OtherGroups ==
    /\ strays < MaxStrays /\ strays' = strays + 1
    /\ made < MaxPosts /\ made' = made + 1
    /\ \/ \E n \in GroupNames, w \in SUBSET Containers :
              /\ groupOk(fleet, n, w) /\ fleet' = groupContainers(fleet, n, w, made')
       \/ \E a \in manual(fleet) : fleet' = deleteApplication(fleet, a.id)
    /\ UNCHANGED appUi

-----------------------------------------------------------------------------
AppsInit ==
    /\ fleet = {Standalone(c) : c \in Containers}
    /\ place = "else" /\ appsQ = {} /\ grp = NoGroup /\ del = NoDelete
    /\ posts = {} /\ made = 0 /\ strays = 0

PostSteps(p) == HandlePost(p) \/ PostOnSuccess(p) \/ PostOnError(p)

AppsNext ==
    \/ GoToApps \/ GoElse \/ RefetchApps
    \/ OpenGroup \/ CloseGroup \/ EditGroup \/ SubmitGroup
    \/ \E a \in manual(appsQ) : OpenDeleteApp(a)
    \/ CloseDeleteApp \/ SubmitDeleteApp
    \/ \E p \in posts : PostSteps(p)
    \/ OtherGroups

AppsSpec == AppsInit /\ [][AppsNext]_appsVars

-----------------------------------------------------------------------------
(* The values of the variables; a dialog that waits is open, and its       *)
(* request under way.                                                      *)
AppsTypeOK ==
    /\ \A a \in fleet : a.kind \in {"container", "manual"} /\ a.of \subseteq Containers /\ a.of # {}
    /\ place \in {"apps", "app", "else"}
    /\ grp.picked \subseteq Containers /\ grp.name \in GroupNames \cup {""}
    /\ grp.busy => grp.open /\ \E p \in posts : p.kind = "group" /\ p.current
    /\ del.id # 0 => \E a \in appsQ : a.id = del.id

(* Every container is listed with one application, however the managers'   *)
(* groups and deletions interleave, from lists that may be out of date     *)
(* (GET /containers over the applications of the two routes).              *)
ListedOnce ==
    \A c \in Containers : Cardinality({x \in containersOut(fleet) : x[1] = c}) = 1
=============================================================================
